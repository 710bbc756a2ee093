-------------------------- MODULE AdaptationProofs --------------------------
(***************************************************************************)
(* What the passes over the source make of any request, of any number of   *)
(* functions, parameters and calls: the user's functions stay what they    *)
(* are, and what the host sets arrives where it should.                    *)
(***************************************************************************)
EXTENDS Adaptation, RecursionProofs

\* What is said in a skeleton's kernels.
Vocabulary(K) ==
  K.locals \cup ToSet(Names(K.params)) \cup UNION {ToSet(c.args) : c \in K.calls}

\* The words of all programs.  (That a literal is a string cannot be proved.)
Word ==
  STRING \cup Reserved \cup {Expression}
    \cup UNION {UNION {Vocabulary(K) : K \in ToSet(SkeletonSource(s))} : s \in Skeletons}

ParameterType ==
  [name : Word, type : {"scalar", "buffer", "matrix", "own"},
   part : {"all", "data", "col_count"}]

CallType == [callee : Word, args : Seq(Word)]

FunctionType ==
  [name : Word, kernel : BOOLEAN, params : Seq(ParameterType),
   locals : SUBSET Word, calls : SUBSET CallType]

-----------------------------------------------------------------------------
(***************************************************************************)
(* What a pass does to one function, and to a program function by function.*)
(***************************************************************************)
Rewritten(params) == FlattenSeq([k \in DOMAIN params |-> RewriteParameter(params[k])])

Appended(f, parameter) == [f EXCEPT !.params = @ \o parameter]

Fixed(f) ==
  [f EXCEPT !.params = Rewritten(@), !.locals = @ \cup Matrices(f.params)]

Passed(f, to, arguments) ==
  [f EXCEPT !.calls =
    {IF c.callee = to THEN [c EXCEPT !.args = @ \o arguments] ELSE c : c \in @}]

Plain(args, to) ==
  [k \in DOMAIN args |-> IF args[k] = Expression THEN Expression ELSE to]

Renamed(f, from, to) ==
  [f EXCEPT
    !.name  = IF @ = from THEN to ELSE @,
    !.calls = {IF c.callee = from THEN Call(to, Plain(c.args, to)) ELSE c : c \in @}]

LEMMA TransferPointwise ==
  ASSUME NEW P, NEW from, NEW start, NEW to
  PROVE  TransferParameters(P, from, start, to) =
           [i \in DOMAIN P |-> IF P[i].name = to
                               THEN Appended(P[i], Extracted(P, from, start)) ELSE P[i]]
BY DEF TransferParameters, Appended

LEMMA FixPointwise ==
  ASSUME NEW P, NEW to
  PROVE  FixKernelParameter(P, to) =
           [i \in DOMAIN P |-> IF P[i].name = to /\ P[i].kernel THEN Fixed(P[i]) ELSE P[i]]
BY DEF FixKernelParameter, Fixed, Rewritten

LEMMA PassPointwise ==
  ASSUME NEW P, NEW from, NEW start, NEW to
  PROVE  TransferArguments(P, from, start, to) =
           [i \in DOMAIN P |-> Passed(P[i], to, Names(Extracted(P, from, start)))]
BY DEF TransferArguments, Passed

LEMMA RenamePointwise ==
  ASSUME NEW P, NEW from, NEW to
  PROVE  RenameFunction(P, from, to) = [i \in DOMAIN P |-> Renamed(P[i], from, to)]
BY DEF RenameFunction, Renamed, Plain

\* A sequence is made of two, if it is element by element.
MadeOf(P, u, v) ==
  /\ P = [i \in DOMAIN P |-> P[i]] /\ DOMAIN P = 1 .. Len(u) + Len(v)
  /\ \A i \in 1 .. Len(u) : P[i] = u[i]
  /\ \A i \in 1 .. Len(v) : P[Len(u) + i] = v[i]

LEMMA Halves ==
  ASSUME NEW S, NEW P, NEW u \in Seq(S), NEW v \in Seq(S), MadeOf(P, u, v)
  PROVE  P = u \o v
<1> DEFINE m == Len(u)
           n == Len(v)
           w == u \o v
<1>0. m \in Nat /\ n \in Nat BY LenProperties
<1>1. /\ w \in Seq(S) /\ Len(w) = m + n
      /\ \A i \in 1 .. m + n : w[i] = IF i <= m THEN u[i] ELSE v[i - m]
  BY ConcatProperties
<1>2. /\ DOMAIN P = 1 .. m + n
      /\ \A i \in 1 .. m : P[i] = u[i]
      /\ \A i \in 1 .. n : P[m + i] = v[i]
      /\ P = [i \in DOMAIN P |-> P[i]]
  BY DEF MadeOf
<1>3. w = [i \in 1 .. m + n |-> w[i]] BY <1>1, LenProperties
<1> HIDE DEF m, n, w
<1>4. ASSUME NEW i \in 1 .. m + n PROVE P[i] = w[i]
  <2>1. CASE i <= m
    <3>1. i \in 1 .. m BY <1>0, <2>1
    <3> QED BY <1>1, <1>2, <2>1, <3>1
  <2>2. CASE ~ (i <= m)
    <3>1. i - m \in 1 .. n /\ m + (i - m) = i BY <1>0, <2>2
    <3>2. P[m + (i - m)] = v[i - m] BY <1>2, <3>1
    <3> QED BY <1>1, <2>2, <3>1, <3>2
  <2> QED BY <2>1, <2>2
<1>5. P = w BY <1>2, <1>3, <1>4
<1> QED BY <1>5 DEF w

-----------------------------------------------------------------------------
(***************************************************************************)
(* Taking matrices apart.                                                  *)
(***************************************************************************)
LEMMA RewriteParameterType ==
  ASSUME NEW p \in ParameterType
  PROVE  /\ RewriteParameter(p) \in Seq(ParameterType)
         /\ p.type # "matrix" => RewriteParameter(p) = <<p>>
<1>1. CASE p.type = "matrix"
  <2> DEFINE a == [p EXCEPT !.part = "data", !.type = "buffer"]
             b == [p EXCEPT !.part = "col_count", !.type = "scalar"]
  <2>1. a \in ParameterType /\ b \in ParameterType BY DEF ParameterType
  <2>2. RewriteParameter(p) = <<a, b>> BY <1>1 DEF RewriteParameter
  <2> HIDE DEF a, b
  <2>3. <<a, b>> \in Seq(ParameterType) BY <2>1
  <2> QED BY <1>1, <2>2, <2>3
<1>2. CASE p.type # "matrix"
  <2>1. RewriteParameter(p) = <<p>> BY <1>2 DEF RewriteParameter
  <2>2. <<p>> \in Seq(ParameterType) OBVIOUS
  <2> QED BY <2>1, <2>2
<1> QED BY <1>1, <1>2

Pieces(X) == [k \in DOMAIN X |-> RewriteParameter(X[k])]

LEMMA PiecesType ==
  ASSUME NEW X \in Seq(ParameterType)
  PROVE  /\ Pieces(X) \in Seq(Seq(ParameterType)) /\ Len(Pieces(X)) = Len(X)
         /\ \A k \in 1 .. Len(X) : Pieces(X)[k] = RewriteParameter(X[k])
         /\ Rewritten(X) = FlattenSeq(Pieces(X))
         /\ Rewritten(X) \in Seq(ParameterType)
<1>1. DOMAIN X = 1 .. Len(X) /\ Len(X) \in Nat /\ \A k \in 1 .. Len(X) : X[k] \in ParameterType
  BY ElementOfSeq, LenProperties
<1>2. \A k \in 1 .. Len(X) : RewriteParameter(X[k]) \in Seq(ParameterType)
  BY <1>1, RewriteParameterType
<1>3. Pieces(X) = [k \in 1 .. Len(X) |-> RewriteParameter(X[k])] BY <1>1 DEF Pieces
<1> DEFINE R(k) == RewriteParameter(X[k])
<1> HIDE DEF R
<1>4. Pieces(X) \in [1 .. Len(X) -> Seq(ParameterType)] BY <1>2, <1>3
<1>5. Pieces(X) \in Seq(Seq(ParameterType)) BY <1>1, <1>4
<1>6. Len(Pieces(X)) = Len(X) BY <1>1, <1>4, <1>5, LenProperties
<1>7. Rewritten(X) = FlattenSeq(Pieces(X)) BY DEF Rewritten, Pieces
<1>8. Rewritten(X) \in Seq(ParameterType) BY <1>5, <1>7, FlattenType
<1> QED BY <1>3, <1>5, <1>6, <1>7, <1>8

LEMMA RewrittenConcat ==
  ASSUME NEW X \in Seq(ParameterType), NEW Y \in Seq(ParameterType)
  PROVE  Rewritten(X \o Y) = Rewritten(X) \o Rewritten(Y)
<1> DEFINE Z == X \o Y
           m == Len(X)
           n == Len(Y)
<1>1. /\ Z \in Seq(ParameterType) /\ Len(Z) = m + n /\ m \in Nat /\ n \in Nat
      /\ \A i \in 1 .. m : Z[i] = X[i]
      /\ \A i \in 1 .. n : Z[m + i] = Y[i]
  <2>1. /\ Z \in Seq(ParameterType) /\ Len(Z) = m + n /\ m \in Nat /\ n \in Nat
        /\ \A i \in 1 .. m + n : Z[i] = IF i <= m THEN X[i] ELSE Y[i - m]
    BY ConcatProperties, LenProperties
  <2> HIDE DEF Z, m, n
  <2>2. \A i \in 1 .. m : i \in 1 .. m + n /\ i <= m BY <2>1
  <2>3. \A i \in 1 .. n : m + i \in 1 .. m + n /\ ~ (m + i <= m) /\ (m + i) - m = i BY <2>1
  <2> QED BY <2>1, <2>2, <2>3
<1> DEFINE p == Pieces(X)
           q == Pieces(Y)
           t == Pieces(Z)
<1>2. /\ p \in Seq(Seq(ParameterType)) /\ Len(p) = m
      /\ \A k \in 1 .. m : p[k] = RewriteParameter(X[k])
      /\ Rewritten(X) = FlattenSeq(p)
  BY PiecesType
<1>3. /\ q \in Seq(Seq(ParameterType)) /\ Len(q) = n
      /\ \A k \in 1 .. n : q[k] = RewriteParameter(Y[k])
      /\ Rewritten(Y) = FlattenSeq(q)
  BY PiecesType
<1> HIDE DEF Z, p, q, m, n
<1>4. /\ t \in Seq(Seq(ParameterType)) /\ Len(t) = m + n
      /\ \A k \in 1 .. m + n : t[k] = RewriteParameter(Z[k])
      /\ Rewritten(Z) = FlattenSeq(t)
  BY <1>1, PiecesType
<1> HIDE DEF t
<1>5. t = p \o q
  <2>1. DOMAIN t = 1 .. Len(p) + Len(q) /\ t = [i \in DOMAIN t |-> t[i]]
    BY <1>2, <1>3, <1>4, LenProperties
  <2>2. ASSUME NEW i \in 1 .. Len(p) PROVE t[i] = p[i]
    <3>1. i \in 1 .. m /\ i \in 1 .. m + n BY <1>1, <1>2
    <3> QED BY <3>1, <1>1, <1>2, <1>4
  <2>3. ASSUME NEW i \in 1 .. Len(q) PROVE t[Len(p) + i] = q[i]
    <3>1. i \in 1 .. n /\ m + i \in 1 .. m + n BY <1>1, <1>3
    <3>2. t[m + i] = RewriteParameter(Y[i]) BY <3>1, <1>1, <1>4
    <3> QED BY <3>1, <3>2, <1>2, <1>3
  <2> DEFINE S == Seq(ParameterType)
  <2>4. p \in Seq(S) /\ q \in Seq(S) BY <1>2, <1>3
  <2> HIDE DEF S
  <2>5. MadeOf(t, p, q) BY <2>1, <2>2, <2>3 DEF MadeOf
  <2> QED BY <2>4, <2>5, Halves
<1>6. FlattenSeq(t) = FlattenSeq(p) \o FlattenSeq(q) BY <1>2, <1>3, <1>5, FlattenConcat
<1> QED BY <1>2, <1>3, <1>4, <1>6 DEF Z

LEMMA RewrittenNone ==
  /\ Rewritten(<< >>) = << >>
  /\ \A X \in Seq(ParameterType) :
       (\A k \in 1 .. Len(X) : X[k].type # "matrix") => Rewritten(X) = X
<1>1. Rewritten(<< >>) = << >>
  <2>1. [k \in DOMAIN << >> |-> RewriteParameter(<< >>[k])] = << >> OBVIOUS
  <2> QED BY <2>1, FlattenNone DEF Rewritten
<1> DEFINE Flat(X) == \A k \in 1 .. Len(X) : X[k].type # "matrix"
           A == {n \in Nat : \A X \in Seq(ParameterType) :
                   Len(X) = n /\ Flat(X) => Rewritten(X) = X}
<1>2. 0 \in A
  <2>1. \A X \in Seq(ParameterType) : Len(X) = 0 => X = << >> BY EmptySeq
  <2> QED BY <1>1, <2>1
<1>3. ASSUME NEW n \in Nat, n \in A PROVE n + 1 \in A
  <2> SUFFICES ASSUME NEW X \in Seq(ParameterType), Len(X) = n + 1, Flat(X)
               PROVE  Rewritten(X) = X
    OBVIOUS
  <2> DEFINE Y == SubSeq(X, 1, n)
             x == X[n + 1]
  <2>1. /\ Y \in Seq(ParameterType) /\ Len(Y) = n
        /\ \A i \in 1 .. n : Y[i] = X[i]
    BY SubSeqProperties
  <2>2. x \in ParameterType BY ElementOfSeq
  <2>3. n + 1 \in 1 .. Len(X) /\ \A i \in 1 .. n : i \in 1 .. Len(X) OBVIOUS
  <2>4. x.type # "matrix" /\ Flat(Y) BY <2>1, <2>3
  <2>5. Rewritten(Y) = Y BY <1>3, <2>1, <2>4
  <2>6. RewriteParameter(x) = <<x>> /\ <<x>> \in Seq(ParameterType)
    BY <2>2, <2>4, RewriteParameterType
  <2> HIDE DEF Y, Flat
  <2> DEFINE t == Pieces(X)
             s == Pieces(Y)
  <2>7. /\ t \in Seq(Seq(ParameterType)) /\ Len(t) = n + 1
        /\ \A k \in 1 .. n + 1 : t[k] = RewriteParameter(X[k])
        /\ Rewritten(X) = FlattenSeq(t)
    BY PiecesType
  <2>8. /\ s \in Seq(Seq(ParameterType)) /\ Len(s) = n
        /\ \A k \in 1 .. n : s[k] = RewriteParameter(Y[k])
        /\ Rewritten(Y) = FlattenSeq(s)
    BY <2>1, PiecesType
  <2> HIDE DEF s, t
  <2>9. OneLonger(ParameterType, s, t, <<x>>)
    BY <2>1, <2>3, <2>6, <2>7, <2>8 DEF OneLonger
  <2>10. Rewritten(X) = Y \o <<x>>
    <3> DEFINE last == <<x>>
    <3>1. OneLonger(ParameterType, s, t, last) BY <2>9
    <3> HIDE DEF last
    <3>2. FlattenSeq(t) = FlattenSeq(s) \o last BY <3>1, FlattenLast
    <3>3. Rewritten(X) = Y \o last BY <2>5, <2>7, <2>8, <3>2
    <3> QED BY <3>3 DEF last
  <2>11. X = Y \o <<x>>
    <3> DEFINE v == <<x>>
    <3>1. v \in Seq(ParameterType) /\ Len(v) = 1 /\ v[1] = X[n + 1] BY <2>2 DEF x
    <3>2. DOMAIN X = 1 .. n + 1 /\ X = [i \in DOMAIN X |-> X[i]] BY LenProperties
    <3> HIDE DEF v
    <3>3. \A i \in 1 .. Len(v) : X[Len(Y) + i] = v[i]
      <4>1. \A i \in 1 .. Len(v) : i = 1 BY <3>1
      <4> QED BY <4>1, <3>1, <2>1
    <3>4. Len(Y) + Len(v) = n + 1 BY <2>1, <3>1
    <3>5. MadeOf(X, Y, v) BY <2>1, <3>2, <3>3, <3>4 DEF MadeOf
    <3>6. X = Y \o v BY <2>1, <3>1, <3>5, Halves
    <3> QED BY <3>6 DEF v
  <2> QED BY <2>10, <2>11
<1>4. \A n \in Nat : n \in A
  <2> HIDE DEF A
  <2> QED BY <1>2, <1>3, Naturals
<1>5. ASSUME NEW X \in Seq(ParameterType), \A k \in 1 .. Len(X) : X[k].type # "matrix"
      PROVE  Rewritten(X) = X
  <2>1. Len(X) \in A BY <1>4, LenProperties
  <2> QED BY <1>5, <2>1
<1> QED BY <1>1, <1>5

-----------------------------------------------------------------------------
(***************************************************************************)
(* The parameters that a kernel gets for the user's, and what the host     *)
(* sets for them, go together.                                             *)
(***************************************************************************)
SettingType == [argument : Nat, part : {"all", "data", "col_count"}]

Setting(X, k) ==
  IF X[k].type = "matrix" THEN <<Set(k, "data"), Set(k, "col_count")>> ELSE <<Set(k, "all")>>

Settings(X) == FlattenSeq([k \in DOMAIN X |-> Setting(X, k)])

PartsOf(p) == IF p.type = "matrix" THEN {"data", "col_count"} ELSE {"all"}

\* Parameter q is a part of number k of X, and s is what is set for it.
Goes(X, k, q, s) ==
  /\ q.name = X[k].name /\ q.part \in PartsOf(X[k]) /\ q.type # "matrix"
  /\ s = Set(k, q.part)

\* u and v are for the numbers from K of X.
Matched(X, K, u, v) ==
  /\ Len(u) = Len(v)
  /\ \A i \in 1 .. Len(u) : \E k \in K : Goes(X, k, u[i], v[i])
  /\ \A k \in K : \A p \in PartsOf(X[k]) :
       \E i \in 1 .. Len(u) : Goes(X, k, u[i], v[i]) /\ u[i].part = p
  /\ \A i, j \in 1 .. Len(u) : v[i] = v[j] => i = j

LEMMA SettingsDiffer ==
  ASSUME NEW k, NEW m, NEW p, NEW q, Set(k, p) = Set(m, q)
  PROVE  k = m /\ p = q
BY DEF Set

LEMMA MatchedPiece ==
  ASSUME NEW X \in Seq(ParameterType), NEW k \in 1 .. Len(X), X[k].part = "all"
  PROVE  /\ Setting(X, k) \in Seq(SettingType)
         /\ Matched(X, {k}, RewriteParameter(X[k]), Setting(X, k))
<1>1. X[k] \in ParameterType /\ k \in Nat BY ElementOfSeq, LenProperties
<1> DEFINE x == X[k]
<1>2. CASE x.type = "matrix"
  <2> DEFINE a == [x EXCEPT !.part = "data", !.type = "buffer"]
             b == [x EXCEPT !.part = "col_count", !.type = "scalar"]
             s == Set(k, "data")
             t == Set(k, "col_count")
  <2>1. RewriteParameter(x) = <<a, b>> /\ Setting(X, k) = <<s, t>>
    BY <1>2 DEF RewriteParameter, Setting
  <2>2. /\ a.name = x.name /\ a.part = "data" /\ a.type # "matrix"
        /\ b.name = x.name /\ b.part = "col_count" /\ b.type # "matrix"
    BY <1>1 DEF ParameterType
  <2>3. PartsOf(x) = {"data", "col_count"} BY <1>2 DEF PartsOf
  <2>4. s \in SettingType /\ t \in SettingType /\ s # t BY <1>1 DEF SettingType, Set
  <2> HIDE DEF a, b, s, t
  <2>5. Goes(X, k, a, s) /\ Goes(X, k, b, t) BY <2>2, <2>3 DEF Goes, s, t
  <2> DEFINE u == <<a, b>>
             v == <<s, t>>
  <2>6. /\ Len(u) = 2 /\ Len(v) = 2 /\ u[1] = a /\ u[2] = b /\ v[1] = s /\ v[2] = t
        /\ v \in Seq(SettingType)
    BY <2>4
  <2> HIDE DEF u, v
  <2>7. Matched(X, {k}, u, v)
    <3>0. \A i \in 1 .. 2 : i = 1 \/ i = 2 OBVIOUS
    <3>1. \A i \in 1 .. Len(u) : \E n \in {k} : Goes(X, n, u[i], v[i])
      BY <2>5, <2>6, <3>0
    <3>2. \A n \in {k} : \A p \in PartsOf(X[n]) :
            \E i \in 1 .. Len(u) : Goes(X, n, u[i], v[i]) /\ u[i].part = p
      <4>1. 1 \in 1 .. Len(u) /\ 2 \in 1 .. Len(u) BY <2>6
      <4> QED BY <2>2, <2>3, <2>5, <2>6, <4>1
    <3>3. \A i, j \in 1 .. Len(u) : v[i] = v[j] => i = j BY <2>4, <2>6, <3>0
    <3> QED BY <2>6, <3>1, <3>2, <3>3 DEF Matched
  <2> QED BY <2>1, <2>6, <2>7 DEF u, v
<1>3. CASE x.type # "matrix"
  <2> DEFINE s == Set(k, "all")
             u == <<x>>
             v == <<s>>
  <2>1. RewriteParameter(x) = u /\ Setting(X, k) = v BY <1>3 DEF RewriteParameter, Setting
  <2>2. s \in SettingType BY <1>1 DEF SettingType, Set
  <2>3. PartsOf(x) = {"all"} BY <1>3 DEF PartsOf
  <2>4. Goes(X, k, x, s) BY <1>3, <2>3 DEF Goes
  <2>5. Len(u) = 1 /\ Len(v) = 1 /\ u[1] = x /\ v[1] = s /\ v \in Seq(SettingType) BY <2>2
  <2> HIDE DEF u, v, s
  <2>6. Matched(X, {k}, u, v)
    <3>0. \A i \in 1 .. 1 : i = 1 OBVIOUS
    <3>1. 1 \in 1 .. Len(u) BY <2>5
    <3> QED BY <2>3, <2>4, <2>5, <3>0, <3>1 DEF Matched
  <2> QED BY <2>1, <2>5, <2>6
<1> QED BY <1>2, <1>3

LEMMA MatchedTogether ==
  ASSUME NEW X, NEW K, NEW L, K \cap L = {},
         NEW u \in Seq(ParameterType), NEW v \in Seq(SettingType), Matched(X, K, u, v),
         NEW w \in Seq(ParameterType), NEW o \in Seq(SettingType), Matched(X, L, w, o)
  PROVE  Matched(X, K \cup L, u \o w, v \o o)
<1> DEFINE m == Len(u)
           n == Len(w)
           x == u \o w
           y == v \o o
<1>1. /\ m \in Nat /\ n \in Nat /\ Len(v) = m /\ Len(o) = n
  BY LenProperties DEF Matched
<1>2. /\ Len(x) = m + n
      /\ \A i \in 1 .. m + n : x[i] = IF i <= m THEN u[i] ELSE w[i - m]
  BY ConcatProperties
<1>3. /\ Len(y) = Len(v) + Len(o)
      /\ \A i \in 1 .. Len(v) + Len(o) : y[i] = IF i <= Len(v) THEN v[i] ELSE o[i - Len(v)]
  BY ConcatProperties
<1>4. /\ \A i \in 1 .. m : \E k \in K : Goes(X, k, u[i], v[i])
      /\ \A k \in K : \A p \in PartsOf(X[k]) :
           \E i \in 1 .. m : Goes(X, k, u[i], v[i]) /\ u[i].part = p
      /\ \A i, j \in 1 .. m : v[i] = v[j] => i = j
  BY DEF Matched
<1>5. /\ \A i \in 1 .. n : \E k \in L : Goes(X, k, w[i], o[i])
      /\ \A k \in L : \A p \in PartsOf(X[k]) :
           \E i \in 1 .. n : Goes(X, k, w[i], o[i]) /\ w[i].part = p
      /\ \A i, j \in 1 .. n : o[i] = o[j] => i = j
  BY DEF Matched
<1> HIDE DEF m, n, x, y
<1>6. \A i \in 1 .. m : i \in 1 .. m + n /\ x[i] = u[i] /\ y[i] = v[i]
  <2>1. \A i \in 1 .. m : i \in 1 .. m + n /\ i <= m BY <1>1
  <2> QED BY <1>1, <1>2, <1>3, <2>1
<1>7. \A i \in 1 .. n : m + i \in 1 .. m + n /\ x[m + i] = w[i] /\ y[m + i] = o[i]
  <2>1. \A i \in 1 .. n : m + i \in 1 .. m + n /\ ~ (m + i <= m) /\ (m + i) - m = i BY <1>1
  <2> QED BY <1>1, <1>2, <1>3, <2>1
<1>8. \A i \in 1 .. m + n : i \in 1 .. m \/ \E j \in 1 .. n : i = m + j
  <2> SUFFICES ASSUME NEW i \in 1 .. m + n, ~ (i \in 1 .. m) PROVE \E j \in 1 .. n : i = m + j
    OBVIOUS
  <2>1. i - m \in 1 .. n /\ i = m + (i - m) BY <1>1
  <2> QED BY <2>1
<1>9. \A i \in 1 .. m + n : \E k \in K \cup L : Goes(X, k, x[i], y[i])
  <2> SUFFICES ASSUME NEW i \in 1 .. m + n PROVE \E k \in K \cup L : Goes(X, k, x[i], y[i])
    OBVIOUS
  <2>1. CASE i \in 1 .. m BY <1>4, <1>6, <2>1
  <2>2. CASE \E j \in 1 .. n : i = m + j BY <1>5, <1>7, <2>2
  <2> QED BY <1>8, <2>1, <2>2
<1>10. ASSUME NEW k \in K \cup L, NEW p \in PartsOf(X[k])
       PROVE  \E i \in 1 .. m + n : Goes(X, k, x[i], y[i]) /\ x[i].part = p
  <2>1. CASE k \in K
    <3>1. PICK i \in 1 .. m : Goes(X, k, u[i], v[i]) /\ u[i].part = p BY <1>4, <2>1
    <3> QED BY <3>1, <1>6
  <2>2. CASE k \in L
    <3>1. PICK i \in 1 .. n : Goes(X, k, w[i], o[i]) /\ w[i].part = p BY <1>5, <2>2
    <3> QED BY <3>1, <1>7
  <2> QED BY <2>1, <2>2
<1>11. \A i \in 1 .. m, j \in 1 .. n : v[i] # o[j]
  <2> SUFFICES ASSUME NEW i \in 1 .. m, NEW j \in 1 .. n, v[i] = o[j] PROVE FALSE
    OBVIOUS
  <2>1. PICK k \in K : Goes(X, k, u[i], v[i]) BY <1>4
  <2>2. PICK l \in L : Goes(X, l, w[j], o[j]) BY <1>5
  <2>3. Set(k, u[i].part) = Set(l, w[j].part) BY <2>1, <2>2 DEF Goes
  <2>4. k = l BY <2>3, SettingsDiffer
  <2> QED BY <2>4
<1>12. ASSUME NEW i \in 1 .. m + n, NEW j \in 1 .. m + n, y[i] = y[j] PROVE i = j
  <2>1. CASE i \in 1 .. m /\ j \in 1 .. m BY <1>4, <1>6, <1>12, <2>1
  <2>2. CASE i \in 1 .. m /\ \E b \in 1 .. n : j = m + b BY <1>6, <1>7, <1>11, <1>12, <2>2
  <2>3. CASE j \in 1 .. m /\ \E a \in 1 .. n : i = m + a BY <1>6, <1>7, <1>11, <1>12, <2>3
  <2>4. CASE (\E a \in 1 .. n : i = m + a) /\ (\E b \in 1 .. n : j = m + b)
    <3>1. PICK a \in 1 .. n : i = m + a BY <2>4
    <3>2. PICK b \in 1 .. n : j = m + b BY <2>4
    <3>3. o[a] = o[b] BY <1>7, <1>12, <3>1, <3>2
    <3>4. a = b BY <1>5, <3>3
    <3> QED BY <3>1, <3>2, <3>4
  <2> QED BY <1>8, <2>1, <2>2, <2>3, <2>4
<1>13. Len(x) = m + n /\ Len(y) = m + n BY <1>1, <1>2, <1>3
<1>14. Matched(X, K \cup L, x, y)
  <2>1. \A k \in K \cup L : \A p \in PartsOf(X[k]) :
          \E i \in 1 .. m + n : Goes(X, k, x[i], y[i]) /\ x[i].part = p
    BY <1>10
  <2>2. \A i, j \in 1 .. m + n : y[i] = y[j] => i = j BY <1>12
  <2> QED BY <1>9, <1>13, <2>1, <2>2 DEF Matched
<1> QED BY <1>14 DEF x, y

\* Parameters as the user gives them.
Whole(X) == \A k \in 1 .. Len(X) : X[k].part = "all"

LEMMA MatchedAll ==
  ASSUME NEW X \in Seq(ParameterType), Whole(X)
  PROVE  /\ Settings(X) \in Seq(SettingType)
         /\ Matched(X, 1 .. Len(X), Rewritten(X), Settings(X))
<1> DEFINE l == Len(X)
           p(n) == [k \in 1 .. n |-> RewriteParameter(X[k])]
           s(n) == [k \in 1 .. n |-> Setting(X, k)]
           Holds(n) == /\ p(n) \in Seq(Seq(ParameterType)) /\ Len(p(n)) = n
                       /\ s(n) \in Seq(Seq(SettingType)) /\ Len(s(n)) = n
                       /\ Matched(X, 1 .. n, FlattenSeq(p(n)), FlattenSeq(s(n)))
           A == {n \in Nat : n <= l => Holds(n)}
<1>0. l \in Nat /\ DOMAIN X = 1 .. l BY LenProperties
<1>1. ASSUME NEW k \in 1 .. l
      PROVE  /\ RewriteParameter(X[k]) \in Seq(ParameterType)
             /\ Setting(X, k) \in Seq(SettingType)
             /\ Matched(X, {k}, RewriteParameter(X[k]), Setting(X, k))
  <2>1. X[k] \in ParameterType /\ X[k].part = "all" BY ElementOfSeq DEF Whole
  <2> QED BY <2>1, MatchedPiece, RewriteParameterType
<1> HIDE DEF l
<1>2. ASSUME NEW n \in Nat, n <= l
      PROVE  /\ p(n) \in Seq(Seq(ParameterType)) /\ Len(p(n)) = n
             /\ s(n) \in Seq(Seq(SettingType)) /\ Len(s(n)) = n
             /\ DOMAIN p(n) = 1 .. n /\ DOMAIN s(n) = 1 .. n
  <2>0. \A k \in 1 .. n : k \in 1 .. l BY <1>0, <1>2
  <2>1. /\ p(n) \in [1 .. n -> Seq(ParameterType)]
        /\ s(n) \in [1 .. n -> Seq(SettingType)]
    BY <1>1, <2>0
  <2>2. p(n) \in Seq(Seq(ParameterType)) /\ s(n) \in Seq(Seq(SettingType))
    BY <2>1
  <2>3. DOMAIN p(n) = 1 .. n /\ DOMAIN s(n) = 1 .. n OBVIOUS
  <2> DEFINE a == p(n)
             b == s(n)
  <2>4. /\ a \in [1 .. n -> Seq(ParameterType)] /\ a \in Seq(Seq(ParameterType))
        /\ b \in [1 .. n -> Seq(SettingType)] /\ b \in Seq(Seq(SettingType))
    BY <2>1, <2>2
  <2> HIDE DEF a, b, p, s
  <2>5. Len(a) = n /\ Len(b) = n BY <1>2, <2>4, LenProperties
  <2> QED BY <2>2, <2>3, <2>5 DEF a, b
<1>3. 0 \in A
  <2>1. /\ p(0) \in Seq(Seq(ParameterType)) /\ Len(p(0)) = 0
        /\ s(0) \in Seq(Seq(SettingType)) /\ Len(s(0)) = 0
    BY <1>0, <1>2
  <2>2. p(0) = << >> /\ s(0) = << >>
    <3> HIDE DEF p, s
    <3> QED BY <2>1, EmptySeq
  <2>3. FlattenSeq(p(0)) = << >> /\ FlattenSeq(s(0)) = << >>
    <3> HIDE DEF p, s
    <3> QED BY <2>2, FlattenNone
  <2>4. Matched(X, 1 .. 0, << >>, << >>)
    <3>1. Len(<< >>) = 0 /\ 1 .. 0 = {} OBVIOUS
    <3> QED BY <3>1 DEF Matched
  <2> HIDE DEF p, s
  <2> QED BY <2>1, <2>3, <2>4
<1>4. ASSUME NEW n \in Nat, n \in A PROVE n + 1 \in A
  <2> SUFFICES ASSUME n + 1 <= l PROVE Holds(n + 1) OBVIOUS
  <2>1. n <= l /\ n + 1 \in Nat /\ n + 1 \in 1 .. l BY <1>0
  <2>2. Holds(n) BY <1>4, <2>1
  <2> DEFINE w == RewriteParameter(X[n + 1])
             o == Setting(X, n + 1)
             pn == p(n)
             sn == s(n)
             pm == p(n + 1)
             sm == s(n + 1)
  <2>3. /\ \A k \in 1 .. n : pm[k] = pn[k] /\ sm[k] = sn[k]
        /\ pm[n + 1] = w /\ sm[n + 1] = o
    <3>1. \A k \in 1 .. n : k \in 1 .. n + 1 BY <2>1
    <3>2. n + 1 \in 1 .. n + 1 BY <2>1
    <3>3. \A k \in 1 .. n : pn[k] = RewriteParameter(X[k]) /\ sn[k] = Setting(X, k) OBVIOUS
    <3>4. \A k \in 1 .. n + 1 : pm[k] = RewriteParameter(X[k]) /\ sm[k] = Setting(X, k)
      OBVIOUS
    <3> HIDE DEF pn, sn, pm, sm
    <3> QED BY <3>1, <3>2, <3>3, <3>4
  <2>4. /\ pm \in Seq(Seq(ParameterType)) /\ Len(pm) = n + 1
        /\ sm \in Seq(Seq(SettingType)) /\ Len(sm) = n + 1
    BY <1>2, <2>1
  <2>5. /\ w \in Seq(ParameterType) /\ o \in Seq(SettingType) /\ Matched(X, {n + 1}, w, o)
    BY <1>1, <2>1
  <2>6. /\ pn \in Seq(Seq(ParameterType)) /\ Len(pn) = n
        /\ sn \in Seq(Seq(SettingType)) /\ Len(sn) = n
        /\ Matched(X, 1 .. n, FlattenSeq(pn), FlattenSeq(sn))
    BY <2>2
  <2> HIDE DEF w, o, pn, sn, pm, sm
  <2>7. OneLonger(ParameterType, pn, pm, w) BY <2>3, <2>4, <2>5, <2>6 DEF OneLonger
  <2>8. OneLonger(SettingType, sn, sm, o) BY <2>3, <2>4, <2>5, <2>6 DEF OneLonger
  <2>9. FlattenSeq(pm) = FlattenSeq(pn) \o w /\ FlattenSeq(pn) \in Seq(ParameterType)
    BY <2>7, FlattenLast
  <2>10. FlattenSeq(sm) = FlattenSeq(sn) \o o /\ FlattenSeq(sn) \in Seq(SettingType)
    BY <2>8, FlattenLast
  <2>11. (1 .. n) \cap {n + 1} = {} /\ (1 .. n) \cup {n + 1} = 1 .. n + 1 BY <2>1
  <2>12. Matched(X, (1 .. n) \cup {n + 1}, FlattenSeq(pn) \o w, FlattenSeq(sn) \o o)
    BY <2>5, <2>6, <2>9, <2>10, <2>11, MatchedTogether
  <2>13. Matched(X, 1 .. n + 1, FlattenSeq(pm), FlattenSeq(sm)) BY <2>9, <2>10, <2>11, <2>12
  <2> QED BY <2>4, <2>13 DEF pm, sm
<1>5. \A n \in Nat : n \in A
  <2> HIDE DEF A
  <2> QED BY <1>3, <1>4, Naturals
<1>6. Holds(l) BY <1>0, <1>5
<1>7. Rewritten(X) = FlattenSeq(p(l)) /\ Settings(X) = FlattenSeq(s(l))
  BY <1>0 DEF Rewritten, Settings
<1>8. FlattenSeq(s(l)) \in Seq(SettingType)
  <2>1. s(l) \in Seq(Seq(SettingType)) BY <1>6
  <2> HIDE DEF s
  <2> QED BY <2>1, FlattenType
<1> HIDE DEF p, s
<1> QED BY <1>6, <1>7, <1>8 DEF l

\* What has been taken apart stays as it is.
LEMMA RewrittenTwice ==
  ASSUME NEW X \in Seq(ParameterType), Whole(X)
  PROVE  /\ \A i \in 1 .. Len(Rewritten(X)) : Rewritten(X)[i].type # "matrix"
         /\ Rewritten(Rewritten(X)) = Rewritten(X)
<1>1. Rewritten(X) \in Seq(ParameterType) BY PiecesType
<1>2. Matched(X, 1 .. Len(X), Rewritten(X), Settings(X)) BY MatchedAll
<1>3. \A i \in 1 .. Len(Rewritten(X)) : Rewritten(X)[i].type # "matrix"
  BY <1>2 DEF Matched, Goes
<1> QED BY <1>1, <1>3, RewrittenNone

-----------------------------------------------------------------------------
(***************************************************************************)
(* A kernel that has been given more parameters and arguments.             *)
(***************************************************************************)
Grown(f, e, A) ==
  [f EXCEPT !.params = @ \o Rewritten(e), !.locals = @ \cup Matrices(e),
            !.calls = {Call(c.callee, c.args \o A[c.callee]) : c \in @}]

ArgumentLists == [Placeholders -> Seq(Word)]

OwnKernel(f) ==
  /\ f \in FunctionType /\ f.kernel
  /\ \A i \in 1 .. Len(f.params) : f.params[i].type = "own" /\ f.params[i].part = "all"
  /\ \A c \in f.calls : c.callee \in Placeholders

LEMMA ToSetConcat ==
  ASSUME NEW S, NEW u \in Seq(S), NEW v \in Seq(S)
  PROVE  ToSet(u \o v) = ToSet(u) \cup ToSet(v)
<1> DEFINE m == Len(u)
           n == Len(v)
           w == u \o v
<1>1. /\ m \in Nat /\ n \in Nat /\ DOMAIN u = 1 .. m /\ DOMAIN v = 1 .. n
  BY LenProperties
<1>2. /\ w \in Seq(S) /\ Len(w) = m + n
      /\ \A i \in 1 .. m + n : w[i] = IF i <= m THEN u[i] ELSE v[i - m]
  BY ConcatProperties
<1> HIDE DEF m, n, w
<1>3. DOMAIN w = 1 .. m + n BY <1>2, LenProperties
<1>4. \A i \in 1 .. m : i \in 1 .. m + n /\ w[i] = u[i] BY <1>1, <1>2
<1>5. \A i \in 1 .. n : m + i \in 1 .. m + n /\ w[m + i] = v[i]
  <2>1. \A i \in 1 .. n : m + i \in 1 .. m + n /\ ~ (m + i <= m) /\ (m + i) - m = i BY <1>1
  <2> QED BY <1>2, <2>1
<1>6. \A i \in 1 .. m + n : w[i] \in ToSet(u) \/ w[i] \in ToSet(v)
  <2> SUFFICES ASSUME NEW i \in 1 .. m + n PROVE w[i] \in ToSet(u) \/ w[i] \in ToSet(v)
    OBVIOUS
  <2>1. CASE i <= m
    <3>1. i \in 1 .. m BY <1>1, <2>1
    <3> QED BY <3>1, <1>1, <1>4 DEF ToSet
  <2>2. CASE ~ (i <= m)
    <3>1. i - m \in 1 .. n BY <1>1, <2>2
    <3> QED BY <3>1, <1>1, <1>2, <2>2 DEF ToSet
  <2> QED BY <2>1, <2>2
<1>7. ToSet(w) \subseteq ToSet(u) \cup ToSet(v) BY <1>3, <1>6 DEF ToSet
<1>8. ToSet(u) \subseteq ToSet(w) BY <1>1, <1>3, <1>4 DEF ToSet
<1>9. ToSet(v) \subseteq ToSet(w)
  <2> SUFFICES ASSUME NEW i \in 1 .. n PROVE v[i] \in ToSet(w) BY <1>1 DEF ToSet
  <2> QED BY <1>3, <1>5 DEF ToSet
<1> QED BY <1>7, <1>8, <1>9 DEF w

LEMMA MatricesConcat ==
  ASSUME NEW X \in Seq(ParameterType), NEW Y \in Seq(ParameterType)
  PROVE  Matrices(X \o Y) = Matrices(X) \cup Matrices(Y)
<1>1. ToSet(X \o Y) = ToSet(X) \cup ToSet(Y) BY ToSetConcat
<1> HIDE DEF ToSet
<1> QED BY <1>1 DEF Matrices

LEMMA MatricesType ==
  ASSUME NEW X \in Seq(ParameterType)
  PROVE  /\ Matrices(X) \subseteq Word
         /\ (\A i \in 1 .. Len(X) : X[i].type # "matrix") => Matrices(X) = {}
<1>1. DOMAIN X = 1 .. Len(X) /\ \A i \in 1 .. Len(X) : X[i] \in ParameterType
  BY ElementOfSeq, LenProperties
<1>2. \A q \in ToSet(X) : q.name \in Word BY <1>1 DEF ToSet, ParameterType
<1>3. Matrices(X) \subseteq Word BY <1>2 DEF Matrices
<1>4. ASSUME \A i \in 1 .. Len(X) : X[i].type # "matrix" PROVE Matrices(X) = {}
  <2>1. \A q \in ToSet(X) : q.type # "matrix" BY <1>1, <1>4 DEF ToSet
  <2> QED BY <2>1 DEF Matrices
<1> QED BY <1>3, <1>4

LEMMA SameFunction ==
  ASSUME NEW f \in FunctionType, NEW g \in FunctionType,
         f.name = g.name, f.kernel = g.kernel, f.params = g.params,
         f.locals = g.locals, f.calls = g.calls
  PROVE  f = g
BY DEF FunctionType

LEMMA CallWithMore ==
  ASSUME NEW c \in CallType, NEW more \in Seq(Word)
  PROVE  /\ Call(c.callee, c.args \o more) \in CallType
         /\ Call(c.callee, c.args \o more).callee = c.callee
         /\ Call(c.callee, c.args \o more).args = c.args \o more
         /\ [c EXCEPT !.args = @ \o more] = Call(c.callee, c.args \o more)
         /\ Call(c.callee, c.args) = c
<1>1. c.callee \in Word /\ c.args \in Seq(Word) BY DEF CallType
<1>2. c.args \o more \in Seq(Word) BY <1>1, ConcatProperties
<1> DEFINE a == c.args \o more
<1>3. c = [callee |-> c.callee, args |-> c.args] BY DEF CallType
<1>4. [c EXCEPT !.args = @ \o more] = [callee |-> c.callee, args |-> c.args \o more]
  <2>1. [c EXCEPT !.args = a] = [callee |-> c.callee, args |-> a]
    <3> HIDE DEF a
    <3> QED BY DEF CallType
  <2> QED BY <2>1
<1> QED BY <1>1, <1>2, <1>3, <1>4 DEF Call, CallType

LEMMA GrownFields ==
  ASSUME NEW f, OwnKernel(f), NEW e \in Seq(ParameterType), NEW A \in ArgumentLists
  PROVE  LET g == Grown(f, e, A)
         IN  /\ g \in FunctionType /\ g.name = f.name /\ g.kernel
             /\ g.params = f.params \o Rewritten(e)
             /\ g.locals = f.locals \cup Matrices(e)
             /\ g.calls = {Call(c.callee, c.args \o A[c.callee]) : c \in f.calls}
<1>1. f \in FunctionType /\ f.kernel /\ \A c \in f.calls : c.callee \in Placeholders
  BY DEF OwnKernel
<1>2. /\ f.name \in Word /\ f.kernel \in BOOLEAN /\ f.params \in Seq(ParameterType)
      /\ f.locals \subseteq Word /\ f.calls \subseteq CallType
  BY <1>1 DEF FunctionType
<1> DEFINE p == f.params \o Rewritten(e)
           l == f.locals \cup Matrices(e)
           s == {Call(c.callee, c.args \o A[c.callee]) : c \in f.calls}
<1>3. p \in Seq(ParameterType) BY <1>2, PiecesType, ConcatProperties
<1>4. l \subseteq Word BY <1>2, MatricesType
<1>5. s \subseteq CallType
  <2>1. ASSUME NEW c \in f.calls PROVE Call(c.callee, c.args \o A[c.callee]) \in CallType
    <3>1. c \in CallType /\ A[c.callee] \in Seq(Word) BY <1>1, <1>2 DEF ArgumentLists
    <3> QED BY <3>1, CallWithMore
  <2> QED BY <2>1
<1>6. Grown(f, e, A) = [f EXCEPT !.params = p, !.locals = l, !.calls = s] BY DEF Grown
<1> HIDE DEF p, l, s
<1>7. Grown(f, e, A) = [name |-> f.name, kernel |-> f.kernel, params |-> p, locals |-> l, calls |-> s]
  BY <1>1, <1>6 DEF FunctionType
<1>8. Grown(f, e, A) \in FunctionType BY <1>2, <1>3, <1>4, <1>5, <1>7 DEF FunctionType
<1> QED BY <1>1, <1>7, <1>8 DEF p, l, s

\* Nothing is added to a kernel to begin with.
Nothing == [x \in Placeholders |-> << >>]

LEMMA GrownFromNothing ==
  ASSUME NEW f, OwnKernel(f)
  PROVE  Nothing \in ArgumentLists /\ Grown(f, << >>, Nothing) = f
<1> DEFINE e == << >>
           g == Grown(f, e, Nothing)
<1>0. Nothing \in ArgumentLists /\ \A x \in Placeholders : Nothing[x] = << >>
  <2>1. << >> \in Seq(Word) OBVIOUS
  <2> QED BY <2>1 DEF Nothing, ArgumentLists
<1>1. e \in Seq(ParameterType) /\ Len(e) = 0 OBVIOUS
<1>2. Rewritten(e) = << >> BY RewrittenNone
<1> HIDE DEF e
<1>3. Matrices(e) = {}
  <2>1. \A i \in 1 .. Len(e) : e[i].type # "matrix" BY <1>1
  <2> QED BY <1>1, <2>1, MatricesType
<1>4. /\ g \in FunctionType /\ g.name = f.name /\ g.kernel
      /\ g.params = f.params \o Rewritten(e)
      /\ g.locals = f.locals \cup Matrices(e)
      /\ g.calls = {Call(c.callee, c.args \o Nothing[c.callee]) : c \in f.calls}
  BY <1>0, <1>1, GrownFields
<1>5. /\ f \in FunctionType /\ f.kernel /\ f.params \in Seq(ParameterType)
      /\ \A c \in f.calls : c \in CallType /\ c.callee \in Placeholders
  BY DEF OwnKernel, FunctionType
<1>6. g.params = f.params BY <1>2, <1>4, <1>5, ConcatEmptySeq
<1>7. g.calls = f.calls
  <2>1. ASSUME NEW c \in f.calls PROVE Call(c.callee, c.args \o Nothing[c.callee]) = c
    <3>1. c.args \in Seq(Word) BY <1>5 DEF CallType
    <3>2. c.args \o << >> = c.args BY <3>1, ConcatEmptySeq
    <3>3. << >> \in Seq(Word) OBVIOUS
    <3>4. Call(c.callee, c.args) = c BY <1>5, <3>3, CallWithMore
    <3> QED BY <1>0, <1>5, <3>2, <3>4
  <2>2. {Call(c.callee, c.args \o Nothing[c.callee]) : c \in f.calls} = f.calls BY <2>1
  <2> QED BY <1>4, <2>2
<1>8. g.kernel = f.kernel /\ g.locals = f.locals BY <1>3, <1>4, <1>5 DEF FunctionType
<1> HIDE DEF g
<1>9. g = f BY <1>4, <1>5, <1>6, <1>7, <1>8, SameFunction
<1> QED BY <1>0, <1>9 DEF g, e

LEMMA GrownParameters ==
  ASSUME NEW f, OwnKernel(f), NEW e \in Seq(ParameterType), Whole(e),
         NEW more \in Seq(ParameterType), NEW A \in ArgumentLists
  PROVE  Fixed(Appended(Grown(f, e, A), more)) = Grown(f, e \o more, A)
<1> DEFINE g == Grown(f, e, A)
           h == Grown(f, e \o more, A)
           a == Appended(g, more)
           b == Fixed(a)
           R == Rewritten(e)
           M == Rewritten(more)
           p == f.params
<1>0. e \o more \in Seq(ParameterType) BY ConcatProperties
<1>1. /\ f \in FunctionType /\ p \in Seq(ParameterType)
      /\ \A i \in 1 .. Len(p) : p[i].type # "matrix"
  BY DEF OwnKernel, FunctionType
<1>2. Rewritten(p) = p /\ Matrices(p) = {} BY <1>1, RewrittenNone, MatricesType
<1>3. Rewritten(R) = R /\ Matrices(R) = {} /\ R \in Seq(ParameterType) /\ M \in Seq(ParameterType)
  BY RewrittenTwice, MatricesType, PiecesType
<1>4. Rewritten(e \o more) = R \o M /\ Matrices(e \o more) = Matrices(e) \cup Matrices(more)
  BY RewrittenConcat, MatricesConcat
<1>5. /\ g \in FunctionType /\ g.name = f.name /\ g.kernel
      /\ g.params = p \o R
      /\ g.locals = f.locals \cup Matrices(e)
      /\ g.calls = {Call(c.callee, c.args \o A[c.callee]) : c \in f.calls}
  BY GrownFields
<1>6. /\ h \in FunctionType /\ h.name = f.name /\ h.kernel
      /\ h.params = p \o Rewritten(e \o more)
      /\ h.locals = f.locals \cup Matrices(e \o more)
      /\ h.calls = {Call(c.callee, c.args \o A[c.callee]) : c \in f.calls}
  BY <1>0, GrownFields
<1> DEFINE q == (p \o R) \o more
<1> HIDE DEF p, R, M
<1>7. /\ p \o R \in Seq(ParameterType) /\ q \in Seq(ParameterType)
      /\ Rewritten(q) \in Seq(ParameterType)
  <2>1. p \o R \in Seq(ParameterType) BY <1>1, <1>3, ConcatProperties
  <2>2. q \in Seq(ParameterType) BY <2>1, ConcatProperties
  <2> QED BY <2>1, <2>2, PiecesType
<1>8. Rewritten(q) = p \o (R \o M)
  <2>1. Rewritten(p \o R) = p \o R BY <1>1, <1>2, <1>3, RewrittenConcat
  <2>2. Rewritten(q) = (p \o R) \o M BY <1>7, <2>1, RewrittenConcat DEF M
  <2>3. (p \o R) \o M = p \o (R \o M) BY <1>1, <1>3, ConcatAssociative
  <2> QED BY <2>2, <2>3
<1>9. Matrices(q) = Matrices(more)
  <2> DEFINE pR == p \o R
  <2>1. Matrices(pR) = Matrices(p) \cup Matrices(R) BY <1>1, <1>3, MatricesConcat
  <2>2. pR \in Seq(ParameterType) BY <1>7
  <2> HIDE DEF pR
  <2>3. Matrices(pR \o more) = Matrices(pR) \cup Matrices(more) BY <2>2, MatricesConcat
  <2> QED BY <1>2, <1>3, <2>1, <2>3 DEF pR
<1>10. a \in FunctionType /\ a = [g EXCEPT !.params = q]
  <2>1. a = [g EXCEPT !.params = q] BY <1>5 DEF Appended
  <2> HIDE DEF a, q, g
  <2> QED BY <1>5, <1>7, <2>1 DEF FunctionType
<1>11. a.params = q /\ a.name = g.name /\ a.kernel /\ a.locals = g.locals /\ a.calls = g.calls
  <2> HIDE DEF a, q, g
  <2> QED BY <1>5, <1>10 DEF FunctionType
<1> DEFINE l == a.locals \cup Matrices(q)
<1>12. b = [a EXCEPT !.params = Rewritten(q), !.locals = l] BY <1>11 DEF Fixed
<1>13. l \subseteq Word
  <2>1. a.locals \subseteq Word BY <1>10 DEF FunctionType
  <2> QED BY <2>1, <1>7, MatricesType
<1>14. /\ b \in FunctionType /\ b.params = Rewritten(q) /\ b.locals = l
       /\ b.name = a.name /\ b.kernel = a.kernel /\ b.calls = a.calls
  <2> DEFINE w == Rewritten(q)
  <2>1. b = [a EXCEPT !.params = w, !.locals = l] /\ w \in Seq(ParameterType) BY <1>7, <1>12
  <2> HIDE DEF a, b, q, l, w
  <2>2. b \in FunctionType /\ b.params = w /\ b.locals = l
        /\ b.name = a.name /\ b.kernel = a.kernel /\ b.calls = a.calls
    BY <1>10, <1>13, <2>1 DEF FunctionType
  <2> QED BY <2>2 DEF w
<1> HIDE DEF a, b, g, h, q, l
<1>15. b.params = h.params BY <1>4, <1>6, <1>8, <1>14
<1>16. b.locals = h.locals BY <1>4, <1>5, <1>6, <1>9, <1>11, <1>14 DEF l
<1>17. b.name = h.name /\ b.calls = h.calls BY <1>5, <1>6, <1>11, <1>14
<1>18. b.kernel = h.kernel
  <2>1. b.kernel \in BOOLEAN /\ h.kernel \in BOOLEAN BY <1>6, <1>14 DEF FunctionType
  <2>2. b.kernel /\ h.kernel BY <1>6, <1>11, <1>14
  <2> QED BY <2>1, <2>2
<1>19. b = h BY <1>6, <1>14, <1>15, <1>16, <1>17, <1>18, SameFunction
<1> QED BY <1>19 DEF a, b, g, h

More(A, to, more) == [A EXCEPT ![to] = A[to] \o more]

LEMMA GrownArguments ==
  ASSUME NEW f, OwnKernel(f), NEW e \in Seq(ParameterType), NEW A \in ArgumentLists,
         NEW to \in Placeholders, NEW more \in Seq(Word)
  PROVE  /\ More(A, to, more) \in ArgumentLists
         /\ Passed(Grown(f, e, A), to, more) = Grown(f, e, More(A, to, more))
<1> DEFINE B == More(A, to, more)
           g == Grown(f, e, A)
           h == Grown(f, e, B)
           b == Passed(g, to, more)
           grown(c) == Call(c.callee, c.args \o A[c.callee])
           passed(d) == IF d.callee = to THEN [d EXCEPT !.args = @ \o more] ELSE d
<1>0. A[to] \in Seq(Word) /\ A[to] \o more \in Seq(Word)
  BY ConcatProperties DEF ArgumentLists
<1>1. /\ B \in ArgumentLists
      /\ B[to] = A[to] \o more
      /\ \A x \in Placeholders : x # to => B[x] = A[x]
  <2> DEFINE l == A[to] \o more
  <2>1. B = [A EXCEPT ![to] = l] /\ l \in Seq(Word) BY <1>0 DEF More
  <2> HIDE DEF B, l
  <2>2. B \in ArgumentLists /\ B[to] = l /\ \A x \in Placeholders : x # to => B[x] = A[x]
    BY <2>1 DEF ArgumentLists
  <2> QED BY <2>2 DEF l
<1> HIDE DEF B
<1>2. \A c \in f.calls : c \in CallType /\ c.callee \in Placeholders /\ c.args \in Seq(Word)
  BY DEF OwnKernel, FunctionType, CallType
<1>3. /\ g \in FunctionType /\ g.name = f.name /\ g.kernel
      /\ g.params = f.params \o Rewritten(e)
      /\ g.locals = f.locals \cup Matrices(e)
      /\ g.calls = {grown(c) : c \in f.calls}
  BY GrownFields
<1>4. /\ h \in FunctionType /\ h.name = f.name /\ h.kernel
      /\ h.params = f.params \o Rewritten(e)
      /\ h.locals = f.locals \cup Matrices(e)
      /\ h.calls = {Call(c.callee, c.args \o B[c.callee]) : c \in f.calls}
  BY <1>1, GrownFields
<1>5. ASSUME NEW c \in f.calls
      PROVE  passed(grown(c)) = Call(c.callee, c.args \o B[c.callee])
  <2> DEFINE x == c.callee
             l == A[x]
  <2>1. c \in CallType /\ x \in Placeholders /\ c.args \in Seq(Word) /\ l \in Seq(Word)
    BY <1>2 DEF ArgumentLists
  <2> DEFINE d == Call(x, c.args \o l)
  <2>2. d \in CallType /\ d.callee = x /\ d.args = c.args \o l BY <2>1, CallWithMore
  <2>3. grown(c) = d OBVIOUS
  <2>4. CASE x = to
    <3>1. [d EXCEPT !.args = @ \o more] = Call(d.callee, d.args \o more)
      BY <2>2, CallWithMore
    <3>2. (c.args \o l) \o more = c.args \o (l \o more)
      <4> DEFINE a == c.args
      <4>1. a \in Seq(Word) /\ l \in Seq(Word) BY <2>1
      <4> HIDE DEF a, l
      <4>2. (a \o l) \o more = a \o (l \o more) BY <4>1, ConcatAssociative
      <4> QED BY <4>2 DEF a
    <3>3. passed(d) = [d EXCEPT !.args = @ \o more] BY <2>2, <2>4
    <3>4. B[x] = l \o more BY <1>1, <2>4
    <3> HIDE DEF d, x, l, grown, passed
    <3> QED BY <2>2, <2>3, <3>1, <3>2, <3>3, <3>4 DEF x
  <2>5. CASE x # to
    <3>1. passed(d) = d BY <2>2, <2>5
    <3>2. B[x] = l BY <1>1, <2>1, <2>5
    <3> HIDE DEF passed, grown
    <3> QED BY <2>3, <3>1, <3>2
  <2> QED BY <2>4, <2>5
<1>6. {passed(d) : d \in g.calls} = h.calls
  <2>1. {passed(d) : d \in {grown(c) : c \in f.calls}} = {passed(grown(c)) : c \in f.calls}
    <3> HIDE DEF passed, grown
    <3> QED OBVIOUS
  <2>2. {passed(grown(c)) : c \in f.calls}
          = {Call(c.callee, c.args \o B[c.callee]) : c \in f.calls}
    <3> HIDE DEF passed, grown
    <3> QED BY <1>5
  <2> HIDE DEF passed, grown, g, h
  <2> QED BY <1>3, <1>4, <2>1, <2>2
<1>7. b = [g EXCEPT !.calls = h.calls]
  <2>1. b = [g EXCEPT !.calls = {passed(d) : d \in g.calls}] BY DEF Passed
  <2> HIDE DEF passed, b, g, h
  <2> QED BY <1>6, <2>1
<1> HIDE DEF b, g, h, grown
<1>8. /\ b \in FunctionType /\ b.calls = h.calls
      /\ b.name = g.name /\ b.kernel = g.kernel /\ b.params = g.params /\ b.locals = g.locals
  <2>1. h.calls \subseteq CallType BY <1>4 DEF FunctionType
  <2> QED BY <1>3, <1>7, <2>1 DEF FunctionType
<1>9. b.kernel = h.kernel
  <2>1. b.kernel \in BOOLEAN /\ h.kernel \in BOOLEAN BY <1>4, <1>8 DEF FunctionType
  <2> QED BY <1>3, <1>4, <1>8, <2>1
<1>10. b = h BY <1>3, <1>4, <1>8, <1>9, SameFunction
<1> QED BY <1>1, <1>10 DEF b, g, h, B

-----------------------------------------------------------------------------
(***************************************************************************)
(* Renaming.                                                               *)
(***************************************************************************)
\* The name x is not used in f.
Without(f, x) == f.name # x /\ \A c \in f.calls : c.callee # x

LEMMA PlainType ==
  ASSUME NEW args \in Seq(Word), NEW to \in Word
  PROVE  Plain(args, to) \in Seq(Word) /\ DOMAIN Plain(args, to) = DOMAIN args
<1>1. DOMAIN args = 1 .. Len(args) /\ Len(args) \in Nat BY LenProperties
<1>2. Expression \in Word BY DEF Word
<1> DEFINE n == Len(args)
<1>3. Plain(args, to) \in [1 .. n -> Word] BY <1>1, <1>2 DEF Plain
<1> HIDE DEF n
<1>4. Plain(args, to) \in Seq(Word) BY <1>1, <1>3 DEF n
<1>5. DOMAIN Plain(args, to) = DOMAIN args BY DEF Plain
<1> QED BY <1>4, <1>5

NewCall(c, from, to) == IF c.callee = from THEN Call(to, Plain(c.args, to)) ELSE c

LEMMA NewCallType ==
  ASSUME NEW c \in CallType, NEW from, NEW to \in Word
  PROVE  /\ NewCall(c, from, to) \in CallType
         /\ c.callee # from => NewCall(c, from, to) = c
         /\ c.callee = from => /\ NewCall(c, from, to).callee = to
                               /\ NewCall(c, from, to).args = Plain(c.args, to)
<1>1. c.args \in Seq(Word) BY DEF CallType
<1> DEFINE p == Plain(c.args, to)
<1>2. p \in Seq(Word) BY <1>1, PlainType
<1> HIDE DEF p
<1>3. /\ Call(to, p) \in CallType /\ Call(to, p).callee = to /\ Call(to, p).args = p
  BY <1>2 DEF Call, CallType
<1>4. NewCall(c, from, to) = IF c.callee = from THEN Call(to, p) ELSE c BY DEF NewCall, p
<1>5. /\ NewCall(c, from, to) \in CallType
      /\ c.callee # from => NewCall(c, from, to) = c
      /\ c.callee = from => /\ NewCall(c, from, to).callee = to
                            /\ NewCall(c, from, to).args = p
  BY <1>3, <1>4
<1> QED BY <1>5 DEF p

LEMMA RenamedFields ==
  ASSUME NEW f \in FunctionType, NEW from, NEW to \in Word
  PROVE  LET g == Renamed(f, from, to)
         IN  /\ g \in FunctionType
             /\ g.name = (IF f.name = from THEN to ELSE f.name)
             /\ g.calls = {NewCall(c, from, to) : c \in f.calls}
             /\ g.kernel = f.kernel /\ g.params = f.params /\ g.locals = f.locals
<1> DEFINE g == Renamed(f, from, to)
           n == IF f.name = from THEN to ELSE f.name
           s == {NewCall(c, from, to) : c \in f.calls}
<1>1. g = [f EXCEPT !.name = n, !.calls = s] BY DEF Renamed, NewCall
<1>2. f.calls \subseteq CallType /\ f.name \in Word BY DEF FunctionType
<1>3. s \subseteq CallType BY <1>2, NewCallType
<1>4. n \in Word BY <1>2
<1> HIDE DEF g, n, s
<1>5. /\ g \in FunctionType /\ g.name = n /\ g.calls = s
      /\ g.kernel = f.kernel /\ g.params = f.params /\ g.locals = f.locals
  BY <1>1, <1>3, <1>4 DEF FunctionType
<1> QED BY <1>5 DEF g, n, s

LEMMA RenamedNot ==
  ASSUME NEW f \in FunctionType, NEW from, NEW to \in Word, Without(f, from)
  PROVE  Renamed(f, from, to) = f
<1> DEFINE g == Renamed(f, from, to)
<1>1. /\ g \in FunctionType
      /\ g.name = (IF f.name = from THEN to ELSE f.name)
      /\ g.calls = {NewCall(c, from, to) : c \in f.calls}
      /\ g.kernel = f.kernel /\ g.params = f.params /\ g.locals = f.locals
  BY RenamedFields
<1>2. \A c \in f.calls : NewCall(c, from, to) = c BY DEF Without, NewCall
<1>3. g.calls = f.calls
  <2>1. {NewCall(c, from, to) : c \in f.calls} = f.calls BY <1>2
  <2> QED BY <1>1, <2>1
<1>4. g.name = f.name BY <1>1 DEF Without
<1> HIDE DEF g
<1>5. g = f BY <1>1, <1>3, <1>4, SameFunction
<1> QED BY <1>5 DEF g

LEMMA RenamedTwice ==
  ASSUME NEW f \in FunctionType, NEW from, NEW mid \in Word, NEW to \in Word,
         Without(f, mid), mid # Expression
  PROVE  Renamed(Renamed(f, from, mid), mid, to) = Renamed(f, from, to)
<1> DEFINE g == Renamed(f, from, mid)
           h == Renamed(g, mid, to)
           k == Renamed(f, from, to)
<1>1. /\ g \in FunctionType
      /\ g.name = (IF f.name = from THEN mid ELSE f.name)
      /\ g.calls = {NewCall(c, from, mid) : c \in f.calls}
      /\ g.kernel = f.kernel /\ g.params = f.params /\ g.locals = f.locals
  BY RenamedFields
<1>2. /\ k \in FunctionType
      /\ k.name = (IF f.name = from THEN to ELSE f.name)
      /\ k.calls = {NewCall(c, from, to) : c \in f.calls}
      /\ k.kernel = f.kernel /\ k.params = f.params /\ k.locals = f.locals
  BY RenamedFields
<1> HIDE DEF g, k
<1>3. /\ h \in FunctionType
      /\ h.name = (IF g.name = mid THEN to ELSE g.name)
      /\ h.calls = {NewCall(c, mid, to) : c \in g.calls}
      /\ h.kernel = g.kernel /\ h.params = g.params /\ h.locals = g.locals
  <2>1. g \in FunctionType BY <1>1
  <2> QED BY <2>1, RenamedFields
<1> HIDE DEF h
<1>4. h.name = k.name BY <1>1, <1>2, <1>3 DEF Without
<1>5. ASSUME NEW c \in f.calls
      PROVE  NewCall(NewCall(c, from, mid), mid, to) = NewCall(c, from, to)
  <2>0. c \in CallType /\ c.callee # mid /\ c.args \in Seq(Word)
    BY DEF FunctionType, CallType, Without
  <2>1. CASE c.callee = from
    <3> DEFINE d == NewCall(c, from, mid)
    <3>1. d \in CallType /\ d.callee = mid /\ d.args = Plain(c.args, mid)
      BY <2>0, <2>1, NewCallType
    <3> HIDE DEF d
    <3>2. Plain(Plain(c.args, mid), to) = Plain(c.args, to)
      BY DEF Plain
    <3>3. NewCall(d, mid, to) = Call(to, Plain(d.args, to)) BY <3>1 DEF NewCall
    <3>4. NewCall(c, from, to) = Call(to, Plain(c.args, to)) BY <2>1 DEF NewCall
    <3> QED BY <3>1, <3>2, <3>3, <3>4 DEF d
  <2>2. CASE c.callee # from BY <2>0, <2>2 DEF NewCall
  <2> QED BY <2>1, <2>2
<1>6. h.calls = k.calls
  <2>1. {NewCall(d, mid, to) : d \in {NewCall(c, from, mid) : c \in f.calls}}
          = {NewCall(NewCall(c, from, mid), mid, to) : c \in f.calls}
    OBVIOUS
  <2>2. {NewCall(NewCall(c, from, mid), mid, to) : c \in f.calls}
          = {NewCall(c, from, to) : c \in f.calls}
    BY <1>5
  <2> QED BY <1>1, <1>2, <1>3, <2>1, <2>2
<1>7. h = k BY <1>1, <1>2, <1>3, <1>4, <1>6, SameFunction
<1> QED BY <1>7 DEF g, h, k

LEMMA PassedNot ==
  ASSUME NEW f \in FunctionType, NEW to, NEW more, Without(f, to)
  PROVE  Passed(f, to, more) = f
<1> DEFINE s == {IF c.callee = to THEN [c EXCEPT !.args = @ \o more] ELSE c : c \in f.calls}
<1>1. \A c \in f.calls : c.callee # to BY DEF Without
<1>2. s = f.calls BY <1>1
<1>3. Passed(f, to, more) = [f EXCEPT !.calls = s] BY DEF Passed
<1> HIDE DEF s
<1>4. Passed(f, to, more) = [f EXCEPT !.calls = f.calls] BY <1>2, <1>3
<1> QED BY <1>4 DEF FunctionType

-----------------------------------------------------------------------------
(***************************************************************************)
(* The kernels of the skeletons.                                           *)
(***************************************************************************)
PlaceholdersOf(s) == IF s = "allpairs" THEN {"USR_REDUCE", "USR_ZIP"} ELSE {Placeholder(s)}

\* n parameters, different from each other and from the local variables.
Layout(ps, n, ls) ==
  /\ DOMAIN ps = 1 .. n /\ n \in Nat
  /\ \A i, j \in 1 .. n : ps[i] = ps[j] => i = j
  /\ \A i \in 1 .. n : ps[i] \notin ls

\* A call with an argument for each of the leading parameters, from what there is.
Words(ps, n, ls) == ls \cup {ps[j] : j \in 1 .. n} \cup {Expression}

CallFits(s, c, ps, n, ls) ==
  /\ c = Call(c.callee, c.args) /\ c.callee \in PlaceholdersOf(s)
  /\ c.args \in Seq(Words(ps, n, ls))
  /\ Len(c.args) = Leading(s)

KernelFits(s, K) ==
  /\ OwnKernel(K) /\ K.name \in KernelNames
  /\ FirstArgument(s, K.name) = Len(K.params)
  /\ IsInjective(Names(K.params))
  /\ K.locals \cap ToSet(Names(K.params)) = {}
  /\ \A c \in K.calls :
       /\ c.callee \in PlaceholdersOf(s) /\ Len(c.args) = Leading(s)
       /\ ToSet(c.args) \subseteq K.locals \cup ToSet(Names(K.params)) \cup {Expression}

KernelsFit(s) ==
  LET Ks == SkeletonSource(s)
  IN  /\ Ks \in Seq(FunctionType)
      /\ \A i \in 1 .. Len(Ks) : KernelFits(s, Ks[i])
      /\ \A i, j \in 1 .. Len(Ks) : Ks[i].name = Ks[j].name => i = j

LEMMA CallOf ==
  ASSUME NEW s, NEW ps, NEW n, NEW ls, NEW x \in PlaceholdersOf(s),
         NEW a \in Seq(Words(ps, n, ls)), Len(a) = Leading(s)
  PROVE  CallFits(s, Call(x, a), ps, n, ls)
BY DEF CallFits, Call

LEMMA CallOfOne ==
  ASSUME NEW s, NEW ps, NEW n, NEW ls, NEW x \in PlaceholdersOf(s),
         NEW u \in Words(ps, n, ls), Leading(s) = 1
  PROVE  CallFits(s, Call(x, <<u>>), ps, n, ls)
<1> DEFINE a == <<u>>
<1>1. a \in Seq(Words(ps, n, ls)) /\ Len(a) = Leading(s) OBVIOUS
<1> HIDE DEF a
<1>2. CallFits(s, Call(x, a), ps, n, ls) BY <1>1, CallOf
<1> QED BY <1>2 DEF a

LEMMA CallOfTwo ==
  ASSUME NEW s, NEW ps, NEW n, NEW ls, NEW x \in PlaceholdersOf(s),
         NEW u \in Words(ps, n, ls), NEW v \in Words(ps, n, ls), Leading(s) = 2
  PROVE  CallFits(s, Call(x, <<u, v>>), ps, n, ls)
<1> DEFINE a == <<u, v>>
<1>1. a \in Seq(Words(ps, n, ls)) /\ Len(a) = Leading(s) OBVIOUS
<1> HIDE DEF a
<1>2. CallFits(s, Call(x, a), ps, n, ls) BY <1>1, CallOf
<1> QED BY <1>2 DEF a

LEMMA CallOfThree ==
  ASSUME NEW s, NEW ps, NEW n, NEW ls, NEW x \in PlaceholdersOf(s),
         NEW u \in Words(ps, n, ls), NEW v \in Words(ps, n, ls), NEW w \in Words(ps, n, ls),
         Leading(s) = 3
  PROVE  CallFits(s, Call(x, <<u, v, w>>), ps, n, ls)
<1> DEFINE a == <<u, v, w>>
<1>1. a \in Seq(Words(ps, n, ls)) /\ Len(a) = Leading(s) OBVIOUS
<1> HIDE DEF a
<1>2. CallFits(s, Call(x, a), ps, n, ls) BY <1>1, CallOf
<1> QED BY <1>2 DEF a

LEMMA KernelRow ==
  ASSUME NEW s \in Skeletons, NEW name \in KernelNames, NEW ps, NEW n, NEW ls, NEW cs,
         Layout(ps, n, ls), FirstArgument(s, name) = n, Leading(s) \in Nat,
         \A d \in cs : CallFits(s, d, ps, n, ls),
         KernelFunction(name, ps, ls, cs) \in ToSet(SkeletonSource(s))
  PROVE  KernelFits(s, KernelFunction(name, ps, ls, cs))
<1> DEFINE K == KernelFunction(name, ps, ls, cs)
           ns == Names(K.params)
           l == Leading(s)
<1>1. /\ K.name = name /\ K.kernel = TRUE /\ K.locals = ls /\ K.calls = cs
      /\ K.params = [i \in DOMAIN ps |-> Parameter(ps[i], "own")]
      /\ K = [name |-> K.name, kernel |-> K.kernel, locals |-> K.locals, calls |-> K.calls,
              params |-> K.params]
  BY DEF KernelFunction
<1>2. n \in Nat /\ DOMAIN ps = 1 .. n BY DEF Layout
<1>3. Vocabulary(K) \subseteq Word
  <2> HIDE DEF K
  <2>1. Vocabulary(K) \subseteq UNION {Vocabulary(L) : L \in ToSet(SkeletonSource(s))} BY DEF K
  <2> DEFINE words(t) == UNION {Vocabulary(L) : L \in ToSet(SkeletonSource(t))}
  <2>2. words(s) \subseteq UNION {words(t) : t \in Skeletons} BY Zenon
  <2> QED BY <2>1, <2>2 DEF Word
<1>4. \A i \in 1 .. n : /\ K.params[i] = [name |-> ps[i], type |-> "own", part |-> "all"]
  BY <1>1, <1>2 DEF Parameter
<1>5. DOMAIN K.params = 1 .. n BY <1>1, <1>2
<1> HIDE DEF K
<1>a. /\ DOMAIN ns = 1 .. n /\ \A i \in 1 .. n : ns[i] = ps[i]
      /\ \A i \in 1 .. n : K.params[i].type = "own" /\ K.params[i].part = "all"
  <2>1. ASSUME NEW i \in 1 .. n
        PROVE  /\ K.params[i].name = ps[i]
               /\ K.params[i].type = "own" /\ K.params[i].part = "all"
    <3>1. K.params[i] = [name |-> ps[i], type |-> "own", part |-> "all"] BY <1>4
    <3> QED BY <3>1
  <2> QED BY <1>5, <2>1 DEF Names
<1> HIDE DEF ns
<1>6. ToSet(ns) = {ps[i] : i \in 1 .. n} BY <1>a DEF ToSet
<1>7. /\ K.locals \subseteq Word /\ \A i \in 1 .. n : ps[i] \in Word
      /\ \A d \in cs : ToSet(d.args) \subseteq Word
  <2>1. ToSet(ns) \subseteq Vocabulary(K) /\ K.locals \subseteq Vocabulary(K)
        /\ \A d \in K.calls : ToSet(d.args) \subseteq Vocabulary(K)
    BY DEF Vocabulary, ns
  <2> QED BY <2>1, <1>1, <1>3, <1>6
<1>8. K.params \in Seq(ParameterType) /\ Len(K.params) = n
  <2>1. ASSUME NEW i \in 1 .. n PROVE K.params[i] \in ParameterType
    <3>1. K.params[i] = [name |-> ps[i], type |-> "own", part |-> "all"] BY <1>4
    <3>2. ps[i] \in Word BY <1>7
    <3> QED BY <3>1, <3>2 DEF ParameterType
  <2>2. K.params = [i \in 1 .. n |-> K.params[i]] BY <1>1, <1>2
  <2> DEFINE p == K.params
  <2> HIDE DEF p
  <2>3. p \in [1 .. n -> ParameterType] BY <2>1, <2>2 DEF p
  <2>4. p \in Seq(ParameterType) BY <1>2, <2>3
  <2>5. Len(p) = n BY <1>2, <2>3, <2>4, LenProperties
  <2> QED BY <2>4, <2>5 DEF p
<1>9. ASSUME NEW d \in cs
      PROVE  /\ d \in CallType /\ d.callee \in PlaceholdersOf(s) /\ d.callee \in Placeholders
             /\ Len(d.args) = l
             /\ ToSet(d.args) \subseteq ls \cup ToSet(ns) \cup {Expression}
  <2> DEFINE a == d.args
             T == Words(ps, n, ls)
  <2>1. /\ d = Call(d.callee, a) /\ d.callee \in PlaceholdersOf(s)
        /\ a \in Seq(T) /\ Len(a) = l
    BY DEF CallFits
  <2>2. d = [callee |-> d.callee, args |-> a] BY <2>1 DEF Call
  <2>3. d.callee \in Placeholders /\ d.callee \in Word
    BY <2>1 DEF PlaceholdersOf, Placeholder, Placeholders, Word, Reserved
  <2>4. T = ls \cup ToSet(ns) \cup {Expression} BY <1>6 DEF Words
  <2> HIDE DEF l, T, a
  <2>5. DOMAIN a = 1 .. l /\ l \in Nat /\ \A i \in 1 .. l : a[i] \in T
    BY <2>1, ElementOfSeq, LenProperties
  <2>6. ToSet(a) \subseteq T BY <2>5 DEF ToSet
  <2>7. \A i \in 1 .. l : a[i] \in Word BY <1>7, <2>5 DEF ToSet, a
  <2>8. a \in Seq(Word)
    <3>1. a = [i \in 1 .. l |-> a[i]] BY <2>1, <2>5
    <3>2. a \in [1 .. l -> Word] BY <2>7, <3>1
    <3> QED BY <2>5, <3>2
  <2>9. d \in CallType BY <2>2, <2>3, <2>8 DEF CallType
  <2> QED BY <2>1, <2>3, <2>4, <2>6, <2>9 DEF a
<1>10. K \in FunctionType
  <2>1. K.name \in Word BY <1>1 DEF Word, Reserved
  <2>2. K.calls \subseteq CallType BY <1>1, <1>9
  <2> QED BY <2>1, <2>2, <1>1, <1>7, <1>8 DEF FunctionType
<1>11. OwnKernel(K)
  <2>1. \A i \in 1 .. Len(K.params) : K.params[i].type = "own" /\ K.params[i].part = "all"
    BY <1>a, <1>8
  <2>2. \A d \in K.calls : d.callee \in Placeholders BY <1>1, <1>9
  <2> QED BY <1>1, <1>10, <2>1, <2>2 DEF OwnKernel
<1>12. FirstArgument(s, K.name) = Len(K.params) BY <1>1, <1>8
<1>13. IsInjective(ns) BY <1>a DEF IsInjective, Layout
<1>14. K.locals \cap ToSet(ns) = {} BY <1>1, <1>6 DEF Layout
<1>15. \A d \in K.calls :
         /\ d.callee \in PlaceholdersOf(s) /\ Len(d.args) = Leading(s)
         /\ ToSet(d.args) \subseteq K.locals \cup ToSet(ns) \cup {Expression}
  BY <1>1, <1>9
<1>16. KernelFits(s, K)
  BY <1>1, <1>11, <1>12, <1>13, <1>14, <1>15 DEF KernelFits, ns
<1> QED BY <1>16 DEF K

LEMMA OneKernel ==
  ASSUME NEW s, NEW K, SkeletonSource(s) = <<K>>, KernelFits(s, K)
  PROVE  KernelsFit(s)
<1> DEFINE k == <<K>>
<1>1. K \in FunctionType BY DEF KernelFits, OwnKernel
<1>2. k \in Seq(FunctionType) /\ Len(k) = 1 /\ k[1] = K BY <1>1
<1> HIDE DEF k
<1>3. \A i \in 1 .. 1 : i = 1 OBVIOUS
<1>4. SkeletonSource(s) = k BY DEF k
<1> QED BY <1>2, <1>3, <1>4 DEF KernelsFit

LEMMA TwoKernels ==
  ASSUME NEW s, NEW K, NEW L, SkeletonSource(s) = <<K, L>>, KernelFits(s, K), KernelFits(s, L),
         K.name # L.name
  PROVE  KernelsFit(s)
<1> DEFINE k == <<K, L>>
<1>1. K \in FunctionType /\ L \in FunctionType BY DEF KernelFits, OwnKernel
<1>2. k \in Seq(FunctionType) /\ Len(k) = 2 /\ k[1] = K /\ k[2] = L BY <1>1
<1> HIDE DEF k
<1>3. \A i \in 1 .. 2 : i = 1 \/ i = 2 OBVIOUS
<1>4. SkeletonSource(s) = k BY DEF k
<1> QED BY <1>2, <1>3, <1>4 DEF KernelsFit

LEMMA KernelTable == \A s \in Skeletons : KernelsFit(s)
<1> SUFFICES ASSUME NEW s \in Skeletons PROVE KernelsFit(s) OBVIOUS
<1>1. CASE s = "map"
  <2> DEFINE p == <<"SCL_IN", "SCL_OUT", "SCL_ELEMENTS">>
           l == {}
           c == {Call("SCL_FUNC", <<Expression>>)}
           K == KernelFunction("SCL_MAP", p, l, c)
  <2>1. SkeletonSource(s) = <<K>>
    BY <1>1 DEF SkeletonSource, MapKernel, Zips, UserCall
  <2>2. Layout(p, 3, l) BY DEF Layout
  <2>3. FirstArgument(s, "SCL_MAP") = 3 /\ Leading(s) = 1
    BY <1>1 DEF FirstArgument, Leading, Zips
  <2>4. \A d \in c : CallFits(s, d, p, 3, l)
    <3> DEFINE T == Words(p, 3, l)
    <3>1. "SCL_FUNC" \in PlaceholdersOf(s)
      BY <1>1 DEF PlaceholdersOf, Placeholder
    <3>2. Expression \in T BY DEF Words
    <3> HIDE DEF p, l
    <3>3. CallFits(s, Call("SCL_FUNC", <<Expression>>), p, 3, l)
      BY <2>3, <3>1, <3>2, CallOfOne
    <3> QED BY <3>3
  <2>5. K \in ToSet(<<K>>)
    <3> HIDE DEF K
    <3> QED BY DEF ToSet
  <2> HIDE DEF p, l, c
  <2>6. KernelFits(s, K)
    BY <2>1, <2>2, <2>3, <2>4, <2>5, KernelRow DEF KernelNames
  <2>7. K.name = "SCL_MAP" BY DEF KernelFunction
  <2> HIDE DEF K
  <2> QED BY <2>1, <2>6, <2>7, OneKernel
<1>2. CASE s = "map, no result"
  <2> DEFINE p == <<"SCL_IN", "SCL_ELEMENTS">>
           l == {}
           c == {Call("SCL_FUNC", <<Expression>>)}
           K == KernelFunction("SCL_MAP", p, l, c)
  <2>1. SkeletonSource(s) = <<K>>
    BY <1>2 DEF SkeletonSource, MapKernel, Zips, UserCall
  <2>2. Layout(p, 2, l) BY DEF Layout
  <2>3. FirstArgument(s, "SCL_MAP") = 2 /\ Leading(s) = 1
    BY <1>2 DEF FirstArgument, Leading, Zips
  <2>4. \A d \in c : CallFits(s, d, p, 2, l)
    <3> DEFINE T == Words(p, 2, l)
    <3>1. "SCL_FUNC" \in PlaceholdersOf(s)
      BY <1>2 DEF PlaceholdersOf, Placeholder
    <3>2. Expression \in T BY DEF Words
    <3> HIDE DEF p, l
    <3>3. CallFits(s, Call("SCL_FUNC", <<Expression>>), p, 2, l)
      BY <2>3, <3>1, <3>2, CallOfOne
    <3> QED BY <3>3
  <2>5. K \in ToSet(<<K>>)
    <3> HIDE DEF K
    <3> QED BY DEF ToSet
  <2> HIDE DEF p, l, c
  <2>6. KernelFits(s, K)
    BY <2>1, <2>2, <2>3, <2>4, <2>5, KernelRow DEF KernelNames
  <2>7. K.name = "SCL_MAP" BY DEF KernelFunction
  <2> HIDE DEF K
  <2> QED BY <2>1, <2>6, <2>7, OneKernel
<1>3. CASE s = "indices"
  <2> DEFINE p == <<"SCL_OUT", "SCL_OUT_SIZE", "SCL_OFFSET">>
           l == {}
           c == {Call("SCL_FUNC", <<Expression>>)}
           K == KernelFunction("SCL_MAP", p, l, c)
  <2>1. SkeletonSource(s) = <<K>>
    BY <1>3 DEF SkeletonSource, MapKernel, Zips, UserCall
  <2>2. Layout(p, 3, l) BY DEF Layout
  <2>3. FirstArgument(s, "SCL_MAP") = 3 /\ Leading(s) = 1
    BY <1>3 DEF FirstArgument, Leading, Zips
  <2>4. \A d \in c : CallFits(s, d, p, 3, l)
    <3> DEFINE T == Words(p, 3, l)
    <3>1. "SCL_FUNC" \in PlaceholdersOf(s)
      BY <1>3 DEF PlaceholdersOf, Placeholder
    <3>2. Expression \in T BY DEF Words
    <3> HIDE DEF p, l
    <3>3. CallFits(s, Call("SCL_FUNC", <<Expression>>), p, 3, l)
      BY <2>3, <3>1, <3>2, CallOfOne
    <3> QED BY <3>3
  <2>5. K \in ToSet(<<K>>)
    <3> HIDE DEF K
    <3> QED BY DEF ToSet
  <2> HIDE DEF p, l, c
  <2>6. KernelFits(s, K)
    BY <2>1, <2>2, <2>3, <2>4, <2>5, KernelRow DEF KernelNames
  <2>7. K.name = "SCL_MAP" BY DEF KernelFunction
  <2> HIDE DEF K
  <2> QED BY <2>1, <2>6, <2>7, OneKernel
<1>4. CASE s = "indices, no result"
  <2> DEFINE p == <<"SCL_ELEMENTS", "SCL_OFFSET">>
           l == {}
           c == {Call("SCL_FUNC", <<Expression>>)}
           K == KernelFunction("SCL_MAP", p, l, c)
  <2>1. SkeletonSource(s) = <<K>>
    BY <1>4 DEF SkeletonSource, MapKernel, Zips, UserCall
  <2>2. Layout(p, 2, l) BY DEF Layout
  <2>3. FirstArgument(s, "SCL_MAP") = 2 /\ Leading(s) = 1
    BY <1>4 DEF FirstArgument, Leading, Zips
  <2>4. \A d \in c : CallFits(s, d, p, 2, l)
    <3> DEFINE T == Words(p, 2, l)
    <3>1. "SCL_FUNC" \in PlaceholdersOf(s)
      BY <1>4 DEF PlaceholdersOf, Placeholder
    <3>2. Expression \in T BY DEF Words
    <3> HIDE DEF p, l
    <3>3. CallFits(s, Call("SCL_FUNC", <<Expression>>), p, 2, l)
      BY <2>3, <3>1, <3>2, CallOfOne
    <3> QED BY <3>3
  <2>5. K \in ToSet(<<K>>)
    <3> HIDE DEF K
    <3> QED BY DEF ToSet
  <2> HIDE DEF p, l, c
  <2>6. KernelFits(s, K)
    BY <2>1, <2>2, <2>3, <2>4, <2>5, KernelRow DEF KernelNames
  <2>7. K.name = "SCL_MAP" BY DEF KernelFunction
  <2> HIDE DEF K
  <2> QED BY <2>1, <2>6, <2>7, OneKernel
<1>5. CASE s = "points"
  <2> DEFINE p == <<"SCL_OUT", "SCL_OUT_SIZE", "SCL_ROW_OFFSET", "SCL_COL_COUNT">>
           l == {"p"}
           c == {Call("SCL_FUNC", <<"p">>)}
           K == KernelFunction("SCL_MAP", p, l, c)
  <2>1. SkeletonSource(s) = <<K>>
    BY <1>5 DEF SkeletonSource, MapKernel, Zips, UserCall
  <2>2. Layout(p, 4, l) BY DEF Layout
  <2>3. FirstArgument(s, "SCL_MAP") = 4 /\ Leading(s) = 1
    BY <1>5 DEF FirstArgument, Leading, Zips
  <2>4. \A d \in c : CallFits(s, d, p, 4, l)
    <3> DEFINE T == Words(p, 4, l)
    <3>1. "SCL_FUNC" \in PlaceholdersOf(s)
      BY <1>5 DEF PlaceholdersOf, Placeholder
    <3>2. "p" \in T BY DEF Words
    <3> HIDE DEF p, l
    <3>3. CallFits(s, Call("SCL_FUNC", <<"p">>), p, 4, l)
      BY <2>3, <3>1, <3>2, CallOfOne
    <3> QED BY <3>3
  <2>5. K \in ToSet(<<K>>)
    <3> HIDE DEF K
    <3> QED BY DEF ToSet
  <2> HIDE DEF p, l, c
  <2>6. KernelFits(s, K)
    BY <2>1, <2>2, <2>3, <2>4, <2>5, KernelRow DEF KernelNames
  <2>7. K.name = "SCL_MAP" BY DEF KernelFunction
  <2> HIDE DEF K
  <2> QED BY <2>1, <2>6, <2>7, OneKernel
<1>6. CASE s = "points, no result"
  <2> DEFINE p == <<"SCL_COL_COUNT", "SCL_ROW_COUNT", "SCL_ROW_OFFSET">>
           l == {"p"}
           c == {Call("SCL_FUNC", <<"p">>)}
           K == KernelFunction("SCL_MAP", p, l, c)
  <2>1. SkeletonSource(s) = <<K>>
    BY <1>6 DEF SkeletonSource, MapKernel, Zips, UserCall
  <2>2. Layout(p, 3, l) BY DEF Layout
  <2>3. FirstArgument(s, "SCL_MAP") = 3 /\ Leading(s) = 1
    BY <1>6 DEF FirstArgument, Leading, Zips
  <2>4. \A d \in c : CallFits(s, d, p, 3, l)
    <3> DEFINE T == Words(p, 3, l)
    <3>1. "SCL_FUNC" \in PlaceholdersOf(s)
      BY <1>6 DEF PlaceholdersOf, Placeholder
    <3>2. "p" \in T BY DEF Words
    <3> HIDE DEF p, l
    <3>3. CallFits(s, Call("SCL_FUNC", <<"p">>), p, 3, l)
      BY <2>3, <3>1, <3>2, CallOfOne
    <3> QED BY <3>3
  <2>5. K \in ToSet(<<K>>)
    <3> HIDE DEF K
    <3> QED BY DEF ToSet
  <2> HIDE DEF p, l, c
  <2>6. KernelFits(s, K)
    BY <2>1, <2>2, <2>3, <2>4, <2>5, KernelRow DEF KernelNames
  <2>7. K.name = "SCL_MAP" BY DEF KernelFunction
  <2> HIDE DEF K
  <2> QED BY <2>1, <2>6, <2>7, OneKernel
<1>7. CASE s = "zip"
  <2> DEFINE p == <<"SCL_LEFT", "SCL_RIGHT", "SCL_OUT", "SCL_ELEMENTS">>
           l == {}
           c == {Call("SCL_FUNC", <<Expression, Expression>>)}
           K == KernelFunction("SCL_ZIP", p, l, c)
  <2>1. SkeletonSource(s) = <<K>>
    BY <1>7 DEF SkeletonSource, ZipKernel, Zips, UserCall
  <2>2. Layout(p, 4, l) BY DEF Layout
  <2>3. FirstArgument(s, "SCL_ZIP") = 4 /\ Leading(s) = 2
    BY <1>7 DEF FirstArgument, Leading, Zips
  <2>4. \A d \in c : CallFits(s, d, p, 4, l)
    <3> DEFINE T == Words(p, 4, l)
    <3>1. "SCL_FUNC" \in PlaceholdersOf(s)
      BY <1>7 DEF PlaceholdersOf, Placeholder
    <3>2. Expression \in T BY DEF Words
    <3> HIDE DEF p, l
    <3>3. CallFits(s, Call("SCL_FUNC", <<Expression, Expression>>), p, 4, l)
      BY <2>3, <3>1, <3>2, CallOfTwo
    <3> QED BY <3>3
  <2>5. K \in ToSet(<<K>>)
    <3> HIDE DEF K
    <3> QED BY DEF ToSet
  <2> HIDE DEF p, l, c
  <2>6. KernelFits(s, K)
    BY <2>1, <2>2, <2>3, <2>4, <2>5, KernelRow DEF KernelNames
  <2>7. K.name = "SCL_ZIP" BY DEF KernelFunction
  <2> HIDE DEF K
  <2> QED BY <2>1, <2>6, <2>7, OneKernel
<1>8. CASE s = "zip, no result"
  <2> DEFINE p == <<"SCL_LEFT", "SCL_RIGHT", "SCL_ELEMENTS">>
           l == {}
           c == {Call("SCL_FUNC", <<Expression, Expression>>)}
           K == KernelFunction("SCL_ZIP", p, l, c)
  <2>1. SkeletonSource(s) = <<K>>
    BY <1>8 DEF SkeletonSource, ZipKernel, Zips, UserCall
  <2>2. Layout(p, 3, l) BY DEF Layout
  <2>3. FirstArgument(s, "SCL_ZIP") = 3 /\ Leading(s) = 2
    BY <1>8 DEF FirstArgument, Leading, Zips
  <2>4. \A d \in c : CallFits(s, d, p, 3, l)
    <3> DEFINE T == Words(p, 3, l)
    <3>1. "SCL_FUNC" \in PlaceholdersOf(s)
      BY <1>8 DEF PlaceholdersOf, Placeholder
    <3>2. Expression \in T BY DEF Words
    <3> HIDE DEF p, l
    <3>3. CallFits(s, Call("SCL_FUNC", <<Expression, Expression>>), p, 3, l)
      BY <2>3, <3>1, <3>2, CallOfTwo
    <3> QED BY <3>3
  <2>5. K \in ToSet(<<K>>)
    <3> HIDE DEF K
    <3> QED BY DEF ToSet
  <2> HIDE DEF p, l, c
  <2>6. KernelFits(s, K)
    BY <2>1, <2>2, <2>3, <2>4, <2>5, KernelRow DEF KernelNames
  <2>7. K.name = "SCL_ZIP" BY DEF KernelFunction
  <2> HIDE DEF K
  <2> QED BY <2>1, <2>6, <2>7, OneKernel
<1>9. CASE s = "reduce"
  <2> DEFINE p1 == <<"SCL_IN", "SCL_OUT", "DATA_SIZE", "GLOBAL_SIZE">>
           l1 == {"my_pos", "modul", "res", "i"}
           c1 == {Call("SCL_FUNC", <<"res", Expression>>)}
           K1 == KernelFunction("SCL_REDUCE_1", p1, l1, c1)
  <2> DEFINE p2 == <<"SCL_IN", "SCL_OUT", "LOCAL_BUF", "DATA_SIZE", "LOCAL_SIZE">>
           l2 == {"my_pos", "modul", "res", "i", "active"}
           c2 == {Call("SCL_FUNC", <<"res", Expression>>),
                  Call("SCL_FUNC", <<Expression, Expression>>)}
           K2 == KernelFunction("SCL_REDUCE_2", p2, l2, c2)
  <2>1. SkeletonSource(s) = <<K1, K2>>
    BY <1>9 DEF SkeletonSource, ReduceKernels, Zips, UserCall
  <2>2. Layout(p1, 4, l1) BY DEF Layout
  <2>3. FirstArgument(s, "SCL_REDUCE_1") = 4 /\ Leading(s) = 2
    BY <1>9 DEF FirstArgument, Leading, Zips
  <2>4. \A d \in c1 : CallFits(s, d, p1, 4, l1)
    <3> DEFINE T == Words(p1, 4, l1)
    <3>1. "SCL_FUNC" \in PlaceholdersOf(s)
      BY <1>9 DEF PlaceholdersOf, Placeholder
    <3>2. "res" \in T /\ Expression \in T BY DEF Words
    <3> HIDE DEF p1, l1
    <3>3. CallFits(s, Call("SCL_FUNC", <<"res", Expression>>), p1, 4, l1)
      BY <2>3, <3>1, <3>2, CallOfTwo
    <3> QED BY <3>3
  <2>5. K1 \in ToSet(<<K1, K2>>)
    <3> HIDE DEF K1, K2
    <3> QED BY DEF ToSet
  <2>6. Layout(p2, 5, l2) BY DEF Layout
  <2>7. FirstArgument(s, "SCL_REDUCE_2") = 5 /\ Leading(s) = 2
    BY <1>9 DEF FirstArgument, Leading, Zips
  <2>8. \A d \in c2 : CallFits(s, d, p2, 5, l2)
    <3> DEFINE T == Words(p2, 5, l2)
    <3>1. "SCL_FUNC" \in PlaceholdersOf(s)
      BY <1>9 DEF PlaceholdersOf, Placeholder
    <3>2. "res" \in T /\ Expression \in T BY DEF Words
    <3> HIDE DEF p2, l2
    <3>3. CallFits(s, Call("SCL_FUNC", <<"res", Expression>>), p2, 5, l2)
      BY <2>7, <3>1, <3>2, CallOfTwo
    <3>4. CallFits(s, Call("SCL_FUNC", <<Expression, Expression>>), p2, 5, l2)
      BY <2>7, <3>1, <3>2, CallOfTwo
    <3> QED BY <3>3, <3>4
  <2>9. K2 \in ToSet(<<K1, K2>>)
    <3> HIDE DEF K1, K2
    <3> QED BY DEF ToSet
  <2> HIDE DEF p1, l1, c1, p2, l2, c2
  <2>10. KernelFits(s, K1)
    BY <2>1, <2>2, <2>3, <2>4, <2>5, KernelRow DEF KernelNames
  <2>11. KernelFits(s, K2)
    BY <2>1, <2>6, <2>7, <2>8, <2>9, KernelRow DEF KernelNames
  <2>12. K1.name # K2.name BY DEF KernelFunction
  <2> HIDE DEF K1, K2
  <2> QED BY <2>1, <2>10, <2>11, <2>12, TwoKernels
<1>10. CASE s = "scan"
  <2> DEFINE p1 == <<"currentInput", "output", "localBuffer", "blockSums", "blockSumsSize">>
           l1 == {"gid", "tid", "bid", "lwz", "localBufferSize", "offset", "tid2_0",
                  "tid2_1", "gid2_0", "gid2_1", "d", "ai", "bi", "tmp"}
           c1 == {Call("SCL_FUNC", <<Expression, Expression>>),
                  Call("SCL_FUNC", <<Expression, "tmp">>)}
           K1 == KernelFunction("SCL_SCAN", p1, l1, c1)
  <2> DEFINE p2 == <<"output", "blockSums", "outputSize">>
           l2 == {"gid", "tid", "blockId", "localBuffer"}
           c2 == {Call("SCL_FUNC", <<Expression, Expression>>)}
           K2 == KernelFunction("SCL_UNIFORM_COMBINATION", p2, l2, c2)
  <2>1. SkeletonSource(s) = <<K1, K2>>
    BY <1>10 DEF SkeletonSource, ScanKernels, Zips, UserCall
  <2>2. Layout(p1, 5, l1) BY DEF Layout
  <2>3. FirstArgument(s, "SCL_SCAN") = 5 /\ Leading(s) = 2
    BY <1>10 DEF FirstArgument, Leading, Zips
  <2>4. \A d \in c1 : CallFits(s, d, p1, 5, l1)
    <3> DEFINE T == Words(p1, 5, l1)
    <3>1. "SCL_FUNC" \in PlaceholdersOf(s)
      BY <1>10 DEF PlaceholdersOf, Placeholder
    <3>2. Expression \in T /\ "tmp" \in T BY DEF Words
    <3> HIDE DEF p1, l1
    <3>3. CallFits(s, Call("SCL_FUNC", <<Expression, Expression>>), p1, 5, l1)
      BY <2>3, <3>1, <3>2, CallOfTwo
    <3>4. CallFits(s, Call("SCL_FUNC", <<Expression, "tmp">>), p1, 5, l1)
      BY <2>3, <3>1, <3>2, CallOfTwo
    <3> QED BY <3>3, <3>4
  <2>5. K1 \in ToSet(<<K1, K2>>)
    <3> HIDE DEF K1, K2
    <3> QED BY DEF ToSet
  <2>6. Layout(p2, 3, l2) BY DEF Layout
  <2>7. FirstArgument(s, "SCL_UNIFORM_COMBINATION") = 3 /\ Leading(s) = 2
    BY <1>10 DEF FirstArgument, Leading, Zips
  <2>8. \A d \in c2 : CallFits(s, d, p2, 3, l2)
    <3> DEFINE T == Words(p2, 3, l2)
    <3>1. "SCL_FUNC" \in PlaceholdersOf(s)
      BY <1>10 DEF PlaceholdersOf, Placeholder
    <3>2. Expression \in T BY DEF Words
    <3> HIDE DEF p2, l2
    <3>3. CallFits(s, Call("SCL_FUNC", <<Expression, Expression>>), p2, 3, l2)
      BY <2>7, <3>1, <3>2, CallOfTwo
    <3> QED BY <3>3
  <2>9. K2 \in ToSet(<<K1, K2>>)
    <3> HIDE DEF K1, K2
    <3> QED BY DEF ToSet
  <2> HIDE DEF p1, l1, c1, p2, l2, c2
  <2>10. KernelFits(s, K1)
    BY <2>1, <2>2, <2>3, <2>4, <2>5, KernelRow DEF KernelNames
  <2>11. KernelFits(s, K2)
    BY <2>1, <2>6, <2>7, <2>8, <2>9, KernelRow DEF KernelNames
  <2>12. K1.name # K2.name BY DEF KernelFunction
  <2> HIDE DEF K1, K2
  <2> QED BY <2>1, <2>10, <2>11, <2>12, TwoKernels
<1>11. CASE s = "overlap"
  <2> DEFINE p == <<"SCL_IN", "SCL_OUT", "SCL_SHARED", "SCL_ELEMENTS", "SCL_COLS">>
           l == {"col", "l_col", "row", "l_row", "Mm", "i", "m"}
           c == {Call("USR_FUNC", <<"Mm">>)}
           K == KernelFunction("SCL_MAPOVERLAP", p, l, c)
  <2>1. SkeletonSource(s) = <<K>>
    BY <1>11 DEF SkeletonSource, OverlapKernel, Zips
  <2>2. Layout(p, 5, l) BY DEF Layout
  <2>3. FirstArgument(s, "SCL_MAPOVERLAP") = 5 /\ Leading(s) = 1
    BY <1>11 DEF FirstArgument, Leading, Zips
  <2>4. \A d \in c : CallFits(s, d, p, 5, l)
    <3> DEFINE T == Words(p, 5, l)
    <3>1. "USR_FUNC" \in PlaceholdersOf(s)
      BY <1>11 DEF PlaceholdersOf, Placeholder
    <3>2. "Mm" \in T BY DEF Words
    <3> HIDE DEF p, l
    <3>3. CallFits(s, Call("USR_FUNC", <<"Mm">>), p, 5, l)
      BY <2>3, <3>1, <3>2, CallOfOne
    <3> QED BY <3>3
  <2>5. K \in ToSet(<<K>>)
    <3> HIDE DEF K
    <3> QED BY DEF ToSet
  <2> HIDE DEF p, l, c
  <2>6. KernelFits(s, K)
    BY <2>1, <2>2, <2>3, <2>4, <2>5, KernelRow DEF KernelNames
  <2>7. K.name = "SCL_MAPOVERLAP" BY DEF KernelFunction
  <2> HIDE DEF K
  <2> QED BY <2>1, <2>6, <2>7, OneKernel
<1>12. CASE s = "allpairs"
  <2> DEFINE p == <<"M", "N", "P", "dimension", "height", "width">>
           l == {"Ml", "Nl", "col", "l_col", "row", "l_row", "m", "segment", "ii",
                 "roffset", "end", "i", "s", "result", "jj", "coffset", "j", "k"}
           c == {Call("USR_REDUCE", <<"result", Expression>>),
                  Call("USR_ZIP", <<Expression, Expression>>)}
           K == KernelFunction("SCL_ALLPAIRS", p, l, c)
  <2>1. SkeletonSource(s) = <<K>>
    BY <1>12 DEF SkeletonSource, AllPairsKernel, ProductParams, Zips
  <2>2. Layout(p, 6, l) BY DEF Layout
  <2>3. FirstArgument(s, "SCL_ALLPAIRS") = 6 /\ Leading(s) = 2
    BY <1>12 DEF FirstArgument, Leading, Zips
  <2>4. \A d \in c : CallFits(s, d, p, 6, l)
    <3> DEFINE T == Words(p, 6, l)
    <3>1. "USR_REDUCE" \in PlaceholdersOf(s) /\ "USR_ZIP" \in PlaceholdersOf(s)
      BY <1>12 DEF PlaceholdersOf, Placeholder
    <3>2. "result" \in T /\ Expression \in T BY DEF Words
    <3> HIDE DEF p, l
    <3>3. CallFits(s, Call("USR_REDUCE", <<"result", Expression>>), p, 6, l)
      BY <2>3, <3>1, <3>2, CallOfTwo
    <3>4. CallFits(s, Call("USR_ZIP", <<Expression, Expression>>), p, 6, l)
      BY <2>3, <3>1, <3>2, CallOfTwo
    <3> QED BY <3>3, <3>4
  <2>5. K \in ToSet(<<K>>)
    <3> HIDE DEF K
    <3> QED BY DEF ToSet
  <2> HIDE DEF p, l, c
  <2>6. KernelFits(s, K)
    BY <2>1, <2>2, <2>3, <2>4, <2>5, KernelRow DEF KernelNames
  <2>7. K.name = "SCL_ALLPAIRS" BY DEF KernelFunction
  <2> HIDE DEF K
  <2> QED BY <2>1, <2>6, <2>7, OneKernel
<1>13. CASE s = "allpairs, general"
  <2> DEFINE p == <<"M", "N", "P", "dimension", "height", "width">>
           l == {"col", "row", "Mm", "Nm"}
           c == {Call("USR_FUNC", <<Expression, Expression, "dimension">>)}
           K == KernelFunction("SCL_ALLPAIRS", p, l, c)
  <2>1. SkeletonSource(s) = <<K>>
    BY <1>13 DEF SkeletonSource, AllPairsGeneralKernel, ProductParams, Zips
  <2>2. Layout(p, 6, l) BY DEF Layout
  <2>3. FirstArgument(s, "SCL_ALLPAIRS") = 6 /\ Leading(s) = 3
    BY <1>13 DEF FirstArgument, Leading, Zips
  <2>4. \A d \in c : CallFits(s, d, p, 6, l)
    <3> DEFINE T == Words(p, 6, l)
    <3>1. "USR_FUNC" \in PlaceholdersOf(s)
      BY <1>13 DEF PlaceholdersOf, Placeholder
    <3>2. Expression \in T /\ "dimension" \in T BY DEF Words
    <3> HIDE DEF p, l
    <3>3. CallFits(s, Call("USR_FUNC", <<Expression, Expression, "dimension">>), p, 6, l)
      BY <2>3, <3>1, <3>2, CallOfThree
    <3> QED BY <3>3
  <2>5. K \in ToSet(<<K>>)
    <3> HIDE DEF K
    <3> QED BY DEF ToSet
  <2> HIDE DEF p, l, c
  <2>6. KernelFits(s, K)
    BY <2>1, <2>2, <2>3, <2>4, <2>5, KernelRow DEF KernelNames
  <2>7. K.name = "SCL_ALLPAIRS" BY DEF KernelFunction
  <2> HIDE DEF K
  <2> QED BY <2>1, <2>6, <2>7, OneKernel
<1> QED BY <1>1, <1>2, <1>3, <1>4, <1>5, <1>6, <1>7, <1>8, <1>9, <1>10, <1>11,
          <1>12, <1>13 DEF Skeletons

-----------------------------------------------------------------------------
(***************************************************************************)
(* A program on its way: the user's functions, and the kernels with what   *)
(* they have been given so far.                                            *)
(***************************************************************************)
Extras(s) == [1 .. Len(SkeletonSource(s)) -> {e \in Seq(ParameterType) : Whole(e)}]

KernelsWith(s, E, A) ==
  [i \in 1 .. Len(SkeletonSource(s)) |-> Grown(SkeletonSource(s)[i], E[i], A)]

Rendered(U, s, E, A) == U \o KernelsWith(s, E, A)

\* Functions that no pass takes for a kernel.
UserPart(U) ==
  /\ U \in Seq(FunctionType)
  /\ \A i \in 1 .. Len(U) : ~ U[i].kernel /\ U[i].name \notin KernelNames

LEMMA KernelsWithType ==
  ASSUME NEW s \in Skeletons, NEW E \in Extras(s), NEW A \in ArgumentLists
  PROVE  LET K == SkeletonSource(s)
             G == KernelsWith(s, E, A)
         IN  /\ G \in Seq(FunctionType) /\ Len(G) = Len(K) /\ Len(K) \in Nat
             /\ \A i \in 1 .. Len(K) :
                  /\ OwnKernel(K[i]) /\ K[i].name \in KernelNames
                  /\ \A c \in K[i].calls : c.callee \in PlaceholdersOf(s)
                  /\ E[i] \in Seq(ParameterType) /\ Whole(E[i])
                  /\ G[i] = Grown(K[i], E[i], A) /\ G[i] \in FunctionType
                  /\ G[i].name = K[i].name /\ G[i].kernel
<1> DEFINE K == SkeletonSource(s)
           n == Len(K)
           G == KernelsWith(s, E, A)
<1>1. K \in Seq(FunctionType) /\ \A i \in 1 .. n : KernelFits(s, K[i])
  BY KernelTable DEF KernelsFit
<1>2. n \in Nat BY <1>1, LenProperties
<1>3. E \in [1 .. n -> {e \in Seq(ParameterType) : Whole(e)}] BY DEF Extras
<1>4. G = [i \in 1 .. n |-> Grown(K[i], E[i], A)] BY DEF KernelsWith
<1> HIDE DEF K, n, G
<1>5. ASSUME NEW i \in 1 .. n
      PROVE  /\ OwnKernel(K[i]) /\ K[i].name \in KernelNames
             /\ \A c \in K[i].calls : c.callee \in PlaceholdersOf(s)
             /\ E[i] \in Seq(ParameterType) /\ Whole(E[i])
             /\ G[i] = Grown(K[i], E[i], A) /\ G[i] \in FunctionType
             /\ G[i].name = K[i].name /\ G[i].kernel
  <2>1. /\ OwnKernel(K[i]) /\ K[i].name \in KernelNames
        /\ \A c \in K[i].calls : c.callee \in PlaceholdersOf(s)
    BY <1>1 DEF KernelFits
  <2>2. E[i] \in Seq(ParameterType) /\ Whole(E[i]) BY <1>3
  <2>3. G[i] = Grown(K[i], E[i], A) BY <1>4
  <2> DEFINE g == Grown(K[i], E[i], A)
  <2>4. g \in FunctionType /\ g.name = K[i].name /\ g.kernel BY <2>1, <2>2, GrownFields
  <2> QED BY <2>1, <2>2, <2>3, <2>4
<1>6. G \in [1 .. n -> FunctionType]
  <2>1. G = [i \in 1 .. n |-> G[i]] BY <1>4
  <2> QED BY <1>5, <2>1
<1>7. G \in Seq(FunctionType) BY <1>2, <1>6
<1>8. Len(G) = n BY <1>2, <1>6, <1>7, LenProperties
<1> QED BY <1>2, <1>5, <1>7, <1>8 DEF K, n, G

\* The functions of a program on its way, one by one.
InParts(P, u, v) ==
  /\ P = [i \in DOMAIN P |-> P[i]] /\ Len(P) = Len(u) + Len(v)
  /\ DOMAIN P = 1 .. Len(u) + Len(v)
  /\ \A i \in 1 .. Len(u) : i \in DOMAIN P /\ P[i] = u[i]
  /\ \A i \in 1 .. Len(v) : Len(u) + i \in DOMAIN P /\ P[Len(u) + i] = v[i]
  /\ \A i \in DOMAIN P : i \in 1 .. Len(u) \/ \E k \in 1 .. Len(v) : i = Len(u) + k

LEMMA ConcatInParts ==
  ASSUME NEW S, NEW u \in Seq(S), NEW v \in Seq(S)
  PROVE  u \o v \in Seq(S) /\ InParts(u \o v, u, v)
<1> DEFINE P == u \o v
           m == Len(u)
           n == Len(v)
<1>1. m \in Nat /\ n \in Nat BY LenProperties
<1>2. /\ P \in Seq(S) /\ Len(P) = m + n
      /\ \A i \in 1 .. m + n : P[i] = IF i <= m THEN u[i] ELSE v[i - m]
  BY ConcatProperties
<1> HIDE DEF P, m, n
<1>3. DOMAIN P = 1 .. m + n /\ P = [i \in DOMAIN P |-> P[i]] BY <1>2, LenProperties
<1>4. \A i \in 1 .. m : i \in 1 .. m + n /\ P[i] = u[i]
  <2>1. \A i \in 1 .. m : i \in 1 .. m + n /\ i <= m BY <1>1
  <2> QED BY <1>2, <2>1
<1>5. \A i \in 1 .. n : m + i \in 1 .. m + n /\ P[m + i] = v[i]
  <2>1. \A i \in 1 .. n : m + i \in 1 .. m + n /\ ~ (m + i <= m) /\ (m + i) - m = i BY <1>1
  <2> QED BY <1>2, <2>1
<1>6. \A i \in 1 .. m + n : i \in 1 .. m \/ \E k \in 1 .. n : i = m + k
  <2> SUFFICES ASSUME NEW i \in 1 .. m + n, ~ (i \in 1 .. m) PROVE \E k \in 1 .. n : i = m + k
    OBVIOUS
  <2>1. i - m \in 1 .. n /\ i = m + (i - m) BY <1>1
  <2> QED BY <2>1
<1> QED BY <1>2, <1>3, <1>4, <1>5, <1>6 DEF P, m, n, InParts

LEMMA RenderedParts ==
  ASSUME NEW s \in Skeletons, NEW E \in Extras(s), NEW A \in ArgumentLists,
         NEW U \in Seq(FunctionType)
  PROVE  /\ Rendered(U, s, E, A) \in Seq(FunctionType)
         /\ InParts(Rendered(U, s, E, A), U, KernelsWith(s, E, A))
BY KernelsWithType, ConcatInParts DEF Rendered

\* A pass that treats the program function by function: Q is P with the user's
\* functions V, and with F and B for the kernels.
PassedOver(Q, P, V, s, F, B) ==
  /\ Q = [i \in DOMAIN P |-> Q[i]]
  /\ \A i \in 1 .. Len(V) : Q[i] = V[i]
  /\ \A i \in 1 .. Len(SkeletonSource(s)) :
       Q[Len(V) + i] = Grown(SkeletonSource(s)[i], F[i], B)

LEMMA RenderedPass ==
  ASSUME NEW s \in Skeletons, NEW E \in Extras(s), NEW A \in ArgumentLists,
         NEW U \in Seq(FunctionType), NEW F \in Extras(s), NEW B \in ArgumentLists,
         NEW V \in Seq(FunctionType), Len(V) = Len(U), NEW Q,
         PassedOver(Q, Rendered(U, s, E, A), V, s, F, B)
  PROVE  Q = Rendered(V, s, F, B)
<1> DEFINE G == KernelsWith(s, E, A)
           H == KernelsWith(s, F, B)
           P == Rendered(U, s, E, A)
<1>1. /\ H \in Seq(FunctionType) /\ Len(H) = Len(SkeletonSource(s))
      /\ Len(G) = Len(SkeletonSource(s))
      /\ \A i \in 1 .. Len(SkeletonSource(s)) : H[i] = Grown(SkeletonSource(s)[i], F[i], B)
  BY KernelsWithType
<1>2. DOMAIN P = 1 .. Len(U) + Len(G) BY RenderedParts DEF InParts
<1> HIDE DEF G, H, P
<1>3. DOMAIN Q = DOMAIN P /\ Q = [i \in DOMAIN Q |-> Q[i]] BY DEF P, PassedOver
<1>4. MadeOf(Q, V, H) BY <1>1, <1>2, <1>3 DEF MadeOf, PassedOver
<1> QED BY <1>1, <1>4, Halves DEF Rendered, H

\* Function j is the only one of name x.
Only(U, j, x) ==
  U[j].name = x /\ \A i \in 1 .. Len(U) : U[i].name = x => i = j

\* The function that the parameters are taken from.
LEMMA ExtractedFromUser ==
  ASSUME NEW s \in Skeletons, NEW E \in Extras(s), NEW A \in ArgumentLists,
         NEW U \in Seq(FunctionType), NEW j \in 1 .. Len(U), NEW from, NEW start,
         Only(U, j, from), from \notin KernelNames
  PROVE  Extracted(Rendered(U, s, E, A), from, start) = Rest(U[j], start)
<1> DEFINE P == Rendered(U, s, E, A)
           G == KernelsWith(s, E, A)
           m == Len(U)
           n == Len(G)
           I == {i \in 1 .. Len(P) : P[i].name = from}
<1>1. P \in Seq(FunctionType) /\ InParts(P, U, G) BY RenderedParts
<1>2. \A k \in 1 .. n : G[k].name # from BY KernelsWithType
<1>3. DOMAIN P = 1 .. Len(P) BY <1>1, LenProperties
<1>4. j \in Nat \ {0} BY LenProperties
<1> HIDE DEF P, G, m, n
<1>5. I = {j}
  <2>1. j \in I BY <1>1, <1>3 DEF InParts, Only
  <2>2. ASSUME NEW i \in I PROVE i = j
    <3>1. i \in DOMAIN P /\ P[i].name = from BY <1>3
    <3>2. CASE i \in 1 .. m BY <1>1, <3>1, <3>2 DEF m, InParts, Only
    <3>3. CASE \E k \in 1 .. n : i = m + k BY <1>1, <1>2, <3>1, <3>3 DEF m, n, InParts
    <3> QED BY <1>1, <3>1, <3>2, <3>3 DEF m, n, InParts
  <2> QED BY <2>1, <2>2
<1>6. Max({j}) = j BY <1>4 DEF Max
<1>7. SelectLastInSeq(P, LAMBDA g : g.name = from) = j
  <2>1. SelectLastInSeq(P, LAMBDA g : g.name = from) = IF I # {} THEN Max(I) ELSE 0
    BY DEF SelectLastInSeq
  <2> HIDE DEF I
  <2> QED BY <1>5, <1>6, <2>1
<1>8. P[j] = U[j] BY <1>1 DEF InParts
<1>9. Extracted(P, from, start) = Rest(P[j], start)
  BY <1>4, <1>7 DEF Extracted
<1> QED BY <1>8, <1>9 DEF P

\* Names of parameters are words.
LEMMA NamesType ==
  ASSUME NEW X \in Seq(ParameterType)
  PROVE  /\ Names(X) \in Seq(Word) /\ Len(Names(X)) = Len(X) /\ DOMAIN Names(X) = 1 .. Len(X)
         /\ \A i \in 1 .. Len(X) : Names(X)[i] = X[i].name
<1> DEFINE n == Len(X)
           N == Names(X)
<1>1. n \in Nat /\ DOMAIN X = 1 .. n /\ \A i \in 1 .. n : X[i] \in ParameterType
  BY LenProperties, ElementOfSeq
<1>2. N = [i \in 1 .. n |-> X[i].name] BY <1>1 DEF Names
<1>3. \A i \in 1 .. n : X[i].name \in Word BY <1>1 DEF ParameterType
<1> HIDE DEF n, N
<1>4. N \in [1 .. n -> Word] BY <1>2, <1>3
<1>5. N \in Seq(Word) BY <1>1, <1>4
<1>6. Len(N) = n BY <1>1, <1>4, <1>5, LenProperties
<1> QED BY <1>2, <1>5, <1>6 DEF n, N

-----------------------------------------------------------------------------
(***************************************************************************)
(* The passes over a program on its way.                                   *)
(***************************************************************************)
NoExtras(s) == [i \in 1 .. Len(SkeletonSource(s)) |-> << >>]

LEMMA JoinPass ==
  ASSUME NEW s \in Skeletons, NEW U \in Seq(FunctionType)
  PROVE  /\ NoExtras(s) \in Extras(s) /\ Nothing \in ArgumentLists
         /\ U \o SkeletonSource(s) = Rendered(U, s, NoExtras(s), Nothing)
<1> DEFINE K == SkeletonSource(s)
           G == KernelsWith(s, NoExtras(s), Nothing)
<1>1. K \in Seq(FunctionType) /\ \A i \in 1 .. Len(K) : OwnKernel(K[i])
  BY KernelTable DEF KernelsFit, KernelFits
<1>2. Nothing \in ArgumentLists
  <2>1. << >> \in Seq(Word) BY EmptySeq
  <2> QED BY <2>1 DEF Nothing, ArgumentLists
<1>3. NoExtras(s) \in Extras(s)
  <2>1. << >> \in Seq(ParameterType) BY EmptySeq
  <2>2. Whole(<< >>) BY EmptySeq DEF Whole
  <2> QED BY <2>1, <2>2 DEF NoExtras, Extras
<1>4. G \in Seq(FunctionType) /\ Len(G) = Len(K)
  BY <1>2, <1>3, KernelsWithType
<1>5. \A i \in 1 .. Len(K) : G[i] = K[i]
  <2> SUFFICES ASSUME NEW i \in 1 .. Len(K) PROVE G[i] = K[i] OBVIOUS
  <2>1. G[i] = Grown(K[i], << >>, Nothing) BY DEF KernelsWith, NoExtras
  <2> QED BY <1>1, <2>1, GrownFromNothing
<1> HIDE DEF G, K
<1>6. G = K BY <1>1, <1>4, <1>5, SeqEqual
<1> QED BY <1>2, <1>3, <1>6 DEF Rendered, G, K

LEMMA ArgumentsPass ==
  ASSUME NEW s \in Skeletons, NEW E \in Extras(s), NEW A \in ArgumentLists,
         NEW U, UserPart(U), NEW j \in 1 .. Len(U), NEW from, NEW start, NEW to \in Placeholders,
         Only(U, j, from), Rest(U[j], start) \in Seq(ParameterType),
         \A i \in 1 .. Len(U) : Without(U[i], to)
  PROVE  LET B == More(A, to, Names(Rest(U[j], start)))
         IN  /\ B \in ArgumentLists
             /\ TransferArguments(Rendered(U, s, E, A), from, start, to) = Rendered(U, s, E, B)
<1> DEFINE P == Rendered(U, s, E, A)
           G == KernelsWith(s, E, A)
           K == SkeletonSource(s)
           more == Names(Rest(U[j], start))
           B == More(A, to, more)
           Q == TransferArguments(P, from, start, to)
<1>1. U \in Seq(FunctionType) /\ \A i \in 1 .. Len(U) : U[i] \in FunctionType /\ U[i].name \notin KernelNames
  BY ElementOfSeq DEF UserPart
<1>2. P \in Seq(FunctionType) /\ InParts(P, U, G) BY <1>1, RenderedParts
<1>3. Extracted(P, from, start) = Rest(U[j], start)
  <2>1. from \notin KernelNames BY <1>1 DEF Only
  <2> QED BY <1>1, <2>1, ExtractedFromUser
<1>4. /\ G \in Seq(FunctionType) /\ Len(G) = Len(K)
      /\ \A i \in 1 .. Len(K) :
           OwnKernel(K[i]) /\ E[i] \in Seq(ParameterType) /\ G[i] = Grown(K[i], E[i], A)
  BY KernelsWithType
<1>5. Q = [i \in DOMAIN P |-> Passed(P[i], to, more)]
  BY <1>3, PassPointwise
<1>6. more \in Seq(Word) BY NamesType
<1> HIDE DEF P, G, Q, more
<1>7. \A i \in 1 .. Len(U) : Q[i] = U[i]
  <2> SUFFICES ASSUME NEW i \in 1 .. Len(U) PROVE Q[i] = U[i] OBVIOUS
  <2>1. i \in DOMAIN P /\ P[i] = U[i] BY <1>2 DEF InParts
  <2> QED BY <1>1, <1>5, <2>1, PassedNot
<1>8. \A i \in 1 .. Len(K) : B \in ArgumentLists /\ Q[Len(U) + i] = Grown(K[i], E[i], B)
  <2> SUFFICES ASSUME NEW i \in 1 .. Len(K)
               PROVE  B \in ArgumentLists /\ Q[Len(U) + i] = Grown(K[i], E[i], B)
    OBVIOUS
  <2> DEFINE q == Len(U) + i
  <2>1. q \in DOMAIN P /\ P[q] = G[i] BY <1>2, <1>4 DEF InParts
  <2> HIDE DEF q
  <2>2. Q[q] = Passed(Grown(K[i], E[i], A), to, more) BY <1>4, <1>5, <2>1
  <2>3. B \in ArgumentLists /\ Passed(Grown(K[i], E[i], A), to, more) = Grown(K[i], E[i], B)
    BY <1>4, <1>6, GrownArguments
  <2> QED BY <2>2, <2>3 DEF q
<1>9. B \in ArgumentLists
  <2>1. A[to] \o more \in Seq(Word) BY <1>6, ConcatProperties DEF ArgumentLists
  <2> QED BY <2>1 DEF ArgumentLists, More
<1>10. PassedOver(Q, P, U, s, E, B) BY <1>5, <1>7, <1>8 DEF PassedOver
<1> HIDE DEF B
<1>11. Q = Rendered(U, s, E, B) BY <1>1, <1>9, <1>10, RenderedPass DEF P
<1> QED BY <1>9, <1>11 DEF P, Q, B, more

LEMMA RenamePass ==
  ASSUME NEW s \in Skeletons, NEW E \in Extras(s), NEW A \in ArgumentLists,
         NEW U \in Seq(FunctionType), NEW from, NEW to \in Word,
         from \notin KernelNames, from \notin PlaceholdersOf(s)
  PROVE  RenameFunction(Rendered(U, s, E, A), from, to)
           = Rendered(RenameFunction(U, from, to), s, E, A)
<1> DEFINE P == Rendered(U, s, E, A)
           G == KernelsWith(s, E, A)
           K == SkeletonSource(s)
           V == RenameFunction(U, from, to)
           Q == RenameFunction(P, from, to)
<1>1. P \in Seq(FunctionType) /\ InParts(P, U, G) BY RenderedParts
<1>2. /\ G \in Seq(FunctionType) /\ Len(G) = Len(K)
      /\ \A i \in 1 .. Len(K) :
           /\ OwnKernel(K[i]) /\ K[i].name \in KernelNames
           /\ \A c \in K[i].calls : c.callee \in PlaceholdersOf(s)
           /\ E[i] \in Seq(ParameterType)
           /\ G[i] = Grown(K[i], E[i], A) /\ G[i] \in FunctionType
  BY KernelsWithType
<1>3. Q = [i \in DOMAIN P |-> Renamed(P[i], from, to)] BY RenamePointwise
<1>4. V = [i \in DOMAIN U |-> Renamed(U[i], from, to)] BY RenamePointwise
<1>5. V \in Seq(FunctionType) /\ Len(V) = Len(U) /\ \A i \in 1 .. Len(U) : V[i] = Renamed(U[i], from, to)
  <2> DEFINE n == Len(U)
  <2>1. n \in Nat /\ DOMAIN U = 1 .. n /\ \A i \in 1 .. n : U[i] \in FunctionType
    BY LenProperties, ElementOfSeq
  <2>2. \A i \in 1 .. n : Renamed(U[i], from, to) \in FunctionType BY <2>1, RenamedFields
  <2> HIDE DEF n, V
  <2>3. V \in [1 .. n -> FunctionType] BY <1>4, <2>1, <2>2
  <2>4. V \in Seq(FunctionType) BY <2>1, <2>3
  <2>5. Len(V) = n BY <2>1, <2>3, <2>4, LenProperties
  <2> QED BY <1>4, <2>1, <2>4, <2>5 DEF n
<1> HIDE DEF P, G, Q, V
<1>6. \A i \in 1 .. Len(U) : Q[i] = V[i]
  <2> SUFFICES ASSUME NEW i \in 1 .. Len(U) PROVE Q[i] = V[i] OBVIOUS
  <2>1. i \in DOMAIN P /\ P[i] = U[i] BY <1>1 DEF InParts
  <2> QED BY <1>3, <1>5, <2>1
<1>7. \A i \in 1 .. Len(K) : Q[Len(U) + i] = Grown(K[i], E[i], A)
  <2> SUFFICES ASSUME NEW i \in 1 .. Len(K) PROVE Q[Len(U) + i] = Grown(K[i], E[i], A) OBVIOUS
  <2> DEFINE q == Len(U) + i
             g == Grown(K[i], E[i], A)
  <2>1. q \in DOMAIN P /\ P[q] = g BY <1>1, <1>2 DEF InParts
  <2>2. /\ g \in FunctionType /\ g.name = K[i].name
        /\ g.calls = {Call(c.callee, c.args \o A[c.callee]) : c \in K[i].calls}
    BY <1>2, GrownFields
  <2> HIDE DEF q, g
  <2>3. Without(g, from)
    <3>1. g.name # from BY <1>2, <2>2
    <3>2. \A c \in K[i].calls : Call(c.callee, c.args \o A[c.callee]).callee = c.callee BY DEF Call
    <3>3. \A c \in g.calls : c.callee # from BY <1>2, <2>2, <3>2
    <3> QED BY <3>1, <3>3 DEF Without
  <2>4. Renamed(g, from, to) = g BY <2>2, <2>3, RenamedNot
  <2> QED BY <1>3, <2>1, <2>4 DEF q, g
<1>8. PassedOver(Q, P, V, s, E, A) BY <1>3, <1>5, <1>6, <1>7 DEF PassedOver
<1>9. Q = Rendered(V, s, E, A) BY <1>5, <1>8, RenderedPass DEF P
<1> QED BY <1>9 DEF P, Q, V

-----------------------------------------------------------------------------
(***************************************************************************)
(* How far the passes over a request's source have come: the program after *)
(* the first k of them.  (All skeletons but AllPairs with two functions    *)
(* have one source.)                                                       *)
(***************************************************************************)
OneSource(r) == r.skeleton # "allpairs"

\* AllPairs renames the functions to reduce and to zip twice.
Temporary(n) == IF n = 1 THEN "TMP_REDUCE" ELSE "TMP_ZIP"

Final(r, n) ==
  IF OneSource(r) THEN Placeholder(r.skeleton) ELSE IF n = 1 THEN "USR_REDUCE" ELSE "USR_ZIP"

\* The passes before the element types are filled in.
Before(r) == IF OneSource(r) THEN Len(Extended(r.skeleton)) + 3 ELSE 9

Joined(r) == IF OneSource(r) THEN 1 ELSE 3

UsedAs(r, n, name) == RenameFunction(r.sources[n], r.names[n], name)

SourceAt(r, n, k) ==
  IF k >= Before(r) - Len(r.sources) + n THEN UsedAs(r, n, Final(r, n))
  ELSE IF ~ OneSource(r) /\ k >= n THEN UsedAs(r, n, Temporary(n))
  ELSE r.sources[n]

UserAt(r, k) ==
  IF OneSource(r) THEN SourceAt(r, 1, k) ELSE SourceAt(r, 1, k) \o SourceAt(r, 2, k)

\* What kernel i has got.
ExtraAt(r, i, k) ==
  IF OneSource(r)
  THEN IF i <= Len(Extended(r.skeleton)) /\ i < k THEN AdditionalOf(r, 1) ELSE << >>
  ELSE IF k < 4 THEN << >>
  ELSE IF k < 6 THEN AdditionalOf(r, 1)
  ELSE AdditionalOf(r, 1) \o AdditionalOf(r, 2)

ExtrasAt(r, k) == [i \in 1 .. Len(SkeletonSource(r.skeleton)) |-> ExtraAt(r, i, k)]

Given(A, r, n) == More(A, Final(r, n), Names(AdditionalOf(r, n)))

ListsAt(r, k) ==
  IF OneSource(r)
  THEN IF k < Before(r) - 1 THEN Nothing ELSE Given(Nothing, r, 1)
  ELSE IF k < 5 THEN Nothing
  ELSE IF k < 7 THEN Given(Nothing, r, 1)
  ELSE Given(Given(Nothing, r, 1), r, 2)

ProgramAt(r, k) ==
  IF k < Joined(r) THEN << >>
  ELSE Rendered(UserAt(r, k), r.skeleton, ExtrasAt(r, k), ListsAt(r, k))

SourcesAt(r, k) ==
  IF k < Joined(r) THEN [n \in 1 .. Len(r.sources) |-> SourceAt(r, n, k)] ELSE << >>

\* No element type is forgotten.
TypesAt(r, k, t) ==
  IF k < Joined(r) THEN t = << >>
  ELSE /\ t = [i \in Typedefs(r.skeleton) |-> t[i]]
       /\ \A i \in DOMAIN t : t[i] = "float" => k <= Before(r) + i

Left(p, k) == SubSeq(p, k + 1, Len(p))

Progress(r, k) ==
  /\ todo = Left(Passes(r), k) /\ sources = SourcesAt(r, k) /\ program = ProgramAt(r, k)
  /\ TypesAt(r, k, types)

KernelsOf(P) == {f.name : f \in {g \in ToSet(P) : g.kernel}}

HostSets ==
  \/ set = << >>
  \/ todo = << >> /\ set = [k \in KernelsOf(program) |-> SetArguments(request, k)]

Inv ==
  \/ request = None /\ todo = << >> /\ program = << >> /\ types = << >> /\ set = << >>
  \/ /\ request \in Requests /\ Acceptable(request) /\ HostSets
     /\ \E k \in 0 .. Len(Passes(request)) : Progress(request, k)

-----------------------------------------------------------------------------
(***************************************************************************)
(* Requests.                                                               *)
(***************************************************************************)
\* A user's function as the user wrote it.
LEMMA UserCodeType ==
  ASSUME NEW f \in UserCode
  PROVE  /\ f \in FunctionType /\ ~ f.kernel /\ f.locals = {}
         /\ f.name \in UserName /\ f.params \in Seq(ParameterType) /\ Whole(f.params)
         /\ \A k \in 1 .. Len(f.params) : f.params[k].name \in STRING
         /\ \A c \in f.calls : c.callee \in UserName /\ c.args \in Seq(STRING)
<1> DEFINE X == f.params
           n == Len(X)
<1>1. X \in Seq(UserParameter) /\ f.kernel = FALSE /\ f.locals = {} /\ f.name \in UserName
  BY DEF UserCode
<1>2. UserParameter \subseteq ParameterType BY DEF UserParameter, ParameterType, Word
<1>3. X \in Seq(ParameterType) BY <1>1, <1>2, SeqMonotonic
<1>4. \A k \in 1 .. n : X[k] \in UserParameter BY <1>1, ElementOfSeq
<1>5. Whole(X) /\ \A k \in 1 .. n : X[k].name \in STRING BY <1>4 DEF Whole, UserParameter
<1> HIDE DEF X, n
<1>6. \A c \in f.calls : c.callee \in UserName /\ c.args \in Seq(STRING) BY DEF UserCode
<1>7. UserName \subseteq Word /\ STRING \subseteq Word BY DEF UserName, Word
<1>8. f.calls \in SUBSET CallType
  <2> SUFFICES ASSUME NEW c \in f.calls PROVE c \in CallType OBVIOUS
  <2>1. c \in [callee : UserName, args : Seq(STRING)] BY DEF UserCode
  <2>2. c.callee \in Word BY <1>7, <2>1
  <2>3. c.args \in Seq(Word) BY <1>7, <2>1, SeqMonotonic
  <2>4. c = [callee |-> c.callee, args |-> c.args] BY <2>1
  <2> QED BY <2>2, <2>3, <2>4 DEF CallType
<1>9. f \in FunctionType
  <2>1. f = [name |-> f.name, kernel |-> f.kernel, params |-> f.params, locals |-> f.locals,
             calls |-> f.calls]
    BY DEF UserCode
  <2>2. f.name \in Word /\ f.kernel \in BOOLEAN /\ f.locals \in SUBSET Word BY <1>1, <1>7
  <2>3. f.params \in Seq(ParameterType) BY <1>3 DEF X
  <2> QED BY <1>8, <2>1, <2>2, <2>3 DEF FunctionType
<1> QED BY <1>1, <1>3, <1>5, <1>6, <1>9 DEF X, n

\* A source as the user wrote it.
LEMMA SourceType ==
  ASSUME NEW U \in Seq(UserCode)
  PROVE  /\ U \in Seq(FunctionType) /\ UserPart(U)
         /\ \A i \in 1 .. Len(U) : U[i] \in UserCode
         /\ \A x \in Reserved : \A i \in 1 .. Len(U) : Without(U[i], x)
<1>1. \A i \in 1 .. Len(U) : U[i] \in UserCode BY ElementOfSeq
<1>2. UserCode \subseteq FunctionType BY UserCodeType
<1>3. U \in Seq(FunctionType) BY <1>2, SeqMonotonic
<1>4. \A i \in 1 .. Len(U) :
        /\ ~ U[i].kernel /\ U[i].name \in UserName
        /\ \A c \in U[i].calls : c.callee \in UserName
  BY <1>1, UserCodeType
<1>5. \A x \in UserName : x \notin Reserved /\ x \notin KernelNames BY DEF UserName, Reserved
<1>6. UserPart(U) BY <1>3, <1>4, <1>5 DEF UserPart
<1>7. \A x \in Reserved : \A i \in 1 .. Len(U) : Without(U[i], x) BY <1>4, <1>5 DEF Without
<1> QED BY <1>1, <1>3, <1>6, <1>7

LEMMA LeadingType == \A s \in Skeletons : Leading(s) \in {1, 2, 3}
BY DEF Skeletons, Leading, Zips

LEMMA RequestType ==
  ASSUME NEW r \in Requests
  PROVE  /\ IsRequest(r) /\ r.skeleton \in Skeletons /\ r # None
         /\ r.sources \in Seq(Seq(UserCode)) /\ r.names \in Seq(UserName)
         /\ Len(r.sources) = (IF OneSource(r) THEN 1 ELSE 2) /\ Len(r.names) = Len(r.sources)
         /\ DOMAIN r.sources = 1 .. Len(r.sources) /\ DOMAIN r.names = 1 .. Len(r.sources)
         /\ \A n \in 1 .. Len(r.sources) :
              r.sources[n] \in Seq(UserCode) /\ r.names[n] \in UserName
<1>1. IsRequest(r) BY RequestsAssumption
<1>2. /\ r.skeleton \in Skeletons
      /\ r.sources \in Seq(Seq(UserCode)) /\ r.names \in Seq(UserName)
      /\ Len(r.sources) = (IF OneSource(r) THEN 1 ELSE 2) /\ Len(r.names) = Len(r.sources)
  BY <1>1 DEF IsRequest, OneSource
<1>3. DOMAIN r.sources = 1 .. Len(r.sources) /\ DOMAIN r.names = 1 .. Len(r.sources)
  BY <1>2, LenProperties
<1>4. \A n \in 1 .. Len(r.sources) : r.sources[n] \in Seq(UserCode) /\ r.names[n] \in UserName
  BY <1>2, ElementOfSeq
<1>5. r # None
  <2>1. None.skeleton = "none" BY DEF None
  <2>2. "none" \notin Skeletons BY DEF Skeletons
  <2> QED BY <1>2, <2>1, <2>2
<1> QED BY <1>1, <1>2, <1>3, <1>4, <1>5

\* Function j of source n is the one to use.
IsUsed(r, n, j) ==
  /\ j \in 1 .. Len(r.sources[n]) /\ r.sources[n][j].name = r.names[n]
  /\ \A i \in 1 .. Len(r.sources[n]) : r.sources[n][i].name = r.names[n] => i = j
  /\ Used(r, n) = r.sources[n][j]
  /\ Len(Used(r, n).params) >= Leading(r.skeleton)

LEMMA UsedFunction ==
  ASSUME NEW r \in Requests, NEW n \in 1 .. Len(r.sources)
  PROVE  \E j : IsUsed(r, n, j)
<1> DEFINE U == r.sources[n]
           name == r.names[n]
           I == {i \in 1 .. Len(U) : U[i].name = name}
<1>1. U \in Seq(UserCode) /\ n \in DOMAIN r.sources /\ IsRequest(r) BY RequestType
<1>2. Len(U) \in Nat /\ DOMAIN U = 1 .. Len(U) BY <1>1, LenProperties
<1>3. Compiles(U) BY <1>1 DEF IsRequest
<1>4. PICK f \in ToSet(U) : f.name = name /\ Len(f.params) >= Leading(r.skeleton)
  BY <1>1 DEF IsRequest
<1>5. PICK j \in 1 .. Len(U) : U[j] = f BY <1>2, <1>4 DEF ToSet
<1>6. \A i \in 1 .. Len(U) : U[i].name = name => i = j
  <2>1. DOMAIN Names(U) = 1 .. Len(U) /\ \A i \in 1 .. Len(U) : Names(U)[i] = U[i].name
    BY <1>2 DEF Names
  <2>2. IsInjective(Names(U)) BY <1>3 DEF Compiles
  <2>3. \A x, y \in 1 .. Len(U) : Names(U)[x] = Names(U)[y] => x = y
    BY <2>1, <2>2 DEF IsInjective
  <2> QED BY <1>4, <1>5, <2>1, <2>3
<1>7. I = {j} BY <1>4, <1>5, <1>6
<1>8. Max({j}) = j BY <1>2 DEF Max
<1>9. Used(r, n) = U[j]
  <2>1. SelectLastInSeq(U, LAMBDA g : g.name = name) = IF I # {} THEN Max(I) ELSE 0
    BY DEF SelectLastInSeq
  <2> HIDE DEF I
  <2>2. SelectLastInSeq(U, LAMBDA g : g.name = name) = j BY <1>7, <1>8, <2>1
  <2> QED BY <2>2 DEF Used
<1> QED BY <1>4, <1>5, <1>6, <1>9 DEF IsUsed

LEMMA RestType ==
  ASSUME NEW f \in FunctionType, NEW l \in Nat, Whole(f.params)
  PROVE  /\ Rest(f, l) \in Seq(ParameterType) /\ Whole(Rest(f, l))
         /\ Len(f.params) >= l => Len(f.params) = l + Len(Rest(f, l))
         /\ \A k \in 1 .. Len(Rest(f, l)) :
              l + k \in 1 .. Len(f.params) /\ Rest(f, l)[k] = f.params[l + k]
<1> DEFINE X == f.params
           n == Len(X)
           R == Rest(f, l)
<1>1. X \in Seq(ParameterType) /\ n \in Nat BY LenProperties DEF FunctionType
<1>2. \A i \in l + 1 .. n : i \in 1 .. n /\ X[i] \in ParameterType BY <1>1, ElementOfSeq
<1>3. R = SubSeq(X, l + 1, n) BY DEF Rest
<1> HIDE DEF X, n, R
<1>4. /\ R \in Seq(ParameterType)
      /\ Len(R) = (IF l + 1 <= n THEN n - (l + 1) + 1 ELSE 0)
      /\ \A i \in 1 .. n - (l + 1) + 1 : R[i] = X[l + 1 + i - 1]
  <2>1. l + 1 \in Int /\ n \in Int BY <1>1
  <2> QED BY <1>2, <1>3, <2>1, SubSeqProperties
<1>5. \A k \in 1 .. Len(R) : l + k \in 1 .. n /\ R[k] = X[l + k]
  <2> SUFFICES ASSUME NEW k \in 1 .. Len(R) PROVE l + k \in 1 .. n /\ R[k] = X[l + k] OBVIOUS
  <2>1. l + 1 <= n /\ k \in 1 .. n - (l + 1) + 1 /\ l + 1 + k - 1 = l + k /\ l + k \in 1 .. n
    BY <1>1, <1>4
  <2> QED BY <1>4, <2>1
<1>6. Whole(R) BY <1>5 DEF Whole, X, n
<1>7. n >= l => n = l + Len(R)
  <2>1. Len(R) = (IF l + 1 <= n THEN n - (l + 1) + 1 ELSE 0) BY <1>4
  <2> QED BY <1>1, <2>1
<1> QED BY <1>4, <1>5, <1>6, <1>7 DEF X, n, R

\* The parameters in addition.
LEMMA AdditionalType ==
  ASSUME NEW r \in Requests, NEW n \in 1 .. Len(r.sources)
  PROVE  /\ AdditionalOf(r, n) \in Seq(ParameterType) /\ Whole(AdditionalOf(r, n))
         /\ Len(Used(r, n).params) = Leading(r.skeleton) + Len(AdditionalOf(r, n))
<1>1. PICK j : IsUsed(r, n, j) BY UsedFunction
<1>2. Used(r, n) \in UserCode BY <1>1, RequestType, SourceType DEF IsUsed
<1>3. Used(r, n) \in FunctionType /\ Whole(Used(r, n).params) BY <1>2, UserCodeType
<1>4. Leading(r.skeleton) \in Nat
  <2>1. r.skeleton \in Skeletons BY RequestType
  <2> QED BY <2>1, LeadingType
<1>5. Len(Used(r, n).params) >= Leading(r.skeleton) BY <1>1 DEF IsUsed
<1> QED BY <1>3, <1>4, <1>5, RestType DEF AdditionalOf

LEMMA AdditionalParts ==
  ASSUME NEW r \in Requests
  PROVE  /\ AdditionalBefore(r, 1) = << >>
         /\ OneSource(r) => Additional(r) = AdditionalOf(r, 1)
         /\ ~ OneSource(r) => /\ AdditionalBefore(r, 2) = AdditionalOf(r, 1)
                              /\ Additional(r) = AdditionalOf(r, 1) \o AdditionalOf(r, 2)
<1> DEFINE X == AdditionalOf(r, 1)
           Y == AdditionalOf(r, 2)
<1>1. /\ Len(r.sources) = (IF OneSource(r) THEN 1 ELSE 2)
      /\ X \in Seq(ParameterType) /\ (~ OneSource(r) => Y \in Seq(ParameterType))
  <2>1. Len(r.sources) = (IF OneSource(r) THEN 1 ELSE 2) BY RequestType
  <2>2. 1 \in 1 .. Len(r.sources) /\ (~ OneSource(r) => 2 \in 1 .. Len(r.sources)) BY <2>1
  <2> QED BY <2>1, <2>2, AdditionalType
<1>2. AdditionalBefore(r, 1) = << >>
  <2>1. [m \in 1 .. 1 - 1 |-> AdditionalOf(r, m)] = << >> OBVIOUS
  <2> QED BY <2>1, FlattenNone DEF AdditionalBefore
<1>3. AdditionalBefore(r, 2) = X
  <2>1. [m \in 1 .. 2 - 1 |-> AdditionalOf(r, m)] = <<X>> OBVIOUS
  <2>2. FlattenSeq(<<X>>) = X BY <1>1, FlattenTwo
  <2> QED BY <2>1, <2>2 DEF AdditionalBefore
<1>4. ASSUME ~ OneSource(r) PROVE AdditionalBefore(r, 3) = X \o Y
  <2>1. [m \in 1 .. 3 - 1 |-> AdditionalOf(r, m)] = <<X, Y>> OBVIOUS
  <2>2. FlattenSeq(<<X, Y>>) = X \o Y BY <1>1, <1>4, FlattenTwo
  <2> QED BY <2>1, <2>2 DEF AdditionalBefore
<1>5. /\ OneSource(r) => Additional(r) = AdditionalBefore(r, 2)
      /\ ~ OneSource(r) => Additional(r) = AdditionalBefore(r, 3)
  <2>1. 1 + 1 = 2 /\ 2 + 1 = 3 OBVIOUS
  <2> QED BY <1>1, <2>1 DEF Additional
<1> QED BY <1>2, <1>3, <1>4, <1>5

-----------------------------------------------------------------------------
(***************************************************************************)
(* The user's part of the program, while its functions are renamed.        *)
(***************************************************************************)
\* There is one function x, and X are its parameters after the first l.
Offers(U, x, l, X) ==
  /\ UserPart(U)
  /\ \E j \in 1 .. Len(U) : Only(U, j, x) /\ Rest(U[j], l) = X

Lacks(U, x) == \A i \in 1 .. Len(U) : Without(U[i], x)

LEMMA RenamedSource ==
  ASSUME NEW U \in Seq(FunctionType), NEW from, NEW to \in Word
  PROVE  LET V == RenameFunction(U, from, to)
         IN  /\ V \in Seq(FunctionType) /\ Len(V) = Len(U)
             /\ \A i \in 1 .. Len(U) : V[i] = Renamed(U[i], from, to) /\ U[i] \in FunctionType
<1> DEFINE n == Len(U)
           V == RenameFunction(U, from, to)
<1>1. n \in Nat /\ DOMAIN U = 1 .. n /\ \A i \in 1 .. n : U[i] \in FunctionType
  BY LenProperties, ElementOfSeq
<1>2. V = [i \in DOMAIN U |-> Renamed(U[i], from, to)] BY RenamePointwise
<1>3. \A i \in 1 .. n : Renamed(U[i], from, to) \in FunctionType BY <1>1, RenamedFields
<1> HIDE DEF n, V
<1>4. V \in [1 .. n -> FunctionType] BY <1>1, <1>2, <1>3
<1>5. V \in Seq(FunctionType) BY <1>1, <1>4
<1>6. Len(V) = n BY <1>1, <1>4, <1>5, LenProperties
<1> QED BY <1>1, <1>2, <1>5, <1>6 DEF n, V

LEMMA RenameLacking ==
  ASSUME NEW U \in Seq(FunctionType), NEW from, NEW to \in Word, Lacks(U, from)
  PROVE  RenameFunction(U, from, to) = U
<1> DEFINE V == RenameFunction(U, from, to)
<1>1. /\ V \in Seq(FunctionType) /\ Len(V) = Len(U)
      /\ \A i \in 1 .. Len(U) : V[i] = Renamed(U[i], from, to) /\ U[i] \in FunctionType
  BY RenamedSource
<1> HIDE DEF V
<1>2. \A i \in 1 .. Len(U) : V[i] = U[i] BY <1>1, RenamedNot DEF Lacks
<1>3. V = U BY <1>1, <1>2, SeqEqual
<1> QED BY <1>3 DEF V

LEMMA RenameConcat ==
  ASSUME NEW U \in Seq(FunctionType), NEW W \in Seq(FunctionType), NEW from, NEW to \in Word
  PROVE  RenameFunction(U \o W, from, to) = RenameFunction(U, from, to) \o RenameFunction(W, from, to)
<1> DEFINE P == U \o W
           Q == RenameFunction(P, from, to)
           V == RenameFunction(U, from, to)
           Z == RenameFunction(W, from, to)
<1>1. P \in Seq(FunctionType) /\ InParts(P, U, W) BY ConcatInParts
<1>2. /\ V \in Seq(FunctionType) /\ Len(V) = Len(U)
      /\ \A i \in 1 .. Len(U) : V[i] = Renamed(U[i], from, to)
  BY RenamedSource
<1>3. /\ Z \in Seq(FunctionType) /\ Len(Z) = Len(W)
      /\ \A i \in 1 .. Len(W) : Z[i] = Renamed(W[i], from, to)
  BY RenamedSource
<1> HIDE DEF P, Q, V, Z
<1>4. Q = [i \in DOMAIN P |-> Renamed(P[i], from, to)] BY RenamePointwise DEF Q
<1>5. MadeOf(Q, V, Z) BY <1>1, <1>2, <1>3, <1>4 DEF MadeOf, InParts
<1>6. Q = V \o Z BY <1>2, <1>3, <1>5, Halves
<1> QED BY <1>6 DEF P, Q, V, Z

LEMMA OffersBoth ==
  ASSUME NEW U, NEW W, UserPart(U), UserPart(W), NEW x, NEW l, NEW X
  PROVE  /\ UserPart(U \o W)
         /\ Lacks(U, x) /\ Lacks(W, x) => Lacks(U \o W, x)
         /\ Offers(U, x, l, X) /\ Lacks(W, x) => Offers(U \o W, x, l, X)
         /\ Offers(W, x, l, X) /\ Lacks(U, x) => Offers(U \o W, x, l, X)
<1> DEFINE P == U \o W
           m == Len(U)
           n == Len(W)
<1>1. U \in Seq(FunctionType) /\ W \in Seq(FunctionType) BY DEF UserPart
<1>2. P \in Seq(FunctionType) /\ InParts(P, U, W) BY <1>1, ConcatInParts
<1>3. m \in Nat /\ n \in Nat BY <1>1, LenProperties
<1> HIDE DEF P, m, n
<1>4. /\ Len(P) = m + n /\ DOMAIN P = 1 .. Len(P)
      /\ \A i \in 1 .. m : i \in 1 .. Len(P) /\ P[i] = U[i]
      /\ \A i \in 1 .. n : m + i \in 1 .. Len(P) /\ P[m + i] = W[i]
      /\ \A i \in 1 .. Len(P) : i \in 1 .. m \/ \E k \in 1 .. n : i = m + k
  BY <1>2 DEF InParts, m, n
<1>5. UserPart(P) BY <1>2, <1>4 DEF UserPart, m, n
<1>6. Lacks(U, x) /\ Lacks(W, x) => Lacks(P, x) BY <1>4 DEF Lacks, m, n
<1>7. ASSUME Offers(U, x, l, X), Lacks(W, x) PROVE Offers(P, x, l, X)
  <2>1. PICK j \in 1 .. m : /\ U[j].name = x /\ \A i \in 1 .. m : U[i].name = x => i = j
                            /\ Rest(U[j], l) = X
    BY <1>7 DEF Offers, Only, m
  <2>2. \A i \in 1 .. n : W[i].name # x BY <1>7 DEF Lacks, Without, n
  <2>3. j \in 1 .. Len(P) /\ P[j] = U[j] BY <1>4
  <2>4. \A i \in 1 .. Len(P) : P[i].name = x => i = j BY <1>4, <2>1, <2>2
  <2> QED BY <1>5, <2>1, <2>3, <2>4 DEF Offers, Only
<1>8. ASSUME Offers(W, x, l, X), Lacks(U, x) PROVE Offers(P, x, l, X)
  <2>1. PICK j \in 1 .. n : /\ W[j].name = x /\ \A i \in 1 .. n : W[i].name = x => i = j
                            /\ Rest(W[j], l) = X
    BY <1>8 DEF Offers, Only, n
  <2>2. \A i \in 1 .. m : U[i].name # x BY <1>8 DEF Lacks, Without, m
  <2>3. m + j \in 1 .. Len(P) /\ P[m + j] = W[j] BY <1>4
  <2>4. \A i \in 1 .. Len(P) : P[i].name = x => i = m + j BY <1>4, <2>1, <2>2
  <2> QED BY <1>5, <2>1, <2>3, <2>4 DEF Offers, Only
<1> QED BY <1>5, <1>6, <1>7, <1>8 DEF P

LEMMA SourceOffers ==
  ASSUME NEW r \in Requests, NEW n \in 1 .. Len(r.sources)
  PROVE  /\ Offers(r.sources[n], r.names[n], Leading(r.skeleton), AdditionalOf(r, n))
         /\ \A y \in Reserved : Lacks(r.sources[n], y)
<1>1. r.sources[n] \in Seq(UserCode) BY RequestType
<1>2. UserPart(r.sources[n]) /\ \A y \in Reserved : Lacks(r.sources[n], y)
  BY <1>1, SourceType DEF Lacks
<1>3. PICK j : IsUsed(r, n, j) BY UsedFunction
<1> QED BY <1>2, <1>3 DEF Offers, Only, IsUsed, AdditionalOf

\* The names that the function goes by.
NewNames == Reserved \ KernelNames

LEMMA NewNamesType ==
  /\ NewNames \subseteq Word /\ NewNames \subseteq Reserved /\ Placeholders \subseteq NewNames
  /\ Expression \notin NewNames
  /\ "TMP_REDUCE" \in NewNames /\ "TMP_ZIP" \in NewNames
  /\ \A x \in NewNames : x \notin KernelNames
<1>1. NewNames \subseteq Word BY DEF NewNames, Word
<1>2. Placeholders \subseteq NewNames BY DEF NewNames, Reserved, Placeholders, KernelNames
<1>3. "TMP_REDUCE" \in NewNames /\ "TMP_ZIP" \in NewNames BY DEF NewNames, Reserved, KernelNames
<1>4. Expression \notin NewNames BY DEF NewNames, Reserved, Expression, Placeholders, KernelNames
<1> QED BY <1>1, <1>2, <1>3, <1>4 DEF NewNames

LEMMA UsedAsOffers ==
  ASSUME NEW r \in Requests, NEW n \in 1 .. Len(r.sources), NEW y \in NewNames
  PROVE  LET V == UsedAs(r, n, y)
         IN  /\ Offers(V, y, Leading(r.skeleton), AdditionalOf(r, n))
             /\ \A x \in Reserved : x # y => Lacks(V, x)
             /\ V \in Seq(FunctionType) /\ Len(V) = Len(r.sources[n])
             /\ \A i \in 1 .. Len(V) : V[i] = Renamed(r.sources[n][i], r.names[n], y)
<1> DEFINE U == r.sources[n]
           V == UsedAs(r, n, y)
           from == r.names[n]
<1>1. U \in Seq(UserCode) /\ from \in UserName BY RequestType
<1>2. /\ U \in Seq(FunctionType) /\ UserPart(U)
      /\ \A x \in Reserved : \A i \in 1 .. Len(U) : Without(U[i], x)
  BY <1>1, SourceType
<1>3. y \in Word /\ y \in Reserved /\ y \notin KernelNames BY NewNamesType
<1>4. /\ V \in Seq(FunctionType) /\ Len(V) = Len(U)
      /\ \A i \in 1 .. Len(U) : V[i] = Renamed(U[i], from, y) /\ U[i] \in FunctionType
  BY <1>2, <1>3, RenamedSource DEF UsedAs
<1>5. PICK j : IsUsed(r, n, j) BY UsedFunction
<1> HIDE DEF U, V, from
<1>6. \A i \in 1 .. Len(U) :
        /\ V[i].name = (IF U[i].name = from THEN y ELSE U[i].name)
        /\ V[i].calls = {NewCall(c, from, y) : c \in U[i].calls}
        /\ V[i].kernel = U[i].kernel /\ V[i].params = U[i].params
  BY <1>3, <1>4, RenamedFields
<1>7. UserPart(V) BY <1>2, <1>3, <1>4, <1>6 DEF UserPart
<1>8. Offers(V, y, Leading(r.skeleton), AdditionalOf(r, n))
  <2>1. /\ j \in 1 .. Len(U) /\ U[j].name = from
        /\ \A i \in 1 .. Len(U) : U[i].name = from => i = j
        /\ Used(r, n) = U[j]
    BY <1>5 DEF IsUsed, U, from
  <2>2. V[j].name = y BY <1>6, <2>1
  <2>3. \A i \in 1 .. Len(U) : U[i].name # y BY <1>2, <1>3 DEF Without
  <2>4. \A i \in 1 .. Len(V) : V[i].name = y => i = j BY <1>4, <1>6, <2>1, <2>3
  <2>5. Rest(V[j], Leading(r.skeleton)) = AdditionalOf(r, n)
    BY <1>6, <2>1 DEF Rest, AdditionalOf
  <2> QED BY <1>4, <1>7, <2>1, <2>2, <2>4, <2>5 DEF Offers, Only
<1>9. ASSUME NEW x \in Reserved, x # y, NEW i \in 1 .. Len(V) PROVE Without(V[i], x)
  <2>1. i \in 1 .. Len(U) /\ Without(U[i], x) BY <1>2, <1>4
  <2>2. V[i].name # x BY <1>6, <1>9, <2>1 DEF Without
  <2>3. ASSUME NEW c \in U[i].calls PROVE NewCall(c, from, y).callee # x
    <3>1. c.callee # x BY <2>1 DEF Without
    <3> QED BY <1>9, <3>1 DEF NewCall, Call
  <2>4. V[i].calls = {NewCall(c, from, y) : c \in U[i].calls} BY <1>6, <2>1
  <2>5. \A d \in V[i].calls : d.callee # x BY <2>3, <2>4
  <2> QED BY <2>2, <2>5 DEF Without
<1>10. \A x \in Reserved : x # y => Lacks(V, x) BY <1>9 DEF Lacks
<1> QED BY <1>4, <1>8, <1>10 DEF U, V, from

\* A function that is renamed twice.
LEMMA UsedAsAgain ==
  ASSUME NEW r \in Requests, NEW n \in 1 .. Len(r.sources), NEW y \in NewNames, NEW z \in NewNames
  PROVE  RenameFunction(UsedAs(r, n, y), y, z) = UsedAs(r, n, z)
<1> DEFINE U == r.sources[n]
           V == UsedAs(r, n, y)
           W == UsedAs(r, n, z)
           Q == RenameFunction(V, y, z)
           from == r.names[n]
<1>1. U \in Seq(UserCode) /\ y \in Word /\ z \in Word /\ y # Expression /\ y \in Reserved
  BY RequestType, NewNamesType
<1>2. U \in Seq(FunctionType) /\ \A i \in 1 .. Len(U) : Without(U[i], y)
  BY <1>1, SourceType
<1>3. /\ V \in Seq(FunctionType) /\ Len(V) = Len(U)
      /\ \A i \in 1 .. Len(U) : V[i] = Renamed(U[i], from, y) /\ U[i] \in FunctionType
  BY <1>1, <1>2, RenamedSource DEF UsedAs
<1>4. /\ W \in Seq(FunctionType) /\ Len(W) = Len(U)
      /\ \A i \in 1 .. Len(U) : W[i] = Renamed(U[i], from, z)
  BY <1>1, <1>2, RenamedSource DEF UsedAs
<1> HIDE DEF V, W
<1>5. /\ Q \in Seq(FunctionType) /\ Len(Q) = Len(V)
      /\ \A i \in 1 .. Len(V) : Q[i] = Renamed(V[i], y, z)
  BY <1>1, <1>3, RenamedSource
<1> HIDE DEF Q, U, from
<1>6. \A i \in 1 .. Len(Q) : Q[i] = W[i]
  <2> SUFFICES ASSUME NEW i \in 1 .. Len(Q) PROVE Q[i] = W[i] OBVIOUS
  <2>1. i \in 1 .. Len(U) /\ U[i] \in FunctionType /\ Without(U[i], y) BY <1>2, <1>3, <1>5
  <2>2. Q[i] = Renamed(Renamed(U[i], from, y), y, z) BY <1>3, <1>5, <2>1
  <2>3. Renamed(Renamed(U[i], from, y), y, z) = Renamed(U[i], from, z)
    BY <1>1, <2>1, RenamedTwice
  <2> QED BY <1>4, <2>1, <2>2, <2>3
<1>7. Q = W BY <1>3, <1>4, <1>5, <1>6, SeqEqual
<1> QED BY <1>7 DEF Q, V, W

\* Kernel to gets the parameters X.
Gets(s, E, to, X, F) ==
  \A i \in 1 .. Len(SkeletonSource(s)) :
    F[i] = IF SkeletonSource(s)[i].name = to THEN E[i] \o X ELSE E[i]

LEMMA ParametersPass ==
  ASSUME NEW s \in Skeletons, NEW E \in Extras(s), NEW A \in ArgumentLists,
         NEW U, NEW from, NEW start, NEW to \in KernelNames,
         NEW X \in Seq(ParameterType), Whole(X), Offers(U, from, start, X),
         NEW F \in Extras(s), Gets(s, E, to, X, F)
  PROVE  FixKernelParameter(TransferParameters(Rendered(U, s, E, A), from, start, to), to)
           = Rendered(U, s, F, A)
<1> DEFINE P == Rendered(U, s, E, A)
           G == KernelsWith(s, E, A)
           K == SkeletonSource(s)
           T == TransferParameters(P, from, start, to)
           Q == FixKernelParameter(T, to)
<1>0. U \in Seq(FunctionType) BY DEF UserPart, Offers
<1>1. U \in Seq(FunctionType) /\ \A i \in 1 .. Len(U) : ~ U[i].kernel /\ U[i].name \notin KernelNames
  BY DEF UserPart, Offers
<1>a. PICK j \in 1 .. Len(U) : Only(U, j, from) /\ Rest(U[j], start) = X
  BY DEF Offers
<1>2. P \in Seq(FunctionType) /\ InParts(P, U, G) BY <1>1, RenderedParts
<1>3. Extracted(P, from, start) = X
  <2>1. from \notin KernelNames BY <1>1, <1>a DEF Only
  <2>2. Extracted(P, from, start) = Rest(U[j], start) BY <1>0, <1>a, <2>1, ExtractedFromUser
  <2> QED BY <1>a, <2>2
<1>4. /\ G \in Seq(FunctionType) /\ Len(G) = Len(K)
      /\ \A i \in 1 .. Len(K) :
           /\ OwnKernel(K[i]) /\ E[i] \in Seq(ParameterType) /\ Whole(E[i])
           /\ G[i] = Grown(K[i], E[i], A) /\ G[i] \in FunctionType
           /\ G[i].name = K[i].name /\ G[i].kernel
  BY KernelsWithType
<1>5. T = [i \in DOMAIN P |-> IF P[i].name = to THEN Appended(P[i], X) ELSE P[i]]
  BY <1>3, TransferPointwise
<1>6. Q = [i \in DOMAIN T |-> IF T[i].name = to /\ T[i].kernel THEN Fixed(T[i]) ELSE T[i]]
  BY FixPointwise
<1> HIDE DEF P, G, T, Q
<1>7. DOMAIN Q = DOMAIN P /\ Q = [i \in DOMAIN P |-> Q[i]] BY <1>5, <1>6
<1>8. \A i \in 1 .. Len(U) : Q[i] = U[i]
  <2> SUFFICES ASSUME NEW i \in 1 .. Len(U) PROVE Q[i] = U[i] OBVIOUS
  <2>1. i \in DOMAIN P /\ P[i] = U[i] BY <1>2 DEF InParts
  <2>2. U[i].name # to BY <1>1
  <2>3. T[i] = U[i] /\ i \in DOMAIN T BY <1>5, <2>1, <2>2
  <2> QED BY <1>6, <2>2, <2>3
<1>9. \A i \in 1 .. Len(K) : Q[Len(U) + i] = Grown(K[i], F[i], A)
  <2> SUFFICES ASSUME NEW i \in 1 .. Len(K) PROVE Q[Len(U) + i] = Grown(K[i], F[i], A) OBVIOUS
  <2> DEFINE q == Len(U) + i
  <2>1. q \in DOMAIN P /\ P[q] = G[i] BY <1>2, <1>4 DEF InParts
  <2> HIDE DEF q
  <2>2. q \in DOMAIN T BY <1>5, <2>1
  <2>3. CASE K[i].name = to
    <3>1. T[q] = Appended(G[i], X) BY <1>4, <1>5, <2>1, <2>3
    <3>2. T[q].name = to /\ T[q].kernel BY <1>4, <2>3, <3>1 DEF Appended, FunctionType
    <3>3. Q[q] = Fixed(Appended(G[i], X)) BY <1>6, <2>2, <3>1, <3>2
    <3>4. Fixed(Appended(Grown(K[i], E[i], A), X)) = Grown(K[i], E[i] \o X, A)
      BY <1>4, GrownParameters
    <3>5. F[i] = E[i] \o X BY <2>3 DEF Gets
    <3> QED BY <1>4, <3>3, <3>4, <3>5 DEF q
  <2>4. CASE K[i].name # to
    <3>1. T[q] = G[i] BY <1>4, <1>5, <2>1, <2>4
    <3>2. Q[q] = G[i] BY <1>4, <1>6, <2>2, <2>4, <3>1
    <3>3. F[i] = E[i] BY <2>4 DEF Gets
    <3> QED BY <1>4, <3>2, <3>3 DEF q
  <2> QED BY <2>3, <2>4
<1>10. PassedOver(Q, P, U, s, F, A) BY <1>7, <1>8, <1>9 DEF PassedOver
<1>11. Q = Rendered(U, s, F, A) BY <1>1, <1>10, RenderedPass DEF P
<1> QED BY <1>11 DEF P, T, Q

LEMMA ArgumentsOffered ==
  ASSUME NEW s \in Skeletons, NEW E \in Extras(s), NEW A \in ArgumentLists, NEW U, NEW from,
         NEW start, NEW to \in Placeholders, NEW X \in Seq(ParameterType),
         Offers(U, from, start, X), Lacks(U, to)
  PROVE  TransferArguments(Rendered(U, s, E, A), from, start, to)
           = Rendered(U, s, E, More(A, to, Names(X)))
<1>1. PICK j \in 1 .. Len(U) : Only(U, j, from) /\ Rest(U[j], start) = X
  BY DEF Offers
<1>2. UserPart(U) /\ \A i \in 1 .. Len(U) : Without(U[i], to) BY DEF Offers, Lacks
<1> QED BY <1>1, <1>2, ArgumentsPass

LEMMA MoreType ==
  ASSUME NEW A \in ArgumentLists, NEW to \in Placeholders, NEW X \in Seq(ParameterType)
  PROVE  /\ More(A, to, Names(X)) \in ArgumentLists
         /\ More(A, to, Names(X))[to] = A[to] \o Names(X)
         /\ \A x \in Placeholders : x # to => More(A, to, Names(X))[x] = A[x]
<1> DEFINE l == A[to] \o Names(X)
<1>1. A[to] \in Seq(Word) /\ Names(X) \in Seq(Word) BY NamesType DEF ArgumentLists
<1>2. l \in Seq(Word) BY <1>1, ConcatProperties
<1>3. More(A, to, Names(X)) = [A EXCEPT ![to] = l] BY DEF More
<1> HIDE DEF l
<1>4. [A EXCEPT ![to] = l] \in ArgumentLists BY <1>2 DEF ArgumentLists
<1>5. [A EXCEPT ![to] = l][to] = l /\ \A x \in Placeholders : x # to => [A EXCEPT ![to] = l][x] = A[x]
  BY DEF ArgumentLists
<1> QED BY <1>3, <1>4, <1>5 DEF l

-----------------------------------------------------------------------------
(***************************************************************************)
(* The kernels that are extended.                                          *)
(***************************************************************************)
FirstName(s) ==
  CASE s \in Zips   -> "SCL_ZIP"
    [] s = "reduce" -> "SCL_REDUCE_1"
    [] s = "scan"   -> "SCL_SCAN"
    [] s = "overlap" -> "SCL_MAPOVERLAP"
    [] s \in {"allpairs", "allpairs, general"} -> "SCL_ALLPAIRS"
    [] OTHER -> "SCL_MAP"

LEMMA KernelNamesTable ==
  ASSUME NEW s \in Skeletons
  PROVE  LET Ks == SkeletonSource(s)
         IN  /\ Len(Ks) = (IF s \in {"reduce", "scan"} THEN 2 ELSE 1)
             /\ Ks[1].name = FirstName(s)
             /\ s = "reduce" => Ks[2].name = "SCL_REDUCE_2"
<1>1. CASE s \in {"map", "map, no result", "indices", "indices, no result", "points",
                  "points, no result"}
  <2>1. SkeletonSource(s) = MapKernel(s) BY <1>1 DEF SkeletonSource, Zips
  <2>2. Len(MapKernel(s)) = 1 /\ MapKernel(s)[1].name = "SCL_MAP"
    BY <1>1 DEF MapKernel, KernelFunction
  <2> QED BY <1>1, <2>1, <2>2 DEF Zips, FirstName
<1>2. CASE s \in Zips
  <2>1. SkeletonSource(s) = ZipKernel(s) BY <1>2 DEF SkeletonSource, Zips
  <2>2. Len(ZipKernel(s)) = 1 /\ ZipKernel(s)[1].name = "SCL_ZIP"
    BY DEF ZipKernel, KernelFunction
  <2> QED BY <1>2, <2>1, <2>2 DEF Zips, FirstName
<1>3. CASE s = "reduce"
  <2>1. SkeletonSource(s) = ReduceKernels BY <1>3 DEF SkeletonSource, Zips
  <2>2. /\ Len(ReduceKernels) = 2 /\ ReduceKernels[1].name = "SCL_REDUCE_1"
        /\ ReduceKernels[2].name = "SCL_REDUCE_2"
    BY DEF ReduceKernels, KernelFunction
  <2> QED BY <1>3, <2>1, <2>2 DEF Zips, FirstName
<1>4. CASE s = "scan"
  <2>1. SkeletonSource(s) = ScanKernels BY <1>4 DEF SkeletonSource, Zips
  <2>2. Len(ScanKernels) = 2 /\ ScanKernels[1].name = "SCL_SCAN"
    BY DEF ScanKernels, KernelFunction
  <2> QED BY <1>4, <2>1, <2>2 DEF Zips, FirstName
<1>5. CASE s = "overlap"
  <2>1. SkeletonSource(s) = OverlapKernel BY <1>5 DEF SkeletonSource, Zips
  <2>2. Len(OverlapKernel) = 1 /\ OverlapKernel[1].name = "SCL_MAPOVERLAP"
    BY DEF OverlapKernel, KernelFunction
  <2> QED BY <1>5, <2>1, <2>2 DEF Zips, FirstName
<1>6. CASE s = "allpairs"
  <2>1. SkeletonSource(s) = AllPairsKernel BY <1>6 DEF SkeletonSource, Zips
  <2>2. Len(AllPairsKernel) = 1 /\ AllPairsKernel[1].name = "SCL_ALLPAIRS"
    BY DEF AllPairsKernel, KernelFunction
  <2> QED BY <1>6, <2>1, <2>2 DEF Zips, FirstName
<1>7. CASE s = "allpairs, general"
  <2>1. SkeletonSource(s) = AllPairsGeneralKernel BY <1>7 DEF SkeletonSource, Zips
  <2>2. Len(AllPairsGeneralKernel) = 1 /\ AllPairsGeneralKernel[1].name = "SCL_ALLPAIRS"
    BY DEF AllPairsGeneralKernel, KernelFunction
  <2> QED BY <1>7, <2>1, <2>2 DEF Zips, FirstName
<1> QED BY <1>1, <1>2, <1>3, <1>4, <1>5, <1>6, <1>7 DEF Skeletons, Zips

\* The first kernels are the ones extended, and all of them but with Scan.
ExtendedFits(s) ==
  LET n == Len(Extended(s))
  IN  /\ n \in {1, 2} /\ Extended(s) \in Seq(KernelNames)
      /\ n <= Len(SkeletonSource(s)) /\ (s # "scan" => n = Len(SkeletonSource(s)))
      /\ \A i \in 1 .. n : Extended(s)[i] = SkeletonSource(s)[i].name

LEMMA ExtendedTable ==
  ASSUME NEW s \in Skeletons, s # "allpairs"
  PROVE  ExtendedFits(s)
<1> DEFINE Ks == SkeletonSource(s)
<1>1. /\ Len(Ks) = (IF s \in {"reduce", "scan"} THEN 2 ELSE 1)
      /\ Ks[1].name = FirstName(s) /\ (s = "reduce" => Ks[2].name = "SCL_REDUCE_2")
  BY KernelNamesTable
<1> HIDE DEF Ks
<1>2. CASE s = "reduce"
  <2>1. Extended(s) = <<"SCL_REDUCE_1", "SCL_REDUCE_2">> BY <1>2 DEF Extended, Zips
  <2>2. <<"SCL_REDUCE_1", "SCL_REDUCE_2">> \in Seq(KernelNames) BY DEF KernelNames
  <2>3. FirstName(s) = "SCL_REDUCE_1" BY <1>2 DEF FirstName, Zips
  <2>4. Len(Extended(s)) = 2 /\ \A i \in 1 .. 2 : Extended(s)[i] = Ks[i].name
    BY <1>1, <1>2, <2>1, <2>3
  <2>5. Extended(s) \in Seq(KernelNames) BY <2>1, <2>2
  <2>6. Len(Ks) = 2 BY <1>1, <1>2
  <2> QED BY <2>4, <2>5, <2>6 DEF ExtendedFits, Ks
<1>3. CASE s # "reduce"
  <2> DEFINE x == FirstName(s)
  <2>1. Extended(s) = <<x>> BY <1>3 DEF Extended, FirstName, Skeletons, Zips
  <2>2. x \in KernelNames BY DEF FirstName, KernelNames
  <2> HIDE DEF x
  <2>3. <<x>> \in Seq(KernelNames) /\ Len(<<x>>) = 1 /\ <<x>>[1] = x BY <2>2
  <2>4. Len(Extended(s)) = 1 /\ \A i \in 1 .. 1 : Extended(s)[i] = Ks[i].name
    BY <1>1, <2>1, <2>3 DEF x
  <2>5. 1 <= Len(Ks) /\ (s # "scan" => Len(Ks) = 1) BY <1>1, <1>3
  <2> QED BY <2>1, <2>3, <2>4, <2>5 DEF ExtendedFits, Ks
<1> QED BY <1>2, <1>3

-----------------------------------------------------------------------------
(***************************************************************************)
(* How each pass takes the program one step further.                       *)
(***************************************************************************)
LEMMA WholeConcat ==
  ASSUME NEW X \in Seq(ParameterType), NEW Y \in Seq(ParameterType), Whole(X), Whole(Y)
  PROVE  X \o Y \in Seq(ParameterType) /\ Whole(X \o Y)
<1> DEFINE P == X \o Y
<1>1. P \in Seq(ParameterType) /\ InParts(P, X, Y) BY ConcatInParts
<1> HIDE DEF P
<1>2. DOMAIN P = 1 .. Len(P) BY <1>1 DEF InParts
<1>3. ASSUME NEW i \in DOMAIN P PROVE P[i].part = "all"
  <2>1. CASE i \in 1 .. Len(X) BY <1>1, <2>1 DEF InParts, Whole
  <2>2. CASE \E k \in 1 .. Len(Y) : i = Len(X) + k BY <1>1, <2>2 DEF InParts, Whole
  <2> QED BY <1>1, <2>1, <2>2 DEF InParts
<1> QED BY <1>1, <1>2, <1>3 DEF P, Whole

LEMMA NothingWhole == << >> \in Seq(ParameterType) /\ Whole(<< >>)
<1>1. << >> \in Seq(ParameterType) /\ Len(<< >>) = 0 BY EmptySeq
<1> QED BY <1>1 DEF Whole

LEMMA RequestFacts ==
  ASSUME NEW r \in Requests
  PROVE  /\ r.skeleton \in Skeletons /\ Leading(r.skeleton) \in Nat
         /\ AdditionalOf(r, 1) \in Seq(ParameterType) /\ Whole(AdditionalOf(r, 1))
         /\ ~ OneSource(r) => /\ AdditionalOf(r, 2) \in Seq(ParameterType)
                              /\ Whole(AdditionalOf(r, 2))
         /\ \A n \in 1 .. Len(r.sources) : Final(r, n) \in Placeholders
         /\ 1 \in 1 .. Len(r.sources) /\ (~ OneSource(r) => 2 \in 1 .. Len(r.sources))
         /\ OneSource(r) => Final(r, 1) = Placeholder(r.skeleton)
<1>1. r.skeleton \in Skeletons /\ Len(r.sources) = (IF OneSource(r) THEN 1 ELSE 2)
  BY RequestType
<1>2. 1 \in 1 .. Len(r.sources) /\ (~ OneSource(r) => 2 \in 1 .. Len(r.sources)) BY <1>1
<1>3. Leading(r.skeleton) \in Nat BY <1>1, LeadingType
<1>4. AdditionalOf(r, 1) \in Seq(ParameterType) /\ Whole(AdditionalOf(r, 1))
  BY <1>2, AdditionalType
<1>5. ~ OneSource(r) => AdditionalOf(r, 2) \in Seq(ParameterType) /\ Whole(AdditionalOf(r, 2))
  BY <1>2, AdditionalType
<1>6. \A n \in 1 .. Len(r.sources) : Final(r, n) \in Placeholders
  BY DEF Final, Placeholders, Placeholder
<1>7. OneSource(r) => Final(r, 1) = Placeholder(r.skeleton) BY DEF Final
<1> QED BY <1>1, <1>2, <1>3, <1>4, <1>5, <1>6, <1>7

LEMMA ExtrasAtType ==
  ASSUME NEW r \in Requests, NEW k \in Nat
  PROVE  /\ ExtrasAt(r, k) \in Extras(r.skeleton)
         /\ \A i \in 1 .. Len(SkeletonSource(r.skeleton)) : ExtrasAt(r, k)[i] = ExtraAt(r, i, k)
<1> DEFINE X == AdditionalOf(r, 1)
           Y == AdditionalOf(r, 2)
           T == {e \in Seq(ParameterType) : Whole(e)}
<1>1. << >> \in T /\ X \in T BY RequestFacts, NothingWhole
<1>2. ~ OneSource(r) => X \o Y \in T BY RequestFacts, WholeConcat
<1>3. ASSUME NEW i PROVE ExtraAt(r, i, k) \in T
  <2> HIDE DEF X, Y, T
  <2>1. CASE OneSource(r) BY <1>1, <2>1 DEF ExtraAt, X
  <2>2. CASE ~ OneSource(r)
    <3>1. X \o Y \in T BY <1>2, <2>2
    <3> DEFINE Z == X \o Y
    <3>2. ExtraAt(r, i, k) = IF k < 4 THEN << >> ELSE IF k < 6 THEN X ELSE Z
      BY <2>2 DEF ExtraAt, X, Y
    <3> HIDE DEF Z
    <3> QED BY <1>1, <3>1, <3>2 DEF Z
  <2> QED BY <2>1, <2>2
<1>4. ExtrasAt(r, k) = [i \in 1 .. Len(SkeletonSource(r.skeleton)) |-> ExtraAt(r, i, k)]
  BY DEF ExtrasAt
<1> QED BY <1>3, <1>4 DEF Extras

LEMMA GivenType ==
  ASSUME NEW r \in Requests, NEW n \in 1 .. Len(r.sources), NEW A \in ArgumentLists
  PROVE  Given(A, r, n) \in ArgumentLists
BY RequestFacts, AdditionalType, MoreType DEF Given

LEMMA ListsAtType ==
  ASSUME NEW r \in Requests, NEW k \in Nat
  PROVE  ListsAt(r, k) \in ArgumentLists
<1>1. Nothing \in ArgumentLists BY RequestFacts, JoinPass, EmptySeq
<1>2. Given(Nothing, r, 1) \in ArgumentLists BY <1>1, RequestFacts, GivenType
<1>3. ~ OneSource(r) => Given(Given(Nothing, r, 1), r, 2) \in ArgumentLists
  BY <1>2, RequestFacts, GivenType
<1> QED BY <1>1, <1>2, <1>3 DEF ListsAt

\* With one source.
LEMMA SingleStates ==
  ASSUME NEW r \in Requests, OneSource(r)
  PROVE  LET s == r.skeleton
             n == Len(Extended(s))
             f == r.names[1]
             l == Leading(s)
             to == Placeholder(s)
         IN  /\ SourcesAt(r, 0) = r.sources /\ ProgramAt(r, 0) = << >>
             /\ ProgramAt(r, 1) = FlattenSeq(r.sources) \o SkeletonSource(s)
             /\ \A k \in 1 .. n :
                  ProgramAt(r, k + 1) =
                    FixKernelParameter(TransferParameters(ProgramAt(r, k), f, l, Extended(s)[k]),
                                       Extended(s)[k])
             /\ ProgramAt(r, n + 2) = TransferArguments(ProgramAt(r, n + 1), f, l, to)
             /\ ProgramAt(r, n + 3) = RenameFunction(ProgramAt(r, n + 2), f, to)
             /\ \A k \in Nat : k >= n + 3 => ProgramAt(r, k) = ProgramAt(r, n + 3)
             /\ \A k \in Nat : k >= 1 => SourcesAt(r, k) = << >>
<1> DEFINE s == r.skeleton
           n == Len(Extended(s))
           f == r.names[1]
           l == Leading(s)
           to == Placeholder(s)
           U == r.sources[1]
           X == AdditionalOf(r, 1)
           Ks == SkeletonSource(s)
           R(u, k) == Rendered(u, s, ExtrasAt(r, k), ListsAt(r, k))
<1>0. s # "allpairs" /\ s \in Skeletons BY RequestType DEF OneSource
<1>1. n \in {1, 2} /\ n \in Nat BY <1>0, ExtendedTable DEF ExtendedFits
<1>2. /\ Extended(s) \in Seq(KernelNames) /\ n <= Len(Ks)
      /\ \A i \in 1 .. n : Extended(s)[i] = Ks[i].name
  BY <1>0, ExtendedTable DEF ExtendedFits
<1>3. /\ Ks \in Seq(FunctionType) /\ Len(Ks) \in Nat
      /\ \A i, j \in 1 .. Len(Ks) : Ks[i].name = Ks[j].name => i = j
  <2>1. KernelsFit(s) BY <1>0, KernelTable
  <2>2. Ks \in Seq(FunctionType) BY <2>1 DEF KernelsFit
  <2>3. \A i, j \in 1 .. Len(Ks) : Ks[i].name = Ks[j].name => i = j BY <2>1 DEF KernelsFit
  <2> QED BY <2>2, <2>3, LenProperties
<1>4. /\ X \in Seq(ParameterType) /\ Whole(X) /\ to \in Placeholders /\ l \in Nat
      /\ Len(r.sources) = 1 /\ 1 \in 1 .. Len(r.sources) /\ Final(r, 1) = to
  <2>1. Len(r.sources) = 1 BY RequestType
  <2> QED BY <2>1, RequestFacts
<1>5. Offers(U, f, l, X) /\ \A y \in Reserved : Lacks(U, y) BY <1>4, SourceOffers
<1>6. U \in Seq(FunctionType) BY <1>5 DEF Offers, UserPart
<1>7. /\ Joined(r) = 1 /\ Before(r) = n + 3 BY DEF Joined, Before
<1>8. \A k \in Nat : UserAt(r, k) = IF k >= n + 3 THEN UsedAs(r, 1, to) ELSE U
  BY <1>1, <1>4, <1>7 DEF UserAt, SourceAt
<1>9. \A k \in Nat : /\ ExtrasAt(r, k) \in Extras(s) /\ ListsAt(r, k) \in ArgumentLists
                     /\ \A i \in 1 .. Len(Ks) : ExtrasAt(r, k)[i] = ExtraAt(r, i, k)
  BY ExtrasAtType, ListsAtType
<1>10. \A k \in Nat : \A i : ExtraAt(r, i, k) = IF i <= n /\ i < k THEN X ELSE << >>
  BY DEF ExtraAt
<1>11. \A k \in Nat : ListsAt(r, k) = IF k < n + 2 THEN Nothing ELSE Given(Nothing, r, 1)
  BY <1>1, <1>7 DEF ListsAt
<1>12. \A k \in Nat : ProgramAt(r, k) = IF k < 1 THEN << >> ELSE R(UserAt(r, k), k)
  BY <1>7 DEF ProgramAt
<1>13. \A k \in Nat : k >= 1 => SourcesAt(r, k) = << >> BY <1>7 DEF SourcesAt
<1>14. r.sources \in Seq(Seq(UserCode)) /\ r.sources = <<U>>
  <2>1. r.sources \in Seq(Seq(UserCode)) BY RequestType
  <2> QED BY <1>4, <2>1
<1>15. f \in UserName /\ f \notin KernelNames /\ f \notin Placeholders
  <2>1. f \in UserName BY <1>4, RequestType
  <2> QED BY <2>1 DEF UserName, Reserved
<1> HIDE DEF s, n, f, l, to, U, X, Ks
<1>16. SourcesAt(r, 0) = r.sources /\ ProgramAt(r, 0) = << >>
  <2>1. SourceAt(r, 1, 0) = U BY <1>1, <1>4, <1>7 DEF SourceAt, U
  <2>2. SourcesAt(r, 0) = [m \in 1 .. 1 |-> SourceAt(r, m, 0)] BY <1>4, <1>7 DEF SourcesAt
  <2>3. [m \in 1 .. 1 |-> SourceAt(r, m, 0)] = <<U>> BY <2>1
  <2> QED BY <1>12, <1>14, <2>2, <2>3
<1>17. ProgramAt(r, 1) = FlattenSeq(r.sources) \o Ks
  <2>1. FlattenSeq(r.sources) = U BY <1>6, <1>14, FlattenTwo
  <2>2. UserAt(r, 1) = U BY <1>1, <1>8
  <2>3. ListsAt(r, 1) = Nothing BY <1>1, <1>11
  <2>4. ExtrasAt(r, 1) = NoExtras(s)
    <3>1. ASSUME NEW i \in 1 .. Len(Ks) PROVE ExtraAt(r, i, 1) = << >> BY <1>3, <1>10
    <3> QED BY <3>1 DEF ExtrasAt, NoExtras, Ks, s
  <2>5. U \o Ks = Rendered(U, s, NoExtras(s), Nothing) BY <1>0, <1>6, JoinPass DEF Ks
  <2>6. ProgramAt(r, 1) = R(UserAt(r, 1), 1) BY <1>12
  <2> QED BY <2>1, <2>2, <2>3, <2>4, <2>5, <2>6
<1>18. ASSUME NEW k \in 1 .. n
       PROVE  ProgramAt(r, k + 1) =
                FixKernelParameter(TransferParameters(ProgramAt(r, k), f, l, Extended(s)[k]),
                                   Extended(s)[k])
  <2> DEFINE E == ExtrasAt(r, k)
             F == ExtrasAt(r, k + 1)
             A == ListsAt(r, k)
             t == Extended(s)[k]
  <2>1. k \in Nat /\ k + 1 \in Nat /\ k >= 1 /\ k < n + 2 /\ k + 1 < n + 2 BY <1>1
  <2>2. E \in Extras(s) /\ F \in Extras(s) /\ A \in ArgumentLists BY <1>9, <2>1
  <2>3. t \in KernelNames /\ t = Ks[k].name /\ k \in 1 .. Len(Ks)
    <3>1. t \in KernelNames BY <1>2, ElementOfSeq DEF n
    <3> QED BY <1>1, <1>2, <1>3, <3>1
  <2>4. ListsAt(r, k + 1) = A BY <1>11, <2>1
  <2>5. UserAt(r, k) = U /\ UserAt(r, k + 1) = U BY <1>1, <1>8, <2>1
  <2>6. Gets(s, E, t, X, F)
    <3> SUFFICES ASSUME NEW i \in 1 .. Len(Ks)
                 PROVE  F[i] = IF Ks[i].name = t THEN E[i] \o X ELSE E[i]
      BY DEF Gets, Ks
    <3>1. E[i] = (IF i <= n /\ i < k THEN X ELSE << >>) BY <1>9, <1>10, <2>1
    <3>2. F[i] = (IF i <= n /\ i < k + 1 THEN X ELSE << >>) BY <1>9, <1>10, <2>1
    <3>3. CASE i = k
      <4>1. E[i] = << >> /\ F[i] = X BY <1>1, <2>1, <3>1, <3>2, <3>3
      <4>2. << >> \o X = X BY <1>4, ConcatEmptySeq
      <4> QED BY <2>3, <3>3, <4>1, <4>2
    <3>4. CASE i # k
      <4>1. Ks[i].name # t BY <1>3, <2>3, <3>4
      <4>2. i < k <=> i < k + 1 BY <1>3, <3>4
      <4>3. F[i] = E[i] BY <3>1, <3>2, <4>2
      <4> QED BY <4>1, <4>3
    <3> QED BY <3>3, <3>4
  <2>7. ProgramAt(r, k) = R(UserAt(r, k), k) /\ ProgramAt(r, k + 1) = R(UserAt(r, k + 1), k + 1)
    BY <1>12, <2>1
  <2> HIDE DEF E, F, A, t
  <2>8. FixKernelParameter(TransferParameters(Rendered(U, s, E, A), f, l, t), t) = Rendered(U, s, F, A)
    BY <1>0, <1>4, <1>5, <2>2, <2>3, <2>6, ParametersPass
  <2> QED BY <2>4, <2>5, <2>7, <2>8 DEF E, F, A, t
<1>19. \A k \in Nat : k >= n + 1 => ExtrasAt(r, k) = ExtrasAt(r, n + 1)
  <2> SUFFICES ASSUME NEW k \in Nat, k >= n + 1 PROVE ExtrasAt(r, k) = ExtrasAt(r, n + 1)
    OBVIOUS
  <2>1. ASSUME NEW i \in 1 .. Len(Ks) PROVE ExtraAt(r, i, k) = ExtraAt(r, i, n + 1)
    <3>1. i <= n /\ i < k <=> i <= n /\ i < n + 1 BY <1>1, <1>3
    <3>2. n + 1 \in Nat BY <1>1
    <3> QED BY <1>10, <3>1, <3>2
  <2> QED BY <2>1 DEF ExtrasAt, Ks, s
<1>20. /\ n + 1 \in Nat /\ n + 2 \in Nat /\ n + 3 \in Nat
       /\ ProgramAt(r, n + 1) = Rendered(U, s, ExtrasAt(r, n + 1), Nothing)
       /\ ProgramAt(r, n + 2) = Rendered(U, s, ExtrasAt(r, n + 1), Given(Nothing, r, 1))
       /\ \A k \in Nat : k >= n + 3 =>
            ProgramAt(r, k) =
              Rendered(UsedAs(r, 1, to), s, ExtrasAt(r, n + 1), Given(Nothing, r, 1))
  <2>1. n + 1 \in Nat /\ n + 2 \in Nat /\ n + 3 \in Nat BY <1>1
  <2>2. UserAt(r, n + 1) = U /\ UserAt(r, n + 2) = U BY <1>1, <1>8, <2>1
  <2>3. ListsAt(r, n + 1) = Nothing /\ ListsAt(r, n + 2) = Given(Nothing, r, 1)
    BY <1>1, <1>11, <2>1
  <2>4. ExtrasAt(r, n + 2) = ExtrasAt(r, n + 1) BY <1>1, <1>19, <2>1
  <2>5. ProgramAt(r, n + 1) = R(UserAt(r, n + 1), n + 1) /\ ProgramAt(r, n + 2) = R(UserAt(r, n + 2), n + 2)
    BY <1>1, <1>12, <2>1
  <2>6. ASSUME NEW k \in Nat, k >= n + 3
        PROVE  ProgramAt(r, k) =
                 Rendered(UsedAs(r, 1, to), s, ExtrasAt(r, n + 1), Given(Nothing, r, 1))
    <3>1. ~ (k < 1) /\ ~ (k < n + 2) /\ k >= n + 1 BY <1>1, <2>6
    <3>2. UserAt(r, k) = UsedAs(r, 1, to) BY <1>8, <2>6
    <3>3. ListsAt(r, k) = Given(Nothing, r, 1) BY <1>11, <3>1
    <3>4. ExtrasAt(r, k) = ExtrasAt(r, n + 1) BY <1>19, <3>1
    <3>5. ProgramAt(r, k) = R(UserAt(r, k), k) BY <1>12, <3>1
    <3> QED BY <3>2, <3>3, <3>4, <3>5
  <2> QED BY <2>1, <2>2, <2>3, <2>4, <2>5, <2>6
<1> DEFINE E == ExtrasAt(r, n + 1)
           A == Given(Nothing, r, 1)
<1>21. E \in Extras(s) /\ Nothing \in ArgumentLists /\ A \in ArgumentLists
  <2>1. Nothing \in ArgumentLists BY <1>0, <1>6, JoinPass
  <2> QED BY <1>4, <1>9, <1>20, <2>1, GivenType
<1> HIDE DEF E
<1>22. ProgramAt(r, n + 2) = TransferArguments(ProgramAt(r, n + 1), f, l, to)
  <2>1. A = More(Nothing, to, Names(X)) BY <1>4 DEF Given, X
  <2>2. Lacks(U, to) BY <1>4, <1>5 DEF Reserved
  <2>3. TransferArguments(Rendered(U, s, E, Nothing), f, l, to)
          = Rendered(U, s, E, More(Nothing, to, Names(X)))
    BY <1>0, <1>4, <1>5, <1>21, <2>2, ArgumentsOffered
  <2> QED BY <1>20, <2>1, <2>3 DEF E
<1>23. ProgramAt(r, n + 3) = RenameFunction(ProgramAt(r, n + 2), f, to)
  <2>1. to \in Word BY <1>4, NewNamesType
  <2>2. f \notin PlaceholdersOf(s) BY <1>0, <1>4, <1>15 DEF PlaceholdersOf, to
  <2> HIDE DEF A
  <2>3. RenameFunction(Rendered(U, s, E, A), f, to) = Rendered(RenameFunction(U, f, to), s, E, A)
    BY <1>0, <1>6, <1>15, <1>21, <2>1, <2>2, RenamePass
  <2>4. RenameFunction(U, f, to) = UsedAs(r, 1, to) BY DEF UsedAs, U, f
  <2> QED BY <1>20, <2>3, <2>4 DEF E, A
<1>24. \A k \in Nat : k >= n + 3 => ProgramAt(r, k) = ProgramAt(r, n + 3)
  BY <1>20
<1> QED BY <1>13, <1>16, <1>17, <1>18, <1>22, <1>23, <1>24 DEF s, n, f, l, to, Ks

\* With two sources: the function to reduce, and the one to zip.
LEMMA PairStates ==
  ASSUME NEW r \in Requests, ~ OneSource(r), OneName(r)
  PROVE  LET f == r.names[1]
             K == "SCL_ALLPAIRS"
             Give(P, from) == FixKernelParameter(TransferParameters(P, from, 2, K), K)
         IN  /\ SourcesAt(r, 0) = r.sources /\ \A k \in 0 .. 2 : ProgramAt(r, k) = << >>
             /\ SourcesAt(r, 1) =
                  [SourcesAt(r, 0) EXCEPT ![1] = RenameFunction(SourcesAt(r, 0)[1], f, "TMP_REDUCE")]
             /\ SourcesAt(r, 2) =
                  [SourcesAt(r, 1) EXCEPT ![2] = RenameFunction(SourcesAt(r, 1)[2], f, "TMP_ZIP")]
             /\ ProgramAt(r, 3) = FlattenSeq(SourcesAt(r, 2)) \o SkeletonSource("allpairs")
             /\ ProgramAt(r, 4) = Give(ProgramAt(r, 3), "TMP_REDUCE")
             /\ ProgramAt(r, 5) = TransferArguments(ProgramAt(r, 4), "TMP_REDUCE", 2, "USR_REDUCE")
             /\ ProgramAt(r, 6) = Give(ProgramAt(r, 5), "TMP_ZIP")
             /\ ProgramAt(r, 7) = TransferArguments(ProgramAt(r, 6), "TMP_ZIP", 2, "USR_ZIP")
             /\ ProgramAt(r, 8) = RenameFunction(ProgramAt(r, 7), "TMP_REDUCE", "USR_REDUCE")
             /\ ProgramAt(r, 9) = RenameFunction(ProgramAt(r, 8), "TMP_ZIP", "USR_ZIP")
             /\ \A k \in Nat : k >= 9 => ProgramAt(r, k) = ProgramAt(r, 9)
             /\ \A k \in Nat : k >= 3 => SourcesAt(r, k) = << >>
<1> DEFINE s == "allpairs"
           f == r.names[1]
           K == "SCL_ALLPAIRS"
           U == r.sources[1]
           W == r.sources[2]
           U1 == UsedAs(r, 1, "TMP_REDUCE")
           W1 == UsedAs(r, 2, "TMP_ZIP")
           U2 == UsedAs(r, 1, "USR_REDUCE")
           W2 == UsedAs(r, 2, "USR_ZIP")
           X == AdditionalOf(r, 1)
           Y == AdditionalOf(r, 2)
           Z == X \o Y
           Ks == SkeletonSource(s)
           E0 == [i \in 1 .. Len(Ks) |-> << >>]
           E1 == [i \in 1 .. Len(Ks) |-> X]
           E2 == [i \in 1 .. Len(Ks) |-> Z]
           A1 == More(Nothing, "USR_REDUCE", Names(X))
           A2 == More(A1, "USR_ZIP", Names(Y))
<1>0. r.skeleton = s /\ s \in Skeletons BY RequestType DEF OneSource
<1>1. Len(Ks) = 1 /\ Ks[1].name = K
  BY <1>0, KernelNamesTable DEF FirstName, Zips
<1>2. /\ Len(r.sources) = 2 /\ 1 \in 1 .. Len(r.sources) /\ 2 \in 1 .. Len(r.sources)
      /\ r.names[2] = f /\ Leading(s) = 2
  <2>1. Len(r.sources) = 2 /\ DOMAIN r.names = 1 .. 2 BY RequestType
  <2>2. r.names[2] = f BY <2>1 DEF OneName
  <2>3. Leading(s) = 2 BY DEF Leading, Zips
  <2> QED BY <2>1, <2>2, <2>3
<1>3. X \in Seq(ParameterType) /\ Whole(X) /\ Y \in Seq(ParameterType) /\ Whole(Y)
  BY RequestFacts
<1>4. Z \in Seq(ParameterType) /\ Whole(Z) BY <1>3, WholeConcat
<1>5. << >> \in Seq(ParameterType) /\ Whole(<< >>) BY NothingWhole
<1>6. /\ "TMP_REDUCE" \in NewNames /\ "TMP_ZIP" \in NewNames
      /\ "USR_REDUCE" \in NewNames /\ "USR_ZIP" \in NewNames
      /\ "USR_REDUCE" \in Placeholders /\ "USR_ZIP" \in Placeholders
  BY NewNamesType DEF Placeholders
<1>7. /\ Offers(U1, "TMP_REDUCE", 2, X) /\ Offers(W1, "TMP_ZIP", 2, Y)
      /\ U1 \in Seq(FunctionType) /\ W1 \in Seq(FunctionType)
      /\ U2 \in Seq(FunctionType) /\ W2 \in Seq(FunctionType)
      /\ \A x \in Reserved : x # "TMP_REDUCE" => Lacks(U1, x)
      /\ \A x \in Reserved : x # "TMP_ZIP" => Lacks(W1, x)
      /\ \A x \in Reserved : x # "USR_REDUCE" => Lacks(U2, x)
  <2>1. /\ Offers(U1, "TMP_REDUCE", Leading(r.skeleton), X) /\ U1 \in Seq(FunctionType)
        /\ \A x \in Reserved : x # "TMP_REDUCE" => Lacks(U1, x)
    BY <1>2, <1>6, UsedAsOffers
  <2>2. /\ Offers(W1, "TMP_ZIP", Leading(r.skeleton), Y) /\ W1 \in Seq(FunctionType)
        /\ \A x \in Reserved : x # "TMP_ZIP" => Lacks(W1, x)
    BY <1>2, <1>6, UsedAsOffers
  <2>3. U2 \in Seq(FunctionType) /\ \A x \in Reserved : x # "USR_REDUCE" => Lacks(U2, x)
    BY <1>2, <1>6, UsedAsOffers
  <2>4. W2 \in Seq(FunctionType) BY <1>2, <1>6, UsedAsOffers
  <2>5. Leading(r.skeleton) = 2 BY <1>0, <1>2
  <2> HIDE DEF U1, W1, U2, W2, X, Y
  <2> QED BY <2>1, <2>2, <2>3, <2>4, <2>5
<1>8. U \in Seq(FunctionType) /\ W \in Seq(FunctionType)
  BY <1>2, RequestType, SourceType
<1>9. /\ Joined(r) = 3 /\ Before(r) = 9 BY DEF Joined, Before
<1>10. /\ Final(r, 1) = "USR_REDUCE" /\ Final(r, 2) = "USR_ZIP"
       /\ Temporary(1) = "TMP_REDUCE" /\ Temporary(2) = "TMP_ZIP"
  BY DEF Final, Temporary
<1>11. \A k \in Nat :
         /\ SourceAt(r, 1, k) = IF k >= 8 THEN U2 ELSE IF k >= 1 THEN U1 ELSE U
         /\ SourceAt(r, 2, k) = IF k >= 9 THEN W2 ELSE IF k >= 2 THEN W1 ELSE W
  BY <1>2, <1>9, <1>10 DEF SourceAt
<1>12. \A k \in Nat : \A i : ExtraAt(r, i, k) = IF k < 4 THEN << >> ELSE IF k < 6 THEN X ELSE Z
  BY DEF ExtraAt
<1>13. \A k \in Nat : ExtrasAt(r, k) = IF k < 4 THEN E0 ELSE IF k < 6 THEN E1 ELSE E2
  BY <1>0, <1>12 DEF ExtrasAt
<1>14. \A k \in Nat : ListsAt(r, k) = IF k < 5 THEN Nothing ELSE IF k < 7 THEN A1 ELSE A2
  BY <1>10 DEF ListsAt, Given
<1>15. \A k \in Nat : UserAt(r, k) = SourceAt(r, 1, k) \o SourceAt(r, 2, k) BY DEF UserAt
<1>16. \A k \in Nat : ProgramAt(r, k) = IF k < 3 THEN << >>
                                        ELSE Rendered(UserAt(r, k), s, ExtrasAt(r, k), ListsAt(r, k))
  BY <1>0, <1>9 DEF ProgramAt
<1>17. \A k \in Nat : SourcesAt(r, k) = IF k < 3 THEN [n \in 1 .. 2 |-> SourceAt(r, n, k)] ELSE << >>
  BY <1>2, <1>9 DEF SourcesAt
<1>18. /\ UsedAs(r, 1, "TMP_REDUCE") = RenameFunction(U, f, "TMP_REDUCE")
       /\ UsedAs(r, 2, "TMP_ZIP") = RenameFunction(W, f, "TMP_ZIP")
  BY <1>2 DEF UsedAs
<1>19. /\ RenameFunction(U1, "TMP_REDUCE", "USR_REDUCE") = U2
       /\ RenameFunction(W1, "TMP_ZIP", "USR_ZIP") = W2
  BY <1>2, <1>6, UsedAsAgain
<1>20. r.sources = <<U, W>>
  <2>1. r.sources \in Seq(Seq(UserCode)) BY RequestType
  <2> QED BY <1>2, <2>1
<1> HIDE DEF U, W, U1, W1, U2, W2, X, Y, Z, Ks, E0, E1, E2, A1, A2
<1>21. /\ ProgramAt(r, 3) = Rendered(U1 \o W1, s, E0, Nothing)
       /\ ProgramAt(r, 4) = Rendered(U1 \o W1, s, E1, Nothing)
       /\ ProgramAt(r, 5) = Rendered(U1 \o W1, s, E1, A1)
       /\ ProgramAt(r, 6) = Rendered(U1 \o W1, s, E2, A1)
       /\ ProgramAt(r, 7) = Rendered(U1 \o W1, s, E2, A2)
       /\ ProgramAt(r, 8) = Rendered(U2 \o W1, s, E2, A2)
       /\ \A k \in Nat : k >= 9 => ProgramAt(r, k) = Rendered(U2 \o W2, s, E2, A2)
  <2>1. \A k \in Nat : k >= 3 =>
          ProgramAt(r, k) = Rendered(UserAt(r, k), s, ExtrasAt(r, k), ListsAt(r, k))
    BY <1>16
  <2>2. \A k \in Nat : k >= 3 =>
          UserAt(r, k) = IF k >= 9 THEN U2 \o W2 ELSE IF k >= 8 THEN U2 \o W1 ELSE U1 \o W1
    <3> SUFFICES ASSUME NEW k \in Nat, k >= 3
                 PROVE  UserAt(r, k) = IF k >= 9 THEN U2 \o W2
                                       ELSE IF k >= 8 THEN U2 \o W1 ELSE U1 \o W1
      OBVIOUS
    <3>1. SourceAt(r, 1, k) = IF k >= 8 THEN U2 ELSE U1 BY <1>11
    <3>2. SourceAt(r, 2, k) = IF k >= 9 THEN W2 ELSE W1 BY <1>11
    <3>3. UserAt(r, k) = SourceAt(r, 1, k) \o SourceAt(r, 2, k) BY <1>15
    <3>4. CASE k >= 9
      <4>1. k >= 8 BY <3>4
      <4>2. SourceAt(r, 1, k) = U2 BY <3>1, <4>1
      <4>3. SourceAt(r, 2, k) = W2 BY <3>2, <3>4
      <4> QED BY <3>3, <3>4, <4>2, <4>3
    <3>5. CASE k = 8 BY <3>1, <3>2, <3>3, <3>5
    <3>6. CASE k < 8 BY <3>1, <3>2, <3>3, <3>6
    <3> QED BY <3>4, <3>5, <3>6
  <2> DEFINE V1 == U1 \o W1
             V2 == U2 \o W1
             V3 == U2 \o W2
  <2>3. \A k \in Nat : k >= 3 => UserAt(r, k) = IF k >= 9 THEN V3 ELSE IF k >= 8 THEN V2 ELSE V1
    BY <2>2
  <2> HIDE DEF V1, V2, V3
  <2>4. UserAt(r, 3) = V1 /\ UserAt(r, 4) = V1 /\ UserAt(r, 5) = V1 /\ UserAt(r, 6) = V1
    BY <2>3
  <2>5. UserAt(r, 7) = V1 /\ UserAt(r, 8) = V2 BY <2>3
  <2>6. ProgramAt(r, 3) = Rendered(V1, s, E0, Nothing) BY <1>13, <1>14, <2>1, <2>4
  <2>7. ProgramAt(r, 4) = Rendered(V1, s, E1, Nothing) BY <1>13, <1>14, <2>1, <2>4
  <2>8. ProgramAt(r, 5) = Rendered(V1, s, E1, A1) BY <1>13, <1>14, <2>1, <2>4
  <2>9. ProgramAt(r, 6) = Rendered(V1, s, E2, A1) BY <1>13, <1>14, <2>1, <2>4
  <2>10. ProgramAt(r, 7) = Rendered(V1, s, E2, A2) BY <1>13, <1>14, <2>1, <2>5
  <2>11. ProgramAt(r, 8) = Rendered(V2, s, E2, A2) BY <1>13, <1>14, <2>1, <2>5
  <2>12. ASSUME NEW k \in Nat, k >= 9 PROVE ProgramAt(r, k) = Rendered(V3, s, E2, A2)
    <3>1. UserAt(r, k) = V3 BY <2>3, <2>12
    <3>2. ExtrasAt(r, k) = E2 BY <1>13, <2>12
    <3>3. ListsAt(r, k) = A2 BY <1>14, <2>12
    <3>4. ProgramAt(r, k) = Rendered(UserAt(r, k), s, ExtrasAt(r, k), ListsAt(r, k))
      BY <2>1, <2>12
    <3> QED BY <3>1, <3>2, <3>3, <3>4
  <2> QED BY <2>6, <2>7, <2>8, <2>9, <2>10, <2>11, <2>12 DEF V1, V2, V3
<1>22. /\ SourcesAt(r, 0) = <<U, W>> /\ SourcesAt(r, 1) = <<U1, W>> /\ SourcesAt(r, 2) = <<U1, W1>>
       /\ \A k \in Nat : k >= 3 => SourcesAt(r, k) = << >>
       /\ \A k \in 0 .. 2 : ProgramAt(r, k) = << >>
  <2>1. \A k \in Nat : k >= 3 => SourcesAt(r, k) = << >> BY <1>17
  <2>2. \A k \in 0 .. 2 : ProgramAt(r, k) = << >> BY <1>16
  <2>3. SourceAt(r, 1, 0) = U /\ SourceAt(r, 2, 0) = W BY <1>11
  <2>4. SourceAt(r, 1, 1) = U1 /\ SourceAt(r, 2, 1) = W BY <1>11
  <2>5. SourceAt(r, 1, 2) = U1 /\ SourceAt(r, 2, 2) = W1 BY <1>11
  <2>6. /\ SourcesAt(r, 0) = [n \in 1 .. 2 |-> SourceAt(r, n, 0)]
        /\ SourcesAt(r, 1) = [n \in 1 .. 2 |-> SourceAt(r, n, 1)]
        /\ SourcesAt(r, 2) = [n \in 1 .. 2 |-> SourceAt(r, n, 2)]
    BY <1>17
  <2>7. SourcesAt(r, 0) = <<U, W>> BY <2>3, <2>6
  <2>8. SourcesAt(r, 1) = <<U1, W>> BY <2>4, <2>6
  <2>9. SourcesAt(r, 2) = <<U1, W1>> BY <2>5, <2>6
  <2> QED BY <2>1, <2>2, <2>7, <2>8, <2>9
<1>23. /\ E0 \in Extras(s) /\ E1 \in Extras(s) /\ E2 \in Extras(s) /\ Nothing \in ArgumentLists
       /\ A1 \in ArgumentLists /\ A2 \in ArgumentLists
  <2>1. Nothing \in ArgumentLists BY <1>0, <1>8, JoinPass
  <2>2. A1 \in ArgumentLists BY <1>3, <1>6, <2>1, MoreType DEF A1
  <2>3. A2 \in ArgumentLists BY <1>3, <1>6, <2>2, MoreType DEF A2
  <2>4. E0 \in Extras(s) /\ E1 \in Extras(s) /\ E2 \in Extras(s)
    BY <1>3, <1>4, <1>5 DEF Extras, E0, E1, E2, Ks
  <2> QED BY <2>1, <2>2, <2>3, <2>4
<1>24. /\ Gets(s, E0, K, X, E1) /\ Gets(s, E1, K, Y, E2)
  <2>1. << >> \o X = X BY <1>3, ConcatEmptySeq
  <2>2. \A i \in 1 .. Len(Ks) : /\ Ks[i].name = K /\ E0[i] = << >> /\ E1[i] = X /\ E2[i] = X \o Y
    <3>1. \A i \in 1 .. Len(Ks) : Ks[i].name = K BY <1>1
    <3> QED BY <3>1 DEF E0, E1, E2, Z
  <2> QED BY <2>1, <2>2 DEF Gets, Ks
<1>25. /\ Offers(U1 \o W1, "TMP_REDUCE", 2, X) /\ Offers(U1 \o W1, "TMP_ZIP", 2, Y)
       /\ Lacks(U1 \o W1, "USR_REDUCE") /\ Lacks(U1 \o W1, "USR_ZIP")
       /\ U1 \o W1 \in Seq(FunctionType)
  <2>1. UserPart(U1) /\ UserPart(W1) BY <1>7 DEF Offers
  <2>2. \A x \in NewNames : x \in Reserved BY NewNamesType
  <2>3. /\ Lacks(W1, "TMP_REDUCE") /\ Lacks(U1, "TMP_ZIP")
        /\ Lacks(U1, "USR_REDUCE") /\ Lacks(W1, "USR_REDUCE")
        /\ Lacks(U1, "USR_ZIP") /\ Lacks(W1, "USR_ZIP")
    BY <1>6, <1>7, <2>2
  <2>4. Offers(U1 \o W1, "TMP_REDUCE", 2, X) BY <1>7, <2>1, <2>3, OffersBoth
  <2>5. Offers(U1 \o W1, "TMP_ZIP", 2, Y) BY <1>7, <2>1, <2>3, OffersBoth
  <2>6. Lacks(U1 \o W1, "USR_REDUCE") /\ Lacks(U1 \o W1, "USR_ZIP") BY <2>1, <2>3, OffersBoth
  <2>7. U1 \o W1 \in Seq(FunctionType) BY <1>7, ConcatProperties
  <2> QED BY <2>4, <2>5, <2>6, <2>7
<1>26. ProgramAt(r, 3) = FlattenSeq(SourcesAt(r, 2)) \o Ks
  <2>1. FlattenSeq(<<U1, W1>>) = U1 \o W1 BY <1>7, FlattenTwo
  <2>2. (U1 \o W1) \o Ks = Rendered(U1 \o W1, s, NoExtras(s), Nothing)
    BY <1>0, <1>25, JoinPass DEF Ks
  <2>3. E0 = NoExtras(s) BY DEF E0, NoExtras, Ks
  <2> QED BY <1>21, <1>22, <2>1, <2>2, <2>3
<1> DEFINE P == U1 \o W1
<1>27. /\ Offers(P, "TMP_REDUCE", 2, X) /\ Offers(P, "TMP_ZIP", 2, Y)
       /\ Lacks(P, "USR_REDUCE") /\ Lacks(P, "USR_ZIP") /\ P \in Seq(FunctionType)
       /\ K \in KernelNames
  BY <1>25 DEF KernelNames
<1> HIDE DEF P, s, K
<1>28. FixKernelParameter(TransferParameters(Rendered(P, s, E0, Nothing), "TMP_REDUCE", 2, K), K)
         = Rendered(P, s, E1, Nothing)
  BY <1>0, <1>3, <1>23, <1>24, <1>27, ParametersPass
<1>29. TransferArguments(Rendered(P, s, E1, Nothing), "TMP_REDUCE", 2, "USR_REDUCE")
         = Rendered(P, s, E1, A1)
  BY <1>0, <1>3, <1>6, <1>23, <1>27, ArgumentsOffered DEF A1
<1>30. FixKernelParameter(TransferParameters(Rendered(P, s, E1, A1), "TMP_ZIP", 2, K), K)
         = Rendered(P, s, E2, A1)
  BY <1>0, <1>3, <1>23, <1>24, <1>27, ParametersPass
<1>31. TransferArguments(Rendered(P, s, E2, A1), "TMP_ZIP", 2, "USR_ZIP") = Rendered(P, s, E2, A2)
  BY <1>0, <1>3, <1>6, <1>23, <1>27, ArgumentsOffered DEF A2
<1>32. /\ "TMP_REDUCE" \notin KernelNames /\ "TMP_ZIP" \notin KernelNames
       /\ "TMP_REDUCE" \notin PlaceholdersOf(s) /\ "TMP_ZIP" \notin PlaceholdersOf(s)
       /\ "USR_REDUCE" \in Word /\ "USR_ZIP" \in Word
       /\ "TMP_REDUCE" \in Reserved /\ "TMP_ZIP" \in Reserved
  <2>1. "TMP_REDUCE" \notin PlaceholdersOf(s) /\ "TMP_ZIP" \notin PlaceholdersOf(s)
    BY DEF PlaceholdersOf, s
  <2> QED BY <1>6, <2>1, NewNamesType
<1>33. RenameFunction(Rendered(P, s, E2, A2), "TMP_REDUCE", "USR_REDUCE")
         = Rendered(U2 \o W1, s, E2, A2)
  <2>1. Lacks(W1, "TMP_REDUCE") BY <1>7, <1>32
  <2>2. RenameFunction(W1, "TMP_REDUCE", "USR_REDUCE") = W1 BY <1>7, <1>32, <2>1, RenameLacking
  <2>3. RenameFunction(P, "TMP_REDUCE", "USR_REDUCE")
          = RenameFunction(U1, "TMP_REDUCE", "USR_REDUCE") \o RenameFunction(W1, "TMP_REDUCE", "USR_REDUCE")
    BY <1>7, <1>32, RenameConcat DEF P
  <2>4. RenameFunction(Rendered(P, s, E2, A2), "TMP_REDUCE", "USR_REDUCE")
          = Rendered(RenameFunction(P, "TMP_REDUCE", "USR_REDUCE"), s, E2, A2)
    BY <1>0, <1>23, <1>27, <1>32, RenamePass
  <2> QED BY <1>19, <2>2, <2>3, <2>4
<1>34. RenameFunction(Rendered(U2 \o W1, s, E2, A2), "TMP_ZIP", "USR_ZIP")
         = Rendered(U2 \o W2, s, E2, A2)
  <2>1. Lacks(U2, "TMP_ZIP") BY <1>7, <1>32
  <2>2. RenameFunction(U2, "TMP_ZIP", "USR_ZIP") = U2 BY <1>7, <1>32, <2>1, RenameLacking
  <2>3. RenameFunction(U2 \o W1, "TMP_ZIP", "USR_ZIP")
          = RenameFunction(U2, "TMP_ZIP", "USR_ZIP") \o RenameFunction(W1, "TMP_ZIP", "USR_ZIP")
    BY <1>7, <1>32, RenameConcat
  <2> DEFINE V == U2 \o W1
  <2>4. V \in Seq(FunctionType) BY <1>7, ConcatProperties
  <2> HIDE DEF V
  <2>5. RenameFunction(Rendered(V, s, E2, A2), "TMP_ZIP", "USR_ZIP")
          = Rendered(RenameFunction(V, "TMP_ZIP", "USR_ZIP"), s, E2, A2)
    BY <1>0, <1>23, <1>32, <2>4, RenamePass
  <2> QED BY <1>19, <2>2, <2>3, <2>5 DEF V
<1>35. /\ ProgramAt(r, 9) = Rendered(U2 \o W2, s, E2, A2)
       /\ \A k \in Nat : k >= 9 => ProgramAt(r, k) = ProgramAt(r, 9)
  BY <1>21
<1>36. /\ SourcesAt(r, 1) =
            [SourcesAt(r, 0) EXCEPT ![1] = RenameFunction(SourcesAt(r, 0)[1], f, "TMP_REDUCE")]
       /\ SourcesAt(r, 2) =
            [SourcesAt(r, 1) EXCEPT ![2] = RenameFunction(SourcesAt(r, 1)[2], f, "TMP_ZIP")]
  <2>1. RenameFunction(U, f, "TMP_REDUCE") = U1 /\ RenameFunction(W, f, "TMP_ZIP") = W1
    BY <1>18 DEF U1, W1
  <2>2. [<<U, W>> EXCEPT ![1] = U1] = <<U1, W>> /\ <<U, W>>[1] = U OBVIOUS
  <2>3. [<<U1, W>> EXCEPT ![2] = W1] = <<U1, W1>> /\ <<U1, W>>[2] = W OBVIOUS
  <2> QED BY <1>22, <2>1, <2>2, <2>3
<1>37. /\ ProgramAt(r, 4) = FixKernelParameter(TransferParameters(ProgramAt(r, 3), "TMP_REDUCE", 2, K), K)
       /\ ProgramAt(r, 5) = TransferArguments(ProgramAt(r, 4), "TMP_REDUCE", 2, "USR_REDUCE")
       /\ ProgramAt(r, 6) = FixKernelParameter(TransferParameters(ProgramAt(r, 5), "TMP_ZIP", 2, K), K)
       /\ ProgramAt(r, 7) = TransferArguments(ProgramAt(r, 6), "TMP_ZIP", 2, "USR_ZIP")
  BY <1>21, <1>28, <1>29, <1>30, <1>31 DEF P
<1>38. /\ ProgramAt(r, 8) = RenameFunction(ProgramAt(r, 7), "TMP_REDUCE", "USR_REDUCE")
       /\ ProgramAt(r, 9) = RenameFunction(ProgramAt(r, 8), "TMP_ZIP", "USR_ZIP")
  BY <1>21, <1>33, <1>34, <1>35 DEF P
<1> QED BY <1>20, <1>22, <1>26, <1>35, <1>36, <1>37, <1>38 DEF Ks, s, K

-----------------------------------------------------------------------------
(***************************************************************************)
(* The passes, by number.                                                  *)
(***************************************************************************)
LEMMA LeftSteps ==
  ASSUME NEW S, NEW p \in Seq(S)
  PROVE  /\ Left(p, 0) = p
         /\ \A k \in 0 .. Len(p) :
              /\ Left(p, k) = << >> <=> k = Len(p)
              /\ k < Len(p) => /\ Head(Left(p, k)) = p[k + 1]
                               /\ Tail(Left(p, k)) = Left(p, k + 1)
<1> DEFINE n == Len(p)
<1>1. n \in Nat BY LenProperties
<1>2. Left(p, 0) = p BY SubSeqFull DEF Left
<1>3. ASSUME NEW k \in 0 .. n
      PROVE  /\ Left(p, k) = << >> <=> k = n
             /\ k < n => Head(Left(p, k)) = p[k + 1] /\ Tail(Left(p, k)) = Left(p, k + 1)
  <2> DEFINE m == k + 1
  <2>1. Left(p, k) = SubSeq(p, m, n) /\ Left(p, k + 1) = SubSeq(p, m + 1, n) BY DEF Left
  <2>2. m \in Int /\ n \in Int /\ m + 1 \in Int BY <1>1
  <2> HIDE DEF n
  <2>3. CASE k = n
    <3>1. n < m BY <1>1, <2>3
    <3> HIDE DEF m
    <3>2. SubSeq(p, m, n) = << >> BY <2>2, <3>1, SubSeqEmpty
    <3> QED BY <1>1, <2>1, <2>3, <3>2
  <2>4. CASE k < n
    <3>1. m \in 1 .. n /\ n \in m .. n BY <1>1, <2>4
    <3> HIDE DEF m
    <3>2. Head(SubSeq(p, m, n)) = p[m] /\ Tail(SubSeq(p, m, n)) = SubSeq(p, m + 1, n)
      BY <3>1, HeadTailOfSubSeq DEF n
    <3>3. \A i \in m .. n : p[i] \in S
      <4>1. \A i \in m .. n : i \in 1 .. n BY <1>1, <3>1
      <4> QED BY <4>1, ElementOfSeq DEF n
    <3>4. SubSeq(p, m, n) \in Seq(S) /\ Len(SubSeq(p, m, n)) = (IF m <= n THEN n - m + 1 ELSE 0)
      BY <2>2, <3>3, SubSeqProperties
    <3>5. Len(SubSeq(p, m, n)) # 0 BY <1>1, <3>1, <3>4
    <3> DEFINE q == SubSeq(p, m, n)
    <3>6. q # << >>
      <4>1. Len(<< >>) = 0 BY EmptySeq
      <4>2. Len(q) # 0 BY <3>5
      <4> HIDE DEF q
      <4> QED BY <4>1, <4>2
    <3>7. Left(p, k) # << >> /\ k # n BY <1>1, <2>1, <2>4, <3>6
    <3>8. Head(Left(p, k)) = p[k + 1] /\ Tail(Left(p, k)) = Left(p, k + 1)
      BY <2>1, <3>2 DEF m
    <3> QED BY <2>4, <3>7, <3>8
  <2> QED BY <1>1, <2>3, <2>4
<1> QED BY <1>2, <1>3 DEF n

\* The last passes: type i is filled in by the pass of its number.
AdjustFits(s) ==
  LET t == Adjust(s)
  IN  /\ t \in Seq({t[k] : k \in 1 .. Len(t)}) /\ Len(t) \in Nat
      /\ \A k \in 1 .. Len(t) :
           t[k].op = "type" /\ t[k].type = k - 1 /\ t[k].newType # "float"
      /\ \A i \in Typedefs(s) : i \in 0 .. Len(t) - 1

TypeNames(s) ==
  CASE s \in {"map", "overlap"} -> <<"Tin", "Tout">>
    [] s = "map, no result"     -> <<"Tin">>
    [] s \in {"indices", "points"} -> <<"Tout">>
    [] s = "zip, no result"     -> <<"Tleft", "Tright">>
    [] s \in {"zip", "allpairs", "allpairs, general"} -> <<"Tleft", "Tright", "Tout">>
    [] s \in {"reduce", "scan"} -> <<"T">>
    [] OTHER                    -> << >>

LEMMA AdjustTable ==
  ASSUME NEW s \in Skeletons
  PROVE  AdjustFits(s)
<1> DEFINE t == TypeNames(s)
           n == Len(t)
           a == Adjust(s)
<1>1. /\ n \in Nat /\ DOMAIN t = 1 .. n
      /\ \A k \in 1 .. n : t[k] # "float"
      /\ \A i \in Typedefs(s) : i \in 0 .. n - 1
  <2>1. CASE s \in {"map", "overlap"}
    <3>1. t = <<"Tin", "Tout">> BY <2>1 DEF TypeNames
    <3>2. Typedefs(s) = 0 .. 1 BY <2>1 DEF Typedefs
    <3> QED BY <3>1, <3>2
  <2>2. CASE s = "map, no result"
    <3>1. t = <<"Tin">> BY <2>2 DEF TypeNames
    <3>2. Typedefs(s) = {0} BY <2>2 DEF Typedefs
    <3> QED BY <3>1, <3>2
  <2>3. CASE s \in {"indices", "points"}
    <3>1. t = <<"Tout">> BY <2>3 DEF TypeNames
    <3>2. Typedefs(s) = {0} BY <2>3 DEF Typedefs
    <3> QED BY <3>1, <3>2
  <2>4. CASE s = "zip, no result"
    <3>1. t = <<"Tleft", "Tright">> BY <2>4 DEF TypeNames
    <3>2. Typedefs(s) = 0 .. 1 BY <2>4 DEF Typedefs
    <3> QED BY <3>1, <3>2
  <2>5. CASE s \in {"zip", "allpairs", "allpairs, general"}
    <3>1. t = <<"Tleft", "Tright", "Tout">> BY <2>5 DEF TypeNames
    <3>2. Typedefs(s) = 0 .. 2 BY <2>5 DEF Typedefs
    <3> QED BY <3>1, <3>2
  <2>6. CASE s \in {"reduce", "scan"}
    <3>1. t = <<"T">> BY <2>6 DEF TypeNames
    <3>2. Typedefs(s) = {0} BY <2>6 DEF Typedefs
    <3> QED BY <3>1, <3>2
  <2>7. CASE s \in {"indices, no result", "points, no result"}
    <3>1. t = << >> BY <2>7 DEF TypeNames
    <3>2. Typedefs(s) = {} BY <2>7 DEF Typedefs
    <3> QED BY <3>1, <3>2
  <2> QED BY <2>1, <2>2, <2>3, <2>4, <2>5, <2>6, <2>7 DEF Skeletons
<1>2. a = [k \in DOMAIN t |-> RedefineType(k - 1, t[k])] BY DEF Adjust, TypeNames
<1> HIDE DEF t, n, a
<1> DEFINE S == {a[k] : k \in 1 .. n}
<1>3. a \in [1 .. n -> S] BY <1>1, <1>2
<1>4. \A k \in 1 .. n : a[k] = RedefineType(k - 1, t[k]) BY <1>1, <1>2
<1> HIDE DEF S
<1>5. a \in Seq(S) BY <1>1, <1>3
<1>6. Len(a) = n BY <1>1, <1>3, <1>5, LenProperties
<1>7. ASSUME NEW k \in 1 .. n
      PROVE  a[k].op = "type" /\ a[k].type = k - 1 /\ a[k].newType # "float"
  <2>1. a[k] = [op |-> "type", type |-> k - 1, newType |-> t[k]] BY <1>4 DEF RedefineType
  <2>2. t[k] # "float" BY <1>1
  <2> QED BY <2>1, <2>2
<1> QED BY <1>1, <1>5, <1>6, <1>7 DEF AdjustFits, a, S

\* What a pass does, to the source after the first k.
JoinEffect(r, k, pass) ==
  /\ pass.op = "join" /\ k + 1 = Joined(r)
  /\ SourcesAt(r, k + 1) = << >>
  /\ ProgramAt(r, k + 1) = FlattenSeq(SourcesAt(r, k)) \o SkeletonSource(r.skeleton)

SourceEffect(r, k, pass) ==
  /\ pass.op = "renameSource" /\ k + 1 < Joined(r)
  /\ SourcesAt(r, k + 1) =
       [SourcesAt(r, k) EXCEPT
         ![pass.source] = RenameFunction(SourcesAt(r, k)[pass.source], pass.from, pass.to)]
  /\ ProgramAt(r, k + 1) = ProgramAt(r, k)

ProgramEffect(r, k, pass) ==
  /\ Joined(r) <= k /\ k + 1 <= Before(r) /\ SourcesAt(r, k + 1) = SourcesAt(r, k)
  /\ \/ /\ pass.op = "parameters"
        /\ ProgramAt(r, k + 1) =
             FixKernelParameter(
               TransferParameters(ProgramAt(r, k), pass.from, pass.start, pass.to), pass.to)
     \/ /\ pass.op = "arguments"
        /\ ProgramAt(r, k + 1) = TransferArguments(ProgramAt(r, k), pass.from, pass.start, pass.to)
     \/ /\ pass.op = "rename"
        /\ ProgramAt(r, k + 1) = RenameFunction(ProgramAt(r, k), pass.from, pass.to)

TypeEffect(r, k, pass) ==
  /\ pass.op = "type" /\ Joined(r) <= k /\ Before(r) <= k
  /\ pass.type = k - Before(r) /\ pass.newType # "float"
  /\ SourcesAt(r, k + 1) = SourcesAt(r, k) /\ ProgramAt(r, k + 1) = ProgramAt(r, k)

Effect(r, k, pass) ==
  JoinEffect(r, k, pass) \/ SourceEffect(r, k, pass) \/ ProgramEffect(r, k, pass) \/ TypeEffect(r, k, pass)

Members(p) == {p[i] : i \in 1 .. Len(p)}

LEMMA MembersType ==
  ASSUME NEW S, NEW p \in Seq(S)
  PROVE  p \in Seq(Members(p)) /\ Len(p) \in Nat
<1> DEFINE n == Len(p)
           M == Members(p)
<1>1. n \in Nat /\ p \in [1 .. n -> S] BY LenProperties
<1>2. \A i \in 1 .. n : p[i] \in M BY DEF Members
<1> HIDE DEF n, M
<1>3. p \in [1 .. n -> M] BY <1>1, <1>2
<1>4. p \in Seq(M) BY <1>1, <1>3
<1> QED BY <1>1, <1>4 DEF n, M

LEMMA SinglePasses ==
  ASSUME NEW r \in Requests, OneSource(r)
  PROVE  LET s == r.skeleton
             n == Len(Extended(s))
             a == Adjust(s)
             p == Passes(r)
         IN  /\ p \in Seq(Members(p)) /\ Len(p) = n + 3 + Len(a)
             /\ p[1] = Join
             /\ \A k \in 1 .. n : p[k + 1] = Parameters(r.names[1], Leading(s), Extended(s)[k])
             /\ p[n + 2] = Arguments(r.names[1], Leading(s), Placeholder(s))
             /\ p[n + 3] = Rename(r.names[1], Placeholder(s))
             /\ \A k \in 1 .. Len(a) : p[n + 3 + k] = a[k]
<1> DEFINE s == r.skeleton
           n == Len(Extended(s))
           a == Adjust(s)
           p == Passes(r)
           x == Arguments(r.names[1], Leading(s), Placeholder(s))
           y == Rename(r.names[1], Placeholder(s))
           q == [k \in DOMAIN Extended(s) |-> Parameters(r.names[1], Leading(s), Extended(s)[k])]
           S == {Join, x, y} \cup {q[k] : k \in 1 .. n} \cup {a[k] : k \in 1 .. Len(a)}
           b == <<Join>>
           c == <<x, y>>
<1>0. s \in Skeletons /\ s # "allpairs" BY RequestType DEF OneSource
<1>1. Extended(s) \in Seq(KernelNames) /\ n \in {1, 2} BY <1>0, ExtendedTable DEF ExtendedFits
<1>2. DOMAIN Extended(s) = 1 .. n /\ n \in Nat BY <1>1, LenProperties
<1>3. a \in Seq({a[k] : k \in 1 .. Len(a)}) /\ Len(a) \in Nat BY <1>0, AdjustTable DEF AdjustFits
<1>4. p = ((b \o q) \o c) \o a BY <1>0 DEF Passes
<1>5. \A k \in 1 .. n : q[k] = Parameters(r.names[1], Leading(s), Extended(s)[k]) BY <1>2
<1>6. q \in [1 .. n -> S] BY <1>2
<1>7. a \in Seq(S)
  <2>1. {a[k] : k \in 1 .. Len(a)} \subseteq S OBVIOUS
  <2> HIDE DEF a, S
  <2> QED BY <1>3, <2>1, SeqMonotonic
<1>8. b \in Seq(S) /\ Len(b) = 1 /\ b[1] = Join
  <2>1. Join \in S OBVIOUS
  <2> HIDE DEF S
  <2> QED BY <2>1
<1>9. c \in Seq(S) /\ Len(c) = 2 /\ c[1] = x /\ c[2] = y
  <2>1. x \in S /\ y \in S OBVIOUS
  <2> HIDE DEF S, x, y
  <2> QED BY <2>1
<1> HIDE DEF s, n, a, p, x, y, q, S, b, c
<1>10. q \in Seq(S) BY <1>2, <1>6
<1>11. Len(q) = n BY <1>2, <1>6, <1>10, LenProperties
<1> DEFINE u == b \o q
<1>12. u \in Seq(S) /\ InParts(u, b, q) BY <1>8, <1>10, ConcatInParts
<1> HIDE DEF u
<1>13. Len(u) = n + 1 /\ u[1] = Join /\ \A k \in 1 .. n : u[1 + k] = q[k]
  BY <1>2, <1>8, <1>11, <1>12 DEF InParts
<1> DEFINE v == u \o c
<1>14. v \in Seq(S) /\ InParts(v, u, c) BY <1>9, <1>12, ConcatInParts
<1> HIDE DEF v
<1>15. Len(v) = n + 3 /\ (\A i \in 1 .. n + 1 : v[i] = u[i]) /\ v[n + 1 + 1] = x /\ v[n + 1 + 2] = y
  BY <1>2, <1>9, <1>13, <1>14 DEF InParts
<1>16. p \in Seq(S) /\ InParts(p, v, a) BY <1>4, <1>7, <1>14, ConcatInParts DEF u, v
<1>17. /\ Len(p) = n + 3 + Len(a) /\ (\A i \in 1 .. n + 3 : p[i] = v[i])
       /\ \A k \in 1 .. Len(a) : p[n + 3 + k] = a[k]
  BY <1>2, <1>15, <1>16 DEF InParts
<1>18. p[1] = Join /\ p[n + 2] = x /\ p[n + 3] = y
  <2>1. /\ 1 \in 1 .. n + 1 /\ 1 \in 1 .. n + 3 /\ n + 2 \in 1 .. n + 3 /\ n + 3 \in 1 .. n + 3
        /\ n + 1 + 1 = n + 2 /\ n + 1 + 2 = n + 3
    BY <1>2
  <2> QED BY <1>13, <1>15, <1>17, <2>1
<1>19. \A k \in 1 .. n : p[k + 1] = q[k]
  <2> SUFFICES ASSUME NEW k \in 1 .. n PROVE p[k + 1] = q[k] OBVIOUS
  <2>1. k + 1 \in 1 .. n + 1 /\ k + 1 \in 1 .. n + 3 /\ 1 + k = k + 1 BY <1>2
  <2> QED BY <1>13, <1>15, <1>17, <2>1
<1>20. p \in Seq(Members(p)) BY <1>16, MembersType
<1> QED BY <1>5, <1>17, <1>18, <1>19, <1>20 DEF s, n, a, p, x, y

LEMMA PairPasses ==
  ASSUME NEW r \in Requests, ~ OneSource(r)
  PROVE  LET a == Adjust("allpairs")
             p == Passes(r)
         IN  /\ p \in Seq(Members(p)) /\ Len(p) = 9 + Len(a)
             /\ p[1] = RenameSource(1, r.names[1], "TMP_REDUCE")
             /\ p[2] = RenameSource(2, r.names[1], "TMP_ZIP")
             /\ p[3] = Join
             /\ p[4] = Parameters("TMP_REDUCE", 2, "SCL_ALLPAIRS")
             /\ p[5] = Arguments("TMP_REDUCE", 2, "USR_REDUCE")
             /\ p[6] = Parameters("TMP_ZIP", 2, "SCL_ALLPAIRS")
             /\ p[7] = Arguments("TMP_ZIP", 2, "USR_ZIP")
             /\ p[8] = Rename("TMP_REDUCE", "USR_REDUCE")
             /\ p[9] = Rename("TMP_ZIP", "USR_ZIP")
             /\ \A k \in 1 .. Len(a) : p[9 + k] = a[k]
<1> DEFINE a == Adjust("allpairs")
           p == Passes(r)
           c1 == RenameSource(1, r.names[1], "TMP_REDUCE")
           c2 == RenameSource(2, r.names[1], "TMP_ZIP")
           c3 == Join
           c4 == Parameters("TMP_REDUCE", 2, "SCL_ALLPAIRS")
           c5 == Arguments("TMP_REDUCE", 2, "USR_REDUCE")
           c6 == Parameters("TMP_ZIP", 2, "SCL_ALLPAIRS")
           c7 == Arguments("TMP_ZIP", 2, "USR_ZIP")
           c8 == Rename("TMP_REDUCE", "USR_REDUCE")
           c9 == Rename("TMP_ZIP", "USR_ZIP")
           q == <<c1, c2, c3, c4, c5, c6, c7, c8, c9>>
           S == {c1, c2, c3, c4, c5, c6, c7, c8, c9} \cup {a[k] : k \in 1 .. Len(a)}
<1>0. r.skeleton = "allpairs" /\ "allpairs" \in Skeletons BY RequestType DEF OneSource
<1>1. p = q \o a BY <1>0 DEF Passes, AllPairsPasses
<1>2. a \in Seq({a[k] : k \in 1 .. Len(a)}) /\ Len(a) \in Nat BY <1>0, AdjustTable DEF AdjustFits
<1>3. a \in Seq(S)
  <2>1. {a[k] : k \in 1 .. Len(a)} \subseteq S OBVIOUS
  <2> HIDE DEF a, S
  <2> QED BY <1>2, <2>1, SeqMonotonic
<1>4. /\ c1 \in S /\ c2 \in S /\ c3 \in S /\ c4 \in S /\ c5 \in S /\ c6 \in S /\ c7 \in S
      /\ c8 \in S /\ c9 \in S
  OBVIOUS
<1> HIDE DEF S, c1, c2, c3, c4, c5, c6, c7, c8, c9, a, p
<1>5. /\ q \in Seq(S) /\ Len(q) = 9
      /\ q[1] = c1 /\ q[2] = c2 /\ q[3] = c3 /\ q[4] = c4 /\ q[5] = c5 /\ q[6] = c6
      /\ q[7] = c7 /\ q[8] = c8 /\ q[9] = c9
  BY <1>4
<1> HIDE DEF q
<1>6. p \in Seq(S) /\ InParts(p, q, a) BY <1>1, <1>3, <1>5, ConcatInParts
<1>7. /\ Len(p) = 9 + Len(a) /\ (\A i \in 1 .. 9 : p[i] = q[i])
      /\ \A k \in 1 .. Len(a) : p[9 + k] = a[k]
  BY <1>5, <1>6 DEF InParts
<1>8. /\ p[1] = c1 /\ p[2] = c2 /\ p[3] = c3 /\ p[4] = c4 /\ p[5] = c5 /\ p[6] = c6
      /\ p[7] = c7 /\ p[8] = c8 /\ p[9] = c9
  BY <1>5, <1>7
<1>9. p \in Seq(Members(p)) BY <1>6, MembersType
<1> QED BY <1>7, <1>8, <1>9 DEF a, p, c1, c2, c3, c4, c5, c6, c7, c8, c9

LEMMA SingleEffect ==
  ASSUME NEW r \in Requests, OneSource(r), NEW k \in 0 .. Len(Passes(r)) - 1
  PROVE  Effect(r, k, Passes(r)[k + 1])
<1> DEFINE s == r.skeleton
           n == Len(Extended(s))
           f == r.names[1]
           l == Leading(s)
           to == Placeholder(s)
           a == Adjust(s)
           p == Passes(r)
<1>0. s # "allpairs" /\ s \in Skeletons BY RequestType DEF OneSource
<1>1. n \in {1, 2} BY <1>0, ExtendedTable DEF ExtendedFits
<1>2. /\ Len(p) = n + 3 + Len(a) /\ p[1] = Join
      /\ \A j \in 1 .. n : p[j + 1] = Parameters(f, l, Extended(s)[j])
      /\ p[n + 2] = Arguments(f, l, to) /\ p[n + 3] = Rename(f, to)
      /\ \A j \in 1 .. Len(a) : p[n + 3 + j] = a[j]
  BY SinglePasses
<1>3. /\ Len(a) \in Nat
      /\ \A j \in 1 .. Len(a) : a[j].op = "type" /\ a[j].type = j - 1 /\ a[j].newType # "float"
  BY <1>0, AdjustTable DEF AdjustFits
<1>4. Joined(r) = 1 /\ Before(r) = n + 3 BY DEF Joined, Before
<1>5. /\ SourcesAt(r, 0) = r.sources
      /\ ProgramAt(r, 1) = FlattenSeq(r.sources) \o SkeletonSource(s)
      /\ \A j \in 1 .. n :
           ProgramAt(r, j + 1) =
             FixKernelParameter(TransferParameters(ProgramAt(r, j), f, l, Extended(s)[j]),
                                Extended(s)[j])
      /\ ProgramAt(r, n + 2) = TransferArguments(ProgramAt(r, n + 1), f, l, to)
      /\ ProgramAt(r, n + 3) = RenameFunction(ProgramAt(r, n + 2), f, to)
      /\ \A j \in Nat : j >= n + 3 => ProgramAt(r, j) = ProgramAt(r, n + 3)
      /\ \A j \in Nat : j >= 1 => SourcesAt(r, j) = << >>
  BY SingleStates
<1> HIDE DEF n, f, l, to, a, p
<1>6. k \in Nat /\ k < n + 3 + Len(a) BY <1>1, <1>2, <1>3 DEF p
<1>7. k >= 1 => SourcesAt(r, k + 1) = SourcesAt(r, k)
  <2>1. k + 1 \in Nat /\ k + 1 >= 1 BY <1>6
  <2> QED BY <1>5, <1>6, <2>1
<1>8. CASE k = 0
  <2>1. p[k + 1] = Join /\ Join.op = "join" BY <1>2, <1>8 DEF Join
  <2>2. SourcesAt(r, 1) = << >> BY <1>5
  <2>3. k + 1 = 1 BY <1>8
  <2> QED BY <1>4, <1>5, <1>8, <2>1, <2>2, <2>3 DEF Effect, JoinEffect, p
<1>9. CASE k \in 1 .. n
  <2>1. p[k + 1] = Parameters(f, l, Extended(s)[k]) BY <1>2, <1>9
  <2> DEFINE pass == p[k + 1]
  <2>2. pass.op = "parameters" /\ pass.from = f /\ pass.start = l /\ pass.to = Extended(s)[k]
    BY <2>1 DEF Parameters
  <2>3. 1 <= k /\ k + 1 <= n + 3 BY <1>1, <1>9
  <2>4. ProgramAt(r, k + 1) =
          FixKernelParameter(TransferParameters(ProgramAt(r, k), f, l, Extended(s)[k]),
                             Extended(s)[k])
    BY <1>5, <1>9
  <2> HIDE DEF pass
  <2>5. ProgramEffect(r, k, pass) BY <1>4, <1>7, <2>2, <2>3, <2>4 DEF ProgramEffect
  <2> QED BY <2>5 DEF Effect, pass, p
<1>10. CASE k = n + 1
  <2>1. k + 1 = n + 2 /\ 1 <= k /\ k + 1 <= n + 3 BY <1>1, <1>10
  <2> DEFINE pass == p[k + 1]
  <2>2. pass.op = "arguments" /\ pass.from = f /\ pass.start = l /\ pass.to = to
    BY <1>2, <2>1 DEF Arguments
  <2>3. ProgramAt(r, k + 1) = TransferArguments(ProgramAt(r, k), f, l, to)
    BY <1>5, <1>10, <2>1
  <2> HIDE DEF pass
  <2>4. ProgramEffect(r, k, pass) BY <1>4, <1>7, <2>1, <2>2, <2>3 DEF ProgramEffect
  <2> QED BY <2>4 DEF Effect, pass, p
<1>11. CASE k = n + 2
  <2>1. k + 1 = n + 3 /\ 1 <= k /\ k + 1 <= n + 3 BY <1>1, <1>11
  <2> DEFINE pass == p[k + 1]
  <2>2. pass.op = "rename" /\ pass.from = f /\ pass.to = to
    BY <1>2, <2>1 DEF Rename
  <2>3. ProgramAt(r, k + 1) = RenameFunction(ProgramAt(r, k), f, to)
    BY <1>5, <1>11, <2>1
  <2> HIDE DEF pass
  <2>4. ProgramEffect(r, k, pass) BY <1>4, <1>7, <2>1, <2>2, <2>3 DEF ProgramEffect
  <2> QED BY <2>4 DEF Effect, pass, p
<1>12. CASE k >= n + 3
  <2> DEFINE j == k - n - 2
             pass == p[k + 1]
  <2>1. j \in 1 .. Len(a) /\ n + 3 + j = k + 1 /\ j - 1 = k - (n + 3) /\ 1 <= k /\ k + 1 >= n + 3
    BY <1>1, <1>3, <1>6, <1>12
  <2>2. pass = a[j] BY <1>2, <2>1
  <2>3. pass.op = "type" /\ pass.type = k - (n + 3) /\ pass.newType # "float"
    BY <1>3, <2>1, <2>2
  <2>4. ProgramAt(r, k + 1) = ProgramAt(r, k)
    <3>1. k + 1 \in Nat BY <1>6
    <3> QED BY <1>5, <1>6, <1>12, <2>1, <3>1
  <2> HIDE DEF pass, j
  <2>5. TypeEffect(r, k, pass) BY <1>4, <1>7, <1>12, <2>1, <2>3, <2>4 DEF TypeEffect
  <2> QED BY <2>5 DEF Effect, pass, p
<1>13. k = 0 \/ k \in 1 .. n \/ k = n + 1 \/ k = n + 2 \/ k >= n + 3 BY <1>1, <1>6
<1> QED BY <1>8, <1>9, <1>10, <1>11, <1>12, <1>13

LEMMA PairEffect ==
  ASSUME NEW r \in Requests, ~ OneSource(r), OneName(r), NEW k \in 0 .. Len(Passes(r)) - 1
  PROVE  Effect(r, k, Passes(r)[k + 1])
<1> DEFINE s == "allpairs"
           f == r.names[1]
           K == "SCL_ALLPAIRS"
           a == Adjust(s)
           p == Passes(r)
           pass == p[k + 1]
<1>0. r.skeleton = s /\ s \in Skeletons BY RequestType DEF OneSource
<1>1. /\ Len(p) = 9 + Len(a)
      /\ p[1] = RenameSource(1, f, "TMP_REDUCE") /\ p[2] = RenameSource(2, f, "TMP_ZIP")
      /\ p[3] = Join
      /\ p[4] = Parameters("TMP_REDUCE", 2, K) /\ p[5] = Arguments("TMP_REDUCE", 2, "USR_REDUCE")
      /\ p[6] = Parameters("TMP_ZIP", 2, K) /\ p[7] = Arguments("TMP_ZIP", 2, "USR_ZIP")
      /\ p[8] = Rename("TMP_REDUCE", "USR_REDUCE") /\ p[9] = Rename("TMP_ZIP", "USR_ZIP")
      /\ \A j \in 1 .. Len(a) : p[9 + j] = a[j]
  BY PairPasses
<1>2. /\ Len(a) \in Nat
      /\ \A j \in 1 .. Len(a) : a[j].op = "type" /\ a[j].type = j - 1 /\ a[j].newType # "float"
  BY <1>0, AdjustTable DEF AdjustFits
<1>3. Joined(r) = 3 /\ Before(r) = 9 BY DEF Joined, Before
<1>4. /\ SourcesAt(r, 1) =
           [SourcesAt(r, 0) EXCEPT ![1] = RenameFunction(SourcesAt(r, 0)[1], f, "TMP_REDUCE")]
      /\ SourcesAt(r, 2) =
           [SourcesAt(r, 1) EXCEPT ![2] = RenameFunction(SourcesAt(r, 1)[2], f, "TMP_ZIP")]
      /\ \A j \in 0 .. 2 : ProgramAt(r, j) = << >>
  BY PairStates
<1>5. /\ ProgramAt(r, 3) = FlattenSeq(SourcesAt(r, 2)) \o SkeletonSource(s)
      /\ ProgramAt(r, 4) =
           FixKernelParameter(TransferParameters(ProgramAt(r, 3), "TMP_REDUCE", 2, K), K)
      /\ ProgramAt(r, 5) = TransferArguments(ProgramAt(r, 4), "TMP_REDUCE", 2, "USR_REDUCE")
      /\ ProgramAt(r, 6) =
           FixKernelParameter(TransferParameters(ProgramAt(r, 5), "TMP_ZIP", 2, K), K)
      /\ ProgramAt(r, 7) = TransferArguments(ProgramAt(r, 6), "TMP_ZIP", 2, "USR_ZIP")
      /\ ProgramAt(r, 8) = RenameFunction(ProgramAt(r, 7), "TMP_REDUCE", "USR_REDUCE")
      /\ ProgramAt(r, 9) = RenameFunction(ProgramAt(r, 8), "TMP_ZIP", "USR_ZIP")
      /\ \A j \in Nat : j >= 9 => ProgramAt(r, j) = ProgramAt(r, 9)
      /\ \A j \in Nat : j >= 3 => SourcesAt(r, j) = << >>
  BY PairStates
<1> HIDE DEF a, p, f
<1>6. k \in Nat /\ k < 9 + Len(a) BY <1>1, <1>2 DEF p
<1>7. k >= 3 => SourcesAt(r, k + 1) = SourcesAt(r, k) /\ 3 <= k
  <2>1. k + 1 \in Nat /\ (k >= 3 => k + 1 >= 3) BY <1>6
  <2> QED BY <1>5, <1>6, <2>1
<1>8. CASE k = 0
  <2>1. pass = RenameSource(1, f, "TMP_REDUCE") /\ k + 1 = 1 BY <1>1, <1>8
  <2>2. /\ pass.op = "renameSource" /\ pass.source = 1 /\ pass.from = f
        /\ pass.to = "TMP_REDUCE"
    BY <2>1 DEF RenameSource
  <2> HIDE DEF pass
  <2>3. ProgramAt(r, 1) = ProgramAt(r, 0) BY <1>4
  <2>4. SourceEffect(r, k, pass) BY <1>3, <1>4, <1>8, <2>1, <2>2, <2>3 DEF SourceEffect
  <2> QED BY <2>4 DEF Effect, pass, p
<1>9. CASE k = 1
  <2>1. pass = RenameSource(2, f, "TMP_ZIP") /\ k + 1 = 2 BY <1>1, <1>9
  <2>2. /\ pass.op = "renameSource" /\ pass.source = 2 /\ pass.from = f
        /\ pass.to = "TMP_ZIP"
    BY <2>1 DEF RenameSource
  <2> HIDE DEF pass
  <2>3. ProgramAt(r, 2) = ProgramAt(r, 1) BY <1>4
  <2>4. SourceEffect(r, k, pass) BY <1>3, <1>4, <1>9, <2>1, <2>2, <2>3 DEF SourceEffect
  <2> QED BY <2>4 DEF Effect, pass, p
<1>10. CASE k = 2
  <2>1. pass = Join /\ k + 1 = 3 BY <1>1, <1>10
  <2>2. pass.op = "join" BY <2>1 DEF Join
  <2> HIDE DEF pass
  <2>3. SourcesAt(r, 3) = << >> BY <1>5
  <2>4. JoinEffect(r, k, pass) BY <1>0, <1>3, <1>5, <1>10, <2>1, <2>2, <2>3 DEF JoinEffect
  <2> QED BY <2>4 DEF Effect, pass, p
<1>11. CASE k \in 3 .. 8
  <2>1. 3 <= k /\ k + 1 <= 9 /\ SourcesAt(r, k + 1) = SourcesAt(r, k) BY <1>7, <1>11
  <2>2. k = 3 \/ k = 4 \/ k = 5 \/ k = 6 \/ k = 7 \/ k = 8 BY <1>11
  <2> DEFINE Gives(from) ==
               /\ pass.op = "parameters" /\ pass.from = from /\ pass.start = 2 /\ pass.to = K
               /\ ProgramAt(r, k + 1) =
                    FixKernelParameter(TransferParameters(ProgramAt(r, k), from, 2, K), K)
             Passes1(from, to) ==
               /\ pass.op = "arguments" /\ pass.from = from /\ pass.start = 2 /\ pass.to = to
               /\ ProgramAt(r, k + 1) = TransferArguments(ProgramAt(r, k), from, 2, to)
             Renames(from, to) ==
               /\ pass.op = "rename" /\ pass.from = from /\ pass.to = to
               /\ ProgramAt(r, k + 1) = RenameFunction(ProgramAt(r, k), from, to)
  <2>3. CASE k = 3
    <3>1. pass = Parameters("TMP_REDUCE", 2, K) BY <1>1, <2>3
    <3>2. Gives("TMP_REDUCE") BY <1>5, <2>3, <3>1 DEF Parameters
    <3> HIDE DEF pass
    <3>3. ProgramEffect(r, k, pass) BY <1>3, <2>1, <3>2 DEF ProgramEffect
    <3> QED BY <3>3 DEF Effect, pass, p
  <2>4. CASE k = 4
    <3>1. pass = Arguments("TMP_REDUCE", 2, "USR_REDUCE") BY <1>1, <2>4
    <3>2. Passes1("TMP_REDUCE", "USR_REDUCE") BY <1>5, <2>4, <3>1 DEF Arguments
    <3> HIDE DEF pass
    <3>3. ProgramEffect(r, k, pass) BY <1>3, <2>1, <3>2 DEF ProgramEffect
    <3> QED BY <3>3 DEF Effect, pass, p
  <2>5. CASE k = 5
    <3>1. pass = Parameters("TMP_ZIP", 2, K) BY <1>1, <2>5
    <3>2. Gives("TMP_ZIP") BY <1>5, <2>5, <3>1 DEF Parameters
    <3> HIDE DEF pass
    <3>3. ProgramEffect(r, k, pass) BY <1>3, <2>1, <3>2 DEF ProgramEffect
    <3> QED BY <3>3 DEF Effect, pass, p
  <2>6. CASE k = 6
    <3>1. pass = Arguments("TMP_ZIP", 2, "USR_ZIP") BY <1>1, <2>6
    <3>2. Passes1("TMP_ZIP", "USR_ZIP") BY <1>5, <2>6, <3>1 DEF Arguments
    <3> HIDE DEF pass
    <3>3. ProgramEffect(r, k, pass) BY <1>3, <2>1, <3>2 DEF ProgramEffect
    <3> QED BY <3>3 DEF Effect, pass, p
  <2>7. CASE k = 7
    <3>1. pass = Rename("TMP_REDUCE", "USR_REDUCE") BY <1>1, <2>7
    <3>2. Renames("TMP_REDUCE", "USR_REDUCE") BY <1>5, <2>7, <3>1 DEF Rename
    <3> HIDE DEF pass
    <3>3. ProgramEffect(r, k, pass) BY <1>3, <2>1, <3>2 DEF ProgramEffect
    <3> QED BY <3>3 DEF Effect, pass, p
  <2>8. CASE k = 8
    <3>1. pass = Rename("TMP_ZIP", "USR_ZIP") BY <1>1, <2>8
    <3>2. Renames("TMP_ZIP", "USR_ZIP") BY <1>5, <2>8, <3>1 DEF Rename
    <3> HIDE DEF pass
    <3>3. ProgramEffect(r, k, pass) BY <1>3, <2>1, <3>2 DEF ProgramEffect
    <3> QED BY <3>3 DEF Effect, pass, p
  <2> QED BY <2>2, <2>3, <2>4, <2>5, <2>6, <2>7, <2>8
<1>12. CASE k >= 9
  <2> DEFINE j == k - 8
  <2>1. j \in 1 .. Len(a) /\ 9 + j = k + 1 /\ j - 1 = k - 9 /\ 3 <= k /\ k + 1 >= 9
    BY <1>2, <1>6, <1>12
  <2>2. pass = a[j] BY <1>1, <2>1
  <2>3. pass.op = "type" /\ pass.type = k - 9 /\ pass.newType # "float" BY <1>2, <2>1, <2>2
  <2>4. ProgramAt(r, k + 1) = ProgramAt(r, k)
    <3>1. k + 1 \in Nat BY <1>6
    <3> QED BY <1>5, <1>6, <1>12, <2>1, <3>1
  <2> HIDE DEF pass, j
  <2>5. TypeEffect(r, k, pass) BY <1>3, <1>7, <1>12, <2>1, <2>3, <2>4 DEF TypeEffect
  <2> QED BY <2>5 DEF Effect, pass, p
<1>13. k = 0 \/ k = 1 \/ k = 2 \/ k \in 3 .. 8 \/ k >= 9 BY <1>6
<1> QED BY <1>8, <1>9, <1>10, <1>11, <1>12, <1>13

LEMMA NumbersOfPasses ==
  ASSUME NEW r \in Requests
  PROVE  /\ Joined(r) \in Nat /\ Before(r) \in Nat /\ 1 <= Joined(r) /\ Joined(r) <= Before(r)
         /\ Passes(r) \in Seq(Members(Passes(r)))
         /\ Len(Passes(r)) = Before(r) + Len(Adjust(r.skeleton))
         /\ Len(Adjust(r.skeleton)) \in Nat
         /\ \A i \in Typedefs(r.skeleton) : i \in 0 .. Len(Adjust(r.skeleton)) - 1
<1>1. AdjustFits(r.skeleton) BY RequestType, AdjustTable
<1>2. /\ Len(Adjust(r.skeleton)) \in Nat
      /\ \A i \in Typedefs(r.skeleton) : i \in 0 .. Len(Adjust(r.skeleton)) - 1
  BY <1>1 DEF AdjustFits
<1>3. CASE OneSource(r)
  <2>1. ExtendedFits(r.skeleton) BY <1>3, RequestType, ExtendedTable DEF OneSource
  <2>2. Len(Extended(r.skeleton)) \in {1, 2} BY <2>1 DEF ExtendedFits
  <2>3. Joined(r) = 1 /\ Before(r) = Len(Extended(r.skeleton)) + 3 BY <1>3 DEF Joined, Before
  <2>4. Passes(r) \in Seq(Members(Passes(r))) /\ Len(Passes(r)) = Before(r) + Len(Adjust(r.skeleton))
    BY <1>3, <2>3, SinglePasses
  <2> QED BY <1>2, <2>2, <2>3, <2>4
<1>4. CASE ~ OneSource(r)
  <2>1. Joined(r) = 3 /\ Before(r) = 9 BY <1>4 DEF Joined, Before
  <2>2. r.skeleton = "allpairs" BY <1>4 DEF OneSource
  <2>3. Passes(r) \in Seq(Members(Passes(r))) /\ Len(Passes(r)) = Before(r) + Len(Adjust(r.skeleton))
    BY <1>4, <2>1, <2>2, PairPasses
  <2> QED BY <1>2, <2>1, <2>3
<1> QED BY <1>3, <1>4

LEMMA TypesStep ==
  ASSUME NEW r \in Requests, NEW k \in Nat, NEW t, TypesAt(r, k, t)
  PROVE  /\ k + 1 < Joined(r) => TypesAt(r, k + 1, t)
         /\ k + 1 = Joined(r) => TypesAt(r, k + 1, [i \in Typedefs(r.skeleton) |-> "float"])
         /\ Joined(r) <= k /\ k + 1 <= Before(r) => TypesAt(r, k + 1, t)
         /\ \A new : Joined(r) <= k /\ Before(r) <= k /\ new # "float"
              => TypesAt(r, k + 1, RedefineTypedef(t, k - Before(r), new))
<1> DEFINE j == Joined(r)
           b == Before(r)
           T == Typedefs(r.skeleton)
<1>1. j \in Nat /\ b \in Nat /\ j <= b /\ \A i \in T : i \in Nat BY NumbersOfPasses
<1> HIDE DEF j, b, T
<1>2. \A m \in Nat : \A u :
        TypesAt(r, m, u) <=>
          IF m < j THEN u = << >>
          ELSE u = [i \in T |-> u[i]] /\ \A i \in DOMAIN u : u[i] = "float" => m <= b + i
  BY DEF TypesAt, j, b, T
<1>3. k + 1 \in Nat OBVIOUS
<1>4. k + 1 < j => TypesAt(r, k + 1, t)
  <2> SUFFICES ASSUME k + 1 < j PROVE TypesAt(r, k + 1, t) OBVIOUS
  <2>1. k < j BY <1>1
  <2>2. t = << >> BY <1>2, <2>1
  <2> QED BY <1>2, <1>3, <2>2
<1>5. ASSUME k + 1 = j PROVE TypesAt(r, k + 1, [i \in T |-> "float"])
  <2> DEFINE u == [i \in T |-> "float"]
  <2>1. DOMAIN u = T /\ u = [i \in T |-> u[i]] OBVIOUS
  <2>2. \A i \in T : k + 1 <= b + i /\ ~ (k + 1 < j) BY <1>1, <1>5
  <2>3. ~ (k + 1 < j) BY <1>1, <1>5
  <2> HIDE DEF u
  <2> QED BY <1>2, <1>3, <2>1, <2>2, <2>3
<1>6. ASSUME j <= k, k + 1 <= b PROVE TypesAt(r, k + 1, t)
  <2>1. ~ (k < j) /\ ~ (k + 1 < j) /\ \A i \in T : k + 1 <= b + i BY <1>1, <1>6
  <2>2. t = [i \in T |-> t[i]] BY <1>2, <2>1
  <2>3. DOMAIN t = T BY <2>2
  <2> QED BY <1>2, <1>3, <2>1, <2>2, <2>3
<1>7. ASSUME NEW new, j <= k, b <= k, new # "float"
      PROVE  TypesAt(r, k + 1, RedefineTypedef(t, k - b, new))
  <2> DEFINE u == RedefineTypedef(t, k - b, new)
  <2>1. ~ (k < j) /\ ~ (k + 1 < j) BY <1>1, <1>7
  <2>2. t = [i \in T |-> t[i]] /\ \A i \in DOMAIN t : t[i] = "float" => k <= b + i
    BY <1>2, <2>1
  <2>3. DOMAIN t = T BY <2>2
  <2>4. u = [i \in T |-> IF i = k - b THEN new ELSE t[i]] BY <2>3 DEF RedefineTypedef
  <2> HIDE DEF u
  <2>5. DOMAIN u = T /\ u = [i \in T |-> u[i]] BY <2>4
  <2>6. ASSUME NEW i \in T, u[i] = "float" PROVE k + 1 <= b + i
    <3>1. i # k - b /\ t[i] = "float" BY <1>7, <2>4, <2>6
    <3>2. k <= b + i /\ i \in Nat BY <1>1, <2>2, <2>3, <3>1
    <3> QED BY <1>1, <3>1, <3>2
  <2>7. TypesAt(r, k + 1, u) BY <1>2, <1>3, <2>1, <2>5, <2>6
  <2> QED BY <2>7 DEF u
<1> QED BY <1>4, <1>5, <1>6, <1>7 DEF j, b, T

-----------------------------------------------------------------------------
(***************************************************************************)
(* The invariant.                                                          *)
(***************************************************************************)
PassStep ==
  \/ JoinSources
  \/ /\ todo # << >>
     /\ \/ RenameInSource(Head(todo))
        \/ AppendParameters(Head(todo))
        \/ AppendArguments(Head(todo))
        \/ RenameUsed(Head(todo))
        \/ RedefineElementType(Head(todo))

\* The next pass, whichever it is.
LEMMA PassAdvances ==
  ASSUME NEW r \in Requests, OneSource(r) \/ OneName(r), request = r,
         NEW k \in 0 .. Len(Passes(r)), Progress(r, k), PassStep
  PROVE  /\ k + 1 \in 0 .. Len(Passes(r)) /\ Progress(r, k + 1)'
         /\ todo # << >> /\ UNCHANGED <<request, set>>
<1> DEFINE p == Passes(r)
           pass == p[k + 1]
<1>1. p \in Seq(Members(p)) /\ Len(p) \in Nat BY NumbersOfPasses, LenProperties
<1>2. todo = Left(p, k) /\ sources = SourcesAt(r, k) /\ program = ProgramAt(r, k)
      /\ TypesAt(r, k, types)
  BY DEF Progress
<1>3. todo # << >> /\ todo' = Tail(todo) BY DEF PassStep, JoinSources, Pass, RenameInSource,
  AppendParameters, AppendArguments, RenameUsed, RedefineElementType
<1> HIDE DEF p
<1>4. k # Len(p) /\ k \in 0 .. Len(p) BY <1>1, <1>2, <1>3, LeftSteps DEF p
<1>5. k < Len(p) /\ k + 1 \in 0 .. Len(p) /\ k \in 0 .. Len(p) - 1 /\ k \in Nat BY <1>1, <1>4
<1>6. Head(todo) = pass /\ todo' = Left(p, k + 1) BY <1>1, <1>2, <1>3, <1>5, LeftSteps
<1>7. Effect(r, k, pass) BY <1>5, SingleEffect, PairEffect DEF p
<1>8. UNCHANGED <<request, set>> BY DEF PassStep, JoinSources, RenameInSource,
  AppendParameters, AppendArguments, RenameUsed, RedefineElementType
<1> HIDE DEF pass
<1>9. sources' = SourcesAt(r, k + 1) /\ program' = ProgramAt(r, k + 1) /\ TypesAt(r, k + 1, types')
  <2>1. CASE JoinEffect(r, k, pass)
    <3>1. pass.op = "join" BY <2>1 DEF JoinEffect
    <3>2. JoinSources BY <1>6, <3>1 DEF PassStep, Pass, RenameInSource, AppendParameters,
      AppendArguments, RenameUsed, RedefineElementType
    <3>3. /\ sources' = << >> /\ program' = FlattenSeq(sources) \o SkeletonSource(r.skeleton)
          /\ types' = [i \in Typedefs(r.skeleton) |-> "float"]
      BY <3>2 DEF JoinSources
    <3>4. TypesAt(r, k + 1, types')
      <4>1. k + 1 = Joined(r) BY <2>1 DEF JoinEffect
      <4>2. TypesAt(r, k + 1, [i \in Typedefs(r.skeleton) |-> "float"])
        BY <1>2, <1>5, <4>1, TypesStep
      <4> QED BY <3>3, <4>2
    <3> QED BY <1>2, <2>1, <3>3, <3>4 DEF JoinEffect
  <2>2. CASE SourceEffect(r, k, pass)
    <3>1. pass.op = "renameSource" BY <2>2 DEF SourceEffect
    <3>2. RenameInSource(pass) BY <1>6, <3>1 DEF PassStep, Pass, JoinSources, AppendParameters,
      AppendArguments, RenameUsed, RedefineElementType
    <3>3. /\ sources' = [sources EXCEPT ![pass.source] =
                           RenameFunction(sources[pass.source], pass.from, pass.to)]
          /\ program' = program /\ types' = types
      BY <3>2 DEF RenameInSource
    <3>4. TypesAt(r, k + 1, types)
      <4>1. k + 1 < Joined(r) BY <2>2 DEF SourceEffect
      <4> QED BY <1>2, <1>5, <4>1, TypesStep
    <3> QED BY <1>2, <2>2, <3>3, <3>4 DEF SourceEffect
  <2>3. CASE ProgramEffect(r, k, pass)
    <3>1. TypesAt(r, k + 1, types)
      <4>1. Joined(r) <= k /\ k + 1 <= Before(r) BY <2>3 DEF ProgramEffect
      <4> QED BY <1>2, <1>5, <4>1, TypesStep
    <3>2. CASE /\ pass.op = "parameters"
               /\ ProgramAt(r, k + 1) =
                    FixKernelParameter(
                      TransferParameters(ProgramAt(r, k), pass.from, pass.start, pass.to), pass.to)
      <4>1. AppendParameters(pass) BY <1>6, <3>2 DEF PassStep, Pass, JoinSources, RenameInSource,
        AppendArguments, RenameUsed, RedefineElementType
      <4> QED BY <1>2, <2>3, <3>1, <3>2, <4>1 DEF AppendParameters, ProgramEffect
    <3>3. CASE /\ pass.op = "arguments"
               /\ ProgramAt(r, k + 1) =
                    TransferArguments(ProgramAt(r, k), pass.from, pass.start, pass.to)
      <4>1. AppendArguments(pass) BY <1>6, <3>3 DEF PassStep, Pass, JoinSources, RenameInSource,
        AppendParameters, RenameUsed, RedefineElementType
      <4> QED BY <1>2, <2>3, <3>1, <3>3, <4>1 DEF AppendArguments, ProgramEffect
    <3>4. CASE /\ pass.op = "rename"
               /\ ProgramAt(r, k + 1) = RenameFunction(ProgramAt(r, k), pass.from, pass.to)
      <4>1. RenameUsed(pass) BY <1>6, <3>4 DEF PassStep, Pass, JoinSources, RenameInSource,
        AppendParameters, AppendArguments, RedefineElementType
      <4> QED BY <1>2, <2>3, <3>1, <3>4, <4>1 DEF RenameUsed, ProgramEffect
    <3> QED BY <2>3, <3>2, <3>3, <3>4 DEF ProgramEffect
  <2>4. CASE TypeEffect(r, k, pass)
    <3>1. pass.op = "type" BY <2>4 DEF TypeEffect
    <3>2. RedefineElementType(pass) BY <1>6, <3>1 DEF PassStep, Pass, JoinSources, RenameInSource,
      AppendParameters, AppendArguments, RenameUsed
    <3>3. /\ types' = RedefineTypedef(types, k - Before(r), pass.newType)
          /\ sources' = sources /\ program' = program
      BY <2>4, <3>2 DEF RedefineElementType, TypeEffect
    <3>4. TypesAt(r, k + 1, RedefineTypedef(types, k - Before(r), pass.newType))
      <4>1. Joined(r) <= k /\ Before(r) <= k /\ pass.newType # "float" BY <2>4 DEF TypeEffect
      <4> QED BY <1>2, <1>5, <4>1, TypesStep
    <3> QED BY <1>2, <2>4, <3>3, <3>4 DEF TypeEffect
  <2> QED BY <1>7, <2>1, <2>2, <2>3, <2>4 DEF Effect
<1>10. Progress(r, k + 1)' BY <1>6, <1>9 DEF Progress, p
<1> QED BY <1>3, <1>5, <1>8, <1>10 DEF p

\* AllPairs looks for one name in both sources: with two names, it finds one of them.
NamesAgree == "oneName" \notin Tolerated

LEMMA AcceptableNames ==
  ASSUME NamesAgree, NEW r, Acceptable(r)
  PROVE  OneName(r)
BY DEF NamesAgree, Acceptable, Meets

LEMMA InitInv ==
  ASSUME Init
  PROVE  Inv
BY DEF Init, Inv

LEMMA CreateStarts ==
  ASSUME NEW r \in Requests, OneSource(r) \/ OneName(r), Create(r),
         program = << >>, types = << >>
  PROVE  0 \in 0 .. Len(Passes(r)) /\ Progress(r, 0)'
<1>1. Passes(r) \in Seq(Members(Passes(r))) /\ 0 < Joined(r) BY NumbersOfPasses
<1>2. Len(Passes(r)) \in Nat BY <1>1, LenProperties
<1>3. Left(Passes(r), 0) = Passes(r) BY <1>1, LeftSteps
<1>4. SourcesAt(r, 0) = r.sources BY SingleStates, PairStates
<1>5. ProgramAt(r, 0) = << >> /\ TypesAt(r, 0, << >>) BY <1>1 DEF ProgramAt, TypesAt
<1>6. /\ todo' = Passes(r) /\ sources' = r.sources /\ program' = << >> /\ types' = << >>
  BY DEF Create
<1>7. Progress(r, 0)' BY <1>3, <1>4, <1>5, <1>6 DEF Progress
<1> QED BY <1>2, <1>7

LEMMA StepInv ==
  ASSUME NamesAgree, Inv, [Next]_vars
  PROVE  Inv'
<1> DEFINE Started(r) == /\ request = r /\ r \in Requests /\ Acceptable(r) /\ HostSets
                         /\ \E k \in 0 .. Len(Passes(r)) : Progress(r, k)
           Waiting == request = None /\ todo = << >> /\ program = << >> /\ types = << >> /\ set = << >>
<1>1. Waiting \/ \E r \in Requests : Started(r) BY DEF Inv
<1>2. \A r : Started(r)' => Inv' BY DEF Inv
<1>3. CASE \E r \in Requests : Create(r)
  <2>1. PICK r \in Requests : Create(r) BY <1>3
  <2>2. request = None /\ Acceptable(r) /\ request' = r /\ set' = set /\ UNCHANGED <<program, types>>
    BY <2>1 DEF Create
  <2>3. Waiting BY <1>1, <2>2, RequestType
  <2>4. OneName(r) BY <2>2, AcceptableNames
  <2>5. 0 \in 0 .. Len(Passes(r)) /\ Progress(r, 0)' BY <2>1, <2>3, <2>4, CreateStarts
  <2>6. HostSets' BY <2>2, <2>3 DEF HostSets
  <2>7. Started(r)' BY <2>2, <2>5, <2>6
  <2> QED BY <1>2, <2>7
<1>4. CASE PassStep
  <2>1. todo # << >> BY <1>4 DEF PassStep, JoinSources, Pass
  <2>2. PICK r \in Requests : Started(r) BY <1>1, <2>1
  <2>3. PICK k \in 0 .. Len(Passes(r)) : Progress(r, k) BY <2>2
  <2>4. OneName(r) BY <2>2, AcceptableNames
  <2>5. /\ k + 1 \in 0 .. Len(Passes(r)) /\ Progress(r, k + 1)'
        /\ todo # << >> /\ UNCHANGED <<request, set>>
    BY <1>4, <2>2, <2>3, <2>4, PassAdvances
  <2>6. HostSets' BY <2>1, <2>2, <2>5 DEF HostSets
  <2>7. Started(r)' BY <2>2, <2>5, <2>6
  <2> QED BY <1>2, <2>7
<1>5. CASE SetKernelArgs
  <2>1. /\ request # None /\ todo = << >> /\ UNCHANGED <<request, sources, program, types, todo>>
        /\ set' = [k \in KernelsOf(program) |-> SetArguments(request, k)]
    BY <1>5 DEF SetKernelArgs, Adapted, KernelsOf
  <2>2. PICK r \in Requests : Started(r) BY <1>1, <2>1
  <2>3. PICK k \in 0 .. Len(Passes(r)) : Progress(r, k) BY <2>2
  <2>4. Progress(r, k)' BY <2>1, <2>3 DEF Progress
  <2>5. HostSets' BY <2>1 DEF HostSets
  <2>6. Started(r)' BY <2>1, <2>2, <2>4, <2>5
  <2> QED BY <1>2, <2>6
<1>6. CASE UNCHANGED vars
  <2>1. UNCHANGED <<request, sources, program, types, todo, set>> BY <1>6 DEF vars
  <2>2. Waiting => Inv' BY <2>1 DEF Inv
  <2>3. ASSUME NEW r \in Requests, Started(r) PROVE Inv'
    <3>1. PICK k \in 0 .. Len(Passes(r)) : Progress(r, k) BY <2>3
    <3>2. Progress(r, k)' BY <2>1, <3>1 DEF Progress
    <3>3. HostSets' BY <2>1, <2>3 DEF HostSets
    <3>4. Started(r)' BY <2>1, <2>3, <3>2, <3>3
    <3> QED BY <1>2, <3>4
  <2> QED BY <1>1, <2>2, <2>3
<1> QED BY <1>3, <1>4, <1>5, <1>6 DEF Next, PassStep

(***************************************************************************)
(* After each pass the program, the sources, the types and the passes left *)
(* are what the request and the number of passes done say: the user's      *)
(* functions renamed so far, then the kernels with what they have got, and *)
(* no element type that is not yet due is filled in with float.            *)
(***************************************************************************)
THEOREM PassesAsPlanned ==
  ASSUME NamesAgree
  PROVE  Spec => []Inv
<1>1. Init => Inv BY InitInv
<1>2. Inv /\ [Next]_vars => Inv' BY StepInv
<1> QED BY <1>1, <1>2, PTL DEF Spec

-----------------------------------------------------------------------------
(***************************************************************************)
(* The finished program.                                                   *)
(***************************************************************************)
FinalUser(r) ==
  IF OneSource(r) THEN UsedAs(r, 1, Final(r, 1))
  ELSE UsedAs(r, 1, Final(r, 1)) \o UsedAs(r, 2, Final(r, 2))

\* What the kernels have got in the end.
Furnished(r, E, A) ==
  /\ E \in Extras(r.skeleton) /\ A \in ArgumentLists
  /\ \A i \in 1 .. Len(SkeletonSource(r.skeleton)) :
       E[i] = Additional(r) \/ (r.skeleton = "scan" /\ E[i] = << >>)
  /\ \A n \in 1 .. Len(r.sources) : A[Final(r, n)] = Names(AdditionalOf(r, n))

Finished(P, r, E, A) ==
  Furnished(r, E, A) /\ P = Rendered(FinalUser(r), r.skeleton, E, A)

LEMMA FinalLists ==
  ASSUME NEW r \in Requests, NEW k \in Nat, k >= Before(r), NEW n \in 1 .. Len(r.sources)
  PROVE  ListsAt(r, k)[Final(r, n)] = Names(AdditionalOf(r, n))
<1> DEFINE X == AdditionalOf(r, 1)
           Y == AdditionalOf(r, 2)
           x == Final(r, 1)
           y == Final(r, 2)
           A == Given(Nothing, r, 1)
           B == Given(A, r, 2)
<1>1. /\ r.skeleton \in Skeletons /\ x \in Placeholders /\ X \in Seq(ParameterType)
      /\ Before(r) \in Nat
  BY RequestFacts, NumbersOfPasses
<1>2. Nothing \in ArgumentLists BY <1>1, JoinPass, EmptySeq
<1>3. Nothing[x] = << >> BY <1>1 DEF Nothing
<1>4. A \in ArgumentLists /\ A[x] = Nothing[x] \o Names(X) BY <1>1, <1>2, MoreType DEF Given
<1>5. Names(X) \in Seq(Word) BY <1>1, NamesType
<1>6. A[x] = Names(X) BY <1>3, <1>4, <1>5, ConcatEmptySeq
<1>7. CASE OneSource(r)
  <2>1. n = 1 BY <1>7, RequestType
  <2>2. ~ (k < Before(r) - 1) BY <1>1
  <2> QED BY <1>6, <1>7, <2>1, <2>2 DEF ListsAt
<1>8. CASE ~ OneSource(r)
  <2>1. x = "USR_REDUCE" /\ y = "USR_ZIP" /\ x # y BY <1>8 DEF Final
  <2>2. y \in Placeholders /\ Y \in Seq(ParameterType) BY <1>8, RequestFacts
  <2>3. Nothing[y] = << >> BY <2>2 DEF Nothing
  <2>4. A[y] = Nothing[y] BY <1>1, <1>2, <2>1, <2>2, MoreType DEF Given
  <2> HIDE DEF A, x, y, X, Y
  <2>5. B[y] = A[y] \o Names(Y) BY <1>4, <2>2, MoreType DEF Given, y, Y
  <2>6. B[x] = A[x] BY <1>1, <1>4, <2>1, <2>2, MoreType DEF Given, y, Y
  <2>7. Names(Y) \in Seq(Word) BY <2>2, NamesType
  <2>8. B[y] = Names(Y) BY <2>3, <2>4, <2>5, <2>7, ConcatEmptySeq
  <2>9. n = 1 \/ n = 2 BY <1>8, RequestType
  <2>10. ListsAt(r, k) = B
    <3>1. k >= 9 BY <1>8 DEF Before
    <3>2. ~ (k < 5) /\ ~ (k < 7) BY <3>1
    <3> QED BY <1>8, <3>2 DEF ListsAt, A
  <2> QED BY <1>6, <2>6, <2>8, <2>9, <2>10 DEF x, y, X, Y
<1> QED BY <1>7, <1>8

LEMMA FinalExtras ==
  ASSUME NEW r \in Requests, NEW k \in Nat, k >= Before(r),
         NEW i \in 1 .. Len(SkeletonSource(r.skeleton))
  PROVE  ExtraAt(r, i, k) = Additional(r) \/ (r.skeleton = "scan" /\ ExtraAt(r, i, k) = << >>)
<1>1. r.skeleton \in Skeletons BY RequestType
<1>2. CASE OneSource(r)
  <2>1. Additional(r) = AdditionalOf(r, 1) BY <1>2, AdditionalParts
  <2>2. ExtendedFits(r.skeleton) BY <1>1, <1>2, ExtendedTable DEF OneSource
  <2> DEFINE n == Len(Extended(r.skeleton))
  <2>3. /\ n \in {1, 2} /\ (r.skeleton # "scan" => n = Len(SkeletonSource(r.skeleton)))
    BY <2>2 DEF ExtendedFits
  <2>4. Before(r) = n + 3 BY <1>2 DEF Before
  <2> HIDE DEF n
  <2>5. i <= n => i < k BY <2>3, <2>4
  <2>6. ExtraAt(r, i, k) = IF i <= n /\ i < k THEN AdditionalOf(r, 1) ELSE << >>
    BY <1>2 DEF ExtraAt, n
  <2>7. i <= n \/ r.skeleton = "scan" BY <2>3
  <2> QED BY <2>1, <2>5, <2>6, <2>7
<1>3. CASE ~ OneSource(r)
  <2>1. Additional(r) = AdditionalOf(r, 1) \o AdditionalOf(r, 2) BY <1>3, AdditionalParts
  <2>2. k >= 9 BY <1>3 DEF Before
  <2>3. ~ (k < 4) /\ ~ (k < 6) BY <2>2
  <2> QED BY <1>3, <2>1, <2>3 DEF ExtraAt
<1> QED BY <1>2, <1>3

LEMMA FinalState ==
  ASSUME NEW r \in Requests, NEW k \in Nat, k >= Before(r)
  PROVE  Finished(ProgramAt(r, k), r, ExtrasAt(r, k), ListsAt(r, k))
<1>1. /\ Joined(r) \in Nat /\ Before(r) \in Nat /\ Joined(r) <= Before(r)
  BY NumbersOfPasses
<1>2. ProgramAt(r, k) = Rendered(UserAt(r, k), r.skeleton, ExtrasAt(r, k), ListsAt(r, k))
  <2>1. ~ (k < Joined(r)) BY <1>1
  <2> QED BY <2>1 DEF ProgramAt
<1>3. Len(r.sources) = IF OneSource(r) THEN 1 ELSE 2 BY RequestType
<1>4. \A n \in 1 .. Len(r.sources) : SourceAt(r, n, k) = UsedAs(r, n, Final(r, n))
  <2> SUFFICES ASSUME NEW n \in 1 .. Len(r.sources)
               PROVE  SourceAt(r, n, k) = UsedAs(r, n, Final(r, n))
    OBVIOUS
  <2>1. k >= Before(r) - Len(r.sources) + n BY <1>1, <1>3
  <2> QED BY <2>1 DEF SourceAt
<1>5. UserAt(r, k) = FinalUser(r) BY <1>3, <1>4 DEF UserAt, FinalUser
<1>6. ExtrasAt(r, k) \in Extras(r.skeleton) /\ ListsAt(r, k) \in ArgumentLists
  BY ExtrasAtType, ListsAtType
<1>7. \A i \in 1 .. Len(SkeletonSource(r.skeleton)) :
        \/ ExtrasAt(r, k)[i] = Additional(r)
        \/ r.skeleton = "scan" /\ ExtrasAt(r, k)[i] = << >>
  BY ExtrasAtType, FinalExtras
<1>8. \A n \in 1 .. Len(r.sources) : ListsAt(r, k)[Final(r, n)] = Names(AdditionalOf(r, n))
  BY FinalLists
<1> QED BY <1>2, <1>5, <1>6, <1>7, <1>8 DEF Finished, Furnished

LEMMA AdaptedFinished ==
  ASSUME Inv, Adapted
  PROVE  /\ request \in Requests /\ Acceptable(request)
         /\ \E E, A : Finished(program, request, E, A)
         /\ TypesAt(request, Len(Passes(request)), types)
<1>1. request \in Requests /\ Acceptable(request) /\ todo = << >> BY DEF Inv, Adapted
<1>2. PICK r \in Requests : r = request BY <1>1
<1>3. PICK k \in 0 .. Len(Passes(r)) : Progress(r, k) BY <1>1, <1>2 DEF Inv, Adapted
<1>4. /\ Passes(r) \in Seq(Members(Passes(r))) /\ Before(r) \in Nat
      /\ Len(Passes(r)) = Before(r) + Len(Adjust(r.skeleton)) /\ Len(Adjust(r.skeleton)) \in Nat
  BY NumbersOfPasses
<1>5. Left(Passes(r), k) = << >> BY <1>1, <1>3 DEF Progress
<1>6. k = Len(Passes(r)) BY <1>4, <1>5, LeftSteps
<1>7. k \in Nat /\ k >= Before(r) BY <1>4, <1>6
<1>8. program = ProgramAt(r, k) /\ TypesAt(r, k, types) BY <1>3 DEF Progress
<1>9. Finished(program, r, ExtrasAt(r, k), ListsAt(r, k)) BY <1>7, <1>8, FinalState
<1> QED BY <1>1, <1>2, <1>6, <1>8, <1>9

-----------------------------------------------------------------------------
(***************************************************************************)
(* The user's functions.                                                   *)
(***************************************************************************)
LEMMA NewNameIs ==
  ASSUME NEW r \in Requests, NEW n \in 1 .. Len(r.sources), NEW x
  PROVE  NewName(r, n, x) = IF x = r.names[n] THEN Final(r, n) ELSE x
<1>1. Len(r.sources) = (IF OneSource(r) THEN 1 ELSE 2) BY RequestType
<1>2. CASE OneSource(r) BY <1>2 DEF NewName, Final, OneSource
<1>3. CASE ~ OneSource(r)
  <2>1. n = 1 \/ n = 2 BY <1>1, <1>3
  <2>2. <<"USR_REDUCE", "USR_ZIP">>[n] = IF n = 1 THEN "USR_REDUCE" ELSE "USR_ZIP" BY <2>1
  <2> QED BY <1>3, <2>2 DEF NewName, Final, OneSource
<1> QED BY <1>2, <1>3

\* Expressions are left as they are.
LEMMA PlainExpressions ==
  ASSUME NEW args \in Seq(Word), ToSet(args) \subseteq {Expression}, NEW to
  PROVE  Plain(args, to) = args
<1>1. DOMAIN args = 1 .. Len(args) /\ args = [k \in 1 .. Len(args) |-> args[k]]
  BY LenProperties
<1>2. \A k \in 1 .. Len(args) : args[k] = Expression BY <1>1 DEF ToSet
<1> QED BY <1>1, <1>2 DEF Plain

LEMMA SourceKept ==
  ASSUME NEW r \in Requests, NEW n \in 1 .. Len(r.sources), PassesExpressions(r)
  PROVE  UserFunctions(r, n) = UsedAs(r, n, Final(r, n))
<1> DEFINE U == r.sources[n]
           from == r.names[n]
           y == Final(r, n)
           V == UsedAs(r, n, y)
           W == UserFunctions(r, n)
<1>1. y \in NewNames /\ y \in Word BY RequestFacts, NewNamesType
<1>2. /\ V \in Seq(FunctionType) /\ Len(V) = Len(U)
      /\ \A i \in 1 .. Len(V) : V[i] = Renamed(U[i], from, y)
  BY <1>1, UsedAsOffers
<1>3. U \in Seq(UserCode) /\ n \in DOMAIN r.sources BY RequestType
<1>4. DOMAIN U = 1 .. Len(U) /\ DOMAIN V = 1 .. Len(V) /\ V = [i \in DOMAIN V |-> V[i]]
  BY <1>2, <1>3, LenProperties
<1>5. ASSUME NEW i \in 1 .. Len(U) PROVE W[i] = V[i]
  <2> DEFINE f == U[i]
             s == {Call(NewName(r, n, c.callee), c.args) : c \in f.calls}
             m == NewName(r, n, f.name)
  <2>1. f \in UserCode /\ f \in ToSet(U) BY <1>3, <1>4, ElementOfSeq DEF ToSet
  <2>2. f \in FunctionType /\ \A c \in f.calls : c \in CallType
    BY <2>1, UserCodeType DEF FunctionType
  <2>3. V[i] = Renamed(f, from, y) BY <1>2
  <2>4. /\ V[i] \in FunctionType
        /\ V[i].name = (IF f.name = from THEN y ELSE f.name)
        /\ V[i].calls = {NewCall(c, from, y) : c \in f.calls}
        /\ V[i].kernel = f.kernel /\ V[i].params = f.params /\ V[i].locals = f.locals
    BY <1>1, <2>2, <2>3, RenamedFields
  <2>5. m = V[i].name BY <2>4, NewNameIs
  <2>6. W[i] = [f EXCEPT !.name = m, !.calls = s] BY <1>4 DEF UserFunctions
  <2>7. ASSUME NEW c \in f.calls
        PROVE  Call(NewName(r, n, c.callee), c.args) = NewCall(c, from, y)
    <3>1. c \in CallType /\ c.args \in Seq(Word) /\ c = Call(c.callee, c.args)
      BY <2>2 DEF CallType, Call
    <3>2. CASE c.callee = from
      <4>1. ToSet(c.args) \subseteq {Expression} BY <1>3, <2>1, <3>2 DEF PassesExpressions
      <4>2. Plain(c.args, y) = c.args BY <3>1, <4>1, PlainExpressions
      <4>3. NewName(r, n, c.callee) = y BY <3>2, NewNameIs
      <4>4. NewCall(c, from, y) = Call(y, Plain(c.args, y)) BY <3>2 DEF NewCall
      <4> QED BY <4>2, <4>3, <4>4
    <3>3. CASE c.callee # from
      <4>1. NewName(r, n, c.callee) = c.callee BY <3>3, NewNameIs
      <4>2. NewCall(c, from, y) = c BY <3>3 DEF NewCall
      <4> QED BY <3>1, <4>1, <4>2
    <3> QED BY <3>2, <3>3
  <2>8. s = V[i].calls BY <2>4, <2>7
  <2> DEFINE v == V[i]
  <2> HIDE DEF f, s, m, v
  <2>9. W[i] = [f EXCEPT !.name = v.name, !.calls = v.calls] BY <2>5, <2>6, <2>8 DEF v
  <2>10. /\ v \in FunctionType /\ v.kernel = f.kernel /\ v.params = f.params
         /\ v.locals = f.locals
    BY <2>4 DEF v
  <2>11. W[i] = v BY <2>2, <2>9, <2>10 DEF FunctionType
  <2> QED BY <2>11 DEF v
<1>6. W = [i \in 1 .. Len(U) |-> W[i]] BY <1>4 DEF UserFunctions
<1> HIDE DEF U, V, W
<1>7. W = V BY <1>2, <1>4, <1>5, <1>6
<1> QED BY <1>7 DEF V, W

LEMMA AllSourcesKept ==
  ASSUME NEW r \in Requests, PassesExpressions(r)
  PROVE  FlattenSeq([n \in DOMAIN r.sources |-> UserFunctions(r, n)]) = FinalUser(r)
<1> DEFINE V == UsedAs(r, 1, Final(r, 1))
           W == UsedAs(r, 2, Final(r, 2))
           F == [n \in DOMAIN r.sources |-> UserFunctions(r, n)]
<1>1. /\ DOMAIN r.sources = 1 .. Len(r.sources)
      /\ Len(r.sources) = IF OneSource(r) THEN 1 ELSE 2
  BY RequestType
<1>2. /\ 1 \in 1 .. Len(r.sources) /\ (~ OneSource(r) => 2 \in 1 .. Len(r.sources))
      /\ \A n \in 1 .. Len(r.sources) : Final(r, n) \in NewNames
  BY RequestFacts, NewNamesType
<1>3. V \in Seq(FunctionType) /\ UserFunctions(r, 1) = V BY <1>2, UsedAsOffers, SourceKept
<1>4. ~ OneSource(r) => W \in Seq(FunctionType) /\ UserFunctions(r, 2) = W
  BY <1>2, UsedAsOffers, SourceKept
<1> HIDE DEF V, W
<1>5. CASE OneSource(r)
  <2>1. F = [n \in 1 .. 1 |-> UserFunctions(r, n)] BY <1>1, <1>5
  <2>2. [n \in 1 .. 1 |-> UserFunctions(r, n)] = <<UserFunctions(r, 1)>> OBVIOUS
  <2>3. FlattenSeq(<<V>>) = V BY <1>3, FlattenTwo
  <2> QED BY <1>3, <1>5, <2>1, <2>2, <2>3 DEF FinalUser, V
<1>6. CASE ~ OneSource(r)
  <2>1. F = [n \in 1 .. 2 |-> UserFunctions(r, n)] BY <1>1, <1>6
  <2>2. [n \in 1 .. 2 |-> UserFunctions(r, n)] = <<UserFunctions(r, 1), UserFunctions(r, 2)>>
    OBVIOUS
  <2>3. FlattenSeq(<<V, W>>) = V \o W BY <1>3, <1>4, <1>6, FlattenTwo
  <2> QED BY <1>3, <1>4, <1>6, <2>1, <2>2, <2>3 DEF FinalUser, V, W
<1> QED BY <1>5, <1>6

LEMMA FinalUserType ==
  ASSUME NEW r \in Requests
  PROVE  UserPart(FinalUser(r)) /\ FinalUser(r) \in Seq(FunctionType)
<1>1. /\ 1 \in 1 .. Len(r.sources) /\ (~ OneSource(r) => 2 \in 1 .. Len(r.sources))
      /\ \A n \in 1 .. Len(r.sources) : Final(r, n) \in NewNames
  BY RequestFacts, NewNamesType
<1>2. \A n \in 1 .. Len(r.sources) : UserPart(UsedAs(r, n, Final(r, n)))
  BY <1>1, UsedAsOffers DEF Offers
<1>3. CASE OneSource(r) BY <1>1, <1>2, <1>3 DEF FinalUser, UserPart
<1>4. CASE ~ OneSource(r)
  <2>1. UserPart(UsedAs(r, 1, Final(r, 1)) \o UsedAs(r, 2, Final(r, 2)))
    BY <1>1, <1>2, <1>4, OffersBoth
  <2> QED BY <1>4, <2>1 DEF FinalUser, UserPart
<1> QED BY <1>3, <1>4

\* The parts of the finished program, one by one.
LEMMA FinishedParts ==
  ASSUME NEW r \in Requests, NEW P, NEW E, NEW A, Finished(P, r, E, A)
  PROVE  LET U == FinalUser(r)
             K == SkeletonSource(r.skeleton)
             G == KernelsWith(r.skeleton, E, A)
         IN  /\ P \in Seq(FunctionType) /\ P = U \o G /\ InParts(P, U, G)
             /\ U \in Seq(FunctionType) /\ G \in Seq(FunctionType) /\ Len(G) = Len(K)
             /\ \A i \in 1 .. Len(K) :
                  /\ OwnKernel(K[i]) /\ K[i].name \in KernelNames
                  /\ E[i] \in Seq(ParameterType) /\ Whole(E[i])
                  /\ G[i] = Grown(K[i], E[i], A) /\ G[i] \in FunctionType
                  /\ G[i].name = K[i].name /\ G[i].kernel
<1>1. r.skeleton \in Skeletons BY RequestType
<1>2. E \in Extras(r.skeleton) /\ A \in ArgumentLists /\ P = Rendered(FinalUser(r), r.skeleton, E, A)
  BY DEF Finished, Furnished
<1>3. FinalUser(r) \in Seq(FunctionType) BY FinalUserType
<1>4. P \in Seq(FunctionType) /\ InParts(P, FinalUser(r), KernelsWith(r.skeleton, E, A))
  BY <1>1, <1>2, <1>3, RenderedParts
<1> QED BY <1>1, <1>2, <1>3, <1>4, KernelsWithType DEF Rendered

LEMMA LeadingHalf ==
  ASSUME NEW S, NEW P, NEW u \in Seq(S), NEW v \in Seq(S), InParts(P, u, v), P \in Seq(S)
  PROVE  SubSeq(P, 1, Len(u)) = u
<1> DEFINE n == Len(u)
           q == SubSeq(P, 1, n)
<1>1. n \in Nat /\ Len(v) \in Nat BY LenProperties
<1>2. \A i \in 1 .. n : P[i] = u[i] /\ u[i] \in S BY ElementOfSeq DEF InParts
<1> HIDE DEF n
<1>3. /\ q \in Seq(S) /\ Len(q) = (IF 1 <= n THEN n - 1 + 1 ELSE 0)
      /\ \A i \in 1 .. n - 1 + 1 : q[i] = P[1 + i - 1]
  <2>1. 1 \in Int /\ n \in Int BY <1>1
  <2>2. \A i \in 1 .. n : P[i] \in S BY <1>2
  <2> QED BY <2>1, <2>2, SubSeqProperties
<1>4. Len(q) = n BY <1>1, <1>3
<1> HIDE DEF q
<1>5. \A i \in 1 .. n : q[i] = u[i]
  <2>1. \A i \in 1 .. n : i \in 1 .. n - 1 + 1 /\ 1 + i - 1 = i BY <1>1
  <2> QED BY <1>2, <1>3, <2>1
<1>6. q = u BY <1>3, <1>4, <1>5, SeqEqual DEF n
<1> QED BY <1>6 DEF q, n

(***************************************************************************)
(* The user's functions are the ones that were given, with other names for *)
(* the ones the skeleton uses, in any program of any size, provided that   *)
(* who calls them does not pass them a plain variable (and that AllPairs   *)
(* finds both): the only name that renaming takes for the function's is a  *)
(* plain variable among its own arguments.                                 *)
(***************************************************************************)
LEMMA FinishedKeepsUserCode ==
  ASSUME Inv, "expressions" \notin Tolerated
  PROVE  UserCodeKept
<1> SUFFICES ASSUME Adapted PROVE UserCodeKept BY DEF UserCodeKept
<1>1. PICK r \in Requests : r = request /\ Acceptable(r) BY AdaptedFinished
<1>2. PICK E, A : Finished(program, r, E, A) BY <1>1, AdaptedFinished
<1>3. PassesExpressions(r) BY <1>1 DEF Acceptable, Meets
<1> DEFINE user == FlattenSeq([n \in DOMAIN r.sources |-> UserFunctions(r, n)])
           G == KernelsWith(r.skeleton, E, A)
<1>4. user = FinalUser(r) BY <1>3, AllSourcesKept
<1>5. /\ program \in Seq(FunctionType) /\ InParts(program, user, G)
      /\ user \in Seq(FunctionType) /\ G \in Seq(FunctionType)
      /\ \A i \in 1 .. Len(G) : G[i].kernel
  BY <1>2, <1>4, FinishedParts
<1> HIDE DEF user, G
<1>6. SubSeq(program, 1, Len(user)) = user BY <1>5, LeadingHalf
<1>7. ASSUME NEW i \in Len(user) + 1 .. Len(program) PROVE program[i].kernel
  <2>1. Len(user) \in Nat /\ Len(G) \in Nat BY <1>5, LenProperties
  <2>2. Len(program) = Len(user) + Len(G) BY <1>5 DEF InParts
  <2> DEFINE k == i - Len(user)
  <2>3. k \in 1 .. Len(G) /\ i = Len(user) + k BY <2>1, <2>2
  <2> HIDE DEF k
  <2>4. program[i] = G[k] BY <1>5, <2>3 DEF InParts
  <2> QED BY <1>5, <2>3, <2>4
<1> QED BY <1>1, <1>6, <1>7 DEF UserCodeKept, user

\* The user's functions stay what they are; renaming is the only pass that goes over
\* them, and nothing but a plain variable in a call of the function misleads it.
THEOREM UserCodeStays ==
  ASSUME NamesAgree, "expressions" \notin Tolerated
  PROVE  Spec => []UserCodeKept
<1>1. Inv => UserCodeKept BY FinishedKeepsUserCode
<1> QED BY <1>1, PassesAsPlanned, PTL

-----------------------------------------------------------------------------
(***************************************************************************)
(* What the host sets.                                                     *)
(***************************************************************************)
\* What the host sets for the skeleton's own parameters.
OwnSettings(m) == [i \in 1 .. m |-> Set(0, "all")]

\* There is something to set for the user with all skeletons but Scan.
ScanAlone(r) == r.skeleton = "scan" => Additional(r) = << >>

LEMMA AdditionalWhole ==
  ASSUME NEW r \in Requests
  PROVE  Additional(r) \in Seq(ParameterType) /\ Whole(Additional(r))
<1>1. CASE OneSource(r) BY <1>1, AdditionalParts, RequestFacts
<1>2. CASE ~ OneSource(r)
  <2>1. Additional(r) = AdditionalOf(r, 1) \o AdditionalOf(r, 2) BY <1>2, AdditionalParts
  <2> QED BY <1>2, <2>1, RequestFacts, WholeConcat
<1> QED BY <1>1, <1>2

LEMMA SetArgumentsAre ==
  ASSUME NEW r \in Requests, ScanAlone(r), NEW name
  PROVE  SetArguments(r, name) =
           OwnSettings(FirstArgument(r.skeleton, name)) \o Settings(Additional(r))
<1> DEFINE X == Additional(r)
           F == FlattenSeq([k \in DOMAIN X |->
                  IF X[k].type = "matrix" THEN <<Set(k, "data"), Set(k, "col_count")>>
                  ELSE <<Set(k, "all")>>])
<1>1. SetArguments(r, name) =
        OwnSettings(FirstArgument(r.skeleton, name)) \o IF r.skeleton = "scan" THEN << >> ELSE F
  BY DEF SetArguments, OwnSettings
<1>2. F = Settings(X) BY DEF Settings, Setting
<1>3. CASE r.skeleton = "scan"
  <2>1. X = << >> BY <1>3 DEF ScanAlone
  <2>2. [k \in DOMAIN X |-> Setting(X, k)] = << >> BY <2>1
  <2>3. Settings(X) = << >> BY <2>2, FlattenNone DEF Settings
  <2> QED BY <1>1, <1>3, <2>3
<1> QED BY <1>1, <1>2, <1>3

\* Additional parameter k of source n has this number among all of them.
LEMMA AdditionalNumber ==
  ASSUME NEW r \in Requests, NEW n \in 1 .. Len(r.sources),
         NEW k \in 1 .. Len(AdditionalOf(r, n))
  PROVE  LET a == Len(AdditionalBefore(r, n)) + k
         IN  a \in 1 .. Len(Additional(r)) /\ Additional(r)[a] = AdditionalOf(r, n)[k]
<1> DEFINE X == AdditionalOf(r, 1)
           Y == AdditionalOf(r, 2)
<1>1. Len(r.sources) = (IF OneSource(r) THEN 1 ELSE 2) BY RequestType
<1>2. AdditionalBefore(r, 1) = << >> /\ Len(<< >>) = 0 BY AdditionalParts
<1>3. k \in Nat OBVIOUS
<1>4. CASE OneSource(r)
  <2>1. n = 1 /\ Additional(r) = X BY <1>1, <1>4, AdditionalParts
  <2>2. Len(AdditionalBefore(r, n)) + k = k BY <1>2, <1>3, <2>1
  <2> QED BY <2>1, <2>2
<1>5. CASE ~ OneSource(r)
  <2>1. /\ X \in Seq(ParameterType) /\ Y \in Seq(ParameterType)
        /\ AdditionalBefore(r, 2) = X /\ Additional(r) = X \o Y
    BY <1>5, RequestFacts, AdditionalParts
  <2> HIDE DEF X, Y
  <2>2. InParts(X \o Y, X, Y) /\ DOMAIN (X \o Y) = 1 .. Len(X \o Y)
    BY <2>1, ConcatInParts, LenProperties
  <2>3. CASE n = 1
    <3>1. Len(AdditionalBefore(r, n)) + k = k BY <1>2, <1>3, <2>3
    <3>2. k \in 1 .. Len(X) BY <2>3 DEF X
    <3>3. k \in DOMAIN (X \o Y) /\ (X \o Y)[k] = X[k] BY <2>2, <3>2 DEF InParts
    <3> QED BY <2>1, <2>2, <2>3, <3>1, <3>3 DEF X
  <2>4. CASE n = 2
    <3>1. k \in 1 .. Len(Y) BY <2>4 DEF Y
    <3>2. Len(X) + k \in DOMAIN (X \o Y) /\ (X \o Y)[Len(X) + k] = Y[k]
      BY <2>2, <3>1 DEF InParts
    <3> QED BY <2>1, <2>2, <2>4, <3>2 DEF Y
  <2>5. n = 1 \/ n = 2 BY <1>1, <1>5
  <2> QED BY <2>3, <2>4, <2>5
<1> QED BY <1>4, <1>5

\* A kernel of the finished program: its own parameters, then the user's, taken apart.
FurnishedKernel(r, K, e, A, g) ==
  /\ KernelFits(r.skeleton, K) /\ K \in FunctionType
  /\ g \in FunctionType /\ g.name = K.name /\ g.kernel
  /\ g.params = K.params \o Rewritten(e)
  /\ g.locals = K.locals \cup Matrices(e)
  /\ g.calls = {Call(c.callee, c.args \o A[c.callee]) : c \in K.calls}
  /\ e \in Seq(ParameterType) /\ Whole(e) /\ A \in ArgumentLists
  /\ ScanAlone(r) => e = Additional(r)

LEMMA FinishedKernel ==
  ASSUME NEW r \in Requests, NEW E, NEW A, Furnished(r, E, A),
         NEW i \in 1 .. Len(SkeletonSource(r.skeleton))
  PROVE  FurnishedKernel(r, SkeletonSource(r.skeleton)[i], E[i], A,
                         Grown(SkeletonSource(r.skeleton)[i], E[i], A))
<1> DEFINE K == SkeletonSource(r.skeleton)[i]
           e == E[i]
<1>1. r.skeleton \in Skeletons BY RequestType
<1>2. KernelFits(r.skeleton, K) BY <1>1, KernelTable DEF KernelsFit
<1>3. OwnKernel(K) /\ K \in FunctionType BY <1>2 DEF KernelFits, OwnKernel
<1>4. A \in ArgumentLists /\ E \in Extras(r.skeleton) BY DEF Furnished
<1>5. e \in Seq(ParameterType) /\ Whole(e) BY <1>4 DEF Extras
<1>6. ScanAlone(r) => e = Additional(r) BY DEF Furnished, ScanAlone
<1> HIDE DEF K, e
<1> DEFINE g == Grown(K, e, A)
<1>7. /\ g \in FunctionType /\ g.name = K.name /\ g.kernel
      /\ g.params = K.params \o Rewritten(e)
      /\ g.locals = K.locals \cup Matrices(e)
      /\ g.calls = {Call(c.callee, c.args \o A[c.callee]) : c \in K.calls}
  BY <1>3, <1>4, <1>5, GrownFields
<1>8. FurnishedKernel(r, K, e, A, g)
  BY <1>2, <1>3, <1>4, <1>5, <1>6, <1>7 DEF FurnishedKernel
<1> QED BY <1>8 DEF K, e, g

\* An argument that a call of the user's function has got.
LEMMA FinishedArgument ==
  ASSUME NEW r \in Requests, NEW E, NEW A, Furnished(r, E, A),
         NEW i \in 1 .. Len(SkeletonSource(r.skeleton)), NEW n \in 1 .. Len(r.sources),
         NEW c \in Grown(SkeletonSource(r.skeleton)[i], E[i], A).calls, c.callee = Final(r, n)
  PROVE  /\ Len(c.args) = Leading(r.skeleton) + Len(AdditionalOf(r, n))
         /\ \E d \in SkeletonSource(r.skeleton)[i].calls :
              /\ Len(d.args) = Leading(r.skeleton)
              /\ \A k \in 1 .. Leading(r.skeleton) : c.args[k] = d.args[k]
         /\ \A k \in 1 .. Len(AdditionalOf(r, n)) :
              c.args[Leading(r.skeleton) + k] = AdditionalOf(r, n)[k].name
<1> DEFINE K == SkeletonSource(r.skeleton)[i]
           X == AdditionalOf(r, n)
           l == Leading(r.skeleton)
           g == Grown(K, E[i], A)
<1>1. FurnishedKernel(r, K, E[i], A, g) BY FinishedKernel
<1>2. PICK d \in K.calls : c = Call(d.callee, d.args \o A[d.callee])
  BY <1>1 DEF FurnishedKernel
<1>3. d.callee = Final(r, n) /\ c.args = d.args \o A[d.callee] BY <1>2 DEF Call
<1>4. A[Final(r, n)] = Names(X) BY DEF Furnished
<1>5. Len(d.args) = l /\ d.args \in Seq(Word)
  BY <1>1 DEF FurnishedKernel, KernelFits, FunctionType, CallType
<1>6. /\ X \in Seq(ParameterType) /\ Names(X) \in Seq(Word) /\ Len(Names(X)) = Len(X)
      /\ \A k \in 1 .. Len(X) : Names(X)[k] = X[k].name
  BY AdditionalType, NamesType
<1> DEFINE a == d.args
           b == Names(X)
<1> HIDE DEF a, b, X, l
<1>7. InParts(a \o b, a, b) /\ DOMAIN (a \o b) = 1 .. Len(a \o b)
  BY <1>5, <1>6, ConcatInParts, LenProperties DEF a, b
<1>8. c.args = a \o b BY <1>3, <1>4 DEF a, b
<1>9. Len(c.args) = l + Len(X) BY <1>5, <1>6, <1>7, <1>8 DEF a, b, InParts
<1>10. \A k \in 1 .. l : c.args[k] = d.args[k] BY <1>5, <1>7, <1>8 DEF a, InParts
<1>11. \A k \in 1 .. Len(X) : c.args[l + k] = X[k].name
  BY <1>5, <1>6, <1>7, <1>8 DEF a, b, InParts
<1> QED BY <1>5, <1>9, <1>10, <1>11 DEF X, l

LEMMA OwnSettingsType ==
  ASSUME NEW m \in Nat
  PROVE  /\ OwnSettings(m) \in Seq(SettingType) /\ Len(OwnSettings(m)) = m
         /\ \A i \in 1 .. m : OwnSettings(m)[i].part = "all"
<1> DEFINE S == OwnSettings(m)
<1>1. \A i \in 1 .. m : S[i] = [argument |-> 0, part |-> "all"] BY DEF OwnSettings, Set
<1>2. S = [i \in 1 .. m |-> S[i]] BY DEF OwnSettings
<1> HIDE DEF S
<1>3. \A i \in 1 .. m : S[i] \in SettingType /\ S[i].part = "all" BY <1>1 DEF SettingType
<1>4. S \in [1 .. m -> SettingType] BY <1>2, <1>3
<1>5. S \in Seq(SettingType) BY <1>4
<1>6. Len(S) = m BY <1>4, <1>5, LenProperties
<1> QED BY <1>3, <1>5, <1>6 DEF S

\* Parameters q of a kernel and what v the host sets for them: its own, p, and X.
Dressed(p, X, q, v) ==
  /\ p \in Seq(ParameterType) /\ \A i \in 1 .. Len(p) : p[i].part = "all"
  /\ X \in Seq(ParameterType) /\ Whole(X)
  /\ q = p \o Rewritten(X) /\ v = OwnSettings(Len(p)) \o Settings(X)

LEMMA DressedParts ==
  ASSUME NEW p, NEW X, NEW q, NEW v, Dressed(p, X, q, v)
  PROVE  /\ DOMAIN v = DOMAIN q /\ Len(p) \in Nat
         /\ \A i \in 1 .. Len(p) : i \in DOMAIN q /\ q[i] = p[i] /\ v[i].part = "all"
         /\ \A i \in 1 .. Len(Rewritten(X)) :
              /\ Len(p) + i \in DOMAIN q
              /\ q[Len(p) + i] = Rewritten(X)[i] /\ v[Len(p) + i] = Settings(X)[i]
         /\ \A i \in DOMAIN q :
              i \in 1 .. Len(p) \/ \E j \in 1 .. Len(Rewritten(X)) : i = Len(p) + j
         /\ Matched(X, 1 .. Len(X), Rewritten(X), Settings(X))
<1> DEFINE R == Rewritten(X)
           S == Settings(X)
           o == OwnSettings(Len(p))
<1>1. /\ p \in Seq(ParameterType) /\ X \in Seq(ParameterType) /\ Whole(X)
      /\ q = p \o R /\ v = o \o S
  BY DEF Dressed
<1>2. Len(p) \in Nat BY <1>1, LenProperties
<1>3. R \in Seq(ParameterType) BY <1>1, PiecesType
<1>4. S \in Seq(SettingType) /\ Matched(X, 1 .. Len(X), R, S) BY <1>1, MatchedAll
<1>5. o \in Seq(SettingType) /\ Len(o) = Len(p) /\ \A i \in 1 .. Len(p) : o[i].part = "all"
  BY <1>2, OwnSettingsType
<1>6. Len(R) = Len(S) BY <1>4 DEF Matched
<1> HIDE DEF R, S, o
<1>7. InParts(q, p, R) BY <1>1, <1>3, ConcatInParts
<1>8. InParts(v, o, S) BY <1>1, <1>4, <1>5, ConcatInParts
<1>9. DOMAIN v = DOMAIN q BY <1>5, <1>6, <1>7, <1>8 DEF InParts
<1>10. \A i \in 1 .. Len(p) : i \in DOMAIN q /\ q[i] = p[i] /\ v[i].part = "all"
  BY <1>5, <1>7, <1>8 DEF InParts
<1>11. \A i \in 1 .. Len(R) :
         Len(p) + i \in DOMAIN q /\ q[Len(p) + i] = R[i] /\ v[Len(p) + i] = S[i]
  BY <1>5, <1>6, <1>7, <1>8 DEF InParts
<1>12. \A i \in DOMAIN q : i \in 1 .. Len(p) \/ \E j \in 1 .. Len(R) : i = Len(p) + j
  BY <1>7 DEF InParts
<1> QED BY <1>2, <1>4, <1>9, <1>10, <1>11, <1>12 DEF R, S

LEMMA PartsTogether ==
  ASSUME NEW p, NEW X, NEW q, NEW v, Dressed(p, X, q, v)
  PROVE  Parts(q) = Parts(v)
<1> DEFINE R == Rewritten(X)
           S == Settings(X)
<1>1. /\ DOMAIN v = DOMAIN q
      /\ \A i \in 1 .. Len(p) : i \in DOMAIN q /\ q[i] = p[i] /\ v[i].part = "all"
      /\ \A i \in 1 .. Len(R) :
           Len(p) + i \in DOMAIN q /\ q[Len(p) + i] = R[i] /\ v[Len(p) + i] = S[i]
      /\ \A i \in DOMAIN q : i \in 1 .. Len(p) \/ \E j \in 1 .. Len(R) : i = Len(p) + j
      /\ Matched(X, 1 .. Len(X), R, S)
  BY DressedParts
<1> HIDE DEF R, S
<1>2. \A i \in 1 .. Len(p) : p[i].part = "all" BY DEF Dressed
<1>3. \A i \in 1 .. Len(R) : S[i].part = R[i].part
  <2> SUFFICES ASSUME NEW i \in 1 .. Len(R) PROVE S[i].part = R[i].part OBVIOUS
  <2>1. PICK k \in 1 .. Len(X) : S[i] = Set(k, R[i].part) BY <1>1 DEF Matched, Goes
  <2> QED BY <2>1 DEF Set
<1>4. ASSUME NEW i \in DOMAIN q PROVE q[i].part = v[i].part
  <2>1. CASE i \in 1 .. Len(p) BY <1>1, <1>2, <2>1
  <2>2. CASE \E j \in 1 .. Len(R) : i = Len(p) + j BY <1>1, <1>3, <2>2
  <2> QED BY <1>1, <2>1, <2>2
<1> QED BY <1>1, <1>4 DEF Parts

\* What is set where a name is, and what should be.
Taken(q, v, x) == {v[i] : i \in {j \in DOMAIN q : q[j].name = x}}

Numbered(a, p) == {Set(a, t) : t \in PartsOf(p)}

LEMMA OriginsTogether ==
  ASSUME NEW p, NEW X, NEW q, NEW v, Dressed(p, X, q, v), IsInjective(Names(X)),
         NEW a \in 1 .. Len(X), \A i \in 1 .. Len(p) : p[i].name # X[a].name
  PROVE  Taken(q, v, X[a].name) = Numbered(a, X[a])
<1> DEFINE R == Rewritten(X)
           S == Settings(X)
           m == Len(p)
           x == X[a].name
<1>1. /\ \A i \in 1 .. m : q[i] = p[i]
      /\ \A i \in 1 .. Len(R) : m + i \in DOMAIN q /\ q[m + i] = R[i] /\ v[m + i] = S[i]
      /\ \A i \in DOMAIN q : i \in 1 .. m \/ \E j \in 1 .. Len(R) : i = m + j
      /\ Matched(X, 1 .. Len(X), R, S)
  BY DressedParts
<1>2. \A k \in 1 .. Len(X) : X[k].name = x => k = a
  <2>1. X \in Seq(ParameterType) BY DEF Dressed
  <2>2. DOMAIN Names(X) = 1 .. Len(X) /\ \A k \in 1 .. Len(X) : Names(X)[k] = X[k].name
    BY <2>1, NamesType
  <2>3. \A k, l \in 1 .. Len(X) : Names(X)[k] = Names(X)[l] => k = l
    BY <2>2 DEF IsInjective
  <2> QED BY <2>2, <2>3
<1>3. \A i \in 1 .. m : p[i].name # x OBVIOUS
<1> HIDE DEF R, S, m, x
<1>4. ASSUME NEW i \in DOMAIN q, q[i].name = x
      PROVE  v[i] \in {Set(a, t) : t \in PartsOf(X[a])}
  <2>1. PICK j \in 1 .. Len(R) : i = m + j BY <1>1, <1>3, <1>4
  <2>2. q[i] = R[j] /\ v[i] = S[j] BY <1>1, <2>1
  <2>3. PICK k \in 1 .. Len(X) : Goes(X, k, R[j], S[j]) BY <1>1 DEF Matched
  <2>4. k = a BY <1>2, <1>4, <2>2, <2>3 DEF Goes
  <2> QED BY <2>2, <2>3, <2>4 DEF Goes
<1>5. ASSUME NEW t \in PartsOf(X[a])
      PROVE  \E i \in DOMAIN q : q[i].name = x /\ v[i] = Set(a, t)
  <2>1. PICK j \in 1 .. Len(R) : Goes(X, a, R[j], S[j]) /\ R[j].part = t BY <1>1 DEF Matched
  <2>2. m + j \in DOMAIN q /\ q[m + j] = R[j] /\ v[m + j] = S[j] BY <1>1
  <2>3. R[j].name = x /\ S[j] = Set(a, t) BY <2>1 DEF Goes, x
  <2> QED BY <2>2, <2>3
<1> QED BY <1>4, <1>5 DEF x, Taken, Numbered

\* What ArgumentsArrive says of a kernel.
FromPositions(K, v, x) == Taken(K.params, v, x)

Reached(r, K, v) ==
  /\ Parts(K.params) = Parts(v)
  /\ \A n \in 1 .. Len(r.sources) : \A c \in K.calls : c.callee = Final(r, n) =>
       \A k \in 1 .. Len(AdditionalOf(r, n)) :
         FromPositions(K, v, c.args[Leading(r.skeleton) + k])
           = Numbered(Len(AdditionalBefore(r, n)) + k, AdditionalOf(r, n)[k])

LEMMA KernelArguments ==
  ASSUME NEW r \in Requests, Fresh(r), ScanAlone(r),
         NEW E, NEW A, Furnished(r, E, A),
         NEW i \in 1 .. Len(SkeletonSource(r.skeleton)),
         NEW v, v = SetArguments(r, SkeletonSource(r.skeleton)[i].name)
  PROVE  Reached(r, Grown(SkeletonSource(r.skeleton)[i], E[i], A), v)
<1> DEFINE o == SkeletonSource(r.skeleton)[i]
           K == Grown(o, E[i], A)
           X == Additional(r)
           l == Leading(r.skeleton)
<1>0. FurnishedKernel(r, o, E[i], A, K) BY FinishedKernel
<1>1. /\ KernelFits(r.skeleton, o) /\ o \in FunctionType
      /\ K.params = o.params \o Rewritten(X)
      /\ X \in Seq(ParameterType) /\ Whole(X)
  BY <1>0 DEF FurnishedKernel
<1>2. /\ o.params \in Seq(ParameterType) /\ FirstArgument(r.skeleton, o.name) = Len(o.params)
      /\ \A j \in 1 .. Len(o.params) : o.params[j].part = "all"
  BY <1>1 DEF KernelFits, OwnKernel, FunctionType
<1>3. v = OwnSettings(Len(o.params)) \o Settings(X) BY <1>2, SetArgumentsAre
<1>4. Dressed(o.params, X, K.params, v) BY <1>1, <1>2, <1>3 DEF Dressed
<1>5. Parts(K.params) = Parts(v) BY <1>4, PartsTogether
<1>6. IsInjective(Names(X)) BY DEF Fresh
<1>7. ASSUME NEW a \in 1 .. Len(X), NEW j \in 1 .. Len(o.params)
      PROVE  o.params[j].name # X[a].name
  <2>1. X[a].name \in ToSet(Names(X)) BY <1>1, NamesType DEF ToSet
  <2>2. o.params[j].name \in ToSet(Names(o.params)) BY <1>2, NamesType DEF ToSet
  <2>3. ToSet(Names(X)) \cap ToSet(Names(o.params)) = {}
    <3>1. SkeletonSource(r.skeleton) \in Seq(FunctionType)
      BY RequestType, KernelTable DEF KernelsFit
    <3>2. o \in ToSet(SkeletonSource(r.skeleton)) BY <3>1, LenProperties DEF ToSet
    <3> QED BY <3>2 DEF Fresh
  <2> QED BY <2>1, <2>2, <2>3
<1>8. ASSUME NEW n \in 1 .. Len(r.sources), NEW c \in K.calls, c.callee = Final(r, n),
             NEW k \in 1 .. Len(AdditionalOf(r, n))
      PROVE  FromPositions(K, v, c.args[l + k])
               = Numbered(Len(AdditionalBefore(r, n)) + k, AdditionalOf(r, n)[k])
  <2> DEFINE a == Len(AdditionalBefore(r, n)) + k
  <2>1. a \in 1 .. Len(X) /\ X[a] = AdditionalOf(r, n)[k] BY AdditionalNumber
  <2>2. c.args[l + k] = X[a].name BY <1>8, <2>1, FinishedArgument
  <2>3. \A j \in 1 .. Len(o.params) : o.params[j].name # X[a].name BY <1>7, <2>1
  <2> HIDE DEF a, K, X, o, l
  <2>4. FromPositions(K, v, X[a].name) = Numbered(a, X[a])
    <3> DEFINE p == o.params
    <3>1. Dressed(p, X, K.params, v) BY <1>4
    <3>2. \A j \in 1 .. Len(p) : p[j].name # X[a].name BY <2>3
    <3> HIDE DEF p
    <3> DEFINE q == K.params
    <3>3. Dressed(p, X, q, v) BY <3>1
    <3> HIDE DEF q
    <3>4. Taken(q, v, X[a].name) = Numbered(a, X[a]) BY <1>6, <2>1, <3>2, <3>3, OriginsTogether
    <3> QED BY <3>4 DEF FromPositions, q
  <2> QED BY <2>1, <2>2, <2>4 DEF a
<1> QED BY <1>5, <1>8 DEF Reached, K, l

(***************************************************************************)
(* What the host passes reaches the user's function.                       *)
(***************************************************************************)
LEMMA HostReachesUser ==
  ASSUME Inv, "fresh" \notin Tolerated, "scanAlone" \notin Tolerated
  PROVE  ArgumentsArrive
<1>1. CASE set = << >>
  <2>1. DOMAIN set = {} BY <1>1
  <2> QED BY <2>1 DEF ArgumentsArrive
<1>2. CASE set # << >>
  <2>1. /\ request \in Requests /\ Acceptable(request) /\ todo = << >>
        /\ set = [k \in KernelsOf(program) |-> SetArguments(request, k)]
    BY <1>2 DEF Inv, HostSets
  <2>2. Adapted BY <2>1, RequestType DEF Adapted
  <2>3. PICK r \in Requests : r = request BY <2>1
  <2>4. PICK E, A : Finished(program, r, E, A) BY <2>2, <2>3, AdaptedFinished
  <2>5. Fresh(r) /\ ScanAlone(r) BY <2>1, <2>3 DEF Acceptable, Meets, ScanAlone
  <2>6. DOMAIN r.sources = 1 .. Len(r.sources) BY RequestType
  <2> DEFINE s == r.skeleton
             Ks == SkeletonSource(s)
  <2>7. ASSUME NEW K \in ToSet(program), K.kernel
        PROVE  \E i \in 1 .. Len(Ks) : K = Grown(Ks[i], E[i], A) /\ K.name = Ks[i].name
    <3> DEFINE U == FinalUser(r)
               G == KernelsWith(s, E, A)
    <3>1. /\ InParts(program, U, G) /\ Len(G) = Len(Ks)
          /\ \A i \in 1 .. Len(Ks) : G[i] = Grown(Ks[i], E[i], A) /\ G[i].name = Ks[i].name
      BY <2>4, FinishedParts
    <3>2. \A i \in 1 .. Len(U) : ~ U[i].kernel BY FinalUserType DEF UserPart
    <3> HIDE DEF U, G, Ks
    <3>3. PICK i \in DOMAIN program : program[i] = K BY DEF ToSet
    <3>4. ~ (i \in 1 .. Len(U)) BY <2>7, <3>1, <3>2, <3>3 DEF InParts
    <3>5. PICK k \in 1 .. Len(G) : i = Len(U) + k BY <3>1, <3>4 DEF InParts
    <3>6. K = G[k] /\ k \in 1 .. Len(Ks) BY <3>1, <3>3, <3>5 DEF InParts
    <3> QED BY <3>1, <3>6
  <2>8. ASSUME NEW K \in ToSet(program), K.kernel, K.name \in DOMAIN set
        PROVE  Reached(r, K, set[K.name])
    <3>1. PICK i \in 1 .. Len(Ks) : K = Grown(Ks[i], E[i], A) /\ K.name = Ks[i].name
      BY <2>7, <2>8
    <3>2. set[K.name] = SetArguments(r, K.name) BY <2>1, <2>3, <2>8
    <3>3. PICK w : w = set[K.name] OBVIOUS
    <3>4. w = SetArguments(r, Ks[i].name) BY <3>1, <3>2, <3>3
    <3>5. Reached(r, K, w) BY <2>4, <2>5, <3>1, <3>4, KernelArguments DEF Finished
    <3> QED BY <3>3, <3>5
  <2>9. ASSUME NEW K \in ToSet(program), K.kernel, K.name \in DOMAIN set
        PROVE  Parts(K.params) = Parts(set[K.name])
    BY <2>8, <2>9 DEF Reached
  <2>10. ASSUME NEW K \in ToSet(program), K.kernel, K.name \in DOMAIN set,
                NEW n \in DOMAIN r.sources, NEW c \in K.calls,
                c.callee = NewName(r, n, r.names[n]), NEW k \in DOMAIN AdditionalOf(r, n)
         PROVE  Origins(K, c.args[Leading(s) + k])
                  = Numbered(Len(AdditionalBefore(r, n)) + k, AdditionalOf(r, n)[k])
    <3>1. NewName(r, n, r.names[n]) = Final(r, n) BY <2>6, NewNameIs
    <3>2. k \in 1 .. Len(AdditionalOf(r, n)) BY <2>6, AdditionalType, LenProperties
    <3>3. Reached(r, K, set[K.name]) BY <2>8, <2>10
    <3> DEFINE x == c.args[Leading(s) + k]
    <3>4. FromPositions(K, set[K.name], x)
            = Numbered(Len(AdditionalBefore(r, n)) + k, AdditionalOf(r, n)[k])
      BY <2>6, <2>10, <3>1, <3>2, <3>3 DEF Reached
    <3> HIDE DEF x
    <3>5. Origins(K, x) = FromPositions(K, set[K.name], x) BY DEF Origins, FromPositions, Taken
    <3> QED BY <3>4, <3>5 DEF x
  <2>11. \A a, p :
           Numbered(a, p) = {Set(a, t) : t \in IF p.type = "matrix" THEN {"data", "col_count"}
                                               ELSE {"all"}}
    BY DEF Numbered, PartsOf
  <2> QED BY <2>3, <2>9, <2>10, <2>11 DEF ArgumentsArrive
<1> QED BY <1>1, <1>2

(***************************************************************************)
(* The host's arguments arrive (ArgumentsArrive, checked by the run        *)
(* adaptation): whatever the skeleton, the number of the user's additional *)
(* arguments and of passes over the source, each argument set by the host  *)
(* is at the position of the kernel's parameter that is handed on to the   *)
(* user's parameter it was given for.                                      *)
(***************************************************************************)
THEOREM ArgumentsInPlace ==
  ASSUME NamesAgree, "fresh" \notin Tolerated, "scanAlone" \notin Tolerated
  PROVE  Spec => []ArgumentsArrive
<1>1. Inv => ArgumentsArrive BY HostReachesUser
<1> QED BY <1>1, PassesAsPlanned, PTL
=============================================================================
