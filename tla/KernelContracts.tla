-------------------------- MODULE KernelContracts --------------------------
(***************************************************************************)
(* The kernels, for every call, device and number of resident groups:      *)
(* what a kernel has to satisfy (its contract) for the groups and warps    *)
(* that execute it to be safe, that they are then, and that each of the    *)
(* kernels satisfies it, so that the calls are safe, whatever their sizes. *)
(***************************************************************************)
EXTENDS Kernels, RecursionProofs, SequenceTheorems

-----------------------------------------------------------------------------
(***************************************************************************)
(* What is executed, as functions of the call and the launch.              *)
(***************************************************************************)
LaunchOf(c) == {Launches(c)[k] : k \in DOMAIN Launches(c)}

GroupOf(l) == 0 .. l.groups - 1
ItemOf(l)  == 0 .. l.items - 1
WarpOf(c, l) == 0 .. (l.items - 1) \div c.warp
InWarp(c, l, w) == {i \in ItemOf(l) : i \div c.warp = w}

LastPhase(c, l, g, w) == Max({Phases(l, g, i) : i \in InWarp(c, l, w)})

CodesOf(c, l, g, w, p) ==
  [i \in {i \in InWarp(c, l, w) : p < Phases(l, g, i)} |-> Code(l, g, i, p)]

Reads(code)   == UNION {Range(code[x]) : x \in DOMAIN code}
Touched(code) == DOMAIN code \cup Reads(code)

Fetching(codes) ==
  [codes  |-> codes,
   writes |-> UNION {DOMAIN codes[i] : i \in DOMAIN codes},
   reads  |-> UNION {UNION {Range(codes[i][x]) : x \in DOMAIN codes[i]} : i \in DOMAIN codes}]

FetchOf(c, l, g, w, p) == Fetching(CodesOf(c, l, g, w, p))

(***************************************************************************)
(* The Contract of a kernel.                                               *)
(***************************************************************************)
\* The items of a group have the same number of phases.
Even(l) ==
  \A g \in GroupOf(l) : \E n \in Nat : \A i \in ItemOf(l) : Phases(l, g, i) = n

\* Everything that is stored has its place.
Fits(c, l) ==
  \A g \in GroupOf(l), i \in ItemOf(l) : \A p \in Nat : p < Phases(l, g, i) =>
    \A x \in DOMAIN Code(l, g, i, p) :
      IF x[1] = Shared THEN x[2] \in 0 .. l.local - 1
      ELSE x[1] \in DOMAIN Buffers(c) /\ x[2] \in DOMAIN Buffers(c)[x[1]]

\* No barrier separates the phases p and q.
Together(l, p, q) ==
  \A b \in Nat : Barrier(l, b) => ~ (p < b /\ b <= q) /\ ~ (q < b /\ b <= p)

\* Nobody touches what another one stores, in the same group between two
\* barriers, and in different groups at all.
Apart(c, l) ==
  \A g, h \in GroupOf(l), i, j \in ItemOf(l) : \A p, q \in Nat :
    /\ p < Phases(l, g, i) /\ q < Phases(l, h, j)
    /\ g = h => i \div c.warp # j \div c.warp /\ Together(l, p, q)
    => \A x \in DOMAIN Code(l, g, i, p) :
         g = h \/ x[1] # Shared => x \notin Touched(Code(l, h, j, q))

\* Where two items of a warp store the same cell, they store the same.
Agree(c, l) ==
  \A g \in GroupOf(l), i, j \in ItemOf(l) : \A p \in Nat :
    p < Phases(l, g, i) /\ p < Phases(l, g, j) /\ i \div c.warp = j \div c.warp =>
      \A x \in DOMAIN Code(l, g, i, p) \cap DOMAIN Code(l, g, j, p) :
        Code(l, g, i, p)[x] = Code(l, g, j, p)[x]

Shape(c, l) ==
  /\ c.warp \in Positive
  /\ l.groups \in Nat /\ l.items \in Positive /\ l.local \in Nat

Scheduled(c) ==
  /\ Launches(c) \in Seq(LaunchOf(c))
  /\ \A l \in LaunchOf(c) : Shape(c, l) /\ Even(l)

-----------------------------------------------------------------------------
(***************************************************************************)
(* The state of a group.                                                   *)
(***************************************************************************)
GroupFields == {"local", "phase", "end", "now", "held"}

Done(G, w) == G.phase[w] = G.end[w]

Waits(c, l, G, w) ==
  (\E x \in WarpOf(c, l) : G.phase[x] < G.phase[w]) /\ Barrier(l, G.phase[w])

Runs(c, l, G, w) == ~ Done(G, w) /\ ~ Waits(c, l, G, w)

\* Who is past a barrier has met everybody there.
Met(c, l, G) ==
  \A w, x \in WarpOf(c, l) : \A b \in Nat :
    b < G.phase[w] /\ Barrier(l, b) => b <= G.phase[x]

\* A warp holds what it is about to store.
Holds(c, l, G) ==
  \A w \in WarpOf(c, l) : G.held[w] # Nothing =>
    /\ Runs(c, l, G, w)
    /\ DOMAIN G.held[w] = G.now[w].writes /\ G.now[w].writes # {}

GroupType(c, l, g, G) ==
  /\ DOMAIN G = GroupFields
  /\ DOMAIN G.local = 0 .. l.local - 1
  /\ G.phase \in [WarpOf(c, l) -> Nat]
  /\ G.end = [w \in WarpOf(c, l) |-> LastPhase(c, l, g, w)]
  /\ G.now = [w \in WarpOf(c, l) |-> FetchOf(c, l, g, w, G.phase[w])]
  /\ DOMAIN G.held = WarpOf(c, l)
  /\ \A w \in WarpOf(c, l) : G.phase[w] <= G.end[w]

Sane(c, l, g, G) == GroupType(c, l, g, G) /\ Holds(c, l, G) /\ Met(c, l, G)

(***************************************************************************)
(* The inductive invariant.                                                *)
(***************************************************************************)
CallOK ==
  IF call = None THEN todo = << >>
  ELSE /\ call \in Requests /\ Acceptable(call)
       /\ todo \in Seq(LaunchOf(call))
       /\ DOMAIN mem = DOMAIN Buffers(call)
       /\ \A b \in DOMAIN mem : DOMAIN mem[b] = DOMAIN Buffers(call)[b]

GroupsOK ==
  /\ DOMAIN running \cup left \subseteq Groups(todo)
  /\ DOMAIN running \cap left = {}
  /\ \A g \in DOMAIN running : Sane(call, Launch, g, running[g])

KInv == CallOK /\ GroupsOK

-----------------------------------------------------------------------------
(***************************************************************************)
(* Arithmetic.                                                             *)
(***************************************************************************)
LEMMA Division ==
  ASSUME NEW a \in Nat, NEW b \in Positive
  PROVE  /\ a \div b \in Nat /\ a % b \in 0 .. b - 1
         /\ a = b * (a \div b) + (a % b)
BY DEF Positive

LEMMA DivisionUnique ==
  ASSUME NEW b \in Positive, NEW q \in Int, NEW r \in 0 .. b - 1,
         NEW p \in Int, NEW s \in 0 .. b - 1, b * q + r = b * p + s
  PROVE  q = p /\ r = s
<1> USE DEF Positive
<1>1. q <= p
  <2> SUFFICES ASSUME q >= p + 1 PROVE FALSE OBVIOUS
  <2>1. b * q >= b * (p + 1) OBVIOUS
  <2>2. b * (p + 1) = b * p + b OBVIOUS
  <2> QED BY <2>1, <2>2
<1>2. p <= q
  <2> SUFFICES ASSUME p >= q + 1 PROVE FALSE OBVIOUS
  <2>1. b * p >= b * (q + 1) OBVIOUS
  <2>2. b * (q + 1) = b * q + b OBVIOUS
  <2> QED BY <2>1, <2>2
<1>3. q = p BY <1>1, <1>2
<1> QED BY <1>3

LEMMA Monotone ==
  ASSUME NEW a \in Int, NEW b \in Int, NEW k \in Nat, a <= b
  PROVE  a * k <= b * k /\ k * a <= k * b
OBVIOUS

LEMMA Cancel ==
  ASSUME NEW a \in Int, NEW b \in Int, NEW k \in Positive, a * k = b * k
  PROVE  a = b
BY DEF Positive

LEMMA Distributes ==
  ASSUME NEW a \in Int, NEW b \in Int, NEW k \in Int
  PROVE  /\ k * (a + b) = k * a + k * b
         /\ (a + b) * k = a * k + b * k
         /\ k * (a - b) = k * a - k * b
         /\ (a - b) * k = a * k - b * k
OBVIOUS

LEMMA Quotient ==
  ASSUME NEW k \in Positive, NEW q \in Nat, NEW r \in 0 .. k - 1
  PROVE  /\ k * q + r \in Nat
         /\ (k * q + r) \div k = q /\ (k * q + r) % k = r
<1> DEFINE a == k * q + r
<1>1. a \in Nat BY DEF Positive
<1>2. /\ a \div k \in Nat /\ a % k \in 0 .. k - 1
      /\ a = k * (a \div k) + (a % k)
  BY <1>1, Division
<1>3. k * q + r = k * (a \div k) + (a % k) BY <1>2
<1> HIDE DEF a
<1>4. q = a \div k /\ r = a % k BY <1>2, <1>3, DivisionUnique
<1> QED BY <1>1, <1>4 DEF a

LEMMA Quotients ==
  ASSUME NEW a \in Nat, NEW b \in Nat, a <= b, NEW k \in Positive
  PROVE  a \div k <= b \div k
<1> DEFINE q == b \div k
           r == a \div k
<1>1. q \in Nat /\ b % k \in 0 .. k - 1 /\ b = k * q + (b % k) BY Division
<1>2. r \in Nat /\ a % k \in 0 .. k - 1 /\ a = k * r + (a % k) BY Division
<1> HIDE DEF q, r
<1> SUFFICES ASSUME r >= q + 1 PROVE FALSE BY <1>1, <1>2 DEF q, r
<1>3. k * r >= k * (q + 1) BY <1>1, <1>2 DEF Positive
<1>4. k * (q + 1) = k * q + k BY <1>1 DEF Positive
<1> QED BY <1>1, <1>2, <1>3, <1>4 DEF Positive

LEMMA Times ==
  ASSUME NEW a \in Nat, NEW b \in Nat
  PROVE  a * b \in Nat
OBVIOUS

-----------------------------------------------------------------------------
(***************************************************************************)
(* Warps.                                                                  *)
(***************************************************************************)
LEMMA WarpsOfItems ==
  ASSUME NEW c, NEW l, Shape(c, l)
  PROVE  /\ \A i \in ItemOf(l) : i \div c.warp \in WarpOf(c, l)
         /\ \A w \in WarpOf(c, l) : w \in Nat /\ InWarp(c, l, w) # {}
<1> USE DEF Shape
<1>1. l.items - 1 \in Nat BY DEF Positive
<1> DEFINE a == l.items - 1
           q == a \div c.warp
<1>2. q \in Nat /\ a % c.warp \in 0 .. c.warp - 1 /\ a = c.warp * q + (a % c.warp)
  BY <1>1, Division
<1>3. ASSUME NEW i \in ItemOf(l) PROVE i \div c.warp \in WarpOf(c, l)
  <2>1. i \in Nat /\ i <= a BY DEF ItemOf, Positive
  <2>2. i \div c.warp \in Nat BY <2>1, Division
  <2>3. i \div c.warp <= q BY <2>1, <1>1, Quotients
  <2> QED BY <2>2, <2>3, <1>2 DEF WarpOf
<1>4. ASSUME NEW w \in WarpOf(c, l) PROVE w \in Nat /\ InWarp(c, l, w) # {}
  <2>1. w \in Nat /\ w <= q BY <1>2 DEF WarpOf
  <2> DEFINE i == c.warp * w + 0
  <2>2. 0 \in 0 .. c.warp - 1 BY DEF Positive
  <2>3. i \in Nat /\ i \div c.warp = w BY <2>1, <2>2, Quotient
  <2>4. i <= a
    <3> HIDE DEF a, q
    <3>1. c.warp * w <= c.warp * q BY <2>1, <1>2, Monotone DEF Positive
    <3>2. c.warp * w \in Nat /\ c.warp * q \in Nat BY <2>1, <1>2, Times DEF Positive
    <3> QED BY <3>1, <3>2, <1>1, <1>2 DEF a
  <2>5. i \in ItemOf(l) BY <2>3, <2>4 DEF ItemOf, Positive
  <2>6. i \in InWarp(c, l, w) BY <2>3, <2>5 DEF InWarp
  <2> QED BY <2>1, <2>6
<1> QED BY <1>3, <1>4

\* All warps of a group have the same last phase.
LEMMA LastPhases ==
  ASSUME NEW c, NEW l, Shape(c, l), Even(l), NEW g \in GroupOf(l)
  PROVE  \E n \in Nat : /\ \A i \in ItemOf(l) : Phases(l, g, i) = n
                        /\ \A w \in WarpOf(c, l) : LastPhase(c, l, g, w) = n
<1>1. PICK n \in Nat : \A i \in ItemOf(l) : Phases(l, g, i) = n BY DEF Even
<1>2. ASSUME NEW w \in WarpOf(c, l) PROVE LastPhase(c, l, g, w) = n
  <2>1. InWarp(c, l, w) # {} /\ InWarp(c, l, w) \subseteq ItemOf(l)
    BY WarpsOfItems DEF InWarp
  <2>2. {Phases(l, g, i) : i \in InWarp(c, l, w)} = {n} BY <1>1, <2>1
  <2>3. Max({n}) = n BY DEF Max
  <2> QED BY <2>2, <2>3 DEF LastPhase
<1> QED BY <1>1, <1>2

LEMMA Fetched ==
  ASSUME NEW c, NEW l, NEW g, NEW w, NEW p
  PROVE  LET f == FetchOf(c, l, g, w, p)
         IN  /\ f.writes = UNION {DOMAIN f.codes[i] : i \in DOMAIN f.codes}
             /\ \A x : x \in f.writes <=>
                  \E i \in InWarp(c, l, w) :
                    p < Phases(l, g, i) /\ x \in DOMAIN Code(l, g, i, p)
             /\ \A x : x \in f.reads \cup f.writes <=>
                  \E i \in InWarp(c, l, w) :
                    p < Phases(l, g, i) /\ x \in Touched(Code(l, g, i, p))
             /\ DOMAIN f.codes = {i \in InWarp(c, l, w) : p < Phases(l, g, i)}
             /\ \A i \in DOMAIN f.codes : f.codes[i] = Code(l, g, i, p)
<1> DEFINE I == {i \in InWarp(c, l, w) : p < Phases(l, g, i)}
           codes == CodesOf(c, l, g, w, p)
<1>1. DOMAIN codes = I /\ \A i \in I : codes[i] = Code(l, g, i, p) BY DEF CodesOf
<1> HIDE DEF codes
<1> DEFINE W == UNION {DOMAIN codes[i] : i \in DOMAIN codes}
           R == UNION {UNION {Range(codes[i][x]) : x \in DOMAIN codes[i]} : i \in DOMAIN codes}
<1>2. \A x : x \in W <=> \E i \in I : x \in DOMAIN Code(l, g, i, p) BY <1>1
<1>3. R = UNION {Reads(codes[i]) : i \in DOMAIN codes} BY DEF Reads
<1>4. \A x : x \in R \cup W <=> \E i \in I : x \in Touched(Code(l, g, i, p))
  <2> HIDE DEF R
  <2> QED BY <1>1, <1>3 DEF Touched
<1>5. FetchOf(c, l, g, w, p) = [codes |-> codes, writes |-> W, reads |-> R]
  BY DEF FetchOf, Fetching, codes
<1> HIDE DEF W, R
<1>6. /\ FetchOf(c, l, g, w, p).codes = codes
      /\ FetchOf(c, l, g, w, p).writes = W
      /\ FetchOf(c, l, g, w, p).reads = R
  BY <1>5
<1>7. W = UNION {DOMAIN codes[i] : i \in DOMAIN codes} BY DEF W
<1> QED BY <1>1, <1>2, <1>4, <1>6, <1>7

-----------------------------------------------------------------------------
(***************************************************************************)
(* What happens to a group.                                                *)
(***************************************************************************)
NewGroupOf(c, l, g) ==
  [local |-> Fresh(l.local),
   phase |-> [w \in WarpOf(c, l) |-> 0],
   end   |-> [w \in WarpOf(c, l) |-> LastPhase(c, l, g, w)],
   now   |-> [w \in WarpOf(c, l) |-> FetchOf(c, l, g, w, 0)],
   held  |-> [w \in WarpOf(c, l) |-> Nothing]]

LEMMA NewSane ==
  ASSUME NEW c, NEW l, Shape(c, l), Even(l), NEW g \in GroupOf(l)
  PROVE  Sane(c, l, g, NewGroupOf(c, l, g))
<1> DEFINE G == NewGroupOf(c, l, g)
<1>1. /\ DOMAIN G = GroupFields
      /\ G.local = Fresh(l.local)
      /\ G.phase = [w \in WarpOf(c, l) |-> 0]
      /\ G.end = [w \in WarpOf(c, l) |-> LastPhase(c, l, g, w)]
      /\ G.now = [w \in WarpOf(c, l) |-> FetchOf(c, l, g, w, 0)]
      /\ G.held = [w \in WarpOf(c, l) |-> Nothing]
  BY DEF NewGroupOf, GroupFields
<1> HIDE DEF G
<1>2. \A w \in WarpOf(c, l) : LastPhase(c, l, g, w) \in Nat BY LastPhases
<1>3. GroupType(c, l, g, G)
  <2>1. DOMAIN G.local = 0 .. l.local - 1 BY <1>1 DEF Fresh
  <2>2. \A w \in WarpOf(c, l) : G.phase[w] <= G.end[w] BY <1>1, <1>2
  <2> QED BY <1>1, <2>1, <2>2 DEF GroupType
<1>4. Holds(c, l, G) BY <1>1 DEF Holds
<1>5. Met(c, l, G) BY <1>1 DEF Met
<1> QED BY <1>3, <1>4, <1>5 DEF Sane, G

\* A warp that runs goes on to its next phase.
Next1(c, l, g, G, H, w) ==
  /\ DOMAIN H = GroupFields
  /\ DOMAIN H.local = DOMAIN G.local
  /\ H.phase = [G.phase EXCEPT ![w] = @ + 1]
  /\ H.end = G.end
  /\ H.now = [G.now EXCEPT ![w] = FetchOf(c, l, g, w, G.phase[w] + 1)]
  /\ DOMAIN H.held = DOMAIN G.held
  /\ \A x \in DOMAIN G.held : H.held[x] = IF x = w THEN Nothing ELSE G.held[x]

LEMMA AdvancedSane ==
  ASSUME NEW c, NEW l, Shape(c, l), Even(l), NEW g \in GroupOf(l),
         NEW G, Sane(c, l, g, G), NEW w \in WarpOf(c, l), Runs(c, l, G, w),
         NEW H, Next1(c, l, g, G, H, w)
  PROVE  Sane(c, l, g, H)
<1> USE DEF Sane, Next1
<1>1. /\ G.phase \in [WarpOf(c, l) -> Nat]
      /\ G.end = [x \in WarpOf(c, l) |-> LastPhase(c, l, g, x)]
      /\ G.now = [x \in WarpOf(c, l) |-> FetchOf(c, l, g, x, G.phase[x])]
      /\ DOMAIN G.held = WarpOf(c, l)
      /\ \A x \in WarpOf(c, l) : G.phase[x] <= G.end[x]
  BY DEF GroupType
<1>2. \A x \in WarpOf(c, l) : G.end[x] \in Nat BY <1>1, LastPhases
<1>3. /\ H.phase[w] = G.phase[w] + 1
      /\ \A x \in WarpOf(c, l) : x # w => H.phase[x] = G.phase[x]
      /\ H.phase \in [WarpOf(c, l) -> Nat]
  BY <1>1
<1>4. \A x \in WarpOf(c, l) : G.phase[x] \in Nat /\ G.phase[x] <= H.phase[x] BY <1>1, <1>3
<1>5. G.phase[w] < G.end[w] BY <1>1, <1>2 DEF Runs, Done
<1>6. GroupType(c, l, g, H)
  <2>1. H.now = [x \in WarpOf(c, l) |-> FetchOf(c, l, g, x, H.phase[x])]
    BY <1>1, <1>3
  <2>2. \A x \in WarpOf(c, l) : H.phase[x] <= H.end[x] BY <1>1, <1>2, <1>3, <1>5
  <2>3. DOMAIN H.held = WarpOf(c, l) BY <1>1
  <2>4. DOMAIN H.local = 0 .. l.local - 1 BY DEF GroupType
  <2> QED BY <1>1, <1>3, <2>1, <2>2, <2>3, <2>4 DEF GroupType
<1>7. Holds(c, l, H)
  <2> SUFFICES ASSUME NEW x \in WarpOf(c, l), H.held[x] # Nothing
               PROVE  /\ Runs(c, l, H, x)
                      /\ DOMAIN H.held[x] = H.now[x].writes /\ H.now[x].writes # {}
    BY DEF Holds
  <2>1. x # w BY <1>1
  <2>2. H.held[x] = G.held[x] /\ H.now[x] = G.now[x] /\ H.phase[x] = G.phase[x]
    BY <1>1, <1>3, <2>1
  <2>3. /\ Runs(c, l, G, x)
        /\ DOMAIN G.held[x] = G.now[x].writes /\ G.now[x].writes # {}
    BY <2>2 DEF Holds
  <2>4. Waits(c, l, H, x) => Waits(c, l, G, x)
    <3> SUFFICES ASSUME NEW y \in WarpOf(c, l), H.phase[y] < H.phase[x],
                        Barrier(l, H.phase[x])
                 PROVE  Waits(c, l, G, x)
      BY DEF Waits
    <3>1. G.phase[y] < G.phase[x] BY <1>3, <1>4, <2>2
    <3> QED BY <3>1, <2>2 DEF Waits
  <2> QED BY <2>2, <2>3, <2>4 DEF Runs, Done
<1>8. Met(c, l, H)
  <2> SUFFICES ASSUME NEW x \in WarpOf(c, l), NEW y \in WarpOf(c, l), NEW b \in Nat,
                      b < H.phase[x], Barrier(l, b)
               PROVE  b <= H.phase[y]
    BY DEF Met
  <2>1. CASE b < G.phase[x]
    <3>1. b <= G.phase[y] BY <2>1 DEF Met
    <3> QED BY <3>1, <1>3, <1>4
  <2>2. CASE ~ (b < G.phase[x])
    <3>1. x = w /\ b = G.phase[w] BY <2>2, <1>3, <1>4
    <3>2. ~ Waits(c, l, G, w) BY DEF Runs
    <3>3. ~ (G.phase[y] < G.phase[w]) BY <3>1, <3>2 DEF Waits
    <3> QED BY <3>1, <3>3, <1>3, <1>4
  <2> QED BY <2>1, <2>2
<1> QED BY <1>6, <1>7, <1>8

\* A warp that runs has loaded what it is about to store.
LEMMA LoadedSane ==
  ASSUME NEW c, NEW l, NEW g, NEW G, Sane(c, l, g, G), NEW w \in WarpOf(c, l),
         Runs(c, l, G, w), NEW held, DOMAIN held = G.now[w].writes,
         G.now[w].writes # {}
  PROVE  Sane(c, l, g, [G EXCEPT !.held[w] = held])
<1> DEFINE H == [G EXCEPT !.held[w] = held]
<1> USE DEF Sane
<1>1. DOMAIN G = GroupFields /\ DOMAIN G.held = WarpOf(c, l) BY DEF GroupType
<1>2. /\ DOMAIN H = GroupFields
      /\ H.local = G.local /\ H.phase = G.phase /\ H.end = G.end /\ H.now = G.now
      /\ H.held = [G.held EXCEPT ![w] = held]
  BY <1>1 DEF GroupFields
<1> HIDE DEF H
<1>3. GroupType(c, l, g, H) BY <1>1, <1>2 DEF GroupType
<1>4. \A x \in WarpOf(c, l) : Runs(c, l, H, x) <=> Runs(c, l, G, x)
  BY <1>2 DEF Runs, Done, Waits
<1>5. Holds(c, l, H)
  <2> SUFFICES ASSUME NEW x \in WarpOf(c, l), H.held[x] # Nothing
               PROVE  /\ Runs(c, l, H, x)
                      /\ DOMAIN H.held[x] = H.now[x].writes /\ H.now[x].writes # {}
    BY DEF Holds
  <2>1. CASE x = w BY <2>1, <1>1, <1>2, <1>4
  <2>2. CASE x # w
    <3>1. H.held[x] = G.held[x] BY <2>2, <1>1, <1>2
    <3>2. /\ Runs(c, l, G, x)
          /\ DOMAIN G.held[x] = G.now[x].writes /\ G.now[x].writes # {}
      BY <3>1 DEF Holds
    <3> QED BY <3>1, <3>2, <1>2, <1>4
  <2> QED BY <2>1, <2>2
<1>6. Met(c, l, H) BY <1>2 DEF Met
<1> QED BY <1>3, <1>5, <1>6 DEF H

-----------------------------------------------------------------------------
(***************************************************************************)
(* The steps.                                                              *)
(***************************************************************************)
LEMMA OfTheState ==
  /\ Warps = WarpOf(call, Launch)
  /\ \A g, w, p : Fetch(g, w, p) = FetchOf(call, Launch, g, w, p)
  /\ \A g, w : End(g, w) = LastPhase(call, Launch, g, w)
  /\ \A g : NewGroup(g) = NewGroupOf(call, Launch, g)
  /\ \A g, w : Finished(g, w) <=> Done(running[g], w)
  /\ \A g, w : Waiting(g, w) <=> Waits(call, Launch, running[g], w)
  /\ \A g, w : Active(g, w) <=> Runs(call, Launch, running[g], w)
<1>1. Warps = WarpOf(call, Launch) BY DEF Warps, WarpOf
<1>2. \A w : Items(w) = InWarp(call, Launch, w) BY DEF Items, InWarp, ItemOf
<1>3. ASSUME NEW g, NEW w, NEW p PROVE Fetch(g, w, p) = FetchOf(call, Launch, g, w, p)
  <2>1. Items(w) = InWarp(call, Launch, w) BY <1>2
  <2>2. [i \in {i \in Items(w) : p < Phases(Launch, g, i)} |-> Code(Launch, g, i, p)]
          = CodesOf(call, Launch, g, w, p)
    BY <2>1 DEF CodesOf
  <2>3. Fetch(g, w, p) =
          Fetching([i \in {i \in Items(w) : p < Phases(Launch, g, i)} |->
                      Code(Launch, g, i, p)])
    BY DEF Fetch, Fetching
  <2> QED BY <2>2, <2>3 DEF FetchOf
<1>4. \A g, w : End(g, w) = LastPhase(call, Launch, g, w)
  BY <1>2 DEF End, LastPhase
<1>5. \A g : NewGroup(g) = NewGroupOf(call, Launch, g)
  BY <1>1, <1>3, <1>4 DEF NewGroup, NewGroupOf
<1>6. \A g, w : Finished(g, w) <=> Done(running[g], w) BY DEF Finished, Done
<1>7. \A g, w : Waiting(g, w) <=> Waits(call, Launch, running[g], w)
  BY <1>1 DEF Waiting, Waits
<1>8. \A g, w : Active(g, w) <=> Runs(call, Launch, running[g], w)
  BY <1>6, <1>7 DEF Active, Runs
<1> QED BY <1>1, <1>3, <1>4, <1>5, <1>6, <1>7, <1>8

AllScheduled == \A c \in Requests : Scheduled(c)

\* A call is no call.
LEMMA NoneIsNoCall ==
  \A c \in Requests : c # None
BY RequestsAssumption DEF IsCall, None

\* While there are groups, a launch of the call is running.
LEMMA TheLaunch ==
  ASSUME AllScheduled, CallOK, NEW g \in Groups(todo)
  PROVE  /\ call # None /\ call \in Requests /\ todo # << >>
         /\ Launch \in LaunchOf(call)
         /\ g \in GroupOf(Launch)
         /\ Shape(call, Launch) /\ Even(Launch)
<1>1. todo # << >> /\ g \in GroupOf(Launch) BY DEF Groups, GroupOf, Launch
<1>2. call # None /\ call \in Requests /\ todo \in Seq(LaunchOf(call))
  BY <1>1 DEF CallOK
<1>3. Launch \in LaunchOf(call) BY <1>1, <1>2, HeadTailProperties DEF Launch
<1> QED BY <1>1, <1>2, <1>3 DEF AllScheduled, Scheduled

\* Steps of a group that leave the others alone.
LEMMA GroupStep ==
  ASSUME AllScheduled, KInv, NEW g \in DOMAIN running, NEW G,
         Sane(call, Launch, g, running[g]) => Sane(call, Launch, g, G),
         running' = [running EXCEPT ![g] = G],
         UNCHANGED <<call, todo, left>>,
         DOMAIN mem' = DOMAIN mem,
         \A b \in DOMAIN mem : DOMAIN mem'[b] = DOMAIN mem[b]
  PROVE  KInv'
<1> USE DEF KInv
<1>1. CallOK' BY DEF CallOK
<1>2. Launch' = Launch BY DEF Launch
<1>3. DOMAIN running' = DOMAIN running OBVIOUS
<1>4. \A h \in DOMAIN running' : Sane(call, Launch, h, running'[h]) BY DEF GroupsOK
<1>5. GroupsOK' BY <1>2, <1>3, <1>4 DEF GroupsOK, Groups
<1> QED BY <1>1, <1>5

LEMMA AdvancedGroup ==
  ASSUME NEW g, NEW w, Sane(call, Launch, g, running[g]), w \in WarpOf(call, Launch),
         NEW group, DOMAIN group = GroupFields,
         DOMAIN group.local = DOMAIN running[g].local,
         group.phase = running[g].phase, group.end = running[g].end,
         group.now = running[g].now,
         DOMAIN group.held = DOMAIN running[g].held,
         \A x \in DOMAIN running[g].held :
           group.held[x] = IF x = w THEN Nothing ELSE running[g].held[x]
  PROVE  Next1(call, Launch, g, running[g], Advanced(group, g, w), w)
<1> DEFINE H == Advanced(group, g, w)
<1>1. H = [[group EXCEPT !.phase[w] = @ + 1] EXCEPT
             !.now[w] = FetchOf(call, Launch, g, w, group.phase[w] + 1)]
  BY OfTheState DEF Advanced
<1>2. /\ DOMAIN H = GroupFields /\ H.local = group.local
      /\ H.phase = [group.phase EXCEPT ![w] = @ + 1]
      /\ H.end = group.end /\ H.held = group.held
      /\ H.now = [group.now EXCEPT ![w] =
                    FetchOf(call, Launch, g, w, group.phase[w] + 1)]
  BY <1>1 DEF GroupFields
<1> HIDE DEF H
<1> QED BY <1>2 DEF Next1, H

LEMMA InitKInv == Init => KInv
BY DEF Init, KInv, CallOK, GroupsOK, Groups

LEMMA RequestStep ==
  ASSUME AllScheduled, KInv, NEW c \in Requests, Request(c)
  PROVE  KInv'
<1> USE DEF KInv
<1>1. /\ call = None /\ Acceptable(c) /\ call' = c /\ todo' = Launches(c)
      /\ mem' = Buffers(c) /\ left' = Groups(todo') /\ running' = running
  BY DEF Request
<1>2. todo = << >> BY <1>1 DEF CallOK
<1>3. DOMAIN running = {} BY <1>2 DEF GroupsOK, Groups
<1>4. CallOK'
  <2>1. c # None BY NoneIsNoCall
  <2>2. Launches(c) \in Seq(LaunchOf(c)) BY DEF AllScheduled, Scheduled
  <2>3. Acceptable(c)' BY <1>1 DEF Acceptable
  <2> QED BY <1>1, <2>1, <2>2 DEF CallOK
<1>5. GroupsOK' BY <1>1, <1>3 DEF GroupsOK
<1> QED BY <1>4, <1>5

LEMMA StartStep ==
  ASSUME AllScheduled, KInv, NEW g, StartGroup(g)
  PROVE  KInv'
<1> USE DEF KInv
<1>1. /\ g \in left /\ left' = left \ {g}
      /\ running' = Merged(running, At(g, NewGroup(g)))
      /\ call' = call /\ todo' = todo /\ mem' = mem
  BY DEF StartGroup
<1>2. g \in Groups(todo) /\ g \notin DOMAIN running BY <1>1 DEF GroupsOK
<1>3. g \in GroupOf(Launch) /\ Shape(call, Launch) /\ Even(Launch) BY <1>2, TheLaunch
<1>4. Sane(call, Launch, g, NewGroup(g)) BY <1>3, NewSane, OfTheState
<1>5. /\ DOMAIN running' = DOMAIN running \cup {g}
      /\ running'[g] = NewGroup(g)
      /\ \A h \in DOMAIN running : running'[h] = running[h]
  <2> HIDE DEF KInv
  <2> QED BY <1>1, <1>2 DEF Merged, At
<1>6. CallOK' BY <1>1 DEF CallOK
<1>7. Launch' = Launch BY <1>1 DEF Launch
<1>8. \A h \in DOMAIN running' : Sane(call, Launch, h, running'[h])
  BY <1>4, <1>5 DEF GroupsOK
<1>9. DOMAIN running' \cup left' \subseteq Groups(todo) /\ DOMAIN running' \cap left' = {}
  BY <1>1, <1>2, <1>5 DEF GroupsOK
<1>10. GroupsOK' BY <1>1, <1>7, <1>8, <1>9 DEF GroupsOK
<1> QED BY <1>6, <1>10

LEMMA LoadStep ==
  ASSUME AllScheduled, KInv, NEW g \in DOMAIN running, NEW w \in Warps, Load(g, w)
  PROVE  KInv'
<1> DEFINE now == running[g].now[w]
           held == [x \in now.writes |->
                      Combined(g, now.codes[CHOOSE i \in DOMAIN now.codes :
                                              x \in DOMAIN now.codes[i]][x])]
           G == [running[g] EXCEPT !.held[w] = held]
<1>1. /\ Runs(call, Launch, running[g], w)
      /\ running[g].now[w].writes # {}
      /\ running' = [running EXCEPT ![g].held[w] = held]
      /\ call' = call /\ todo' = todo /\ mem' = mem /\ left' = left
  BY OfTheState DEF Load
<1>2. w \in WarpOf(call, Launch) BY OfTheState
<1>3. DOMAIN held = running[g].now[w].writes OBVIOUS
<1> HIDE DEF held
<1>4. running' = [running EXCEPT ![g] = G] BY <1>1
<1>5. Sane(call, Launch, g, running[g]) => Sane(call, Launch, g, G)
  BY <1>1, <1>2, <1>3, LoadedSane
<1> HIDE DEF G
<1> QED BY <1>1, <1>4, <1>5, GroupStep

LEMMA StoreStep ==
  ASSUME AllScheduled, KInv, NEW g \in DOMAIN running, NEW w \in Warps, Store(g, w)
  PROVE  KInv'
<1> DEFINE held == running[g].held[w]
           group == [running[g] EXCEPT !.local = Overwrite(@, held, Shared),
                                       !.held[w] = Nothing]
           G == Advanced(group, g, w)
<1>1. /\ held # Nothing
      /\ mem' = [b \in DOMAIN mem |-> Overwrite(mem[b], held, b)]
      /\ running' = [running EXCEPT ![g] = G]
      /\ call' = call /\ todo' = todo /\ left' = left
  BY DEF Store
<1>2. w \in WarpOf(call, Launch) BY OfTheState
<1>3. \A b \in DOMAIN mem : DOMAIN mem'[b] = DOMAIN mem[b] BY <1>1 DEF Overwrite
<1>4. ASSUME Sane(call, Launch, g, running[g]) PROVE Sane(call, Launch, g, G)
  <2>1. DOMAIN running[g] = GroupFields BY <1>4 DEF Sane, GroupType
  <2>2. /\ DOMAIN group = GroupFields
        /\ group.local = Overwrite(running[g].local, held, Shared)
        /\ group.phase = running[g].phase /\ group.end = running[g].end
        /\ group.now = running[g].now
        /\ group.held = [running[g].held EXCEPT ![w] = Nothing]
    BY <2>1 DEF GroupFields
  <2>8. /\ DOMAIN group.held = DOMAIN running[g].held
        /\ \A x \in DOMAIN running[g].held :
             group.held[x] = IF x = w THEN Nothing ELSE running[g].held[x]
    BY <2>2
  <2>3. DOMAIN group.local = DOMAIN running[g].local BY <2>2 DEF Overwrite
  <2> HIDE DEF group
  <2>4. Next1(call, Launch, g, running[g], G, w)
    BY <1>2, <1>4, <2>2, <2>3, <2>8, AdvancedGroup
  <2>5. Runs(call, Launch, running[g], w) BY <1>1, <1>2, <1>4 DEF Sane, Holds
  <2>6. g \in Groups(todo) BY DEF KInv, GroupsOK
  <2>7. g \in GroupOf(Launch) /\ Shape(call, Launch) /\ Even(Launch)
    BY <2>6, TheLaunch DEF KInv
  <2> HIDE DEF G
  <2> QED BY <1>2, <1>4, <2>4, <2>5, <2>7, AdvancedSane
<1> HIDE DEF G
<1> QED BY <1>1, <1>3, <1>4, GroupStep

LEMMA PassStep ==
  ASSUME AllScheduled, KInv, NEW g \in DOMAIN running, NEW w \in Warps, Pass(g, w)
  PROVE  KInv'
<1> DEFINE G == Advanced(running[g], g, w)
<1>1. /\ Runs(call, Launch, running[g], w)
      /\ running[g].now[w].writes = {}
      /\ running' = [running EXCEPT ![g] = G]
      /\ call' = call /\ todo' = todo /\ mem' = mem /\ left' = left
  BY OfTheState DEF Pass
<1>2. w \in WarpOf(call, Launch) BY OfTheState
<1>3. ASSUME Sane(call, Launch, g, running[g]) PROVE Sane(call, Launch, g, G)
  <2>1. /\ DOMAIN running[g] = GroupFields
        /\ DOMAIN running[g].held = WarpOf(call, Launch)
    BY <1>3 DEF Sane, GroupType
  <2>2. g \in Groups(todo) BY DEF KInv, GroupsOK
  <2>3. g \in GroupOf(Launch) /\ Shape(call, Launch) /\ Even(Launch)
    BY <2>2, TheLaunch DEF KInv
  <2>4. running[g].held[w] = Nothing BY <1>1, <1>2, <1>3 DEF Sane, Holds
  <2>5. \A x \in DOMAIN running[g].held :
          running[g].held[x] = IF x = w THEN Nothing ELSE running[g].held[x]
    BY <2>4
  <2>6. Next1(call, Launch, g, running[g], G, w)
    BY <1>2, <1>3, <2>1, <2>5, AdvancedGroup
  <2> HIDE DEF G
  <2> QED BY <1>1, <1>2, <1>3, <2>3, <2>6, AdvancedSane
<1> HIDE DEF G
<1> QED BY <1>1, <1>3, GroupStep

LEMMA EndStep ==
  ASSUME KInv, NEW g \in DOMAIN running, EndGroup(g)
  PROVE  KInv'
<1> USE DEF KInv
<1>1. /\ running' = Restrict(running, DOMAIN running \ {g})
      /\ call' = call /\ todo' = todo /\ mem' = mem /\ left' = left
  BY DEF EndGroup
<1>2. /\ DOMAIN running' = DOMAIN running \ {g}
      /\ \A h \in DOMAIN running' : running'[h] = running[h]
  BY <1>1 DEF Restrict
<1>3. CallOK' BY <1>1 DEF CallOK
<1>4. Launch' = Launch BY <1>1 DEF Launch
<1>5. \A h \in DOMAIN running' : Sane(call, Launch, h, running'[h]) BY <1>2 DEF GroupsOK
<1>6. DOMAIN running' \cup left' \subseteq Groups(todo) /\ DOMAIN running' \cap left' = {}
  BY <1>1, <1>2 DEF GroupsOK
<1>7. GroupsOK' BY <1>1, <1>4, <1>5, <1>6 DEF GroupsOK
<1> QED BY <1>3, <1>7

LEMMA NextLaunchStep ==
  ASSUME KInv, NextLaunch
  PROVE  KInv'
<1> USE DEF KInv
<1>1. /\ todo # << >> /\ running = << >> /\ todo' = Tail(todo) /\ left' = Groups(todo')
      /\ call' = call /\ mem' = mem /\ running' = running
  BY DEF NextLaunch
<1>2. call # None BY <1>1 DEF CallOK
<1>3. Tail(todo) \in Seq(LaunchOf(call)) BY <1>1, <1>2, HeadTailProperties DEF CallOK
<1>4. CallOK' BY <1>1, <1>2, <1>3 DEF CallOK
<1>5. DOMAIN running' = {} BY <1>1
<1>6. GroupsOK' BY <1>1, <1>5 DEF GroupsOK
<1> QED BY <1>4, <1>6

LEMMA ReturnStep ==
  ASSUME KInv, Return
  PROVE  KInv'
<1> USE DEF KInv
<1>1. /\ todo = << >> /\ call' = None /\ todo' = todo /\ left' = left /\ running' = running
  BY DEF Return
<1>2. CallOK' BY <1>1 DEF CallOK
<1>3. Groups(todo) = {} BY <1>1 DEF Groups
<1>4. DOMAIN running' = {} /\ left' = {} BY <1>1, <1>3 DEF GroupsOK
<1>5. GroupsOK' BY <1>1, <1>4 DEF GroupsOK
<1> QED BY <1>2, <1>5

LEMMA KInvStep ==
  ASSUME AllScheduled, KInv, [Next]_vars
  PROVE  KInv'
<1>1. CASE \E c \in Requests : Request(c) BY <1>1, RequestStep
<1>2. CASE \E g \in left : StartGroup(g) BY <1>2, StartStep
<1>3. ASSUME NEW g \in DOMAIN running, NEW w \in Warps, Load(g, w) PROVE KInv'
  BY <1>3, LoadStep
<1>4. ASSUME NEW g \in DOMAIN running, NEW w \in Warps, Store(g, w) PROVE KInv'
  BY <1>4, StoreStep
<1>5. ASSUME NEW g \in DOMAIN running, NEW w \in Warps, Pass(g, w) PROVE KInv'
  BY <1>5, PassStep
<1>6. CASE \E g \in DOMAIN running : EndGroup(g) BY <1>6, EndStep
<1>7. CASE NextLaunch BY <1>7, NextLaunchStep
<1>8. CASE Return BY <1>8, ReturnStep
<1>9. CASE UNCHANGED vars
  <2>1. Launch' = Launch BY <1>9 DEF vars, Launch
  <2> QED BY <1>9, <2>1 DEF vars, KInv, CallOK, GroupsOK
<1> QED BY <1>1, <1>2, <1>3, <1>4, <1>5, <1>6, <1>7, <1>8, <1>9 DEF Next, DeviceWorks

-----------------------------------------------------------------------------
(***************************************************************************)
(* What the invariant says of each property.                               *)
(***************************************************************************)
LEMMA KInvType ==
  ASSUME AllScheduled, KInv
  PROVE  TypeOK
<1> USE DEF KInv
<1>1. call \in Requests \cup {None} /\ (call = None => todo = << >>)
  BY DEF CallOK
<1>2. DOMAIN running \cup left \subseteq Groups(todo) /\ DOMAIN running \cap left = {}
  BY DEF GroupsOK
<1>3. ASSUME NEW g \in DOMAIN running, NEW w \in Warps
      PROVE  running[g].phase[w] \in 0 .. running[g].end[w]
  <2>1. Sane(call, Launch, g, running[g]) BY DEF GroupsOK
  <2>2. /\ running[g].phase \in [WarpOf(call, Launch) -> Nat]
        /\ running[g].phase[w] <= running[g].end[w]
        /\ running[g].end = [x \in WarpOf(call, Launch) |-> LastPhase(call, Launch, g, x)]
    BY <2>1, OfTheState DEF Sane, GroupType
  <2>3. g \in Groups(todo) BY <1>2
  <2>4. \A x \in WarpOf(call, Launch) : LastPhase(call, Launch, g, x) \in Nat
    BY <2>3, TheLaunch, LastPhases
  <2> QED BY <2>2, <2>4, OfTheState
<1> QED BY <1>1, <1>2, <1>3 DEF TypeOK

\* The warps that are behind everybody else do not wait.
LEMMA KInvBarriers ==
  ASSUME AllScheduled, KInv
  PROVE  BarriersAreMet
<1> SUFFICES ASSUME NEW g \in DOMAIN running, NEW v \in Warps, ~ Finished(g, v)
             PROVE  \E w \in Warps : Active(g, w)
  BY DEF BarriersAreMet
<1> DEFINE G == running[g]
           c == call
           l == Launch
           W == WarpOf(c, l)
<1>1. Sane(c, l, g, G) BY DEF KInv, GroupsOK
<1>2. G.phase \in [W -> Nat] /\ \A w \in W : G.phase[w] <= G.end[w]
  BY <1>1 DEF Sane, GroupType
<1>3. g \in Groups(todo) BY DEF KInv, GroupsOK
<1>4. PICK n \in Nat : \A w \in W : G.end[w] = n
  <2>1. G.end = [w \in W |-> LastPhase(c, l, g, w)] BY <1>1 DEF Sane, GroupType
  <2>2. g \in GroupOf(l) /\ Shape(c, l) /\ Even(l) BY <1>3, TheLaunch DEF KInv
  <2>3. \E n \in Nat : \A w \in W : LastPhase(c, l, g, w) = n BY <2>2, LastPhases
  <2> QED BY <2>1, <2>3
<1> DEFINE T == {G.phase[w] : w \in {w \in W : ~ Done(G, w)}}
<1>5. T \in SUBSET Nat /\ T # {} BY <1>2, OfTheState
<1>6. PICK m \in T : \A y \in T : m <= y BY <1>5, Least
<1>7. PICK w \in W : ~ Done(G, w) /\ G.phase[w] = m BY <1>6
<1>8. ~ Waits(c, l, G, w)
  <2> SUFFICES ASSUME NEW x \in W, G.phase[x] < G.phase[w] PROVE FALSE BY DEF Waits
  <2>1. Done(G, x) BY <1>2, <1>5, <1>6, <1>7
  <2>2. G.phase[x] = n /\ G.phase[w] <= n BY <2>1, <1>2, <1>4 DEF Done
  <2> QED BY <2>2, <1>2
<1>9. Active(g, w) BY <1>7, <1>8, OfTheState DEF Runs
<1> QED BY <1>9, OfTheState

\* What a warp is about to do is the code of its items.
LEMMA NowOf ==
  ASSUME AllScheduled, KInv, NEW g \in DOMAIN running, NEW w \in Warps
  PROVE  /\ call \in Requests /\ Acceptable(call) /\ Launch \in LaunchOf(call)
         /\ g \in GroupOf(Launch)
         /\ running[g].phase[w] \in Nat
         /\ \A x \in running[g].now[w].writes : \E i \in InWarp(call, Launch, w) :
              /\ running[g].phase[w] < Phases(Launch, g, i)
              /\ x \in DOMAIN Code(Launch, g, i, running[g].phase[w])
         /\ \A x \in running[g].now[w].reads \cup running[g].now[w].writes :
              \E i \in InWarp(call, Launch, w) :
                /\ running[g].phase[w] < Phases(Launch, g, i)
                /\ x \in Touched(Code(Launch, g, i, running[g].phase[w]))
         /\ \A i \in DOMAIN running[g].now[w].codes :
              /\ i \in InWarp(call, Launch, w)
              /\ running[g].phase[w] < Phases(Launch, g, i)
              /\ running[g].now[w].codes[i] = Code(Launch, g, i, running[g].phase[w])
<1> DEFINE G == running[g]
           p == G.phase[w]
           f == FetchOf(call, Launch, g, w, p)
<1>1. Sane(call, Launch, g, G) /\ g \in Groups(todo) BY DEF KInv, GroupsOK
<1>2. call \in Requests /\ call # None /\ Launch \in LaunchOf(call) /\ g \in GroupOf(Launch)
  BY <1>1, TheLaunch DEF KInv
<1>3. Acceptable(call) BY <1>2 DEF KInv, CallOK
<1>4. w \in WarpOf(call, Launch) BY OfTheState
<1>5. p \in Nat /\ G.now[w] = f BY <1>1, <1>4 DEF Sane, GroupType
<1>6. /\ \A x : x \in f.writes <=>
           \E i \in InWarp(call, Launch, w) :
             p < Phases(Launch, g, i) /\ x \in DOMAIN Code(Launch, g, i, p)
      /\ \A x : x \in f.reads \cup f.writes <=>
           \E i \in InWarp(call, Launch, w) :
             p < Phases(Launch, g, i) /\ x \in Touched(Code(Launch, g, i, p))
      /\ DOMAIN f.codes = {i \in InWarp(call, Launch, w) : p < Phases(Launch, g, i)}
      /\ \A i \in DOMAIN f.codes : f.codes[i] = Code(Launch, g, i, p)
  BY Fetched
<1> HIDE DEF f
<1> QED BY <1>2, <1>3, <1>5, <1>6

AllFit   == \A c \in Requests : Acceptable(c) => \A l \in LaunchOf(c) : Fits(c, l)
AllApart ==
  \A c \in Requests : Acceptable(c) => \A l \in LaunchOf(c) : Apart(c, l) /\ Agree(c, l)

LEMMA KInvStores ==
  ASSUME AllScheduled, AllFit, KInv
  PROVE  StoresInBounds
<1> SUFFICES ASSUME NEW g \in DOMAIN running, NEW w \in Warps,
                    NEW x \in running[g].now[w].writes
             PROVE  x[2] \in DOMAIN (IF x[1] = Shared THEN running[g].local ELSE mem[x[1]])
  BY DEF StoresInBounds
<1>1. /\ call \in Requests /\ Acceptable(call) /\ Launch \in LaunchOf(call)
      /\ g \in GroupOf(Launch) /\ running[g].phase[w] \in Nat
  BY NowOf
<1>2. PICK i \in InWarp(call, Launch, w) :
        /\ running[g].phase[w] < Phases(Launch, g, i)
        /\ x \in DOMAIN Code(Launch, g, i, running[g].phase[w])
  BY NowOf
<1>3. i \in ItemOf(Launch) BY DEF InWarp
<1>4. Fits(call, Launch) BY <1>1 DEF AllFit
<1>5. IF x[1] = Shared THEN x[2] \in 0 .. Launch.local - 1
      ELSE x[1] \in DOMAIN Buffers(call) /\ x[2] \in DOMAIN Buffers(call)[x[1]]
  BY <1>1, <1>2, <1>3, <1>4 DEF Fits
<1>6. DOMAIN running[g].local = 0 .. Launch.local - 1
  BY DEF KInv, GroupsOK, Sane, GroupType
<1>7. /\ DOMAIN mem = DOMAIN Buffers(call)
      /\ \A b \in DOMAIN mem : DOMAIN mem[b] = DOMAIN Buffers(call)[b]
  <2>1. call # None BY <1>1, NoneIsNoCall
  <2> QED BY <2>1 DEF KInv, CallOK
<1> QED BY <1>5, <1>6, <1>7

\* Two warps of a group that run have no barrier between them.
LEMMA RunTogether ==
  ASSUME KInv, NEW g \in DOMAIN running, NEW w \in Warps, NEW x \in Warps,
         Active(g, w), Active(g, x)
  PROVE  Together(Launch, running[g].phase[w], running[g].phase[x])
<1> DEFINE G == running[g]
<1>1. Sane(call, Launch, g, G) BY DEF KInv, GroupsOK
<1>2. Met(call, Launch, G) /\ G.phase \in [WarpOf(call, Launch) -> Nat]
  BY <1>1 DEF Sane, GroupType
<1>3. w \in WarpOf(call, Launch) /\ x \in WarpOf(call, Launch) BY OfTheState
<1>4. ~ Waits(call, Launch, G, w) /\ ~ Waits(call, Launch, G, x)
  BY OfTheState DEF Runs
<1>5. ASSUME NEW y \in WarpOf(call, Launch), NEW z \in WarpOf(call, Launch),
             ~ Waits(call, Launch, G, z),
             NEW b \in Nat, Barrier(Launch, b)
      PROVE  ~ (G.phase[y] < b /\ b <= G.phase[z])
  <2> SUFFICES ASSUME G.phase[y] < b, b <= G.phase[z] PROVE FALSE OBVIOUS
  <2>1. G.phase[y] \in Nat /\ G.phase[z] \in Nat BY <1>2
  <2>2. CASE b < G.phase[z]
    <3>1. b <= G.phase[y] BY <2>2, <1>2, <1>5 DEF Met
    <3> QED BY <3>1, <2>1
  <2>3. CASE b = G.phase[z] BY <2>3, <1>5 DEF Waits
  <2> QED BY <2>1, <2>2, <2>3
<1> HIDE DEF G
<1>6. \A b \in Nat : Barrier(Launch, b) =>
        ~ (G.phase[w] < b /\ b <= G.phase[x]) /\ ~ (G.phase[x] < b /\ b <= G.phase[w])
  BY <1>3, <1>4, <1>5
<1> QED BY <1>6 DEF Together, G

LEMMA KInvRaces ==
  ASSUME AllScheduled, AllApart, KInv
  PROVE  NoRace
<1> DEFINE active == {a \in UNION {{g} \X Warps : g \in DOMAIN running} : Active(a[1], a[2])}
           now(a) == running[a[1]].now[a[2]]
<1>1. ASSUME NEW a \in active
      PROVE  a[1] \in DOMAIN running /\ a[2] \in Warps /\ a = <<a[1], a[2]>>
             /\ Active(a[1], a[2])
  OBVIOUS
<1>2. ASSUME NEW a \in active, NEW b \in active, a # b,
             NEW x \in InReach(a[1], b[1], now(a).writes),
             x \in now(b).reads \cup now(b).writes
      PROVE  FALSE
  <2> DEFINE g == a[1]
             w == a[2]
             h == b[1]
             v == b[2]
             p == running[g].phase[w]
             q == running[h].phase[v]
  <2>1. g \in DOMAIN running /\ w \in Warps /\ h \in DOMAIN running /\ v \in Warps
        /\ Active(g, w) /\ Active(h, v) /\ (g # h \/ w # v)
    BY <1>1, <1>2
  <2>2. x \in now(a).writes /\ (g = h \/ x[1] # Shared) BY DEF InReach
  <2> HIDE DEF g, w, h, v, active, now
  <2>3. /\ call \in Requests /\ Acceptable(call) /\ Launch \in LaunchOf(call)
        /\ g \in GroupOf(Launch) /\ h \in GroupOf(Launch) /\ p \in Nat /\ q \in Nat
    BY <2>1, NowOf
  <2>4. PICK i \in InWarp(call, Launch, w) :
          p < Phases(Launch, g, i) /\ x \in DOMAIN Code(Launch, g, i, p)
    BY <2>1, <2>2, NowOf DEF now, g, w
  <2>5. PICK j \in InWarp(call, Launch, v) :
          q < Phases(Launch, h, j) /\ x \in Touched(Code(Launch, h, j, q))
    BY <2>1, <1>2, NowOf DEF now, h, v
  <2>6. i \in ItemOf(Launch) /\ j \in ItemOf(Launch)
        /\ i \div call.warp = w /\ j \div call.warp = v
    BY DEF InWarp
  <2>7. g = h => i \div call.warp # j \div call.warp /\ Together(Launch, p, q)
    BY <2>1, <2>6, RunTogether
  <2>8. Apart(call, Launch) BY <2>3 DEF AllApart
  <2> HIDE DEF p, q
  <2> QED BY <2>2, <2>3, <2>4, <2>5, <2>6, <2>7, <2>8 DEF Apart
<1>3. ASSUME NEW a \in active, NEW i \in DOMAIN now(a).codes, NEW j \in DOMAIN now(a).codes,
             NEW x \in DOMAIN now(a).codes[i] \cap DOMAIN now(a).codes[j]
      PROVE  now(a).codes[i][x] = now(a).codes[j][x]
  <2> DEFINE g == a[1]
             w == a[2]
             p == running[g].phase[w]
  <2>1. g \in DOMAIN running /\ w \in Warps BY <1>1
  <2> HIDE DEF g, w, active
  <2>2. /\ call \in Requests /\ Acceptable(call) /\ Launch \in LaunchOf(call)
        /\ g \in GroupOf(Launch) /\ p \in Nat
    BY <2>1, NowOf
  <2>3. \A k \in DOMAIN now(a).codes :
          /\ k \in InWarp(call, Launch, w) /\ p < Phases(Launch, g, k)
          /\ now(a).codes[k] = Code(Launch, g, k, p)
    BY <2>1, NowOf DEF g, w
  <2>4. /\ i \in ItemOf(Launch) /\ j \in ItemOf(Launch)
        /\ i \div call.warp = j \div call.warp
    BY <2>3 DEF InWarp
  <2>5. Agree(call, Launch) BY <2>2 DEF AllApart
  <2> HIDE DEF now, p
  <2>6. now(a).codes[i] = Code(Launch, g, i, p) /\ now(a).codes[j] = Code(Launch, g, j, p)
        /\ p < Phases(Launch, g, i) /\ p < Phases(Launch, g, j)
    BY <2>3
  <2> QED BY <2>2, <2>4, <2>5, <2>6 DEF Agree
<1> HIDE DEF active, now
<1>4. \A a, b \in active : a # b =>
        InReach(a[1], b[1], now(a).writes) \cap (now(b).reads \cup now(b).writes) = {}
  BY <1>2
<1>5. \A a \in active : \A i, j \in DOMAIN now(a).codes :
        \A c \in DOMAIN now(a).codes[i] \cap DOMAIN now(a).codes[j] :
          now(a).codes[i][c] = now(a).codes[j][c]
  BY <1>3
<1> QED BY <1>4, <1>5 DEF NoRace, active, now

(***************************************************************************)
(* The invariant holds of every behaviour.                                 *)
(***************************************************************************)
LEMMA Invariance ==
  ASSUME AllScheduled
  PROVE  Spec => []KInv
<1>1. Init => KInv BY InitKInv
<1>2. KInv /\ [Next]_vars => KInv' BY KInvStep
<1> QED BY <1>1, <1>2, PTL DEF Spec
-----------------------------------------------------------------------------
(***************************************************************************)
(* Arithmetic.                                                             *)
(***************************************************************************)
LEMMA Product ==
  ASSUME NEW a \in Positive, NEW b \in Positive
  PROVE  a * b \in Positive
<1>1. a * 1 <= a * b BY DEF Positive
<1> QED BY <1>1 DEF Positive

\* The place of an element in an area, by rows.
LEMMA Place ==
  ASSUME NEW h \in Nat, NEW w \in Nat, NEW r \in 0 .. h - 1, NEW c \in 0 .. w - 1
  PROVE  r * w + c \in 0 .. h * w - 1
<1>1. (r + 1) * w <= h * w BY Monotone
<1>2. (r + 1) * w = r * w + w OBVIOUS
<1>3. r * w \in Nat /\ h * w \in Nat BY Times
<1> QED BY <1>1, <1>2, <1>3

LEMMA PlaceUnique ==
  ASSUME NEW w \in Positive, NEW r \in Nat, NEW c \in 0 .. w - 1,
         NEW s \in Nat, NEW d \in 0 .. w - 1, r * w + c = s * w + d
  PROVE  r = s /\ c = d
<1>1. w * r + c = w * s + d BY DEF Positive
<1> QED BY <1>1, DivisionUnique

\* And an element's place back.
LEMMA PlaceOf ==
  ASSUME NEW h \in Nat, NEW w \in Positive, NEW n \in 0 .. h * w - 1
  PROVE  /\ n \div w \in 0 .. h - 1 /\ n % w \in 0 .. w - 1
         /\ n = (n \div w) * w + (n % w)
<1> DEFINE q == n \div w
<1>1. n \in Nat /\ n < h * w BY Times DEF Positive
<1>2. q \in Nat /\ n % w \in 0 .. w - 1 /\ n = w * q + (n % w) BY <1>1, Division
<1> HIDE DEF q
<1>3. q < h
  <2> SUFFICES ASSUME h <= q PROVE FALSE BY <1>2
  <2>1. h * w <= q * w BY <1>2, Monotone DEF Positive
  <2>2. q * w = w * q BY <1>2 DEF Positive
  <2>3. w * q \in Nat /\ h * w \in Nat BY <1>2, Times DEF Positive
  <2> QED BY <1>1, <1>2, <2>1, <2>2, <2>3 DEF Positive
<1>4. w * q = q * w BY <1>2 DEF Positive
<1> QED BY <1>2, <1>3, <1>4 DEF q

LEMMA CeilDivided ==
  ASSUME NEW a \in Nat, NEW b \in Positive
  PROVE  /\ CeilDiv(a, b) \in Nat
         /\ a <= CeilDiv(a, b) * b /\ CeilDiv(a, b) * b <= a + b - 1
<1> DEFINE n == a + b - 1
           q == n \div b
<1>1. n \in Nat BY DEF Positive
<1>2. q \in Nat /\ n % b \in 0 .. b - 1 /\ n = b * q + (n % b) BY <1>1, Division
<1>3. CeilDiv(a, b) = q BY DEF CeilDiv
<1> HIDE DEF q
<1>4. b * q = q * b /\ b * q \in Nat BY <1>2, Times DEF Positive
<1> QED BY <1>2, <1>3, <1>4 DEF Positive

LEMMA Rounded ==
  ASSUME NEW a \in Nat, NEW b \in Positive
  PROVE  /\ CeilToMultipleOf(a, b) \div b \in Positive
         /\ CeilToMultipleOf(a, b) = (CeilToMultipleOf(a, b) \div b) * b
         /\ a <= CeilToMultipleOf(a, b)
         /\ a # 0 /\ a % b = 0 => CeilToMultipleOf(a, b) = a
         /\ a # 0 => CeilToMultipleOf(a, b) = CeilDiv(a, b) * b
         /\ a # 0 => CeilToMultipleOf(a, b) \div b = CeilDiv(a, b)
<1> DEFINE n == CeilToMultipleOf(a, b)
<1>0. 0 \in 0 .. b - 1 BY DEF Positive
<1>1. CASE a = 0
  <2>1. n = b BY <1>1 DEF CeilToMultipleOf
  <2>2. (b * 1 + 0) \div b = 1 BY <1>0, Quotient
  <2>3. b * 1 + 0 = b BY DEF Positive
  <2>4. n \div b = 1 BY <2>1, <2>2, <2>3
  <2> QED BY <2>1, <2>4, <1>1 DEF Positive
<1>2. CASE a # 0
  <2> DEFINE k == CeilDiv(a, b)
  <2>1. n = k * b BY <1>2 DEF CeilToMultipleOf
  <2>2. k \in Nat /\ a <= k * b /\ k * b <= a + b - 1 BY CeilDivided
  <2> HIDE DEF k, n
  <2>3. (b * k + 0) \div b = k BY <2>2, <1>0, Quotient
  <2>4. b * k + 0 = k * b BY <2>2 DEF Positive
  <2>5. n \div b = k BY <2>1, <2>3, <2>4
  <2>6. k # 0 BY <1>2, <2>2 DEF Positive
  <2>7. ASSUME a % b = 0 PROVE n = a
    <3> DEFINE q == a \div b
    <3>1. q \in Nat /\ a = b * q + (a % b) BY Division
    <3> HIDE DEF q
    <3>2. a = q * b BY <3>1, <2>7 DEF Positive
    <3>3. q <= k
      <4> SUFFICES ASSUME k + 1 <= q PROVE FALSE BY <2>2, <3>1
      <4>1. (k + 1) * b <= q * b BY <2>2, <3>1, Monotone DEF Positive
      <4>2. (k + 1) * b = k * b + b /\ k * b \in Nat BY <2>2, Times DEF Positive
      <4> QED BY <4>1, <4>2, <3>2, <2>2 DEF Positive
    <3>4. k <= q
      <4> SUFFICES ASSUME q + 1 <= k PROVE FALSE BY <2>2, <3>1
      <4>1. (q + 1) * b <= k * b BY <2>2, <3>1, Monotone DEF Positive
      <4>2. (q + 1) * b = q * b + b /\ k * b \in Nat BY <2>2, <3>1, Times DEF Positive
      <4> QED BY <4>1, <4>2, <3>2, <2>2 DEF Positive
    <3>5. k = q BY <3>3, <3>4, <2>2, <3>1
    <3> QED BY <3>2, <3>5, <2>1
  <2> QED BY <2>1, <2>2, <2>5, <2>6, <2>7 DEF k, n, Positive
<1> QED BY <1>1, <1>2

LEMMA MinOfTwo ==
  ASSUME NEW a \in Int, NEW b \in Int
  PROVE  /\ Min({a, b}) \in {a, b}
         /\ Min({a, b}) <= a /\ Min({a, b}) <= b
<1>1. \E x \in {a, b} : \A y \in {a, b} : x <= y OBVIOUS
<1> QED BY <1>1 DEF Min

LEMMA MaxOfTwo ==
  ASSUME NEW a \in Int, NEW b \in Int
  PROVE  /\ Max({a, b}) \in {a, b}
         /\ a <= Max({a, b}) /\ b <= Max({a, b})
<1>1. \E x \in {a, b} : \A y \in {a, b} : x >= y OBVIOUS
<1> QED BY <1>1 DEF Max

-----------------------------------------------------------------------------
(***************************************************************************)
(* When nobody touches what another item stores.                           *)
(***************************************************************************)
Private(l) ==
  \A g, h \in GroupOf(l), i, j \in ItemOf(l) : \A p, q \in Nat :
    p < Phases(l, g, i) /\ q < Phases(l, h, j) =>
      \A x \in DOMAIN Code(l, g, i, p) :
        x \in Touched(Code(l, h, j, q)) => g = h /\ i = j

LEMMA PrivateIsSafe ==
  ASSUME NEW c, NEW l, Private(l)
  PROVE  Apart(c, l) /\ Agree(c, l)
<1>1. Apart(c, l) BY DEF Apart, Private
<1>2. Agree(c, l)
  <2> SUFFICES ASSUME NEW g \in GroupOf(l), NEW i \in ItemOf(l), NEW j \in ItemOf(l),
                      NEW p \in Nat, p < Phases(l, g, i), p < Phases(l, g, j),
                      NEW x \in DOMAIN Code(l, g, i, p) \cap DOMAIN Code(l, g, j, p)
               PROVE  i = j
    BY DEF Agree
  <2>1. x \in Touched(Code(l, g, j, p)) BY DEF Touched
  <2> QED BY <2>1 DEF Private
<1> QED BY <1>1, <1>2

\* The code of one cell.
LEMMA CodeOfOne ==
  ASSUME NEW x, NEW s
  PROVE  /\ DOMAIN At(x, s) = {x} /\ At(x, s)[x] = s
         /\ Touched(At(x, s)) = {x} \cup Range(s)
<1>1. DOMAIN At(x, s) = {x} /\ At(x, s)[x] = s BY DEF At
<1>2. Reads(At(x, s)) = Range(s)
  <2> DEFINE f == At(x, s)
  <2> HIDE DEF f
  <2>1. DOMAIN f = {x} /\ f[x] = s BY <1>1 DEF f
  <2>2. {Range(f[y]) : y \in DOMAIN f} = {Range(s)} BY <2>1
  <2> QED BY <2>2 DEF Reads, f
<1> QED BY <1>1, <1>2 DEF Touched

LEMMA CodeOfNone == DOMAIN Nothing = {} /\ Touched(Nothing) = {}
BY DEF Nothing, Touched, Reads

LEMMA RangeOfOne == ASSUME NEW y PROVE Range(<<y>>) = {y}
BY DEF Range

LEMMA RangeOfTwo == ASSUME NEW y, NEW z PROVE Range(<<y, z>>) = {y, z}
<1>1. DOMAIN <<y, z>> = {1, 2} OBVIOUS
<1> QED BY <1>1 DEF Range

LEMMA CodeOfCopy ==
  ASSUME NEW x, NEW y
  PROVE  DOMAIN Copied(x, y) = {x} /\ Touched(Copied(x, y)) = {x, y}
         /\ Copied(x, y)[x] = <<y>>
<1> DEFINE s == <<y>>
<1>1. Range(s) = {y} BY RangeOfOne
<1>2. Copied(x, y) = At(x, s) BY DEF Copied
<1> HIDE DEF s
<1>3. /\ DOMAIN At(x, s) = {x} /\ At(x, s)[x] = s
      /\ Touched(At(x, s)) = {x} \cup Range(s)
  BY CodeOfOne
<1> QED BY <1>1, <1>2, <1>3 DEF s

LEMMA CodeOfTwo ==
  ASSUME NEW x, NEW y, NEW z
  PROVE  DOMAIN At(x, <<y, z>>) = {x} /\ Touched(At(x, <<y, z>>)) = {x, y, z}
<1> DEFINE s == <<y, z>>
<1>1. Range(s) = {y, z} BY RangeOfTwo
<1> HIDE DEF s
<1>2. DOMAIN At(x, s) = {x} /\ Touched(At(x, s)) = {x} \cup Range(s) BY CodeOfOne
<1> QED BY <1>1, <1>2 DEF s

LEMMA CodeOfMerged ==
  ASSUME NEW f, NEW h
  PROVE  /\ DOMAIN Merged(f, h) = DOMAIN f \cup DOMAIN h
         /\ Touched(Merged(f, h)) \subseteq Touched(f) \cup Touched(h)
         /\ \A x \in DOMAIN Merged(f, h) :
              Merged(f, h)[x] = IF x \in DOMAIN f THEN f[x] ELSE h[x]
<1> DEFINE m == Merged(f, h)
<1>1. DOMAIN m = DOMAIN f \cup DOMAIN h
      /\ \A x \in DOMAIN m : m[x] = IF x \in DOMAIN f THEN f[x] ELSE h[x]
  BY DEF Merged
<1> HIDE DEF m
<1>2. ASSUME NEW y \in Reads(m) PROVE y \in Reads(f) \cup Reads(h)
  <2>1. PICK x \in DOMAIN m : y \in Range(m[x]) BY DEF Reads
  <2>2. CASE x \in DOMAIN f
    <3>1. y \in Range(f[x]) BY <2>1, <2>2, <1>1
    <3> QED BY <3>1, <2>2 DEF Reads
  <2>3. CASE x \notin DOMAIN f
    <3>1. x \in DOMAIN h /\ y \in Range(h[x]) BY <2>1, <2>3, <1>1
    <3> QED BY <3>1 DEF Reads
  <2> QED BY <2>2, <2>3
<1> QED BY <1>1, <1>2 DEF Touched, m

-----------------------------------------------------------------------------
(***************************************************************************)
(* A launch of items of one dimension.                                     *)
(***************************************************************************)
LEMMA LineIsShaped ==
  ASSUME NEW c, NEW l, NEW n \in Nat, NEW side \in Positive, c.warp \in Positive,
         l.local = 0, l.items = side,
         l.groups = CeilToMultipleOf(n, side) \div side
  PROVE  Shape(c, l)
<1>1. CeilToMultipleOf(n, side) \div side \in Positive BY Rounded
<1> QED BY <1>1 DEF Shape, Positive

\* Their identifiers tell the items apart.
LEMMA GlobalIds ==
  ASSUME NEW l, l.side \in Positive, l.items = l.side, l.groups \in Nat,
         NEW g \in GroupOf(l), NEW i \in ItemOf(l)
  PROVE  /\ GlobalId(l, g, i) \in 0 .. l.groups * l.side - 1
         /\ \A h \in GroupOf(l), j \in ItemOf(l) :
              GlobalId(l, g, i) = GlobalId(l, h, j) => g = h /\ i = j
<1> USE DEF GroupOf, ItemOf
<1>1. GlobalId(l, g, i) \in 0 .. l.groups * l.side - 1 BY Place DEF GlobalId, Positive
<1>2. ASSUME NEW h \in GroupOf(l), NEW j \in ItemOf(l), GlobalId(l, g, i) = GlobalId(l, h, j)
      PROVE  g = h /\ i = j
  BY <1>2, PlaceUnique DEF GlobalId
<1> QED BY <1>1, <1>2

-----------------------------------------------------------------------------
(***************************************************************************)
(* Zip.                                                                    *)
(***************************************************************************)
LEMMA ZipFacts ==
  ASSUME NEW c, c.skeleton = "zip", ZipCall(c)
  PROVE  \E l : /\ LaunchOf(c) = {l} /\ Launches(c) \in Seq({l})
                /\ l.kernel = "SCL_ZIP" /\ l.side = c.side /\ l.items = c.side
                /\ l.local = 0 /\ l.elements = c.n /\ l.out \in {In, Second, Out}
                /\ l.groups = CeilToMultipleOf(c.n, c.side) \div c.side
<1> DEFINE line == Line(c.n, c.side)
           l == IF c.result THEN ZipLaunch(c) ELSE ZipVoidLaunch(c)
<1>1. Launches(c) = <<l>> BY DEF Launches
<1>2. LaunchOf(c) = {l} /\ Launches(c) \in Seq({l}) BY <1>1 DEF LaunchOf
<1>3. ASSUME NEW o
      PROVE  LET m == Merged(line, [kernel |-> "SCL_ZIP", elements |-> c.n, out |-> o])
             IN  /\ m.kernel = "SCL_ZIP" /\ m.side = c.side /\ m.items = c.side
                 /\ m.local = 0 /\ m.elements = c.n /\ m.out = o
                 /\ m.groups = CeilToMultipleOf(c.n, c.side) \div c.side
  BY DEF Merged, Line
<1>4. /\ l.kernel = "SCL_ZIP" /\ l.side = c.side /\ l.items = c.side
      /\ l.local = 0 /\ l.elements = c.n /\ l.out \in {In, Second, Out}
      /\ l.groups = CeilToMultipleOf(c.n, c.side) \div c.side
  <2>1. CASE c.result BY <2>1, <1>3 DEF ZipLaunch, ZipCall
  <2>2. CASE ~ c.result BY <2>2, <1>3 DEF ZipVoidLaunch
  <2> QED BY <2>1, <2>2
<1> HIDE DEF l
<1> QED BY <1>2, <1>4

LEMMA ZipCodes ==
  ASSUME NEW l, l.kernel = "SCL_ZIP", NEW g, NEW i, NEW p
  PROVE  LET id == GlobalId(l, g, i)
         IN  /\ Phases(l, g, i) = 1
             /\ \A x \in DOMAIN Code(l, g, i, p) : id < l.elements /\ x = Cell(l.out, id)
             /\ Touched(Code(l, g, i, p)) \subseteq
                  {Cell(l.out, id), Cell(In, id), Cell(Second, id)}
<1> DEFINE id == GlobalId(l, g, i)
<1>1. Phases(l, g, i) = 1 BY DEF Phases, OnePhase
<1>2. Code(l, g, i, p) =
        IF id < l.elements THEN At(Cell(l.out, id), <<Cell(In, id), Cell(Second, id)>>)
        ELSE Nothing
  BY DEF Code, ZipCode
<1> HIDE DEF id
<1> DEFINE one == At(Cell(l.out, id), <<Cell(In, id), Cell(Second, id)>>)
<1>5. /\ DOMAIN one = {Cell(l.out, id)}
      /\ Touched(one) = {Cell(l.out, id), Cell(In, id), Cell(Second, id)}
  <2> DEFINE at == Cell(l.out, id)
             y == Cell(In, id)
             z == Cell(Second, id)
  <2>1. one = At(at, <<y, z>>) OBVIOUS
  <2> HIDE DEF at, y, z, one
  <2>2. DOMAIN At(at, <<y, z>>) = {at} /\ Touched(At(at, <<y, z>>)) = {at, y, z}
    BY CodeOfTwo, ZenonT(60)
  <2>3. DOMAIN one = {at} /\ Touched(one) = {at, y, z} BY <2>1, <2>2
  <2> QED BY <2>3 DEF at, y, z
<1> HIDE DEF one
<1>3. \A x \in DOMAIN Code(l, g, i, p) : id < l.elements /\ x = Cell(l.out, id)
  BY <1>2, <1>5, CodeOfNone DEF one
<1>4. Touched(Code(l, g, i, p)) \subseteq {Cell(l.out, id), Cell(In, id), Cell(Second, id)}
  BY <1>2, <1>5, CodeOfNone DEF one
<1> QED BY <1>1, <1>3, <1>4 DEF id

LEMMA ZipIsSafe ==
  ASSUME NEW c, c.skeleton = "zip", ZipCall(c)
  PROVE  /\ Scheduled(c)
         /\ \A l \in LaunchOf(c) : Fits(c, l) /\ Apart(c, l) /\ Agree(c, l)
<1>1. PICK l : /\ LaunchOf(c) = {l} /\ Launches(c) \in Seq({l})
               /\ l.kernel = "SCL_ZIP" /\ l.side = c.side /\ l.items = c.side
               /\ l.local = 0 /\ l.elements = c.n /\ l.out \in {In, Second, Out}
               /\ l.groups = CeilToMultipleOf(c.n, c.side) \div c.side
  BY ZipFacts
<1>2. c.n \in Positive /\ c.n \in Nat /\ c.side \in Positive /\ c.warp \in Positive
  BY DEF ZipCall, Positive
<1>3. Shape(c, l) BY <1>1, <1>2, LineIsShaped
<1>4. Even(l) BY <1>1, ZipCodes DEF Even
<1>5. Fits(c, l)
  <2> SUFFICES ASSUME NEW g \in GroupOf(l), NEW i \in ItemOf(l), NEW p \in Nat,
                      NEW x \in DOMAIN Code(l, g, i, p)
               PROVE  /\ x[1] # Shared /\ x[1] \in DOMAIN Buffers(c)
                      /\ x[2] \in DOMAIN Buffers(c)[x[1]]
    BY DEF Fits
  <2> DEFINE id == GlobalId(l, g, i)
  <2>1. id < l.elements /\ x = <<l.out, id>> BY <1>1, ZipCodes DEF Cell
  <2>2. id \in Nat BY <1>1, <1>2, <1>3, GlobalIds DEF Shape
  <2>3. Buffers(c) = [b \in {In, Second, Out} |->
                        CASE b = In     -> Labelled(c.n, 0)
                          [] b = Second -> Labelled(c.n, 100)
                          [] OTHER      -> Fresh(c.n)]
    BY DEF Buffers, ZipBuffers
  <2>4. \A b \in {In, Second, Out} : DOMAIN Buffers(c)[b] = 0 .. c.n - 1
    BY <2>3 DEF Labelled, Fresh, In, Second, Out
  <2>5. DOMAIN Buffers(c) = {In, Second, Out} /\ Shared \notin {In, Second, Out}
    BY <2>3 DEF In, Second, Out, Shared
  <2>6. id \in 0 .. c.n - 1 BY <1>1, <1>2, <2>1, <2>2
  <2> HIDE DEF id
  <2> QED BY <1>1, <2>1, <2>4, <2>5, <2>6
<1>6. Private(l)
  <2> SUFFICES ASSUME NEW g \in GroupOf(l), NEW h \in GroupOf(l),
                      NEW i \in ItemOf(l), NEW j \in ItemOf(l), NEW p \in Nat, NEW q \in Nat,
                      NEW x \in DOMAIN Code(l, g, i, p), x \in Touched(Code(l, h, j, q))
               PROVE  g = h /\ i = j
    BY DEF Private
  <2>1. x = <<l.out, GlobalId(l, g, i)>> BY <1>1, ZipCodes DEF Cell
  <2>2. x[2] = GlobalId(l, h, j) BY <1>1, ZipCodes DEF Cell
  <2>3. GlobalId(l, g, i) = GlobalId(l, h, j) BY <2>1, <2>2
  <2> QED BY <2>3, <1>1, <1>2, <1>3, GlobalIds DEF Shape
<1> QED BY <1>1, <1>3, <1>4, <1>5, <1>6, PrivateIsSafe DEF Scheduled

-----------------------------------------------------------------------------
(***************************************************************************)
(* Reduce.                                                                 *)
(***************************************************************************)
LEMMA StridedCells ==
  ASSUME NEW b, NEW first, NEW step, NEW size
  PROVE  \A y \in Range(Strided(b, first, step, size)) : y[1] = b
<1> DEFINE n == Max({1, CeilDiv(size - first, step)})
           s == [k \in 1 .. n |-> Cell(b, first + (k - 1) * step)]
<1>1. Strided(b, first, step, size) = s BY DEF Strided
<1>2. \A k \in DOMAIN s : s[k][1] = b BY DEF Cell
<1> HIDE DEF s
<1> QED BY <1>1, <1>2 DEF Range

\* What is left in each round.
LEMMA RemainingFacts ==
  ASSUME NEW l, l.items \in Nat, l.size \in Nat
  PROVE  /\ Remaining(l) \in [Nat -> Nat]
         /\ Remaining(l)[0] = Min({l.items, l.size})
         /\ \A n \in Nat : Remaining(l)[n + 1] = CeilDiv(Remaining(l)[n], 2)
<1> DEFINE start == Min({l.items, l.size})
           step == [x \in Nat \X Nat |-> CeilDiv(x[2], 2)]
           Eq(f) == f = [n \in Nat |-> IF n = 0 THEN start ELSE CeilDiv(f[n - 1], 2)]
           S == CHOOSE f : Eq(f)
<1>1. Remaining(l) = S BY DEF Remaining
<1>2. start \in Nat
  <2>1. l.items \in Int /\ l.size \in Int OBVIOUS
  <2>2. Min({l.items, l.size}) \in {l.items, l.size} BY <2>1, MinOfTwo
  <2> QED BY <2>2
<1>3. step \in [Nat \X Nat -> Nat]
  <2>1. \A a \in Nat : CeilDiv(a, 2) \in Nat BY DEF CeilDiv
  <2> QED BY <2>1
<1>4. Initial(Nat) BY DEF Initial
<1> HIDE DEF start
<1>5. PICK f \in [Nat -> Nat] : Follows(f, Nat, start, step)
  <2> HIDE DEF step
  <2> QED BY <1>2, <1>3, <1>4, Recursion
<1>6. Eq(f)
  <2>1. \A n \in Nat : n # 0 => step[<<n, f[n - 1]>>] = CeilDiv(f[n - 1], 2) OBVIOUS
  <2> HIDE DEF step
  <2>2. f = [n \in Nat |-> IF n = 0 THEN start ELSE step[<<n, f[n - 1]>>]]
    BY <1>5 DEF Follows
  <2> QED BY <2>1, <2>2
<1>7. Eq(S)
  <2> HIDE DEF Eq
  <2> QED BY <1>6
<1> HIDE DEF S
<1> DEFINE A == {n \in Nat : S[n] \in Nat}
<1>8. S[0] = start BY <1>7
<1>9. \A n \in Nat : S[n + 1] = CeilDiv(S[n], 2)
  <2> SUFFICES ASSUME NEW n \in Nat PROVE S[n + 1] = CeilDiv(S[n], 2) OBVIOUS
  <2>1. n + 1 \in Nat /\ n + 1 # 0 /\ (n + 1) - 1 = n OBVIOUS
  <2> QED BY <2>1, <1>7
<1>10. \A n \in Nat : n \in A
  <2>1. 0 \in A BY <1>2, <1>8
  <2>2. \A n \in Nat : n \in A => n + 1 \in A BY <1>9 DEF CeilDiv
  <2> HIDE DEF A
  <2> QED BY <2>1, <2>2, Naturals
<1>11. S \in [Nat -> Nat] BY <1>7, <1>10
<1> QED BY <1>1, <1>8, <1>9, <1>11 DEF start

\* The loop ends.
LEMMA RoundsFacts ==
  ASSUME NEW l, l.items \in Nat, l.size \in Nat
  PROVE  Rounds(l) \in Nat /\ Remaining(l)[Rounds(l)] <= 1
<1> DEFINE R == Remaining(l)
           A == {n \in Nat : n <= l.items => R[n] <= 1 \/ R[n] + n <= l.items}
           T == {n \in Nat : R[n] <= 1}
<1>1. R \in [Nat -> Nat] /\ R[0] = Min({l.items, l.size})
      /\ \A n \in Nat : R[n + 1] = CeilDiv(R[n], 2)
  BY RemainingFacts
<1> HIDE DEF R
<1>2. 0 \in A
  <2>1. l.items \in Int /\ l.size \in Int OBVIOUS
  <2>2. Min({l.items, l.size}) <= l.items BY <2>1, MinOfTwo
  <2> QED BY <1>1, <2>2
<1>3. ASSUME NEW n \in Nat, n \in A PROVE n + 1 \in A
  <2> SUFFICES ASSUME n + 1 <= l.items
               PROVE  R[n + 1] <= 1 \/ R[n + 1] + (n + 1) <= l.items
    OBVIOUS
  <2>1. R[n] \in Nat /\ R[n + 1] = (R[n] + 2 - 1) \div 2 BY <1>1 DEF CeilDiv
  <2>2. CASE R[n] <= 1 BY <2>1, <2>2
  <2>3. CASE R[n] > 1 /\ R[n] + n <= l.items
    <3>1. R[n + 1] <= R[n] - 1 BY <2>1, <2>3
    <3> QED BY <3>1, <2>1, <2>3
  <2> QED BY <2>2, <2>3, <1>3, <2>1
<1>4. \A n \in Nat : n \in A
  <2> HIDE DEF A
  <2> QED BY <1>2, <1>3, Naturals
<1>5. l.items \in T BY <1>1, <1>4
<1>6. T \in SUBSET Nat /\ T # {} BY <1>5
<1>7. PICK m \in T : \A y \in T : m <= y BY <1>6, Least
<1>8. /\ m \in 0 .. l.items /\ R[m] <= 1
      /\ \A k \in 0 .. m - 1 : R[k] > 1
  BY <1>1, <1>5, <1>7
<1>9. \E n \in 0 .. l.items : R[n] <= 1 /\ \A k \in 0 .. n - 1 : R[k] > 1 BY <1>8
<1>10. Rounds(l) \in 0 .. l.items /\ R[Rounds(l)] <= 1 BY <1>9 DEF Rounds, R
<1> QED BY <1>10 DEF R

LEMMA ReduceFirstIsSafe ==
  ASSUME NEW c, c.skeleton = "reduce", ReduceCall(c), NEW l, l = ReduceFirst(c)
  PROVE  Shape(c, l) /\ Even(l) /\ Fits(c, l) /\ Apart(c, l) /\ Agree(c, l)
<1> DEFINE pos(g, i) == g * l.items + i
<1>1. /\ l.kernel = "SCL_REDUCE_1" /\ l.items = c.wg /\ l.local = 0
      /\ l.groups = GlobalSize \div c.wg
  BY DEF ReduceFirst
<1>2. c.wg \in Positive /\ c.warp \in Positive /\ GlobalSize \in Nat
  BY GlobalSizeAssumption DEF ReduceCall, Positive
<1>3. l.groups \in Nat /\ l.groups * l.items <= GlobalSize
  <2> DEFINE q == GlobalSize \div c.wg
  <2>1. q \in Nat /\ GlobalSize % c.wg \in 0 .. c.wg - 1
        /\ GlobalSize = c.wg * q + (GlobalSize % c.wg)
    BY <1>2, Division
  <2> HIDE DEF q
  <2>2. c.wg * q = q * c.wg /\ q * c.wg \in Nat BY <1>2, <2>1, Times DEF Positive
  <2> QED BY <1>1, <1>2, <2>1, <2>2 DEF q
<1>4. Shape(c, l) BY <1>1, <1>2, <1>3 DEF Shape
<1>5. ASSUME NEW g \in GroupOf(l), NEW i \in ItemOf(l), NEW p \in Nat
      PROVE  /\ Phases(l, g, i) = 1
             /\ pos(g, i) \in 0 .. l.groups * l.items - 1
             /\ DOMAIN Code(l, g, i, p) \subseteq {Cell(Temporary(0), pos(g, i))}
             /\ \A y \in Touched(Code(l, g, i, p)) :
                  y[1] = In \/ y = Cell(Temporary(0), pos(g, i))
  <2>1. Phases(l, g, i) = 1 BY <1>1 DEF Phases, OnePhase
  <2>2. pos(g, i) \in 0 .. l.groups * l.items - 1
    BY <1>1, <1>2, <1>3, Place DEF GroupOf, ItemOf, Positive
  <2> DEFINE s == Strided(In, pos(g, i), GlobalSize, l.size)
             one == At(Cell(Temporary(0), pos(g, i)), s)
  <2>3. Code(l, g, i, p) = IF pos(g, i) > l.size THEN Nothing ELSE one
    BY <1>1 DEF Code, ReduceFirstCode
  <2>4. \A y \in Range(s) : y[1] = In BY StridedCells
  <2> HIDE DEF s
  <2>5. /\ DOMAIN one = {Cell(Temporary(0), pos(g, i))}
        /\ Touched(one) = {Cell(Temporary(0), pos(g, i))} \cup Range(s)
    BY CodeOfOne
  <2> HIDE DEF one
  <2> QED BY <2>1, <2>2, <2>3, <2>4, <2>5, CodeOfNone
<1> HIDE DEF pos
<1>6. Even(l) BY <1>5 DEF Even
<1>7. Fits(c, l)
  <2> SUFFICES ASSUME NEW g \in GroupOf(l), NEW i \in ItemOf(l), NEW p \in Nat,
                      NEW x \in DOMAIN Code(l, g, i, p)
               PROVE  /\ x[1] # Shared /\ x[1] \in DOMAIN Buffers(c)
                      /\ x[2] \in DOMAIN Buffers(c)[x[1]]
    BY DEF Fits
  <2>1. x = <<Temporary(0), pos(g, i)>> BY <1>5 DEF Cell
  <2>2. Buffers(c) = [b \in {In, Out, Temporary(0)} |->
                        CASE b = In  -> Labelled(c.n, 0)
                          [] b = Out -> Fresh(1)
                          [] OTHER   -> Fresh(GlobalSize)]
    BY DEF Buffers, ReduceBuffers
  <2>3. DOMAIN Buffers(c)[Temporary(0)] = 0 .. GlobalSize - 1
    BY <2>2 DEF Fresh, In, Out, Temporary
  <2>4. Temporary(0) # Shared /\ Temporary(0) \in DOMAIN Buffers(c)
    BY <2>2 DEF Shared, Temporary
  <2>5. pos(g, i) \in 0 .. GlobalSize - 1
    <3>1. pos(g, i) \in 0 .. l.groups * l.items - 1 BY <1>5
    <3>2. l.groups * l.items \in Nat BY <1>1, <1>2, <1>3, Times DEF Positive
    <3> QED BY <3>1, <3>2, <1>2, <1>3
  <2> QED BY <2>1, <2>3, <2>4, <2>5
<1>8. Private(l)
  <2> SUFFICES ASSUME NEW g \in GroupOf(l), NEW h \in GroupOf(l),
                      NEW i \in ItemOf(l), NEW j \in ItemOf(l), NEW p \in Nat, NEW q \in Nat,
                      NEW x \in DOMAIN Code(l, g, i, p), x \in Touched(Code(l, h, j, q))
               PROVE  g = h /\ i = j
    BY DEF Private
  <2>1. x = Cell(Temporary(0), pos(g, i)) BY <1>5
  <2>2. x[1] = In \/ x = Cell(Temporary(0), pos(h, j)) BY <1>5
  <2>3. pos(g, i) = pos(h, j) BY <2>1, <2>2 DEF Cell, In, Temporary
  <2> QED BY <2>3, <1>1, <1>2, <1>3, PlaceUnique DEF pos, GroupOf, ItemOf
<1> QED BY <1>4, <1>6, <1>7, <1>8, PrivateIsSafe

\* Only its one group, which is one warp, makes the second launch safe.
LEMMA ReduceSecondIsSafe ==
  ASSUME NEW c, c.skeleton = "reduce", ReduceCall(c), NEW l, l = ReduceSecond(c)
  PROVE  /\ Shape(c, l) /\ Even(l) /\ Fits(c, l)
         /\ l.items <= c.warp => Apart(c, l) /\ Agree(c, l)
<1> DEFINE n == Rounds(l)
<1>1. /\ l.kernel = "SCL_REDUCE_2" /\ l.groups = 1 /\ l.local = l.items
      /\ l.items = Min({Min({GlobalSize, c.n}), c.max})
      /\ l.size = Min({GlobalSize, c.n})
  BY DEF ReduceSecond
<1>2. c.max \in Positive /\ c.n \in Positive /\ GlobalSize \in Positive /\ c.warp \in Positive
  BY GlobalSizeAssumption DEF ReduceCall, Positive
<1>3. l.size \in Positive /\ l.items \in Positive
  <2>1. \A a, b \in Positive : Min({a, b}) \in Positive
    <3> SUFFICES ASSUME NEW a \in Positive, NEW b \in Positive PROVE Min({a, b}) \in Positive
      OBVIOUS
    <3>1. a \in Int /\ b \in Int BY DEF Positive
    <3>2. Min({a, b}) \in {a, b} BY <3>1, MinOfTwo
    <3> QED BY <3>2
  <2>2. l.size \in Positive BY <1>1, <1>2, <2>1
  <2>3. l.items = Min({l.size, c.max}) BY <1>1
  <2> QED BY <1>2, <2>1, <2>2, <2>3
<1>4. Shape(c, l) BY <1>1, <1>2, <1>3 DEF Shape, Positive
<1>5. n \in Nat BY <1>3, RoundsFacts DEF Positive
<1>6. \A g, i : Phases(l, g, i) = n + 2 BY <1>1 DEF Phases, OnePhase, ReduceSecondPhases
<1>7. ASSUME NEW g \in GroupOf(l), NEW i \in ItemOf(l), NEW p \in Nat, p < n + 2
      PROVE  /\ p < n + 1 => DOMAIN Code(l, g, i, p) \subseteq {Cell(Shared, i)}
             /\ p = n + 1 => Code(l, g, i, p) = Copied(Cell(Out, 0), Cell(Shared, 0))
  <2>1. Code(l, g, i, p) = ReduceSecondCode(l, i, p) BY <1>1 DEF Code
  <2>2. CASE p = 0
    <3>1. Code(l, g, i, p) = At(Cell(Shared, i), Strided(Temporary(0), i, l.items, l.size))
      BY <2>1, <2>2, <1>5 DEF ReduceSecondCode
    <3>2. DOMAIN Code(l, g, i, p) = {Cell(Shared, i)} BY <3>1, CodeOfOne
    <3> QED BY <3>2, <2>2, <1>5
  <2>3. CASE p \in 1 .. n
    <3> DEFINE size == Remaining(l)[p - 1]
    <3>1. Code(l, g, i, p) = FoldHalves(i, size) BY <2>1, <2>3, <1>5 DEF ReduceSecondCode
    <3> HIDE DEF size
    <3>2. Code(l, g, i, p) =
            IF i < size \div 2
            THEN At(Cell(Shared, i), <<Cell(Shared, i), Cell(Shared, i + CeilDiv(size, 2))>>)
            ELSE Nothing
      BY <3>1 DEF FoldHalves
    <3> DEFINE one ==
          At(Cell(Shared, i), <<Cell(Shared, i), Cell(Shared, i + CeilDiv(size, 2))>>)
    <3>3. DOMAIN one = {Cell(Shared, i)} BY CodeOfTwo
    <3> HIDE DEF one
    <3>4. DOMAIN Code(l, g, i, p) \subseteq {Cell(Shared, i)}
      BY <3>2, <3>3, CodeOfNone DEF one
    <3> QED BY <3>4, <2>3, <1>5
  <2>4. CASE p = n + 1
    <3>1. p # 0 /\ p \notin 1 .. n BY <2>4, <1>5
    <3> QED BY <2>1, <2>4, <3>1, <1>5 DEF ReduceSecondCode
  <2> QED BY <2>2, <2>3, <2>4, <1>5, <1>7
<1> HIDE DEF n
<1>8. Even(l) BY <1>5, <1>6 DEF Even
<1>9. Fits(c, l)
  <2> SUFFICES ASSUME NEW g \in GroupOf(l), NEW i \in ItemOf(l), NEW p \in Nat,
                      p < Phases(l, g, i), NEW x \in DOMAIN Code(l, g, i, p)
               PROVE  IF x[1] = Shared THEN x[2] \in 0 .. l.local - 1
                      ELSE x[1] \in DOMAIN Buffers(c) /\ x[2] \in DOMAIN Buffers(c)[x[1]]
    BY DEF Fits
  <2>1. x = <<Shared, i>> \/ x = <<Out, 0>>
    <3>1. p < n + 1 \/ p = n + 1 BY <1>5, <1>6
    <3>2. CASE p < n + 1 BY <3>2, <1>6, <1>7 DEF Cell
    <3>3. CASE p = n + 1
      <4>1. DOMAIN Copied(Cell(Out, 0), Cell(Shared, 0)) = {Cell(Out, 0)} BY CodeOfCopy
      <4> QED BY <3>3, <4>1, <1>6, <1>7 DEF Cell
    <3> QED BY <3>1, <3>2, <3>3
  <2>2. Buffers(c) = [b \in {In, Out, Temporary(0)} |->
                        CASE b = In  -> Labelled(c.n, 0)
                          [] b = Out -> Fresh(1)
                          [] OTHER   -> Fresh(GlobalSize)]
    BY DEF Buffers, ReduceBuffers
  <2>3. Out \in DOMAIN Buffers(c) /\ DOMAIN Buffers(c)[Out] = 0 .. 0 /\ Out # Shared
    BY <2>2 DEF Fresh, In, Out, Shared
  <2> QED BY <2>1, <2>3, <1>1 DEF ItemOf
<1>10. ASSUME l.items <= c.warp PROVE Apart(c, l) /\ Agree(c, l)
  <2>1. ASSUME NEW i \in ItemOf(l) PROVE i \div c.warp = 0
    <3>1. i \in 0 .. c.warp - 1 BY <1>2, <1>3, <1>10 DEF ItemOf, Positive
    <3>2. (c.warp * 0 + i) \div c.warp = 0 BY <3>1, <1>2, Quotient
    <3>3. c.warp * 0 + i = i BY <3>1, <1>2 DEF Positive
    <3> QED BY <3>2, <3>3
  <2>2. \A g, h \in GroupOf(l) : g = h BY <1>1 DEF GroupOf
  <2>3. Apart(c, l) BY <2>1, <2>2 DEF Apart
  <2>4. Agree(c, l)
    <3> SUFFICES ASSUME NEW g \in GroupOf(l), NEW i \in ItemOf(l), NEW j \in ItemOf(l),
                        NEW p \in Nat, p < Phases(l, g, i),
                        NEW x \in DOMAIN Code(l, g, i, p) \cap DOMAIN Code(l, g, j, p)
                 PROVE  Code(l, g, i, p)[x] = Code(l, g, j, p)[x]
      BY DEF Agree
    <3>1. CASE p < n + 1
      <4>1. x = Cell(Shared, i) /\ x = Cell(Shared, j) BY <3>1, <1>5, <1>6, <1>7
      <4>2. i = j BY <4>1 DEF Cell
      <4> QED BY <4>2
    <3>2. CASE p = n + 1 BY <3>2, <1>5, <1>6, <1>7
    <3> QED BY <3>1, <3>2, <1>5, <1>6
  <2> QED BY <2>3, <2>4
<1> QED BY <1>4, <1>8, <1>9, <1>10

LEMMA ReduceIsScheduled ==
  ASSUME NEW c, c.skeleton = "reduce", ReduceCall(c)
  PROVE  /\ Scheduled(c)
         /\ LaunchOf(c) = {ReduceFirst(c), ReduceSecond(c)}
<1> DEFINE a == ReduceFirst(c)
           b == ReduceSecond(c)
<1>1. Launches(c) = <<a, b>> BY DEF Launches, ReduceLaunches
<1>2. \A l \in {a, b} : Shape(c, l) /\ Even(l)
  BY ReduceFirstIsSafe, ReduceSecondIsSafe
<1> HIDE DEF a, b
<1>3. DOMAIN <<a, b>> = {1, 2} OBVIOUS
<1>4. LaunchOf(c) = {a, b} BY <1>1, <1>3 DEF LaunchOf
<1>5. Launches(c) \in Seq(LaunchOf(c)) BY <1>1, <1>4
<1> QED BY <1>2, <1>4, <1>5 DEF Scheduled, a, b

-----------------------------------------------------------------------------
(***************************************************************************)
(* AllPairs.                                                               *)
(***************************************************************************)
\* What the launch says of the matrices.
Covering(l) ==
  /\ l.C \in Positive /\ l.R \in Positive /\ l.S \in Positive /\ l.D \in Positive
  /\ l.height \in Positive /\ l.width \in Positive /\ l.dimension \in Positive
  /\ l.across \in Positive /\ l.groups \in Nat /\ l.items = l.C * l.R
  /\ \E down \in Nat : l.groups = down * l.across
  /\ l.local = l.R * l.D + l.D * l.C

LEMMA Coordinates ==
  ASSUME NEW l, Covering(l), NEW g \in GroupOf(l), NEW i \in ItemOf(l)
  PROVE  /\ g \div l.across \in Nat /\ g % l.across \in 0 .. l.across - 1
         /\ g = (g \div l.across) * l.across + (g % l.across)
         /\ l_row(l, i) \in 0 .. l.R - 1 /\ l_col(l, i) \in 0 .. l.C - 1
         /\ i = l_row(l, i) * l.C + l_col(l, i)
         /\ row(l, g, i) = (g \div l.across) * (l.R * l.S) + l_row(l, i)
         /\ row(l, g, i) \in Nat /\ col(l, g, i) \in Nat
<1> USE DEF Covering
<1>1. PICK down \in Nat : l.groups = down * l.across OBVIOUS
<1>2. g \in 0 .. down * l.across - 1 BY <1>1 DEF GroupOf
<1>3. /\ g \div l.across \in 0 .. down - 1 /\ g % l.across \in 0 .. l.across - 1
      /\ g = (g \div l.across) * l.across + (g % l.across)
  BY <1>2, PlaceOf
<1>4. l.C * l.R = l.R * l.C BY DEF Positive
<1>5. i \in 0 .. l.R * l.C - 1 BY <1>4 DEF ItemOf
<1>6. /\ i \div l.C \in 0 .. l.R - 1 /\ i % l.C \in 0 .. l.C - 1
      /\ i = (i \div l.C) * l.C + (i % l.C)
  <2>1. l.R \in Nat /\ l.C \in Nat \ {0} BY DEF Positive
  <2> QED BY <1>5, <2>1, PlaceOf
<1> DEFINE y == g \div l.across
           x == g % l.across
<1>7. y \in Nat /\ x \in Nat BY <1>3 DEF Positive
<1> HIDE DEF y, x
<1>8. y * l.R * l.S = y * (l.R * l.S) /\ y * (l.R * l.S) \in Nat
  <2>1. l.R * l.S \in Nat BY Times DEF Positive
  <2>2. y * (l.R * l.S) \in Nat BY <1>7, <2>1, Times
  <2>3. \A a, b, d \in Nat : a * b * d = a * (b * d) OBVIOUS
  <2>4. l.R \in Nat /\ l.S \in Nat BY DEF Positive
  <2> QED BY <1>7, <2>2, <2>3, <2>4
<1>9. x * l.C \in Nat BY <1>7, Times DEF Positive
<1> QED BY <1>3, <1>6, <1>7, <1>8, <1>9 DEF row, col, l_row, l_col, x, y

\* The place in the output tells whose it is.
LEMMA Owner ==
  ASSUME NEW l, Covering(l), NEW g \in GroupOf(l), NEW h \in GroupOf(l),
         NEW i \in ItemOf(l), NEW j \in ItemOf(l),
         NEW m \in 0 .. l.S - 1, NEW n \in 0 .. l.S - 1,
         row(l, g, i) + m * l.R = row(l, h, j) + n * l.R, col(l, g, i) = col(l, h, j)
  PROVE  g = h /\ i = j
<1> USE DEF Covering
<1> DEFINE W == l.R * l.S
           y == g \div l.across
           z == h \div l.across
           a == m * l.R + l_row(l, i)
           b == n * l.R + l_row(l, j)
<1>1. W \in Positive BY Product
<1>2. /\ y \in Nat /\ g % l.across \in 0 .. l.across - 1
      /\ g = y * l.across + (g % l.across)
      /\ l_row(l, i) \in 0 .. l.R - 1 /\ l_col(l, i) \in 0 .. l.C - 1
      /\ i = l_row(l, i) * l.C + l_col(l, i)
      /\ row(l, g, i) = y * W + l_row(l, i)
  BY Coordinates
<1>3. /\ z \in Nat /\ h % l.across \in 0 .. l.across - 1
      /\ h = z * l.across + (h % l.across)
      /\ l_row(l, j) \in 0 .. l.R - 1 /\ l_col(l, j) \in 0 .. l.C - 1
      /\ j = l_row(l, j) * l.C + l_col(l, j)
      /\ row(l, h, j) = z * W + l_row(l, j)
  BY Coordinates
<1>4. a \in 0 .. W - 1 /\ b \in 0 .. W - 1
  <2>1. a \in 0 .. l.S * l.R - 1 /\ b \in 0 .. l.S * l.R - 1
    BY <1>2, <1>3, Place DEF Positive
  <2>2. l.S * l.R = W BY DEF Positive
  <2> QED BY <2>1, <2>2
<1> HIDE DEF W, y, z
<1>5. y * W + a = z * W + b
  <2>1. y * W \in Nat /\ z * W \in Nat /\ m * l.R \in Nat /\ n * l.R \in Nat
    BY <1>1, <1>2, <1>3, Times DEF Positive
  <2> QED BY <2>1, <1>2, <1>3
<1>6. y = z /\ a = b
  <2> HIDE DEF a, b
  <2> QED BY <1>1, <1>2, <1>3, <1>4, <1>5, PlaceUnique
<1>7. l_row(l, i) = l_row(l, j)
  <2>1. m \in Nat /\ n \in Nat BY DEF Positive
  <2>2. m * l.R + l_row(l, i) = n * l.R + l_row(l, j) BY <1>6
  <2> QED BY <1>2, <1>3, <2>1, <2>2, PlaceUnique
<1>8. g % l.across = h % l.across /\ l_col(l, i) = l_col(l, j)
  <2>1. g % l.across \in Nat /\ h % l.across \in Nat BY <1>2, <1>3 DEF Positive
  <2>2. (g % l.across) * l.C + l_col(l, i) = (h % l.across) * l.C + l_col(l, j) BY DEF col
  <2> QED BY <1>2, <1>3, <2>1, <2>2, PlaceUnique
<1> QED BY <1>2, <1>3, <1>6, <1>7, <1>8

\* The cells of the output that an item may write.
Mine(l, g, i) ==
  {P(l, row(l, g, i) + m * l.R, col(l, g, i)) :
     m \in {m \in 0 .. l.S - 1 : row(l, g, i) + m * l.R < l.height /\ col(l, g, i) < l.width}}

LEMMA MineIsMine ==
  ASSUME NEW l, Covering(l), NEW g \in GroupOf(l), NEW i \in ItemOf(l),
         NEW x \in Mine(l, g, i)
  PROVE  /\ x[1] = Out /\ x[2] \in 0 .. l.height * l.width - 1
         /\ \A h \in GroupOf(l), j \in ItemOf(l) : x \in Mine(l, h, j) => g = h /\ i = j
<1> USE DEF Covering
<1>1. PICK m \in 0 .. l.S - 1 :
        /\ row(l, g, i) + m * l.R < l.height /\ col(l, g, i) < l.width
        /\ x = P(l, row(l, g, i) + m * l.R, col(l, g, i))
  BY DEF Mine
<1> DEFINE r == row(l, g, i) + m * l.R
<1>2. r \in 0 .. l.height - 1 /\ col(l, g, i) \in 0 .. l.width - 1 /\ r \in Nat
  <2>1. m * l.R \in Nat BY Times DEF Positive
  <2> QED BY <1>1, <2>1, Coordinates DEF Positive
<1>3. x = <<Out, r * l.width + col(l, g, i)>> BY <1>1 DEF P, Cell
<1>4. x[2] \in 0 .. l.height * l.width - 1
  <2> HIDE DEF r
  <2> QED BY <1>2, <1>3, Place DEF Positive
<1>5. ASSUME NEW h \in GroupOf(l), NEW j \in ItemOf(l), x \in Mine(l, h, j)
      PROVE  g = h /\ i = j
  <2>1. PICK n \in 0 .. l.S - 1 :
          /\ row(l, h, j) + n * l.R < l.height /\ col(l, h, j) < l.width
          /\ x = P(l, row(l, h, j) + n * l.R, col(l, h, j))
    BY <1>5 DEF Mine
  <2> DEFINE s == row(l, h, j) + n * l.R
  <2>2. s \in Nat /\ col(l, h, j) \in 0 .. l.width - 1
    <3>1. n * l.R \in Nat BY Times DEF Positive
    <3> QED BY <2>1, <3>1, Coordinates DEF Positive
  <2>3. x = <<Out, s * l.width + col(l, h, j)>> BY <2>1 DEF P, Cell
  <2> HIDE DEF r, s
  <2>4. r = s /\ col(l, g, i) = col(l, h, j) BY <1>2, <1>3, <2>2, <2>3, PlaceUnique
  <2> QED BY <2>4, Owner DEF r, s
<1> QED BY <1>3, <1>4, <1>5

LEMMA AllPairsFacts ==
  ASSUME NEW c, c.skeleton = "allpairs", AllPairsCall(c)
  PROVE  LET l == AllPairsLaunch(c)
         IN  /\ LaunchOf(c) = {l} /\ Launches(c) \in Seq({l})
             /\ Covering(l) /\ Shape(c, l)
             /\ l.kernel = IF c.general THEN "SCL_ALLPAIRS, general" ELSE "SCL_ALLPAIRS"
             /\ Out \in DOMAIN Buffers(c)
             /\ DOMAIN Buffers(c)[Out] = 0 .. l.height * l.width - 1
<1> DEFINE l == AllPairsLaunch(c)
           across == CeilDiv(c.width, c.C)
           down == CeilDiv(c.height, c.R * c.S)
<1>1. Launches(c) = <<l>> BY DEF Launches, AllPairsLaunches
<1>2. LaunchOf(c) = {l} /\ Launches(c) \in Seq({l}) BY <1>1 DEF LaunchOf
<1>3. /\ c.height \in Positive /\ c.dimension \in Positive /\ c.width \in Positive
      /\ c.C \in Positive /\ c.R \in Positive /\ c.S \in Positive /\ c.D \in Positive
      /\ c.warp \in Positive
  BY DEF AllPairsCall
<1>4. across \in Positive
  <2>1. c.width \in Nat BY <1>3 DEF Positive
  <2>2. across \in Nat /\ c.width <= across * c.C BY <1>3, <2>1, CeilDivided
  <2> HIDE DEF across
  <2>3. across # 0 BY <1>3, <2>2 DEF Positive
  <2> QED BY <2>2, <2>3 DEF Positive
<1>5. down \in Nat
  <2>1. c.R * c.S \in Positive /\ c.height \in Nat BY <1>3, Product DEF Positive
  <2> QED BY <2>1, CeilDivided
<1> HIDE DEF across, down
<1>6. /\ l.kernel = IF c.general THEN "SCL_ALLPAIRS, general" ELSE "SCL_ALLPAIRS"
      /\ l.groups = across * down /\ l.items = c.C * c.R
      /\ l.local = c.R * c.D + c.D * c.C /\ l.across = across
      /\ l.height = c.height /\ l.width = c.width /\ l.dimension = c.dimension
      /\ l.C = c.C /\ l.R = c.R /\ l.S = c.S /\ l.D = c.D
  BY DEF AllPairsLaunch, across, down
<1>7. across * down = down * across /\ across * down \in Nat
  BY <1>4, <1>5, Times DEF Positive
<1> HIDE DEF l
<1>8. Covering(l) BY <1>3, <1>4, <1>5, <1>6, <1>7 DEF Covering
<1>9. c.C * c.R \in Positive BY <1>3, Product
<1>10. l.local \in Nat
  <2>1. c.R * c.D \in Nat /\ c.D * c.C \in Nat BY <1>3, Times DEF Positive
  <2>2. \A a, b \in Nat : a + b \in Nat OBVIOUS
  <2>3. c.R * c.D + c.D * c.C \in Nat BY <2>1, <2>2
  <2> QED BY <2>3, <1>6
<1>11. Shape(c, l) BY <1>3, <1>6, <1>7, <1>9, <1>10 DEF Shape
<1>12. Buffers(c) = [b \in {In, Second, Out} |->
                       CASE b = In     -> Labelled(c.height * c.dimension, 0)
                         [] b = Second -> Labelled(c.dimension * c.width, 100)
                         [] OTHER      -> Fresh(c.height * c.width)]
  BY DEF Buffers, AllPairsBuffers
<1>13. Out \in DOMAIN Buffers(c)
       /\ DOMAIN Buffers(c)[Out] = 0 .. c.height * c.width - 1
  BY <1>12 DEF Fresh, In, Second, Out
<1> QED BY <1>2, <1>6, <1>8, <1>11, <1>13 DEF l

LEMMA RangeWithin ==
  ASSUME NEW X, NEW s \in Seq(X)
  PROVE  Range(s) \subseteq X
BY DEF Range

LEMMA GeneralIsSafe ==
  ASSUME NEW c, c.skeleton = "allpairs", AllPairsCall(c), c.general
  PROVE  /\ Scheduled(c)
         /\ \A l \in LaunchOf(c) : Fits(c, l) /\ Apart(c, l) /\ Agree(c, l)
<1> DEFINE l == AllPairsLaunch(c)
<1>1. /\ LaunchOf(c) = {l} /\ Launches(c) \in Seq({l})
      /\ Covering(l) /\ Shape(c, l) /\ l.kernel = "SCL_ALLPAIRS, general"
      /\ Out \in DOMAIN Buffers(c)
      /\ DOMAIN Buffers(c)[Out] = 0 .. l.height * l.width - 1
  BY AllPairsFacts
<1> HIDE DEF l
<1>0. Covering(l) /\ l.R \in Nat /\ l.S \in Positive BY <1>1 DEF Covering, Positive
<1>2. ASSUME NEW g \in GroupOf(l), NEW i \in ItemOf(l), NEW p \in Nat
      PROVE  /\ Phases(l, g, i) = 1
             /\ DOMAIN Code(l, g, i, p) \subseteq Mine(l, g, i)
             /\ \A y \in Touched(Code(l, g, i, p)) :
                  y[1] \in {In, Second} \/ y \in Mine(l, g, i)
  <2>1. Phases(l, g, i) = 1 BY <1>1 DEF Phases, OnePhase
  <2> DEFINE z == Zipped(l.dimension, LAMBDA k : M(l, row(l, g, i), k),
                                      LAMBDA k : N(l, k, col(l, g, i)))
             x == P(l, row(l, g, i), col(l, g, i))
             in == row(l, g, i) < l.height /\ col(l, g, i) < l.width
  <2>2. Code(l, g, i, p) = IF in THEN At(x, z) ELSE Nothing
    BY <1>1 DEF Code, AllPairsGeneralCode
  <2>3. \A y \in Range(z) : y[1] \in {In, Second}
    <3>1. \A k \in DOMAIN z : z[k][1] \in {In, Second} BY DEF Zipped, M, N, Cell
    <3> HIDE DEF z
    <3> QED BY <3>1 DEF Range
  <2>4. in => x \in Mine(l, g, i)
    <3> SUFFICES ASSUME in PROVE x \in Mine(l, g, i) OBVIOUS
    <3>1. 0 \in 0 .. l.S - 1 /\ \A a \in Nat : 0 * a = 0 BY <1>0 DEF Positive
    <3>3. row(l, g, i) \in Nat BY <1>0, Coordinates
    <3>2. row(l, g, i) + 0 * l.R = row(l, g, i) BY <3>1, <3>3, <1>0
    <3> QED BY <3>1, <3>2 DEF Mine
  <2> HIDE DEF z, x, in
  <2>5. DOMAIN At(x, z) = {x} /\ Touched(At(x, z)) = {x} \cup Range(z) BY CodeOfOne
  <2>6. CASE in BY <2>1, <2>2, <2>3, <2>4, <2>5, <2>6
  <2>7. CASE ~ in BY <2>1, <2>2, <2>7, CodeOfNone
  <2> QED BY <2>6, <2>7
<1>3. Even(l) BY <1>2 DEF Even
<1>4. Fits(c, l)
  <2> SUFFICES ASSUME NEW g \in GroupOf(l), NEW i \in ItemOf(l), NEW p \in Nat,
                      NEW x \in DOMAIN Code(l, g, i, p)
               PROVE  /\ x[1] # Shared /\ x[1] \in DOMAIN Buffers(c)
                      /\ x[2] \in DOMAIN Buffers(c)[x[1]]
    BY DEF Fits
  <2>1. x \in Mine(l, g, i) BY <1>2
  <2>2. x[1] = Out /\ x[2] \in 0 .. l.height * l.width - 1 BY <1>0, <2>1, MineIsMine
  <2>3. Out # Shared BY DEF Out, Shared
  <2> QED BY <2>2, <2>3, <1>1
<1>5. Private(l)
  <2> SUFFICES ASSUME NEW g \in GroupOf(l), NEW h \in GroupOf(l),
                      NEW i \in ItemOf(l), NEW j \in ItemOf(l), NEW p \in Nat, NEW q \in Nat,
                      NEW x \in DOMAIN Code(l, g, i, p), x \in Touched(Code(l, h, j, q))
               PROVE  g = h /\ i = j
    BY DEF Private
  <2>1. x \in Mine(l, g, i) /\ (x[1] \in {In, Second} \/ x \in Mine(l, h, j)) BY <1>2
  <2>2. x[1] = Out
        /\ \A hh \in GroupOf(l), jj \in ItemOf(l) : x \in Mine(l, hh, jj) => g = hh /\ i = jj
    BY <1>0, <2>1, MineIsMine
  <2>3. x \in Mine(l, h, j) BY <2>1, <2>2 DEF In, Second, Out
  <2> QED BY <2>2, <2>3
<1> QED BY <1>1, <1>3, <1>4, <1>5, PrivateIsSafe DEF Scheduled

-----------------------------------------------------------------------------
(***************************************************************************)
(* When barriers separate what the items of a group do.                    *)
(***************************************************************************)
\* Within a phase, nobody touches what another item of the group stores.
Exclusive(l) ==
  \A g \in GroupOf(l), i, j \in ItemOf(l) : \A p \in Nat :
    p < Phases(l, g, i) /\ p < Phases(l, g, j) =>
      \A x \in DOMAIN Code(l, g, i, p) : x \in Touched(Code(l, g, j, p)) => i = j

\* Nor, in any phase, what another group stores in the device's memory.
Groupwise(l) ==
  \A g, h \in GroupOf(l), i, j \in ItemOf(l) : \A p, q \in Nat :
    p < Phases(l, g, i) /\ q < Phases(l, h, j) =>
      \A x \in DOMAIN Code(l, g, i, p) :
        x[1] # Shared /\ x \in Touched(Code(l, h, j, q)) => g = h

\* Different phases without a barrier between them have nothing in common.
Separated(l) ==
  \A g \in GroupOf(l), i, j \in ItemOf(l) : \A p, q \in Nat :
    p < Phases(l, g, i) /\ q < Phases(l, g, j) /\ Together(l, p, q) /\ p # q =>
      \A x \in DOMAIN Code(l, g, i, p) : x \notin Touched(Code(l, g, j, q))

LEMMA PhasesAreSafe ==
  ASSUME NEW c, NEW l, Exclusive(l), Groupwise(l), Separated(l)
  PROVE  Apart(c, l) /\ Agree(c, l)
<1>1. Apart(c, l)
  <2> SUFFICES ASSUME NEW g \in GroupOf(l), NEW h \in GroupOf(l),
                      NEW i \in ItemOf(l), NEW j \in ItemOf(l), NEW p \in Nat, NEW q \in Nat,
                      p < Phases(l, g, i), q < Phases(l, h, j),
                      g = h => i \div c.warp # j \div c.warp /\ Together(l, p, q),
                      NEW x \in DOMAIN Code(l, g, i, p), g = h \/ x[1] # Shared,
                      x \in Touched(Code(l, h, j, q))
               PROVE  FALSE
    BY DEF Apart
  <2>1. g = h BY DEF Groupwise
  <2>2. CASE p = q BY <2>1, <2>2 DEF Exclusive
  <2>3. CASE p # q BY <2>1, <2>3 DEF Separated
  <2> QED BY <2>2, <2>3
<1>2. Agree(c, l)
  <2> SUFFICES ASSUME NEW g \in GroupOf(l), NEW i \in ItemOf(l), NEW j \in ItemOf(l),
                      NEW p \in Nat, p < Phases(l, g, i), p < Phases(l, g, j),
                      NEW x \in DOMAIN Code(l, g, i, p) \cap DOMAIN Code(l, g, j, p)
               PROVE  i = j
    BY DEF Agree
  <2>1. x \in Touched(Code(l, g, j, p)) BY DEF Touched
  <2> QED BY <2>1 DEF Exclusive
<1> QED BY <1>1, <1>2

LEMMA BarriersSeparate ==
  ASSUME NEW l, \A p \in Nat : p > 0 => Barrier(l, p)
  PROVE  Separated(l)
<1> SUFFICES ASSUME NEW p \in Nat, NEW q \in Nat, Together(l, p, q), p # q PROVE FALSE
  BY DEF Separated
<1>1. CASE p < q BY <1>1 DEF Together
<1>2. CASE q < p BY <1>2 DEF Together
<1> QED BY <1>1, <1>2

-----------------------------------------------------------------------------
(***************************************************************************)
(* AllPairs in tiles and segments.                                         *)
(***************************************************************************)
LEMMA SegmentFacts ==
  ASSUME NEW l, Covering(l), NEW q \in Nat
  PROVE  /\ \A k \in Segment(l, q) : k - q * l.D \in 0 .. l.D - 1
         /\ Cardinality(Segment(l, q)) \in Nat
<1> DEFINE n == (q + 1) * l.D
           m == Min({n, l.dimension})
<1>1. l.D \in Nat /\ l.dimension \in Int BY DEF Covering, Positive
<1>2. q * l.D \in Nat /\ n = q * l.D + l.D BY <1>1, Times
<1>3. n \in Int BY <1>1, <1>2
<1> HIDE DEF n
<1>4. m \in {n, l.dimension} /\ m <= n BY <1>1, <1>3, MinOfTwo
<1>5. m \in Int BY <1>1, <1>3, <1>4
<1>6. Segment(l, q) = q * l.D .. m - 1 BY DEF Segment, n
<1> HIDE DEF m
<1>7. IsFiniteSet(Segment(l, q))
  <2>1. q * l.D \in Int /\ m - 1 \in Int BY <1>2, <1>5
  <2> QED BY <1>6, <2>1, FS_Interval, Zenon
<1>8. Cardinality(Segment(l, q)) \in Nat BY <1>7, FS_CardinalityType
<1> QED BY <1>1, <1>2, <1>4, <1>5, <1>6, <1>8

\* All items of a group see the same tiles.
LEMMA TilesFacts ==
  ASSUME NEW l, Covering(l), NEW g \in GroupOf(l)
  PROVE  \E n \in 0 .. l.S : \A i \in ItemOf(l) : Tiles(l, g, i) = n
<1> DEFINE base == (g \div l.across) * (l.R * l.S)
           T == {s \in 0 .. l.S - 1 : base + s * l.R < l.height}
<1>1. l.S \in Nat BY DEF Covering, Positive
<1>2. IsFiniteSet(0 .. l.S - 1) /\ Cardinality(0 .. l.S - 1) = l.S
  <2>1. 0 \in Int /\ l.S - 1 \in Int BY <1>1
  <2>2. /\ IsFiniteSet(0 .. l.S - 1)
        /\ Cardinality(0 .. l.S - 1) = IF 0 > l.S - 1 THEN 0 ELSE l.S - 1 - 0 + 1
    BY <2>1, FS_Interval, Zenon
  <2> QED BY <2>2, <1>1
<1>3. T \subseteq 0 .. l.S - 1 OBVIOUS
<1> HIDE DEF T
<1>4. Cardinality(T) \in Nat /\ Cardinality(T) <= l.S
  BY <1>2, <1>3, FS_Subset, FS_CardinalityType
<1>5. ASSUME NEW i \in ItemOf(l) PROVE Tiles(l, g, i) = Cardinality(T)
  <2>1. row(l, g, i) = base + l_row(l, i) /\ l_row(l, i) \in 0 .. l.R - 1
        /\ row(l, g, i) \in Nat
    BY Coordinates
  <2>2. base \in Nat
    <3>1. l.R * l.S \in Nat BY Times DEF Covering, Positive
    <3>2. g \div l.across \in Nat BY Coordinates
    <3> QED BY <3>1, <3>2, Times
  <2> HIDE DEF base
  <2>3. l_row(l, i) \in Nat BY <2>1
  <2>4. row(l, g, i) - l_row(l, i) = base BY <2>1, <2>2, <2>3
  <2>5. {s \in 0 .. l.S - 1 : row(l, g, i) - l_row(l, i) + s * l.R < l.height} = T
    BY <2>4 DEF T, base
  <2> QED BY <2>5 DEF Tiles
<1> QED BY <1>1, <1>4, <1>5

\* The pieces of the matrices that an item loads.
MineM(l, i, q) ==
  {Ml(l, l_row(l, i), k - q * l.D) : k \in {k \in Segment(l, q) : k % l.C = l_col(l, i)}}
MineN(l, i, q) ==
  {Nl(l, k - q * l.D, l_col(l, i)) : k \in {k \in Segment(l, q) : k % l.R = l_row(l, i)}}

LEMMA PiecesAreMine ==
  ASSUME NEW l, Covering(l), NEW g \in GroupOf(l), NEW i \in ItemOf(l), NEW q \in Nat,
         NEW x \in MineM(l, i, q) \cup MineN(l, i, q)
  PROVE  /\ x[1] = Shared /\ x[2] \in 0 .. l.local - 1
         /\ \A j \in ItemOf(l) : x \in MineM(l, j, q) \cup MineN(l, j, q) => i = j
<1> DEFINE RD == l.R * l.D
           DC == l.D * l.C
<1>1. /\ l.R \in Nat /\ l.D \in Nat /\ l.C \in Nat /\ l.D \in Positive /\ l.C \in Positive
      /\ RD \in Nat /\ DC \in Nat /\ l.local = RD + DC
  BY Times DEF Covering, Positive
<1>2. \A j \in ItemOf(l) : /\ l_row(l, j) \in 0 .. l.R - 1 /\ l_col(l, j) \in 0 .. l.C - 1
                           /\ l_row(l, j) \in Nat /\ l_col(l, j) \in Nat
                           /\ j = l_row(l, j) * l.C + l_col(l, j)
  BY Coordinates
<1>3. \A k \in Segment(l, q) : k - q * l.D \in 0 .. l.D - 1 /\ k \in Int
  <2>1. q * l.D \in Int BY <1>1, Times
  <2>2. \A k \in Segment(l, q) : k \in Int BY DEF Segment
  <2> QED BY <2>2, SegmentFacts
<1>4. ASSUME NEW j \in ItemOf(l), NEW y \in MineM(l, j, q)
      PROVE  \E k \in Segment(l, q) :
               /\ k % l.C = l_col(l, j) /\ k - q * l.D \in 0 .. l.D - 1 /\ k \in Int
               /\ y = <<Shared, l_row(l, j) * l.D + (k - q * l.D)>>
               /\ y[2] \in 0 .. RD - 1
  <2>1. PICK k \in Segment(l, q) :
          k % l.C = l_col(l, j) /\ y = Ml(l, l_row(l, j), k - q * l.D)
    BY DEF MineM
  <2> DEFINE a == k - q * l.D
  <2>2. a \in 0 .. l.D - 1 /\ k \in Int BY <1>3
  <2>3. y = <<Shared, l_row(l, j) * l.D + a>> BY <2>1 DEF Ml, Cell
  <2> HIDE DEF a, RD
  <2>4. l_row(l, j) * l.D + a \in 0 .. RD - 1 BY <1>1, <1>2, <2>2, Place DEF RD
  <2> QED BY <2>1, <2>2, <2>3, <2>4 DEF a
<1>5. ASSUME NEW j \in ItemOf(l), NEW y \in MineN(l, j, q)
      PROVE  \E k \in Segment(l, q) :
               /\ k % l.R = l_row(l, j) /\ k - q * l.D \in 0 .. l.D - 1 /\ k \in Int
               /\ y = <<Shared, RD + ((k - q * l.D) * l.C + l_col(l, j))>>
               /\ y[2] \in RD .. RD + DC - 1
  <2>1. PICK k \in Segment(l, q) :
          k % l.R = l_row(l, j) /\ y = Nl(l, k - q * l.D, l_col(l, j))
    BY DEF MineN
  <2> DEFINE a == k - q * l.D
  <2>2. a \in 0 .. l.D - 1 /\ k \in Int /\ a \in Nat BY <1>3
  <2>3. y = <<Shared, RD + a * l.C + l_col(l, j)>> BY <2>1 DEF Nl, Cell
  <2> HIDE DEF a, RD, DC
  <2>4. a * l.C + l_col(l, j) \in 0 .. DC - 1 BY <1>1, <1>2, <2>2, Place DEF DC
  <2>5. a * l.C \in Nat BY <1>1, <2>2, Times
  <2>6. RD + a * l.C + l_col(l, j) = RD + (a * l.C + l_col(l, j)) BY <1>1, <1>2, <2>5
  <2> QED BY <1>1, <2>1, <2>2, <2>3, <2>4, <2>6 DEF a
<1> HIDE DEF RD, DC
<1>6. x[1] = Shared /\ x[2] \in 0 .. l.local - 1
  <2>1. CASE x \in MineM(l, i, q) BY <2>1, <1>1, <1>4
  <2>2. CASE x \in MineN(l, i, q) BY <2>2, <1>1, <1>5
  <2> QED BY <2>1, <2>2
<1>7. ASSUME NEW j \in ItemOf(l), x \in MineM(l, j, q) \cup MineN(l, j, q) PROVE i = j
  <2>1. CASE x \in MineM(l, i, q) /\ x \in MineM(l, j, q)
    <3>1. PICK k \in Segment(l, q) :
            /\ k % l.C = l_col(l, i) /\ k - q * l.D \in 0 .. l.D - 1 /\ k \in Int
            /\ x = <<Shared, l_row(l, i) * l.D + (k - q * l.D)>>
      BY <2>1, <1>4
    <3>2. PICK m \in Segment(l, q) :
            /\ m % l.C = l_col(l, j) /\ m - q * l.D \in 0 .. l.D - 1 /\ m \in Int
            /\ x = <<Shared, l_row(l, j) * l.D + (m - q * l.D)>>
      BY <2>1, <1>4
    <3> DEFINE a == k - q * l.D
               b == m - q * l.D
    <3>3. l_row(l, i) * l.D + a = l_row(l, j) * l.D + b BY <3>1, <3>2
    <3>4. a \in 0 .. l.D - 1 /\ b \in 0 .. l.D - 1 BY <3>1, <3>2
    <3> HIDE DEF a, b
    <3>5. l_row(l, i) = l_row(l, j) /\ a = b BY <1>1, <1>2, <3>3, <3>4, PlaceUnique
    <3>6. q * l.D \in Int BY <1>1, Times
    <3>7. k = m BY <3>1, <3>2, <3>5, <3>6 DEF a, b
    <3> QED BY <1>2, <3>1, <3>2, <3>5, <3>7
  <2>2. CASE x \in MineN(l, i, q) /\ x \in MineN(l, j, q)
    <3>1. PICK k \in Segment(l, q) :
            /\ k % l.R = l_row(l, i) /\ k - q * l.D \in 0 .. l.D - 1 /\ k \in Int
            /\ x = <<Shared, RD + ((k - q * l.D) * l.C + l_col(l, i))>>
      BY <2>2, <1>5
    <3>2. PICK m \in Segment(l, q) :
            /\ m % l.R = l_row(l, j) /\ m - q * l.D \in 0 .. l.D - 1 /\ m \in Int
            /\ x = <<Shared, RD + ((m - q * l.D) * l.C + l_col(l, j))>>
      BY <2>2, <1>5
    <3> DEFINE a == k - q * l.D
               b == m - q * l.D
    <3>3. RD + (a * l.C + l_col(l, i)) = RD + (b * l.C + l_col(l, j)) BY <3>1, <3>2
    <3>4. a \in Nat /\ b \in Nat BY <3>1, <3>2
    <3> HIDE DEF a, b
    <3>5. a * l.C \in Nat /\ b * l.C \in Nat BY <1>1, <3>4, Times
    <3>6. a * l.C + l_col(l, i) = b * l.C + l_col(l, j)
      <4> DEFINE u == a * l.C + l_col(l, i)
                 v == b * l.C + l_col(l, j)
      <4>1. u \in Nat /\ v \in Nat BY <1>2, <3>5
      <4> HIDE DEF u, v
      <4>2. RD + u = RD + v BY <3>3 DEF u, v
      <4>3. u = v BY <4>1, <4>2, <1>1
      <4> QED BY <4>3 DEF u, v
    <3>7. l_col(l, i) = l_col(l, j) /\ a = b BY <1>1, <1>2, <3>4, <3>6, PlaceUnique
    <3>8. q * l.D \in Int BY <1>1, Times
    <3>9. k = m BY <3>1, <3>2, <3>7, <3>8 DEF a, b
    <3> QED BY <1>2, <3>1, <3>2, <3>7, <3>9
  <2>3. CASE x \in MineM(l, i, q) /\ x \in MineN(l, j, q)
    <3>1. x[2] \in 0 .. RD - 1 BY <2>3, <1>4
    <3>2. x[2] \in RD .. RD + DC - 1 BY <2>3, <1>5
    <3> QED BY <3>1, <3>2, <1>1
  <2>4. CASE x \in MineN(l, i, q) /\ x \in MineM(l, j, q)
    <3>1. x[2] \in 0 .. RD - 1 BY <2>4, <1>4
    <3>2. x[2] \in RD .. RD + DC - 1 BY <2>4, <1>5
    <3> QED BY <3>1, <3>2, <1>1
  <2> QED BY <2>1, <2>2, <2>3, <2>4, <1>7
<1> QED BY <1>6, <1>7

LEMMA CodeReading ==
  ASSUME NEW f, NEW B, \A x \in DOMAIN f : \A y \in Range(f[x]) : y[1] \in B
  PROVE  \A y \in Touched(f) : y \in DOMAIN f \/ y[1] \in B
BY DEF Touched, Reads

LEMMA ClearCells ==
  ASSUME NEW l, NEW g, NEW i
  PROVE  DOMAIN Clear(l, g, i) = Mine(l, g, i) /\ Touched(Clear(l, g, i)) = Mine(l, g, i)
<1> DEFINE f == Clear(l, g, i)
<1>1. DOMAIN f = Mine(l, g, i) /\ \A x \in DOMAIN f : f[x] = << >> BY DEF Clear, Mine
<1> HIDE DEF f
<1>2. Range(<< >>) = {} BY DEF Range
<1>3. Reads(f) = {} BY <1>1, <1>2 DEF Reads
<1> QED BY <1>1, <1>3 DEF Touched, f

LEMMA LoadMCells ==
  ASSUME NEW l, NEW g, NEW i, NEW q, NEW s
  PROVE  LET f == LoadM(l, g, i, q, s)
         IN  /\ DOMAIN f \subseteq MineM(l, i, q)
             /\ \A y \in Touched(f) : y \in MineM(l, i, q) \/ y[1] \in {In, Second}
<1> DEFINE f == LoadM(l, g, i, q, s)
           mine == {k \in Segment(l, q) :
                      k % l.C = l_col(l, i) /\ row(l, g, i) + s * l.R < l.height}
           from(x) == M(l, row(l, g, i) + s * l.R,
                        CHOOSE k \in mine : Ml(l, l_row(l, i), k - q * l.D) = x)
<1>1. /\ DOMAIN f = {Ml(l, l_row(l, i), k - q * l.D) : k \in mine}
      /\ \A x \in DOMAIN f : f[x] = <<from(x)>>
  BY DEF LoadM
<1>2. \A k \in mine : k \in {k2 \in Segment(l, q) : k2 % l.C = l_col(l, i)} OBVIOUS
<1>3. \A x : from(x)[1] \in {In, Second} BY DEF M, Cell
<1> HIDE DEF f, mine, from
<1>4. DOMAIN f \subseteq MineM(l, i, q) BY <1>1, <1>2 DEF MineM
<1>5. \A x \in DOMAIN f : \A y \in Range(f[x]) : y[1] \in {In, Second}
  <2> SUFFICES ASSUME NEW x \in DOMAIN f PROVE \A y \in Range(f[x]) : y[1] \in {In, Second}
    OBVIOUS
  <2>1. Range(<<from(x)>>) = {from(x)} BY RangeOfOne
  <2> QED BY <1>1, <1>3, <2>1
<1>6. \A y \in Touched(f) : y \in DOMAIN f \/ y[1] \in {In, Second} BY <1>5, CodeReading
<1> QED BY <1>4, <1>6 DEF f

LEMMA LoadNCells ==
  ASSUME NEW l, NEW g, NEW i, NEW q
  PROVE  LET f == LoadN(l, g, i, q)
         IN  /\ DOMAIN f \subseteq MineN(l, i, q)
             /\ \A y \in Touched(f) : y \in MineN(l, i, q) \/ y[1] \in {In, Second}
<1> DEFINE f == LoadN(l, g, i, q)
           mine == {k \in Segment(l, q) : k % l.R = l_row(l, i) /\ col(l, g, i) < l.width}
           from(x) == N(l, CHOOSE k \in mine : Nl(l, k - q * l.D, l_col(l, i)) = x,
                        col(l, g, i))
<1>1. /\ DOMAIN f = {Nl(l, k - q * l.D, l_col(l, i)) : k \in mine}
      /\ \A x \in DOMAIN f : f[x] = <<from(x)>>
  BY DEF LoadN
<1>2. \A k \in mine : k \in {k2 \in Segment(l, q) : k2 % l.R = l_row(l, i)} OBVIOUS
<1>3. \A x : from(x)[1] \in {In, Second} BY DEF N, Cell
<1> HIDE DEF f, mine, from
<1>4. DOMAIN f \subseteq MineN(l, i, q) BY <1>1, <1>2 DEF MineN
<1>5. \A x \in DOMAIN f : \A y \in Range(f[x]) : y[1] \in {In, Second}
  <2> SUFFICES ASSUME NEW x \in DOMAIN f PROVE \A y \in Range(f[x]) : y[1] \in {In, Second}
    OBVIOUS
  <2>1. Range(<<from(x)>>) = {from(x)} BY RangeOfOne
  <2> QED BY <1>1, <1>3, <2>1
<1>6. \A y \in Touched(f) : y \in DOMAIN f \/ y[1] \in {In, Second} BY <1>5, CodeReading
<1> QED BY <1>4, <1>6 DEF f

LEMMA AccumulateCells ==
  ASSUME NEW l, Covering(l), NEW g \in GroupOf(l), NEW i \in ItemOf(l), NEW q \in Nat,
         NEW s \in 0 .. l.S - 1
  PROVE  LET f == Accumulate(l, g, i, q, s)
         IN  /\ DOMAIN f \subseteq Mine(l, g, i)
             /\ \A y \in Touched(f) : y \in Mine(l, g, i) \/ y[1] = Shared
<1> DEFINE r == row(l, g, i) + s * l.R
           cell == P(l, r, col(l, g, i))
           n == Cardinality(Segment(l, q))
           z == Zipped(n, LAMBDA k : Ml(l, l_row(l, i), k), LAMBDA k : Nl(l, k, l_col(l, i)))
           v == <<cell>> \o z
           in == r < l.height /\ col(l, g, i) < l.width
           f == Accumulate(l, g, i, q, s)
           Z == {y \in {cell} \cup {z[k] : k \in DOMAIN z} : y = cell \/ y[1] = Shared}
<1>1. f = IF in THEN At(cell, v) ELSE Nothing BY DEF Accumulate
<1>2. n \in Nat BY SegmentFacts
<1>3. in => cell \in Mine(l, g, i) BY DEF Mine
<1> HIDE DEF n, cell, r
<1>4. z \in Seq(Z)
  <2>1. DOMAIN z = 1 .. 2 * n BY DEF Zipped
  <2>2. \A k \in DOMAIN z : z[k][1] = Shared BY DEF Zipped, Ml, Nl, Cell
  <2>3. z = [k \in 1 .. 2 * n |-> z[k]] BY DEF Zipped
  <2> HIDE DEF z
  <2>4. 2 * n \in Nat /\ \A k \in 1 .. 2 * n : z[k] \in Z BY <1>2, <2>1, <2>2
  <2> HIDE DEF Z
  <2>5. z \in [1 .. 2 * n -> Z] BY <2>3, <2>4
  <2> QED BY <2>4, <2>5
<1>5. \A y \in Z : y = cell \/ y[1] = Shared OBVIOUS
<1>6. cell \in Z OBVIOUS
<1> HIDE DEF z, Z
<1>7. v \in Seq(Z) BY <1>4, <1>6
<1> HIDE DEF v
<1>8. Range(v) \subseteq Z BY <1>7, RangeWithin
<1>9. DOMAIN At(cell, v) = {cell} /\ Touched(At(cell, v)) = {cell} \cup Range(v)
  BY CodeOfOne
<1> HIDE DEF f, in
<1>10. CASE in BY <1>10, <1>1, <1>3, <1>5, <1>8, <1>9 DEF f
<1>11. CASE ~ in BY <1>11, <1>1, CodeOfNone DEF f
<1> QED BY <1>10, <1>11

\* The tile of a phase.
LEMMA TileOf ==
  ASSUME NEW n \in Nat, NEW k \in Nat, NEW p \in Nat, p > 0, p < 1 + 2 * k * n
  PROVE  /\ n \in Positive
         /\ ((p - 1) \div 2) \div n \in Nat /\ ((p - 1) \div 2) % n \in 0 .. n - 1
<1>1. n # 0
  <2> SUFFICES ASSUME n = 0 PROVE FALSE OBVIOUS
  <2>1. 2 * k * 0 = 0 OBVIOUS
  <2> QED BY <2>1
<1>2. (p - 1) \div 2 \in Nat OBVIOUS
<1> QED BY <1>1, <1>2, Division DEF Positive

LEMMA AllPairsCells ==
  ASSUME NEW l, Covering(l), l.kernel = "SCL_ALLPAIRS", NEW g \in GroupOf(l), NEW p \in Nat,
         NEW n \in 0 .. l.S, \A i \in ItemOf(l) : Tiles(l, g, i) = n
  PROVE  /\ \A i \in ItemOf(l) : Phases(l, g, i) = 1 + 2 * Segments(l) * n
         /\ 1 + 2 * Segments(l) * n \in Nat
         /\ p = 0 =>
              \A i \in ItemOf(l) : /\ DOMAIN Code(l, g, i, p) = Mine(l, g, i)
                                   /\ Touched(Code(l, g, i, p)) = Mine(l, g, i)
         /\ p > 0 /\ p < 1 + 2 * Segments(l) * n /\ p % 2 = 1 =>
              \E q \in Nat : \A i \in ItemOf(l) :
                /\ DOMAIN Code(l, g, i, p) \subseteq MineM(l, i, q) \cup MineN(l, i, q)
                /\ \A y \in Touched(Code(l, g, i, p)) :
                     y \in MineM(l, i, q) \cup MineN(l, i, q) \/ y[1] \in {In, Second}
         /\ p > 0 /\ p < 1 + 2 * Segments(l) * n /\ p % 2 = 0 =>
              \A i \in ItemOf(l) :
                /\ DOMAIN Code(l, g, i, p) \subseteq Mine(l, g, i)
                /\ \A y \in Touched(Code(l, g, i, p)) : y \in Mine(l, g, i) \/ y[1] = Shared
<1> DEFINE K == Segments(l)
<1>1. K \in Nat
  <2>1. l.dimension \in Nat /\ l.D \in Positive BY DEF Covering, Positive
  <2>2. l.dimension \div l.D \in Nat BY <2>1, Division
  <2> QED BY <2>2 DEF Segments
<1>2. n \in Nat OBVIOUS
<1> HIDE DEF K
<1>3. \A i \in ItemOf(l) : Phases(l, g, i) = 1 + 2 * K * n
  BY DEF Phases, OnePhase, AllPairsPhases, K
<1>4. 1 + 2 * K * n \in Nat
  <2>1. 2 * K \in Nat BY <1>1
  <2>2. 2 * K * n \in Nat BY <1>2, <2>1, Times
  <2> QED BY <2>2
<1>5. ASSUME NEW i \in ItemOf(l) PROVE Code(l, g, i, p) = AllPairsCode(l, g, i, p)
  BY DEF Code
<1>6. ASSUME p = 0, NEW i \in ItemOf(l)
      PROVE  DOMAIN Code(l, g, i, p) = Mine(l, g, i) /\ Touched(Code(l, g, i, p)) = Mine(l, g, i)
  <2>1. Code(l, g, i, p) = Clear(l, g, i) BY <1>5, <1>6 DEF AllPairsCode
  <2> QED BY <2>1, ClearCells
<1> DEFINE tile == (p - 1) \div 2
           q == tile \div n
           s == tile % n
<1>7. ASSUME p > 0, p < 1 + 2 * K * n PROVE q \in Nat /\ s \in 0 .. l.S - 1
  <2>1. q \in Nat /\ s \in 0 .. n - 1 BY <1>1, <1>2, <1>7, TileOf
  <2>2. l.S \in Nat BY DEF Covering, Positive
  <2> QED BY <2>1, <2>2
<1>8. ASSUME p > 0, p % 2 = 1, NEW i \in ItemOf(l)
      PROVE  /\ DOMAIN Code(l, g, i, p) \subseteq MineM(l, i, q) \cup MineN(l, i, q)
             /\ \A y \in Touched(Code(l, g, i, p)) :
                  y \in MineM(l, i, q) \cup MineN(l, i, q) \/ y[1] \in {In, Second}
  <2>1. p # 0 /\ Tiles(l, g, i) = n BY <1>8
  <2>2. Code(l, g, i, p) =
          Merged(LoadM(l, g, i, q, s), IF s = 0 THEN LoadN(l, g, i, q) ELSE Nothing)
    BY <1>5, <1>8, <2>1 DEF AllPairsCode
  <2> HIDE DEF q, s
  <2> DEFINE f == LoadM(l, g, i, q, s)
             h == IF s = 0 THEN LoadN(l, g, i, q) ELSE Nothing
  <2>3. /\ DOMAIN f \subseteq MineM(l, i, q)
        /\ \A y \in Touched(f) : y \in MineM(l, i, q) \/ y[1] \in {In, Second}
    BY LoadMCells
  <2>4. /\ DOMAIN h \subseteq MineN(l, i, q)
        /\ \A y \in Touched(h) : y \in MineN(l, i, q) \/ y[1] \in {In, Second}
    BY LoadNCells, CodeOfNone
  <2> HIDE DEF f, h
  <2>5. /\ DOMAIN Merged(f, h) = DOMAIN f \cup DOMAIN h
        /\ Touched(Merged(f, h)) \subseteq Touched(f) \cup Touched(h)
    BY CodeOfMerged
  <2>6. Code(l, g, i, p) = Merged(f, h) BY <2>2 DEF f, h
  <2> QED BY <2>3, <2>4, <2>5, <2>6
<1>9. ASSUME p > 0, p < 1 + 2 * K * n, p % 2 = 0, NEW i \in ItemOf(l)
      PROVE  /\ DOMAIN Code(l, g, i, p) \subseteq Mine(l, g, i)
             /\ \A y \in Touched(Code(l, g, i, p)) : y \in Mine(l, g, i) \/ y[1] = Shared
  <2>1. p # 0 /\ p % 2 # 1 /\ Tiles(l, g, i) = n BY <1>9
  <2>2. Code(l, g, i, p) = Accumulate(l, g, i, q, s)
    BY <1>5, <1>9, <2>1 DEF AllPairsCode
  <2>3. q \in Nat /\ s \in 0 .. l.S - 1 BY <1>7, <1>9
  <2> HIDE DEF q, s
  <2>4. /\ DOMAIN Accumulate(l, g, i, q, s) \subseteq Mine(l, g, i)
        /\ \A y \in Touched(Accumulate(l, g, i, q, s)) : y \in Mine(l, g, i) \/ y[1] = Shared
    BY <2>3, AccumulateCells
  <2> QED BY <2>2, <2>4
<1> HIDE DEF tile, q, s
<1>10. p > 0 /\ p < 1 + 2 * K * n /\ p % 2 = 1 =>
              \E qq \in Nat : \A i \in ItemOf(l) :
                /\ DOMAIN Code(l, g, i, p) \subseteq MineM(l, i, qq) \cup MineN(l, i, qq)
                /\ \A y \in Touched(Code(l, g, i, p)) :
                     y \in MineM(l, i, qq) \cup MineN(l, i, qq) \/ y[1] \in {In, Second}
  BY <1>7, <1>8
<1>11. p > 0 /\ p < 1 + 2 * K * n /\ p % 2 = 0 =>
              \A i \in ItemOf(l) :
                /\ DOMAIN Code(l, g, i, p) \subseteq Mine(l, g, i)
                /\ \A y \in Touched(Code(l, g, i, p)) : y \in Mine(l, g, i) \/ y[1] = Shared
  BY <1>9
<1> QED BY <1>3, <1>4, <1>6, <1>10, <1>11 DEF K

LEMMA TiledIsSafe ==
  ASSUME NEW c, c.skeleton = "allpairs", AllPairsCall(c), ~ c.general
  PROVE  /\ Scheduled(c)
         /\ \A l \in LaunchOf(c) : Fits(c, l) /\ Apart(c, l) /\ Agree(c, l)
<1> DEFINE l == AllPairsLaunch(c)
<1>1. /\ LaunchOf(c) = {l} /\ Launches(c) \in Seq({l})
      /\ Covering(l) /\ Shape(c, l) /\ l.kernel = "SCL_ALLPAIRS"
      /\ Out \in DOMAIN Buffers(c)
      /\ DOMAIN Buffers(c)[Out] = 0 .. l.height * l.width - 1
  BY AllPairsFacts
<1> HIDE DEF l
<1>0. Covering(l) /\ l.kernel = "SCL_ALLPAIRS" BY <1>1
<1> DEFINE Pieces(i, q) == MineM(l, i, q) \cup MineN(l, i, q)
<1>2. ASSUME NEW g \in GroupOf(l), NEW p \in Nat
      PROVE  \E n \in Nat :
        /\ \A i \in ItemOf(l) : Phases(l, g, i) = n
        /\ p < n =>
             \/ /\ p = 0 \/ p > 1
                /\ \A i \in ItemOf(l) :
                     /\ DOMAIN Code(l, g, i, p) \subseteq Mine(l, g, i)
                     /\ \A y \in Touched(Code(l, g, i, p)) :
                          y \in Mine(l, g, i) \/ (p > 1 /\ y[1] = Shared)
             \/ /\ p > 0
                /\ \E q \in Nat : \A i \in ItemOf(l) :
                     /\ DOMAIN Code(l, g, i, p) \subseteq Pieces(i, q)
                     /\ \A y \in Touched(Code(l, g, i, p)) :
                          y \in Pieces(i, q) \/ y[1] \in {In, Second}
  <2>1. PICK n \in 0 .. l.S : \A i \in ItemOf(l) : Tiles(l, g, i) = n BY <1>0, TilesFacts
  <2> DEFINE N1 == 1 + 2 * Segments(l) * n
  <2>2. /\ \A i \in ItemOf(l) : Phases(l, g, i) = N1
        /\ N1 \in Nat
        /\ p = 0 =>
              \A i \in ItemOf(l) : /\ DOMAIN Code(l, g, i, p) = Mine(l, g, i)
                                   /\ Touched(Code(l, g, i, p)) = Mine(l, g, i)
        /\ p > 0 /\ p < N1 /\ p % 2 = 1 =>
              \E q \in Nat : \A i \in ItemOf(l) :
                /\ DOMAIN Code(l, g, i, p) \subseteq Pieces(i, q)
                /\ \A y \in Touched(Code(l, g, i, p)) :
                     y \in Pieces(i, q) \/ y[1] \in {In, Second}
        /\ p > 0 /\ p < N1 /\ p % 2 = 0 =>
              \A i \in ItemOf(l) :
                /\ DOMAIN Code(l, g, i, p) \subseteq Mine(l, g, i)
                /\ \A y \in Touched(Code(l, g, i, p)) : y \in Mine(l, g, i) \/ y[1] = Shared
    BY <1>0, <2>1, AllPairsCells
  <2> HIDE DEF N1, Pieces
  <2>3. p = 0 \/ (p > 0 /\ p % 2 = 1) \/ (p > 1 /\ p % 2 = 0) OBVIOUS
  <2> QED BY <2>2, <2>3
<1>3. Even(l) BY <1>2 DEF Even
<1>4. ASSUME NEW g \in GroupOf(l), NEW i \in ItemOf(l), NEW x \in Mine(l, g, i)
      PROVE  /\ x[1] = Out /\ x[2] \in 0 .. l.height * l.width - 1
             /\ \A h \in GroupOf(l), j \in ItemOf(l) : x \in Mine(l, h, j) => g = h /\ i = j
  BY <1>0, MineIsMine
<1>5. ASSUME NEW g \in GroupOf(l), NEW i \in ItemOf(l), NEW q \in Nat, NEW x \in Pieces(i, q)
      PROVE  /\ x[1] = Shared /\ x[2] \in 0 .. l.local - 1
             /\ \A j \in ItemOf(l) : x \in Pieces(j, q) => i = j
  BY <1>0, PiecesAreMine
<1> HIDE DEF Pieces
<1>6. Fits(c, l)
  <2> SUFFICES ASSUME NEW g \in GroupOf(l), NEW i \in ItemOf(l), NEW p \in Nat,
                      p < Phases(l, g, i), NEW x \in DOMAIN Code(l, g, i, p)
               PROVE  IF x[1] = Shared THEN x[2] \in 0 .. l.local - 1
                      ELSE x[1] \in DOMAIN Buffers(c) /\ x[2] \in DOMAIN Buffers(c)[x[1]]
    BY DEF Fits
  <2>1. x \in Mine(l, g, i) \/ \E q \in Nat : x \in Pieces(i, q) BY <1>2
  <2>2. CASE x \in Mine(l, g, i)
    <3>1. x[1] = Out /\ x[2] \in 0 .. l.height * l.width - 1 BY <2>2, <1>4
    <3>2. Out # Shared BY DEF Out, Shared
    <3> QED BY <3>1, <3>2, <1>1
  <2>3. CASE \E q \in Nat : x \in Pieces(i, q) BY <2>3, <1>5
  <2> QED BY <2>1, <2>2, <2>3
<1>7. Shared # Out /\ {In, Second} \cap {Out, Shared} = {} BY DEF Shared, Out, In, Second
<1>8. Exclusive(l)
  <2> SUFFICES ASSUME NEW g \in GroupOf(l), NEW i \in ItemOf(l), NEW j \in ItemOf(l),
                      NEW p \in Nat, p < Phases(l, g, i),
                      NEW x \in DOMAIN Code(l, g, i, p), x \in Touched(Code(l, g, j, p))
               PROVE  i = j
    BY DEF Exclusive
  <2>1. \/ x \in Mine(l, g, i) /\ (x \in Mine(l, g, j) \/ x[1] = Shared)
        \/ \E q \in Nat : x \in Pieces(i, q) /\ (x \in Pieces(j, q) \/ x[1] \in {In, Second})
    BY <1>2
  <2>2. CASE x \in Mine(l, g, i) /\ (x \in Mine(l, g, j) \/ x[1] = Shared)
    BY <2>2, <1>4, <1>7
  <2>3. CASE \E q \in Nat : x \in Pieces(i, q) /\ (x \in Pieces(j, q) \/ x[1] \in {In, Second})
    BY <2>3, <1>5, <1>7
  <2> QED BY <2>1, <2>2, <2>3
<1>9. Groupwise(l)
  <2> SUFFICES ASSUME NEW g \in GroupOf(l), NEW h \in GroupOf(l),
                      NEW i \in ItemOf(l), NEW j \in ItemOf(l), NEW p \in Nat, NEW q \in Nat,
                      p < Phases(l, g, i), q < Phases(l, h, j),
                      NEW x \in DOMAIN Code(l, g, i, p), x[1] # Shared,
                      x \in Touched(Code(l, h, j, q))
               PROVE  g = h
    BY DEF Groupwise
  <2>1. x \in Mine(l, g, i) \/ \E r \in Nat : x \in Pieces(i, r) BY <1>2
  <2>2. x \in Mine(l, g, i) /\ x[1] = Out BY <2>1, <1>4, <1>5
  <2>3. \/ x \in Mine(l, h, j) \/ x[1] = Shared
        \/ x[1] \in {In, Second} \/ \E r \in Nat : x \in Pieces(j, r)
    BY <1>2
  <2>4. x \in Mine(l, h, j) BY <2>2, <2>3, <1>5, <1>7
  <2> QED BY <2>2, <2>4, <1>4
<1>10. Separated(l)
  <2> SUFFICES ASSUME NEW g \in GroupOf(l), NEW i \in ItemOf(l), NEW j \in ItemOf(l),
                      NEW p \in Nat, NEW q \in Nat,
                      p < Phases(l, g, i), q < Phases(l, g, j), Together(l, p, q), p # q,
                      NEW x \in DOMAIN Code(l, g, i, p), x \in Touched(Code(l, g, j, q))
               PROVE  FALSE
    BY DEF Separated
  <2>1. \A b \in Nat : b > 1 => Barrier(l, b) BY <1>0 DEF Barrier, OnePhase, AllPairsBarrier
  <2>2. p <= 1 /\ q <= 1 BY <2>1 DEF Together
  <2>3. \/ x \in Mine(l, g, i) /\ p = 0
        \/ \E r \in Nat : x \in Pieces(i, r) /\ p > 0
    BY <2>2, <1>2
  <2>4. \/ x \in Mine(l, g, j) /\ q = 0
        \/ x[1] \in {In, Second}
        \/ \E r \in Nat : x \in Pieces(j, r) /\ q > 0
    BY <2>2, <1>2
  <2>5. x[1] = Out <=> p = 0 BY <2>3, <1>4, <1>5, <1>7
  <2>6. x[1] = Out \/ x[1] = Shared BY <2>3, <1>4, <1>5
  <2>7. x[1] = Out <=> q = 0
    <3>1. x[1] \notin {In, Second} BY <2>6, <1>7
    <3>2. CASE x \in Mine(l, g, j) /\ q = 0 BY <3>2, <1>4
    <3>3. CASE \E r \in Nat : x \in Pieces(j, r) /\ q > 0
      <4>1. x[1] = Shared /\ q > 0 BY <3>3, <1>5
      <4> QED BY <4>1, <1>7
    <3> QED BY <2>4, <3>1, <3>2, <3>3
  <2> QED BY <2>2, <2>5, <2>7
<1> QED BY <1>1, <1>3, <1>6, <1>8, <1>9, <1>10, PhasesAreSafe DEF Scheduled

-----------------------------------------------------------------------------
(***************************************************************************)
(* Map.                                                                    *)
(***************************************************************************)
LEMMA PartsFacts ==
  ASSUME NEW c, MapCall(c)
  PROVE  /\ PartsUpTo(c, 0) = 0
         /\ \A d \in 0 .. Len(c.parts) : PartsUpTo(c, d) \in Nat
         /\ \A d \in 1 .. Len(c.parts) : PartsUpTo(c, d) = PartsUpTo(c, d - 1) + c.parts[d]
<1> DEFINE D == 0 .. Len(c.parts)
           step == [x \in Nat \X Nat |->
                      x[2] + (IF x[1] \in DOMAIN c.parts THEN c.parts[x[1]] ELSE 0)]
           Eq(f) == f = [k \in D |-> IF k = 0 THEN 0 ELSE f[k - 1] + c.parts[k]]
           S == CHOOSE f : Eq(f)
<1>1. c.parts \in Seq(Nat) /\ Len(c.parts) \in Nat /\ DOMAIN c.parts = 1 .. Len(c.parts)
      /\ \A k \in 1 .. Len(c.parts) : c.parts[k] \in Nat
  BY DEF MapCall
<1>2. \A d : PartsUpTo(c, d) = S[d] BY DEF PartsUpTo
<1>3. step \in [Nat \X Nat -> Nat] BY <1>1
<1>4. Initial(D) BY <1>1 DEF Initial
<1>5. PICK f \in [D -> Nat] : Follows(f, D, 0, step)
  <2> HIDE DEF step, D
  <2> QED BY <1>3, <1>4, Recursion
<1>6. Eq(f)
  <2>1. ASSUME NEW k \in D, k # 0 PROVE step[<<k, f[k - 1]>>] = f[k - 1] + c.parts[k]
    <3>1. k \in Nat /\ k \in DOMAIN c.parts /\ k - 1 \in D BY <1>1, <2>1
    <3> QED BY <3>1, <1>5
  <2> HIDE DEF step, D
  <2>2. f = [n \in D |-> IF n = 0 THEN 0 ELSE step[<<n, f[n - 1]>>]]
    BY <1>5 DEF Follows
  <2> QED BY <2>1, <2>2
<1>7. Eq(S)
  <2> HIDE DEF Eq
  <2> QED BY <1>6
<1> HIDE DEF S
<1>8. S[0] = 0 BY <1>1, <1>7
<1>9. \A d \in 1 .. Len(c.parts) : S[d] = S[d - 1] + c.parts[d]
  <2> SUFFICES ASSUME NEW d \in 1 .. Len(c.parts) PROVE S[d] = S[d - 1] + c.parts[d] OBVIOUS
  <2>1. d \in D /\ d # 0 BY <1>1
  <2> HIDE DEF D
  <2> QED BY <2>1, <1>7
<1> DEFINE A == {n \in Nat : n \in D => S[n] \in Nat}
<1>10. \A n \in Nat : n \in A
  <2>1. 0 \in A BY <1>8
  <2>2. ASSUME NEW n \in Nat, n \in A PROVE n + 1 \in A
    <3> SUFFICES ASSUME n + 1 \in D PROVE S[n + 1] \in Nat OBVIOUS
    <3>1. n \in D /\ n + 1 \in 1 .. Len(c.parts) BY <1>1
    <3>2. S[n + 1] = S[(n + 1) - 1] + c.parts[n + 1] BY <3>1, <1>9
    <3>3. (n + 1) - 1 = n OBVIOUS
    <3> QED BY <3>1, <3>2, <3>3, <2>2, <1>1
  <2> HIDE DEF A
  <2> QED BY <2>1, <2>2, Naturals
<1>11. \A d \in D : S[d] \in Nat BY <1>1, <1>10
<1> QED BY <1>2, <1>8, <1>9, <1>11

\* A device's part lies within what all have.
LEMMA PartWithinTotal ==
  ASSUME NEW c, MapCall(c)
  PROVE  /\ Part(c) \in Nat /\ Offset(c) \in Nat /\ Total(c) \in Nat
         /\ Offset(c) + Part(c) <= Total(c)
<1> DEFINE n == Len(c.parts)
           d == c.device
           A == {k \in Nat : d + k <= n => PartsUpTo(c, d) <= PartsUpTo(c, d + k)}
<1>1. /\ n \in Nat /\ d \in 1 .. n /\ \A k \in 1 .. n : c.parts[k] \in Nat
      /\ Part(c) \in Nat
  BY DEF MapCall, Part
<1>2. /\ \A k \in 0 .. n : PartsUpTo(c, k) \in Nat
      /\ \A k \in 1 .. n : PartsUpTo(c, k) = PartsUpTo(c, k - 1) + c.parts[k]
  BY PartsFacts
<1> HIDE DEF n, d
<1>3. 0 \in A
  <2>1. d + 0 = d /\ PartsUpTo(c, d) \in Nat BY <1>1, <1>2
  <2> QED BY <2>1
<1>4. ASSUME NEW k \in Nat, k \in A PROVE k + 1 \in A
  <2> SUFFICES ASSUME d + (k + 1) <= n PROVE PartsUpTo(c, d) <= PartsUpTo(c, d + (k + 1))
    OBVIOUS
  <2> DEFINE e == d + (k + 1)
  <2>1. e \in 1 .. n /\ e - 1 = d + k /\ d + k <= n /\ d + k \in 0 .. n BY <1>1
  <2>2. PartsUpTo(c, e) = PartsUpTo(c, d + k) + c.parts[e] /\ c.parts[e] \in Nat
    BY <1>1, <1>2, <2>1
  <2>3. PartsUpTo(c, d) <= PartsUpTo(c, d + k) BY <1>4, <2>1
  <2>4. PartsUpTo(c, d) \in Nat /\ PartsUpTo(c, d + k) \in Nat BY <1>1, <1>2, <2>1
  <2> HIDE DEF e
  <2> QED BY <2>2, <2>3, <2>4 DEF e
<1>5. \A k \in Nat : k \in A
  <2> HIDE DEF A
  <2> QED BY <1>3, <1>4, Naturals
<1>6. PartsUpTo(c, d) <= PartsUpTo(c, n)
  <2> DEFINE k == n - d
  <2>1. k \in Nat /\ d + k = n /\ d + k <= n BY <1>1
  <2> HIDE DEF k
  <2>2. k \in A BY <2>1, <1>5
  <2>3. PartsUpTo(c, d) <= PartsUpTo(c, d + k) BY <2>1, <2>2
  <2> QED BY <2>1, <2>3
<1>7. PartsUpTo(c, d) = PartsUpTo(c, d - 1) + c.parts[d] BY <1>1, <1>2
<1>8. PartsUpTo(c, d - 1) \in Nat /\ PartsUpTo(c, n) \in Nat BY <1>1, <1>2
<1> QED BY <1>1, <1>6, <1>7, <1>8 DEF Part, Offset, Total, n, d

LineForm  == {"elements", "elements, no result", "indices", "indices, no result"}
PointForm == {"points", "points, no result"}

LEMMA MapFacts ==
  ASSUME NEW c, c.skeleton = "map", MapCall(c)
  PROVE  LET l == MapLaunch(c)
         IN  /\ LaunchOf(c) = {l} /\ Launches(c) \in Seq({l})
             /\ l.kernel = "SCL_MAP" /\ l.form = c.form
             /\ c.form \in LineForm =>
                  /\ l.local = 0 /\ l.side = c.side /\ l.items = c.side
                  /\ l.groups = CeilToMultipleOf(Part(c), c.side) \div c.side
             /\ c.form \in {"elements", "elements, no result", "indices, no result"} =>
                  l.elements = Part(c)
             /\ c.form = "indices" => l.outSize = c.outSize
             /\ c.form \in {"indices", "indices, no result"} => l.offset = Offset(c)
<1> DEFINE l == MapLaunch(c)
           line == Line(Part(c), c.side)
           K == [kernel |-> "SCL_MAP", form |-> c.form]
<1>1. Launches(c) = <<l>> BY DEF Launches
<1>2. LaunchOf(c) = {l} /\ Launches(c) \in Seq({l}) BY <1>1 DEF LaunchOf
<1>3. ASSUME NEW m
      PROVE  Merged(m, K).kernel = IF "kernel" \in DOMAIN m THEN m.kernel ELSE "SCL_MAP"
  BY DEF Merged
<1>4. /\ DOMAIN line = {"local", "side", "items", "groups"}
      /\ line.local = 0 /\ line.side = c.side /\ line.items = c.side
      /\ line.groups = CeilToMultipleOf(Part(c), c.side) \div c.side
  BY DEF Line
<1>5. DOMAIN K = {"kernel", "form"} /\ K.kernel = "SCL_MAP" /\ K.form = c.form OBVIOUS
<1> HIDE DEF line, K
<1>6. CASE c.form = "elements"
  <2> DEFINE e == [elements |-> Part(c)]
  <2>1. l = Merged(Merged(line, e), K)
    BY <1>6 DEF MapLaunch, ElementsLaunch, line, K
  <2>2. DOMAIN e = {"elements"} /\ e.elements = Part(c) OBVIOUS
  <2> HIDE DEF e, l
  <2>3. /\ l.kernel = "SCL_MAP" /\ l.form = c.form
        /\ l.local = 0 /\ l.side = c.side /\ l.items = c.side
        /\ l.groups = CeilToMultipleOf(Part(c), c.side) \div c.side
        /\ l.elements = Part(c)
    BY <2>1, <2>2, <1>4, <1>5 DEF Merged
  <2> QED BY <1>2, <1>6, <2>3 DEF l
<1>7. CASE c.form = "elements, no result"
  <2> DEFINE e == [elements |-> Part(c)]
  <2>1. l = Merged(Merged(line, e), K)
    BY <1>7 DEF MapLaunch, ElementsVoidLaunch, ElementsLaunch, line, K
  <2>2. DOMAIN e = {"elements"} /\ e.elements = Part(c) OBVIOUS
  <2> HIDE DEF e, l
  <2>3. /\ l.kernel = "SCL_MAP" /\ l.form = c.form
        /\ l.local = 0 /\ l.side = c.side /\ l.items = c.side
        /\ l.groups = CeilToMultipleOf(Part(c), c.side) \div c.side
        /\ l.elements = Part(c)
    BY <2>1, <2>2, <1>4, <1>5 DEF Merged
  <2> QED BY <1>2, <1>7, <2>3 DEF l
<1>8. CASE c.form = "indices"
  <2> DEFINE e == [outSize |-> c.outSize, offset |-> Offset(c)]
  <2>1. l = Merged(Merged(line, e), K) BY <1>8 DEF MapLaunch, IndicesLaunch, line, K
  <2>2. DOMAIN e = {"outSize", "offset"} /\ e.outSize = c.outSize /\ e.offset = Offset(c)
    OBVIOUS
  <2> HIDE DEF e, l
  <2>3. /\ l.kernel = "SCL_MAP" /\ l.form = c.form
        /\ l.local = 0 /\ l.side = c.side /\ l.items = c.side
        /\ l.groups = CeilToMultipleOf(Part(c), c.side) \div c.side
        /\ l.outSize = c.outSize /\ l.offset = Offset(c)
    BY <2>1, <2>2, <1>4, <1>5 DEF Merged
  <2> QED BY <1>2, <1>8, <2>3 DEF l
<1>9. CASE c.form = "indices, no result"
  <2> DEFINE e == [elements |-> Part(c), offset |-> Offset(c)]
  <2>1. l = Merged(Merged(line, e), K) BY <1>9 DEF MapLaunch, IndicesVoidLaunch, line, K
  <2>2. DOMAIN e = {"elements", "offset"} /\ e.elements = Part(c) /\ e.offset = Offset(c)
    OBVIOUS
  <2> HIDE DEF e, l
  <2>3. /\ l.kernel = "SCL_MAP" /\ l.form = c.form
        /\ l.local = 0 /\ l.side = c.side /\ l.items = c.side
        /\ l.groups = CeilToMultipleOf(Part(c), c.side) \div c.side
        /\ l.elements = Part(c) /\ l.offset = Offset(c)
    BY <2>1, <2>2, <1>4, <1>5 DEF Merged
  <2> QED BY <1>2, <1>9, <2>3 DEF l
<1>10. CASE c.form \in PointForm
  <2> DEFINE area == Area(Part(c), c.cols, c.side)
             e == [outSize |-> c.outSize, rowOffset |-> Offset(c), colCount |-> c.cols]
             f == [colCount |-> c.cols, rowCount |-> Part(c), rowOffset |-> Offset(c)]
  <2>1. l = Merged(Merged(area, e), K) \/ l = Merged(Merged(area, f), K)
    BY <1>10 DEF MapLaunch, PointsLaunch, PointsVoidLaunch, PointForm, K
  <2>2. /\ DOMAIN e = {"outSize", "rowOffset", "colCount"}
        /\ DOMAIN f = {"colCount", "rowCount", "rowOffset"}
        /\ DOMAIN area = {"local", "side", "items", "down", "groups", "width"}
    BY DEF Area
  <2> HIDE DEF area, e, f, l
  <2>3. l.kernel = "SCL_MAP" /\ l.form = c.form BY <2>1, <2>2, <1>5 DEF Merged
  <2> QED BY <1>2, <1>10, <2>3 DEF l, PointForm, LineForm
<1> HIDE DEF l
<1> QED BY <1>6, <1>7, <1>8, <1>9, <1>10 DEF MapCall, MapForm, PointForm, l

LEMMA PointFacts ==
  ASSUME NEW c, MapCall(c), c.form \in PointForm
  PROVE  LET l == MapLaunch(c)
         IN  /\ l.local = 0 /\ l.side = c.side /\ l.items = c.side * c.side
             /\ l.down = CeilToMultipleOf(Part(c), c.side) \div c.side
             /\ l.groups = l.down * (CeilToMultipleOf(c.cols, c.side) \div c.side)
             /\ l.width = CeilToMultipleOf(c.cols, c.side)
             /\ l.rowOffset = Offset(c) /\ l.colCount = c.cols
             /\ c.form = "points" => l.outSize = c.outSize
             /\ c.form = "points, no result" => l.rowCount = Part(c)
<1> DEFINE l == MapLaunch(c)
           area == Area(Part(c), c.cols, c.side)
           K == [kernel |-> "SCL_MAP", form |-> c.form]
<1>1. /\ DOMAIN area = {"local", "side", "items", "down", "groups", "width"}
      /\ area.local = 0 /\ area.side = c.side /\ area.items = c.side * c.side
      /\ area.down = CeilToMultipleOf(Part(c), c.side) \div c.side
      /\ area.groups = area.down * (CeilToMultipleOf(c.cols, c.side) \div c.side)
      /\ area.width = CeilToMultipleOf(c.cols, c.side)
  BY DEF Area
<1>2. DOMAIN K = {"kernel", "form"} OBVIOUS
<1> HIDE DEF area, K
<1>3. CASE c.form = "points"
  <2> DEFINE e == [outSize |-> c.outSize, rowOffset |-> Offset(c), colCount |-> c.cols]
  <2>1. l = Merged(Merged(area, e), K) BY <1>3 DEF MapLaunch, PointsLaunch, area, K
  <2>2. DOMAIN e = {"outSize", "rowOffset", "colCount"}
        /\ e.outSize = c.outSize /\ e.rowOffset = Offset(c) /\ e.colCount = c.cols
    OBVIOUS
  <2> HIDE DEF e, l
  <2>3. /\ l.local = area.local /\ l.side = area.side /\ l.items = area.items
        /\ l.down = area.down /\ l.groups = area.groups /\ l.width = area.width
        /\ l.rowOffset = Offset(c) /\ l.colCount = c.cols /\ l.outSize = c.outSize
    BY <2>1, <2>2, <1>1, <1>2 DEF Merged
  <2> QED BY <1>1, <1>3, <2>3 DEF l
<1>4. CASE c.form = "points, no result"
  <2> DEFINE e == [colCount |-> c.cols, rowCount |-> Part(c), rowOffset |-> Offset(c)]
  <2>1. l = Merged(Merged(area, e), K) BY <1>4 DEF MapLaunch, PointsVoidLaunch, area, K
  <2>2. DOMAIN e = {"colCount", "rowCount", "rowOffset"}
        /\ e.rowCount = Part(c) /\ e.rowOffset = Offset(c) /\ e.colCount = c.cols
    OBVIOUS
  <2> HIDE DEF e, l
  <2>3. /\ l.local = area.local /\ l.side = area.side /\ l.items = area.items
        /\ l.down = area.down /\ l.groups = area.groups /\ l.width = area.width
        /\ l.rowOffset = Offset(c) /\ l.colCount = c.cols /\ l.rowCount = Part(c)
    BY <2>1, <2>2, <1>1, <1>2 DEF Merged
  <2> QED BY <1>1, <1>4, <2>3 DEF l
<1> QED BY <1>3, <1>4 DEF PointForm

\* Where an item of Map puts its result, or its mark, and when.
MapPlace(l, g, i) ==
  CASE l.form \in {"elements", "elements, no result", "indices"} -> GlobalId(l, g, i)
    [] l.form = "indices, no result" -> GlobalId(l, g, i) + l.offset
    [] l.form = "points" -> PointRow(l, g, i) * l.colCount + PointColumn(l, g, i)
    [] l.form = "points, no result" ->
         (PointRow(l, g, i) + l.rowOffset) * l.colCount + PointColumn(l, g, i)

MapGuard(l, g, i) ==
  CASE l.form \in {"elements", "elements, no result", "indices, no result"} ->
         GlobalId(l, g, i) < l.elements
    [] l.form = "indices" -> GlobalId(l, g, i) < l.outSize
    [] l.form = "points" ->
         PointRow(l, g, i) * l.colCount + PointColumn(l, g, i) < l.outSize
    [] l.form = "points, no result" ->
         PointColumn(l, g, i) < l.colCount /\ PointRow(l, g, i) < l.rowCount

LEMMA MapCodes ==
  ASSUME NEW l, l.kernel = "SCL_MAP", l.form \in MapForm, NEW g, NEW i, NEW p
  PROVE  /\ Phases(l, g, i) = 1
         /\ \A x \in Touched(Code(l, g, i, p)) :
              /\ MapGuard(l, g, i)
              /\ x = Cell(Out, MapPlace(l, g, i)) \/ x[1] = In
         /\ \A x \in DOMAIN Code(l, g, i, p) : x = Cell(Out, MapPlace(l, g, i))
<1> DEFINE at == Cell(Out, MapPlace(l, g, i))
           guard == MapGuard(l, g, i)
           code == Code(l, g, i, p)
<1>1. Phases(l, g, i) = 1 BY DEF Phases, OnePhase
<1>2. code = MapCode(l, g, i) BY DEF Code
<1>3. \E k : code = IF guard THEN Copied(at, Cell(In, k)) ELSE Nothing
  <2> DEFINE id == GlobalId(l, g, i)
             rw == PointRow(l, g, i)
             cl == PointColumn(l, g, i)
  <2>0. l.form \in {"elements", "elements, no result", "indices", "indices, no result",
                    "points", "points, no result"}
    BY DEF MapForm
  <2>1. CASE l.form = "elements"
    <3>1. at = Cell(Out, id) /\ (guard <=> id < l.elements)
      BY <2>1 DEF MapPlace, MapGuard
    <3>2. code = ElementsCode(l, id) BY <2>1, <1>2 DEF MapCode
    <3> HIDE DEF id, at, guard, code
    <3> QED BY <3>1, <3>2 DEF ElementsCode
  <2>2. CASE l.form = "elements, no result"
    <3>1. at = Cell(Out, id) /\ (guard <=> id < l.elements)
      BY <2>2 DEF MapPlace, MapGuard
    <3>2. code = ElementsVoidCode(l, id) BY <2>2, <1>2 DEF MapCode
    <3> HIDE DEF id, at, guard, code
    <3> QED BY <3>1, <3>2 DEF ElementsVoidCode
  <2>3. CASE l.form = "indices"
    <3>1. at = Cell(Out, id) /\ (guard <=> id < l.outSize)
      BY <2>3 DEF MapPlace, MapGuard
    <3>2. code = IndicesCode(l, id) BY <2>3, <1>2 DEF MapCode
    <3> HIDE DEF id, at, guard, code
    <3> QED BY <3>1, <3>2 DEF IndicesCode
  <2>4. CASE l.form = "indices, no result"
    <3>1. at = Cell(Out, id + l.offset) /\ (guard <=> id < l.elements)
      BY <2>4 DEF MapPlace, MapGuard
    <3>2. code = IndicesVoidCode(l, id) BY <2>4, <1>2 DEF MapCode
    <3> HIDE DEF id, at, guard, code
    <3> QED BY <3>1, <3>2 DEF IndicesVoidCode
  <2>5. CASE l.form = "points"
    <3>1. at = Cell(Out, rw * l.colCount + cl) /\ (guard <=> rw * l.colCount + cl < l.outSize)
      BY <2>5 DEF MapPlace, MapGuard
    <3>2. code = PointsCode(l, rw, cl) BY <2>5, <1>2 DEF MapCode
    <3> HIDE DEF rw, cl, at, guard, code
    <3> QED BY <3>1, <3>2 DEF PointsCode, Point
  <2>6. CASE l.form = "points, no result"
    <3>1. /\ at = Cell(Out, (rw + l.rowOffset) * l.colCount + cl)
          /\ guard <=> cl < l.colCount /\ rw < l.rowCount
      BY <2>6 DEF MapPlace, MapGuard
    <3>2. code = PointsVoidCode(l, rw, cl) BY <2>6, <1>2 DEF MapCode
    <3> HIDE DEF rw, cl, at, guard, code
    <3> QED BY <3>1, <3>2 DEF PointsVoidCode, Point
  <2> QED BY <2>0, <2>1, <2>2, <2>3, <2>4, <2>5, <2>6
<1>4. PICK k : code = IF guard THEN Copied(at, Cell(In, k)) ELSE Nothing BY <1>3
<1> DEFINE from == Cell(In, k)
<1>5. from[1] = In BY DEF Cell
<1> HIDE DEF at, guard, code, from
<1>6. DOMAIN Copied(at, from) = {at} /\ Touched(Copied(at, from)) = {at, from} BY CodeOfCopy
<1>7. \A x \in Touched(code) : guard /\ (x = at \/ x[1] = In)
  BY <1>4, <1>5, <1>6, CodeOfNone DEF from
<1>8. \A x \in DOMAIN code : x = at BY <1>4, <1>6, CodeOfNone DEF from
<1> QED BY <1>1, <1>7, <1>8 DEF at, guard, code

\* Row and column tell the items of an area apart.
LEMMA PointIds ==
  ASSUME NEW l, l.side \in Positive, l.items = l.side * l.side, l.down \in Positive,
         NEW across \in Positive, l.groups = l.down * across,
         NEW g \in GroupOf(l), NEW i \in ItemOf(l)
  PROVE  /\ PointRow(l, g, i) \in 0 .. l.down * l.side - 1
         /\ PointColumn(l, g, i) \in 0 .. across * l.side - 1
         /\ \A h \in GroupOf(l), j \in ItemOf(l) :
              PointRow(l, g, i) = PointRow(l, h, j) /\ PointColumn(l, g, i) = PointColumn(l, h, j)
              => g = h /\ i = j
<1>1. /\ across \in Nat /\ l.down \in Nat /\ l.side \in Nat
      /\ l.groups = across * l.down
  BY DEF Positive
<1>2. \A h \in GroupOf(l) : /\ h \div l.down \in 0 .. across - 1 /\ h % l.down \in 0 .. l.down - 1
                            /\ h = (h \div l.down) * l.down + (h % l.down)
  BY <1>1, PlaceOf DEF GroupOf
<1>3. \A j \in ItemOf(l) : /\ j \div l.side \in 0 .. l.side - 1 /\ j % l.side \in 0 .. l.side - 1
                           /\ j = (j \div l.side) * l.side + (j % l.side)
  BY <1>1, PlaceOf DEF ItemOf
<1>4. PointRow(l, g, i) \in 0 .. l.down * l.side - 1 BY <1>1, <1>2, <1>3, Place DEF PointRow
<1>5. PointColumn(l, g, i) \in 0 .. across * l.side - 1
  BY <1>1, <1>2, <1>3, Place DEF PointColumn
<1>6. ASSUME NEW h \in GroupOf(l), NEW j \in ItemOf(l),
             PointRow(l, g, i) = PointRow(l, h, j), PointColumn(l, g, i) = PointColumn(l, h, j)
      PROVE  g = h /\ i = j
  <2>1. \A k \in GroupOf(l) : k \div l.down \in Nat /\ k % l.down \in Nat BY <1>1, <1>2
  <2>2. g % l.down = h % l.down /\ i % l.side = j % l.side
    <3>1. (g % l.down) * l.side + (i % l.side) = (h % l.down) * l.side + (j % l.side)
      BY <1>6 DEF PointRow
    <3> QED BY <3>1, <2>1, <1>3, PlaceUnique
  <2>3. g \div l.down = h \div l.down /\ i \div l.side = j \div l.side
    <3>1. (g \div l.down) * l.side + (i \div l.side) = (h \div l.down) * l.side + (j \div l.side)
      BY <1>6 DEF PointColumn
    <3> QED BY <3>1, <2>1, <1>3, PlaceUnique
  <2>4. g = (h \div l.down) * l.down + (h % l.down) BY <1>2, <2>2, <2>3
  <2>5. i = (j \div l.side) * l.side + (j % l.side) BY <1>3, <2>2, <2>3
  <2> QED BY <1>2, <1>3, <2>4, <2>5
<1> QED BY <1>4, <1>5, <1>6

LEMMA MapIsScheduled ==
  ASSUME NEW c, c.skeleton = "map", MapCall(c)
  PROVE  Scheduled(c) /\ Shape(c, MapLaunch(c))
<1> DEFINE l == MapLaunch(c)
<1>1. /\ LaunchOf(c) = {l} /\ Launches(c) \in Seq({l})
      /\ l.kernel = "SCL_MAP" /\ l.form = c.form
      /\ c.form \in LineForm =>
           /\ l.local = 0 /\ l.side = c.side /\ l.items = c.side
           /\ l.groups = CeilToMultipleOf(Part(c), c.side) \div c.side
  BY MapFacts
<1>2. c.form \in PointForm =>
        /\ l.local = 0 /\ l.side = c.side /\ l.items = c.side * c.side
        /\ l.down = CeilToMultipleOf(Part(c), c.side) \div c.side
        /\ l.groups = l.down * (CeilToMultipleOf(c.cols, c.side) \div c.side)
  BY PointFacts
<1> HIDE DEF l
<1>3. /\ c.form \in MapForm /\ (c.form \in LineForm \/ c.form \in PointForm)
      /\ c.side \in Positive /\ c.cols \in Nat /\ c.warp \in Positive
  BY DEF MapCall, MapForm, LineForm, PointForm, Positive
<1>4. Part(c) \in Nat BY PartWithinTotal
<1>5. Shape(c, l)
  <2>1. CASE c.form \in LineForm BY <2>1, <1>1, <1>3, <1>4, LineIsShaped
  <2>2. CASE c.form \in PointForm
    <3>1. c.side * c.side \in Positive BY <1>3, Product
    <3>2. /\ CeilToMultipleOf(Part(c), c.side) \div c.side \in Positive
          /\ CeilToMultipleOf(c.cols, c.side) \div c.side \in Positive
      BY <1>3, <1>4, Rounded
    <3>3. l.groups \in Positive BY <2>2, <1>2, <3>2, Product
    <3> QED BY <2>2, <1>2, <1>3, <3>1, <3>3 DEF Shape, Positive
  <2> QED BY <1>3, <2>1, <2>2
<1>6. Even(l)
  <2>1. ASSUME NEW g, NEW i PROVE Phases(l, g, i) = 1 BY <1>1, <1>3, MapCodes
  <2> QED BY <2>1 DEF Even
<1> QED BY <1>1, <1>5, <1>6 DEF Scheduled, l

OutSize(c) ==
  IF c.form \in {"indices, no result", "points, no result"}
  THEN Total(c) * c.cols ELSE c.outPart

\* A place for each item, within what its group has.
LEMMA MapPlaces ==
  ASSUME NEW c, c.skeleton = "map", MapCall(c), WholeColumns(c),
         NEW g \in GroupOf(MapLaunch(c)), NEW i \in ItemOf(MapLaunch(c))
  PROVE  LET l == MapLaunch(c)
         IN  /\ MapGuard(l, g, i) => MapPlace(l, g, i) \in Nat
             /\ MapGuard(l, g, i) /\ WholeGroups(c) => MapPlace(l, g, i) < OutSize(c)
             /\ \A h \in GroupOf(l), j \in ItemOf(l) :
                  /\ MapGuard(l, g, i) /\ MapGuard(l, h, j)
                  /\ MapPlace(l, g, i) = MapPlace(l, h, j)
                  => g = h /\ i = j
<1> DEFINE l == MapLaunch(c)
           n == CeilToMultipleOf(Part(c), c.side)
           down == n \div c.side
<1>0. /\ c.form \in {"indices, no result", "points, no result"} => OutSize(c) = Total(c) * c.cols
      /\ c.form \in {"elements", "elements, no result", "indices", "points"} =>
           OutSize(c) = c.outPart
  BY DEF OutSize
<1>1. /\ l.form = c.form
      /\ c.form \in LineForm => l.side = c.side /\ l.items = c.side /\ l.groups = down
      /\ c.form \in {"elements", "elements, no result", "indices, no result"} =>
           l.elements = Part(c)
      /\ c.form = "indices" => l.outSize = c.outSize
      /\ c.form \in {"indices", "indices, no result"} => l.offset = Offset(c)
  BY MapFacts
<1>2. c.form \in PointForm =>
        /\ l.side = c.side /\ l.items = c.side * c.side
        /\ l.down = down
        /\ l.groups = down * (CeilToMultipleOf(c.cols, c.side) \div c.side)
        /\ l.rowOffset = Offset(c) /\ l.colCount = c.cols
        /\ c.form = "points" => l.outSize = c.outSize
        /\ c.form = "points, no result" => l.rowCount = Part(c)
  BY PointFacts
<1>3. /\ c.form \in MapForm /\ (c.form \in LineForm \/ c.form \in PointForm)
      /\ c.side \in Positive /\ c.cols \in Positive /\ c.outPart \in Nat /\ c.outSize \in Nat
      /\ Part(c) * c.cols <= c.outPart /\ c.side \in Nat /\ c.cols \in Nat
  BY DEF MapCall, MapForm, LineForm, PointForm, Positive, Part
<1>4. /\ Part(c) \in Nat /\ Offset(c) \in Nat /\ Total(c) \in Nat
      /\ Offset(c) + Part(c) <= Total(c)
  BY PartWithinTotal
<1>5. down \in Positive /\ n = down * c.side /\ down \in Nat BY <1>3, <1>4, Rounded DEF Positive
<1>6. n \in Nat BY <1>3, <1>5, Times
<1>7. c.form = "indices" \/ c.form = "points" =>
        (WholeGroups(c) => Min({n * c.cols, c.outSize}) <= Part(c) * c.cols)
  BY DEF WholeGroups, Part
<1>8. g \in GroupOf(l) /\ i \in ItemOf(l) OBVIOUS
<1> HIDE DEF l, n, down
<1>9. \A a \in Nat : a <= a * c.cols
  <2> SUFFICES ASSUME NEW a \in Nat PROVE a <= a * c.cols OBVIOUS
  <2>1. a * 1 <= a * c.cols BY <1>3, Monotone DEF Positive
  <2> QED BY <2>1
<1>10. n * c.cols \in Nat /\ Part(c) * c.cols \in Nat /\ Total(c) * c.cols \in Nat
  BY <1>3, <1>4, <1>6, Times
<1>11. WholeGroups(c) /\ c.form \in {"indices", "points"} =>
         \A a \in Nat : a < n * c.cols /\ a < c.outSize => a < c.outPart
  <2> DEFINE m == n * c.cols
  <2> HIDE DEF m
  <2>1. m \in Int /\ c.outSize \in Int BY <1>3, <1>10 DEF m
  <2>2. Min({m, c.outSize}) \in {m, c.outSize} BY <2>1, MinOfTwo
  <2> QED BY <1>3, <1>7, <1>10, <2>1, <2>2 DEF m
<1>12. CASE c.form \in LineForm
  <2> DEFINE id(h, j) == GlobalId(l, h, j)
  <2>0. l.side \in Positive /\ l.items = l.side /\ l.groups \in Nat /\ l.groups * l.side = n
    BY <1>1, <1>3, <1>5, <1>12
  <2>1. /\ id(g, i) \in 0 .. l.groups * l.side - 1
        /\ \A h \in GroupOf(l), j \in ItemOf(l) : id(g, i) = id(h, j) => g = h /\ i = j
    BY <2>0, <1>8, GlobalIds
  <2>2. \A h \in GroupOf(l), j \in ItemOf(l) : id(h, j) \in Nat
    <3> SUFFICES ASSUME NEW h \in GroupOf(l), NEW j \in ItemOf(l) PROVE id(h, j) \in Nat
      OBVIOUS
    <3>1. GlobalId(l, h, j) \in 0 .. l.groups * l.side - 1 BY <2>0, GlobalIds
    <3> QED BY <3>1
  <2>3. id(g, i) \in Nat /\ id(g, i) < n
    <3> HIDE DEF id
    <3> QED BY <2>0, <2>1, <1>6
  <2> HIDE DEF id
  <2>4. CASE c.form \in {"elements", "elements, no result"}
    <3>1. \A h, j : /\ MapPlace(l, h, j) = id(h, j)
                    /\ MapGuard(l, h, j) <=> id(h, j) < Part(c)
      BY <2>4, <1>1 DEF MapPlace, MapGuard, id
    <3>2. id(g, i) < Part(c) => id(g, i) < c.outPart BY <2>3, <1>3, <1>4, <1>9, <1>10
    <3> QED BY <2>1, <2>3, <2>4, <3>1, <3>2, <1>0 DEF l
  <2>5. CASE c.form = "indices"
    <3>1. \A h, j : /\ MapPlace(l, h, j) = id(h, j)
                    /\ MapGuard(l, h, j) <=> id(h, j) < c.outSize
      BY <2>5, <1>1 DEF MapPlace, MapGuard, id
    <3>2. id(g, i) < n * c.cols BY <2>3, <1>6, <1>9, <1>10
    <3>3. WholeGroups(c) /\ id(g, i) < c.outSize => id(g, i) < c.outPart
      BY <2>3, <2>5, <3>2, <1>11
    <3> QED BY <2>1, <2>3, <2>5, <3>1, <3>3, <1>0 DEF l
  <2>6. CASE c.form = "indices, no result"
    <3>1. \A h, j : /\ MapPlace(l, h, j) = id(h, j) + Offset(c)
                    /\ MapGuard(l, h, j) <=> id(h, j) < Part(c)
      BY <2>6, <1>1 DEF MapPlace, MapGuard, id
    <3>2. id(g, i) < Part(c) => id(g, i) + Offset(c) < Total(c) * c.cols
      BY <2>3, <1>4, <1>9, <1>10
    <3>3. \A h \in GroupOf(l), j \in ItemOf(l) :
            id(g, i) + Offset(c) = id(h, j) + Offset(c) => id(g, i) = id(h, j)
      BY <2>2, <2>3, <1>4
    <3>4. id(g, i) + Offset(c) \in Nat BY <2>3, <1>4
    <3>5. OutSize(c) = Total(c) * c.cols BY <2>6, <1>0
    <3> QED BY <2>1, <3>1, <3>2, <3>3, <3>4, <3>5 DEF l
  <2> QED BY <1>12, <2>4, <2>5, <2>6 DEF LineForm
<1>13. CASE c.form \in PointForm
  <2> DEFINE across == CeilToMultipleOf(c.cols, c.side) \div c.side
             rw(h, j) == PointRow(l, h, j)
             cl(h, j) == PointColumn(l, h, j)
  <2>1. /\ across \in Positive /\ across * c.side = CeilToMultipleOf(c.cols, c.side)
        /\ c.form = "points" => across * c.side = c.cols
    <3>1. /\ across \in Positive /\ CeilToMultipleOf(c.cols, c.side) = across * c.side
          /\ c.cols # 0 /\ c.cols % c.side = 0 => CeilToMultipleOf(c.cols, c.side) = c.cols
      BY <1>3, Rounded
    <3> HIDE DEF across
    <3> QED BY <3>1, <1>3 DEF WholeColumns, Positive
  <2>2. l.groups = l.down * across BY <1>2, <1>13
  <2> HIDE DEF across
  <2>3. ASSUME NEW h \in GroupOf(l), NEW j \in ItemOf(l)
        PROVE  /\ rw(h, j) \in 0 .. n - 1 /\ rw(h, j) \in Nat
               /\ cl(h, j) \in 0 .. across * c.side - 1 /\ cl(h, j) \in Nat
               /\ \A h2 \in GroupOf(l), j2 \in ItemOf(l) :
                    rw(h, j) = rw(h2, j2) /\ cl(h, j) = cl(h2, j2) => h = h2 /\ j = j2
    <3>0. l.side \in Positive /\ l.items = l.side * l.side /\ l.down \in Positive
      BY <1>2, <1>3, <1>5, <1>13
    <3>1. /\ PointRow(l, h, j) \in 0 .. l.down * l.side - 1
          /\ PointColumn(l, h, j) \in 0 .. across * l.side - 1
          /\ \A h2 \in GroupOf(l), j2 \in ItemOf(l) :
               PointRow(l, h, j) = PointRow(l, h2, j2) /\ PointColumn(l, h, j) = PointColumn(l, h2, j2)
               => h = h2 /\ j = j2
      BY <3>0, <2>1, <2>2, PointIds
    <3>2. l.down * l.side = n /\ l.side = c.side BY <1>2, <1>5, <1>13
    <3> HIDE DEF rw, cl
    <3> QED BY <3>1, <3>2 DEF rw, cl
  <2> HIDE DEF rw, cl
  <2>4. CASE c.form = "points"
    <3>1. \A h, j : /\ MapPlace(l, h, j) = rw(h, j) * c.cols + cl(h, j)
                    /\ MapGuard(l, h, j) <=> rw(h, j) * c.cols + cl(h, j) < c.outSize
      BY <2>4, <1>1, <1>2, <1>13 DEF MapPlace, MapGuard, rw, cl
    <3>2. \A h \in GroupOf(l), j \in ItemOf(l) : cl(h, j) \in 0 .. c.cols - 1
      BY <2>1, <2>3, <2>4
    <3>3. rw(g, i) * c.cols + cl(g, i) \in 0 .. n * c.cols - 1
      BY <1>3, <1>6, <1>8, <2>3, <3>2, Place
    <3>4. \A h \in GroupOf(l), j \in ItemOf(l) :
            rw(g, i) * c.cols + cl(g, i) = rw(h, j) * c.cols + cl(h, j)
            => rw(g, i) = rw(h, j) /\ cl(g, i) = cl(h, j)
      BY <1>3, <1>8, <2>3, <3>2, PlaceUnique
    <3> DEFINE at == rw(g, i) * c.cols + cl(g, i)
    <3>5. at \in Nat /\ at < n * c.cols BY <3>3, <1>10
    <3>6. WholeGroups(c) /\ at < c.outSize => at < c.outPart
      <4> HIDE DEF at
      <4> QED BY <2>4, <3>5, <1>11
    <3>7. \A h \in GroupOf(l), j \in ItemOf(l) :
            MapPlace(l, g, i) = MapPlace(l, h, j) => g = h /\ i = j
      BY <1>8, <2>3, <3>1, <3>4
    <3>8. MapPlace(l, g, i) = at /\ (MapGuard(l, g, i) <=> at < c.outSize) BY <3>1
    <3> HIDE DEF at
    <3> QED BY <2>4, <3>5, <3>6, <3>7, <3>8, <1>0 DEF l
  <2>5. CASE c.form = "points, no result"
    <3>1. \A h, j : /\ MapPlace(l, h, j) = (rw(h, j) + Offset(c)) * c.cols + cl(h, j)
                    /\ MapGuard(l, h, j) <=> cl(h, j) < c.cols /\ rw(h, j) < Part(c)
      BY <2>5, <1>1, <1>2, <1>13 DEF MapPlace, MapGuard, rw, cl
    <3> DEFINE at == (rw(g, i) + Offset(c)) * c.cols + cl(g, i)
    <3>2. MapGuard(l, g, i) => at \in 0 .. Total(c) * c.cols - 1
      <4> SUFFICES ASSUME cl(g, i) < c.cols, rw(g, i) < Part(c)
                   PROVE  at \in 0 .. Total(c) * c.cols - 1
        BY <3>1
      <4>1. rw(g, i) + Offset(c) \in 0 .. Total(c) - 1 /\ cl(g, i) \in 0 .. c.cols - 1
        BY <1>3, <1>4, <1>8, <2>3
      <4> QED BY <4>1, <1>3, <1>4, Place
    <3>3. ASSUME NEW h \in GroupOf(l), NEW j \in ItemOf(l), MapGuard(l, g, i), MapGuard(l, h, j),
                 MapPlace(l, g, i) = MapPlace(l, h, j)
          PROVE  g = h /\ i = j
      <4>1. /\ rw(g, i) + Offset(c) \in Nat /\ rw(h, j) + Offset(c) \in Nat
            /\ cl(g, i) \in 0 .. c.cols - 1 /\ cl(h, j) \in 0 .. c.cols - 1
        BY <1>3, <1>4, <1>8, <2>3, <3>1, <3>3
      <4>2. (rw(g, i) + Offset(c)) * c.cols + cl(g, i) = (rw(h, j) + Offset(c)) * c.cols + cl(h, j)
        BY <3>1, <3>3
      <4>3. rw(g, i) + Offset(c) = rw(h, j) + Offset(c) /\ cl(g, i) = cl(h, j)
        BY <4>1, <4>2, <1>3, PlaceUnique
      <4>4. rw(g, i) = rw(h, j) BY <4>3, <1>4, <1>8, <2>3
      <4> QED BY <4>3, <4>4, <1>8, <2>3
    <3>4. MapPlace(l, g, i) = at BY <3>1
    <3> HIDE DEF at
    <3>5. OutSize(c) = Total(c) * c.cols BY <2>5, <1>0
    <3>6. MapGuard(l, g, i) => at \in Nat /\ at < Total(c) * c.cols BY <3>2, <1>10
    <3> QED BY <3>3, <3>4, <3>5, <3>6 DEF l
  <2> QED BY <1>13, <2>4, <2>5 DEF PointForm
<1> QED BY <1>3, <1>12, <1>13

LEMMA MapIsSafe ==
  ASSUME NEW c, c.skeleton = "map", MapCall(c), NEW l \in LaunchOf(c), WholeColumns(c)
  PROVE  /\ WholeGroups(c) => Fits(c, l)
         /\ Apart(c, l) /\ Agree(c, l)
<1>1. /\ l = MapLaunch(c) /\ l.kernel = "SCL_MAP" /\ l.form = c.form BY MapFacts
<1>2. l.form \in MapForm BY <1>1 DEF MapCall
<1>3. ASSUME WholeGroups(c) PROVE Fits(c, l)
  <2> DEFINE size == OutSize(c)
  <2>1. Out \in DOMAIN Buffers(c) /\ DOMAIN Buffers(c)[Out] = 0 .. size - 1
    <3>1. Buffers(c) = MapBuffers(c) BY DEF Buffers
    <3>2. Out \in DOMAIN MapBuffers(c) /\ MapBuffers(c)[Out] = Fresh(size)
      BY DEF MapBuffers, In, Out, OutSize
    <3> QED BY <3>1, <3>2 DEF Fresh
  <2>2. size \in Int
    <3>1. Total(c) \in Nat BY PartWithinTotal
    <3>2. c.cols \in Nat /\ c.outPart \in Nat BY DEF MapCall, Positive
    <3>3. Total(c) * c.cols \in Nat BY <3>1, <3>2, Times
    <3> DEFINE t == Total(c) * c.cols
    <3>4. t \in Int /\ c.outPart \in Int BY <3>2, <3>3
    <3> HIDE DEF t
    <3>5. OutSize(c) = t \/ OutSize(c) = c.outPart BY DEF OutSize, t
    <3> QED BY <3>4, <3>5
  <2> SUFFICES ASSUME NEW g \in GroupOf(l), NEW i \in ItemOf(l), NEW p \in Nat,
                      NEW x \in DOMAIN Code(l, g, i, p)
               PROVE  /\ x[1] # Shared /\ x[1] \in DOMAIN Buffers(c)
                      /\ x[2] \in DOMAIN Buffers(c)[x[1]]
    BY DEF Fits
  <2>3. x = <<Out, MapPlace(l, g, i)>> /\ MapGuard(l, g, i)
    BY <1>1, <1>2, MapCodes DEF Touched, Cell
  <2>4. MapPlace(l, g, i) \in Nat /\ MapPlace(l, g, i) < size BY <1>1, <1>3, <2>3, MapPlaces
  <2>5. Out # Shared BY DEF Out, Shared
  <2> HIDE DEF size
  <2>6. MapPlace(l, g, i) \in 0 .. size - 1 BY <2>2, <2>4
  <2> QED BY <2>1, <2>3, <2>5, <2>6
<1>4. Private(l)
  <2> SUFFICES ASSUME NEW g \in GroupOf(l), NEW h \in GroupOf(l),
                      NEW i \in ItemOf(l), NEW j \in ItemOf(l), NEW p \in Nat, NEW q \in Nat,
                      NEW x \in DOMAIN Code(l, g, i, p), x \in Touched(Code(l, h, j, q))
               PROVE  g = h /\ i = j
    BY DEF Private
  <2>1. x = <<Out, MapPlace(l, g, i)>> /\ MapGuard(l, g, i)
    BY <1>1, <1>2, MapCodes DEF Touched, Cell
  <2>2. (x = <<Out, MapPlace(l, h, j)>> \/ x[1] = In) /\ MapGuard(l, h, j)
    BY <1>1, <1>2, MapCodes DEF Cell
  <2>3. MapPlace(l, g, i) = MapPlace(l, h, j) BY <2>1, <2>2 DEF In, Out
  <2> QED BY <1>1, <2>1, <2>2, <2>3, MapPlaces
<1> QED BY <1>3, <1>4, PrivateIsSafe

-----------------------------------------------------------------------------
(***************************************************************************)
(* MapOverlap.                                                             *)
(***************************************************************************)
\* What its launch sees to.
Tiled(l) ==
  /\ l.kernel = "SCL_MAPOVERLAP"
  /\ l.side \in Positive /\ l.range \in Positive /\ l.cols \in Positive
  /\ l.across \in Positive
  /\ \E down \in Nat : l.groups = down * l.across
  /\ l.items = l.side * l.side /\ l.local = TileWidth(l) * TileWidth(l)
  /\ \E rows \in Nat : l.elements = rows * l.cols
  /\ l.cols <= l.across * l.side
  /\ l.out \in {In, Out}

LEMMA OverlapFacts ==
  ASSUME NEW c, c.skeleton = "overlap", OverlapCall(c)
  PROVE  LET l == OverlapLaunch(c)
         IN  /\ LaunchOf(c) = {l} /\ Launches(c) \in Seq({l})
             /\ Tiled(l) /\ Shape(c, l)
             /\ l.out = c.out
             /\ WholeTiles(c) => l.cols = l.across * l.side
             /\ l.out \in DOMAIN Buffers(c)
             /\ DOMAIN Buffers(c)[l.out] =
                  0 .. ((l.elements \div l.cols) + 2 * l.range) * l.cols - 1
<1> DEFINE l == OverlapLaunch(c)
           elements == c.rows * c.cols
           across == CeilDiv(c.cols, c.side)
           down == CeilToMultipleOf(elements \div c.total, c.side) \div c.side
           W == c.side + 2 * c.range
<1>1. Launches(c) = <<l>> BY DEF Launches, OverlapLaunches
<1>2. LaunchOf(c) = {l} /\ Launches(c) \in Seq({l}) BY <1>1 DEF LaunchOf
<1>3. /\ c.rows \in Positive /\ c.total \in Positive /\ c.cols \in Positive
      /\ c.side \in Positive /\ c.range \in Positive /\ c.warp \in Positive
      /\ c.out \in {In, Out}
      /\ c.rows \in Nat /\ c.cols \in Nat /\ c.side \in Nat /\ c.range \in Nat
      /\ c.cols # 0
  BY DEF OverlapCall, Positive
<1>4. elements \in Nat BY <1>3, Times
<1>5. across \in Nat /\ c.cols <= across * c.side BY <1>3, CeilDivided
<1>6. across \in Positive
  <2> HIDE DEF across
  <2>1. CASE across = 0 BY <2>1, <1>3, <1>5 DEF Positive
  <2> QED BY <2>1, <1>5 DEF Positive
<1>7. down \in Nat
  <2>1. elements \div c.total \in Nat BY <1>3, <1>4, Division
  <2> HIDE DEF elements
  <2> QED BY <2>1, <1>3, Rounded DEF Positive
<1>8. WholeTiles(c) => c.cols = across * c.side
  <2>1. /\ c.cols # 0 /\ c.cols % c.side = 0 => CeilToMultipleOf(c.cols, c.side) = c.cols
        /\ c.cols # 0 => CeilToMultipleOf(c.cols, c.side) = across * c.side
    BY <1>3, Rounded
  <2> HIDE DEF across
  <2> QED BY <2>1, <1>3 DEF WholeTiles
<1>9. /\ l.kernel = "SCL_MAPOVERLAP" /\ l.groups = across * down
      /\ l.items = c.side * c.side /\ l.local = W * W /\ l.across = across
      /\ l.elements = elements /\ l.cols = c.cols /\ l.side = c.side
      /\ l.range = c.range /\ l.out = c.out
  BY DEF OverlapLaunch, TileWidth
<1>10. elements \div c.cols = c.rows
  <2>1. 0 \in 0 .. c.cols - 1 BY <1>3
  <2>2. (c.cols * c.rows + 0) \div c.cols = c.rows BY <1>3, <2>1, Quotient
  <2>3. c.cols * c.rows + 0 = elements BY <1>3
  <2> QED BY <2>2, <2>3
<1>11. /\ c.out \in DOMAIN Buffers(c)
       /\ DOMAIN Buffers(c)[c.out] = 0 .. (c.rows + 2 * c.range) * c.cols - 1
  <2> DEFINE n == (c.rows + 2 * c.range) * c.cols
  <2>1. Buffers(c) = OverlapBuffers(c) BY DEF Buffers
  <2>2. /\ c.out \in DOMAIN OverlapBuffers(c)
        /\ OverlapBuffers(c)[c.out] = IF c.out = In THEN Labelled(n, 0) ELSE Fresh(n)
    BY <1>3 DEF OverlapBuffers, In, Out, Constants
  <2>3. DOMAIN Labelled(n, 0) = 0 .. n - 1 /\ DOMAIN Fresh(n) = 0 .. n - 1
    BY DEF Labelled, Fresh
  <2> HIDE DEF n
  <2> QED BY <2>1, <2>2, <2>3 DEF n
<1>12. across * down = down * across /\ across * down \in Nat BY <1>5, <1>7, Times
<1>13. c.side * c.side \in Positive BY <1>3, Product
<1>14. W \in Nat BY <1>3
<1> HIDE DEF elements, across, down, l, W
<1>15. W * W \in Nat BY <1>14, Times
<1>16. Shape(c, l) BY <1>3, <1>9, <1>12, <1>13, <1>15 DEF Shape
<1>17. W = TileWidth(l) BY <1>9 DEF TileWidth, W
<1>18. Tiled(l)
  <2>1. \E d \in Nat : l.groups = d * l.across BY <1>7, <1>9, <1>12
  <2>2. \E rows \in Nat : l.elements = rows * l.cols BY <1>3, <1>9 DEF elements
  <2> QED BY <2>1, <2>2, <1>3, <1>5, <1>6, <1>9, <1>17 DEF Tiled
<1> QED BY <1>2, <1>8, <1>9, <1>10, <1>11, <1>16, <1>18 DEF l

\* Where an item is.
LEMMA TileCoordinates ==
  ASSUME NEW l, Tiled(l), NEW g \in GroupOf(l), NEW i \in ItemOf(l)
  PROVE  /\ LocalRow(l, i) \in 0 .. l.side - 1 /\ LocalColumn(l, i) \in 0 .. l.side - 1
         /\ i = LocalRow(l, i) * l.side + LocalColumn(l, i)
         /\ g \div l.across \in Nat /\ g % l.across \in 0 .. l.across - 1
         /\ g = (g \div l.across) * l.across + (g % l.across)
         /\ Row(l, g, i) \in Nat /\ Column(l, g, i) \in Nat
<1>1. /\ l.side \in Positive /\ l.side \in Nat /\ l.across \in Positive
      /\ l.items = l.side * l.side
  BY DEF Tiled, Positive
<1>2. PICK down \in Nat : l.groups = down * l.across BY DEF Tiled
<1>3. /\ i \div l.side \in 0 .. l.side - 1 /\ i % l.side \in 0 .. l.side - 1
      /\ i = (i \div l.side) * l.side + (i % l.side)
  BY <1>1, PlaceOf DEF ItemOf
<1>4. /\ g \div l.across \in 0 .. down - 1 /\ g % l.across \in 0 .. l.across - 1
      /\ g = (g \div l.across) * l.across + (g % l.across)
  BY <1>1, <1>2, PlaceOf DEF GroupOf
<1>5. g \div l.across \in Nat /\ g % l.across \in Nat BY <1>4
<1>6. (g \div l.across) * l.side \in Nat /\ (g % l.across) * l.side \in Nat BY <1>1, <1>5, Times
<1>7. Row(l, g, i) \in Nat BY <1>3, <1>6 DEF Row, LocalRow
<1>8. Column(l, g, i) \in Nat BY <1>3, <1>6 DEF Column, LocalColumn
<1> QED BY <1>3, <1>4, <1>5, <1>7, <1>8 DEF LocalRow, LocalColumn

\* No two items have the same place in the matrix.
LEMMA TileItems ==
  ASSUME NEW l, Tiled(l), NEW g \in GroupOf(l), NEW i \in ItemOf(l),
         NEW h \in GroupOf(l), NEW j \in ItemOf(l),
         Row(l, g, i) = Row(l, h, j), Column(l, g, i) = Column(l, h, j)
  PROVE  g = h /\ i = j
<1> DEFINE gr == g \div l.across
           gc == g % l.across
           hr == h \div l.across
           hc == h % l.across
<1>1. l.side \in Positive BY DEF Tiled
<1>2. /\ LocalRow(l, i) \in 0 .. l.side - 1 /\ LocalColumn(l, i) \in 0 .. l.side - 1
      /\ i = LocalRow(l, i) * l.side + LocalColumn(l, i)
      /\ gr \in Nat /\ gc \in 0 .. l.across - 1 /\ g = gr * l.across + gc
  BY TileCoordinates
<1>3. /\ LocalRow(l, j) \in 0 .. l.side - 1 /\ LocalColumn(l, j) \in 0 .. l.side - 1
      /\ j = LocalRow(l, j) * l.side + LocalColumn(l, j)
      /\ hr \in Nat /\ hc \in 0 .. l.across - 1 /\ h = hr * l.across + hc
  BY TileCoordinates
<1>4. gr * l.side + LocalRow(l, i) = hr * l.side + LocalRow(l, j) BY DEF Row
<1>5. gc * l.side + LocalColumn(l, i) = hc * l.side + LocalColumn(l, j) BY DEF Column
<1> HIDE DEF gr, gc, hr, hc
<1>6. gr = hr /\ LocalRow(l, i) = LocalRow(l, j) BY <1>1, <1>2, <1>3, <1>4, PlaceUnique
<1>7. gc \in Nat /\ hc \in Nat BY <1>2, <1>3
<1>8. gc = hc /\ LocalColumn(l, i) = LocalColumn(l, j)
  BY <1>1, <1>2, <1>3, <1>5, <1>7, PlaceUnique
<1> QED BY <1>2, <1>3, <1>6, <1>8

\* A cell of the tile and its border, by row and column.
Spot(l, y, x) == Cell(Shared, y * TileWidth(l) + x)

LEMMA Spots ==
  ASSUME NEW l, Tiled(l), NEW y \in 0 .. TileWidth(l) - 1, NEW x \in 0 .. TileWidth(l) - 1
  PROVE  /\ Spot(l, y, x)[1] = Shared /\ Spot(l, y, x)[2] \in 0 .. l.local - 1
         /\ \A v, u \in 0 .. TileWidth(l) - 1 : Spot(l, y, x) = Spot(l, v, u) => y = v /\ x = u
<1> DEFINE W == TileWidth(l)
<1>1. W \in Positive /\ W \in Nat /\ l.local = W * W BY DEF Tiled, TileWidth, Positive
<1> HIDE DEF W
<1>2. \A v, u : Spot(l, v, u) = <<Shared, v * W + u>> BY DEF Spot, Cell, W
<1>3. y \in 0 .. W - 1 /\ x \in 0 .. W - 1 BY DEF W
<1>4. y * W + x \in 0 .. l.local - 1 BY <1>1, <1>3, Place
<1>5. ASSUME NEW v \in 0 .. W - 1, NEW u \in 0 .. W - 1, Spot(l, y, x) = Spot(l, v, u)
      PROVE  y = v /\ x = u
  <2>1. y * W + x = v * W + u BY <1>2, <1>5
  <2>2. y \in Nat /\ v \in Nat BY <1>3
  <2> QED BY <1>1, <1>3, <2>1, <2>2, PlaceUnique
<1> QED BY <1>2, <1>4, <1>5 DEF W

LEMMA TileIsSpot ==
  ASSUME NEW l, Tiled(l), NEW g \in GroupOf(l), NEW i \in ItemOf(l), NEW y \in Int, NEW x \in Int
  PROVE  Tile(l, i, y, x) =
           Spot(l, y + LocalRow(l, i) + l.range, l.range + LocalColumn(l, i) + x)
<1> DEFINE W == TileWidth(l)
           a == y + LocalRow(l, i) + l.range
<1>1. /\ LocalRow(l, i) \in Int /\ LocalColumn(l, i) \in Int BY TileCoordinates
<1>2. l.range \in Int /\ W \in Int BY DEF Tiled, TileWidth, Positive
<1>3. a * W \in Int BY <1>1, <1>2
<1> DEFINE b == a * W
<1>4. b + l.range + LocalColumn(l, i) + x = b + (l.range + LocalColumn(l, i) + x)
  <2> HIDE DEF b
  <2> QED BY <1>1, <1>2, <1>3 DEF b
<1> QED BY <1>4 DEF Tile, Spot, Cell

\* The border's cells, by the item that loads them.
OnBorder(l, i, v, u) ==
  \/ /\ u \in 0 .. l.range - 1
     /\ LocalRow(l, i) = 1 /\ LocalColumn(l, i) = u
  \/ /\ u \in l.side + l.range .. TileWidth(l) - 1
     /\ LocalRow(l, i) = 1 /\ LocalColumn(l, i) = u - 2 * l.range
  \/ /\ u \in l.range .. l.side + l.range - 1 /\ v \in 0 .. l.range - 1
     /\ LocalRow(l, i) = 0 /\ LocalColumn(l, i) = u - l.range
  \/ /\ u \in l.range .. l.side + l.range - 1 /\ v \in l.side + l.range .. TileWidth(l) - 1
     /\ LocalRow(l, i) = l.side - 1 /\ LocalColumn(l, i) = u - l.range

BorderCell(l, i, x) ==
  \E v, u \in 0 .. TileWidth(l) - 1 : x = Spot(l, v, u) /\ OnBorder(l, i, v, u)

\* What a piece of the border's code may do.
LoadsBorder(l, i, f) ==
  /\ \A x \in DOMAIN f : BorderCell(l, i, x)
  /\ \A y \in Touched(f) : y \in DOMAIN f \/ y[1] \in {In, Constants}

LEMMA NothingLoads == ASSUME NEW l, NEW i PROVE LoadsBorder(l, i, Nothing)
BY CodeOfNone DEF LoadsBorder

LEMMA CopiedLoads ==
  ASSUME NEW l, Tiled(l), NEW g \in GroupOf(l), NEW i \in ItemOf(l), NEW from,
         DOMAIN from \subseteq Int \X Int,
         \A o \in DOMAIN from : from[o][1] \in {In, Constants},
         \A o \in DOMAIN from :
           LET v == o[1] + LocalRow(l, i) + l.range
               u == l.range + LocalColumn(l, i) + o[2]
           IN  /\ v \in 0 .. TileWidth(l) - 1 /\ u \in 0 .. TileWidth(l) - 1
               /\ OnBorder(l, i, v, u)
  PROVE  LoadsBorder(l, i, CopiedAt(l, i, from))
<1> DEFINE f == CopiedAt(l, i, from)
           which(x) == CHOOSE o \in DOMAIN from : Tile(l, i, o[1], o[2]) = x
<1>1. DOMAIN f = {Tile(l, i, o[1], o[2]) : o \in DOMAIN from} BY DEF CopiedAt
<1>2. \A x \in DOMAIN f : f[x] = <<from[which(x)]>> BY DEF CopiedAt
<1>3. \A x \in DOMAIN f : which(x) \in DOMAIN from BY <1>1
<1> HIDE DEF f, which
<1>4. ASSUME NEW x \in DOMAIN f PROVE BorderCell(l, i, x)
  <2>1. PICK o \in DOMAIN from : x = Tile(l, i, o[1], o[2]) BY <1>1
  <2> DEFINE v == o[1] + LocalRow(l, i) + l.range
             u == l.range + LocalColumn(l, i) + o[2]
  <2>2. v \in 0 .. TileWidth(l) - 1 /\ u \in 0 .. TileWidth(l) - 1 /\ OnBorder(l, i, v, u)
    OBVIOUS
  <2>3. o[1] \in Int /\ o[2] \in Int OBVIOUS
  <2>4. x = Spot(l, v, u) BY <2>1, <2>3, TileIsSpot
  <2> HIDE DEF v, u
  <2> QED BY <2>2, <2>4 DEF BorderCell
<1>5. \A x \in DOMAIN f : \A y \in Range(f[x]) : y[1] \in {In, Constants}
  <2> SUFFICES ASSUME NEW x \in DOMAIN f PROVE \A y \in Range(f[x]) : y[1] \in {In, Constants}
    OBVIOUS
  <2> DEFINE y == from[which(x)]
  <2>1. y[1] \in {In, Constants} BY <1>3
  <2>2. f[x] = <<y>> BY <1>2
  <2> HIDE DEF y
  <2>3. Range(<<y>>) = {y} BY RangeOfOne
  <2> QED BY <2>1, <2>2, <2>3
<1>6. \A y \in Touched(f) : y \in DOMAIN f \/ y[1] \in {In, Constants} BY <1>5, CodeReading
<1> QED BY <1>4, <1>6 DEF LoadsBorder, f

LEMMA NorthLoads ==
  ASSUME NEW l, Tiled(l), NEW g \in GroupOf(l), NEW i \in ItemOf(l)
  PROVE  LoadsBorder(l, i, North(l, g, i))
<1>1. CASE LocalRow(l, i) # 0 BY <1>1, NothingLoads DEF North
<1>2. CASE LocalRow(l, i) = 0
  <2> DEFINE from == [o \in (- l.range .. -1) \X {0} |-> Global(l, In, g, i, o[1], 0)]
  <2>1. North(l, g, i) = CopiedAt(l, i, from) BY <1>2 DEF North
  <2>2. /\ l.range \in Nat /\ l.range > 0 /\ l.side \in Nat
        /\ TileWidth(l) = l.side + 2 * l.range
    BY DEF Tiled, Positive, TileWidth
  <2>3. LocalColumn(l, i) \in 0 .. l.side - 1 BY TileCoordinates
  <2>4. DOMAIN from = (- l.range .. -1) \X {0} OBVIOUS
  <2>5. \A o \in DOMAIN from : from[o][1] \in {In, Constants} BY DEF Global, Cell
  <2> HIDE DEF from
  <2>6. DOMAIN from \subseteq Int \X Int BY <2>2, <2>4
  <2>7. \A o \in DOMAIN from :
          LET v == o[1] + LocalRow(l, i) + l.range
              u == l.range + LocalColumn(l, i) + o[2]
          IN  /\ v \in 0 .. TileWidth(l) - 1 /\ u \in 0 .. TileWidth(l) - 1
              /\ OnBorder(l, i, v, u)
    BY <1>2, <2>2, <2>3, <2>4 DEF OnBorder
  <2> QED BY <2>1, <2>5, <2>6, <2>7, CopiedLoads
<1> QED BY <1>1, <1>2

LEMMA SouthLoads ==
  ASSUME NEW l, Tiled(l), NEW g \in GroupOf(l), NEW i \in ItemOf(l)
  PROVE  LoadsBorder(l, i, South(l, g, i))
<1>1. CASE LocalRow(l, i) # l.side - 1 BY <1>1, NothingLoads DEF South
<1>2. CASE LocalRow(l, i) = l.side - 1
  <2> DEFINE from == [o \in (1 .. l.range) \X {0} |-> Global(l, In, g, i, o[1], 0)]
  <2>1. South(l, g, i) = CopiedAt(l, i, from) BY <1>2 DEF South
  <2>2. /\ l.range \in Nat /\ l.range > 0 /\ l.side \in Nat
        /\ TileWidth(l) = l.side + 2 * l.range
    BY DEF Tiled, Positive, TileWidth
  <2>3. LocalColumn(l, i) \in 0 .. l.side - 1 BY TileCoordinates
  <2>4. DOMAIN from = (1 .. l.range) \X {0} OBVIOUS
  <2>5. \A o \in DOMAIN from : from[o][1] \in {In, Constants} BY DEF Global, Cell
  <2> HIDE DEF from
  <2>6. DOMAIN from \subseteq Int \X Int BY <2>2, <2>4
  <2>7. \A o \in DOMAIN from :
          LET v == o[1] + LocalRow(l, i) + l.range
              u == l.range + LocalColumn(l, i) + o[2]
          IN  /\ v \in 0 .. TileWidth(l) - 1 /\ u \in 0 .. TileWidth(l) - 1
              /\ OnBorder(l, i, v, u)
    BY <1>2, <2>2, <2>3, <2>4 DEF OnBorder
  <2> QED BY <2>1, <2>5, <2>6, <2>7, CopiedLoads
<1> QED BY <1>1, <1>2

\* The columns beside a tile.
LEMMA SideLoads ==
  ASSUME NEW l, Tiled(l), NEW g \in GroupOf(l), NEW i \in ItemOf(l), NEW from,
         LocalRow(l, i) = 1,
         \/ DOMAIN from = Rows(l) \X {- l.range} /\ LocalColumn(l, i) < l.range
         \/ DOMAIN from = Rows(l) \X {l.range} /\ LocalColumn(l, i) >= l.side - l.range,
         \A o \in DOMAIN from : from[o][1] \in {In, Constants}
  PROVE  LoadsBorder(l, i, CopiedAt(l, i, from))
<1>1. /\ l.range \in Nat /\ l.range > 0 /\ l.side \in Nat
      /\ TileWidth(l) = l.side + 2 * l.range
  BY DEF Tiled, Positive, TileWidth
<1>2. LocalColumn(l, i) \in 0 .. l.side - 1 BY TileCoordinates
<1>3. DOMAIN from \subseteq Int \X Int BY <1>1 DEF Rows
<1>4. \A o \in DOMAIN from :
        LET v == o[1] + LocalRow(l, i) + l.range
            u == l.range + LocalColumn(l, i) + o[2]
        IN  /\ v \in 0 .. TileWidth(l) - 1 /\ u \in 0 .. TileWidth(l) - 1
            /\ OnBorder(l, i, v, u)
  BY <1>1, <1>2 DEF OnBorder, Rows
<1> QED BY <1>3, <1>4, CopiedLoads

LEMMA WestLoads ==
  ASSUME NEW l, Tiled(l), NEW g \in GroupOf(l), NEW i \in ItemOf(l)
  PROVE  LoadsBorder(l, i, West(l, g, i))
<1> DEFINE cl == Column(l, g, i)
           padded == [o \in Rows(l) \X {- l.range} |-> Padding(l, g, i, o[1], - cl)]
           beside == [o \in Rows(l) \X {- l.range} |-> Global(l, In, g, i, o[1], - l.range)]
<1>1. \/ West(l, g, i) = Nothing
      \/ /\ West(l, g, i) = CopiedAt(l, i, padded)
         /\ LocalRow(l, i) = 1 /\ cl < l.range
      \/ /\ West(l, g, i) = CopiedAt(l, i, beside)
         /\ LocalRow(l, i) = 1 /\ LocalColumn(l, i) < l.range
  <2> DEFINE f1 == CopiedAt(l, i, padded)
             f2 == CopiedAt(l, i, beside)
  <2>1. West(l, g, i) =
          CASE LocalRow(l, i) # 1 \/ cl >= l.cols -> Nothing
            [] LocalRow(l, i) = 1 /\ cl < l.cols /\ cl < l.range -> f1
            [] LocalRow(l, i) = 1 /\ cl \in l.range .. l.cols - 1 ->
                 IF LocalColumn(l, i) < l.range THEN f2 ELSE Nothing
    BY DEF West
  <2>2. cl \in Nat /\ l.range \in Nat /\ l.cols \in Nat
    BY TileCoordinates DEF Tiled, Positive
  <2> HIDE DEF f1, f2, cl
  <2>3. CASE LocalRow(l, i) # 1 \/ cl >= l.cols BY <2>1, <2>2, <2>3
  <2>4. CASE LocalRow(l, i) = 1 /\ cl < l.cols /\ cl < l.range
    BY <2>1, <2>2, <2>4 DEF f1
  <2>5. CASE LocalRow(l, i) = 1 /\ cl \in l.range .. l.cols - 1
    BY <2>1, <2>2, <2>5 DEF f2
  <2> QED BY <2>2, <2>3, <2>4, <2>5
<1>2. cl < l.range => LocalColumn(l, i) < l.range
  <2>1. /\ LocalColumn(l, i) \in 0 .. l.side - 1 /\ g % l.across \in Nat
        /\ l.side \in Nat /\ l.range \in Nat
    BY TileCoordinates DEF Tiled, Positive
  <2>2. (g % l.across) * l.side \in Nat BY <2>1, Times
  <2> QED BY <2>1, <2>2 DEF Column
<1>3. /\ DOMAIN padded = Rows(l) \X {- l.range} /\ DOMAIN beside = Rows(l) \X {- l.range}
      /\ \A o \in DOMAIN padded : padded[o][1] \in {In, Constants}
      /\ \A o \in DOMAIN beside : beside[o][1] \in {In, Constants}
  BY DEF Padding, Global, Cell
<1> HIDE DEF padded, beside, cl
<1> QED BY <1>1, <1>2, <1>3, NothingLoads, SideLoads

LEMMA Successor ==
  ASSUME NEW a \in Int, NEW b \in Int
  PROVE  (a + 1) * b = a * b + b
OBVIOUS

LEMMA EastLoads ==
  ASSUME NEW l, Tiled(l), l.cols = l.across * l.side,
         NEW g \in GroupOf(l), NEW i \in ItemOf(l)
  PROVE  LoadsBorder(l, i, East(l, g, i))
<1> DEFINE cl == Column(l, g, i)
           padded == [o \in Rows(l) \X {l.range} |-> Padding(l, g, i, o[1], l.cols - cl - 1)]
           beside == [o \in Rows(l) \X {l.range} |-> Global(l, In, g, i, o[1], l.range)]
<1>1. \/ East(l, g, i) = Nothing
      \/ /\ East(l, g, i) = CopiedAt(l, i, padded)
         /\ LocalRow(l, i) = 1 /\ cl >= l.cols - l.range
      \/ /\ East(l, g, i) = CopiedAt(l, i, beside)
         /\ LocalRow(l, i) = 1 /\ LocalColumn(l, i) >= l.side - l.range
  <2> DEFINE f1 == CopiedAt(l, i, padded)
             f2 == CopiedAt(l, i, beside)
  <2>1. East(l, g, i) =
          CASE LocalRow(l, i) # 1 \/ cl >= l.cols -> Nothing
            [] LocalRow(l, i) = 1 /\ cl < l.cols /\ (l.range <= l.cols /\ cl >= l.cols - l.range) -> f1
            [] LocalRow(l, i) = 1 /\ cl < l.cols /\ ~ (l.range <= l.cols /\ cl >= l.cols - l.range) ->
                 IF l.range <= l.side /\ LocalColumn(l, i) >= l.side - l.range
                 THEN f2 ELSE Nothing
    BY DEF East
  <2>2. cl \in Nat /\ l.range \in Nat /\ l.cols \in Nat
    BY TileCoordinates DEF Tiled, Positive
  <2> HIDE DEF f1, f2, cl
  <2>3. CASE LocalRow(l, i) # 1 \/ cl >= l.cols BY <2>1, <2>2, <2>3
  <2>4. CASE LocalRow(l, i) = 1 /\ cl < l.cols /\ (l.range <= l.cols /\ cl >= l.cols - l.range)
    BY <2>1, <2>2, <2>4 DEF f1
  <2>5. CASE LocalRow(l, i) = 1 /\ cl < l.cols /\ ~ (l.range <= l.cols /\ cl >= l.cols - l.range)
    BY <2>1, <2>2, <2>5 DEF f2
  <2> QED BY <2>2, <2>3, <2>4, <2>5
<1>2. cl >= l.cols - l.range => LocalColumn(l, i) >= l.side - l.range
  <2> DEFINE k == g % l.across
             a == k * l.side
             b == l.across * l.side
  <2>1. /\ LocalColumn(l, i) \in 0 .. l.side - 1 /\ k \in Nat /\ k + 1 <= l.across
        /\ l.side \in Nat /\ l.range \in Nat /\ l.across \in Nat
    BY TileCoordinates DEF Tiled, Positive
  <2> HIDE DEF k
  <2>2. (k + 1) * l.side <= l.across * l.side BY <2>1, Monotone
  <2>3. (k + 1) * l.side = k * l.side + l.side
    <3>1. k \in Int /\ l.side \in Int BY <2>1
    <3> HIDE DEF a, b, cl, padded, beside
    <3> QED BY <3>1, Successor
  <2>4. a \in Nat /\ b \in Nat BY <2>1, Times
  <2>5. cl = a + LocalColumn(l, i) /\ l.cols = b BY DEF Column, k
  <2>6. a + l.side <= b BY <2>2, <2>3
  <2> HIDE DEF a, b, cl
  <2> QED BY <2>1, <2>4, <2>5, <2>6
<1>3. /\ DOMAIN padded = Rows(l) \X {l.range} /\ DOMAIN beside = Rows(l) \X {l.range}
      /\ \A o \in DOMAIN padded : padded[o][1] \in {In, Constants}
      /\ \A o \in DOMAIN beside : beside[o][1] \in {In, Constants}
  BY DEF Padding, Global, Cell
<1> HIDE DEF padded, beside, cl
<1> QED BY <1>1, <1>2, <1>3, NothingLoads, SideLoads

LEMMA BorderLoads ==
  ASSUME NEW l, Tiled(l), l.cols = l.across * l.side,
         NEW g \in GroupOf(l), NEW i \in ItemOf(l)
  PROVE  LoadsBorder(l, i, Code(l, g, i, 1))
<1> DEFINE n == North(l, g, i)
           s == South(l, g, i)
           w == West(l, g, i)
           e == East(l, g, i)
<1>1. Code(l, g, i, 1) = Merged(Merged(e, w), Merged(s, n)) BY DEF Tiled, Code, OverlapCode
<1>2. LoadsBorder(l, i, n) /\ LoadsBorder(l, i, s) BY NorthLoads, SouthLoads
<1>3. LoadsBorder(l, i, w) /\ LoadsBorder(l, i, e) BY WestLoads, EastLoads
<1> HIDE DEF n, s, w, e
<1>4. ASSUME NEW f, NEW h, LoadsBorder(l, i, f), LoadsBorder(l, i, h)
      PROVE  LoadsBorder(l, i, Merged(f, h))
  <2>1. /\ DOMAIN Merged(f, h) = DOMAIN f \cup DOMAIN h
        /\ Touched(Merged(f, h)) \subseteq Touched(f) \cup Touched(h)
    BY CodeOfMerged
  <2> QED BY <2>1, <1>4 DEF LoadsBorder
<1> QED BY <1>1, <1>2, <1>3, <1>4

\* A cell of the border has one item that loads it.
LEMMA BorderIsMine ==
  ASSUME NEW l, Tiled(l), NEW g \in GroupOf(l), NEW i \in ItemOf(l), NEW j \in ItemOf(l),
         NEW x, BorderCell(l, i, x), BorderCell(l, j, x)
  PROVE  i = j
<1>1. PICK v \in 0 .. TileWidth(l) - 1, u \in 0 .. TileWidth(l) - 1 :
        x = Spot(l, v, u) /\ OnBorder(l, i, v, u)
  BY DEF BorderCell
<1>2. PICK w \in 0 .. TileWidth(l) - 1, t \in 0 .. TileWidth(l) - 1 :
        x = Spot(l, w, t) /\ OnBorder(l, j, w, t)
  BY DEF BorderCell
<1>3. v = w /\ u = t
  <2>1. Spot(l, v, u) = Spot(l, w, t) BY <1>1, <1>2
  <2> QED BY <2>1, Spots
<1>4. /\ l.range \in Nat /\ l.range > 0 /\ l.side \in Nat
      /\ TileWidth(l) = l.side + 2 * l.range
  BY DEF Tiled, Positive, TileWidth
<1>5. v \in Nat /\ u \in Nat OBVIOUS
<1>6. LocalRow(l, i) = LocalRow(l, j) /\ LocalColumn(l, i) = LocalColumn(l, j)
  <2>1. OnBorder(l, i, v, u) /\ OnBorder(l, j, v, u) BY <1>1, <1>2, <1>3
  <2>2. u < l.range \/ u >= l.side + l.range \/ (u >= l.range /\ u < l.side + l.range)
    BY <1>4, <1>5
  <2>3. CASE u < l.range BY <2>1, <2>3, <1>4, <1>5 DEF OnBorder
  <2>4. CASE u >= l.side + l.range BY <2>1, <2>4, <1>4, <1>5 DEF OnBorder
  <2>5. CASE u >= l.range /\ u < l.side + l.range /\ v < l.range
    BY <2>1, <2>5, <1>4, <1>5 DEF OnBorder
  <2>6. CASE u >= l.range /\ u < l.side + l.range /\ v >= l.range
    BY <2>1, <2>6, <1>4, <1>5 DEF OnBorder
  <2> QED BY <2>2, <2>3, <2>4, <2>5, <2>6, <1>4, <1>5
<1>7. /\ i = LocalRow(l, i) * l.side + LocalColumn(l, i)
      /\ j = LocalRow(l, j) * l.side + LocalColumn(l, j)
  BY TileCoordinates
<1> QED BY <1>6, <1>7

\* The first phase and the last.
LEMMA TileLoads ==
  ASSUME NEW l, Tiled(l), NEW g \in GroupOf(l), NEW i \in ItemOf(l)
  PROVE  LET lr == LocalRow(l, i) + l.range
             lc == l.range + LocalColumn(l, i)
             f  == Code(l, g, i, 0)
         IN  /\ lr \in 0 .. TileWidth(l) - 1 /\ lc \in 0 .. TileWidth(l) - 1
             /\ DOMAIN f = {Spot(l, lr, lc)}
             /\ \A y \in Touched(f) : y \in DOMAIN f \/ y[1] \in {In, Constants}
<1>1. /\ l.range \in Nat /\ l.side \in Nat /\ TileWidth(l) = l.side + 2 * l.range
  BY DEF Tiled, Positive, TileWidth
<1>2. LocalRow(l, i) \in 0 .. l.side - 1 /\ LocalColumn(l, i) \in 0 .. l.side - 1
  BY TileCoordinates
<1> DEFINE to == Tile(l, i, 0, 0)
           from == Global(l, In, g, i, 0, 0)
           f == Code(l, g, i, 0)
<1>3. f = Copied(to, from) BY DEF Tiled, Code, OverlapCode
<1>4. from[1] = In BY DEF Global, Cell
<1>5. to = Spot(l, LocalRow(l, i) + l.range, l.range + LocalColumn(l, i))
  <2>1. 0 + LocalRow(l, i) + l.range = LocalRow(l, i) + l.range
        /\ l.range + LocalColumn(l, i) + 0 = l.range + LocalColumn(l, i)
    BY <1>1, <1>2
  <2>2. 0 \in Int /\ to = Spot(l, 0 + LocalRow(l, i) + l.range, l.range + LocalColumn(l, i) + 0)
    BY TileIsSpot
  <2> QED BY <2>1, <2>2
<1> HIDE DEF to, from, f
<1>6. DOMAIN f = {to} /\ Touched(f) = {to, from} BY <1>3, CodeOfCopy
<1> QED BY <1>1, <1>2, <1>4, <1>5, <1>6 DEF f

OutPlace(l, g, i) == (Row(l, g, i) + l.range) * l.cols + Column(l, g, i)

LEMMA StencilStores ==
  ASSUME NEW l, Tiled(l), NEW g \in GroupOf(l), NEW i \in ItemOf(l)
  PROVE  LET f == Code(l, g, i, 2)
         IN  \A y \in Touched(f) :
               /\ y \in DOMAIN f \/ y[1] = Shared
               /\ y \in DOMAIN f =>
                    /\ y = <<l.out, OutPlace(l, g, i)>>
                    /\ Row(l, g, i) < l.elements \div l.cols /\ Column(l, g, i) < l.cols
<1> DEFINE f == Code(l, g, i, 2)
           x == Global(l, l.out, g, i, 0, 0)
           z == Window(l, i)
           in == Row(l, g, i) < l.elements \div l.cols /\ Column(l, g, i) < l.cols
<1>1. f = IF in THEN At(x, z) ELSE Nothing BY DEF Tiled, Code, OverlapCode
<1>2. \A y \in Range(z) : y[1] = Shared
  <2>1. \A k \in DOMAIN z : z[k][1] = Shared BY DEF Window, Tile, Cell
  <2> HIDE DEF z
  <2> QED BY <2>1 DEF Range
<1>3. x = <<l.out, OutPlace(l, g, i)>>
  <2>1. /\ l.cols \in Nat /\ l.range \in Nat
        /\ Row(l, g, i) \in Nat /\ Column(l, g, i) \in Nat
    BY TileCoordinates DEF Tiled, Positive
  <2>2. x = <<l.out, (0 + Row(l, g, i)) * l.cols + 0 + Column(l, g, i) + l.range * l.cols>>
    BY DEF Global, Cell
  <2>3. \A r, c, m, n \in Nat : (0 + r) * m + 0 + c + n * m = (r + n) * m + c
    <3> SUFFICES ASSUME NEW r \in Nat, NEW c \in Nat, NEW m \in Nat, NEW n \in Nat
                 PROVE  (0 + r) * m + 0 + c + n * m = (r + n) * m + c
      OBVIOUS
    <3>1. (r + n) * m = r * m + n * m BY Distributes
    <3>2. r * m \in Nat /\ n * m \in Nat BY Times
    <3>3. 0 + r = r OBVIOUS
    <3> DEFINE p == r * m
               q == n * m
    <3>4. p + 0 + c + q = (p + q) + c
      <4> HIDE DEF p, q
      <4> QED BY <3>2 DEF p, q
    <3> QED BY <3>1, <3>3, <3>4
  <2> QED BY <2>1, <2>2, <2>3 DEF OutPlace
<1> HIDE DEF f, x, z, in
<1>4. DOMAIN At(x, z) = {x} /\ Touched(At(x, z)) = {x} \cup Range(z) BY CodeOfOne
<1>5. CASE in BY <1>1, <1>2, <1>3, <1>4, <1>5 DEF f, in
<1>6. CASE ~ in BY <1>1, <1>6, CodeOfNone DEF f
<1> QED BY <1>5, <1>6

LEMMA OutPlaces ==
  ASSUME NEW l, Tiled(l), NEW g \in GroupOf(l), NEW i \in ItemOf(l),
         Row(l, g, i) < l.elements \div l.cols, Column(l, g, i) < l.cols
  PROVE  /\ OutPlace(l, g, i) \in 0 .. ((l.elements \div l.cols) + 2 * l.range) * l.cols - 1
         /\ \A h \in GroupOf(l), j \in ItemOf(l) :
              Column(l, h, j) < l.cols /\ OutPlace(l, g, i) = OutPlace(l, h, j)
              => g = h /\ i = j
<1> DEFINE rows == l.elements \div l.cols
<1>1. /\ l.cols \in Positive /\ l.cols \in Nat /\ l.range \in Nat
  BY DEF Tiled, Positive
<1>2. rows \in Nat
  <2>1. PICK n \in Nat : l.elements = n * l.cols BY DEF Tiled
  <2>2. l.elements \in Nat BY <2>1, <1>1, Times
  <2> QED BY <1>1, <2>2, Division
<1> HIDE DEF rows
<1>3. \A h \in GroupOf(l), j \in ItemOf(l) : Row(l, h, j) \in Nat /\ Column(l, h, j) \in Nat
  BY TileCoordinates
<1>4. Row(l, g, i) + l.range \in 0 .. (rows + 2 * l.range) - 1
      /\ Column(l, g, i) \in 0 .. l.cols - 1 /\ rows + 2 * l.range \in Nat
  BY <1>1, <1>2, <1>3 DEF rows
<1>5. OutPlace(l, g, i) \in 0 .. (rows + 2 * l.range) * l.cols - 1
  BY <1>1, <1>4, Place DEF OutPlace
<1>6. ASSUME NEW h \in GroupOf(l), NEW j \in ItemOf(l), Column(l, h, j) < l.cols,
             OutPlace(l, g, i) = OutPlace(l, h, j)
      PROVE  g = h /\ i = j
  <2>1. /\ Row(l, h, j) + l.range \in Nat /\ Row(l, g, i) + l.range \in Nat
        /\ Column(l, h, j) \in 0 .. l.cols - 1 /\ Column(l, g, i) \in 0 .. l.cols - 1
    BY <1>1, <1>3, <1>4, <1>6
  <2>2. (Row(l, g, i) + l.range) * l.cols + Column(l, g, i)
          = (Row(l, h, j) + l.range) * l.cols + Column(l, h, j)
    BY <1>6 DEF OutPlace
  <2>3. Row(l, g, i) + l.range = Row(l, h, j) + l.range /\ Column(l, g, i) = Column(l, h, j)
    BY <2>1, <2>2, <1>1, PlaceUnique
  <2>4. Row(l, g, i) = Row(l, h, j) BY <2>3, <1>1, <1>3
  <2> QED BY <2>3, <2>4, TileItems
<1> QED BY <1>5, <1>6 DEF rows

LEMMA OverlapIsScheduled ==
  ASSUME NEW c, c.skeleton = "overlap", OverlapCall(c)
  PROVE  Scheduled(c)
<1>1. PICK l : LaunchOf(c) = {l} /\ Launches(c) \in Seq({l}) /\ Tiled(l) /\ Shape(c, l)
  BY OverlapFacts
<1>2. \A g, i : Phases(l, g, i) = 3 BY <1>1 DEF Tiled, Phases, OnePhase, OverlapPhases
<1>3. Even(l) BY <1>2 DEF Even
<1> QED BY <1>1, <1>3 DEF Scheduled

LEMMA OverlapIsSafe ==
  ASSUME NEW c, c.skeleton = "overlap", OverlapCall(c), NEW l \in LaunchOf(c), WholeTiles(c)
  PROVE  /\ Fits(c, l)
         /\ c.out # In => Apart(c, l) /\ Agree(c, l)
<1>1. /\ Tiled(l) /\ l.cols = l.across * l.side /\ l.out = c.out
      /\ l.out \in DOMAIN Buffers(c)
      /\ DOMAIN Buffers(c)[l.out] = 0 .. ((l.elements \div l.cols) + 2 * l.range) * l.cols - 1
  BY OverlapFacts
<1>2. /\ \A g, i : Phases(l, g, i) = 3
      /\ \A p \in Nat : p > 0 => Barrier(l, p)
  BY <1>1 DEF Tiled, Phases, OnePhase, OverlapPhases, Barrier, OverlapBarrier
<1>3. l.out \in {In, Out} /\ l.out # Shared BY <1>1 DEF Tiled, In, Out, Shared
<1>4. \A p \in Nat : p < 3 => p \in {0, 1, 2} OBVIOUS
<1>5. Shared \notin {In, Out, Constants} /\ Out # In /\ Out # Constants
  BY DEF Shared, In, Out, Constants
\* What is written, and what is read of it.
<1>6. ASSUME NEW g \in GroupOf(l), NEW i \in ItemOf(l)
      PROVE  /\ \E v, u \in 0 .. TileWidth(l) - 1 : DOMAIN Code(l, g, i, 0) = {Spot(l, v, u)}
             /\ \A x \in DOMAIN Code(l, g, i, 0) \cup DOMAIN Code(l, g, i, 1) :
                  x[1] = Shared /\ x[2] \in 0 .. l.local - 1
             /\ \A y \in Touched(Code(l, g, i, 0)) :
                  y \in DOMAIN Code(l, g, i, 0) \/ y[1] \in {In, Constants}
             /\ \A y \in Touched(Code(l, g, i, 1)) :
                  y \in DOMAIN Code(l, g, i, 1) \/ y[1] \in {In, Constants}
             /\ \A x \in DOMAIN Code(l, g, i, 1) : BorderCell(l, i, x)
  <2>1. PICK v \in 0 .. TileWidth(l) - 1, u \in 0 .. TileWidth(l) - 1 :
          /\ DOMAIN Code(l, g, i, 0) = {Spot(l, v, u)}
          /\ \A y \in Touched(Code(l, g, i, 0)) :
               y \in DOMAIN Code(l, g, i, 0) \/ y[1] \in {In, Constants}
    BY <1>1, TileLoads
  <2>2. /\ \A x \in DOMAIN Code(l, g, i, 1) : BorderCell(l, i, x)
        /\ \A y \in Touched(Code(l, g, i, 1)) :
             y \in DOMAIN Code(l, g, i, 1) \/ y[1] \in {In, Constants}
    BY <1>1, BorderLoads DEF LoadsBorder
  <2>3. \A x \in DOMAIN Code(l, g, i, 0) : x[1] = Shared /\ x[2] \in 0 .. l.local - 1
    BY <1>1, <2>1, Spots
  <2>4. \A x \in DOMAIN Code(l, g, i, 1) : x[1] = Shared /\ x[2] \in 0 .. l.local - 1
    <3> SUFFICES ASSUME NEW x \in DOMAIN Code(l, g, i, 1)
                 PROVE  x[1] = Shared /\ x[2] \in 0 .. l.local - 1
      OBVIOUS
    <3>1. PICK w \in 0 .. TileWidth(l) - 1, t \in 0 .. TileWidth(l) - 1 : x = Spot(l, w, t)
      BY <2>2 DEF BorderCell
    <3> QED BY <1>1, <3>1, Spots
  <2> QED BY <2>1, <2>2, <2>3, <2>4
<1>7. ASSUME NEW g \in GroupOf(l), NEW i \in ItemOf(l)
      PROVE  \A y \in Touched(Code(l, g, i, 2)) :
               /\ y \in DOMAIN Code(l, g, i, 2) \/ y[1] = Shared
               /\ y \in DOMAIN Code(l, g, i, 2) =>
                    /\ y = <<l.out, OutPlace(l, g, i)>>
                    /\ Row(l, g, i) < l.elements \div l.cols /\ Column(l, g, i) < l.cols
  BY <1>1, StencilStores
<1>8. \A code : DOMAIN code \subseteq Touched(code) BY DEF Touched
<1>9. Fits(c, l)
  <2> SUFFICES ASSUME NEW g \in GroupOf(l), NEW i \in ItemOf(l), NEW p \in {0, 1, 2},
                      NEW x \in DOMAIN Code(l, g, i, p)
               PROVE  IF x[1] = Shared THEN x[2] \in 0 .. l.local - 1
                      ELSE x[1] \in DOMAIN Buffers(c) /\ x[2] \in DOMAIN Buffers(c)[x[1]]
    BY <1>2, <1>4 DEF Fits
  <2>1. CASE p # 2 BY <2>1, <1>6
  <2>2. CASE p = 2
    <3>1. /\ x = <<l.out, OutPlace(l, g, i)>>
          /\ Row(l, g, i) < l.elements \div l.cols /\ Column(l, g, i) < l.cols
      BY <2>2, <1>7, <1>8
    <3>2. x[2] \in DOMAIN Buffers(c)[l.out] BY <3>1, <1>1, OutPlaces
    <3> QED BY <3>1, <3>2, <1>1, <1>3
  <2> QED BY <2>1, <2>2
<1>10. Exclusive(l)
  <2> SUFFICES ASSUME NEW g \in GroupOf(l), NEW i \in ItemOf(l), NEW j \in ItemOf(l),
                      NEW p \in {0, 1, 2}, NEW x \in DOMAIN Code(l, g, i, p),
                      x \in Touched(Code(l, g, j, p))
               PROVE  i = j
    BY <1>2, <1>4 DEF Exclusive
  <2>1. CASE p = 0
    <3>1. x[1] = Shared BY <2>1, <1>6
    <3>2. x \in DOMAIN Code(l, g, j, 0) BY <2>1, <3>1, <1>5, <1>6
    <3> DEFINE a(k) == LocalRow(l, k) + l.range
               b(k) == l.range + LocalColumn(l, k)
    <3>3. /\ a(i) \in 0 .. TileWidth(l) - 1 /\ b(i) \in 0 .. TileWidth(l) - 1
          /\ a(j) \in 0 .. TileWidth(l) - 1 /\ b(j) \in 0 .. TileWidth(l) - 1
          /\ Spot(l, a(i), b(i)) = Spot(l, a(j), b(j))
      <4>1. /\ a(i) \in 0 .. TileWidth(l) - 1 /\ b(i) \in 0 .. TileWidth(l) - 1
            /\ DOMAIN Code(l, g, i, 0) = {Spot(l, a(i), b(i))}
        BY <1>1, TileLoads
      <4>2. /\ a(j) \in 0 .. TileWidth(l) - 1 /\ b(j) \in 0 .. TileWidth(l) - 1
            /\ DOMAIN Code(l, g, j, 0) = {Spot(l, a(j), b(j))}
        BY <1>1, TileLoads
      <4> HIDE DEF a, b
      <4> QED BY <4>1, <4>2, <2>1, <3>2
    <3> HIDE DEF a, b
    <3>4. a(i) = a(j) /\ b(i) = b(j) BY <3>3, <1>1, Spots
    <3>5. /\ LocalRow(l, i) \in Int /\ LocalColumn(l, i) \in Int
          /\ LocalRow(l, j) \in Int /\ LocalColumn(l, j) \in Int
          /\ i = LocalRow(l, i) * l.side + LocalColumn(l, i)
          /\ j = LocalRow(l, j) * l.side + LocalColumn(l, j)
      BY <1>1, TileCoordinates
    <3>6. l.range \in Nat BY <1>1 DEF Tiled, Positive
    <3>7. LocalRow(l, i) = LocalRow(l, j) /\ LocalColumn(l, i) = LocalColumn(l, j)
      BY <3>4, <3>5, <3>6 DEF a, b
    <3> QED BY <3>5, <3>7
  <2>2. CASE p = 1
    <3>1. x[1] = Shared /\ BorderCell(l, i, x) BY <2>2, <1>6
    <3>2. x \in DOMAIN Code(l, g, j, 1) BY <2>2, <3>1, <1>5, <1>6
    <3>3. BorderCell(l, j, x) BY <3>2, <1>6
    <3> QED BY <3>1, <3>3, <1>1, BorderIsMine
  <2>3. CASE p = 2
    <3>1. /\ x = <<l.out, OutPlace(l, g, i)>>
          /\ Row(l, g, i) < l.elements \div l.cols /\ Column(l, g, i) < l.cols
      BY <2>3, <1>7, <1>8
    <3>2. x \in DOMAIN Code(l, g, j, 2) BY <2>3, <3>1, <1>3, <1>7
    <3>3. x = <<l.out, OutPlace(l, g, j)>> /\ Column(l, g, j) < l.cols BY <3>2, <1>7, <1>8
    <3>4. OutPlace(l, g, i) = OutPlace(l, g, j) BY <3>1, <3>3
    <3> QED BY <3>1, <3>3, <3>4, <1>1, OutPlaces
  <2> QED BY <2>1, <2>2, <2>3
<1>11. ASSUME c.out # In PROVE Groupwise(l)
  <2> SUFFICES ASSUME NEW g \in GroupOf(l), NEW h \in GroupOf(l),
                      NEW i \in ItemOf(l), NEW j \in ItemOf(l),
                      NEW p \in {0, 1, 2}, NEW q \in {0, 1, 2},
                      NEW x \in DOMAIN Code(l, g, i, p), x[1] # Shared,
                      x \in Touched(Code(l, h, j, q))
               PROVE  g = h
    BY <1>2, <1>4 DEF Groupwise
  <2>1. p = 2 BY <1>6
  <2>2. /\ x = <<l.out, OutPlace(l, g, i)>>
        /\ Row(l, g, i) < l.elements \div l.cols /\ Column(l, g, i) < l.cols
    BY <2>1, <1>7, <1>8
  <2>3. x[1] = Out BY <2>2, <1>1, <1>3, <1>11
  <2>4. q = 2
    <3>1. q # 0
      <4> SUFFICES ASSUME q = 0 PROVE FALSE OBVIOUS
      <4>1. x \in DOMAIN Code(l, h, j, 0) \/ x[1] \in {In, Constants} BY <1>6
      <4> QED BY <4>1, <2>3, <1>5, <1>6
    <3>2. q # 1
      <4> SUFFICES ASSUME q = 1 PROVE FALSE OBVIOUS
      <4>1. x \in DOMAIN Code(l, h, j, 1) \/ x[1] \in {In, Constants} BY <1>6
      <4> QED BY <4>1, <2>3, <1>5, <1>6
    <3> QED BY <3>1, <3>2
  <2>5. x = <<l.out, OutPlace(l, h, j)>> /\ Column(l, h, j) < l.cols BY <2>4, <1>7
  <2>6. OutPlace(l, g, i) = OutPlace(l, h, j) BY <2>2, <2>5
  <2> QED BY <2>2, <2>5, <2>6, <1>1, OutPlaces
<1>12. Separated(l) BY <1>2, BarriersSeparate
<1> QED BY <1>9, <1>10, <1>11, <1>12, PhasesAreSafe

-----------------------------------------------------------------------------
(***************************************************************************)
(* Powers of two.                                                          *)
(***************************************************************************)
LEMMA PowerSteps ==
  Power[0] = 1 /\ \A k \in Nat : Power[k] \in Nat /\ Power[k + 1] = 2 * Power[k]
<1> DEFINE step == [x \in Nat \X Nat |-> 2 * x[2]]
           Eq(f) == f = [k \in Nat |-> IF k = 0 THEN 1 ELSE 2 * f[k - 1]]
           S == CHOOSE f : Eq(f)
<1>1. Power = S BY DEF Power
<1>2. step \in [Nat \X Nat -> Nat] OBVIOUS
<1>3. Initial(Nat) BY DEF Initial
<1>4. PICK f \in [Nat -> Nat] : Follows(f, Nat, 1, step)
  <2> HIDE DEF step
  <2> QED BY <1>2, <1>3, Recursion
<1>5. Eq(f)
  <2>1. \A n \in Nat : n # 0 => step[<<n, f[n - 1]>>] = 2 * f[n - 1] OBVIOUS
  <2> HIDE DEF step
  <2>2. f = [n \in Nat |-> IF n = 0 THEN 1 ELSE step[<<n, f[n - 1]>>]] BY <1>4 DEF Follows
  <2> QED BY <2>1, <2>2
<1>6. Eq(S)
  <2> HIDE DEF Eq
  <2> QED BY <1>5
<1> HIDE DEF S
<1>7. S[0] = 1 BY <1>6
<1>8. \A k \in Nat : S[k + 1] = 2 * S[k]
  <2> SUFFICES ASSUME NEW k \in Nat PROVE S[k + 1] = 2 * S[k] OBVIOUS
  <2>1. k + 1 \in Nat /\ k + 1 # 0 /\ (k + 1) - 1 = k OBVIOUS
  <2> QED BY <2>1, <1>6
<1> DEFINE A == {n \in Nat : S[n] \in Nat}
<1>9. \A n \in Nat : n \in A
  <2>1. 0 \in A BY <1>7
  <2>2. \A n \in Nat : n \in A => n + 1 \in A BY <1>8
  <2> HIDE DEF A
  <2> QED BY <2>1, <2>2, Naturals
<1> QED BY <1>1, <1>7, <1>8, <1>9

LEMMA PowerGrows ==
  /\ \A k \in Nat : k < Power[k] /\ Power[k] \in Positive
  /\ \A a, b \in Nat : Power[a + b] = Power[a] * Power[b]
<1> DEFINE Pw == Power
<1>1. Pw[0] = 1 /\ \A k \in Nat : Pw[k] \in Nat /\ Pw[k + 1] = 2 * Pw[k] BY PowerSteps
<1> HIDE DEF Pw
<1> DEFINE A == {k \in Nat : k < Pw[k]}
<1>2. \A k \in Nat : k \in A
  <2>1. 0 \in A BY <1>1
  <2>2. \A n \in Nat : n \in A => n + 1 \in A BY <1>1
  <2> HIDE DEF A
  <2> QED BY <2>1, <2>2, Naturals
<1>3. ASSUME NEW a \in Nat PROVE \A b \in Nat : Pw[a + b] = Pw[a] * Pw[b]
  <2> DEFINE B == {b \in Nat : Pw[a + b] = Pw[a] * Pw[b]}
  <2>1. 0 \in B
    <3>1. a + 0 = a /\ Pw[a] * 1 = Pw[a] BY <1>1
    <3> QED BY <3>1, <1>1
  <2>2. ASSUME NEW b \in Nat, b \in B PROVE b + 1 \in B
    <3>1. a + (b + 1) = (a + b) + 1 /\ a + b \in Nat OBVIOUS
    <3>2. Pw[a + (b + 1)] = 2 * Pw[a + b] BY <3>1, <1>1
    <3>3. Pw[a] * Pw[b + 1] = Pw[a] * (2 * Pw[b]) BY <1>1
    <3>4. \A x, y \in Nat : x * (2 * y) = 2 * (x * y) OBVIOUS
    <3>5. Pw[a] * (2 * Pw[b]) = 2 * (Pw[a] * Pw[b]) BY <3>4, <1>1
    <3> QED BY <2>2, <3>2, <3>3, <3>5
  <2>3. \A b \in Nat : b \in B
    <3> HIDE DEF B
    <3> QED BY <2>1, <2>2, Naturals
  <2> QED BY <2>3
<1>4. \A k \in Nat : k < Power[k] /\ Power[k] \in Positive
  BY <1>1, <1>2 DEF Pw, Positive
<1>5. \A a, b \in Nat : Power[a + b] = Power[a] * Power[b] BY <1>3 DEF Pw
<1> QED BY <1>4, <1>5

LEMMA PowerOrder ==
  ASSUME NEW a \in Nat, NEW b \in Nat
  PROVE  /\ a <= b => /\ Power[a] <= Power[b]
                      /\ Power[b] \div Power[a] = Power[b - a]
                      /\ Power[b - a] * Power[a] = Power[b]
         /\ Power[a] <= Power[b] => a <= b
<1> DEFINE Pw == Power
<1>1. \A k \in Nat : Pw[k] \in Nat /\ Pw[k] \in Positive /\ k < Pw[k] /\ Pw[k] # 0
  BY PowerSteps, PowerGrows DEF Positive
<1>2. \A x, y \in Nat : Pw[x + y] = Pw[x] * Pw[y] BY PowerGrows
<1>3. ASSUME NEW x \in Nat, NEW y \in Nat, x <= y
      PROVE  Pw[y - x] * Pw[x] = Pw[y] /\ Pw[x] <= Pw[y] /\ Pw[y] \div Pw[x] = Pw[y - x]
  <2> DEFINE d == y - x
  <2>1. d \in Nat /\ d + x = y BY <1>3
  <2> HIDE DEF d
  <2>2. Pw[y] = Pw[d] * Pw[x] BY <2>1, <1>2
  <2>3. 1 * Pw[x] <= Pw[d] * Pw[x] BY <2>1, <1>1, Monotone DEF Positive
  <2>4. 1 * Pw[x] = Pw[x] BY <1>1
  <2>5. 0 \in 0 .. Pw[x] - 1 BY <1>1
  <2>6. (Pw[x] * Pw[d] + 0) \div Pw[x] = Pw[d] BY <2>1, <2>5, <1>1, Quotient
  <2>7. Pw[x] * Pw[d] + 0 = Pw[d] * Pw[x] BY <2>1, <1>1
  <2> QED BY <2>2, <2>3, <2>4, <2>6, <2>7 DEF d
<1>4. ASSUME b < a PROVE Pw[b] < Pw[a]
  <2> DEFINE e == b + 1
  <2>1. e \in Nat /\ e <= a BY <1>4
  <2>2. Pw[e] = 2 * Pw[b] BY PowerSteps
  <2> HIDE DEF e
  <2>3. Pw[e] <= Pw[a] BY <2>1, <1>3
  <2> QED BY <2>1, <2>2, <2>3, <1>1 DEF Positive
<1>5. Pw[a] <= Pw[b] => a <= b BY <1>1, <1>4
<1> QED BY <1>3, <1>5

-----------------------------------------------------------------------------
(***************************************************************************)
(* Scan: the passes.                                                       *)
(***************************************************************************)
LEMMA CeilDividedLess ==
  ASSUME NEW a \in Positive, NEW b \in Nat \ {0, 1}
  PROVE  /\ CeilDiv(a, b) \in Positive /\ CeilDiv(a, b) <= a
         /\ a > 1 => CeilDiv(a, b) < a
<1> DEFINE q == CeilDiv(a, b)
<1>1. a \in Nat /\ a > 0 /\ b \in Positive /\ b \in Nat /\ b >= 2 BY DEF Positive
<1>2. q \in Nat /\ a <= q * b /\ q * b <= a + b - 1 BY <1>1, CeilDivided
<1> HIDE DEF q
<1>3. q # 0 BY <1>1, <1>2
<1>4. ASSUME a > 1, a <= q PROVE FALSE
  <2>1. a * b <= q * b BY <1>1, <1>2, <1>4, Monotone
  <2>2. (a - 1) * (b - 1) = a * b - a - b + 1 BY <1>1
  <2>3. (a - 1) * (b - 1) \in Positive
    <3>1. a - 1 \in Positive /\ b - 1 \in Positive BY <1>1, <1>4 DEF Positive
    <3> QED BY <3>1, Product
  <2>4. a * b \in Nat /\ q * b \in Nat BY <1>1, <1>2, Times
  <2> DEFINE x == a * b
             y == q * b
             z == (a - 1) * (b - 1)
  <2>5. x <= y /\ z = x - a - b + 1 /\ z > 0 /\ z \in Nat /\ x \in Nat /\ y \in Nat /\ y <= a + b - 1
    BY <2>1, <2>2, <2>3, <2>4, <1>2 DEF Positive
  <2> HIDE DEF x, y, z
  <2> QED BY <2>5, <1>1
<1>5. q <= a
  <2>1. CASE a > 1 BY <2>1, <1>1, <1>2, <1>4
  <2>2. CASE a = 1
    <3> SUFFICES ASSUME q >= 2 PROVE FALSE BY <2>2, <1>2
    <3>1. 2 * b <= q * b BY <1>1, <1>2, Monotone
    <3>2. q * b \in Nat BY <1>1, <1>2, Times
    <3> QED BY <3>1, <3>2, <2>2, <1>1, <1>2
  <2> QED BY <1>1, <2>1, <2>2
<1> QED BY <1>1, <1>2, <1>3, <1>4, <1>5 DEF q, Positive

LEMMA ScanSizes ==
  ASSUME NEW c, ScanCall(c)
  PROVE  /\ \A k \in Nat : /\ ScanSize(c)[k] \in Positive
                           /\ ScanSize(c)[k + 1] = CeilDiv(ScanSize(c)[k], c.wg)
                           /\ ScanSize(c)[k + 1] <= ScanSize(c)[k]
         /\ ScanSize(c)[0] = c.n /\ ScanSize(c)[c.n] <= 1
<1> DEFINE V == Positive
           step == [x \in Nat \X V |-> CeilDiv(x[2], c.wg)]
           Eq(f) == f = [k \in Nat |-> IF k = 0 THEN c.n ELSE CeilDiv(f[k - 1], c.wg)]
           S == CHOOSE f : Eq(f)
<1>1. ScanSize(c) = S BY DEF ScanSize
<1>2. c.n \in V /\ c.n \in Nat /\ c.wg \in Nat \ {0, 1} BY DEF ScanCall, Positive
<1>0. \A a \in V : /\ CeilDiv(a, c.wg) \in V /\ CeilDiv(a, c.wg) <= a
                   /\ a > 1 => CeilDiv(a, c.wg) < a
  BY <1>2, CeilDividedLess
<1>3. step \in [Nat \X V -> V] BY <1>0
<1>4. Initial(Nat) BY DEF Initial
<1>5. PICK f \in [Nat -> V] : Follows(f, Nat, c.n, step)
  <2> HIDE DEF step, V
  <2> QED BY <1>2, <1>3, <1>4, Recursion
<1>6. Eq(f)
  <2>1. \A n \in Nat : n # 0 => step[<<n, f[n - 1]>>] = CeilDiv(f[n - 1], c.wg) OBVIOUS
  <2> HIDE DEF step
  <2>2. f = [n \in Nat |-> IF n = 0 THEN c.n ELSE step[<<n, f[n - 1]>>]] BY <1>5 DEF Follows
  <2> QED BY <2>1, <2>2
<1>7. Eq(S)
  <2> HIDE DEF Eq
  <2> QED BY <1>6
<1> HIDE DEF S
<1>8. S[0] = c.n BY <1>7
<1>9. \A k \in Nat : S[k + 1] = CeilDiv(S[k], c.wg)
  <2> SUFFICES ASSUME NEW k \in Nat PROVE S[k + 1] = CeilDiv(S[k], c.wg) OBVIOUS
  <2>1. k + 1 \in Nat /\ k + 1 # 0 /\ (k + 1) - 1 = k OBVIOUS
  <2> QED BY <2>1, <1>7
<1> DEFINE A == {n \in Nat : S[n] \in V /\ (S[n] <= 1 \/ S[n] + n <= c.n)}
<1>10. \A n \in Nat : n \in A
  <2>1. 0 \in A BY <1>2, <1>8 DEF Positive
  <2>2. ASSUME NEW n \in Nat, n \in A PROVE n + 1 \in A
    <3>1. /\ S[n] \in V /\ S[n + 1] \in V /\ S[n + 1] <= S[n]
          /\ S[n] > 1 => S[n + 1] < S[n]
      BY <2>2, <1>0, <1>9
    <3> QED BY <2>2, <3>1, <1>2 DEF Positive
  <2> HIDE DEF A
  <2> QED BY <2>1, <2>2, Naturals
<1>11. \A k \in Nat : S[k] \in V BY <1>10
<1>12. \A k \in Nat : S[k + 1] <= S[k] BY <1>0, <1>9, <1>11
<1>13. S[c.n] <= 1
  <2>1. S[c.n] \in V /\ (S[c.n] <= 1 \/ S[c.n] + c.n <= c.n) BY <1>2, <1>10
  <2> QED BY <2>1, <1>2 DEF Positive
<1> QED BY <1>1, <1>8, <1>9, <1>11, <1>12, <1>13

\* The loop over the levels ends.
LEMMA PassesFacts ==
  ASSUME NEW c, ScanCall(c)
  PROVE  Passes(c) \in Positive /\ Passes(c) <= c.n + 1 /\ ScanSize(c)[Passes(c)] <= 1
<1> DEFINE size == ScanSize(c)
           T == {p \in Nat : p >= 1 /\ size[p] <= 1}
           LastLevel(p) == size[p] <= 1 /\ \A q \in 1 .. p - 1 : size[q] > 1
<1>1. c.n \in Nat /\ c.n >= 1 BY DEF ScanCall, Positive
<1>2. /\ \A k \in Nat : size[k] \in Int
      /\ size[c.n] <= 1
  BY ScanSizes DEF Positive
<1> HIDE DEF size
<1>3. c.n \in T BY <1>1, <1>2
<1>4. PICK p \in T : \A q \in T : p <= q
  <2>1. T \in SUBSET Nat /\ T # {} BY <1>3
  <2> HIDE DEF T
  <2> QED BY <2>1, Least
<1>5. p \in 1 .. c.n + 1 BY <1>1, <1>3, <1>4
<1>6. LastLevel(p)
  <2>1. \A q \in 1 .. p - 1 : q \notin T BY <1>4
  <2>2. \A q \in 1 .. p - 1 : size[q] > 1 BY <2>1, <1>2
  <2> QED BY <1>4, <2>2
<1> DEFINE Pw == CHOOSE p2 \in 1 .. c.n + 1 : LastLevel(p2)
<1>7. Pw \in 1 .. c.n + 1 /\ LastLevel(Pw)
  <2> HIDE DEF LastLevel
  <2> QED BY <1>5, <1>6
<1>8. Passes(c) = Pw BY DEF Passes, size
<1> HIDE DEF Pw
<1> QED BY <1>1, <1>7, <1>8 DEF Positive, size

LEMMA ScanLaunchOf ==
  ASSUME NEW c, c.skeleton = "scan", ScanCall(c)
  PROVE  /\ Launches(c) \in Seq(LaunchOf(c))
         /\ \A l \in LaunchOf(c) :
              \E k \in 0 .. Passes(c) - 1 : l = ScanPass(c, k) \/ l = Combination(c, k)
<1> DEFINE n == Passes(c)
           s == [i \in 1 .. n |-> ScanPass(c, i - 1)]
           t == [i \in 1 .. n - 1 |-> Combination(c, n - 1 - i)]
           L == Launches(c)
           X == {x \in {s[i] : i \in 1 .. n} \cup {t[i] : i \in 1 .. n - 1} : TRUE}
<1>1. n \in Nat /\ n >= 1 BY PassesFacts DEF Positive
<1>2. L = s \o t BY DEF Launches, ScanLaunches
<1>3. /\ \A i \in 1 .. n : s[i] = ScanPass(c, i - 1)
      /\ \A i \in 1 .. n - 1 : t[i] = Combination(c, n - 1 - i)
  OBVIOUS
<1>4. s \in Seq(X) /\ t \in Seq(X)
  <2>1. /\ n \in Nat /\ n - 1 \in Nat
        /\ s \in [1 .. n -> X] /\ t \in [1 .. n - 1 -> X]
    BY <1>1
  <2> HIDE DEF s, t, X
  <2> QED BY <2>1
<1> HIDE DEF s, t, n, L
<1>5. L \in Seq(X) BY <1>2, <1>4, ConcatProperties
<1> HIDE DEF X
<1>6. L \in Seq(LaunchOf(c))
  <2>1. Len(L) \in Nat /\ DOMAIN L = 1 .. Len(L) /\ L = [k \in 1 .. Len(L) |-> L[k]] BY <1>5
  <2>2. \A k \in 1 .. Len(L) : L[k] \in LaunchOf(c) BY <2>1 DEF LaunchOf, L
  <2>3. L \in [1 .. Len(L) -> LaunchOf(c)] BY <2>1, <2>2
  <2> QED BY <2>1, <2>3
<1>7. ASSUME NEW l \in LaunchOf(c)
      PROVE  \E k \in 0 .. n - 1 : l = ScanPass(c, k) \/ l = Combination(c, k)
  <2>1. l \in X
    <3>1. PICK k \in DOMAIN L : l = L[k] BY DEF LaunchOf, L
    <3>2. DOMAIN L = 1 .. Len(L) /\ \A j \in 1 .. Len(L) : L[j] \in X BY <1>5
    <3> QED BY <3>1, <3>2
  <2>2. (\E i \in 1 .. n : l = s[i]) \/ (\E i \in 1 .. n - 1 : l = t[i]) BY <2>1 DEF X
  <2>3. CASE \E i \in 1 .. n : l = s[i]
    <3>1. PICK i \in 1 .. n : l = s[i] BY <2>3
    <3>2. i - 1 \in 0 .. n - 1 BY <1>1
    <3> QED BY <3>1, <3>2, <1>3
  <2>4. CASE \E i \in 1 .. n - 1 : l = t[i]
    <3>1. PICK i \in 1 .. n - 1 : l = t[i] BY <2>4
    <3>2. n - 1 - i \in 0 .. n - 1 BY <1>1
    <3> QED BY <3>1, <3>2, <1>3
  <2> QED BY <2>2, <2>3, <2>4
<1> QED BY <1>6, <1>7 DEF n, L

\* What a launch of Scan has to work with: both kernels.
Leveled(c, l) ==
  /\ l.items \in Positive /\ l.groups \in Nat /\ l.size \in Nat
  /\ l.sums # l.out /\ Shared \notin {l.out, l.sums}
  /\ {l.out, l.sums} \subseteq DOMAIN Buffers(c)
  /\ 0 .. l.size - 1 \subseteq DOMAIN Buffers(c)[l.out]
  /\ GroupOf(l) \subseteq DOMAIN Buffers(c)[l.sums]

LEMMA LevelFacts ==
  ASSUME NEW c, c.skeleton = "scan", ScanCall(c), NEW k \in 0 .. Passes(c) - 1
  PROVE  /\ \A l \in {ScanPass(c, k), Combination(c, k)} :
              /\ Leveled(c, l) /\ l.items = c.wg \div 2
         /\ LET l == ScanPass(c, k)
            IN  /\ l.kernel = "SCL_SCAN" /\ l.local = c.wg
                /\ l.sums # l.in /\ l.in # Shared
         /\ LET l == Combination(c, k)
            IN  l.kernel = "SCL_UNIFORM_COMBINATION" /\ l.local = 1
<1> DEFINE size == ScanSize(c)
           out == IF k = 0 THEN c.out ELSE Temporary(k - 1)
           in == IF k = 0 THEN In ELSE Temporary(k - 1)
           groups == ScanGroups(c, k)
           items == ScanItems(c)
           n == Passes(c)
           B == Buffers(c)
<1>1. /\ \A j \in Nat : size[j] \in Nat /\ size[j] >= 1 /\ size[j + 1] <= size[j]
      /\ size[0] = c.n
  BY ScanSizes DEF Positive
<1>2. c.wg \in Nat /\ c.wg >= 2 /\ c.out \in {In, Out} BY DEF ScanCall
<1>3. n \in Nat /\ k \in Nat /\ k < n BY PassesFacts DEF Positive
<1>4. items \in Positive /\ items \in Nat /\ items = c.wg \div 2
  <2>1. c.wg \div 2 \in Nat /\ c.wg \div 2 >= 1 BY <1>2
  <2> QED BY <2>1 DEF ScanItems, Positive
<1>5. B = [b \in {In, Out} \cup {Temporary(j) : j \in 0 .. n - 1} |->
             CASE b = In  -> Labelled(c.n, 0)
               [] b = Out -> Fresh(c.n)
               [] OTHER   -> Fresh(size[b - Temporary(0)])]
  BY DEF Buffers, ScanBuffers
<1>6. /\ \A a : DOMAIN Labelled(a, 0) = 0 .. a - 1 /\ DOMAIN Fresh(a) = 0 .. a - 1
      /\ \A j \in Nat : Temporary(j) - Temporary(0) = j /\ Temporary(j) \notin {In, Out, Shared}
      /\ Shared \notin {In, Out} /\ In # Out
      /\ \A i, j \in Nat : Temporary(i) = Temporary(j) => i = j
  BY DEF Labelled, Fresh, Temporary, In, Out, Shared
<1> HIDE DEF size, n, B
<1>7. /\ {In, Out} \subseteq DOMAIN B
      /\ DOMAIN B[In] = 0 .. c.n - 1 /\ DOMAIN B[Out] = 0 .. c.n - 1
  BY <1>5, <1>6
<1>8. \A j \in 0 .. n - 1 : Temporary(j) \in DOMAIN B /\ DOMAIN B[Temporary(j)] = 0 .. size[j] - 1
  <2> SUFFICES ASSUME NEW j \in 0 .. n - 1
               PROVE  Temporary(j) \in DOMAIN B /\ DOMAIN B[Temporary(j)] = 0 .. size[j] - 1
    OBVIOUS
  <2>1. j \in Nat BY <1>3
  <2>2. Temporary(j) \in DOMAIN B BY <1>5
  <2>3. B[Temporary(j)] = Fresh(size[Temporary(j) - Temporary(0)]) BY <1>5, <1>6, <2>1
  <2> QED BY <2>1, <2>2, <2>3, <1>6
<1>9. groups \in Nat /\ groups <= size[k]
  <2> DEFINE a == size[k] \div 2
  <2>1. a \in Nat /\ a <= size[k] BY <1>1, <1>3
  <2>2. groups = CeilToMultipleOf(a, items) \div items BY DEF ScanGroups, size
  <2> HIDE DEF a, items, groups
  <2>3. groups \in Positive BY <2>1, <2>2, <1>4, Rounded
  <2>4. CASE a = 0
    <3>1. groups = items \div items BY <2>2, <2>4 DEF CeilToMultipleOf
    <3>2. 0 \in 0 .. items - 1 BY <1>4 DEF Positive
    <3>3. (items * 1 + 0) \div items = 1 BY <3>2, <1>4, Quotient
    <3>4. items * 1 + 0 = items BY <1>4
    <3> QED BY <3>1, <3>3, <3>4, <1>1, <1>3
  <2>5. CASE a # 0
    <3>1. groups = CeilDiv(a, items) BY <2>1, <2>2, <2>5, <1>4, Rounded
    <3>2. groups * items <= a + items - 1 BY <3>1, <2>1, <1>4, CeilDivided
    <3>3. groups <= a
      <4> SUFFICES ASSUME a + 1 <= groups PROVE FALSE BY <2>1, <2>3 DEF Positive
      <4>1. (a + 1) * items <= groups * items BY <2>1, <2>3, <1>4, Monotone DEF Positive
      <4>2. (a + 1) * items = a * items + items BY <2>1, <1>4, Successor
      <4>3. a * 1 <= a * items BY <2>1, <1>4, Monotone DEF Positive
      <4>4. a * items \in Nat /\ groups * items \in Nat BY <2>1, <2>3, <1>4, Times DEF Positive
      <4> QED BY <4>1, <4>2, <4>3, <4>4, <3>2, <2>1, <1>4
    <3> QED BY <3>3, <2>1, <2>3, <1>1, <1>3 DEF Positive
  <2> QED BY <2>3, <2>4, <2>5 DEF Positive
<1>10. /\ out \in DOMAIN B /\ out # Temporary(k) /\ out # Shared
       /\ in # Temporary(k) /\ in # Shared
       /\ 0 .. size[k] - 1 \subseteq DOMAIN B[out]
  <2>1. CASE k = 0 BY <2>1, <1>1, <1>2, <1>6, <1>7
  <2>2. CASE k # 0
    <3>1. k - 1 \in Nat /\ k - 1 \in 0 .. n - 1 /\ (k - 1) + 1 = k /\ k - 1 # k
      BY <2>2, <1>3
    <3>2. out = Temporary(k - 1) /\ in = Temporary(k - 1) BY <2>2
    <3>3. size[k] <= size[k - 1] /\ size[k] \in Nat /\ size[k - 1] \in Nat BY <3>1, <1>1, <1>3
    <3>4. out \in DOMAIN B /\ DOMAIN B[out] = 0 .. size[k - 1] - 1 BY <3>1, <3>2, <1>8
    <3> QED BY <3>1, <3>2, <3>3, <3>4, <1>3, <1>6
  <2> QED BY <2>1, <2>2
<1>11. /\ Temporary(k) \in DOMAIN B /\ Temporary(k) # Shared
       /\ DOMAIN B[Temporary(k)] = 0 .. size[k] - 1
  BY <1>3, <1>6, <1>8
<1>12. 0 .. groups - 1 \subseteq DOMAIN B[Temporary(k)] /\ size[k] \in Nat
  <2>1. size[k] \in Nat BY <1>1, <1>3
  <2> HIDE DEF groups
  <2> QED BY <2>1, <1>9, <1>11
<1>13. ASSUME NEW l \in {ScanPass(c, k), Combination(c, k)}
       PROVE  Leveled(c, l) /\ l.items = c.wg \div 2
  <2>1. /\ l.groups = groups /\ l.items = items /\ l.size = size[k]
        /\ l.out = out /\ l.sums = Temporary(k)
    BY DEF ScanPass, Combination, size
  <2> HIDE DEF groups, items, out, in
  <2>2. GroupOf(l) = 0 .. groups - 1 BY <2>1 DEF GroupOf
  <2> QED BY <2>1, <2>2, <1>4, <1>9, <1>10, <1>11, <1>12 DEF Leveled, B
<1>14. LET l == ScanPass(c, k)
       IN  /\ l.kernel = "SCL_SCAN" /\ l.local = c.wg
           /\ l.sums # l.in /\ l.in # Shared
  BY <1>10 DEF ScanPass
<1>15. LET l == Combination(c, k)
       IN  l.kernel = "SCL_UNIFORM_COMBINATION" /\ l.local = 1
  BY DEF Combination
<1> QED BY <1>13, <1>14, <1>15

\* An item has two elements of its own.
LEMMA ElementsAreMine ==
  ASSUME NEW l, l.items \in Positive, l.groups \in Nat,
         NEW g \in GroupOf(l), NEW t \in ItemOf(l), NEW x \in Elements(l, g, t)
  PROVE  /\ x \in Nat
         /\ x - 2 * g * l.items \in {2 * t, 2 * t + 1}
         /\ \A h \in GroupOf(l), s \in ItemOf(l) : x \in Elements(l, h, s) => g = h /\ t = s
<1>1. l.items \in Nat BY DEF Positive
<1>2. \A h \in GroupOf(l), s \in ItemOf(l) :
        /\ h \in Nat /\ s \in Nat /\ s \in 0 .. l.items - 1 /\ h * l.items \in Nat
  <2> SUFFICES ASSUME NEW h \in GroupOf(l), NEW s \in ItemOf(l)
               PROVE  /\ h \in Nat /\ s \in Nat /\ s \in 0 .. l.items - 1
                      /\ h * l.items \in Nat
    OBVIOUS
  <2>1. h \in Nat /\ s \in Nat /\ s \in 0 .. l.items - 1 BY <1>1 DEF GroupOf, ItemOf
  <2> QED BY <2>1, <1>1, Times
<1> DEFINE a(h) == h * l.items
<1>3. 2 * g * l.items = 2 * a(g) BY <1>1, <1>2
<1>4. \A h, s : Elements(l, h, s) = {2 * (a(h) + s), 2 * (a(h) + s) + 1} BY DEF Elements
<1>5. \A h \in GroupOf(l) : a(h) \in Nat BY <1>2
<1>6. ASSUME NEW h \in GroupOf(l), NEW s \in ItemOf(l), x \in Elements(l, h, s)
      PROVE  a(g) + t = a(h) + s
  <2>1. a(g) \in Nat /\ a(h) \in Nat /\ t \in Nat /\ s \in Nat BY <1>2, <1>5
  <2> HIDE DEF a
  <2> QED BY <2>1, <1>4, <1>6
<1>7. ASSUME NEW h \in GroupOf(l), NEW s \in ItemOf(l), x \in Elements(l, h, s)
      PROVE  g = h /\ t = s
  <2>1. g * l.items + t = h * l.items + s BY <1>6, <1>7
  <2> QED BY <2>1, <1>2, PlaceUnique
<1>8. x \in Nat /\ x - 2 * g * l.items \in {2 * t, 2 * t + 1}
  <2>1. a(g) \in Nat /\ t \in Nat BY <1>2, <1>5
  <2> HIDE DEF a
  <2> QED BY <2>1, <1>3, <1>4
<1> QED BY <1>7, <1>8

-----------------------------------------------------------------------------
(***************************************************************************)
(* Scan: what an item does in a phase.                                     *)
(***************************************************************************)
\* What is stored and touched in the tree, the sums and the elements.
Tidy(l, g, t, f) ==
  /\ \A x \in DOMAIN f :
       \/ x[1] = Shared /\ x[2] \in 0 .. 2 * l.items - 1
       \/ x = Cell(l.sums, g)
       \/ x[1] = l.out /\ x[2] \in Elements(l, g, t) /\ x[2] < l.size
  /\ \A y \in Touched(f) :
       y[1] = Shared \/ y = Cell(l.sums, g) \/ (y[1] \in {l.in, l.out} /\ y[2] \in Elements(l, g, t))

LEMMA NothingIsTidy == ASSUME NEW l, NEW g, NEW t PROVE Tidy(l, g, t, Nothing)
BY CodeOfNone DEF Tidy

LEMMA CacheCells ==
  ASSUME NEW l, l.items \in Positive, l.groups \in Nat, NEW g \in GroupOf(l), NEW t \in ItemOf(l)
  PROVE  LET f == CacheElements(l, g, t)
         IN  /\ \A x \in DOMAIN f : \E i \in Elements(l, g, t) : x = InGroup(l, g, i)
             /\ \A y \in Touched(f) :
                  y \in DOMAIN f \/ (y[1] = l.in /\ y[2] \in Elements(l, g, t))
<1> DEFINE f == CacheElements(l, g, t)
           w == 2 * g * l.items
<1>1. DOMAIN f = {InGroup(l, g, i) : i \in Elements(l, g, t)} BY DEF CacheElements
<1>2. \A x \in DOMAIN f : f[x] = IF x[2] + w < l.size THEN <<Cell(l.in, x[2] + w)>> ELSE << >>
  BY DEF CacheElements
<1>3. w \in Nat
  <2>1. g \in Nat /\ l.items \in Nat BY DEF GroupOf, Positive
  <2>2. g * l.items \in Nat BY <2>1, Times
  <2>3. w = 2 * (g * l.items) BY <2>1
  <2> QED BY <2>2, <2>3
<1>4. \A i \in Elements(l, g, t) : i \in Nat BY ElementsAreMine
<1>5. \A i : InGroup(l, g, i) = <<Shared, i - w>> BY DEF InGroup, Cell
<1> HIDE DEF f, w
<1>6. ASSUME NEW x \in DOMAIN f, NEW y \in Range(f[x])
      PROVE  y[1] = l.in /\ y[2] \in Elements(l, g, t)
  <2>1. PICK i \in Elements(l, g, t) : x = InGroup(l, g, i) BY <1>1
  <2>2. x[2] + w = i BY <2>1, <1>3, <1>4, <1>5
  <2>3. Range(<< >>) = {} /\ Range(<<Cell(l.in, i)>>) = {Cell(l.in, i)}
    BY RangeOfOne DEF Range
  <2>4. y = Cell(l.in, i) BY <1>2, <1>6, <2>2, <2>3
  <2> QED BY <2>4 DEF Cell
<1>7. \A y \in Touched(f) : y \in DOMAIN f \/ (y[1] = l.in /\ y[2] \in Elements(l, g, t))
  BY <1>6 DEF Touched, Reads
<1> QED BY <1>1, <1>7 DEF f

LEMMA CacheIsTidy ==
  ASSUME NEW l, l.items \in Positive, l.groups \in Nat, l.in # Shared,
         NEW g \in GroupOf(l), NEW t \in ItemOf(l)
  PROVE  /\ Tidy(l, g, t, CacheElements(l, g, t))
         /\ \A s \in ItemOf(l) : \A x \in DOMAIN CacheElements(l, g, t) :
              x \in Touched(CacheElements(l, g, s)) => t = s
<1> DEFINE f(s) == CacheElements(l, g, s)
           w == 2 * g * l.items
<1>1. \A s \in ItemOf(l) :
        /\ \A x \in DOMAIN f(s) : \E i \in Elements(l, g, s) : x = InGroup(l, g, i)
        /\ \A y \in Touched(f(s)) :
             y \in DOMAIN f(s) \/ (y[1] = l.in /\ y[2] \in Elements(l, g, s))
  BY CacheCells
<1>2. \A s \in ItemOf(l) : \A i \in Elements(l, g, s) : i - w \in {2 * s, 2 * s + 1}
  BY ElementsAreMine
<1>3. \A i : InGroup(l, g, i) = <<Shared, i - w>> BY DEF InGroup, Cell
<1>4. l.items \in Nat /\ \A s \in ItemOf(l) : s \in Nat /\ s < l.items
  BY DEF ItemOf, Positive
<1> HIDE DEF f, w
<1>5. \A s \in ItemOf(l) : \A x \in DOMAIN f(s) : x[1] = Shared /\ x[2] \in {2 * s, 2 * s + 1}
  BY <1>1, <1>2, <1>3
<1>6. \A x \in DOMAIN f(t) : x[2] \in 0 .. 2 * l.items - 1 BY <1>4, <1>5
<1>7. Tidy(l, g, t, f(t)) BY <1>1, <1>5, <1>6 DEF Tidy
<1>8. ASSUME NEW s \in ItemOf(l), NEW x \in DOMAIN f(t), x \in Touched(f(s)) PROVE t = s
  <2>1. x \in DOMAIN f(s) BY <1>1, <1>5, <1>8
  <2>2. x[2] \in {2 * t, 2 * t + 1} /\ x[2] \in {2 * s, 2 * s + 1} BY <2>1, <1>5, <1>8
  <2>3. t \in Nat /\ s \in Nat BY <1>4
  <2> QED BY <2>2, <2>3
<1> QED BY <1>7, <1>8 DEF f

\* The nodes of the tree.
LEMMA Nodes ==
  ASSUME NEW n \in Nat, NEW o \in Positive, NEW d \in Nat, o * d <= n, NEW t \in Nat, t < d
  PROVE  /\ Left(t, o)[1] = Shared /\ Left(t, o)[2] \in 0 .. 2 * n - 1
         /\ Right(t, o)[1] = Shared /\ Right(t, o)[2] \in 0 .. 2 * n - 1
         /\ \A s \in Nat : /\ Right(t, o) \in {Left(s, o), Right(s, o)} => t = s
                           /\ Left(t, o) \in {Left(s, o), Right(s, o)} => t = s
<1> DEFINE x(a) == a * o
<1>1. o \in Nat /\ o \in Int BY DEF Positive
<1>2. ASSUME NEW a \in Nat, a >= 1, a <= 2 * d PROVE x(a) - 1 \in 0 .. 2 * n - 1
  <2>1. a * o <= (2 * d) * o /\ 1 * o <= a * o BY <1>1, <1>2, Monotone
  <2>2. (2 * d) * o = 2 * (o * d) BY <1>1
  <2>3. o * d \in Nat /\ a * o \in Nat BY <1>1, <1>2, Times
  <2>4. 1 * o = o /\ o >= 1 BY <1>1 DEF Positive
  <2> DEFINE y == o * d
             z == a * o
             u == (2 * d) * o
             v == 1 * o
  <2>7. y <= n /\ u = 2 * y /\ z <= u /\ v <= z /\ v = o /\ o >= 1 BY <2>1, <2>2, <2>4
  <2>8. y \in Nat /\ z \in Nat BY <2>3
  <2> HIDE DEF y, z, u, v
  <2>5. z <= 2 * y /\ z >= 1 /\ y <= n BY <2>7, <2>8, <1>1
  <2>6. z - 1 \in 0 .. 2 * n - 1 BY <2>5, <2>8
  <2> QED BY <2>6 DEF z
<1>3. \A s \in Nat : /\ Left(s, o) = <<Shared, x(2 * s + 1) - 1>>
                     /\ Right(s, o) = <<Shared, x(2 * s + 2) - 1>>
  <2> SUFFICES ASSUME NEW s \in Nat
               PROVE  /\ Left(s, o) = <<Shared, x(2 * s + 1) - 1>>
                      /\ Right(s, o) = <<Shared, x(2 * s + 2) - 1>>
    OBVIOUS
  <2>1. \A a, b \in Int : a * b = b * a OBVIOUS
  <2>2. 2 * s + 1 \in Int /\ 2 * s + 2 \in Int OBVIOUS
  <2>3. o * (2 * s + 1) = x(2 * s + 1) /\ o * (2 * s + 2) = x(2 * s + 2) BY <1>1, <2>1, <2>2
  <2> QED BY <2>3 DEF Left, Right, Cell
<1>4. ASSUME NEW a \in Nat, NEW b \in Nat, x(a) - 1 = x(b) - 1 PROVE a = b
  <2>1. a * o \in Int /\ b * o \in Int BY <1>1
  <2>2. a * o = b * o
    <3> DEFINE y == a * o
               z == b * o
    <3>1. y \in Int /\ z \in Int /\ y - 1 = z - 1 BY <2>1, <1>4
    <3> HIDE DEF y, z
    <3>2. y = z BY <3>1
    <3> QED BY <3>2 DEF y, z
  <2> QED BY <2>2, Cancel
<1>5. /\ 2 * t + 1 \in Nat /\ 2 * t + 1 >= 1 /\ 2 * t + 1 <= 2 * d
      /\ 2 * t + 2 \in Nat /\ 2 * t + 2 >= 1 /\ 2 * t + 2 <= 2 * d
  OBVIOUS
<1>6. x(2 * t + 1) - 1 \in 0 .. 2 * n - 1 /\ x(2 * t + 2) - 1 \in 0 .. 2 * n - 1 BY <1>2, <1>5
<1> HIDE DEF x
<1>7. ASSUME NEW s \in Nat
      PROVE  /\ Right(t, o) \in {Left(s, o), Right(s, o)} => t = s
             /\ Left(t, o) \in {Left(s, o), Right(s, o)} => t = s
  <2>1. 2 * s + 1 \in Nat /\ 2 * s + 2 \in Nat OBVIOUS
  <2>2. Right(t, o) = Left(s, o) => 2 * t + 2 = 2 * s + 1 BY <1>3, <1>4, <1>5, <2>1
  <2>3. Right(t, o) = Right(s, o) => 2 * t + 2 = 2 * s + 2 BY <1>3, <1>4, <1>5, <2>1
  <2>4. Left(t, o) = Left(s, o) => 2 * t + 1 = 2 * s + 1 BY <1>3, <1>4, <1>5, <2>1
  <2>5. Left(t, o) = Right(s, o) => 2 * t + 1 = 2 * s + 2 BY <1>3, <1>4, <1>5, <2>1
  <2> QED BY <2>2, <2>3, <2>4, <2>5
<1>8. /\ Left(t, o) = <<Shared, x(2 * t + 1) - 1>>
      /\ Right(t, o) = <<Shared, x(2 * t + 2) - 1>>
  BY <1>3
<1>9. /\ Left(t, o)[1] = Shared /\ Left(t, o)[2] \in 0 .. 2 * n - 1
      /\ Right(t, o)[1] = Shared /\ Right(t, o)[2] \in 0 .. 2 * n - 1
  BY <1>6, <1>8
<1> QED BY <1>7, <1>9

LEMMA SweepCells ==
  ASSUME NEW t, NEW d, NEW o
  PROVE  /\ ~ (t < d) => UpSweep(t, d, o) = Nothing /\ DownSweep(t, d, o) = Nothing
         /\ t < d => /\ DOMAIN UpSweep(t, d, o) = {Right(t, o)}
                     /\ Touched(UpSweep(t, d, o)) = {Right(t, o), Left(t, o)}
                     /\ DOMAIN DownSweep(t, d, o) = {Right(t, o), Left(t, o)}
                     /\ Touched(DownSweep(t, d, o)) \subseteq {Right(t, o), Left(t, o)}
<1> DEFINE x == Right(t, o)
           y == Left(t, o)
           f == At(x, <<x, y>>)
           h == Copied(y, x)
<1>1. ~ (t < d) => UpSweep(t, d, o) = Nothing /\ DownSweep(t, d, o) = Nothing
  BY DEF UpSweep, DownSweep
<1>2. t < d => UpSweep(t, d, o) = f /\ DownSweep(t, d, o) = Merged(h, f)
  BY DEF UpSweep, DownSweep
<1> HIDE DEF x, y
<1>3. DOMAIN f = {x} /\ Touched(f) = {x, y}
  <2>1. DOMAIN At(x, <<x, y>>) = {x} /\ Touched(At(x, <<x, y>>)) = {x, x, y}
    BY CodeOfTwo, ZenonT(60)
  <2> QED BY <2>1
<1>4. DOMAIN h = {y} /\ Touched(h) = {y, x} BY CodeOfCopy
<1> HIDE DEF f, h
<1>5. /\ DOMAIN Merged(h, f) = DOMAIN h \cup DOMAIN f
      /\ Touched(Merged(h, f)) \subseteq Touched(h) \cup Touched(f)
  BY CodeOfMerged
<1> QED BY <1>1, <1>2, <1>3, <1>4, <1>5 DEF x, y

LEMMA SweepIsTidy ==
  ASSUME NEW l, l.items \in Positive, NEW g, NEW t \in ItemOf(l),
         NEW o \in Positive, NEW d \in Nat, o * d <= l.items
  PROVE  /\ Tidy(l, g, t, UpSweep(t, d, o)) /\ Tidy(l, g, t, DownSweep(t, d, o))
         /\ \A s \in ItemOf(l) :
              /\ \A x \in DOMAIN UpSweep(t, d, o) : x \in Touched(UpSweep(s, d, o)) => t = s
              /\ \A x \in DOMAIN DownSweep(t, d, o) : x \in Touched(DownSweep(s, d, o)) => t = s
<1>1. l.items \in Nat /\ \A s \in ItemOf(l) : s \in Nat BY DEF ItemOf, Positive
<1>2. CASE t < d
  <2>1. /\ Left(t, o)[1] = Shared /\ Left(t, o)[2] \in 0 .. 2 * l.items - 1
        /\ Right(t, o)[1] = Shared /\ Right(t, o)[2] \in 0 .. 2 * l.items - 1
        /\ \A s \in Nat : /\ Right(t, o) \in {Left(s, o), Right(s, o)} => t = s
                          /\ Left(t, o) \in {Left(s, o), Right(s, o)} => t = s
    BY <1>1, <1>2, Nodes
  <2>2. /\ DOMAIN UpSweep(t, d, o) = {Right(t, o)}
        /\ Touched(UpSweep(t, d, o)) = {Right(t, o), Left(t, o)}
        /\ DOMAIN DownSweep(t, d, o) = {Right(t, o), Left(t, o)}
        /\ Touched(DownSweep(t, d, o)) \subseteq {Right(t, o), Left(t, o)}
    BY <1>2, SweepCells
  <2>3. Tidy(l, g, t, UpSweep(t, d, o)) BY <2>1, <2>2 DEF Tidy
  <2>4. Tidy(l, g, t, DownSweep(t, d, o)) BY <2>1, <2>2 DEF Tidy
  <2>5. \A s \in ItemOf(l) : /\ Touched(UpSweep(s, d, o)) \subseteq {Right(s, o), Left(s, o)}
                             /\ Touched(DownSweep(s, d, o)) \subseteq {Right(s, o), Left(s, o)}
    <3> SUFFICES ASSUME NEW s \in ItemOf(l)
                 PROVE  /\ Touched(UpSweep(s, d, o)) \subseteq {Right(s, o), Left(s, o)}
                        /\ Touched(DownSweep(s, d, o)) \subseteq {Right(s, o), Left(s, o)}
      OBVIOUS
    <3>1. CASE s < d BY <3>1, SweepCells
    <3>2. CASE ~ (s < d) BY <3>2, SweepCells, CodeOfNone
    <3> QED BY <3>1, <3>2
  <2> QED BY <2>1, <2>2, <2>3, <2>4, <2>5, <1>1
<1>3. CASE ~ (t < d) BY <1>3, SweepCells, NothingIsTidy, CodeOfNone
<1> QED BY <1>2, <1>3

LEMMA SumIsTidy ==
  ASSUME NEW l, l.items \in Positive, NEW g, NEW t \in ItemOf(l)
  PROVE  /\ Tidy(l, g, t, StoreSum(l, g, t))
         /\ t # 0 => StoreSum(l, g, t) = Nothing
<1>1. CASE t # 0 BY <1>1, NothingIsTidy DEF StoreSum
<1>2. CASE t = 0
  <2> DEFINE x == Cell(Shared, 2 * l.items - 1)
             y == Cell(l.sums, g)
             f == Copied(y, x)
             h == At(x, << >>)
  <2>1. StoreSum(l, g, t) = Merged(f, h) BY <1>2 DEF StoreSum
  <2>2. x[1] = Shared /\ x[2] \in 0 .. 2 * l.items - 1 BY DEF Cell, Positive
  <2> HIDE DEF x, y
  <2>3. DOMAIN f = {y} /\ Touched(f) = {y, x} BY CodeOfCopy
  <2>4. DOMAIN h = {x} /\ Touched(h) = {x}
    <3>1. Range(<< >>) = {} BY DEF Range
    <3> DEFINE e == << >>
    <3> HIDE DEF e
    <3>2. DOMAIN At(x, e) = {x} /\ Touched(At(x, e)) = {x} \cup Range(e) BY CodeOfOne
    <3> QED BY <3>1, <3>2 DEF e
  <2> HIDE DEF f, h
  <2>5. /\ DOMAIN Merged(f, h) = DOMAIN f \cup DOMAIN h
        /\ Touched(Merged(f, h)) \subseteq Touched(f) \cup Touched(h)
    BY CodeOfMerged
  <2>6. /\ DOMAIN StoreSum(l, g, t) \subseteq {x, y}
        /\ Touched(StoreSum(l, g, t)) \subseteq {x, y}
    BY <2>1, <2>3, <2>4, <2>5
  <2> QED BY <1>2, <2>2, <2>6 DEF Tidy, y
<1> QED BY <1>1, <1>2

\* Each element, by the item it belongs to.
LEMMA StoresAreTidy ==
  ASSUME NEW l, l.items \in Positive, l.groups \in Nat, l.out # Shared, NEW f,
         NEW g \in GroupOf(l), NEW t \in ItemOf(l),
         DOMAIN f = {Cell(l.out, i) : i \in {j \in Elements(l, g, t) : j < l.size}},
         \A x \in DOMAIN f : \A y \in Range(f[x]) : y = x \/ y[1] = Shared
  PROVE  /\ Tidy(l, g, t, f)
         /\ \A y \in Touched(f) : y \in DOMAIN f \/ y[1] = Shared
<1>1. \A x \in DOMAIN f : x[1] = l.out /\ x[2] \in Elements(l, g, t) /\ x[2] < l.size
  BY DEF Cell
<1>2. \A y \in Touched(f) : y \in DOMAIN f \/ y[1] = Shared BY DEF Touched, Reads
<1> QED BY <1>1, <1>2 DEF Tidy

\* The cells of the output that an item copies to.
CopiedTo(l, g, t) == {Cell(l.out, i) : i \in {j \in Elements(l, g, t) : j < l.size}}

LEMMA CopyBackCells ==
  ASSUME NEW l, NEW g, NEW t
  PROVE  /\ DOMAIN CopyBack(l, g, t) = CopiedTo(l, g, t)
         /\ \A x \in DOMAIN CopyBack(l, g, t) :
              \A y \in Range(CopyBack(l, g, t)[x]) : y[1] = Shared
<1> DEFINE f == CopyBack(l, g, t)
<1>1. DOMAIN f = CopiedTo(l, g, t)
  BY DEF CopyBack, CopiedTo
<1>2. \A x \in DOMAIN f : f[x] = <<InGroup(l, g, x[2])>> BY DEF CopyBack
<1> HIDE DEF f
<1>3. ASSUME NEW x \in DOMAIN f, NEW y \in Range(f[x]) PROVE y[1] = Shared
  <2> DEFINE z == InGroup(l, g, x[2])
  <2>1. z[1] = Shared BY DEF InGroup, Cell
  <2>2. f[x] = <<z>> BY <1>2
  <2> HIDE DEF z
  <2>3. Range(<<z>>) = {z} BY RangeOfOne
  <2> QED BY <2>1, <2>2, <2>3, <1>3
<1> QED BY <1>1, <1>3 DEF f

-----------------------------------------------------------------------------
(***************************************************************************)
(* Scan: the kernels' contracts.                                           *)
(***************************************************************************)
LEMMA StepsAreNumbers ==
  ASSUME NEW l, l.items \in Nat
  PROVE  UpSteps(l) \in Nat /\ DownSteps(l) \in Nat
<1>1. IsFiniteSet(0 .. l.items)
  <2>1. 0 \in Int /\ l.items \in Int OBVIOUS
  <2> QED BY <2>1, FS_Interval, Zenon
<1> DEFINE U == {k \in 0 .. l.items : Power[k] <= l.items}
           D == {k \in 0 .. l.items : Power[k] < 2 * l.items}
<1>2. U \subseteq 0 .. l.items /\ D \subseteq 0 .. l.items OBVIOUS
<1> HIDE DEF U, D
<1>3. Cardinality(U) \in Nat /\ Cardinality(D) \in Nat
  BY <1>1, <1>2, FS_Subset, FS_CardinalityType
<1> QED BY <1>3 DEF UpSteps, DownSteps, U, D

\* The steps of a tree with a leaf for each element.
LEMMA TreeSteps ==
  ASSUME NEW l, NEW m \in Nat, l.items = Power[m]
  PROVE  UpSteps(l) = m + 1 /\ DownSteps(l) = m + 1
<1> DEFINE U == {k \in 0 .. l.items : Power[k] <= l.items}
           D == {k \in 0 .. l.items : Power[k] < 2 * l.items}
<1>1. l.items \in Nat /\ m < l.items BY PowerGrows DEF Positive
<1>2. \A k \in Nat : Power[k] <= Power[m] <=> k <= m BY PowerOrder
<1>3. \A k \in Nat : Power[k] < Power[m + 1] <=> k <= m
  <2> SUFFICES ASSUME NEW k \in Nat PROVE Power[k] < Power[m + 1] <=> k <= m OBVIOUS
  <2>1. m + 1 \in Nat OBVIOUS
  <2>2. /\ m + 1 <= k => Power[m + 1] <= Power[k]
        /\ Power[m + 1] <= Power[k] => m + 1 <= k
    BY <2>1, PowerOrder
  <2>3. Power[k] \in Int /\ Power[m + 1] \in Int BY <2>1, PowerSteps
  <2> QED BY <2>2, <2>3
<1>4. Power[m + 1] = 2 * l.items BY PowerSteps
<1>5. U = 0 .. m
  <2>1. ASSUME NEW k \in U PROVE k \in 0 .. m
    <3>1. k \in Nat /\ Power[k] <= Power[m] BY <1>1
    <3> QED BY <3>1, <1>2
  <2>2. ASSUME NEW k \in 0 .. m PROVE k \in U
    <3>1. k \in Nat /\ k <= m /\ k \in 0 .. l.items BY <1>1
    <3>2. Power[k] <= Power[m] BY <3>1, <1>2
    <3> QED BY <3>1, <3>2
  <2> QED BY <2>1, <2>2
<1>6. D = 0 .. m
  <2>1. ASSUME NEW k \in D PROVE k \in 0 .. m
    <3>1. k \in Nat /\ Power[k] < Power[m + 1] BY <1>1, <1>4
    <3> QED BY <3>1, <1>3
  <2>2. ASSUME NEW k \in 0 .. m PROVE k \in D
    <3>1. k \in Nat /\ k <= m /\ k \in 0 .. l.items BY <1>1
    <3>2. Power[k] < 2 * l.items BY <3>1, <1>3, <1>4
    <3> QED BY <3>1, <3>2
  <2> QED BY <2>1, <2>2
<1>7. Cardinality(0 .. m) = m + 1
  <2>1. 0 \in Int /\ m \in Int OBVIOUS
  <2>2. Cardinality(0 .. m) = IF 0 > m THEN 0 ELSE m - 0 + 1 BY <2>1, FS_Interval, Zenon
  <2> QED BY <2>2
<1> HIDE DEF U, D
<1> QED BY <1>5, <1>6, <1>7 DEF UpSteps, DownSteps, U, D

LEMMA ScanPhasesOf ==
  ASSUME NEW l, l.kernel = "SCL_SCAN", NEW g, NEW t
  PROVE  Phases(l, g, t) = UpSteps(l) + DownSteps(l) + 3
<1>1. ~ OnePhase(l) BY DEF OnePhase
<1>2. Phases(l, g, t) = ScanPhases(l) BY <1>1 DEF Phases
<1> QED BY <1>2 DEF ScanPhases

\* What an item does, phase by phase.
LEMMA ScanSteps ==
  ASSUME NEW l, l.kernel = "SCL_SCAN", l.items \in Nat, NEW g, NEW t, NEW p \in Nat,
         p < Phases(l, g, t)
  PROVE  LET up   == UpSteps(l)
             down == DownSteps(l)
         IN  /\ \/ p = 0 \/ p \in 1 .. up \/ p = up + 1 \/ p \in up + 2 .. up + down + 1
                \/ p = up + down + 2
             /\ p = 0 => Code(l, g, t, p) = CacheElements(l, g, t)
             /\ p \in 1 .. up =>
                  Code(l, g, t, p) = UpSweep(t, l.items \div Power[p - 1], Power[p - 1])
             /\ p = up + 1 => Code(l, g, t, p) = StoreSum(l, g, t)
             /\ p \in up + 2 .. up + down + 1 =>
                  Code(l, g, t, p) =
                    DownSweep(t, Power[p - up - 2], Power[up] \div Power[p - up - 1])
             /\ p = up + down + 2 => Code(l, g, t, p) = CopyBack(l, g, t)
<1> DEFINE up == UpSteps(l)
           down == DownSteps(l)
           f1 == CacheElements(l, g, t)
           f2 == UpSweep(t, l.items \div Power[p - 1], Power[p - 1])
           f3 == StoreSum(l, g, t)
           f4 == DownSweep(t, Power[p - up - 2], Power[up] \div Power[p - up - 1])
           f5 == CopyBack(l, g, t)
<1>1. up \in Nat /\ down \in Nat BY StepsAreNumbers
<1>2. Phases(l, g, t) = up + down + 3 BY ScanPhasesOf
<1>3. Code(l, g, t, p) =
        CASE p = 0 -> f1
          [] p \in 1 .. up -> f2
          [] p = up + 1 -> f3
          [] p \in up + 2 .. up + down + 1 -> f4
          [] p = up + down + 2 -> f5
  BY DEF Code, ScanCode
<1> HIDE DEF up, down, f1, f2, f3, f4, f5
<1>4. \/ p = 0 \/ p \in 1 .. up \/ p = up + 1 \/ p \in up + 2 .. up + down + 1
      \/ p = up + down + 2
  BY <1>1, <1>2
<1>5. /\ p = 0 => Code(l, g, t, p) = f1
      /\ p \in 1 .. up => Code(l, g, t, p) = f2
      /\ p = up + 1 => Code(l, g, t, p) = f3
      /\ p \in up + 2 .. up + down + 1 => Code(l, g, t, p) = f4
      /\ p = up + down + 2 => Code(l, g, t, p) = f5
  BY <1>1, <1>3
<1> QED BY <1>4, <1>5 DEF up, down, f1, f2, f3, f4, f5

LEMMA ScanPhaseIsTidy ==
  ASSUME NEW l, l.kernel = "SCL_SCAN", NEW m \in Nat, l.items = Power[m],
         l.groups \in Nat, Shared \notin {l.in, l.out},
         NEW g \in GroupOf(l), NEW t \in ItemOf(l), NEW p \in Nat, p < Phases(l, g, t)
  PROVE  /\ Tidy(l, g, t, Code(l, g, t, p))
         /\ \A s \in ItemOf(l) : \A x \in DOMAIN Code(l, g, t, p) :
              x \in Touched(Code(l, g, s, p)) => t = s
<1> DEFINE up == UpSteps(l)
           down == DownSteps(l)
           n == l.items
<1>0. n \in Positive /\ n \in Nat BY PowerGrows DEF Positive
<1>1. up = m + 1 /\ down = m + 1 BY TreeSteps
<1>2. \A s : Phases(l, g, s) = up + down + 3 BY ScanPhasesOf
<1>3. \A s : /\ \/ p = 0 \/ p \in 1 .. up \/ p = up + 1 \/ p \in up + 2 .. up + down + 1
                \/ p = up + down + 2
             /\ p = 0 => Code(l, g, s, p) = CacheElements(l, g, s)
             /\ p \in 1 .. up =>
                  Code(l, g, s, p) = UpSweep(s, n \div Power[p - 1], Power[p - 1])
             /\ p = up + 1 => Code(l, g, s, p) = StoreSum(l, g, s)
             /\ p \in up + 2 .. up + down + 1 =>
                  Code(l, g, s, p) =
                    DownSweep(s, Power[p - up - 2], Power[up] \div Power[p - up - 1])
             /\ p = up + down + 2 => Code(l, g, s, p) = CopyBack(l, g, s)
  BY <1>0, <1>2, ScanSteps
<1> HIDE DEF up, down
<1>4. CASE p = 0
  <2>1. \A s : Code(l, g, s, p) = CacheElements(l, g, s) BY <1>3, <1>4
  <2> QED BY <2>1, <1>0, CacheIsTidy
<1>5. CASE p \in 1 .. up
  <2> DEFINE o == Power[p - 1]
             d == n \div o
  <2>1. \A s : Code(l, g, s, p) = UpSweep(s, d, o) BY <1>3, <1>5
  <2>2. p - 1 \in Nat BY <1>5
  <2>3. o \in Positive BY <2>2, PowerGrows
  <2> HIDE DEF o
  <2>4. d \in Nat /\ o * d <= n
    <3>1. d \in Nat /\ n % o \in 0 .. o - 1 /\ n = o * d + (n % o) BY <1>0, <2>3, Division
    <3>2. o * d \in Nat BY <3>1, <2>3, Times DEF Positive
    <3> DEFINE q == o * d
               r == n % o
    <3>3. q \in Nat /\ r \in Nat /\ n = q + r BY <3>1, <3>2
    <3> HIDE DEF q, r
    <3>4. q <= n BY <3>3, <1>0
    <3> QED BY <3>1, <3>4 DEF q
  <2> HIDE DEF d
  <2>5. l.items \in Positive /\ d \in Nat /\ o \in Positive /\ o * d <= l.items
    BY <2>3, <2>4, <1>0
  <2>6. /\ Tidy(l, g, t, UpSweep(t, d, o))
        /\ \A s \in ItemOf(l) : \A x \in DOMAIN UpSweep(t, d, o) :
             x \in Touched(UpSweep(s, d, o)) => t = s
    BY <2>5, SweepIsTidy
  <2> QED BY <2>1, <2>6
<1>6. CASE p = up + 1
  <2>1. \A s : Code(l, g, s, p) = StoreSum(l, g, s) BY <1>3, <1>6
  <2>2. Tidy(l, g, t, StoreSum(l, g, t)) BY <1>0, SumIsTidy
  <2>3. \A s \in ItemOf(l) : s # 0 => StoreSum(l, g, s) = Nothing BY <1>0, SumIsTidy
  <2>4. ASSUME NEW s \in ItemOf(l), NEW x \in DOMAIN StoreSum(l, g, t),
               x \in Touched(StoreSum(l, g, s))
        PROVE  t = s
    BY <2>3, <2>4, CodeOfNone
  <2> QED BY <2>1, <2>2, <2>4
<1>7. CASE p \in up + 2 .. up + down + 1
  <2> DEFINE j == p - up - 2
             o == Power[up] \div Power[p - up - 1]
             d == Power[j]
  <2>1. \A s : Code(l, g, s, p) = DownSweep(s, d, o) BY <1>3, <1>7
  <2>2. j \in Nat /\ j <= m /\ j + 1 = p - up - 1 /\ up = m + 1 BY <1>1, <1>7
  <2>3. o = Power[m - j] /\ o * d = n
    <3> HIDE DEF j
    <3>1. j + 1 \in Nat /\ m + 1 \in Nat /\ j + 1 <= m + 1 /\ (m + 1) - (j + 1) = m - j
      BY <2>2
    <3>2. Power[m + 1] \div Power[j + 1] = Power[(m + 1) - (j + 1)] BY <3>1, PowerOrder
    <3>3. Power[m - j] * Power[j] = Power[m] BY <2>2, PowerOrder
    <3>4. o = Power[m - j] BY <2>2, <3>1, <3>2
    <3> QED BY <3>3, <3>4
  <2>4. d \in Nat /\ o \in Positive
    <3>1. m - j \in Nat /\ j \in Nat BY <2>2
    <3> HIDE DEF j
    <3> QED BY <3>1, <2>3, PowerGrows DEF Positive
  <2> HIDE DEF o, d
  <2>5. l.items \in Positive /\ d \in Nat /\ o \in Positive /\ o * d <= l.items
    BY <2>3, <2>4, <1>0
  <2>6. /\ Tidy(l, g, t, DownSweep(t, d, o))
        /\ \A s \in ItemOf(l) : \A x \in DOMAIN DownSweep(t, d, o) :
             x \in Touched(DownSweep(s, d, o)) => t = s
    BY <2>5, SweepIsTidy
  <2> QED BY <2>1, <2>6
<1>8. CASE p = up + down + 2
  <2>1. \A s : Code(l, g, s, p) = CopyBack(l, g, s) BY <1>3, <1>8
  <2>2. ASSUME NEW s \in ItemOf(l)
        PROVE  /\ Tidy(l, g, s, CopyBack(l, g, s))
               /\ \A y \in Touched(CopyBack(l, g, s)) : y \in DOMAIN CopyBack(l, g, s) \/ y[1] = Shared
               /\ \A x \in DOMAIN CopyBack(l, g, s) : x[1] = l.out /\ x[2] \in Elements(l, g, s)
    <3> DEFINE f == CopyBack(l, g, s)
    <3>0. /\ DOMAIN f = CopiedTo(l, g, s)
          /\ \A x \in DOMAIN f : \A y \in Range(f[x]) : y[1] = Shared
      BY CopyBackCells
    <3>1. /\ DOMAIN f = {Cell(l.out, i) : i \in {j \in Elements(l, g, s) : j < l.size}}
          /\ \A x \in DOMAIN f : \A y \in Range(f[x]) : y[1] = Shared
      BY <3>0 DEF CopiedTo
    <3> HIDE DEF f
    <3>2. /\ Tidy(l, g, s, f)
          /\ \A y \in Touched(f) : y \in DOMAIN f \/ y[1] = Shared
      BY <3>1, <1>0, StoresAreTidy
    <3>3. \A x \in DOMAIN f : x[1] = l.out /\ x[2] \in Elements(l, g, s)
      BY <3>1 DEF Cell
    <3> QED BY <3>2, <3>3 DEF f
  <2>3. ASSUME NEW s \in ItemOf(l), NEW x \in DOMAIN CopyBack(l, g, t),
               x \in Touched(CopyBack(l, g, s))
        PROVE  t = s
    <3>1. x[1] = l.out /\ x[2] \in Elements(l, g, t) BY <2>2, <2>3
    <3>2. x \in DOMAIN CopyBack(l, g, s) BY <2>2, <2>3, <3>1
    <3>3. x[2] \in Elements(l, g, s) BY <2>2, <3>2
    <3> QED BY <3>1, <3>3, <1>0, ElementsAreMine
  <2> QED BY <2>1, <2>2, <2>3
<1> QED BY <1>3, <1>4, <1>5, <1>6, <1>7, <1>8

LEMMA ScanPassIsSafe ==
  ASSUME NEW c, c.skeleton = "scan", ScanCall(c), PowerOfTwo(c),
         NEW k \in 0 .. Passes(c) - 1, NEW l, l = ScanPass(c, k)
  PROVE  Exclusive(l) /\ Groupwise(l) /\ Fits(c, l) /\ Apart(c, l) /\ Agree(c, l)
<1>1. /\ l.items \in Positive /\ l.groups \in Nat /\ l.size \in Nat
      /\ l.sums # l.out /\ Shared \notin {l.out, l.sums}
      /\ {l.out, l.sums} \subseteq DOMAIN Buffers(c)
      /\ 0 .. l.size - 1 \subseteq DOMAIN Buffers(c)[l.out]
      /\ GroupOf(l) \subseteq DOMAIN Buffers(c)[l.sums]
      /\ l.items = c.wg \div 2 /\ l.kernel = "SCL_SCAN" /\ l.local = c.wg
      /\ l.sums # l.in /\ l.in # Shared
  BY LevelFacts DEF Leveled
<1>2. PICK m \in Nat : l.items = Power[m] /\ l.local = 2 * l.items
  <2>1. PICK n \in 1 .. c.wg : c.wg = Power[n] BY DEF PowerOfTwo
  <2>2. n - 1 \in Nat /\ (n - 1) + 1 = n BY <2>1
  <2>3. Power[n - 1] \in Nat /\ Power[n] = 2 * Power[n - 1] BY <2>2, PowerSteps
  <2>4. \A x \in Nat : (2 * x) \div 2 = x OBVIOUS
  <2>5. c.wg \div 2 = Power[n - 1] BY <2>1, <2>3, <2>4
  <2> QED BY <2>1, <2>2, <2>3, <2>5, <1>1
<1>3. Shared \notin {l.in, l.out} BY <1>1
<1>4. ASSUME NEW g \in GroupOf(l), NEW t \in ItemOf(l), NEW p \in Nat, p < Phases(l, g, t)
      PROVE  /\ Tidy(l, g, t, Code(l, g, t, p))
             /\ \A s \in ItemOf(l) : \A x \in DOMAIN Code(l, g, t, p) :
                  x \in Touched(Code(l, g, s, p)) => t = s
  BY <1>1, <1>2, <1>3, <1>4, ScanPhaseIsTidy
<1>5. \A g \in GroupOf(l), t \in ItemOf(l) : \A i \in Elements(l, g, t) : i \in Nat
  BY <1>1, ElementsAreMine
<1>6. Fits(c, l)
  <2> SUFFICES ASSUME NEW g \in GroupOf(l), NEW t \in ItemOf(l), NEW p \in Nat,
                      p < Phases(l, g, t), NEW x \in DOMAIN Code(l, g, t, p)
               PROVE  IF x[1] = Shared THEN x[2] \in 0 .. l.local - 1
                      ELSE x[1] \in DOMAIN Buffers(c) /\ x[2] \in DOMAIN Buffers(c)[x[1]]
    BY DEF Fits
  <2>1. \/ x[1] = Shared /\ x[2] \in 0 .. 2 * l.items - 1
        \/ x = Cell(l.sums, g)
        \/ x[1] = l.out /\ x[2] \in Elements(l, g, t) /\ x[2] < l.size
    BY <1>4 DEF Tidy
  <2>2. CASE x[1] = Shared /\ x[2] \in 0 .. 2 * l.items - 1 BY <2>2, <1>2
  <2>3. CASE x = Cell(l.sums, g) BY <2>3, <1>1 DEF Cell
  <2>4. CASE x[1] = l.out /\ x[2] \in Elements(l, g, t) /\ x[2] < l.size
    <3>1. x[2] \in Nat BY <2>4, <1>5
    <3>2. x[2] \in 0 .. l.size - 1 BY <2>4, <3>1, <1>1
    <3> QED BY <2>4, <3>2, <1>1
  <2> QED BY <2>1, <2>2, <2>3, <2>4
<1>7. Exclusive(l) BY <1>4 DEF Exclusive
<1>8. Groupwise(l)
  <2> SUFFICES ASSUME NEW g \in GroupOf(l), NEW h \in GroupOf(l),
                      NEW t \in ItemOf(l), NEW s \in ItemOf(l), NEW p \in Nat, NEW q \in Nat,
                      p < Phases(l, g, t), q < Phases(l, h, s),
                      NEW x \in DOMAIN Code(l, g, t, p), x[1] # Shared,
                      x \in Touched(Code(l, h, s, q))
               PROVE  g = h
    BY DEF Groupwise
  <2>1. x = Cell(l.sums, g) \/ (x[1] = l.out /\ x[2] \in Elements(l, g, t))
    BY <1>4 DEF Tidy
  <2>2. x = Cell(l.sums, h) \/ (x[1] \in {l.in, l.out} /\ x[2] \in Elements(l, h, s))
    BY <1>4 DEF Tidy
  <2>3. CASE x = Cell(l.sums, g) BY <2>2, <2>3, <1>1 DEF Cell
  <2>4. CASE x[1] = l.out /\ x[2] \in Elements(l, g, t)
    <3>1. x[2] \in Elements(l, h, s) BY <2>2, <2>4, <1>1 DEF Cell
    <3> QED BY <2>4, <3>1, <1>1, ElementsAreMine
  <2> QED BY <2>1, <2>3, <2>4
<1>9. \A p \in Nat : p > 0 => Barrier(l, p)
  <2>0. ~ OnePhase(l) BY <1>1 DEF OnePhase
  <2>1. \A p : Barrier(l, p) = ScanBarrier(l, p) BY <2>0, <1>1 DEF Barrier
  <2> QED BY <2>1 DEF ScanBarrier
<1>10. Separated(l) BY <1>9, BarriersSeparate
<1> QED BY <1>6, <1>7, <1>8, <1>10, PhasesAreSafe

LEMMA CombinationPhase ==
  ASSUME NEW l, l.kernel = "SCL_UNIFORM_COMBINATION"
  PROVE  /\ \A g, t : Phases(l, g, t) = 2
         /\ \A p \in Nat : p > 0 => Barrier(l, p)
<1>1. ~ OnePhase(l) BY DEF OnePhase
<1>2. \A g, t : Phases(l, g, t) = CombinationPhases BY <1>1 DEF Phases
<1>a. ~ OnePhase(l) BY <1>1 DEF OnePhase
<1>3. \A p : Barrier(l, p) = (p > 0) BY <1>a, <1>1 DEF Barrier
<1> QED BY <1>2, <1>3 DEF CombinationPhases

LEMMA CombinationIsSafe ==
  ASSUME NEW c, c.skeleton = "scan", ScanCall(c), NEW k \in 0 .. Passes(c) - 1,
         NEW l, l = Combination(c, k)
  PROVE  Exclusive(l) /\ Groupwise(l) /\ Fits(c, l) /\ Apart(c, l) /\ Agree(c, l)
<1>1. /\ l.items \in Positive /\ l.groups \in Nat /\ l.size \in Nat
      /\ l.sums # l.out /\ Shared \notin {l.out, l.sums}
      /\ {l.out, l.sums} \subseteq DOMAIN Buffers(c)
      /\ 0 .. l.size - 1 \subseteq DOMAIN Buffers(c)[l.out]
      /\ l.kernel = "SCL_UNIFORM_COMBINATION" /\ l.local = 1
  BY LevelFacts DEF Leveled
<1>2. (\A g, t : Phases(l, g, t) = 2) /\ (\A p \in Nat : p > 0 => Barrier(l, p))
  BY <1>1, CombinationPhase
<1>3. \A p \in Nat : p < 2 => p \in {0, 1} OBVIOUS
\* Item 0 fetches the sum.
<1>4. ASSUME NEW g \in GroupOf(l), NEW t \in ItemOf(l)
      PROVE  /\ \A x \in DOMAIN Code(l, g, t, 0) : x = Cell(Shared, 0) /\ t = 0
             /\ \A y \in Touched(Code(l, g, t, 0)) :
                  t = 0 /\ (y = Cell(Shared, 0) \/ y[1] = l.sums)
  <2>1. Code(l, g, t, 0) =
          IF t = 0 THEN Copied(Cell(Shared, 0), Cell(l.sums, g)) ELSE Nothing
    BY <1>1 DEF Code, CombinationCode
  <2>2. CASE t # 0 BY <2>1, <2>2, CodeOfNone
  <2>3. CASE t = 0
    <3> DEFINE x == Cell(Shared, 0)
               y == Cell(l.sums, g)
    <3>1. Code(l, g, t, 0) = Copied(x, y) BY <2>1, <2>3
    <3>2. y[1] = l.sums BY DEF Cell
    <3> HIDE DEF x, y
    <3>3. DOMAIN Copied(x, y) = {x} /\ Touched(Copied(x, y)) = {x, y} BY CodeOfCopy
    <3> QED BY <3>1, <3>2, <3>3, <2>3 DEF x
  <2> QED BY <2>2, <2>3
\* All add it to their elements.
<1>5. ASSUME NEW g \in GroupOf(l), NEW t \in ItemOf(l)
      PROVE  /\ \A x \in DOMAIN Code(l, g, t, 1) :
                  x[1] = l.out /\ x[2] \in Elements(l, g, t) /\ x[2] < l.size
             /\ \A y \in Touched(Code(l, g, t, 1)) :
                  y \in DOMAIN Code(l, g, t, 1) \/ y = Cell(Shared, 0)
  <2> DEFINE f == Code(l, g, t, 1)
  <2>1. f = [x \in {Cell(l.out, i) : i \in {j \in Elements(l, g, t) : j < l.size}} |->
               <<x, Cell(Shared, 0)>>]
    BY <1>1 DEF Code, CombinationCode
  <2>2. \A x \in DOMAIN f : x[1] = l.out /\ x[2] \in Elements(l, g, t) /\ x[2] < l.size
    BY <2>1 DEF Cell
  <2>3. \A x \in DOMAIN f : f[x] = <<x, Cell(Shared, 0)>> BY <2>1
  <2> HIDE DEF f
  <2>4. \A x \in DOMAIN f : \A y \in Range(f[x]) : y = x \/ y = Cell(Shared, 0)
    BY <2>3, RangeOfTwo
  <2>5. \A y \in Touched(f) : y \in DOMAIN f \/ y = Cell(Shared, 0)
    BY <2>4 DEF Touched, Reads
  <2> QED BY <2>2, <2>5 DEF f
<1>6. \A g \in GroupOf(l), t \in ItemOf(l) : \A i \in Elements(l, g, t) : i \in Nat
  BY <1>1, ElementsAreMine
<1>7. Cell(Shared, 0)[1] = Shared /\ Cell(Shared, 0)[2] = 0 BY DEF Cell
<1>8. Fits(c, l)
  <2> SUFFICES ASSUME NEW g \in GroupOf(l), NEW t \in ItemOf(l), NEW p \in {0, 1},
                      NEW x \in DOMAIN Code(l, g, t, p)
               PROVE  IF x[1] = Shared THEN x[2] \in 0 .. l.local - 1
                      ELSE x[1] \in DOMAIN Buffers(c) /\ x[2] \in DOMAIN Buffers(c)[x[1]]
    BY <1>2, <1>3 DEF Fits
  <2>1. CASE p = 0
    <3>1. x = Cell(Shared, 0) BY <2>1, <1>4
    <3>2. x[1] = Shared /\ x[2] = 0 BY <3>1, <1>7
    <3> QED BY <3>2, <1>1
  <2>2. CASE p = 1
    <3>1. x[1] = l.out /\ x[2] \in Elements(l, g, t) /\ x[2] < l.size BY <2>2, <1>5
    <3>2. x[2] \in Nat BY <3>1, <1>6
    <3>3. x[2] \in 0 .. l.size - 1 BY <3>1, <3>2, <1>1
    <3> QED BY <3>1, <3>3, <1>1
  <2> QED BY <2>1, <2>2
<1>9. Exclusive(l)
  <2> SUFFICES ASSUME NEW g \in GroupOf(l), NEW t \in ItemOf(l), NEW s \in ItemOf(l),
                      NEW p \in {0, 1}, NEW x \in DOMAIN Code(l, g, t, p),
                      x \in Touched(Code(l, g, s, p))
               PROVE  t = s
    BY <1>2, <1>3 DEF Exclusive
  <2>1. CASE p = 0 BY <2>1, <1>4
  <2>2. CASE p = 1
    <3>1. x[1] = l.out /\ x[2] \in Elements(l, g, t) BY <2>2, <1>5
    <3>2. x \in DOMAIN Code(l, g, s, 1) BY <2>2, <3>1, <1>1, <1>5, <1>7
    <3>3. x[2] \in Elements(l, g, s) BY <3>2, <1>5
    <3> QED BY <3>1, <3>3, <1>1, ElementsAreMine
  <2> QED BY <2>1, <2>2
<1>10. Groupwise(l)
  <2> SUFFICES ASSUME NEW g \in GroupOf(l), NEW h \in GroupOf(l),
                      NEW t \in ItemOf(l), NEW s \in ItemOf(l), NEW p \in {0, 1},
                      NEW q \in {0, 1}, NEW x \in DOMAIN Code(l, g, t, p), x[1] # Shared,
                      x \in Touched(Code(l, h, s, q))
               PROVE  g = h
    BY <1>2, <1>3 DEF Groupwise
  <2>1. p = 1 BY <1>4, <1>7
  <2>2. x[1] = l.out /\ x[2] \in Elements(l, g, t) BY <2>1, <1>5
  <2>3. q = 1 BY <2>2, <1>1, <1>4, <1>7
  <2>4. x \in DOMAIN Code(l, h, s, 1) BY <2>2, <2>3, <1>1, <1>5, <1>7
  <2>5. x[2] \in Elements(l, h, s) BY <2>4, <1>5
  <2> QED BY <2>2, <2>5, <1>1, ElementsAreMine
<1>11. Separated(l) BY <1>2, BarriersSeparate
<1> QED BY <1>8, <1>9, <1>10, <1>11, PhasesAreSafe

LEMMA ScanIsSafe ==
  ASSUME NEW c, c.skeleton = "scan", ScanCall(c)
  PROVE  /\ Scheduled(c)
         /\ PowerOfTwo(c) => \A l \in LaunchOf(c) : Fits(c, l) /\ Apart(c, l) /\ Agree(c, l)
<1>1. /\ Launches(c) \in Seq(LaunchOf(c))
      /\ \A l \in LaunchOf(c) :
           \E k \in 0 .. Passes(c) - 1 : l = ScanPass(c, k) \/ l = Combination(c, k)
  BY ScanLaunchOf
<1>2. c.warp \in Positive /\ c.wg \in Nat BY DEF ScanCall
<1>3. ASSUME NEW l \in LaunchOf(c)
      PROVE  Shape(c, l) /\ Even(l)
  <2>1. PICK k \in 0 .. Passes(c) - 1 : l = ScanPass(c, k) \/ l = Combination(c, k) BY <1>1
  <2>2. /\ Leveled(c, l)
        /\ \/ l.kernel = "SCL_SCAN" /\ l.local = c.wg
           \/ l.kernel = "SCL_UNIFORM_COMBINATION" /\ l.local = 1
    BY <2>1, LevelFacts
  <2>3. Shape(c, l) BY <2>2, <1>2 DEF Leveled, Shape
  <2>4. CASE l.kernel = "SCL_SCAN"
    <3>1. l.items \in Nat BY <2>2 DEF Leveled, Positive
    <3>2. UpSteps(l) + DownSteps(l) + 3 \in Nat BY <3>1, StepsAreNumbers
    <3>3. \A g, t : Phases(l, g, t) = UpSteps(l) + DownSteps(l) + 3 BY <2>4, ScanPhasesOf
    <3> QED BY <2>3, <3>2, <3>3 DEF Even
  <2>5. CASE l.kernel = "SCL_UNIFORM_COMBINATION"
    <3>1. \A g, t : Phases(l, g, t) = 2 BY <2>5, CombinationPhase
    <3> QED BY <2>3, <3>1 DEF Even
  <2> QED BY <2>2, <2>4, <2>5
<1>4. Scheduled(c) BY <1>1, <1>3 DEF Scheduled
<1>5. ASSUME PowerOfTwo(c), NEW l \in LaunchOf(c)
      PROVE  Fits(c, l) /\ Apart(c, l) /\ Agree(c, l)
  <2>1. PICK k \in 0 .. Passes(c) - 1 : l = ScanPass(c, k) \/ l = Combination(c, k) BY <1>1
  <2>2. CASE l = ScanPass(c, k) BY <1>5, <2>2, ScanPassIsSafe
  <2>3. CASE l = Combination(c, k) BY <2>3, CombinationIsSafe
  <2> QED BY <2>1, <2>2, <2>3
<1> QED BY <1>4, <1>5

-----------------------------------------------------------------------------
(***************************************************************************)
(* All kernels.                                                            *)
(***************************************************************************)
LEMMA EveryCallIsScheduled == AllScheduled
<1> SUFFICES ASSUME NEW c \in Requests PROVE Scheduled(c) BY DEF AllScheduled
<1>1. IsCall(c) BY RequestsAssumption
<1>2. CASE c.skeleton = "scan" /\ ScanCall(c) BY <1>2, ScanIsSafe
<1>3. CASE c.skeleton = "reduce" /\ ReduceCall(c) BY <1>3, ReduceIsScheduled
<1>4. CASE c.skeleton = "overlap" /\ OverlapCall(c) BY <1>4, OverlapIsScheduled
<1>5. CASE c.skeleton = "allpairs" /\ AllPairsCall(c)
  <2>1. CASE c.general BY <1>5, <2>1, GeneralIsSafe
  <2>2. CASE ~ c.general BY <1>5, <2>2, TiledIsSafe
  <2> QED BY <2>1, <2>2
<1>6. CASE c.skeleton = "map" /\ MapCall(c) BY <1>6, MapIsScheduled
<1>7. CASE c.skeleton = "zip" /\ ZipCall(c) BY <1>7, ZipIsSafe
<1> QED BY <1>1, <1>2, <1>3, <1>4, <1>5, <1>6, <1>7 DEF IsCall

LEMMA EveryStoreFits ==
  ASSUME Tolerated \cap {"powerOfTwo", "wholeTiles", "wholeGroups", "wholeColumns"} = {}
  PROVE  AllFit
<1> SUFFICES ASSUME NEW c \in Requests, Acceptable(c), NEW l \in LaunchOf(c) PROVE Fits(c, l)
  BY DEF AllFit
<1>1. IsCall(c) BY RequestsAssumption
<1>2. CASE c.skeleton = "scan" /\ ScanCall(c)
  <2>1. PowerOfTwo(c) BY <1>2 DEF Acceptable, Meets
  <2> QED BY <1>2, <2>1, ScanIsSafe
<1>3. CASE c.skeleton = "reduce" /\ ReduceCall(c)
  <2>1. l = ReduceFirst(c) \/ l = ReduceSecond(c) BY <1>3, ReduceIsScheduled
  <2> QED BY <1>3, <2>1, ReduceFirstIsSafe, ReduceSecondIsSafe
<1>4. CASE c.skeleton = "overlap" /\ OverlapCall(c)
  <2>1. WholeTiles(c) BY <1>4 DEF Acceptable, Meets
  <2> QED BY <1>4, <2>1, OverlapIsSafe
<1>5. CASE c.skeleton = "allpairs" /\ AllPairsCall(c)
  <2>1. CASE c.general BY <1>5, <2>1, GeneralIsSafe
  <2>2. CASE ~ c.general BY <1>5, <2>2, TiledIsSafe
  <2> QED BY <2>1, <2>2
<1>6. CASE c.skeleton = "map" /\ MapCall(c)
  <2>1. WholeGroups(c) /\ WholeColumns(c) BY <1>6 DEF Acceptable, Meets
  <2> QED BY <1>6, <2>1, MapIsSafe
<1>7. CASE c.skeleton = "zip" /\ ZipCall(c) BY <1>7, ZipIsSafe
<1> QED BY <1>1, <1>2, <1>3, <1>4, <1>5, <1>6, <1>7 DEF IsCall

LEMMA EveryKernelIsApart ==
  ASSUME Tolerated \cap {"powerOfTwo", "lockstep", "wholeTiles", "separate",
                         "wholeColumns"} = {}
  PROVE  AllApart
<1> SUFFICES ASSUME NEW c \in Requests, Acceptable(c), NEW l \in LaunchOf(c)
             PROVE  Apart(c, l) /\ Agree(c, l)
  BY DEF AllApart
<1>1. IsCall(c) BY RequestsAssumption
<1>2. CASE c.skeleton = "scan" /\ ScanCall(c)
  <2>1. PowerOfTwo(c) BY <1>2 DEF Acceptable, Meets
  <2> QED BY <1>2, <2>1, ScanIsSafe
<1>3. CASE c.skeleton = "reduce" /\ ReduceCall(c)
  <2>1. ReduceSecond(c).items <= c.warp BY <1>3 DEF Acceptable, Meets
  <2>2. l = ReduceFirst(c) \/ l = ReduceSecond(c) BY <1>3, ReduceIsScheduled
  <2>3. CASE l = ReduceFirst(c) BY <1>3, <2>3, ReduceFirstIsSafe
  <2>4. CASE l = ReduceSecond(c) BY <1>3, <2>1, <2>4, ReduceSecondIsSafe
  <2> QED BY <2>2, <2>3, <2>4
<1>4. CASE c.skeleton = "overlap" /\ OverlapCall(c)
  <2>1. WholeTiles(c) /\ c.out # In BY <1>4 DEF Acceptable, Meets
  <2> QED BY <1>4, <2>1, OverlapIsSafe
<1>5. CASE c.skeleton = "allpairs" /\ AllPairsCall(c)
  <2>1. CASE c.general BY <1>5, <2>1, GeneralIsSafe
  <2>2. CASE ~ c.general BY <1>5, <2>2, TiledIsSafe
  <2> QED BY <2>1, <2>2
<1>6. CASE c.skeleton = "map" /\ MapCall(c)
  <2>1. WholeColumns(c) BY <1>6 DEF Acceptable, Meets
  <2> QED BY <1>6, <2>1, MapIsSafe
<1>7. CASE c.skeleton = "zip" /\ ZipCall(c) BY <1>7, ZipIsSafe
<1> QED BY <1>1, <1>2, <1>3, <1>4, <1>5, <1>6, <1>7 DEF IsCall

(***************************************************************************)
(* A resident group is one of the running launch that has not been started *)
(* twice, and no warp runs past its last phase, for every sequence of      *)
(* calls of the skeletons.                                                 *)
(***************************************************************************)
THEOREM KernelsTypeCorrect == Spec => []TypeOK
<1>1. Spec => []KInv BY EveryCallIsScheduled, Invariance
<1>2. KInv => TypeOK BY EveryCallIsScheduled, KInvType
<1> QED BY <1>1, <1>2, PTL

(***************************************************************************)
(* The warps of a group meet at each barrier, whatever the call, the       *)
(* device's warps and the order in which they advance: the items of a      *)
(* group pass the same number of barriers, also in AllPairs, where that    *)
(* depends on the tiles that the group has left below it.                  *)
(***************************************************************************)
THEOREM KernelBarriersAreMet == Spec => []BarriersAreMet
<1>1. Spec => []KInv BY EveryCallIsScheduled, Invariance
<1>2. KInv => BarriersAreMet BY EveryCallIsScheduled, KInvBarriers
<1> QED BY <1>1, <1>2, PTL

(***************************************************************************)
(* No kernel writes outside of its buffers or of its group's local memory, *)
(* for the calls that meet these four conditions: surplus items, which     *)
(* every launch has whose size is rounded up, store nothing.               *)
(***************************************************************************)
THEOREM KernelStoresInBounds ==
  ASSUME Tolerated \cap {"powerOfTwo", "wholeTiles", "wholeGroups", "wholeColumns"} = {}
  PROVE  Spec => []StoresInBounds
<1>1. Spec => []KInv BY EveryCallIsScheduled, Invariance
<1>2. KInv => StoresInBounds BY EveryCallIsScheduled, EveryStoreFits, KInvStores
<1> QED BY <1>1, <1>2, PTL

(***************************************************************************)
(* No two warps access a cell that one of them writes, for the calls that  *)
(* meet these five conditions: the kernels have enough barriers, and their *)
(* groups, which nothing separates, share nothing that they write.         *)
(***************************************************************************)
THEOREM KernelsDoNotRace ==
  ASSUME Tolerated \cap {"powerOfTwo", "lockstep", "wholeTiles", "separate",
                         "wholeColumns"} = {}
  PROVE  Spec => []NoRace
<1>1. Spec => []KInv BY EveryCallIsScheduled, Invariance
<1>2. KInv => NoRace BY EveryCallIsScheduled, EveryKernelIsApart, KInvRaces
<1> QED BY <1>1, <1>2, PTL
=============================================================================
