------------------------------- MODULE Kernels -------------------------------
(***************************************************************************)
(* The kernels at work on one device.  A call of a skeleton launches a     *)
(* number of kernels, one after the other (the queue is in-order).  A      *)
(* kernel is run by work groups, a few of which are resident at a time, in *)
(* any order; the items of a group advance in warps, in lockstep within a  *)
(* warp and at their own pace otherwise, and wait for each other at        *)
(* barriers.  A warp loads what it combines, and stores it, in two steps.  *)
(***************************************************************************)
EXTENDS ElementKernels, ScanKernel, ReduceKernel, MapOverlapKernel, AllPairsKernel

CONSTANTS
  Requests,   \* bound: the calls that are made
  Units,      \* bound: work groups resident at a time
  Tolerated   \* the conditions below that the calls need not satisfy

(***************************************************************************)
(* When the kernels are right; neither code nor documentation asks for it. *)
(*   covered    Scan: every pass has enough items                          *)
(*   powerOfTwo Scan: the work-group size is a power of two                *)
(*   lockstep   Reduce: the second launch's group is one warp              *)
(*   allRows    MapOverlap: the work groups reach the last row             *)
(*   wholeTiles MapOverlap: the columns are a multiple of the tile's       *)
(*   separate   MapOverlap: the output is not the input                    *)
(*   narrow     MapOverlap: the range is at most a tile's width, which is  *)
(*              at least two                                               *)
(*   onePart    Map over indices: no device has a replica of the others'   *)
(*   wholeGroups  Map over indices: no surplus item is below the size of   *)
(*              the whole output                                           *)
(*   wholeColumns  Map over points: the columns are a multiple of the      *)
(*              group's                                                    *)
(***************************************************************************)
Condition == {"covered", "powerOfTwo", "lockstep", "allRows", "wholeTiles", "separate",
              "narrow", "onePart", "wholeGroups", "wholeColumns"}

ASSUME UnitsAssumption     == Units \in Nat \ {0}
ASSUME ToleratedAssumption == Tolerated \subseteq Condition

\* What the skeletons see to, or their containers.
IsCall(c) ==
  \/ c.skeleton = "scan"     /\ ScanCall(c)
  \/ c.skeleton = "reduce"   /\ ReduceCall(c)
  \/ c.skeleton = "overlap"  /\ OverlapCall(c)
  \/ c.skeleton = "allpairs" /\ AllPairsCall(c)
  \/ c.skeleton = "map"      /\ MapCall(c)
  \/ c.skeleton = "zip"      /\ ZipCall(c)

ASSUME RequestsAssumption == \A c \in Requests : IsCall(c)

Meets(condition, holds) == condition \in Tolerated \/ holds

Acceptable(c) ==
  CASE c.skeleton = "scan"     ->
         /\ Meets("covered", Covered(c))
         /\ Meets("powerOfTwo", PowerOfTwo(c))
    [] c.skeleton = "reduce"   -> Meets("lockstep", ReduceSecond(c).items <= c.warp)
    [] c.skeleton = "overlap"  ->
         /\ Meets("allRows", AllRows(c))
         /\ Meets("wholeTiles", WholeTiles(c))
         /\ Meets("separate", c.out # In)
         /\ Meets("narrow", Narrow(c))
    [] c.skeleton = "map"      ->
         /\ Meets("onePart", OnePart(c))
         /\ Meets("wholeGroups", WholeGroups(c))
         /\ Meets("wholeColumns", WholeColumns(c))
    [] c.skeleton \in {"zip", "allpairs"} -> TRUE

-----------------------------------------------------------------------------
(***************************************************************************)
(* Which kernel is it?                                                     *)
(***************************************************************************)
Launches(c) ==
  CASE c.skeleton = "scan"     -> ScanLaunches(c)
    [] c.skeleton = "reduce"   -> ReduceLaunches(c)
    [] c.skeleton = "overlap"  -> OverlapLaunches(c)
    [] c.skeleton = "allpairs" -> AllPairsLaunches(c)
    [] c.skeleton = "map"      -> <<MapLaunch(c)>>
    [] c.skeleton = "zip"      -> <<IF c.result THEN ZipLaunch(c) ELSE ZipVoidLaunch(c)>>

Buffers(c) ==
  CASE c.skeleton = "scan"     -> ScanBuffers(c)
    [] c.skeleton = "reduce"   -> ReduceBuffers(c)
    [] c.skeleton = "overlap"  -> OverlapBuffers(c)
    [] c.skeleton = "allpairs" -> AllPairsBuffers(c)
    [] c.skeleton = "map"      -> MapBuffers(c)
    [] c.skeleton = "zip"      -> ZipBuffers(c)

\* The code of item i of group g in phase p.
Code(l, g, i, p) ==
  CASE l.kernel = "SCL_SCAN"                -> ScanCode(l, g, i, p)
    [] l.kernel = "SCL_UNIFORM_COMBINATION" -> CombinationCode(l, g, i, p)
    [] l.kernel = "SCL_REDUCE_1"            -> ReduceFirstCode(l, g, i)
    [] l.kernel = "SCL_REDUCE_2"            -> ReduceSecondCode(l, i, p)
    [] l.kernel = "SCL_MAPOVERLAP"          -> OverlapCode(l, g, i, p)
    [] l.kernel = "SCL_ALLPAIRS"            -> AllPairsCode(l, g, i, p)
    [] l.kernel = "SCL_ALLPAIRS, general"   -> AllPairsGeneralCode(l, g, i)
    [] l.kernel = "SCL_MAP"                 -> MapCode(l, g, i)
    [] l.kernel = "SCL_ZIP"                 -> ZipCode(l, g, i)

OnePhase(l) ==
  l.kernel \in {"SCL_REDUCE_1", "SCL_ALLPAIRS, general", "SCL_MAP", "SCL_ZIP"}

Phases(l, g, i) ==
  CASE l.kernel = "SCL_SCAN"                -> ScanPhases(l)
    [] l.kernel = "SCL_UNIFORM_COMBINATION" -> CombinationPhases
    [] OnePhase(l)                          -> 1
    [] l.kernel = "SCL_REDUCE_2"            -> ReduceSecondPhases(l)
    [] l.kernel = "SCL_MAPOVERLAP"          -> OverlapPhases
    [] l.kernel = "SCL_ALLPAIRS"            -> AllPairsPhases(l, g, i)

\* Is there a barrier before phase p?
Barrier(l, p) ==
  CASE l.kernel = "SCL_SCAN"                -> ScanBarrier(l, p)
    [] l.kernel = "SCL_UNIFORM_COMBINATION" -> p > 0
    [] OnePhase(l)                          -> FALSE
    [] l.kernel = "SCL_REDUCE_2"            -> ReduceSecondBarrier(l, p)
    [] l.kernel = "SCL_MAPOVERLAP"          -> OverlapBarrier(p)
    [] l.kernel = "SCL_ALLPAIRS"            -> AllPairsBarrier(p)

-----------------------------------------------------------------------------
VARIABLES
  call,     \* the call being served, or None
  todo,     \* the launches left, the one that runs first
  mem,      \* mem[b][i]: element i of buffer b
  left,     \* the groups of the running launch that have not started
  running   \* running[g]: a resident group's local memory and its warps

vars == <<call, todo, mem, left, running>>

None == [skeleton |-> "none"]

Groups(launches) == IF launches = << >> THEN {} ELSE 0 .. Head(launches).groups - 1

Launch == Head(todo)

Warps == 0 .. (Launch.items - 1) \div call.warp

Items(w) == {i \in 0 .. Launch.items - 1 : i \div call.warp = w}

\* The phases of a warp: as many as the last of its items has.
End(g, w) == Max({Phases(Launch, g, i) : i \in Items(w)})

(***************************************************************************)
(* What warp w of group g does in phase p: the code of the items that have *)
(* not returned, and the cells that it writes and reads.                   *)
(***************************************************************************)
Fetch(g, w, p) ==
  LET codes == [i \in {i \in Items(w) : p < Phases(Launch, g, i)} |->
                  Code(Launch, g, i, p)]
  IN  [codes  |-> codes,
       writes |-> UNION {DOMAIN codes[i] : i \in DOMAIN codes},
       reads  |-> UNION {UNION {Range(codes[i][c]) : c \in DOMAIN codes[i]}
                          : i \in DOMAIN codes}]

\* A warp: the phase it is in and its code, and what it has loaded and not
\* stored yet.
NewGroup(g) ==
  [local |-> Fresh(Launch.local),
   phase |-> [w \in Warps |-> 0],
   end   |-> [w \in Warps |-> End(g, w)],
   now   |-> [w \in Warps |-> Fetch(g, w, 0)],
   held  |-> [w \in Warps |-> Nothing]]

Advanced(group, g, w) ==
  [group EXCEPT !.phase[w] = @ + 1, !.now[w] = Fetch(g, w, group.phase[w] + 1)]

Finished(g, w) == running[g].phase[w] = running[g].end[w]

Waiting(g, w) ==
  LET p == running[g].phase[w]
  IN  (\E x \in Warps : running[g].phase[x] < p) /\ Barrier(Launch, p)

\* The warp may execute its phase.
Active(g, w) == ~ Finished(g, w) /\ ~ Waiting(g, w)

\* Reading outside of a buffer gives anything.
ValueAt(g, cell) ==
  LET memory == IF cell[1] = Shared THEN running[g].local ELSE mem[cell[1]]
  IN  IF cell[2] \in DOMAIN memory THEN memory[cell[2]] ELSE JunkValue

Combined(g, cells) == FlattenSeq([k \in DOMAIN cells |-> ValueAt(g, cells[k])])

Overwrite(memory, cells, buffer) ==
  [i \in DOMAIN memory |->
     IF Cell(buffer, i) \in DOMAIN cells THEN cells[Cell(buffer, i)] ELSE memory[i]]

-----------------------------------------------------------------------------
Request(c) ==
  /\ call = None
  /\ Acceptable(c)
  /\ call' = c
  /\ todo' = Launches(c)
  /\ mem' = Buffers(c)
  /\ left' = Groups(todo')
  /\ UNCHANGED running

StartGroup(g) ==
  /\ g \in left
  /\ Cardinality(DOMAIN running) < Units
  /\ left' = left \ {g}
  /\ running' = Merged(running, At(g, NewGroup(g)))
  /\ UNCHANGED <<call, todo, mem>>

Load(g, w) ==
  /\ Active(g, w)
  /\ running[g].held[w] = Nothing
  /\ LET now == running[g].now[w]
     IN  /\ now.writes # {}
         /\ running' = [running EXCEPT ![g].held[w] =
              [c \in now.writes |->
                 Combined(g, now.codes[CHOOSE i \in DOMAIN now.codes :
                                         c \in DOMAIN now.codes[i]][c])]]
  /\ UNCHANGED <<call, todo, mem, left>>

Store(g, w) ==
  /\ running[g].held[w] # Nothing
  /\ LET held  == running[g].held[w]
         group == [running[g] EXCEPT !.local = Overwrite(@, held, Shared),
                                     !.held[w] = Nothing]
     IN  /\ mem' = [b \in DOMAIN mem |-> Overwrite(mem[b], held, b)]
         /\ running' = [running EXCEPT ![g] = Advanced(group, g, w)]
  /\ UNCHANGED <<call, todo, left>>

\* A phase in which no item of the warp has anything to do.
Pass(g, w) ==
  /\ Active(g, w)
  /\ running[g].now[w].writes = {}
  /\ running' = [running EXCEPT ![g] = Advanced(@, g, w)]
  /\ UNCHANGED <<call, todo, mem, left>>

EndGroup(g) ==
  /\ \A w \in Warps : Finished(g, w)
  /\ running' = Restrict(running, DOMAIN running \ {g})
  /\ UNCHANGED <<call, todo, mem, left>>

\* Mistake for NextLaunch: as many groups as the launch before had.
NextLaunch_SameGroups ==
  /\ todo # << >> /\ left = {} /\ running = << >>
  /\ todo' = Tail(todo)
  /\ left' = Groups(todo)
  /\ UNCHANGED <<call, mem, running>>

\* Mistake for NextLaunch: the last launch is repeated for ever.
NextLaunch_Forever ==
  /\ todo # << >> /\ left = {} /\ running = << >>
  /\ todo' = IF Len(todo) = 1 THEN todo ELSE Tail(todo)
  /\ left' = Groups(todo')
  /\ UNCHANGED <<call, mem, running>>

NextLaunch ==
  /\ todo # << >> /\ left = {} /\ running = << >>
  /\ todo' = Tail(todo)
  /\ left' = Groups(todo')
  /\ UNCHANGED <<call, mem, running>>

Return ==
  /\ call # None /\ todo = << >>
  /\ call' = None
  /\ mem' = << >>
  /\ UNCHANGED <<todo, left, running>>

-----------------------------------------------------------------------------
Init ==
  /\ call = None
  /\ todo = << >>
  /\ mem = << >>
  /\ left = {}
  /\ running = << >>

DeviceWorks ==
  \/ \E g \in left : StartGroup(g)
  \/ \E g \in DOMAIN running :
       \/ \E w \in Warps : Load(g, w) \/ Store(g, w) \/ Pass(g, w)
       \/ EndGroup(g)
  \/ NextLaunch
  \/ Return

Next == (\E c \in Requests : Request(c)) \/ DeviceWorks

(***************************************************************************)
(* A device with work in its queue executes it.                            *)
(***************************************************************************)
Spec == Init /\ [][Next]_vars /\ WF_vars(DeviceWorks)

-----------------------------------------------------------------------------
(***************************************************************************)
(* The groups that wait or run are those of the launch at the head of      *)
(* todo, and a warp is in a phase of that kernel.                          *)
(***************************************************************************)
TypeOK ==
  /\ call \in Requests \cup {None}
  /\ call = None => todo = << >>
  /\ DOMAIN running \cup left \subseteq Groups(todo)
  /\ DOMAIN running \cap left = {}
  /\ \A g \in DOMAIN running : \A w \in Warps :
       running[g].phase[w] \in 0 .. running[g].end[w]

(***************************************************************************)
(* No two warps access the same cell, one of them writing it, unless a     *)
(* barrier separates them: the barriers of the kernels suffice, and the    *)
(* groups, which nothing separates, do not share what they write.          *)
(***************************************************************************)
InReach(g, h, cells) == IF g = h THEN cells ELSE {c \in cells : c[1] # Shared}

NoRace ==
  LET active == {a \in UNION {{g} \X Warps : g \in DOMAIN running} : Active(a[1], a[2])}
      now(a) == running[a[1]].now[a[2]]
  IN  /\ \A a, b \in active : a # b =>
           InReach(a[1], b[1], now(a).writes) \cap (now(b).reads \cup now(b).writes) = {}
      /\ \A a \in active : \A i, j \in DOMAIN now(a).codes :
           \A c \in DOMAIN now(a).codes[i] \cap DOMAIN now(a).codes[j] :
             now(a).codes[i][c] = now(a).codes[j][c]

(***************************************************************************)
(* No kernel writes outside of its buffers, whatever the number of items   *)
(* is rounded up to.                                                       *)
(***************************************************************************)
StoresInBounds ==
  \A g \in DOMAIN running : \A w \in Warps : ~ Finished(g, w) =>
    \A c \in running[g].now[w].writes :
      c[2] \in DOMAIN (IF c[1] = Shared THEN running[g].local ELSE mem[c[1]])

(***************************************************************************)
(* The warps of a group meet at each barrier: a group that has not         *)
(* finished is never left with warps that only wait.                       *)
(***************************************************************************)
BarriersAreMet ==
  \A g \in DOMAIN running :
    (\A w \in Warps : Finished(g, w)) \/ (\E w \in Warps : Active(g, w))

Computed(skeleton) == call.skeleton = skeleton /\ todo = << >>

\* A combination of the inputs 1 .. n, each of them once, in some order.
CombinationOf(v, n) == Len(v) = n /\ Range(v) = 1 .. n

(***************************************************************************)
(* Scan: output[i] combines the inputs before i, each of them once.        *)
(***************************************************************************)
ScanIsPrefix ==
  Computed("scan") =>
    \A i \in 0 .. call.n - 1 : CombinationOf(mem[call.out][i], i)

(***************************************************************************)
(* Reduce: the result combines all inputs, each of them once.              *)
(***************************************************************************)
ReduceIsFold == Computed("reduce") => CombinationOf(mem[Out][0], call.n)

(***************************************************************************)
(* MapOverlap: the user function is applied to the neighbourhood of each   *)
(* element, padded beyond the first and the last column.                   *)
(***************************************************************************)
OverlapIsStencil ==
  Computed("overlap") =>
    \A r \in 0 .. call.rows - 1, c \in 0 .. call.cols - 1 :
      LET w == 2 * call.range + 1
          label(y, x) ==
            IF x \in 0 .. call.cols - 1 THEN y * call.cols + x + 1
            ELSE IF call.neutral THEN -1
            ELSE y * call.cols + (IF x < 0 THEN 1 ELSE call.cols)
      IN  mem[call.out][(r + call.range) * call.cols + c] =
            [k \in 1 .. w * w |->
               label(r + (k - 1) \div w, c + ((k - 1) % w) - call.range)]

(***************************************************************************)
(* AllPairs: output[r][c] is the reduction of the zip of row r and         *)
(* column c.                                                               *)
(***************************************************************************)
AllPairsIsProduct ==
  Computed("allpairs") =>
    \A r \in 0 .. call.height - 1, c \in 0 .. call.width - 1 :
      mem[Out][r * call.width + c] =
        FlattenSeq([k \in 1 .. call.dimension |->
          <<r * call.dimension + k, 100 + (k - 1) * call.width + c + 1>>])

(***************************************************************************)
(* Map and Zip: on each device, f(c[i]) for every i of the device's part   *)
(* and no other, whether c[i] is stored or is the index, or point, i of    *)
(* the whole container.                                                    *)
(***************************************************************************)
MapIsPointwise ==
  Computed("map") =>
    LET part  == call.parts[call.device] * call.cols
        from  == IF call.form \in {"indices, no result", "points, no result"}
                 THEN call.first * call.cols ELSE 0
        width == CeilToMultipleOf(call.cols, call.side)
        label(k) == IF OfElements(call) THEN k + 1
                    ELSE IF OfIndices(call) THEN call.first + k + 1
                    ELSE (call.first + k \div call.cols) * width + (k % call.cols) + 1
    IN  \A k \in DOMAIN mem[Out] :
          mem[Out][k] = IF k - from \in 0 .. part - 1 THEN <<label(k - from)>> ELSE JunkValue

(***************************************************************************)
(* Zip: f(left[i], right[i]) for every i, also if the output is an operand.*)
(***************************************************************************)
ZipIsPointwise ==
  Computed("zip") =>
    \A k \in 0 .. call.n - 1 : mem[call.out][k] = <<k + 1, 100 + k + 1>>

(***************************************************************************)
(* Every call is done at some time.                                        *)
(***************************************************************************)
CallsComplete == (call # None) ~> (call = None)
=============================================================================
