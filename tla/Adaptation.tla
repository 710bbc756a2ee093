----------------------------- MODULE Adaptation -----------------------------
(***************************************************************************)
(* How a skeleton makes an OpenCL program of a user's function.  It puts   *)
(* the user's source before its own, whose kernels call the function by a  *)
(* placeholder's name and with the skeleton's arguments only.  Then the    *)
(* source is rewritten, one pass over the parsed text after the other: the *)
(* function's additional parameters are appended to the kernels, matrices  *)
(* among them are taken apart (a kernel cannot have a struct of a buffer   *)
(* as parameter), the arguments are appended to the calls, the function is *)
(* renamed, the element types are filled in.  Later the host sets the      *)
(* kernel's arguments by position.                                         *)
(*                                                                         *)
(* A program is a sequence of functions and its element types.  Of a body  *)
(* only the calls and the variables' names are kept; of an argument only   *)
(* whether it is a plain variable, and which.                              *)
(***************************************************************************)
EXTENDS Integers, Sequences, SequencesExt

CONSTANTS
  Requests,   \* bound: the skeletons that are created
  Tolerated   \* the conditions below that the requests need not satisfy

(***************************************************************************)
(* When the programs are right; neither code nor documentation asks for it.*)
(*   fresh        no additional parameter has a name the skeleton uses in  *)
(*                its kernels, or another additional parameter's           *)
(*   expressions  who calls the user's function in the user's source does  *)
(*                not pass it a plain variable                             *)
(*   oneName      AllPairs: the functions to reduce and zip have one name  *)
(*   noHelpers    AllPairs: the two sources do not both define a helper    *)
(*   scanAlone    Scan: the user's function has no additional parameters   *)
(***************************************************************************)
Condition == {"fresh", "expressions", "oneName", "noHelpers", "scanAlone"}

ASSUME ToleratedAssumption == Tolerated \subseteq Condition

Meets(condition, holds) == condition \in Tolerated \/ holds

-----------------------------------------------------------------------------
(***************************************************************************)
(* Functions.                                                              *)
(***************************************************************************)
Expression == "(expression)"   \* an argument that is not a plain variable

Parameter(name, type) == [name |-> name, type |-> type, part |-> "all"]

Call(callee, args) == [callee |-> callee, args |-> args]

Function(name, params, calls) ==
  [name |-> name, kernel |-> FALSE, params |-> params, locals |-> {}, calls |-> calls]

\* A kernel, with its own parameters and local variables.
KernelFunction(name, params, locals, calls) ==
  [name |-> name, kernel |-> TRUE, locals |-> locals, calls |-> calls,
   params |-> [i \in DOMAIN params |-> Parameter(params[i], "own")]]

Rest(f, start) == SubSeq(f.params, start + 1, Len(f.params))

Names(params) == [i \in DOMAIN params |-> params[i].name]

\* The last declaration that matches is the one that is remembered.
Extracted(P, from, start) ==
  LET f == SelectLastInSeq(P, LAMBDA g : g.name = from)
  IN  IF f = 0 THEN << >> ELSE Rest(P[f], start)

-----------------------------------------------------------------------------
(***************************************************************************)
(* The passes.                                                             *)
(***************************************************************************)
TransferParameters(P, from, start, to) ==
  LET parameter == Extracted(P, from, start)
  IN  [i \in DOMAIN P |->
        IF P[i].name = to THEN [P[i] EXCEPT !.params = @ \o parameter] ELSE P[i]]

\* Mistake for RewriteParameter: the number of columns comes first.
RewriteParameter_Swapped(p) ==
  IF p.type = "matrix"
  THEN <<[p EXCEPT !.part = "col_count", !.type = "scalar"],
         [p EXCEPT !.part = "data", !.type = "buffer"]>>
  ELSE <<p>>

RewriteParameter(p) ==
  IF p.type = "matrix"
  THEN <<[p EXCEPT !.part = "data", !.type = "buffer"],
         [p EXCEPT !.part = "col_count", !.type = "scalar"]>>
  ELSE <<p>>

Matrices(params) == {p.name : p \in {q \in ToSet(params) : q.type = "matrix"}}

FixKernelParameter(P, kernel) ==
  [i \in DOMAIN P |->
    IF P[i].name = kernel /\ P[i].kernel
    THEN [P[i] EXCEPT
           !.params = FlattenSeq([k \in DOMAIN @ |-> RewriteParameter(@[k])]),
           !.locals = @ \cup Matrices(P[i].params)]
    ELSE P[i]]

\* Mistake for TransferArguments: all calls are taken for calls of the function.
TransferArguments_ToAll(P, from, start, to) ==
  LET arguments == Names(Extracted(P, from, start))
      extended(c) == [c EXCEPT !.args = @ \o arguments]
  IN  [i \in DOMAIN P |-> [P[i] EXCEPT !.calls = {extended(c) : c \in @}]]

\* A function that is called and not declared is declared by its first call.
TransferArguments(P, from, start, to) ==
  LET arguments == Names(Extracted(P, from, start))
      extended(c) == IF c.callee = to THEN [c EXCEPT !.args = @ \o arguments] ELSE c
  IN  [i \in DOMAIN P |-> [P[i] EXCEPT !.calls = {extended(c) : c \in @}]]

\* In a call all plain variables are taken for the function's name.
RenameFunction(P, from, to) ==
  LET plain(args)  == [k \in DOMAIN args |-> IF args[k] = Expression THEN Expression ELSE to]
      renamed(c)   == IF c.callee = from THEN Call(to, plain(c.args)) ELSE c
      declared(n)  == IF n = from THEN to ELSE n
  IN  [i \in DOMAIN P |->
        [P[i] EXCEPT !.name = declared(@), !.calls = {renamed(c) : c \in @}]]

RedefineTypedef(types, i, newType) == [k \in DOMAIN types |-> IF k = i THEN newType ELSE types[k]]

-----------------------------------------------------------------------------
(***************************************************************************)
(* The skeletons: their kernels, what the kernels call the user's function,*)
(* how many of its parameters the skeleton's data goes to, the position of *)
(* the first argument that the host sets for the user.                     *)
(***************************************************************************)
Zips == {"zip", "zip, no result"}

UserCall(args) == Call("SCL_FUNC", args)

MapKernel(s) ==
  LET kernel(params, locals, arg) ==
        <<KernelFunction("SCL_MAP", params, locals, {UserCall(<<arg>>)})>>
  IN
  CASE s = "map"                -> kernel(<<"SCL_IN", "SCL_OUT", "SCL_ELEMENTS">>, {}, Expression)
    [] s = "map, no result"     -> kernel(<<"SCL_IN", "SCL_ELEMENTS">>, {}, Expression)
    [] s = "indices" ->
         kernel(<<"SCL_OUT", "SCL_OUT_SIZE", "SCL_OFFSET">>, {}, Expression)
    [] s = "indices, no result" -> kernel(<<"SCL_ELEMENTS", "SCL_OFFSET">>, {}, Expression)
    [] s = "points" ->
         kernel(<<"SCL_OUT", "SCL_OUT_SIZE", "SCL_ROW_OFFSET", "SCL_COL_COUNT">>, {"p"}, "p")
    [] s = "points, no result" ->
         kernel(<<"SCL_COL_COUNT", "SCL_ROW_COUNT", "SCL_ROW_OFFSET">>, {"p"}, "p")

ZipKernel(s) ==
  <<KernelFunction("SCL_ZIP",
                   IF s = "zip" THEN <<"SCL_LEFT", "SCL_RIGHT", "SCL_OUT", "SCL_ELEMENTS">>
                   ELSE <<"SCL_LEFT", "SCL_RIGHT", "SCL_ELEMENTS">>,
                   {}, {UserCall(<<Expression, Expression>>)})>>

ReduceKernels ==
  <<KernelFunction("SCL_REDUCE_1", <<"SCL_IN", "SCL_OUT", "DATA_SIZE", "GLOBAL_SIZE">>,
                   {"my_pos", "modul", "res", "i"}, {UserCall(<<"res", Expression>>)}),
    KernelFunction("SCL_REDUCE_2",
                   <<"SCL_IN", "SCL_OUT", "LOCAL_BUF", "DATA_SIZE", "LOCAL_SIZE">>,
                   {"my_pos", "modul", "res", "i", "active"},
                   {UserCall(<<"res", Expression>>), UserCall(<<Expression, Expression>>)})>>

ScanKernels ==
  <<KernelFunction("SCL_SCAN",
                   <<"currentInput", "output", "localBuffer", "blockSums", "blockSumsSize">>,
                   {"gid", "tid", "bid", "lwz", "localBufferSize", "offset", "tid2_0",
                    "tid2_1", "gid2_0", "gid2_1", "d", "ai", "bi", "tmp"},
                   {UserCall(<<Expression, Expression>>), UserCall(<<Expression, "tmp">>)}),
    KernelFunction("SCL_UNIFORM_COMBINATION", <<"output", "blockSums", "outputSize">>,
                   {"gid", "tid", "blockId", "localBuffer"},
                   {UserCall(<<Expression, Expression>>)})>>

OverlapKernel ==
  <<KernelFunction("SCL_MAPOVERLAP",
                   <<"SCL_IN", "SCL_OUT", "SCL_SHARED", "SCL_ELEMENTS", "SCL_COLS">>,
                   {"col", "l_col", "row", "l_row", "Mm", "i", "m"},
                   {Call("USR_FUNC", <<"Mm">>)})>>

ProductParams == <<"M", "N", "P", "dimension", "height", "width">>

AllPairsKernel ==
  <<KernelFunction("SCL_ALLPAIRS", ProductParams,
                   {"Ml", "Nl", "col", "l_col", "row", "l_row", "m", "segment", "ii",
                    "roffset", "end", "i", "s", "result", "jj", "coffset", "j", "k"},
                   {Call("USR_REDUCE", <<"result", Expression>>),
                    Call("USR_ZIP", <<Expression, Expression>>)})>>

AllPairsGeneralKernel ==
  <<KernelFunction("SCL_ALLPAIRS", ProductParams, {"col", "row", "Mm", "Nm"},
                   {Call("USR_FUNC", <<Expression, Expression, "dimension">>)})>>

SkeletonSource(s) ==
  CASE s \in Zips               -> ZipKernel(s)
    [] s = "reduce"             -> ReduceKernels
    [] s = "scan"               -> ScanKernels
    [] s = "overlap"            -> OverlapKernel
    [] s = "allpairs"           -> AllPairsKernel
    [] s = "allpairs, general"  -> AllPairsGeneralKernel
    [] OTHER                    -> MapKernel(s)

Leading(s) ==
  CASE s = "allpairs, general" -> 3
    [] s \in Zips \cup {"reduce", "scan", "allpairs"} -> 2
    [] OTHER -> 1

Placeholder(s) == IF s \in {"overlap", "allpairs, general"} THEN "USR_FUNC" ELSE "SCL_FUNC"

\* The numbers of the element types.  All are float to begin with.
Typedefs(s) ==
  CASE s \in {"zip", "allpairs", "allpairs, general"} -> 0 .. 2
    [] s \in {"map", "zip, no result", "overlap"} -> 0 .. 1
    [] s \in {"indices, no result", "points, no result"} -> {}
    [] OTHER -> {0}

FirstArgument(s, kernel) ==
  CASE s \in {"map, no result", "indices, no result"} -> 2
    [] s \in {"map", "indices", "points, no result", "zip, no result"} -> 3
    [] s \in {"points", "zip"} \/ kernel = "SCL_REDUCE_1" -> 4
    [] s = "overlap" \/ kernel \in {"SCL_REDUCE_2", "SCL_SCAN"} -> 5
    [] kernel = "SCL_UNIFORM_COMBINATION" -> 3
    [] s \in {"allpairs", "allpairs, general"} -> 6

-----------------------------------------------------------------------------
(***************************************************************************)
(* The order of the passes.                                                *)
(***************************************************************************)
RenameSource(n, from, to)     == [op |-> "renameSource", source |-> n, from |-> from, to |-> to]
Join                          == [op |-> "join"]
Parameters(from, start, to)   == [op |-> "parameters", from |-> from, start |-> start, to |-> to]
Arguments(from, start, to)    == [op |-> "arguments", from |-> from, start |-> start, to |-> to]
Rename(from, to)              == [op |-> "rename", from |-> from, to |-> to]
RedefineType(i, newType)      == [op |-> "type", type |-> i, newType |-> newType]

\* The element types, in the order of the skeleton's template arguments.
Adjust(s) ==
  LET t == CASE s \in {"map", "overlap"} -> <<"Tin", "Tout">>
             [] s = "map, no result"     -> <<"Tin">>
             [] s \in {"indices", "points"} -> <<"Tout">>
             [] s = "zip, no result"     -> <<"Tleft", "Tright">>
             [] s \in {"zip", "allpairs", "allpairs, general"} -> <<"Tleft", "Tright", "Tout">>
             [] s \in {"reduce", "scan"} -> <<"T">>
             [] OTHER                    -> << >>
  IN  [k \in DOMAIN t |-> RedefineType(k - 1, t[k])]

\* Both sources are searched for the name of the function to reduce.
AllPairsPasses(r) ==
  <<RenameSource(1, r.names[1], "TMP_REDUCE"), RenameSource(2, r.names[1], "TMP_ZIP"), Join,
    Parameters("TMP_REDUCE", 2, "SCL_ALLPAIRS"), Arguments("TMP_REDUCE", 2, "USR_REDUCE"),
    Parameters("TMP_ZIP", 2, "SCL_ALLPAIRS"), Arguments("TMP_ZIP", 2, "USR_ZIP"),
    Rename("TMP_REDUCE", "USR_REDUCE"), Rename("TMP_ZIP", "USR_ZIP")>> \o Adjust("allpairs")

\* Mistake for Extended: the second kernel of Reduce is forgotten.
Extended_Once(s) ==
  CASE s = "reduce"  -> <<"SCL_REDUCE_1">>
    [] s = "scan"    -> <<"SCL_SCAN">>
    [] s = "overlap" -> <<"SCL_MAPOVERLAP">>
    [] s = "allpairs, general" -> <<"SCL_ALLPAIRS">>
    [] s \in Zips    -> <<"SCL_ZIP">>
    [] OTHER         -> <<"SCL_MAP">>

\* The kernels whose parameters are appended to.
Extended(s) ==
  CASE s = "reduce"  -> <<"SCL_REDUCE_1", "SCL_REDUCE_2">>
    [] s = "scan"    -> <<"SCL_SCAN">>
    [] s = "overlap" -> <<"SCL_MAPOVERLAP">>
    [] s = "allpairs, general" -> <<"SCL_ALLPAIRS">>
    [] s \in Zips    -> <<"SCL_ZIP">>
    [] OTHER         -> <<"SCL_MAP">>

Passes(r) ==
  LET s == r.skeleton
      f == r.names[1]
      parameters == [k \in DOMAIN Extended(s) |-> Parameters(f, Leading(s), Extended(s)[k])]
  IN  IF s = "allpairs" THEN AllPairsPasses(r)
      ELSE <<Join>> \o parameters \o <<Arguments(f, Leading(s), Placeholder(s)),
                                       Rename(f, Placeholder(s))>> \o Adjust(s)

-----------------------------------------------------------------------------
(***************************************************************************)
(* A request: r.skeleton, the user's sources, the functions to use in them.*)
(***************************************************************************)
Used(r, n) ==
  r.sources[n][SelectLastInSeq(r.sources[n], LAMBDA f : f.name = r.names[n])]

AdditionalOf(r, n) == Rest(Used(r, n), Leading(r.skeleton))

AdditionalBefore(r, n) == FlattenSeq([m \in 1 .. n - 1 |-> AdditionalOf(r, m)])

\* What the host passes in addition: AllPairs takes the arguments to reduce first.
Additional(r) == AdditionalBefore(r, Len(r.sources) + 1)

Fresh(r) ==
  /\ IsInjective(Names(Additional(r)))
  /\ \A K \in ToSet(SkeletonSource(r.skeleton)) :
       ToSet(Names(Additional(r))) \cap (K.locals \cup ToSet(Names(K.params))) = {}

PassesExpressions(r) ==
  \A n \in DOMAIN r.sources : \A f \in ToSet(r.sources[n]) : \A c \in f.calls :
    c.callee = r.names[n] => ToSet(c.args) \subseteq {Expression}

OneName(r) == \A n \in DOMAIN r.names : r.names[n] = r.names[1]

NoHelpers(r) ==
  \A m, n \in DOMAIN r.sources :
    m # n => {f.name : f \in ToSet(r.sources[m])} \cap {f.name : f \in ToSet(r.sources[n])}
               \subseteq {r.names[m]}

Acceptable(r) ==
  /\ Meets("fresh", Fresh(r))
  /\ Meets("expressions", PassesExpressions(r))
  /\ Meets("oneName", OneName(r))
  /\ Meets("noHelpers", NoHelpers(r))
  /\ Meets("scanAlone", r.skeleton = "scan" => Additional(r) = << >>)

-----------------------------------------------------------------------------
(***************************************************************************)
(* What a request is: the user's sources compile, by themselves and before *)
(* the skeleton's, whose names they leave alone, and define the functions  *)
(* to use with a parameter for each of the skeleton's arguments, at least. *)
(***************************************************************************)
Skeletons ==
  {"map", "map, no result", "indices", "indices, no result", "points", "points, no result",
   "zip", "zip, no result", "reduce", "scan", "overlap", "allpairs", "allpairs, general"}

KernelNames ==
  {"SCL_MAP", "SCL_ZIP", "SCL_REDUCE_1", "SCL_REDUCE_2", "SCL_SCAN",
   "SCL_UNIFORM_COMBINATION", "SCL_MAPOVERLAP", "SCL_ALLPAIRS"}

Placeholders == {"SCL_FUNC", "USR_FUNC", "USR_REDUCE", "USR_ZIP"}

\* The functions' names that the skeletons use.
Reserved == KernelNames \cup Placeholders \cup {"TMP_REDUCE", "TMP_ZIP"}

UserName == STRING \ Reserved

UserParameter == [name : STRING, type : {"scalar", "buffer", "matrix"}, part : {"all"}]

UserCode ==
  [name : UserName, kernel : {FALSE}, params : Seq(UserParameter), locals : {{}},
   calls : SUBSET [callee : UserName, args : Seq(STRING)]]

Compiles(P) ==
  /\ IsInjective(Names(P))
  /\ \A f \in ToSet(P) :
       /\ IsInjective(Names(f.params))
       /\ \A c \in f.calls :
            /\ ToSet(c.args) \subseteq ToSet(Names(f.params)) \cup {Expression}
            /\ \E g \in ToSet(P) : g.name = c.callee /\ Len(g.params) = Len(c.args)

IsRequest(r) ==
  /\ r.skeleton \in Skeletons
  /\ r.sources \in Seq(Seq(UserCode)) /\ r.names \in Seq(UserName)
  /\ Len(r.sources) = IF r.skeleton = "allpairs" THEN 2 ELSE 1
  /\ Len(r.names) = Len(r.sources)
  /\ \A n \in DOMAIN r.sources :
       /\ Compiles(r.sources[n])
       /\ \E f \in ToSet(r.sources[n]) :
            f.name = r.names[n] /\ Len(f.params) >= Leading(r.skeleton)

ASSUME RequestsAssumption == \A r \in Requests : IsRequest(r)

-----------------------------------------------------------------------------
VARIABLES
  request,   \* the skeleton being created, or None
  sources,   \* the user's sources, until they are joined with the skeleton's
  program,   \* the functions of the program
  types,     \* types[i]: what SCL_TYPE_i stands for
  todo,      \* the passes left
  set        \* set[k]: the arguments of kernel k, by position

vars == <<request, sources, program, types, todo, set>>

None == [skeleton |-> "none"]

Init ==
  /\ request = None /\ sources = << >> /\ program = << >>
  /\ types = << >> /\ todo = << >> /\ set = << >>

\* The constructor of a skeleton.
Create(r) ==
  /\ request = None /\ Acceptable(r)
  /\ request' = r /\ sources' = r.sources /\ todo' = Passes(r)
  /\ UNCHANGED <<program, types, set>>

Pass(op) == todo # << >> /\ Head(todo).op = op /\ todo' = Tail(todo)

RenameInSource(pass) ==
  /\ Pass("renameSource")
  /\ sources' = [sources EXCEPT ![pass.source] = RenameFunction(@, pass.from, pass.to)]
  /\ UNCHANGED <<request, program, types, set>>

JoinSources ==
  /\ Pass("join")
  /\ sources' = << >>
  /\ program' = FlattenSeq(sources) \o SkeletonSource(request.skeleton)
  /\ types' = [i \in Typedefs(request.skeleton) |-> "float"]
  /\ UNCHANGED <<request, set>>

AppendParameters(pass) ==
  /\ Pass("parameters")
  /\ program' = FixKernelParameter(
                  TransferParameters(program, pass.from, pass.start, pass.to), pass.to)
  /\ UNCHANGED <<request, sources, types, set>>

AppendArguments(pass) ==
  /\ Pass("arguments")
  /\ program' = TransferArguments(program, pass.from, pass.start, pass.to)
  /\ UNCHANGED <<request, sources, types, set>>

RenameUsed(pass) ==
  /\ Pass("rename")
  /\ program' = RenameFunction(program, pass.from, pass.to)
  /\ UNCHANGED <<request, sources, types, set>>

RedefineElementType(pass) ==
  /\ Pass("type")
  /\ types' = RedefineTypedef(types, pass.type, pass.newType)
  /\ UNCHANGED <<request, sources, program, set>>

\* The host sets the arguments of all kernels: its own, by number, and the user's
\* from the first one that is left.  A matrix takes two numbers.  Scan has nothing
\* to set for the user.
Set(argument, part) == [argument |-> argument, part |-> part]

SetArguments(r, kernel) ==
  LET args   == Additional(r)
      one(k) == IF args[k].type = "matrix" THEN <<Set(k, "data"), Set(k, "col_count")>>
                ELSE <<Set(k, "all")>>
  IN  [i \in 1 .. FirstArgument(r.skeleton, kernel) |-> Set(0, "all")]
        \o IF r.skeleton = "scan" THEN << >> ELSE FlattenSeq([k \in DOMAIN args |-> one(k)])

Adapted == request # None /\ todo = << >>

\* A call of the skeleton, or another one.
SetKernelArgs ==
  /\ Adapted
  /\ set' = [k \in {f.name : f \in {g \in ToSet(program) : g.kernel}} |->
              SetArguments(request, k)]
  /\ UNCHANGED <<request, sources, program, types, todo>>

Next ==
  \/ \E r \in Requests : Create(r)
  \/ JoinSources
  \/ SetKernelArgs
  \/ /\ todo # << >>
     /\ \/ RenameInSource(Head(todo))
        \/ AppendParameters(Head(todo))
        \/ AppendArguments(Head(todo))
        \/ RenameUsed(Head(todo))
        \/ RedefineElementType(Head(todo))

Spec == Init /\ [][Next]_vars

-----------------------------------------------------------------------------
(***************************************************************************)
(* Properties.                                                             *)
(***************************************************************************)
Visible(f) == f.locals \cup {p.name : p \in {q \in ToSet(f.params) : q.part = "all"}}

FunctionOK(f) ==
  /\ \A i, j \in DOMAIN f.params :
       f.params[i].name = f.params[j].name /\ f.params[i].part = f.params[j].part => i = j
  /\ \A p \in ToSet(f.params) : p.part = "all" => p.name \notin f.locals
  /\ f.kernel => \A p \in ToSet(f.params) : p.type # "matrix"
  /\ \A c \in f.calls :
       /\ ToSet(c.args) \subseteq Visible(f) \cup {Expression}
       /\ \E i \in DOMAIN program :
            program[i].name = c.callee /\ Len(program[i].params) = Len(c.args)

(***************************************************************************)
(* The OpenCL compiler accepts what the passes made: there is one function *)
(* of each name, its parameters and variables have different names, every  *)
(* call names a function and gives it as many arguments as it takes, from  *)
(* variables the caller has; no kernel takes a struct; all element types   *)
(* are filled in.                                                          *)
(***************************************************************************)
WellFormed ==
  Adapted => /\ IsInjective(Names(program))
             /\ \A f \in ToSet(program) : FunctionOK(f)
             /\ \A i \in DOMAIN types : types[i] # "float"

(***************************************************************************)
(* The user's functions are the ones that were given, with other names for *)
(* the ones the skeleton uses: no pass touches what the user computes.     *)
(***************************************************************************)
NewName(r, n, name) ==
  IF name # r.names[n] THEN name
  ELSE IF r.skeleton # "allpairs" THEN Placeholder(r.skeleton)
  ELSE <<"USR_REDUCE", "USR_ZIP">>[n]

UserFunctions(r, n) ==
  [i \in DOMAIN r.sources[n] |->
    [r.sources[n][i] EXCEPT
      !.name  = NewName(r, n, @),
      !.calls = {Call(NewName(r, n, c.callee), c.args) : c \in @}]]

UserCodeKept ==
  Adapted =>
    LET user == FlattenSeq([n \in DOMAIN request.sources |-> UserFunctions(request, n)])
    IN  /\ SubSeq(program, 1, Len(user)) = user
        /\ \A i \in Len(user) + 1 .. Len(program) : program[i].kernel

Origins(K, x) == {set[K.name][i] : i \in {j \in DOMAIN K.params : K.params[j].name = x}}

Parts(ps) == [i \in DOMAIN ps |-> ps[i].part]

(***************************************************************************)
(* What the host passes reaches the user's function: of a call in a        *)
(* kernel, an additional argument is a variable whose value comes from the *)
(* positions at which the host sets that very argument, and the host sets  *)
(* all of the kernel's parameters, no more and no fewer.                   *)
(***************************************************************************)
ArgumentsArrive ==
  \A K \in {f \in ToSet(program) : f.kernel /\ f.name \in DOMAIN set} :
    /\ Parts(K.params) = Parts(set[K.name])
    /\ \A n \in DOMAIN request.sources :
       \A c \in {d \in K.calls : d.callee = NewName(request, n, request.names[n])} :
       \A k \in DOMAIN AdditionalOf(request, n) :
         LET argument == Len(AdditionalBefore(request, n)) + k
             parts == IF AdditionalOf(request, n)[k].type = "matrix" THEN {"data", "col_count"}
                      ELSE {"all"}
         IN  Origins(K, c.args[Leading(request.skeleton) + k]) = {Set(argument, p) : p \in parts}
=============================================================================
