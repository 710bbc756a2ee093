---------------------------- MODULE MCAdaptation ----------------------------
(* Values of the constants of Adaptation for TLC. *)
EXTENDS Adaptation

AllSkeletons ==
  {"map", "map, no result", "indices", "indices, no result", "points", "points, no result",
   "zip", "zip, no result", "reduce", "scan", "overlap", "allpairs, general"}

\* A user's function with the parameters that the skeleton's data goes to, and more.
User(name, s, additional, calls) ==
  Function(name, SubSeq(<<Parameter("e1", "scalar"), Parameter("e2", "scalar"),
                          Parameter("e3", "scalar")>>, 1, Leading(s)) \o additional, calls)

S(name) == Parameter(name, "scalar")
B(name) == Parameter(name, "buffer")
M(name) == Parameter(name, "matrix")

\* Up to three additional parameters; one has a name that kernels use.
Lists ==
  {<< >>, <<S("x")>>, <<B("x")>>, <<M("x")>>, <<S("x"), M("y")>>, <<M("x"), B("y")>>,
   <<M("x"), M("y")>>, <<M("x"), S("y"), M("z")>>, <<S("i")>>, <<S("x"), B("width")>>}

Helper(name) == Function(name, <<S("v"), S("w")>>, {})

\* Who calls the function: nobody; another function, with expressions or with variables.
Caller(f, s, n, arg) ==
  Function("caller", <<S("v"), S("w")>>, {Call(f, [k \in 1 .. Leading(s) + n |-> arg])})

Bodies(name, s, l) ==
  {<<User(name, s, l, {})>>,
   <<Helper("help"), User(name, s, l, {Call("help", <<"e1", Expression>>)})>>}
    \cup {<<User(name, s, l, {}), Caller(name, s, Len(l), arg)>> : arg \in {Expression, "v"}}

Request(s, bodies, names) == [skeleton |-> s, sources |-> bodies, names |-> names]

Simple ==
  UNION {{Request(s, <<b>>, <<"f">>) : b \in Bodies("f", s, l)} : s \in AllSkeletons, l \in Lists}

\* Two functions, of one name or two, with helpers or without.
Pairs ==
  UNION {{Request("allpairs", <<<<User("f", "allpairs", l, {})>>, b>>, <<"f", g>>) :
           b \in Bodies(g, "allpairs", k)} :
         g \in {"f", "g"}, l \in {<< >>, <<S("s")>>, <<M("x")>>},
         k \in {<< >>, <<S("x")>>, <<M("y"), B("z")>>}}
    \cup {Request("allpairs", <<b, b>>, <<"f", "f">>) : b \in Bodies("f", "allpairs", << >>)}

MCRequests == Simple \cup Pairs
=============================================================================
