----------------------------- MODULE Containers -----------------------------
(***************************************************************************)
(* What the library promises: a Vector is one sequence of elements.  There *)
(* are no devices, no copies, no distributions and no commands in flight;  *)
(* every call takes effect at once and concerns only the vectors it names. *)
(*                                                                         *)
(* Each operator gives what all vectors hold after a call, from what they  *)
(* held before, c.                                                         *)
(***************************************************************************)
EXTENDS Integers, SequencesExt

CONSTANTS Vector, Value, F(_), Ranges, Sizes, MaxSize

VARIABLE content   \* content[v]: the elements of v

Construct(c, v, s) == [c EXCEPT ![v] = s]

Assign(c, v, n, x) == [c EXCEPT ![v] = [i \in 1 .. n |-> x]]

Clear(c, v) == [c EXCEPT ![v] = << >>]

CopyTo(c, v, w) == [c EXCEPT ![w] = c[v]]

MoveTo(c, v, w) == [c EXCEPT ![w] = c[v], ![v] = << >>]

Swap(c, v, w) == [c EXCEPT ![v] = c[w], ![w] = c[v]]

Resize(c, v, n, x) ==
  [c EXCEPT ![v] = [i \in 1 .. n |-> IF i <= Len(@) THEN @[i] ELSE x]]

Insert(c, v, i, x) == [c EXCEPT ![v] = InsertAt(@, i, x)]

Erase(c, v, i) == [c EXCEPT ![v] = RemoveAt(@, i)]

Write(c, v, i, x) == [c EXCEPT ![v][i] = x]

\* f(c[i]) for every i of the input; what the output has beyond stays.
Map(c, out, in) ==
  [c EXCEPT ![out] = [i \in 1 .. Len(c[in]) |-> F(c[in][i])]
                       \o SubSeq(@, Len(c[in]) + 1, Len(@))]

After(c) ==
  UNION {{Clear(c, v)}
           \cup {Construct(c, v, s) : s \in Ranges}
           \cup {Assign(c, v, n, x) : n \in Sizes, x \in Value}
           \cup {Resize(c, v, n, x) : n \in Sizes, x \in Value}
           \cup {Insert(c, v, i, x) : i \in 1 .. Len(c[v]) + 1, x \in Value}
           \cup {Write(c, v, i, x) : i \in 1 .. Len(c[v]), x \in Value}
           \cup {Erase(c, v, i) : i \in 1 .. Len(c[v])}
           \cup UNION {{CopyTo(c, v, w), MoveTo(c, v, w), Swap(c, v, w), Map(c, v, w)}
                         : w \in Vector}
         : v \in Vector}

Init == content = [v \in Vector |-> << >>]

Next == \E c \in {content} : content' \in After(c)

Spec == Init /\ [][Next]_content
=============================================================================
