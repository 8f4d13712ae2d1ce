--------------------------- MODULE VanitySearchMC ---------------------------
(***************************************************************************)
(* An instance of VanitySearch for TLC: an index space of three indexes.   *)
(***************************************************************************)
EXTENDS VanitySearch

MCIndexLimit == 3

MCIndex == 0 .. MCIndexLimit - 1

\* Searches that start inside and outside the space, that find too few, just
\* enough and too many matches, with and without an account in the way, an
\* index that cannot be derived, and a limit of attempts.
MCRequest ==
  {[start |-> 0, count |-> n, max |-> m, existing |-> e, matching |-> f,
    faulty |-> x, usable |-> TRUE] :
     n \in {1, 2}, m \in {1, 2, Unbounded}, e \in {{}, {1}},
     f \in {{2}, {0, 1}, MCIndex}, x \in {{}, {1}}}
  \cup
  {[start |-> s, count |-> 1, max |-> 1, existing |-> {}, matching |-> {0},
    faulty |-> {}, usable |-> u] : s \in {0, 1, MCIndexLimit}, u \in BOOLEAN}
=============================================================================
