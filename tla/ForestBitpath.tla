---------------------------- MODULE ForestBitpath ----------------------------
(***************************************************************************)
(* bitpath_t (adobe/forest_bitpath.hpp): the way from the first node of a  *)
(* forest to another as bits, one for each move to a first child or to a   *)
(* next sibling, the last move lowest, under a bit that marks the top.     *)
(*                                                                         *)
(* A forest is the sequence of edges that its full-order iterators visit;  *)
(* a node is the position of its leading edge.  The edges of the root are  *)
(* at 0 and after the end.                                                 *)
(***************************************************************************)
EXTENDS Naturals, Sequences, SequencesExt, FiniteSetsExt

CONSTANTS MaxNodes,        \* bound of the model: nodes of a forest
          bits_per_block   \* of a path that is exported; 8 in the code

ASSUME BitpathAssumption == MaxNodes \in Nat \ {0} /\ bits_per_block \in Nat \ {0}

VARIABLES edges,   \* the forest
          node,    \* where the client is
          path     \* the path it keeps
bitpath_vars == <<edges, node, path>>

------------------------------------------------------------------------------
(* Forests (adobe/forest.hpp, of the Adobe Source Library) *)

Opened(f, i, j) == Cardinality({k \in i..j : f[k] = "leading"})
Closed(f, i, j) == (j + 1 - i) - Opened(f, i, j)
Forests ==
    UNION {{f \in [1..2 * n -> {"leading", "trailing"}] :
               /\ Opened(f, 1, 2 * n) = n
               /\ \A j \in 1..2 * n : Opened(f, 1, j) >= Closed(f, 1, j)} : n \in 1..MaxNodes}

edge(f, i) == IF i = 0 THEN "leading" ELSE IF i > Len(f) THEN "trailing" ELSE f[i]
Nodes(f) == {i \in 1..Len(f) : f[i] = "leading"}
trailing_of(f, i) ==
    IF edge(f, i) = "trailing" THEN i
    ELSE Min({j \in i + 1..Len(f) : Opened(f, i, j) = Closed(f, i, j)})
leading_of(f, i) == CHOOSE n \in Nodes(f) : i \in {n, trailing_of(f, n)}

has_children(f, n) == edge(f, n + 1) = "leading"
has_next_sibling(f, n) == edge(f, trailing_of(f, n) + 1) = "leading"

------------------------------------------------------------------------------
(* Paths: the first is the lowest bit *)

no_path == <<>>
first_bitpath == <<1>>
valid(p) == p # no_path /\ Last(p) = 1

push(p, bit) == <<bit>> \o p
pop(p) == Tail(p)

first_child_of(p) == push(p, 0)
next_sibling_of(p) == push(p, 1)

\* Pops up to the first bit of the kind.  Wrong for the parent: stops at a sibling.
Popped(p, bit) ==
    IF \E i \in DOMAIN p : p[i] = bit
    THEN SubSeq(p, Min({i \in DOMAIN p : p[i] = bit}) + 1, Len(p)) ELSE no_path
parent_of_sibling(p) == Popped(p, 1)
parent_of(p) == Popped(p, 0)
prior_sibling_of(p) == Popped(p, 1)

\* bitpath_t(node, root): backwards from edge to edge.
Moves(f, n) ==
    LET moves[m \in Nodes(f)] ==
            IF m = 1 THEN <<>>
            ELSE push(moves[leading_of(f, m - 1)], IF edge(f, m - 1) = "trailing" THEN 1 ELSE 0)
    IN  moves[n]
bitpath_t(f, n) == Append(Moves(f, n), 1)

\* traverse: from the top down; ends at the closest there is.
traverse(p, f) ==
    LET bits == Front(p)
        step(at, bit) == IF edge(f, at) = "trailing" THEN at
                         ELSE IF bit = 1 THEN trailing_of(f, at) + 1 ELSE at + 1
        reached[k \in 0..Len(bits)] ==
            IF k = 0 THEN 1 ELSE step(reached[k - 1], bits[Len(bits) + 1 - k])
    IN  reached[Len(bits)]

\* Wrong: the bits of the last moves are compared.
passes_through_low(p, candidate) ==
    /\ valid(p) /\ valid(candidate) /\ Len(candidate) <= Len(p)
    /\ \A i \in DOMAIN candidate : p[i] = candidate[i]

passes_through(p, candidate) ==
    /\ valid(p) /\ valid(candidate) /\ Len(candidate) <= Len(p)
    /\ \A i \in DOMAIN candidate : p[Len(p) - Len(candidate) + i] = candidate[i]

\* portable: whole blocks, the last filled up with zeros.
portable(p) ==
    [b \in 1..(Len(p) + bits_per_block - 1) \div bits_per_block |->
        [i \in 1..bits_per_block |->
            LET k == (b - 1) * bits_per_block + i IN IF k <= Len(p) THEN p[k] ELSE 0]]

\* A path of no ones keeps its lowest bit.
clip_zero_fill(p) == SubSeq(p, 1, Max({1} \cup {i \in DOMAIN p : p[i] = 1}))
imported(blocks) == clip_zero_fill(FlattenSeq(blocks))

------------------------------------------------------------------------------
(* A client walks through the forest and keeps the path, as build_index_map *)
(* and find_index_parent of the test do.                                   *)

BitpathInit == edges \in Forests /\ node = 1 /\ path = first_bitpath

Walks(to, along) == node' = to /\ path' = along /\ UNCHANGED edges

to_first_child == has_children(edges, node) /\ Walks(node + 1, first_child_of(path))
to_next_sibling ==
    /\ has_next_sibling(edges, node)
    /\ Walks(trailing_of(edges, node) + 1, next_sibling_of(path))
to_prior_sibling ==
    /\ edge(edges, node - 1) = "trailing"
    /\ Walks(leading_of(edges, node - 1), prior_sibling_of(path))
to_parent ==
    LET ancestors == {n \in Nodes(edges) : n < node /\ trailing_of(edges, n) > node}
    IN  ancestors # {} /\ Walks(Max(ancestors), parent_of(path))

BitpathNext == to_first_child \/ to_next_sibling \/ to_prior_sibling \/ to_parent

BitpathSpec == BitpathInit /\ [][BitpathNext]_bitpath_vars

------------------------------------------------------------------------------
(* Properties *)

\* A path that is exported and imported is the same path.
PortableRoundTrip == imported(portable(path)) = path

\* Whatever moves are made, the path is the one bitpath_t makes of the node, traverse leads
\* back to it, and it can be exported and imported.
PathNamesNode ==
    path = bitpath_t(edges, node) /\ traverse(path, edges) = node /\ PortableRoundTrip

\* One passes through a node on the way to another if it is that one, one of its
\* ancestors, or a sibling before one of those.
OnTheWay(n, to) ==
    \/ n <= to /\ trailing_of(edges, n) >= to
    \/ \E a \in Nodes(edges) :
          /\ a <= to /\ trailing_of(edges, a) >= to /\ n < a
          /\ Opened(edges, 1, n - 1) - Closed(edges, 1, n - 1)
                 = Opened(edges, 1, a - 1) - Closed(edges, 1, a - 1)
          /\ \A k \in n..a - 1 : Opened(edges, n, k) >= Closed(edges, n, k)

\* passes_through says of two paths just that.
PassesThroughWay ==
    \A n \in Nodes(edges) : passes_through(path, bitpath_t(edges, n)) <=> OnTheWay(n, node)
===============================================================================
