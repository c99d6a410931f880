--------------------------- MODULE LayoutFormatter ---------------------------
(***************************************************************************)
(* disassemble_layout and assemble_layout (source/layout_formatter.cpp):   *)
(* a layout is parsed to a forest of views and a list of cells, and these  *)
(* are printed as a layout.                                                *)
(*                                                                         *)
(* The forest is the sequence of its nodes in preorder, each with its      *)
(* depth.  A view's name and parameters and a cell's name and value are    *)
(* its place; their text is ExpressionFormatter's.                         *)
(***************************************************************************)
EXTENDS Naturals, Sequences, SequencesExt, FiniteSetsExt

CONSTANTS Layouts   \* what is read: [cells, views]

VARIABLES layout,            \* what is read
          cell_set_m, node_forest_m,   \* of eve_node_forest_t
          printed,           \* how many of the cells are printed
          last_type,
          first,             \* the edge the iterator is at: [node, leading]
          out_m              \* what is printed
layout_vars == <<layout, cell_set_m, node_forest_m, printed, last_type, first, out_m>>

------------------------------------------------------------------------------
(* Disassembly: the parser calls back with cells, then with views *)

Init ==
    /\ layout \in Layouts
    /\ cell_set_m = <<>> /\ node_forest_m = <<>>
    /\ printed = 0 /\ last_type = "" /\ out_m = <<>> /\ first = [node |-> 1, leading |-> TRUE]

add_cell ==
    /\ Len(cell_set_m) < Len(layout.cells)
    /\ cell_set_m' = Append(cell_set_m, layout.cells[Len(cell_set_m) + 1])
    /\ UNCHANGED <<layout, node_forest_m, printed, last_type, first, out_m>>

\* The views below a node are the deeper ones that follow it at once.
Subtree_end(views, n) ==
    Max({m \in n..Len(views) : \A k \in n + 1..m : views[k].depth > views[n].depth})
has_children(n) == Subtree_end(node_forest_m, n) > n
Parent(views, n) ==
    Max({0} \cup {m \in 1..n - 1 : views[m].depth < views[n].depth})

\* Inserted after the last child of the parent.
add_view ==
    /\ cell_set_m = layout.cells /\ Len(node_forest_m) < Len(layout.views)
    /\ LET n == Len(node_forest_m) + 1
           parent == Parent(layout.views, n)
           at == IF parent = 0 THEN n ELSE Subtree_end(node_forest_m, parent) + 1
       IN  node_forest_m' = InsertAt(node_forest_m, at, layout.views[n])
    /\ UNCHANGED <<layout, cell_set_m, printed, last_type, first, out_m>>

------------------------------------------------------------------------------
(* Assembly *)

Parsed == cell_set_m = layout.cells /\ Len(node_forest_m) = Len(layout.views)
If(there, symbol) == IF there THEN <<symbol>> ELSE <<>>

stream_out_cell_set ==
    /\ Parsed /\ printed < Len(cell_set_m)
    /\ LET c == cell_set_m[printed + 1]
       IN  /\ out_m' = out_m \o If(c.type # last_type, c.type) \o If(c.detailed, "/*")
                           \o <<"cell">> \o If(c.brief, "//")
           /\ last_type' = c.type
    /\ printed' = printed + 1
    /\ UNCHANGED <<layout, cell_set_m, node_forest_m, first>>

Walks(node, leading) == first' = [node |-> node, leading |-> leading]
At_edge(leading) ==
    /\ Parsed /\ printed = Len(cell_set_m)
    /\ first.node \in DOMAIN node_forest_m /\ first.leading = leading
    /\ UNCHANGED <<layout, cell_set_m, node_forest_m, printed, last_type>>

stream_out_leading ==
    /\ At_edge(TRUE)
    /\ LET n == first.node
           v == node_forest_m[n]
           opened == IF has_children(n) THEN If(v.brief, "//") \o <<"{">>
                     ELSE <<";">> \o If(v.brief, "//")
       IN  /\ out_m' = out_m \o If(v.detailed, "/*") \o <<"view">> \o opened
           /\ IF has_children(n) THEN Walks(n + 1, TRUE) ELSE Walks(n, FALSE)

\* To the next sibling, or the end of the parent.
Goes_on(n) ==
    LET next == Subtree_end(node_forest_m, n) + 1
    IN  IF next \in DOMAIN node_forest_m /\ node_forest_m[next].depth = node_forest_m[n].depth
        THEN Walks(next, TRUE) ELSE Walks(Parent(node_forest_m, n), FALSE)

\* Wrong: closed where the next view is a sibling only.
stream_out_trailing_last ==
    /\ At_edge(FALSE)
    /\ Goes_on(first.node)
    /\ out_m' = out_m \o If(has_children(first.node) /\ first'.leading, "}")

stream_out_trailing ==
    /\ At_edge(FALSE)
    /\ out_m' = out_m \o If(has_children(first.node), "}")
    /\ Goes_on(first.node)

LayoutNext == add_cell \/ add_view \/ stream_out_cell_set \/ stream_out_leading \/ stream_out_trailing

------------------------------------------------------------------------------
(* The grammar of layouts, of the Adobe Source Library *)

Nothing_read == [cells |-> <<>>, views |-> <<>>, section |-> "", depth |-> 0,
                 detailed |-> FALSE, before |-> "", fails |-> FALSE]
\* A view is followed by a semicolon or the views in it, and each by its comment.
Follows(symbol, before) ==
    CASE before = "view" -> symbol \in {";", "//", "{"}
      [] symbol \in {";", "{"} -> before = "//"
      [] symbol = "//" -> before \in {"cell", ";"}
      [] OTHER -> TRUE
ReadSymbol(r, symbol) ==
    LET item == [detailed |-> r.detailed, brief |-> FALSE]
        next == [r EXCEPT !.before = symbol, !.detailed = symbol = "/*",
                          !.fails = @ \/ ~Follows(symbol, r.before)]
    IN  CASE symbol = "cell" ->
               [next EXCEPT !.cells = Append(@, item @@ [type |-> r.section])]
          [] symbol = "view" ->
               [next EXCEPT !.views = Append(@, item @@ [depth |-> r.depth])]
          [] symbol = "//" /\ r.views = <<>> -> [next EXCEPT !.cells[Len(r.cells)].brief = TRUE]
          [] symbol = "//" -> [next EXCEPT !.views[Len(r.views)].brief = TRUE]
          [] symbol = "{" -> [next EXCEPT !.depth = @ + 1]
          [] symbol = "}" -> [next EXCEPT !.depth = @ - 1]
          [] symbol \in {";", "/*"} -> next
          [] OTHER -> [next EXCEPT !.section = symbol]
Read == FoldLeft(ReadSymbol, Nothing_read, out_m)

------------------------------------------------------------------------------
(* Property *)

\* A layout that was taken apart and put together again has the same cells in the
\* same sections, the same views inside each other, and the comments where they were.
LayoutReadsBack ==
    Parsed /\ printed = Len(cell_set_m) /\ first.node = 0 =>
        /\ [cells |-> Read.cells, views |-> Read.views] = layout
        /\ Read.depth = 0 /\ ~Read.fails
===============================================================================
