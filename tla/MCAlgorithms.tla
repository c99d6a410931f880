----------------------------- MODULE MCAlgorithms -----------------------------
(***************************************************************************)
(* Algorithms on data that others keep: paths through a forest, and the    *)
(* formatters of expressions, property models and layouts.  Each behaviour *)
(* is one part's: a walk, or one thing that is printed.  What is printed   *)
(* is everything that can be put together from a few pieces.  While        *)
(* something is printed the walk stays at the first node of a forest.      *)
(***************************************************************************)
EXTENDS ForestBitpath

VARIABLES part,
          expression, tokens, stack_m, callers,
          sheet, result_m, formatted, last_meta_cell_type_m, last_cell_type_m, out,
          layout, cell_set_m, node_forest_m, printed, last_type, first, out_m

formatter_vars == <<expression, tokens, stack_m, callers>>
sheet_vars == <<sheet, result_m, formatted, last_meta_cell_type_m, last_cell_type_m, out>>
layout_vars == <<layout, cell_set_m, node_forest_m, printed, last_type, first, out_m>>

\* Constants and operators, of no variables.
E == INSTANCE ExpressionFormatter WITH Expressions <- {}
A == INSTANCE SheetFormatter WITH Sheets <- {}

------------------------------------------------------------------------------
(* What is printed *)

UpTo(n, S) == UNION {[1..k -> S] : k \in 0..n}

\* Every operation over leaves, and over some operands that are operations.
Leaves == {E!Leaf(<<"1">>), E!Leaf(E!Name("a")), E!Variable("b")}
Over(operands, few) ==
    {E!Operation(".not", <<e>>) : e \in operands}
        \cup {E!Operation(op, pair) : op \in E!BinaryOps \cup {".index"}, pair \in operands \X operands}
        \cup {E!Operation(".ifelse", three) : three \in few \X few \X few}
        \cup {E!Operation(op, list) : op \in {".array", ".function", ".dictionary"},
                                      list \in UpTo(2, few) \cup UpTo(1, operands)}
Simple == Over(Leaves, {E!Leaf(<<"1">>)})
b == E!Variable("b")
a == E!Leaf(E!Name("a"))
sum == E!Operation(".add", <<b, b>>)
call == E!Operation(".function", <<b>>)
both == E!Operation(".and", <<b, b>>)
Few == {E!Leaf(<<"1">>), a, E!Operation(".not", <<b>>), sum, call, both,
        E!Operation(".add", <<sum, sum>>), E!Operation(".add", <<sum, call>>),
        E!Operation(".or", <<both, both>>),
        E!Operation(".index", <<a, b>>), E!Operation(".index", <<b, a>>),
        E!Operation(".ifelse", <<b, b, b>>), E!Operation(".ifelse", <<sum, b, call>>)}
MCExpressions == Leaves \cup Simple \cup Over(Leaves \cup Simple \cup Few, Few)

\* Up to three declarations, of every kind, with and without comments.
Plain == [detailed |-> FALSE, brief |-> FALSE]
Commented == [detailed |-> TRUE, brief |-> TRUE]
Both == {Plain, Commented}
Relate(conditional, set, c) ==
    [A!Declares("relation", FALSE, FALSE, c) EXCEPT !.conditional = conditional, !.relation_set = set]
Declarations ==
    {A!Declares("input", i, FALSE, c) : i \in BOOLEAN, c \in Both}
        \cup {A!Declares("constant", TRUE, FALSE, c) : c \in Both}
        \cup {A!Declares(k, FALSE, TRUE, c) : k \in A!Defined, c \in Both}
        \cup {[A!Declares("interface", i, e, Plain) EXCEPT !.linked = l] :
                  i \in BOOLEAN, e \in BOOLEAN, l \in BOOLEAN}
        \cup {A!Declares("interface", TRUE, FALSE, Commented)}
        \cup {Relate(w, <<Plain>>, Plain) : w \in BOOLEAN}
        \cup {Relate(FALSE, <<Plain, Commented>>, Commented)}
MCSheets == UpTo(3, Declarations)

\* Up to three cells, and up to four views in every shape.
Cells == [type : {"interface", "constant"}, detailed : BOOLEAN, brief : BOOLEAN]
Views ==
    UNION {{v \in [1..n -> [depth : 0..n - 1, detailed : BOOLEAN, brief : BOOLEAN]] :
               v[1].depth = 0 /\ \A k \in 2..n : v[k].depth \in 1..v[k - 1].depth + 1} : n \in 1..3}
FourPlain ==
    {v \in [1..4 -> [depth : 0..3, detailed : {FALSE}, brief : {FALSE}]] :
        v[1].depth = 0 /\ \A k \in 2..4 : v[k].depth \in 1..v[k - 1].depth + 1}
SomeView == <<[depth |-> 0, detailed |-> FALSE, brief |-> TRUE]>>
MCLayouts ==
    [cells : UpTo(1, Cells), views : Views \cup FourPlain]
        \cup [cells : UpTo(3, Cells), views : {SomeView}]

------------------------------------------------------------------------------

F == INSTANCE ExpressionFormatter WITH Expressions <- MCExpressions
P == INSTANCE SheetFormatter WITH Sheets <- MCSheets
L == INSTANCE LayoutFormatter WITH Layouts <- MCLayouts

NoWalk == edges = <<"leading", "trailing">> /\ node = 1 /\ path = first_bitpath
NoExpression == expression = <<>> /\ tokens = <<>> /\ stack_m = <<>> /\ callers = <<>>
NoSheet ==
    /\ sheet = <<>> /\ result_m = <<>> /\ formatted = 0 /\ out = <<>>
    /\ last_meta_cell_type_m = "" /\ last_cell_type_m = ""
NoLayout ==
    /\ layout = [cells |-> <<>>, views |-> <<>>] /\ cell_set_m = <<>> /\ node_forest_m = <<>>
    /\ printed = 0 /\ last_type = "" /\ first = [node |-> 0, leading |-> TRUE] /\ out_m = <<>>

Init ==
    \/ part = "bitpath" /\ BitpathInit /\ NoExpression /\ NoSheet /\ NoLayout
    \/ part = "expression" /\ F!Init /\ NoWalk /\ NoSheet /\ NoLayout
    \/ part = "sheet" /\ P!Init /\ NoWalk /\ NoExpression /\ NoLayout
    \/ part = "layout" /\ L!Init /\ NoWalk /\ NoExpression /\ NoSheet

Next ==
    /\ part' = part
    /\ \/ part = "bitpath" /\ BitpathNext /\ UNCHANGED <<formatter_vars, sheet_vars, layout_vars>>
       \/ part = "expression" /\ F!FormatterNext /\ UNCHANGED <<bitpath_vars, sheet_vars, layout_vars>>
       \/ part = "sheet" /\ P!SheetNext /\ UNCHANGED <<bitpath_vars, formatter_vars, layout_vars>>
       \/ part = "layout" /\ L!LayoutNext /\ UNCHANGED <<bitpath_vars, formatter_vars, sheet_vars>>

Spec == Init /\ [][Next]_<<part, bitpath_vars, formatter_vars, sheet_vars, layout_vars>>

\* expression_formatter_t: what is printed reads as the expression it was printed from,
\* but for the misprints that are named.
ReadsBack == part = "expression" => F!ReadsBack

\* assemble_sheet and assemble_layout: what is taken apart and put together again reads
\* as what it was.
AssembledReadsBack == (part = "sheet" => P!SheetReadsBack) /\ (part = "layout" => L!LayoutReadsBack)
===============================================================================
