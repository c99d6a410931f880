---------------------------- MODULE SheetFormatter ----------------------------
(***************************************************************************)
(* disassemble_sheet and assemble_sheet                                    *)
(* (source/property_model_formatter.cpp): a property model is parsed to a  *)
(* list of dictionaries, one for each declaration, and these are printed   *)
(* as a property model.                                                    *)
(*                                                                         *)
(* A declaration's name is its place; its expressions are there or not,    *)
(* their text is ExpressionFormatter's.                                    *)
(***************************************************************************)
EXTENDS Naturals, Sequences, SequencesExt

CONSTANTS Sheets   \* the property models that are read, sequences of declarations

VARIABLES sheet,      \* the property model that is read
          result_m,   \* the dictionaries
          formatted,  \* how many of them are printed
          last_meta_cell_type_m, last_cell_type_m,   \* of adam_node_formatter_t
          out         \* what is printed: headings and statements
sheet_vars == <<sheet, result_m, formatted, last_meta_cell_type_m, last_cell_type_m, out>>

------------------------------------------------------------------------------
(* Declarations *)

Initialized == {"input", "constant"}
Defined == {"output", "logic", "invariant"}
CellTypes == Initialized \cup Defined

\* What stands before and after a declaration.
Comments == [detailed : BOOLEAN, brief : BOOLEAN]

\* A declaration of a kind; an expression is there (TRUE) or not.
Declares(kind, initializer, expression, comments) ==
    [kind |-> kind, initializer |-> initializer, expression |-> expression,
     linked |-> TRUE, conditional |-> FALSE, relation_set |-> <<>>, comments |-> comments]

------------------------------------------------------------------------------
(* Disassembly: what the parser calls back with each declaration *)

Init ==
    /\ sheet \in Sheets
    /\ result_m = <<>> /\ formatted = 0 /\ out = <<>>
    /\ last_meta_cell_type_m = "" /\ last_cell_type_m = ""

Comes(kinds, node(_)) ==
    /\ Len(result_m) < Len(sheet) /\ sheet[Len(result_m) + 1].kind \in kinds
    /\ result_m' = Append(result_m, node(sheet[Len(result_m) + 1]))
    /\ UNCHANGED <<sheet, formatted, last_meta_cell_type_m, last_cell_type_m, out>>

\* A cell has one expression: the parser hands over the one there is.
add_cell ==
    LET node(d) == [cell_meta_type |-> "cell", cell_type |-> d.kind,
                    expr_or_init |-> d.initializer \/ d.expression, comments |-> d.comments]
    IN  Comes(CellTypes, node)

add_relation ==
    LET node(d) == [cell_meta_type |-> "relation", conditional |-> d.conditional,
                    relation_set |-> d.relation_set, comments |-> d.comments]
    IN  Comes({"relation"}, node)

add_interface ==
    LET node(d) == [cell_meta_type |-> "interface", linked |-> d.linked,
                    initializer |-> d.initializer, expression |-> d.expression,
                    comments |-> d.comments]
    IN  Comes({"interface"}, node)

------------------------------------------------------------------------------
(* Assembly *)

Node == result_m[formatted + 1]
Formats(meta_type) ==
    /\ Len(result_m) = Len(sheet) /\ formatted < Len(result_m)
    /\ Node.cell_meta_type = meta_type
    /\ formatted' = formatted + 1
    /\ UNCHANGED <<sheet, result_m>>

\* A statement is complete if there is an expression after every sign that one follows.
Heading(section) == [section |-> section, statement |-> <<>>, complete |-> TRUE]
Statement(declaration, complete) ==
    [section |-> "", statement |-> <<declaration>>, complete |-> complete]
\* Under its heading, unless it goes on under the last one.
Prints(section, goes_on, statement, complete) ==
    out' = out \o (IF goes_on THEN <<>> ELSE <<Heading(section)>>) \o <<Statement(statement, complete)>>

\* Wrong: only the type of cell is compared.
format_cell_node_by_type ==
    /\ Formats("cell")
    /\ last_meta_cell_type_m' = "cell" /\ last_cell_type_m' = Node.cell_type
    /\ Prints(Node.cell_type, last_cell_type_m = Node.cell_type,
              [Declares("cell", Node.cell_type \in Initialized, Node.cell_type \in Defined,
                        Node.comments) EXCEPT !.comments.detailed = FALSE],
              Node.expr_or_init)

\* The detailed comment is not printed.  The sign before the expression is, also if
\* there is none: format_expression makes nothing of nothing.
format_cell_node ==
    /\ Formats("cell")
    /\ last_meta_cell_type_m' = "cell" /\ last_cell_type_m' = Node.cell_type
    /\ Prints(Node.cell_type,
              last_meta_cell_type_m = "cell" /\ last_cell_type_m = Node.cell_type,
              [Declares("cell", Node.cell_type \in Initialized, Node.cell_type \in Defined,
                        Node.comments) EXCEPT !.comments.detailed = FALSE],
              Node.expr_or_init)

format_relation_node ==
    /\ Formats("relation")
    /\ last_meta_cell_type_m' = "relation" /\ UNCHANGED last_cell_type_m
    /\ Prints("logic", last_meta_cell_type_m = "relation",
              [Declares("relation", FALSE, FALSE, Node.comments) EXCEPT
                   !.conditional = Node.conditional, !.relation_set = Node.relation_set],
              TRUE)

format_interface_node ==
    /\ Formats("interface")
    /\ last_meta_cell_type_m' = "interface" /\ UNCHANGED last_cell_type_m
    /\ Prints("interface", last_meta_cell_type_m = "interface",
              [Declares("cell", Node.initializer, Node.expression, Node.comments) EXCEPT
                   !.linked = Node.linked],
              TRUE)

SheetNext ==
    \/ add_cell \/ add_relation \/ add_interface
    \/ format_cell_node \/ format_relation_node \/ format_interface_node

------------------------------------------------------------------------------
(* The grammar of property models, of the Adobe Source Library *)

\* A statement is read as what the heading above it says, if it can be that.
Section(i) == out[CHOOSE h \in 1..i : /\ out[h].statement = <<>>
                                      /\ \A k \in h + 1..i : out[k].statement # <<>>].section
Fits(statement, section) ==
    CASE statement.kind = "relation" -> section = "logic"
      [] section = "interface" -> TRUE
      [] section = "input" -> statement.linked /\ ~statement.expression
      [] section = "constant" -> statement.linked /\ statement.initializer /\ ~statement.expression
      [] OTHER -> statement.linked /\ ~statement.initializer /\ statement.expression
ReadAs(i) ==
    LET statement == out[i].statement[1]
    IN  IF ~out[i].complete \/ ~Fits(statement, Section(i)) THEN {}
        ELSE {[statement EXCEPT !.kind = IF @ = "relation" THEN @ ELSE Section(i)]}
Statements == SelectSeq([i \in DOMAIN out |-> i], LAMBDA i : out[i].statement # <<>>)
Reads == [k \in DOMAIN Statements |-> ReadAs(Statements[k])]

------------------------------------------------------------------------------
(* Property *)

Uncommented(d) ==
    IF d.kind \in CellTypes THEN [d EXCEPT !.comments.detailed = FALSE] ELSE d

Valueless(d) == d.kind = "input" /\ ~d.initializer

\* A property model that was taken apart and put together again reads as the same
\* declarations in the same order, each of the kind it was, but for the comments
\* before cells.  An input without a value, and nothing else, is printed as no
\* statement of a property model; the parser gets no further than that.
SheetReadsBack ==
    formatted = Len(sheet) =>
        Reads = [k \in DOMAIN sheet |->
                     IF Valueless(sheet[k]) THEN {} ELSE {Uncommented(sheet[k])}]
===============================================================================
