------------------------- MODULE ExpressionFormatter -------------------------
(***************************************************************************)
(* expression_formatter_t (source/expression_formatter.cpp): prints the    *)
(* tokens of an expression, which are in the order of a stack machine, as  *)
(* a text that the expression parser should read as the same expression.   *)
(*                                                                         *)
(* A text is a sequence of symbols.  Blanks and line ends are left out.    *)
(***************************************************************************)
EXTENDS Naturals, Sequences, SequencesExt

CONSTANTS Expressions   \* the expressions that are printed

VARIABLES expression,   \* the expression whose tokens are printed
          tokens,       \* the tokens that are left
          stack_m,      \* the texts of operands
          callers       \* the formatters that wait for this one: a list of tokens may be
                        \* among tokens, and is formatted on its own
formatter_vars == <<expression, tokens, stack_m, callers>>

------------------------------------------------------------------------------
(* Expressions, and their tokens (the expression parser of the Adobe Source *)
(* Library): literals, variables, and operations on other expressions.      *)

Leaf(text) == [op |-> "leaf", text |-> text, of |-> <<>>]
Variable(name) == [op |-> ".variable", text |-> <<name>>, of |-> <<>>]
Operation(op, of) == [op |-> op, text |-> <<>>, of |-> of]
Unary == {".not"}
ShortCircuit == {".and", ".or"}
BinaryOps == ShortCircuit \cup {".add"}
Symbol(op) == CASE op = ".not" -> "!" [] op = ".and" -> "&&" [] op = ".or" -> "||" [] OTHER -> "+"

\* A name is printed with a sign, here a symbol of its own; so is the count of
\* elements among the tokens.  What need not be evaluated is a list of tokens of its
\* own: the later operand of && and ||, and those of a conditional.
Name(name) == <<"@", name>>
RECURSIVE Tokens(_)
Tokens(e) ==
    LET args == FlattenSeq([i \in DOMAIN e.of |-> Tokens(e.of[i])])
        token(op) == [op |-> op, text |-> <<>>, list |-> <<>>, count |-> Len(e.of)]
        leaf(text) == <<[token("leaf") EXCEPT !.text = text]>>
        lists == [i \in 1..Len(e.of) - 1 |-> [token("list") EXCEPT !.list = Tokens(e.of[i + 1])]]
    IN  CASE e.op = "leaf" -> leaf(e.text)
          [] e.op = ".variable" -> leaf(Name(e.text[1])) \o <<token(".variable")>>
          [] e.op = ".function" ->
                args \o <<token(".array")>> \o leaf(Name("f")) \o <<token(".function")>>
          [] e.op = ".dictionary" ->
                FlattenSeq([i \in DOMAIN e.of |-> leaf(Name("key")) \o Tokens(e.of[i])])
                    \o <<token(e.op)>>
          [] e.op \in ShortCircuit \cup {".ifelse"} ->
                Tokens(e.of[1]) \o lists \o <<token(e.op)>>
          [] OTHER -> args \o <<token(e.op)>>

------------------------------------------------------------------------------
(* The formatter *)

\* Wrong: only the front is looked at.
strip_expression_front(t) ==
    IF Len(t) >= 2 /\ Head(t) = "(" THEN SubSeq(t, 2, Len(t) - 1) ELSE t
strip_expression(t) ==
    IF Len(t) >= 2 /\ Head(t) = "(" /\ Last(t) = ")" THEN SubSeq(t, 2, Len(t) - 1) ELSE t

Separated(texts) ==
    FlattenSeq([i \in DOMAIN texts |-> IF i = 1 THEN texts[i] ELSE <<",">> \o texts[i]])

\* What an operation leaves for the n operands it takes.
Replaces(n, text) == stack_m' = Append(SubSeq(stack_m, 1, Len(stack_m) - n), text)
Operand(n, i) == stack_m[Len(stack_m) - n + i]
Next_is(op) == tokens # <<>> /\ Head(tokens).op = op
Goes_on == tokens' = Tail(tokens) /\ UNCHANGED <<expression, callers>>

Init ==
    /\ expression \in Expressions /\ tokens = Tokens(expression)
    /\ stack_m = <<>> /\ callers = <<>>

literal == Next_is("leaf") /\ stack_m' = Append(stack_m, Head(tokens).text) /\ Goes_on

\* A list of tokens is formatted by a formatter of its own, which leaves its text,
\* without parentheses around it, to the one that waits.
format_expression ==
    /\ Next_is("list")
    /\ callers' = <<[tokens |-> Tail(tokens), stack_m |-> stack_m]>> \o callers
    /\ tokens' = Head(tokens).list /\ stack_m' = <<>>
    /\ UNCHANGED expression

format == strip_expression(Last(stack_m))

format_returns ==
    /\ tokens = <<>> /\ callers # <<>>
    /\ tokens' = Head(callers).tokens
    /\ stack_m' = Append(Head(callers).stack_m, format)
    /\ callers' = Tail(callers)
    /\ UNCHANGED expression

unary_operation ==
    \E op \in Unary : Next_is(op) /\ Replaces(1, <<Symbol(op)>> \o Operand(1, 1)) /\ Goes_on

\* Wrong: without parentheses.
binary_operation_bare ==
    \E op \in BinaryOps :
        /\ Next_is(op) /\ Goes_on
        /\ Replaces(2, Operand(2, 1) \o <<Symbol(op)>> \o Operand(2, 2))
binary_operation ==
    \E op \in BinaryOps :
        /\ Next_is(op) /\ Goes_on
        /\ Replaces(2, <<"(">> \o Operand(2, 1) \o <<Symbol(op)>> \o Operand(2, 2) \o <<")">>)

op_ifelse ==
    /\ Next_is(".ifelse") /\ Goes_on
    /\ Replaces(3, <<"(">> \o strip_expression(Operand(3, 1)) \o <<"?">>
                        \o strip_expression(Operand(3, 2)) \o <<":">>
                        \o strip_expression(Operand(3, 3)) \o <<")">>)

op_index ==
    /\ Next_is(".index") /\ Goes_on
    /\ LET index == Operand(2, 2)
       IN  Replaces(2, IF Head(index) = "@"
                       THEN Operand(2, 1) \o <<".">> \o Tail(index)
                       ELSE Operand(2, 1) \o <<"[">> \o strip_expression(index) \o <<"]">>)

\* The parameters are an array; its brackets become parentheses.
op_function ==
    /\ Next_is(".function") /\ Goes_on
    /\ LET parameter_set == Operand(2, 1)
       IN  Replaces(2, Tail(Operand(2, 2)) \o <<"(">>
                           \o SubSeq(parameter_set, 2, Len(parameter_set) - 1) \o <<")">>)

op_array ==
    /\ Next_is(".array") /\ Goes_on
    /\ LET n == Head(tokens).count
       IN  Replaces(n, <<"[">> \o Separated([i \in 1..n |-> strip_expression(Operand(n, i))])
                           \o <<"]">>)

op_dictionary ==
    /\ Next_is(".dictionary") /\ Goes_on
    /\ LET n == Head(tokens).count
           pair(i) == strip_expression(Tail(Operand(2 * n, 2 * i - 1)) \o <<":">>
                                           \o strip_expression(Operand(2 * n, 2 * i)))
       IN  Replaces(2 * n, <<"{">> \o Separated([i \in 1..n |-> pair(i)]) \o <<"}">>)

op_variable == Next_is(".variable") /\ Replaces(1, Tail(Operand(1, 1))) /\ Goes_on

FormatterNext ==
    \/ literal \/ format_expression \/ format_returns \/ unary_operation \/ binary_operation
    \/ op_ifelse \/ op_index \/ op_function \/ op_array \/ op_dictionary \/ op_variable

------------------------------------------------------------------------------
(* The grammar of the expression parser, as far as the symbols go.  Each     *)
(* operator reads a text from its front: [of, what is left], or Fails.       *)

Fails == [of |-> Leaf(<<"nothing">>), left |-> <<"failed">>]
At(t, symbol) == t # <<>> /\ Head(t) = symbol
Identifiers == {"a", "b", "f", "key"}

\* From the operator that binds least; each groups to the left.
Levels == <<".or", ".and", ".add">>
RECURSIVE Expression(_), Infix(_, _), More(_, _, _), UnaryOf(_), Postfix(_), List(_, _, _)
\* An operand of a level's operator, and what follows it on that level.
Infix(level, t) ==
    IF level > Len(Levels) THEN UnaryOf(t)
    ELSE LET first == Infix(level + 1, t) IN More(level, first.of, first.left)
More(level, first, t) ==
    IF ~At(t, Symbol(Levels[level])) THEN [of |-> first, left |-> t]
    ELSE LET operand == Infix(level + 1, Tail(t))
         IN  More(level, Operation(Levels[level], <<first, operand.of>>), operand.left)
Expression(t) ==
    LET test == Infix(1, t)
    IN  IF ~At(test.left, "?") THEN test
        ELSE LET then == Expression(Tail(test.left))
                 else == Expression(Tail(then.left))
             IN  IF ~At(then.left, ":") THEN Fails
                 ELSE [of |-> Operation(".ifelse", <<test.of, then.of, else.of>>), left |-> else.left]
UnaryOf(t) ==
    IF At(t, "!") THEN LET operand == UnaryOf(Tail(t))
                       IN  [of |-> Operation(".not", <<operand.of>>), left |-> operand.left]
    ELSE IF t = <<>> THEN Fails
    ELSE CASE Head(t) = "(" -> LET in == Expression(Tail(t))
                               IN  IF At(in.left, ")")
                                   THEN Postfix([in EXCEPT !.left = Tail(@)]) ELSE Fails
           [] Head(t) = "@" -> Postfix([of |-> Leaf(SubSeq(t, 1, 2)), left |-> SubSeq(t, 3, Len(t))])
           [] Head(t) = "1" -> Postfix([of |-> Leaf(<<"1">>), left |-> Tail(t)])
           [] Head(t) = "[" -> Postfix(List(Tail(t), "]", Operation(".array", <<>>)))
           [] Head(t) = "{" -> Postfix(List(Tail(t), "}", Operation(".dictionary", <<>>)))
           [] Head(t) \in Identifiers ->
                 IF At(Tail(t), "(") THEN Postfix(List(SubSeq(t, 3, Len(t)), ")", Operation(".function", <<>>)))
                 ELSE Postfix([of |-> Variable(Head(t)), left |-> Tail(t)])
           [] OTHER -> Fails
Postfix(read) ==
    CASE At(read.left, "[") ->
            LET index == Expression(Tail(read.left))
            IN  IF At(index.left, "]")
                THEN Postfix([of |-> Operation(".index", <<read.of, index.of>>), left |-> Tail(index.left)])
                ELSE Fails
      [] At(read.left, ".") ->
            IF Len(read.left) = 1 THEN Fails
            ELSE Postfix([of |-> Operation(".index", <<read.of, Leaf(Name(read.left[2]))>>),
                          left |-> SubSeq(read.left, 3, Len(read.left))])
      [] OTHER -> read
\* Elements up to the closing symbol; those of a dictionary have keys.
List(t, close, whole) ==
    IF whole.of = <<>> /\ At(t, close) THEN [of |-> whole, left |-> Tail(t)]
    ELSE LET element == Expression(IF whole.op # ".dictionary" THEN t
                                   ELSE IF At(t, "key") /\ At(Tail(t), ":")
                                        THEN SubSeq(t, 3, Len(t)) ELSE <<>>)
             more == [whole EXCEPT !.of = Append(@, element.of)]
         IN  CASE At(element.left, ",") -> List(Tail(element.left), close, more)
               [] At(element.left, close) -> [of |-> more, left |-> Tail(element.left)]
               [] OTHER -> Fails

------------------------------------------------------------------------------
(* Property *)

\* The text of e in its parentheses, if it has any, begins with one, or ends with one.
Wrapped == BinaryOps \cup {".ifelse"}
RECURSIVE Begins(_), Opens(_), Ends(_), Closes(_)
Begins(e) == e.op \in Wrapped \/ (e.op = ".index" /\ Begins(e.of[1]))
Opens(e) ==
    CASE e.op = ".ifelse" -> Opens(e.of[1])
      [] e.op \in BinaryOps \cup {".index"} -> Begins(e.of[1])
      [] OTHER -> FALSE
Ends(e) == e.op \in Wrapped \cup {".function"} \/ (e.op \in Unary /\ Ends(e.of[1]))
Closes(e) ==
    CASE e.op \in ShortCircuit \cup {".ifelse"} -> Closes(Last(e.of))
      [] e.op = ".add" -> Ends(e.of[2])
      [] OTHER -> Ends(e)

RECURSIVE StartsWithName(_)
StartsWithName(e) ==
    \/ e.op = "leaf" /\ Head(e.text) = "@"
    \/ e.op = ".index" /\ StartsWithName(e.of[1])

\* The expressions whose text says something else.  A condition that is itself
\* conditional loses the parentheses that kept it together; so does the later operand
\* of && or || if it does not bind more; what a conditional chooses from loses a
\* second pair, of which one may be its first operand's and one its last's.  An
\* operator before what is indexed takes the whole, and an index that only starts
\* with a name is taken for one.
RECURSIVE Misprinted(_)
Misprinted(e) ==
    \/ e.op = ".ifelse" /\ e.of[1].op = ".ifelse"
    \/ e.op = ".ifelse" /\ \E i \in {2, 3} : Opens(e.of[i]) /\ Closes(e.of[i])
    \/ e.op = ".and" /\ e.of[2].op \in {".and", ".or", ".ifelse"}
    \/ e.op = ".or" /\ e.of[2].op \in {".or", ".ifelse"}
    \/ e.op = ".index" /\ e.of[1].op \in Unary
    \/ e.op = ".index" /\ e.of[2].op # "leaf" /\ StartsWithName(e.of[2])
    \/ \E i \in DOMAIN e.of : Misprinted(e.of[i])

\* Every other expression is printed as a text that reads as that expression, and
\* those are not.
ReadsBack ==
    tokens = <<>> /\ callers = <<>> =>
        /\ Len(stack_m) = 1
        /\ Expression(format) = [of |-> expression, left |-> <<>>] <=> ~Misprinted(expression)
===============================================================================
