-------------------------------- MODULE Calc --------------------------------
(***************************************************************************)
(* The expression calculator (asm/calc.c): a shunting yard.  An activation  *)
(* is one call of _compute_fn; it holds the two stacks of the call, the     *)
(* rest of the expression and the type of the last token.  Here is what the *)
(* call does next; Symtab runs activations and gives names their values.    *)
(***************************************************************************)
EXTENDS Words, Sequences, SequencesExt

\* Tokens.  A "semicolon" is no token: it is what ivm_trim_ws_and_comments
\* does not get past.
Token(kind, text, value) == [kind |-> kind, text |-> text, value |-> value]
Number(v) == Token("number", "", v)
Name(n) == Token("name", n, 0)
Operator(o) == Token("operator", o, 0)
LPAREN == Token("lparen", "(", 0)
RPAREN == Token("rparen", ")", 0)
SEMICOLON == Token("semicolon", ";", 0)
\* A character of no token, or a number with a point: refused.
WRONG == Token("wrong", "$", 0)
END == Token("end", "", 0)

TokenKinds == {"number", "name", "operator", "lparen", "rparen", "semicolon", "wrong"}
Tokens == [kind : TokenKinds, text : STRING, value : Words]

\* binary_operator_priority: a smaller one binds tighter.
BinaryOperators == {"*", "/", "%", "+", "-", "<<", ">>", "&", "^", "|"}
Priority ==
    [o \in BinaryOperators |->
        CASE o \in {"*", "/", "%"} -> 1
          [] o \in {"+", "-"}      -> 2
          [] o \in {"<<", ">>"}    -> 3
          [] o = "&"               -> 6
          [] o = "^"               -> 7
          [] o = "|"               -> 8]

Activation(entry, expr) ==
    [entry |-> entry, expr |-> expr, prev_ttype |-> "lparen",
     res_stack |-> << >>, op_stack |-> << >>]

Activations ==
    [entry : Nat, expr : Seq(Tokens), prev_ttype : TokenKinds, res_stack : Seq(Words),
     op_stack : Seq([op_type : {"binary", "unary", "lbrace"}, operator : STRING])]

-----------------------------------------------------------------------------
(* What the call finds next.                                                *)

AtEnd(f) == f.expr = << >>
NextToken(f) == IF AtEnd(f) THEN END ELSE Head(f.expr)

\* A parenthesis closed does not end an operand (mutant of BehindOperand).
BehindNumberOrName(f) == f.prev_ttype \in {"number", "name"}

\* Behind an operand an operator is binary, and another operand is an error.
BehindOperand(f) == f.prev_ttype \in {"number", "name", "rparen"}

Empty(f) == AtEnd(f) /\ f.prev_ttype = "lparen" /\ f.op_stack = << >>

\* The left operator gives way to one as tight (mutant of GoesFirst).
GoesFirstIfTighter(left, right) == Priority[left] < Priority[right]

\* Between two operators: whether the left one is executed first.
GoesFirst(left, right) == Priority[left] <= Priority[right]

\* The operator on top of the stack is executed before the next token is taken.
MustExecute(f) ==
    /\ f.op_stack # << >> /\ Last(f.op_stack).op_type # "lbrace"
    /\ \/ NextToken(f).kind \in {"end", "rparen"}
       \/ /\ NextToken(f).kind = "operator" /\ BehindOperand(f)
          /\ NextToken(f).text \in BinaryOperators
          /\ GoesFirst(Last(f.op_stack).operator, NextToken(f).text)

\* Errors that are reported, with exit.
TokenFails(f) ==
    \/ NextToken(f).kind \in {"number", "name"} /\ BehindOperand(f)
    \/ NextToken(f).kind = "operator" /\ NextToken(f).text \notin BinaryOperators
    \/ NextToken(f).kind = "rparen" /\ f.op_stack = << >>
    \/ NextToken(f).kind = "wrong"

EndFails(f) == Empty(f) \/ f.op_stack # << >>

-----------------------------------------------------------------------------
(* execute_operator                                                         *)

Arity(op) == IF op.op_type = "binary" THEN 2 ELSE 1
Below(f) == SubSeq(f.res_stack, 1, Len(f.res_stack) - Arity(Last(f.op_stack)))

\* compute_binary
Binary(o, left, right) ==
    CASE o = "*"  -> Wrap(left * right)
      [] o = "/"  -> Quotient(left, right)
      [] o = "%"  -> Remainder(left, right)
      [] o = "+"  -> Wrap(left + right)
      [] o = "-"  -> Wrap(left - right)
      [] o = "<<" -> ShiftLeft(left, right)
      [] o = ">>" -> ShiftRight(left, right)
      [] o = "&"  -> BitAnd(left, right)
      [] o = "^"  -> BitXor(left, right)
      [] o = "|"  -> BitOr(left, right)

\* compute_unary.  Of its two operators "~" never gets here, because
\* binary_operator_priority does not know it.
Unary(o, param) == IF o = "-" THEN Wrap(-param) ELSE -param - 1

Divides(op) == op.op_type = "binary" /\ op.operator \in {"/", "%"}

\* check$ of the number of operands, or the trap of a quotient too large
ExecutePanics(f) ==
    LET op == Last(f.op_stack)
        n  == Len(f.res_stack)
    IN  \/ n < Arity(op)
        \/ Divides(op) /\ f.res_stack[n - 1] = -HALF /\ f.res_stack[n] = -1

ExecuteFails(f) ==
    LET op == Last(f.op_stack)
    IN  \/ Divides(op) /\ Last(f.res_stack) = 0
        \/ op.op_type = "unary" /\ op.operator \notin {"-", "~"}

Executed(f) ==
    LET op == Last(f.op_stack)
        n  == Len(f.res_stack)
        v  == IF op.op_type = "binary"
              THEN Binary(op.operator, f.res_stack[n - 1], f.res_stack[n])
              ELSE Unary(op.operator, f.res_stack[n])
    IN  [f EXCEPT !.op_stack = Front(@), !.res_stack = Append(Below(f), v)]

-----------------------------------------------------------------------------
(* Taking a token.                                                          *)

Taken(f) == [f EXCEPT !.expr = Tail(@), !.prev_ttype = NextToken(f).kind]

\* A number, or a name that has the value v, goes on the stack of results.
Operand(f, v) == [Taken(f) EXCEPT !.res_stack = Append(@, v)]

Stacked(f, op_type) ==
    [Taken(f) EXCEPT !.op_stack =
        Append(@, [op_type |-> op_type, operator |-> NextToken(f).text])]

Shifted(f) ==
    CASE NextToken(f).kind = "number" -> Operand(f, NextToken(f).value)
      [] NextToken(f).kind = "operator" ->
            Stacked(f, IF BehindOperand(f) THEN "binary" ELSE "unary")
      [] NextToken(f).kind = "lparen" -> Stacked(f, "lbrace")
      [] NextToken(f).kind = "rparen" -> [Taken(f) EXCEPT !.op_stack = Front(@)]

\* The end: check$ that one result is left.
EndPanics(f) == Len(f.res_stack) # 1
Result(f) == f.res_stack[1]

=============================================================================
