---------------------------- MODULE MCAssembler ----------------------------
(***************************************************************************)
(* Programs small enough for TLC, of three families: one constant and every *)
(* short expression; three constants that name one another in every way;    *)
(* statements in every order.                                               *)
(***************************************************************************)
EXTENDS Meanings

Program1(main) == [file \in {"main"} |-> main]
OneConstant(expr) == Program1(<<Const("a", expr)>>)

UpTo(n, tokens) == UNION {[1..k -> tokens] : k \in 0..n}

AnyOperator == {Operator(o) : o \in BinaryOperators}
Minus == Operator("-")
N(v) == Number(v)

MCExpressions ==
    \* the grammar
    UpTo(5, {N(2), Minus, Operator("*"), Operator("/"), LPAREN, RPAREN})
    \* words that are refused, and names
    \cup UpTo(3, {N(2), Operator("~"), Operator("+"), WRONG, SEMICOLON, Name("a"), Name("u")})
    \* every two operators between numbers
    \cup UNION {{<<N(7), o, N(5), p, N(2)>>, <<LPAREN, N(7), o, N(5), RPAREN, p, N(2)>>,
                 <<N(7), o, LPAREN, N(5), p, N(2), RPAREN>>, <<N(7), o, Minus, N(5), p, N(2)>>,
                 <<Minus, N(7), o, N(5), p, Minus, N(2)>>} : o, p \in AnyOperator}
    \* one operator of each priority, three times
    \cup {<<N(7), o, N(5), p, N(3), q, N(2)>> :
            o, p, q \in {Operator(x) : x \in {"%", "-", "<<", "&", "^", "|"}}}
    \* the smallest number
    \cup {<<N(1), Operator("<<"), N(15), o, LPAREN, Minus, N(1), RPAREN>> :
            o \in AnyOperator}

\* Expressions of a constant over the constants a, b, c, a label l and a name
\* u that nobody defines.
SymbolExpressions ==
    {<<N(1)>>} \cup {<<Name(n)>> : n \in {"a", "b", "c", "l", "u"}}
    \cup {<<Name(m), Operator("+"), Name(n)>> : m, n \in {"a", "b", "c"}}

Symbols ==
    {Program1(<<Const("a", x), Const("b", y), Instr("hlt", << >>), Label("l"), Const("c", z)>>) :
        x, y, z \in SymbolExpressions}

Difference == <<Name("m"), Minus, Name("l")>>

MCStatements ==
    {Label("k"), Instr("hlt", << >>), Instr("push", << >>),
     Instr("push", <<<<Name("l")>>, Difference>>),
     Instr("rjmp", <<<<Name("l")>>>>), Instr("rjmp", <<<<N(1)>>, <<Name("m")>>>>),
     Instr("nop", << >>), Ascii(2), BadAscii, NumberDir(2, Difference),
     NumberDir(1, <<Name("k")>>), Const("k", Difference), SymType(".func"),
     Include("inc"), Include("gone"), Comment, BadLine}

Layouts ==
    {[file \in {"main"} |-> <<Label("l")>> \o body \o <<Label("m"), Instr("rjmp", <<<<Name("l")>>>>)>>]
        @@ [file \in {"inc"} |-> inc] :
      body \in UpTo(2, MCStatements) \cup [1..3 -> MCStatements \ {BadAscii, Comment, BadLine, Include("gone"),
                                              Instr("nop", << >>), Instr("push", << >>)}],
      inc \in {<<Instr("rjmp", <<<<Name("m")>>>>), Label("k")>>, <<Include("main")>>}}
    \cup {[file \in {"main"} |-> <<SymType(".func"), NumberDir(1, <<>>)>>]}

\* The comment of docs/asm-directives.md: on a line of its own, or behind an
\* expression.
CommentedSources ==
    {Program1(<<Comment, Instr("hlt", << >>)>>), OneConstant(<<N(2), SEMICOLON>>)}

MCSources == {OneConstant(t) : t \in MCExpressions} \cup Symbols \cup Layouts

=============================================================================
