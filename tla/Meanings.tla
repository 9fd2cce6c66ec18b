------------------------------ MODULE Meanings ------------------------------
(***************************************************************************)
(* What a program for the assembler means, defined without the assembler:   *)
(* expressions by their grammar and the usual precedence, includes by       *)
(* substitution, labels by counting bytes, constants as a fixpoint.  It is  *)
(* the reference of the two properties below and nothing is proved of it.   *)
(***************************************************************************)
EXTENDS Assembler

EndsOperand(token) == token.kind \in {"number", "name", "rparen"}

Depth(t, k) ==
    Cardinality({j \in 1..k : t[j] = LPAREN}) - Cardinality({j \in 1..k : t[j] = RPAREN})

\* Binary operators of t that are in no parenthesis, and the one of them that
\* is executed last: the rightmost of the loosest.
Outer(t) ==
    {k \in 2..Len(t) : /\ t[k].kind = "operator" /\ t[k].text \in BinaryOperators
                       /\ EndsOperand(t[k - 1]) /\ Depth(t, k) = 0}
Split(t) ==
    CHOOSE k \in Outer(t) : \A j \in Outer(t) \ {k} :
        \/ Priority[t[j].text] < Priority[t[k].text]
        \/ Priority[t[j].text] = Priority[t[k].text] /\ j < k

\* t is one pair of parentheses and what is in it.
Wrapped(t) ==
    /\ t[1] = LPAREN /\ Depth(t, Len(t)) = 0
    /\ \A k \in 1..Len(t) - 1 : Depth(t, k) > 0

\* The value of the tokens t where names mean env, as a set of one value, or of
\* none when t is no expression, names what env does not know, divides by zero
\* or divides or negates the smallest number.
RECURSIVE Values(_, _)
Values(t, env) ==
    IF t = << >> THEN {}
    ELSE IF Outer(t) # {}
    THEN LET k == Split(t)
         IN  {Binary(t[k].text, v, w) :
                <<v, w>> \in {p \in Values(SubSeq(t, 1, k - 1), env)
                                    \X Values(SubSeq(t, k + 1, Len(t)), env) :
                                t[k].text \in {"/", "%"} => p[2] # 0 /\ p # <<-HALF, -1>>}}
    ELSE IF t[1] = Operator("-") THEN {-v : v \in Values(Tail(t), env) \ {-HALF}}
    ELSE IF Len(t) = 1
    THEN CASE t[1].kind = "number" -> {t[1].value}
           [] t[1].kind = "name"   -> IF t[1].text \in DOMAIN env THEN {env[t[1].text]} ELSE {}
           [] OTHER                -> {}
    ELSE IF Wrapped(t) THEN Values(SubSeq(t, 2, Len(t) - 1), env)
    ELSE {}

\* The calculator gives unary minus the priority of the binary one, which is
\* not the usual one directly behind an operator that binds tighter.
Plain(t) ==
    \A k \in 3..Len(t) :
        ~(/\ t[k] = Operator("-") /\ t[k - 1].text \in {"*", "/", "%"}
          /\ EndsOperand(t[k - 2]))

\* It also lets a parenthesis stand directly behind an operand, or empty.
Juxtaposed(t) ==
    \E k \in 2..Len(t) : \/ t[k] = LPAREN /\ EndsOperand(t[k - 1])
                         \/ t[k] = RPAREN /\ t[k - 1] = LPAREN

-----------------------------------------------------------------------------
(* Programs.                                                                *)

\* The statements of a file with those of its includes; a missing file, or
\* includes nested too deep, give a "missing" statement.
RECURSIVE Flat(_, _)
Flat(file, depth) ==
    IF file \notin DOMAIN source \/ depth > MAX_NESTING
    THEN <<Statement("missing", file, 0, << >>)>>
    ELSE FoldLeft(LAMBDA done, s :
                     IF s.type = "include" THEN done \o Flat(s.name, depth + 1)
                     ELSE Append(done, s),
                  << >>, source[file])

Program == Flat("main", 1)

\* Bytes that the statement s stands for.
Bytewise(s) ==
    CASE s.type = "instr" -> 9 * Len(s.args) + (IF s.name = "push" THEN 0 ELSE 1)
      [] s.type \in {"blob", "number"} -> s.size
      [] OTHER -> 0

Address(prog, k) ==
    LABEL_OFFSET + FoldLeft(LAMBDA n, s : n + Bytewise(s), 0, SubSeq(prog, 1, k - 1))

Names(prog, type) == {prog[k].name : k \in {k \in DOMAIN prog : prog[k].type = type}}
At(prog, n) == CHOOSE k \in DOMAIN prog : prog[k].type \in {"label", "const"} /\ prog[k].name = n

\* The meaning of the constants, found from what is known already.
RECURSIVE Grown(_, _)
Grown(prog, env) ==
    LET found == {n \in Names(prog, "const") \ DOMAIN env :
                    Values(prog[At(prog, n)].args[1], env) # {}}
        more  == [n \in found |->
                    CHOOSE v \in Values(prog[At(prog, n)].args[1], env) : TRUE]
    IN  IF found = {} THEN env ELSE Grown(prog, env @@ more)

Meaning(prog) ==
    Grown(prog, [n \in Names(prog, "label") |-> Address(prog, At(prog, n))])

Expressions(prog) ==
    UNION {Range(prog[k].args) : k \in DOMAIN prog}

IsSymbol(s) == s.type \in {"label", "const"}

Good(prog) ==
    /\ ~HasSemicolon
    /\ \A k \in DOMAIN prog :
         /\ prog[k].type \notin {"missing", "bad"} /\ prog[k].size >= 0
         /\ prog[k].type = "instr" =>
              prog[k].name \in DOMAIN Flags /\ (prog[k].name = "push" => prog[k].args # << >>)
         /\ prog[k].type = "symtype" => \E j \in k + 1..Len(prog) : prog[j].type = "label"
    /\ \A j, k \in DOMAIN prog :
         IsSymbol(prog[j]) /\ IsSymbol(prog[k]) /\ prog[j].name = prog[k].name => j = k
    /\ LET env == Meaning(prog)
       IN  \A t \in Expressions(prog) : Plain(t) /\ Values(t, env) # {}

-----------------------------------------------------------------------------
\* Once the symbols are computed, each constant has the value that its
\* expression means, whatever the order of the definitions and however deep
\* they depend on one another (asm/calc.c, asm/symtab.c); one without a
\* meaning gets past only for a parenthesis where none belongs.
ConstantsMeanWhatTheySay ==
    (phase = "emit" /\ i = 1 /\ arg = 1) /\ (\A t \in Expressions(Program) : Plain(t)) =>
        LET env == Meaning(Program)
        IN  \A e \in Entries :
              IF symtab[e].name \in DOMAIN env
              THEN symtab[e].step = DONE /\ symtab[e].value = env[symtab[e].name]
              ELSE \E t \in Expressions(Program) : Juxtaposed(t)

\* A program that means something in all its parts is assembled: it is not
\* refused, and the assembler does not die of it (asm/asm.c).
GoodProgramsAreAssembled ==
    phase \in {"failed", "panicked", "trimming", "unwind"} => ~Good(Program)

=============================================================================
