----------------------------- MODULE Assembler -----------------------------
(***************************************************************************)
(* The assembler (asm/asm.c, asm/arch/ivm.c): the files are read with their *)
(* includes; the first pass gives every statement its location; the symbols *)
(* are computed (Symtab); the second pass writes the image.  The program is *)
(* a member of Sources, and nothing else is chosen.                         *)
(*                                                                          *)
(* phase is "start", "read", "layout", "resolve", "unwind" (of a loop),     *)
(* "emit", or an end: "done", "failed" (an error was reported), "panicked"  *)
(* (the process killed itself or was killed), "trimming" (it never comes    *)
(* back).                                                                   *)
(***************************************************************************)
EXTENDS Symtab

CONSTANTS
    Sources,        \* functions from file names to sequences of statements
    LABEL_OFFSET,   \* where the ROM begins, 0x10000 in the code
    MAX_NESTING     \* includes in includes that the host's stack can hold

StatementTypes ==
    {"label", "instr", "const", "blob", "number", "symtype", "include", "comment", "bad"}

\* A constant and a number have one expression, a number has the bytes of a word
\* at most, and only a bad string has no size.
Statements ==
    {s \in [type : StatementTypes, name : STRING, size : Int, args : Seq(Seq(Tokens))] :
        /\ s.type \in {"const", "number"} => Len(s.args) = 1
        /\ s.type = "number" => s.size \in 1..WORD
        /\ s.type # "blob" => s.size >= 0}

ASSUME AssemblerAssumption ==
    /\ LABEL_OFFSET \in Nat /\ MAX_NESTING \in Nat \ {0}
    /\ \A files \in Sources : \A file \in DOMAIN files : files[file] \in Seq(Statements)

VARIABLES
    source,         \* the files
    reading,        \* parse_source and its callers: [file, next]
    ast,            \* the statements
    pc,             \* locations of the statements of the first pass; the code
                    \* keeps those of labels and instructions
    location,
    i,              \* the statement, or symbol, that a pass is at
    arg,            \* the argument of the instruction
    output,         \* items written: [at, kind, value]
    position        \* bytes written before, counted from LABEL_OFFSET

pass_vars == <<source, reading, ast, pc, location, i, arg, output, position>>
vars == <<symtab_vars, pass_vars>>

-----------------------------------------------------------------------------
(* Statements.                                                              *)

Statement(type, name, size, args) ==
    [type |-> type, name |-> name, size |-> size, args |-> args]

Label(n) == Statement("label", n, 0, << >>)
Instr(name, args) == Statement("instr", name, 0, args)
Const(n, expr) == Statement("const", n, 0, <<expr>>)
\* .ascii: a string of so many characters, escaped or not, or one with an
\* escape sequence that is refused.
Ascii(length) == Statement("blob", ".ascii", length, << >>)
BadAscii == Statement("blob", ".ascii", -1, << >>)
\* .u8, ..., .i64
NumberDir(size, expr) == Statement("number", ".number", size, <<expr>>)
SymType(dir) == Statement("symtype", dir, 0, << >>)
Include(file) == Statement("include", file, 0, << >>)
\* A line that begins with a `;`.
Comment == Statement("comment", ";", 0, << >>)
\* A line that is no statement.
BadLine == Statement("bad", "", 0, << >>)

\* The flags of the table of instructions; three of them stand for all.
Flags == [hlt |-> "IF_NONE", push |-> "IF_PUSH", rjmp |-> "IF_REL"]

\* The opcode of push and its literal.
PUSH_LENGTH == 1 + WORD

-----------------------------------------------------------------------------
Init ==
    /\ SymtabInit
    /\ source \in Sources
    /\ reading = << >> /\ ast = << >> /\ pc = << >> /\ output = << >>
    /\ location = LABEL_OFFSET /\ position = LABEL_OFFSET /\ i = 1 /\ arg = 1
    /\ phase = "start"

Fail(how) == Stop(how) /\ UNCHANGED pass_vars
Keep == UNCHANGED <<symtab, frames, traceback_to, printed>>

-----------------------------------------------------------------------------
(* parse_source                                                             *)

\* The lines that iasm_parse_file does not get past.
Unparsed(file) == {k \in DOMAIN source[file] : source[file][k].type \in {"comment", "bad"}}

\* The whole file is parsed before its first include is.
Open(file, callers) ==
    /\ IF file \notin DOMAIN source \/ Len(callers) = MAX_NESTING
       THEN phase' = "panicked" /\ UNCHANGED reading
       ELSE IF Unparsed(file) # {}
       THEN /\ phase' = IF source[file][Min(Unparsed(file))].type = "comment"
                        THEN "trimming" ELSE "failed"
            /\ UNCHANGED reading
       ELSE /\ reading' = Append(callers, [file |-> file, next |-> 1])
            /\ phase' = "read"
    /\ UNCHANGED ast

Reader == Last(reading)
NextStatement == source[Reader.file][Reader.next]
ReaderDone == Reader.next > Len(source[Reader.file])
ReaderMoved == Append(Front(reading), [Reader EXCEPT !.next = @ + 1])

OpenMain ==
    /\ phase = "start"
    /\ Open("main", << >>)
    /\ Keep /\ UNCHANGED <<source, pc, location, i, arg, output, position>>

ReadInclude ==
    /\ phase = "read" /\ reading # << >> /\ ~ReaderDone
    /\ NextStatement.type = "include"
    /\ Open(NextStatement.name, ReaderMoved)
    /\ Keep /\ UNCHANGED <<source, pc, location, i, arg, output, position>>

ReadStatement ==
    /\ phase = "read" /\ reading # << >> /\ ~ReaderDone
    /\ NextStatement.type # "include"
    /\ ast' = Append(ast, NextStatement)
    /\ reading' = ReaderMoved
    /\ Keep /\ UNCHANGED <<phase, source, pc, location, i, arg, output, position>>

ReadEnd ==
    /\ phase = "read" /\ reading # << >> /\ ReaderDone
    /\ reading' = Front(reading)
    /\ phase' = IF Len(reading) = 1 THEN "layout" ELSE "read"
    /\ Keep /\ UNCHANGED <<source, ast, pc, location, i, arg, output, position>>

-----------------------------------------------------------------------------
(* The first pass.                                                          *)

S == ast[i]

\* A pushed argument without its opcode (mutant of InstrLength).
InstrLengthShort(s) == (IF Flags[s.name] = "IF_PUSH" THEN 1 ELSE 1) + WORD * Len(s.args)

\* iasm_ivm_inst_len: the pushes, and the instruction unless it is push.
InstrLength(s) ==
    (IF Flags[s.name] = "IF_PUSH" THEN 0 ELSE 1) + PUSH_LENGTH * Len(s.args)

BadInstr(s) ==
    \/ s.name \notin DOMAIN Flags
    \/ Flags[s.name] = "IF_PUSH" /\ s.args = << >>

Size(s) ==
    CASE s.type = "instr" -> InstrLength(s)
      [] s.type \in {"blob", "number"} -> s.size
      [] OTHER -> 0

InLayout == phase = "layout" /\ i <= Len(ast)

Located ==
    /\ pc' = Append(pc, location)
    /\ location' = location + Size(S)
    /\ i' = i + 1
    /\ UNCHANGED <<phase, frames, traceback_to, printed>>
    /\ UNCHANGED <<source, reading, ast, arg, output, position>>

LayoutSymbol ==
    /\ InLayout /\ S.type \in {"label", "const"}
    /\ IF Known(S.name) THEN Fail("failed")
       ELSE /\ Adds(IF S.type = "label" THEN Entry("label", S.name, location, << >>)
                    ELSE Entry("const", S.name, 0, S.args[1]))
            /\ Located

LayoutInstr ==
    /\ InLayout /\ S.type = "instr"
    /\ IF BadInstr(S) THEN Fail("failed") ELSE Located /\ UNCHANGED symtab

LayoutData ==
    /\ InLayout /\ S.type \in {"blob", "number"}
    /\ IF S.size < 0 THEN Fail("failed") ELSE Located /\ UNCHANGED symtab

\* .func, .table, .string print the next label.  Without one an uninitialized
\* span is printed, and the process may or may not survive that.
LayoutSymType ==
    /\ InLayout /\ S.type = "symtype"
    /\ \/ Located /\ UNCHANGED symtab
       \/ ~(\E k \in i + 1..Len(ast) : ast[k].type = "label") /\ Fail("panicked")

LayoutEnd ==
    /\ phase = "layout" /\ i > Len(ast)
    /\ phase' = "resolve" /\ i' = 1
    /\ Keep /\ UNCHANGED <<source, reading, ast, pc, location, arg, output, position>>

-----------------------------------------------------------------------------
(* ivm_symtab_compute_values                                                *)

InResolve == phase = "resolve" /\ frames = << >> /\ i \in Entries

\* The loop passes over an entry that is done without its step (mutant of
\* Passes).
PassesNot == UNCHANGED i
Passes == i' = i + 1

ResolveDone ==
    /\ InResolve /\ symtab[i].step = DONE
    /\ Passes
    /\ Keep
    /\ UNCHANGED <<phase, source, reading, ast, pc, location, arg, output, position>>

ResolveLabel ==
    /\ InResolve /\ symtab[i].step = NOT_DONE /\ symtab[i].kind = "label"
    /\ symtab' = Computed(i, LabelValue(i))
    /\ UNCHANGED <<frames, traceback_to, printed, phase, pass_vars>>

ResolveConst ==
    /\ InResolve /\ symtab[i].step = NOT_DONE /\ symtab[i].kind = "const"
    /\ Enter(i)
    /\ UNCHANGED pass_vars

ResolveEnd ==
    /\ phase = "resolve" /\ frames = << >> /\ i \notin Entries
    /\ phase' = "emit" /\ i' = 1
    /\ Keep /\ UNCHANGED <<source, reading, ast, pc, location, arg, output, position>>

\* A step of the calculator or of _get_value.
Compute == Calculate /\ UNCHANGED pass_vars

-----------------------------------------------------------------------------
(* The second pass.                                                         *)

InEmit == phase = "emit" /\ frames = << >> /\ i <= Len(ast)

\* One item of so many bytes, or several.
Item(at, kind, value) == [at |-> at, kind |-> kind, value |-> value]
Written(items, size) == output' = output \o items /\ position' = position + size

\* iasm_emit_number: the lower bytes.
NumberItem(at, size, v) == Item(at, "number", Unsigned(v) % Weight(size))

Emitted ==
    /\ i' = i + 1 /\ arg' = 1
    /\ Keep /\ UNCHANGED <<phase, source, reading, ast, pc, location>>

EmitNothing ==
    /\ InEmit /\ S.type \in {"label", "const", "symtype"}
    /\ Emitted /\ UNCHANGED <<output, position>>

EmitBlob ==
    /\ InEmit /\ S.type = "blob"
    /\ Written([k \in 1..S.size |-> Item(position + k - 1, "char", 0)], S.size)
    /\ Emitted

\* ivm_compute_expression of the number, or of the next argument
EmitExpression ==
    /\ InEmit
    /\ \/ S.type = "number"
       \/ S.type = "instr" /\ arg <= Len(S.args)
    /\ frames' = <<Activation(0, S.args[arg])>>
    /\ UNCHANGED <<symtab, traceback_to, printed, phase, pass_vars>>

EmitNumber ==
    /\ EndsWell /\ phase = "emit" /\ S.type = "number"
    /\ Written(<<NumberItem(position, S.size, Result(Top))>>, S.size)
    /\ frames' = << >> /\ i' = i + 1
    /\ UNCHANGED <<symtab, traceback_to, printed, phase>>
    /\ UNCHANGED <<source, reading, ast, pc, location, arg>>

\* The pushes before it are forgotten (mutant of JumpFrom).
JumpFromFirst(s, at) == at

\* The address of the opcode, behind the pushes.
JumpFrom(s, at) == at + PUSH_LENGTH * Len(s.args)

EmitArgument ==
    /\ EndsWell /\ phase = "emit" /\ S.type = "instr"
    /\ LET param == IF arg = Len(S.args) /\ Flags[S.name] = "IF_REL"
                    THEN Wrap(Result(Top) - JumpFrom(S, pc[i]))
                    ELSE Result(Top)
       IN  Written(<<Item(position, "push", 0), NumberItem(position + 1, WORD, param)>>,
                  PUSH_LENGTH)
    /\ frames' = << >> /\ arg' = arg + 1
    /\ UNCHANGED <<symtab, traceback_to, printed, phase>>
    /\ UNCHANGED <<source, reading, ast, pc, location, i>>

EmitInstr ==
    /\ InEmit /\ S.type = "instr" /\ arg > Len(S.args)
    /\ IF Flags[S.name] = "IF_PUSH" THEN UNCHANGED <<output, position>>
       ELSE Written(<<Item(position, S.name, 0)>>, 1)
    /\ Emitted

EmitEnd ==
    /\ phase = "emit" /\ frames = << >> /\ i > Len(ast)
    /\ Fail("done")

-----------------------------------------------------------------------------
\* The process has ended, or goes round in the loop of match.c:79.
Rest == phase \in {"done", "failed", "panicked", "trimming"} /\ UNCHANGED vars

Next ==
    \/ OpenMain \/ ReadInclude \/ ReadStatement \/ ReadEnd
    \/ LayoutSymbol \/ LayoutInstr \/ LayoutData \/ LayoutSymType \/ LayoutEnd
    \/ ResolveDone \/ ResolveLabel \/ ResolveConst \/ ResolveEnd \/ Compute
    \/ EmitNothing \/ EmitBlob \/ EmitExpression \/ EmitNumber \/ EmitArgument
    \/ EmitInstr \/ EmitEnd
    \/ Rest

Spec == Init /\ [][Next]_vars
FairSpec == Spec /\ WF_vars(Next)

-----------------------------------------------------------------------------
(* Properties that need no reference.                                       *)

Phases ==
    {"start", "read", "layout", "resolve", "unwind", "emit",
     "done", "failed", "panicked", "trimming"}

ItemKinds == {"char", "number", "push"} \cup DOMAIN Flags

\* The types; the values of symbols and of what the calculator holds are words.
TypeOK ==
    /\ SymtabTypeOK
    /\ phase \in Phases
    /\ \A file \in DOMAIN source : source[file] \in Seq(Statements)
    /\ \A k \in DOMAIN reading :
         /\ reading[k].file \in DOMAIN source
         /\ reading[k].next \in 1..Len(source[reading[k].file]) + 1
    /\ ast \in Seq(Statements) /\ pc \in Seq(Nat) /\ location \in Nat
    /\ i \in Nat \ {0} /\ arg \in Nat \ {0}
    /\ output \in Seq([at : Nat, kind : ItemKinds, value : Nat]) /\ position \in Nat

\* The recursion of _get_value is on the stack of calls and nowhere else: an
\* entry is in progress exactly while an activation computes it, and only one
\* does.  So the recursion ends, and what is taken for a loop is one.
InProgressIsOnStack ==
    /\ \A e \in Entries :
         symtab[e].step = IN_PROGRESS <=> \E k \in DOMAIN frames : frames[k].entry = e
    /\ \A j, k \in DOMAIN frames : frames[j].entry = frames[k].entry => j = k

Mentions(e, d) ==
    \E t \in Range(symtab[e].expr) : t.kind = "name" /\ t.text = symtab[d].name

\* The report of a loop shows a loop, as the comment at symtab.c:97 draws it:
\* every line mentions the one above it, the first mentions the one that the
\* arrow ends at, and the line goes down to that one and no further.
LoopReportIsACycle ==
    LET lines == [k \in DOMAIN printed |-> printed[k].entry]
    IN  /\ \A k \in DOMAIN lines : k > 1 => Mentions(lines[k], lines[k - 1])
        /\ printed # << >> => Mentions(lines[1], traceback_to)
        /\ \A k \in DOMAIN lines :
             printed[k].mark = "outside" <=> \E j \in 1..k - 1 : lines[j] = traceback_to
        /\ \A k \in DOMAIN lines :
             printed[k].mark = "last" <=> k > 1 /\ lines[k] = traceback_to
        /\ phase = "failed" /\ printed # << >> =>
             \E k \in DOMAIN lines : lines[k] = traceback_to

\* The second pass writes every statement where the first one has put it, so a
\* label is the address of what follows it.
PassesAgree ==
    /\ phase = "emit" /\ i <= Len(ast) => position = pc[i] + PUSH_LENGTH * (arg - 1)
    /\ phase = "done" => position = location

\* What was written last before the address a.
NumberBefore(a) ==
    CHOOSE k \in DOMAIN output : output[k].kind = "number" /\ output[k].at = a - WORD

\* A relative jump to a label gets there: the processor adds the operand to
\* the address of the opcode itself (RelJump of Machine).
JumpsLand ==
    phase = "done" =>
        \A k, l \in DOMAIN ast :
            /\ ast[k].type = "instr" /\ ast[k].name = "rjmp"
            /\ ast[l].type = "label" /\ ast[k].args # << >>
            /\ Last(ast[k].args) = <<Name(ast[l].name)>>
            => \E j \in DOMAIN output :
                 /\ output[j] = Item(pc[k] + PUSH_LENGTH * Len(ast[k].args), "rjmp", 0)
                 /\ Wrap(output[j].at + output[NumberBefore(output[j].at)].value) = Wrap(pc[l])

HasSemicolon ==
    \E file \in DOMAIN source : \E k \in DOMAIN source[file] :
        \/ source[file][k].type = "comment"
        \/ \E a \in DOMAIN source[file][k].args :
             SEMICOLON \in Range(source[file][k].args[a])

\* Every program without `;` is assembled or refused, loops among its symbols
\* and its includes notwithstanding.
Terminates == HasSemicolon \/ <>(phase \in {"done", "failed", "panicked"})

\* docs/asm-directives.md:10: "; Draw an `A` at (0,0) on the screen": a `;` begins
\* a comment.  A program that has one is assembled or refused like any other.
CommentsAreSkipped == <>(phase \in {"done", "failed", "panicked"})

=============================================================================
