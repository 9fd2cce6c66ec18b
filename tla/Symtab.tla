------------------------------- MODULE Symtab -------------------------------
(***************************************************************************)
(* The symbol table (asm/symtab.c) and the recursion between it and the     *)
(* calculator: an expression that names a symbol has _get_value compute     *)
(* that symbol first, in an activation of its own.  frames is the C stack   *)
(* of these activations; a symbol met again while it is being computed is a *)
(* loop, which is reported by longjmp from activation to activation.        *)
(***************************************************************************)
EXTENDS Calc

VARIABLES
    symtab,         \* the entries, in the order of their definition
    frames,         \* activations of _compute_fn, innermost last
    traceback_to,   \* entry the loop closes at, or 0
    printed,        \* lines of the report of a loop: [entry, mark]
    phase           \* what the assembler is doing

symtab_vars == <<symtab, frames, traceback_to, printed, phase>>

NOT_DONE == "NOT_DONE"
IN_PROGRESS == "IN_PROGRESS"
DONE == "DONE"

\* A label knows its location; a constant has an expression.
Entry(kind, name, location, expr) ==
    [kind |-> kind, name |-> name, location |-> location, expr |-> expr,
     value |-> 0, step |-> NOT_DONE]

SymtabEntries ==
    [kind : {"label", "const"}, name : STRING, location : Nat, expr : Seq(Tokens),
     value : Words, step : {NOT_DONE, IN_PROGRESS, DONE}]

Marks == {"first", "between", "last", "outside"}

SymtabInit ==
    /\ symtab = << >> /\ frames = << >>
    /\ traceback_to = 0 /\ printed = << >>

Entries == DOMAIN symtab

\* ivm_symtab_get_entry
Known(n) == \E e \in Entries : symtab[e].name = n
EntryOf(n) == CHOOSE e \in Entries :
    symtab[e].name = n /\ \A d \in 1..e - 1 : symtab[d].name # n

\* ivm_symtab_add_entry, which exits on a redefinition
Adds(entry) == ~Known(entry.name) /\ symtab' = Append(symtab, entry)

Stop(how) ==
    /\ phase' = how
    /\ UNCHANGED <<symtab, frames, traceback_to, printed>>

SymtabTypeOK ==
    /\ symtab \in Seq(SymtabEntries) /\ frames \in Seq(Activations)
    /\ traceback_to \in {0} \cup Entries
    /\ printed \in Seq([entry : Entries, mark : Marks])

-----------------------------------------------------------------------------
(* The innermost activation.                                                *)

Top == Last(frames)
Resume(f) == frames' = Append(Front(frames), f)

Running == frames # << >> /\ phase \in {"resolve", "emit"}
Trimmed == Running /\ NextToken(Top).kind # "semicolon"

\* ivm_trim_ws_and_comments takes a `;` for a comment, ivm_match_comment does
\* not: the loop of match.c:79 never moves.
MeetSemicolon ==
    /\ Running /\ NextToken(Top).kind = "semicolon"
    /\ Stop("trimming")

ExecuteOperator ==
    /\ Trimmed /\ MustExecute(Top)
    /\ IF ExecutePanics(Top) THEN Stop("panicked")
       ELSE IF ExecuteFails(Top) THEN Stop("failed")
       ELSE /\ Resume(Executed(Top))
            /\ UNCHANGED <<symtab, traceback_to, printed, phase>>

TakesToken == Trimmed /\ ~MustExecute(Top) /\ ~AtEnd(Top)

TakeBadToken == TakesToken /\ TokenFails(Top) /\ Stop("failed")

TakeToken ==
    /\ TakesToken /\ ~TokenFails(Top) /\ NextToken(Top).kind # "name"
    /\ Resume(Shifted(Top))
    /\ UNCHANGED <<symtab, traceback_to, printed, phase>>

-----------------------------------------------------------------------------
(* Names: get_value.                                                        *)

TakesName == TakesToken /\ ~TokenFails(Top) /\ NextToken(Top).kind = "name"
Named == EntryOf(NextToken(Top).text)

TakeUnknownName ==
    /\ TakesName /\ ~Known(NextToken(Top).text)
    /\ Stop("failed")

TakesSymbol == TakesName /\ Known(NextToken(Top).text)

\* The second pass uses _fake_get_value.
TakeValue ==
    /\ TakesSymbol /\ phase = "emit"
    /\ IF symtab[Named].step # DONE THEN Stop("panicked")
       ELSE /\ Resume(Operand(Top, symtab[Named].value))
            /\ UNCHANGED <<symtab, traceback_to, printed, phase>>

Computed(e, v) == [symtab EXCEPT ![e].value = v, ![e].step = DONE]

\* _compute_label: the location, in an ivm_sym_value_t.
LabelValue(e) == Wrap(symtab[e].location)

\* _get_value of a label, which needs nothing else.
TakeLabel ==
    /\ TakesSymbol /\ phase = "resolve" /\ symtab[Named].kind = "label"
    /\ symtab' = Computed(Named, LabelValue(Named))
    /\ Resume(Operand(Top, LabelValue(Named)))
    /\ UNCHANGED <<traceback_to, printed, phase>>

Enter(e) ==
    /\ symtab' = [symtab EXCEPT ![e].step = IN_PROGRESS]
    /\ frames' = Append(frames, Activation(e, symtab[e].expr))
    /\ UNCHANGED <<traceback_to, printed, phase>>

\* _get_value of a constant that is not being computed: also of one that is
\* done, which is computed again.
TakeConstant ==
    /\ TakesSymbol /\ phase = "resolve" /\ symtab[Named].kind = "const"
    /\ symtab[Named].step # IN_PROGRESS
    /\ Enter(Named)

\* _get_value of an entry that is being computed.
FindLoop ==
    /\ TakesSymbol /\ phase = "resolve" /\ symtab[Named].step = IN_PROGRESS
    /\ traceback_to' = Named
    /\ phase' = "unwind"
    /\ UNCHANGED <<symtab, frames, printed>>

\* The end of an expression that cannot be the end of one.
EndBadly ==
    /\ Trimmed /\ ~MustExecute(Top) /\ AtEnd(Top)
    /\ \/ EndFails(Top) /\ Stop("failed")
       \/ ~EndFails(Top) /\ EndPanics(Top) /\ Stop("panicked")

EndsWell ==
    /\ Trimmed /\ ~MustExecute(Top) /\ AtEnd(Top)
    /\ ~EndFails(Top) /\ ~EndPanics(Top)

\* A value that is stored and the entry left in progress (mutant of Stored).
StoredInProgress(e, v) == [symtab EXCEPT ![e].value = v]

\* The value of a constant is known, and whoever asked for it goes on.
Stored(e, v) == Computed(e, v)

Return ==
    /\ EndsWell /\ phase = "resolve"
    /\ symtab' = Stored(Top.entry, Result(Top))
    /\ frames' =
         IF Len(frames) = 1 THEN << >>
         ELSE LET caller == frames[Len(frames) - 1]
              IN  Append(SubSeq(frames, 1, Len(frames) - 2), Operand(caller, Result(Top)))
    /\ UNCHANGED <<traceback_to, printed, phase>>

-----------------------------------------------------------------------------
(* The report of a loop.                                                    *)

\* The line to the first entry printed, whatever is in progress (mutant of
\* Mark).
MarkAllBetween(e) ==
    IF printed = << >> THEN "first" ELSE IF e = traceback_to THEN "last" ELSE "between"

\* The sign before the name of entry e.
Mark(e) ==
    IF printed = << >> THEN "first"
    ELSE IF e = traceback_to THEN "last"
    ELSE IF symtab[traceback_to].step = IN_PROGRESS THEN "between"
    ELSE "outside"

\* One longjmp: out of the innermost activation, which prints its entry.
Unwind ==
    /\ phase = "unwind" /\ frames # << >>
    /\ printed' = Append(printed, [entry |-> Top.entry, mark |-> Mark(Top.entry)])
    /\ symtab' = [symtab EXCEPT ![Top.entry].step = DONE]
    /\ frames' = Front(frames)
    /\ UNCHANGED <<traceback_to, phase>>

EndUnwind == phase = "unwind" /\ frames = << >> /\ Stop("failed")

Calculate ==
    \/ MeetSemicolon \/ ExecuteOperator \/ TakeBadToken \/ TakeToken
    \/ TakeUnknownName \/ TakeValue \/ TakeLabel \/ TakeConstant \/ FindLoop
    \/ EndBadly \/ Return \/ Unwind \/ EndUnwind

=============================================================================
