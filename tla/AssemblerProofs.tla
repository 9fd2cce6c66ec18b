-------------------------- MODULE AssemblerProofs --------------------------
(***************************************************************************)
(* What holds of the assembler for every program, every place of the ROM    *)
(* and every width of a word: the two passes agree about where things are,  *)
(* and the recursion among the symbols is on the stack of calls.            *)
(***************************************************************************)
EXTENDS Assembler, WordsProofs, SequenceTheorems, TLAPS

-----------------------------------------------------------------------------
(* Sequences of whatever: what the calculator holds matters only in the      *)
(* section on types.                                                        *)

IsSeq(s) == s \in Seq(Range(s))

LEMMA SeqOver ==
    ASSUME NEW T, NEW R, NEW s \in Seq(T), \A k \in 1..Len(s) : s[k] \in R
    PROVE  s \in Seq(R)
<1>1. Len(s) \in Nat
  BY LenProperties
<1> DEFINE t == SubSeq(s, 1, Len(s))
<1>2. \A k \in 1..Len(s) : s[k] \in T
  BY ElementOfSeq
<1>3. t \in Seq(T) /\ Len(t) = Len(s) /\ \A k \in 1..Len(s) : t[k] = s[k]
  BY <1>1, <1>2, SubSeqProperties
<1>4. t \in Seq(R)
  BY <1>1, SubSeqProperties
<1> HIDE DEF t
<1>5. s = t
  BY <1>3, SeqEqual
<1>6. QED
  BY <1>4, <1>5

LEMMA SomeSeq ==
    ASSUME NEW T, NEW s \in Seq(T)
    PROVE  IsSeq(s)
<1>1. DOMAIN s = 1..Len(s)
  BY LenProperties
<1>2. \A k \in 1..Len(s) : s[k] \in Range(s)
  BY <1>1 DEF Range
<1>3. QED
  BY <1>2, SeqOver DEF IsSeq

LEMMA SeqFacts ==
    ASSUME NEW s, IsSeq(s)
    PROVE  /\ Len(s) \in Nat /\ DOMAIN s = 1..Len(s)
           /\ s = << >> <=> Len(s) = 0
<1>1. s \in Seq(Range(s))
  BY DEF IsSeq
<1>2. Len(s) \in Nat /\ DOMAIN s = 1..Len(s)
  BY <1>1, LenProperties
<1>3. QED
  BY <1>1, <1>2, EmptySeq

LEMMA EmptyIsSeq == IsSeq(<< >>) /\ Len(<< >>) = 0
BY EmptySeq, SomeSeq

LEMMA AppendSeq ==
    ASSUME NEW s, IsSeq(s), NEW e
    PROVE  /\ IsSeq(Append(s, e)) /\ Len(Append(s, e)) = Len(s) + 1
           /\ Append(s, e) # << >>
           /\ \A k \in 1..Len(s) : Append(s, e)[k] = s[k]
           /\ Append(s, e)[Len(s) + 1] = e
<1> DEFINE T == Range(s) \cup {e}
<1>1. s \in Seq(Range(s)) /\ DOMAIN s = 1..Len(s)
  BY LenProperties DEF IsSeq
<1>2. \A k \in 1..Len(s) : s[k] \in T
  BY <1>1 DEF Range
<1>3. e \in T
  OBVIOUS
<1> HIDE DEF T
<1>4. s \in Seq(T)
  BY <1>1, <1>2, SeqOver
<1>5. /\ Append(s, e) \in Seq(T) /\ Len(Append(s, e)) = Len(s) + 1
      /\ Append(s, e) # << >>
      /\ \A k \in 1..Len(s) : Append(s, e)[k] = s[k]
      /\ Append(s, e)[Len(s) + 1] = e
  BY <1>3, <1>4, AppendProperties
<1>6. IsSeq(Append(s, e))
  BY <1>5, SomeSeq
<1>7. QED
  BY <1>5, <1>6

LEMMA SubSeqSeq ==
    ASSUME NEW s, IsSeq(s), NEW n \in Nat, n <= Len(s)
    PROVE  /\ IsSeq(SubSeq(s, 1, n)) /\ Len(SubSeq(s, 1, n)) = n
           /\ \A k \in 1..n : SubSeq(s, 1, n)[k] = s[k]
<1>1. Len(s) \in Nat /\ DOMAIN s = 1..Len(s)
  BY SeqFacts
<1>2. \A k \in 1..n : s[k] \in Range(s)
  BY <1>1 DEF Range
<1>3. /\ SubSeq(s, 1, n) \in Seq(Range(s))
      /\ Len(SubSeq(s, 1, n)) = IF 1 <= n THEN n - 1 + 1 ELSE 0
      /\ \A k \in 1..n - 1 + 1 : SubSeq(s, 1, n)[k] = s[1 + k - 1]
  BY <1>2, SubSeqProperties
<1>4. IsSeq(SubSeq(s, 1, n))
  BY <1>3, SomeSeq
<1>5. Len(SubSeq(s, 1, n)) = n
  BY <1>3
<1>6. ASSUME NEW k \in 1..n PROVE SubSeq(s, 1, n)[k] = s[k]
  <2>1. k \in 1..n - 1 + 1 /\ 1 + k - 1 = k
    OBVIOUS
  <2>2. QED
    BY <1>3, <2>1
<1>7. QED
  BY <1>4, <1>5, <1>6

LEMMA FrontSeq ==
    ASSUME NEW s, IsSeq(s), s # << >>
    PROVE  /\ Len(s) \in Nat \ {0}
           /\ IsSeq(Front(s)) /\ Len(Front(s)) = Len(s) - 1
           /\ \A k \in 1..Len(s) - 1 : Front(s)[k] = s[k]
<1>1. Len(s) \in Nat \ {0}
  BY SeqFacts
<1>2. Len(s) - 1 \in Nat /\ Len(s) - 1 <= Len(s)
  BY <1>1
<1>3. QED
  BY <1>1, <1>2, SubSeqSeq DEF Front

\* The innermost activation is replaced.
LEMMA ReplaceLast ==
    ASSUME NEW s, IsSeq(s), s # << >>, NEW e
    PROVE  /\ Len(s) \in Nat \ {0}
           /\ IsSeq(Append(Front(s), e)) /\ Len(Append(Front(s), e)) = Len(s)
           /\ Append(Front(s), e) # << >>
           /\ \A k \in 1..Len(s) - 1 : Append(Front(s), e)[k] = s[k]
           /\ Append(Front(s), e)[Len(s)] = e
<1>1. /\ Len(s) \in Nat \ {0}
      /\ IsSeq(Front(s)) /\ Len(Front(s)) = Len(s) - 1
      /\ \A k \in 1..Len(s) - 1 : Front(s)[k] = s[k]
  BY FrontSeq
<1> DEFINE f == Front(s)
<1>2. /\ IsSeq(Append(f, e)) /\ Len(Append(f, e)) = Len(f) + 1
      /\ Append(f, e) # << >>
      /\ \A k \in 1..Len(f) : Append(f, e)[k] = f[k]
      /\ Append(f, e)[Len(f) + 1] = e
  BY <1>1, AppendSeq
<1>3. QED
  BY <1>1, <1>2

-----------------------------------------------------------------------------
(* What the calculator does to the phase.                                   *)

LEMMA CalculatePhase ==
    ASSUME Calculate
    PROVE  \/ phase' \in {"failed", "panicked", "trimming"}
           \/ phase' = "unwind" /\ phase \in {"resolve", "unwind"}
           \/ phase' = phase /\ phase \in {"resolve", "emit"} /\ frames # << >>
<1>1. CASE MeetSemicolon
  BY <1>1 DEF MeetSemicolon, Stop
<1>2. CASE ExecuteOperator
  BY <1>2 DEF ExecuteOperator, Trimmed, Running, Stop
<1>3. CASE TakeBadToken
  BY <1>3 DEF TakeBadToken, Stop
<1>4. CASE TakeToken
  BY <1>4 DEF TakeToken, TakesToken, Trimmed, Running
<1>5. CASE TakeUnknownName
  BY <1>5 DEF TakeUnknownName, Stop
<1>6. CASE TakeValue
  BY <1>6 DEF TakeValue, TakesSymbol, TakesName, TakesToken, Trimmed, Running, Stop
<1>7. CASE TakeLabel
  BY <1>7 DEF TakeLabel, TakesSymbol, TakesName, TakesToken, Trimmed, Running
<1>8. CASE TakeConstant
  BY <1>8 DEF TakeConstant, Enter, TakesSymbol, TakesName, TakesToken, Trimmed, Running
<1>9. CASE FindLoop
  BY <1>9 DEF FindLoop
<1>10. CASE EndBadly
  BY <1>10 DEF EndBadly, Stop
<1>11. CASE Return
  BY <1>11 DEF Return, EndsWell, Trimmed, Running
<1>12. CASE Unwind
  BY <1>12 DEF Unwind
<1>13. CASE EndUnwind
  BY <1>13 DEF EndUnwind, Stop
<1>14. QED
  BY <1>1, <1>2, <1>3, <1>4, <1>5, <1>6, <1>7, <1>8, <1>9, <1>10, <1>11, <1>12, <1>13
     DEF Calculate

-----------------------------------------------------------------------------
(* The two passes.                                                          *)

Readers == [file : DOMAIN source, next : Nat \ {0}]

ReadOK ==
    /\ \A file \in DOMAIN source : source[file] \in Seq(Statements)
    /\ reading \in Seq(Readers)
    /\ ast \in Seq(Statements)

\* Where the k-th statement begins, or where the next one would.
At(k) == IF k <= Len(pc) THEN pc[k] ELSE location

\* Every statement begins where the one before it ends.
Adjacent ==
    /\ pc \in Seq(Nat) /\ location \in Nat /\ Len(pc) <= Len(ast)
    /\ At(1) = LABEL_OFFSET
    /\ \A k \in 1..Len(pc) : At(k + 1) = At(k) + Size(ast[k])

Emitting ==
    /\ i \in 1..Len(ast) + 1 /\ arg \in Nat \ {0}
    /\ position = At(i) + PUSH_LENGTH * (arg - 1)
    /\ arg # 1 => i <= Len(ast) /\ ast[i].type = "instr" /\ arg <= Len(ast[i].args) + 1
    /\ frames # << >> =>
         /\ i <= Len(ast)
         /\ \/ ast[i].type = "number"
            \/ ast[i].type = "instr" /\ arg <= Len(ast[i].args)

Before == {"start", "read", "layout", "resolve", "unwind"}

PassInv ==
    /\ ReadOK /\ Adjacent
    /\ phase \in {"start", "read"} => pc = << >> /\ i = 1
    /\ phase = "layout" => i = Len(pc) + 1
    /\ phase \in {"resolve", "unwind", "emit"} => Len(pc) = Len(ast)
    /\ phase \in {"start", "read", "layout"} => frames = << >>
    /\ phase \in Before => position = LABEL_OFFSET /\ arg = 1
    /\ phase = "emit" => Emitting
    /\ phase = "done" => position = location

LEMMA PassInit == Init => PassInv
<1> SUFFICES ASSUME Init PROVE PassInv
  OBVIOUS
<1>1. ReadOK
  <2>1. \A file \in DOMAIN source : source[file] \in Seq(Statements)
    BY AssemblerAssumption DEF Init
  <2>2. QED
    BY <2>1, EmptySeq DEF ReadOK, Init
<1>2. Adjacent
  <2>1. pc \in Seq(Nat) /\ ast \in Seq(Statements) /\ Len(pc) = 0 /\ Len(ast) = 0
    BY EmptySeq DEF Init
  <2>2. location \in Nat /\ location = LABEL_OFFSET
    BY AssemblerAssumption DEF Init
  <2>3. QED
    BY <2>1, <2>2 DEF Adjacent, At
<1>3. QED
  BY <1>1, <1>2 DEF PassInv, Init, SymtabInit, Before

\* A push more or less.
LEMMA Pushes ==
    /\ WORD \in Nat \ {0} /\ PUSH_LENGTH = WORD + 1 /\ PUSH_LENGTH \in Nat
    /\ PUSH_LENGTH * (1 - 1) = 0
    /\ \A n \in Nat : PUSH_LENGTH * n \in Nat
    /\ \A n \in Int : /\ PUSH_LENGTH * n \in Int
                      /\ PUSH_LENGTH * ((n + 1) - 1) = PUSH_LENGTH * (n - 1) + PUSH_LENGTH
                      /\ PUSH_LENGTH * ((n + 1) - 1) = PUSH_LENGTH * n
                      /\ PUSH_LENGTH * n = PUSH_LENGTH * (n - 1) + PUSH_LENGTH
<1>1. WORD \in Nat \ {0} /\ PUSH_LENGTH = WORD + 1 /\ PUSH_LENGTH \in Nat
  BY WordAssumption DEF PUSH_LENGTH
<1>2. ASSUME NEW p \in Nat
      PROVE  /\ p * (1 - 1) = 0
             /\ \A n \in Nat : p * n \in Nat
             /\ \A n \in Int : p * n \in Int /\ p * ((n + 1) - 1) = p * (n - 1) + p
                               /\ p * ((n + 1) - 1) = p * n
                               /\ p * n = p * (n - 1) + p
  OBVIOUS
<1> HIDE DEF PUSH_LENGTH
<1>3. QED
  BY <1>1, <1>2

LEMMA SizeIsNat ==
    ASSUME NEW s \in Statements, s.type = "blob" => s.size >= 0
    PROVE  Size(s) \in Nat
<1>1. /\ s.type \in StatementTypes /\ s.size \in Int
      /\ s.type # "blob" => s.size >= 0 /\ s.args \in Seq(Seq(Tokens))
  BY DEF Statements
<1>2. s.size \in Nat
  BY <1>1
<1>3. Len(s.args) \in Nat
  <2>1. s.args \in Seq(Seq(Tokens))
    BY DEF Statements
  <2>2. QED
    BY <2>1, LenProperties
<1>4. InstrLength(s) \in Nat
  <2> DEFINE n == Len(s.args)
             b == Flags[s.name] = "IF_PUSH"
  <2>1. n \in Nat /\ InstrLength(s) = (IF b THEN 0 ELSE 1) + PUSH_LENGTH * n
    BY <1>3 DEF InstrLength
  <2> HIDE DEF n, b
  <2>2. (IF b THEN 0 ELSE 1) \in {0, 1} /\ PUSH_LENGTH * n \in Nat
    BY <2>1, Pushes
  <2>3. QED
    BY <2>1, <2>2
<1>5. QED
  BY <1>2, <1>4 DEF Size

\* Reading a file or a statement changes nothing but the tree.
LEMMA ReadingStep ==
    ASSUME PassInv, OpenMain \/ ReadInclude \/ ReadStatement \/ ReadEnd
    PROVE  PassInv'
<1> DEFINE Same == UNCHANGED <<source, pc, location, i, arg, output, position, frames>>
<1>1. phase \in {"start", "read"} /\ Same
  BY DEF OpenMain, ReadInclude, ReadStatement, ReadEnd, Keep
<1>2. phase' \in {"start", "read", "layout", "failed", "panicked", "trimming"}
  BY DEF OpenMain, ReadInclude, ReadStatement, ReadEnd, Open
<1>3. pc = << >> /\ i = 1 /\ frames = << >> /\ position = LABEL_OFFSET /\ arg = 1
  BY <1>1 DEF PassInv, Before
<1>4. ASSUME reading # << >>
      PROVE  /\ Front(reading) \in Seq(Readers) /\ Reader \in Readers
             /\ ReaderMoved \in Seq(Readers)
  <2>1. reading \in Seq(Readers)
    BY DEF PassInv, ReadOK
  <2>2. Len(reading) \in Nat \ {0} /\ \A k \in 1..Len(reading) : reading[k] \in Readers
    BY <1>4, <2>1, EmptySeq, ElementOfSeq
  <2>3. Front(reading) \in Seq(Readers)
    <3>1. \A k \in 1..Len(reading) - 1 : reading[k] \in Readers
      BY <2>2
    <3>2. QED
      BY <2>2, <3>1, SubSeqProperties DEF Front
  <2>4. Reader \in Readers
    BY <2>2 DEF Reader, Last
  <2>5. [Reader EXCEPT !.next = @ + 1] \in Readers
    BY <2>4 DEF Readers
  <2>6. QED
    BY <2>3, <2>4, <2>5, AppendProperties DEF ReaderMoved
<1>5. ASSUME NEW file, NEW callers \in Seq(Readers), Open(file, callers)
      PROVE  reading' \in Seq(Readers) /\ ast' = ast
  <2>1. ast' = ast
    BY <1>5 DEF Open
  <2>2. reading \in Seq(Readers)
    BY DEF PassInv, ReadOK
  <2>3. CASE reading' = reading
    BY <2>1, <2>2, <2>3
  <2>4. CASE file \in DOMAIN source /\ reading' = Append(callers, [file |-> file, next |-> 1])
    <3>1. [file |-> file, next |-> 1] \in Readers
      BY <2>4 DEF Readers
    <3>2. QED
      BY <2>1, <2>4, <3>1, AppendProperties
  <2>5. QED
    BY <1>5, <2>3, <2>4 DEF Open
<1>6. reading' \in Seq(Readers) /\ ast' \in Seq(Statements)
  <2>1. ast \in Seq(Statements) /\ reading \in Seq(Readers)
    BY DEF PassInv, ReadOK
  <2>2. CASE OpenMain
    BY <1>5, <2>1, <2>2, EmptySeq DEF OpenMain
  <2>3. CASE ReadInclude
    BY <1>4, <1>5, <2>1, <2>3 DEF ReadInclude
  <2>4. CASE ReadStatement
    <3>1. reading # << >> /\ ~ReaderDone /\ ast' = Append(ast, NextStatement)
          /\ reading' = ReaderMoved
      BY <2>4 DEF ReadStatement
    <3>2. Reader.file \in DOMAIN source /\ Reader.next \in Nat \ {0}
      BY <1>4, <3>1 DEF Readers
    <3>3. source[Reader.file] \in Seq(Statements)
      BY <3>2 DEF PassInv, ReadOK
    <3>4. Reader.next \in 1..Len(source[Reader.file])
      BY <3>1, <3>2, <3>3, LenProperties DEF ReaderDone
    <3>5. NextStatement \in Statements
      BY <3>3, <3>4, ElementOfSeq DEF NextStatement
    <3>6. QED
      BY <1>4, <2>1, <3>1, <3>5, AppendProperties
  <2>5. CASE ReadEnd
    BY <1>4, <2>1, <2>5 DEF ReadEnd
  <2>6. QED
    BY <2>2, <2>3, <2>4, <2>5
<1>7. ReadOK'
  <2>1. \A file \in DOMAIN source : source[file] \in Seq(Statements)
    BY DEF PassInv, ReadOK
  <2>2. QED
    BY <1>1, <1>6, <2>1 DEF ReadOK, Readers
<1>8. Adjacent'
  <2>1. Len(pc) = 0 /\ pc' = pc /\ location' = location /\ location \in Nat
    BY <1>1, <1>3, EmptySeq DEF PassInv, Adjacent
  <2>2. Len(ast') \in Nat
    BY <1>6, LenProperties
  <2>3. At(1)' = LABEL_OFFSET
    BY <2>1 DEF PassInv, Adjacent, At
  <2>4. pc' \in Seq(Nat)
    BY <2>1 DEF PassInv, Adjacent
  <2>5. QED
    BY <2>1, <2>2, <2>3, <2>4 DEF Adjacent
<1>9. i' = Len(pc') + 1
  BY <1>1, <1>3, EmptySeq
<1>10. QED
  BY <1>1, <1>2, <1>3, <1>7, <1>8, <1>9 DEF PassInv, Before

\* The first pass puts one statement more behind the others.
LEMMA LocatedStep ==
    ASSUME PassInv, phase = "layout", i <= Len(ast), Located,
           ast[i].type = "blob" => ast[i].size >= 0
    PROVE  PassInv'
<1>1. /\ ast \in Seq(Statements) /\ pc \in Seq(Nat) /\ location \in Nat
      /\ i = Len(pc) + 1 /\ Len(pc) <= Len(ast) /\ At(1) = LABEL_OFFSET
      /\ \A k \in 1..Len(pc) : At(k + 1) = At(k) + Size(ast[k])
      /\ frames = << >> /\ position = LABEL_OFFSET /\ arg = 1
  BY DEF PassInv, ReadOK, Adjacent, Before
<1>2. /\ pc' = Append(pc, location) /\ location' = location + Size(ast[i]) /\ i' = i + 1
      /\ phase' = phase /\ frames' = frames /\ source' = source /\ reading' = reading
      /\ ast' = ast /\ arg' = arg /\ position' = position
  BY DEF Located, S
<1>3. Len(pc) \in Nat /\ Len(ast) \in Nat
  BY <1>1, LenProperties
<1>4. /\ pc' \in Seq(Nat) /\ Len(pc') = Len(pc) + 1
      /\ \A k \in 1..Len(pc) : pc'[k] = pc[k]
      /\ pc'[Len(pc) + 1] = location
  BY <1>1, <1>2, AppendProperties
<1>5. Size(ast[i]) \in Nat
  <2>1. ast[i] \in Statements
    BY <1>1, <1>3, ElementOfSeq
  <2>2. QED
    BY <2>1, SizeIsNat
<1>6. \A k \in 1..Len(pc) + 1 : At(k)' = At(k)
  BY <1>3, <1>4 DEF At
<1>7. At(Len(pc) + 2)' = At(Len(pc) + 1) + Size(ast[i])
  BY <1>2, <1>3, <1>4 DEF At
<1>8. Adjacent'
  <2>1. At(1)' = LABEL_OFFSET
    BY <1>1, <1>3, <1>6
  <2>2. ASSUME NEW k \in 1..Len(pc') PROVE At(k + 1)' = At(k)' + Size(ast'[k])
    <3>1. CASE k = Len(pc) + 1
      <4>1. k + 1 = Len(pc) + 2 /\ k \in 1..Len(pc) + 1 /\ ast'[k] = ast[i]
        BY <1>1, <1>2, <1>3, <3>1
      <4>2. At(k)' = At(k) /\ At(k) = At(Len(pc) + 1)
        BY <1>6, <3>1, <4>1
      <4>3. At(k + 1)' = At(Len(pc) + 2)'
        BY <1>3, <1>4, <4>1 DEF At
      <4>4. QED
        BY <1>7, <4>1, <4>2, <4>3
    <3>2. CASE k # Len(pc) + 1
      <4>1. k \in 1..Len(pc) /\ k + 1 \in 1..Len(pc) + 1 /\ k \in 1..Len(pc) + 1
        BY <1>3, <1>4, <3>2
      <4>2. QED
        BY <1>1, <1>2, <1>6, <4>1
    <3>3. QED
      BY <3>1, <3>2
  <2>3. location' \in Nat /\ Len(pc') <= Len(ast')
    BY <1>1, <1>2, <1>3, <1>4, <1>5
  <2>4. QED
    BY <1>4, <2>1, <2>2, <2>3 DEF Adjacent
<1>9. ReadOK'
  BY <1>2 DEF PassInv, ReadOK, Readers
<1>10. i' = Len(pc') + 1
  BY <1>1, <1>2, <1>3, <1>4
<1>11. QED
  BY <1>1, <1>2, <1>8, <1>9, <1>10 DEF PassInv, Before

\* Where the statements are is kept when the tree is kept and the pass is over.
LEMMA PlacesKept ==
    ASSUME PassInv, UNCHANGED <<source, reading, ast, pc, location>>
    PROVE  ReadOK' /\ Adjacent' /\ \A k : At(k)' = At(k)
<1>1. ReadOK'
  BY DEF PassInv, ReadOK, Readers
<1>2. \A k : At(k)' = At(k)
  BY DEF At
<1>3. Adjacent'
  BY <1>2 DEF PassInv, Adjacent
<1>4. QED
  BY <1>1, <1>2, <1>3

\* A program that is refused.
LEMMA FailStep ==
    ASSUME PassInv, NEW how \in {"failed", "panicked", "trimming"}, Fail(how)
    PROVE  PassInv'
<1>1. phase' = how /\ UNCHANGED <<source, reading, ast, pc, location>>
  BY DEF Fail, Stop, pass_vars
<1>2. ReadOK' /\ Adjacent'
  BY <1>1, PlacesKept
<1>3. QED
  BY <1>1, <1>2 DEF PassInv, Before

LEMMA LayoutStep ==
    ASSUME PassInv,
           LayoutSymbol \/ LayoutInstr \/ LayoutData \/ LayoutSymType \/ LayoutEnd
    PROVE  PassInv'
<1>1. CASE LayoutSymbol
  BY <1>1, FailStep, LocatedStep DEF LayoutSymbol, InLayout, S
<1>2. CASE LayoutInstr
  BY <1>2, FailStep, LocatedStep DEF LayoutInstr, InLayout, S
<1>3. CASE LayoutData
  <2>1. CASE S.size < 0
    BY <1>3, <2>1, FailStep DEF LayoutData
  <2>2. CASE ~(S.size < 0)
    <3>1. /\ phase = "layout" /\ i <= Len(ast) /\ Located /\ i = Len(pc) + 1
          /\ ast \in Seq(Statements) /\ pc \in Seq(Nat)
      BY <1>3, <2>2 DEF LayoutData, InLayout, PassInv, ReadOK, Adjacent
    <3>2. i \in 1..Len(ast)
      BY <3>1, LenProperties
    <3>3. ast[i].size \in Int
      BY <3>1, <3>2, ElementOfSeq DEF Statements
    <3>4. ast[i].size >= 0
      BY <2>2, <3>3 DEF S
    <3>5. QED
      BY <3>1, <3>4, LocatedStep
  <2>3. QED
    BY <2>1, <2>2
<1>4. CASE LayoutSymType
  BY <1>4, FailStep, LocatedStep DEF LayoutSymType, InLayout, S
<1>5. CASE LayoutEnd
  <2>1. /\ phase = "layout" /\ i > Len(ast) /\ phase' = "resolve"
        /\ frames' = frames /\ position' = position /\ arg' = arg
        /\ UNCHANGED <<source, reading, ast, pc, location>>
    BY <1>5 DEF LayoutEnd, Keep
  <2>2. ReadOK' /\ Adjacent'
    BY <2>1, PlacesKept
  <2>3. Len(pc') = Len(ast')
    <3>1. Len(pc) \in Nat /\ Len(ast) \in Nat
      BY LenProperties DEF PassInv, ReadOK, Adjacent
    <3>2. i = Len(pc) + 1 /\ Len(pc) <= Len(ast)
      BY <2>1 DEF PassInv, Adjacent
    <3>3. QED
      BY <2>1, <3>1, <3>2
  <2>4. QED
    BY <2>1, <2>2, <2>3 DEF PassInv, Before
<1>6. QED
  BY <1>1, <1>2, <1>3, <1>4, <1>5

\* Computing the symbols leaves the statements where they are.
LEMMA ResolveStep ==
    ASSUME PassInv,
           ResolveDone \/ ResolveLabel \/ ResolveConst \/ ResolveEnd
    PROVE  PassInv'
<1>1. /\ phase = "resolve" /\ phase' \in {"resolve", "emit"}
      /\ UNCHANGED <<source, reading, ast, pc, location>>
      /\ position' = position /\ arg' = arg
      /\ phase' = "emit" => i' = 1 /\ frames' = << >>
  BY DEF ResolveDone, ResolveLabel, ResolveConst, ResolveEnd, InResolve, Enter, Keep, pass_vars
<1>2. ReadOK' /\ Adjacent' /\ \A k : At(k)' = At(k)
  BY <1>1, PlacesKept
<1>3. Len(pc) = Len(ast) /\ position = LABEL_OFFSET /\ arg = 1 /\ At(1) = LABEL_OFFSET
  BY <1>1 DEF PassInv, Before, Adjacent
<1>4. CASE phase' = "resolve"
  BY <1>1, <1>2, <1>3, <1>4 DEF PassInv, Before
<1>5. CASE phase' = "emit"
  <2>1. Len(ast) \in Nat /\ LABEL_OFFSET \in Nat
    BY LenProperties, AssemblerAssumption DEF PassInv, ReadOK
  <2>2. Emitting'
    BY <1>1, <1>2, <1>3, <1>5, <2>1, Pushes DEF Emitting
  <2>3. QED
    BY <1>1, <1>2, <1>3, <1>5, <2>2 DEF PassInv, Before
<1>6. QED
  BY <1>1, <1>4, <1>5

LEMMA ComputeStep == PassInv /\ Compute => PassInv'
<1> SUFFICES ASSUME PassInv, Compute PROVE PassInv'
  OBVIOUS
<1>1. /\ UNCHANGED <<source, reading, ast, pc, location>>
      /\ i' = i /\ arg' = arg /\ position' = position
  BY DEF Compute, pass_vars
<1>2. ReadOK' /\ Adjacent' /\ \A k : At(k)' = At(k)
  BY <1>1, PlacesKept
<1>3. CASE phase' \in {"failed", "panicked", "trimming"}
  BY <1>2, <1>3 DEF PassInv, Before
<1>4. CASE phase' = "unwind" /\ phase \in {"resolve", "unwind"}
  BY <1>1, <1>2, <1>4 DEF PassInv, Before
<1>5. CASE phase' = phase /\ phase = "resolve"
  BY <1>1, <1>2, <1>5 DEF PassInv, Before
<1>6. CASE phase' = phase /\ phase = "emit" /\ frames # << >>
  <2>1. Emitting
    BY <1>6 DEF PassInv
  <2>2. Emitting'
    BY <1>1, <1>2, <1>6, <2>1 DEF Emitting
  <2>3. QED
    BY <1>1, <1>2, <1>6, <2>2 DEF PassInv, Before
<1>7. QED
  BY <1>3, <1>4, <1>5, <1>6, CalculatePhase DEF Compute

\* A statement is behind the second pass: what it wrote is its size.
LEMMA EmittedStep ==
    ASSUME PassInv, phase = "emit", i \in 1..Len(ast), phase' = phase,
           UNCHANGED <<source, reading, ast, pc, location>>,
           i' = i + 1, arg' = 1, frames' = << >>,
           position' = At(i) + Size(ast[i])
    PROVE  PassInv'
<1>1. ReadOK' /\ Adjacent' /\ \A k : At(k)' = At(k)
  BY PlacesKept
<1>2. Len(pc) = Len(ast) /\ Len(ast) \in Nat
  BY LenProperties DEF PassInv, ReadOK
<1>3. At(i + 1) = At(i) + Size(ast[i])
  BY <1>2 DEF PassInv, Adjacent
<1>4. At(i + 1) \in Int
  <2>1. pc \in Seq(Nat) /\ location \in Nat
    BY DEF PassInv, Adjacent
  <2>2. CASE i + 1 <= Len(pc)
    <3>1. i + 1 \in 1..Len(pc)
      BY <1>2, <2>2
    <3>2. QED
      BY <2>1, <2>2, <3>1, ElementOfSeq DEF At
  <2>3. QED
    BY <2>1, <2>2 DEF At
<1>5. Emitting'
  <2>1. i' \in 1..Len(ast) + 1
    BY <1>2
  <2>2. position' = At(i + 1) + PUSH_LENGTH * (arg' - 1)
    BY <1>3, <1>4, Pushes
  <2>3. QED
    BY <1>1, <2>1, <2>2 DEF Emitting
<1>6. QED
  BY <1>1, <1>2, <1>5 DEF PassInv, Before

LEMMA EmitStep ==
    ASSUME PassInv,
           \/ EmitNothing \/ EmitBlob \/ EmitExpression \/ EmitNumber
           \/ EmitArgument \/ EmitInstr \/ EmitEnd
    PROVE  PassInv'
<1>1. phase = "emit" /\ UNCHANGED <<source, reading, ast, pc, location>>
  BY DEF EmitNothing, EmitBlob, EmitExpression, EmitNumber, EmitArgument, EmitInstr,
         EmitEnd, InEmit, Emitted, pass_vars, Fail
<1>2. Emitting /\ Len(pc) = Len(ast) /\ Len(ast) \in Nat /\ i \in 1..Len(ast) + 1
  BY <1>1, LenProperties DEF PassInv, Emitting, ReadOK
<1>3. ReadOK' /\ Adjacent' /\ \A k : At(k)' = At(k)
  BY <1>1, PlacesKept
<1>4. ASSUME i <= Len(ast)
      PROVE  i \in 1..Len(ast) /\ At(i) \in Int /\ Len(S.args) \in Nat /\ S \in Statements
  <2>1. i \in 1..Len(ast)
    BY <1>2, <1>4
  <2>2. At(i) \in Int
    BY <1>2, <2>1, ElementOfSeq DEF PassInv, Adjacent, At
  <2>3. S \in Statements
    BY <2>1, ElementOfSeq DEF PassInv, ReadOK, S
  <2>4. S.args \in Seq(Seq(Tokens))
    BY <2>3 DEF Statements
  <2>5. QED
    BY <2>1, <2>2, <2>3, <2>4, LenProperties
<1>5. ASSUME i <= Len(ast), S.type # "instr"
      PROVE  arg = 1 /\ position = At(i)
  <2>1. arg = 1
    BY <1>2, <1>5 DEF Emitting, S
  <2>2. QED
    BY <1>2, <1>4, <1>5, <2>1, Pushes DEF Emitting
<1>6. CASE EmitNothing
  <2>1. /\ i <= Len(ast) /\ S.type \in {"label", "const", "symtype"} /\ frames = << >>
        /\ i' = i + 1 /\ arg' = 1 /\ phase' = phase /\ frames' = frames /\ position' = position
    BY <1>6 DEF EmitNothing, InEmit, Emitted, Keep
  <2>2. position' = At(i) + Size(ast[i])
    BY <1>4, <1>5, <2>1 DEF Size, S
  <2>3. QED
    BY <1>1, <1>4, <2>1, <2>2, EmittedStep
<1>7. CASE EmitBlob
  <2>1. /\ i <= Len(ast) /\ S.type = "blob" /\ frames = << >> /\ position' = position + S.size
        /\ i' = i + 1 /\ arg' = 1 /\ phase' = phase /\ frames' = frames
    BY <1>7 DEF EmitBlob, InEmit, Emitted, Keep, Written
  <2>2. position' = At(i) + Size(ast[i])
    BY <1>5, <2>1 DEF Size, S
  <2>3. QED
    BY <1>1, <1>4, <2>1, <2>2, EmittedStep
<1>8. CASE EmitExpression
  <2>1. /\ i <= Len(ast)
        /\ S.type = "number" \/ (S.type = "instr" /\ arg <= Len(S.args))
        /\ UNCHANGED <<phase, i, arg, position>>
    BY <1>8 DEF EmitExpression, InEmit, pass_vars
  <2>2. Emitting'
    BY <1>1, <1>2, <1>3, <2>1 DEF Emitting, S
  <2>3. QED
    BY <1>1, <1>2, <1>3, <2>1, <2>2 DEF PassInv, Before
<1>9. CASE EmitNumber
  <2>1. /\ frames # << >> /\ S.type = "number" /\ position' = position + S.size
        /\ i' = i + 1 /\ arg' = arg /\ phase' = phase /\ frames' = << >>
    BY <1>9 DEF EmitNumber, EndsWell, Trimmed, Running, Written
  <2>2. i <= Len(ast)
    BY <1>2, <2>1 DEF Emitting
  <2>3. position' = At(i) + Size(ast[i]) /\ arg' = 1
    BY <1>5, <2>1, <2>2 DEF Size, S
  <2>4. QED
    BY <1>1, <1>4, <2>1, <2>2, <2>3, EmittedStep
<1>10. CASE EmitArgument
  <2>1. /\ frames # << >> /\ S.type = "instr" /\ position' = position + PUSH_LENGTH
        /\ i' = i /\ arg' = arg + 1 /\ phase' = phase /\ frames' = << >>
    BY <1>10 DEF EmitArgument, EndsWell, Trimmed, Running, Written
  <2>2. i <= Len(ast) /\ arg <= Len(ast[i].args) /\ arg \in Nat \ {0}
    BY <1>2, <2>1 DEF Emitting, S
  <2>3. position' = At(i) + PUSH_LENGTH * (arg' - 1)
    <3>1. position = At(i) + PUSH_LENGTH * (arg - 1) /\ At(i) \in Int
      BY <1>2, <1>4, <2>2 DEF Emitting
    <3>2. QED
      BY <2>1, <2>2, <3>1, Pushes
  <2>4. Len(ast[i].args) \in Nat
    BY <1>4, <2>2 DEF S
  <2>5. Emitting'
    BY <1>1, <1>2, <1>3, <2>1, <2>2, <2>3, <2>4 DEF Emitting, S
  <2>6. QED
    BY <1>1, <1>2, <1>3, <2>1, <2>5 DEF PassInv, Before
<1>11. CASE EmitInstr
  <2> DEFINE n == Len(S.args)
             own == IF Flags[S.name] = "IF_PUSH" THEN 0 ELSE 1
  <2>1. /\ i <= Len(ast) /\ frames = << >> /\ S.type = "instr" /\ arg > n
        /\ i' = i + 1 /\ arg' = 1 /\ phase' = phase /\ frames' = frames
    BY <1>11 DEF EmitInstr, InEmit, Emitted, Keep
  <2>2. position \in Int /\ arg = n + 1 /\ n \in Nat
    <3>1. arg \in Nat \ {0} /\ arg <= n + 1 /\ n \in Nat
      BY <1>2, <1>4, <2>1 DEF Emitting, S
    <3>2. position \in Int
      BY <1>2, <1>4, <2>1, <3>1, Pushes DEF Emitting
    <3>3. QED
      BY <2>1, <3>1, <3>2
  <2>3. position' = position + own
    BY <1>11, <2>2 DEF EmitInstr, Written
  <2>4. Size(ast[i]) = own + PUSH_LENGTH * n
    BY <2>1 DEF Size, InstrLength, S
  <2>5. position = At(i) + PUSH_LENGTH * (arg - 1)
    BY <1>2 DEF Emitting
  <2>6. own \in {0, 1}
    OBVIOUS
  <2> HIDE DEF n, own
  <2>7. position' = At(i) + Size(ast[i])
    BY <1>4, <2>1, <2>2, <2>3, <2>4, <2>5, <2>6, Pushes
  <2>8. QED
    BY <1>1, <1>4, <2>1, <2>7, EmittedStep
<1>12. CASE EmitEnd
  <2>1. /\ i > Len(ast) /\ phase' = "done" /\ position' = position
    BY <1>12 DEF EmitEnd, Fail, Stop, pass_vars
  <2>2. i = Len(pc) + 1 /\ arg = 1
    BY <1>2, <2>1 DEF Emitting
  <2>3. position = location
    <3>1. location \in Nat /\ At(i) = location
      BY <1>2, <2>2 DEF PassInv, Adjacent, At
    <3>2. QED
      BY <1>2, <2>2, <3>1, Pushes DEF Emitting
  <2>4. QED
    BY <1>1, <1>3, <2>1, <2>3 DEF PassInv, Before
<1>13. QED
  BY <1>6, <1>7, <1>8, <1>9, <1>10, <1>11, <1>12

LEMMA PassStutter == PassInv /\ UNCHANGED vars => PassInv'
<1> SUFFICES ASSUME PassInv, UNCHANGED vars PROVE PassInv'
  OBVIOUS
<1>1. /\ UNCHANGED <<source, reading, ast, pc, location>>
      /\ UNCHANGED <<i, arg, position, phase, frames>>
  BY DEF vars, pass_vars, symtab_vars
<1>2. ReadOK' /\ Adjacent' /\ \A k : At(k)' = At(k)
  BY <1>1, PlacesKept
<1>3. Emitting => Emitting'
  BY <1>1, <1>2 DEF Emitting
<1>4. QED
  BY <1>1, <1>2, <1>3 DEF PassInv

THEOREM PassInvariant == Spec => []PassInv
<1>1. PassInv /\ [Next]_vars => PassInv'
  BY ReadingStep, LayoutStep, ResolveStep, ComputeStep, EmitStep, PassStutter DEF Next, Rest
<1>2. QED
  BY <1>1, PassInit, PTL DEF Spec

\* Whatever the program and wherever the ROM, the second pass writes every
\* statement where the first one has put it (lengths by iasm_ivm_inst_len,
\* bytes by iasm_ivm_emit_instr), so labels are addresses.
THEOREM LabelsAreAddresses == Spec => []PassesAgree
<1>1. PassInv => PassesAgree
  <2> SUFFICES ASSUME PassInv PROVE PassesAgree
    OBVIOUS
  <2>1. ASSUME phase = "emit", i <= Len(ast)
        PROVE  position = pc[i] + PUSH_LENGTH * (arg - 1)
    BY <2>1 DEF PassInv, Emitting, At
  <2>2. QED
    BY <2>1 DEF PassInv, PassesAgree
<1>2. QED
  BY <1>1, PassInvariant, PTL

-----------------------------------------------------------------------------
(* Activations and entries.                                                 *)

IsFrame(f) ==
    /\ {"entry", "expr", "prev_ttype", "res_stack", "op_stack"} \subseteq DOMAIN f
    /\ f.expr \in Seq(Tokens)

\* The same activation, a token further at most.
Goes(f, g) ==
    IsFrame(g) /\ g.entry = f.entry /\ Range(g.expr) \subseteq Range(f.expr)

LEMMA TokenOfFrame ==
    ASSUME NEW f, IsFrame(f), ~AtEnd(f)
    PROVE  /\ NextToken(f) \in Tokens /\ NextToken(f) \in Range(f.expr)
           /\ Tail(f.expr) \in Seq(Tokens) /\ Range(Tail(f.expr)) \subseteq Range(f.expr)
<1>1. f.expr \in Seq(Tokens) /\ f.expr # << >>
  BY DEF IsFrame, AtEnd
<1>2. /\ NextToken(f) = Head(f.expr) /\ Head(f.expr) \in Tokens
      /\ Tail(f.expr) \in Seq(Tokens) /\ Len(Tail(f.expr)) = Len(f.expr) - 1
      /\ \A k \in 1..Len(Tail(f.expr)) : Tail(f.expr)[k] = f.expr[k + 1]
  BY <1>1, HeadTailProperties DEF NextToken, AtEnd
<1>3. /\ DOMAIN f.expr = 1..Len(f.expr) /\ Len(f.expr) \in Nat \ {0}
      /\ DOMAIN Tail(f.expr) = 1..Len(Tail(f.expr))
  BY <1>1, <1>2, LenProperties, EmptySeq
<1>4. Head(f.expr) = f.expr[1]
  BY <1>1
<1>5. Head(f.expr) \in Range(f.expr)
  BY <1>3, <1>4 DEF Range
<1>6. ASSUME NEW k \in DOMAIN Tail(f.expr) PROVE Tail(f.expr)[k] \in Range(f.expr)
  <2>1. k \in 1..Len(Tail(f.expr)) /\ k + 1 \in 1..Len(f.expr)
    BY <1>2, <1>3
  <2>2. QED
    BY <1>2, <1>3, <2>1 DEF Range
<1>7. Range(Tail(f.expr)) \subseteq Range(f.expr)
  BY <1>6 DEF Range
<1>8. QED
  BY <1>2, <1>5, <1>7

LEMMA GoesRefl == ASSUME NEW f, IsFrame(f) PROVE Goes(f, f)
BY DEF Goes

LEMMA TakenGoes ==
    ASSUME NEW f, IsFrame(f), ~AtEnd(f)
    PROVE  Goes(f, Taken(f))
<1>1. Taken(f).entry = f.entry /\ Taken(f).expr = Tail(f.expr) /\ DOMAIN Taken(f) = DOMAIN f
  BY DEF Taken, IsFrame
<1>2. QED
  BY <1>1, TokenOfFrame DEF Goes, IsFrame

LEMMA ExecutedGoes ==
    ASSUME NEW f, IsFrame(f)
    PROVE  Goes(f, Executed(f))
<1>1. /\ Executed(f).entry = f.entry /\ Executed(f).expr = f.expr
      /\ DOMAIN Executed(f) = DOMAIN f
  BY DEF Executed, IsFrame
<1>2. QED
  BY <1>1 DEF Goes, IsFrame

LEMMA OperandGoes ==
    ASSUME NEW f, IsFrame(f), ~AtEnd(f), NEW v
    PROVE  Goes(f, Operand(f, v))
<1> DEFINE t == Taken(f)
<1>1. Goes(f, t)
  BY TakenGoes
<1>2. Operand(f, v) = [t EXCEPT !.res_stack = Append(@, v)]
  BY DEF Operand
<1> HIDE DEF t
<1>3. QED
  BY <1>1, <1>2 DEF Goes, IsFrame

LEMMA ShiftedGoes ==
    ASSUME NEW f, IsFrame(f), ~AtEnd(f), ~TokenFails(f),
           NextToken(f).kind \notin {"name", "semicolon"}
    PROVE  Goes(f, Shifted(f))
<1> DEFINE t == Taken(f)
<1>1. Goes(f, t)
  BY TakenGoes
<1>2. NextToken(f).kind \in TokenKinds
  BY TokenOfFrame DEF Tokens
<1>3. NextToken(f).kind \in {"number", "operator", "lparen", "rparen"}
  BY <1>2 DEF TokenKinds, TokenFails
<1>4. ASSUME NEW o
      PROVE  Goes(f, [t EXCEPT !.op_stack = o])
  BY <1>1 DEF Goes, IsFrame
<1>5. ASSUME NEW op_type
      PROVE  Goes(f, Stacked(f, op_type))
  <2>1. PICK o : Stacked(f, op_type) = [t EXCEPT !.op_stack = o]
    <3>1. Stacked(f, op_type) = [t EXCEPT !.op_stack =
              Append(t.op_stack, [op_type |-> op_type, operator |-> NextToken(f).text])]
      BY DEF Stacked
    <3>2. QED
      BY <3>1
  <2>2. QED
    BY <1>4, <2>1
<1>6. CASE NextToken(f).kind = "number"
  BY <1>6, OperandGoes DEF Shifted
<1>7. CASE NextToken(f).kind = "operator"
  BY <1>5, <1>7 DEF Shifted
<1>8. CASE NextToken(f).kind = "lparen"
  BY <1>5, <1>8 DEF Shifted
<1>9. CASE NextToken(f).kind = "rparen"
  <2>1. Shifted(f) = [t EXCEPT !.op_stack = Front(t.op_stack)]
    BY <1>9 DEF Shifted
  <2>2. QED
    BY <1>4, <2>1
<1>10. QED
  BY <1>3, <1>6, <1>7, <1>8, <1>9

\* What is known of an entry.
IsEntry(s) ==
    /\ {"kind", "name", "location", "expr", "value", "step"} \subseteq DOMAIN s
    /\ s.step \in {NOT_DONE, IN_PROGRESS, DONE} /\ s.expr \in Seq(Tokens)
    /\ s.kind = "label" => s.step # IN_PROGRESS

\* Entry e gets to the step st, and nothing else but its value changes.
Stepped(e, st) ==
    /\ IsSeq(symtab') /\ Len(symtab') = Len(symtab)
    /\ \A d \in Entries :
         /\ DOMAIN symtab'[d] = DOMAIN symtab[d]
         /\ symtab'[d].kind = symtab[d].kind /\ symtab'[d].name = symtab[d].name
         /\ symtab'[d].expr = symtab[d].expr
         /\ symtab'[d].step = IF d = e THEN st ELSE symtab[d].step

Put(s, e, x) == [s EXCEPT ![e] = x]

LEMMA PutSeq ==
    ASSUME NEW s, IsSeq(s), NEW e \in 1..Len(s), NEW x
    PROVE  /\ IsSeq(Put(s, e, x)) /\ Len(Put(s, e, x)) = Len(s)
           /\ \A d \in 1..Len(s) : Put(s, e, x)[d] = IF d = e THEN x ELSE s[d]
<1> DEFINE T == Range(s) \cup {x}
<1>1. s \in Seq(Range(s)) /\ DOMAIN s = 1..Len(s)
  BY LenProperties DEF IsSeq
<1>2. \A k \in 1..Len(s) : s[k] \in T
  BY <1>1 DEF Range
<1>3. x \in T
  OBVIOUS
<1> HIDE DEF T
<1>4. s \in Seq(T)
  BY <1>1, <1>2, SeqOver
<1>5. Put(s, e, x) \in Seq(T) /\ Len(Put(s, e, x)) = Len(s)
  BY <1>3, <1>4, ExceptSeq DEF Put
<1>6. IsSeq(Put(s, e, x))
  BY <1>5, SomeSeq
<1>7. \A d \in 1..Len(s) : Put(s, e, x)[d] = IF d = e THEN x ELSE s[d]
  BY <1>1 DEF Put
<1>8. QED
  BY <1>5, <1>6, <1>7

Marked(e, st) == [symtab EXCEPT ![e].step = st]

LEMMA MarkedStepped ==
    ASSUME IsSeq(symtab), NEW e \in Entries, \A d \in Entries : IsEntry(symtab[d]), NEW st,
           symtab' = Marked(e, st)
    PROVE  Stepped(e, st)
<1> DEFINE x == [symtab[e] EXCEPT !.step = st]
<1>1. Entries = 1..Len(symtab)
  BY SeqFacts DEF Entries
<1>2. symtab' = Put(symtab, e, x)
  BY DEF Put, Marked
<1>3. /\ DOMAIN x = DOMAIN symtab[e] /\ x.kind = symtab[e].kind /\ x.name = symtab[e].name
      /\ x.expr = symtab[e].expr /\ x.step = st
  BY DEF IsEntry
<1> HIDE DEF x
<1>4. /\ IsSeq(symtab') /\ Len(symtab') = Len(symtab)
      /\ \A d \in Entries : symtab'[d] = IF d = e THEN x ELSE symtab[d]
  BY <1>1, <1>2, PutSeq
<1>5. ASSUME NEW d \in Entries
      PROVE  /\ DOMAIN symtab'[d] = DOMAIN symtab[d]
             /\ symtab'[d].kind = symtab[d].kind /\ symtab'[d].name = symtab[d].name
             /\ symtab'[d].expr = symtab[d].expr
             /\ symtab'[d].step = IF d = e THEN x.step ELSE symtab[d].step
  BY <1>3, <1>4
<1>6. QED
  BY <1>3, <1>4, <1>5 DEF Stepped

LEMMA ComputedStepped ==
    ASSUME IsSeq(symtab), NEW e \in Entries, \A d \in Entries : IsEntry(symtab[d]), NEW v,
           symtab' = Computed(e, v)
    PROVE  Stepped(e, DONE)
<1> DEFINE x == [symtab[e] EXCEPT !.value = v, !.step = DONE]
<1>1. Entries = 1..Len(symtab)
  BY SeqFacts DEF Entries
<1>2. symtab' = Put(symtab, e, x)
  BY DEF Computed, Entries, Put
<1>3. /\ DOMAIN x = DOMAIN symtab[e] /\ x.kind = symtab[e].kind /\ x.name = symtab[e].name
      /\ x.expr = symtab[e].expr /\ x.step = DONE
  BY DEF IsEntry
<1> HIDE DEF x
<1>4. /\ IsSeq(symtab') /\ Len(symtab') = Len(symtab)
      /\ \A d \in Entries : symtab'[d] = IF d = e THEN x ELSE symtab[d]
  BY <1>1, <1>2, PutSeq
<1>5. ASSUME NEW d \in Entries
      PROVE  /\ DOMAIN symtab'[d] = DOMAIN symtab[d]
             /\ symtab'[d].kind = symtab[d].kind /\ symtab'[d].name = symtab[d].name
             /\ symtab'[d].expr = symtab[d].expr
             /\ symtab'[d].step = IF d = e THEN x.step ELSE symtab[d].step
  BY <1>3, <1>4
<1>6. QED
  BY <1>3, <1>4, <1>5 DEF Stepped

-----------------------------------------------------------------------------
(* The recursion is on the stack.                                           *)

\* The activation stands at the name n.
Asks(f, n) == ~AtEnd(f) /\ NextToken(f).kind = "name" /\ NextToken(f).text = n

EntriesOK ==
    /\ IsSeq(symtab)
    /\ \A e \in Entries : IsEntry(symtab[e])
    /\ \A d, e \in Entries : symtab[d].name = symtab[e].name => d = e

\* Activations are in the middle of their own expression.
FramesOK ==
    /\ IsSeq(frames)
    /\ \A k \in 1..Len(frames) :
         /\ IsFrame(frames[k]) /\ frames[k].entry \in {0} \cup Entries
         /\ frames[k].entry # 0 =>
              Range(frames[k].expr) \subseteq Range(symtab[frames[k].entry].expr)

\* Every activation was started by the name that the one outside stands at.
Chain ==
    \A k \in 2..Len(frames) :
        frames[k].entry # 0 /\ Asks(frames[k - 1], symtab[frames[k].entry].name)

PhaseOK ==
    /\ i \in Nat \ {0}
    /\ phase \in {"start", "read", "layout"} => frames = << >>
    /\ phase \in {"resolve", "unwind"} => \A k \in 1..Len(frames) : frames[k].entry # 0
    /\ phase = "emit" =>
         /\ Len(frames) <= 1 /\ \A k \in 1..Len(frames) : frames[k].entry = 0
         /\ \A e \in Entries : symtab[e].step = DONE
    /\ phase = "resolve" => \A e \in Entries : e < i => symtab[e].step # NOT_DONE

StackInv == EntriesOK /\ FramesOK /\ Chain /\ InProgressIsOnStack /\ PhaseOK

\* The table goes on: entries keep what defines them and lose no step.
Evolves ==
    /\ IsSeq(symtab') /\ Len(symtab') = Len(symtab)
    /\ \A d \in Entries :
         /\ IsEntry(symtab'[d])
         /\ symtab'[d].name = symtab[d].name /\ symtab'[d].expr = symtab[d].expr
         /\ symtab[d].step # NOT_DONE => symtab'[d].step # NOT_DONE

\* The n outermost activations remain, the last of them perhaps a token on.
Remain(n) ==
    /\ IsSeq(frames') /\ Len(frames') = n
    /\ \A k \in 1..n - 1 : frames'[k] = frames[k]
    /\ n > 0 => Goes(frames[n], frames'[n])

LEMMA EvolvesWhen ==
    ASSUME EntriesOK
    PROVE  /\ symtab' = symtab => Evolves
           /\ \A e \in Entries : Stepped(e, DONE) => Evolves
           /\ \A e \in Entries :
                Stepped(e, IN_PROGRESS) /\ symtab[e].kind = "const" => Evolves
<1>1. symtab' = symtab => Evolves
  BY DEF EntriesOK, Evolves
<1>2. ASSUME NEW e \in Entries, NEW st \in {DONE, IN_PROGRESS}, Stepped(e, st),
             st = IN_PROGRESS => symtab[e].kind = "const"
      PROVE  Evolves
  <2>1. ASSUME NEW d \in Entries
        PROVE  /\ IsEntry(symtab'[d])
               /\ symtab[d].step # NOT_DONE => symtab'[d].step # NOT_DONE
    <3>1. /\ DOMAIN symtab'[d] = DOMAIN symtab[d]
          /\ symtab'[d].kind = symtab[d].kind /\ symtab'[d].expr = symtab[d].expr
          /\ symtab'[d].step = IF d = e THEN st ELSE symtab[d].step
      BY <1>2, <2>1 DEF Stepped
    <3>2. IsEntry(symtab[d])
      BY DEF EntriesOK
    <3>3. QED
      BY <1>2, <3>1, <3>2 DEF IsEntry, NOT_DONE, IN_PROGRESS, DONE
  <2>2. QED
    BY <1>2, <2>1 DEF Evolves, Stepped
<1>3. QED
  BY <1>1, <1>2 DEF DONE, IN_PROGRESS

LEMMA EvolvesOK ==
    ASSUME EntriesOK, Evolves
    PROVE  EntriesOK' /\ Entries' = Entries
<1>1. Entries' = Entries
  BY SeqFacts DEF EntriesOK, Evolves, Entries
<1>2. QED
  BY <1>1 DEF EntriesOK, Evolves

LEMMA RemainOK ==
    ASSUME EntriesOK, FramesOK, Chain, Evolves, NEW n \in Nat, n <= Len(frames), Remain(n)
    PROVE  /\ FramesOK' /\ Chain'
           /\ \A k \in 1..n : frames'[k].entry = frames[k].entry
<1>1. Entries' = Entries
  BY EvolvesOK
<1>2. Len(frames) \in Nat /\ Len(frames') = n
  BY SeqFacts DEF FramesOK, Remain
<1>3. ASSUME NEW k \in 1..n
      PROVE  Goes(frames[k], frames'[k])
  <2>1. CASE k = n
    BY <2>1 DEF Remain
  <2>2. CASE k # n
    <3>1. k \in 1..n - 1 /\ k \in 1..Len(frames)
      BY <1>2, <2>2
    <3>2. frames'[k] = frames[k] /\ IsFrame(frames[k])
      BY <3>1 DEF Remain, FramesOK
    <3>3. QED
      BY <3>2, GoesRefl
  <2>3. QED
    BY <2>1, <2>2
<1>4. ASSUME NEW k \in 1..n
      PROVE  /\ IsFrame(frames'[k]) /\ frames'[k].entry = frames[k].entry
             /\ frames'[k].entry \in {0} \cup Entries
             /\ frames'[k].entry # 0 =>
                  Range(frames'[k].expr) \subseteq Range(symtab'[frames'[k].entry].expr)
  <2>1. k \in 1..Len(frames)
    BY <1>2
  <2>2. /\ frames[k].entry \in {0} \cup Entries
        /\ frames[k].entry # 0 =>
             Range(frames[k].expr) \subseteq Range(symtab[frames[k].entry].expr)
    BY <2>1 DEF FramesOK
  <2>3. /\ IsFrame(frames'[k]) /\ frames'[k].entry = frames[k].entry
        /\ Range(frames'[k].expr) \subseteq Range(frames[k].expr)
    BY <1>3 DEF Goes
  <2>4. frames[k].entry # 0 =>
          symtab'[frames[k].entry].expr = symtab[frames[k].entry].expr
    BY <2>2 DEF Evolves
  <2>5. QED
    BY <2>2, <2>3, <2>4
<1>5. FramesOK'
  BY <1>1, <1>2, <1>4 DEF FramesOK, Remain
<1>6. ASSUME NEW k \in 2..n
      PROVE  /\ frames'[k].entry # 0
             /\ Asks(frames'[k - 1], symtab'[frames'[k].entry].name)
  <2>1. k \in 2..Len(frames) /\ k - 1 \in 1..n - 1 /\ k \in 1..n /\ k \in 1..Len(frames)
    BY <1>2
  <2>2. frames'[k - 1] = frames[k - 1] /\ frames'[k].entry = frames[k].entry
    BY <1>4, <2>1 DEF Remain
  <2>3. frames[k].entry # 0 /\ Asks(frames[k - 1], symtab[frames[k].entry].name)
    BY <2>1 DEF Chain
  <2>4. frames[k].entry \in Entries
    BY <2>1, <2>3 DEF FramesOK
  <2>5. symtab'[frames[k].entry].name = symtab[frames[k].entry].name
    BY <2>4 DEF Evolves
  <2>6. QED
    BY <2>2, <2>3, <2>5
<1>7. Chain'
  BY <1>2, <1>6 DEF Chain, Asks
<1>8. QED
  BY <1>4, <1>5, <1>7

\* InProgressIsOnStack with the domains written out.
OnStack ==
    /\ \A e \in Entries :
         symtab[e].step = IN_PROGRESS <=> \E k \in 1..Len(frames) : frames[k].entry = e
    /\ \A j, k \in 1..Len(frames) : frames[j].entry = frames[k].entry => j = k

LEMMA OnStackIs ==
    ASSUME FramesOK
    PROVE  InProgressIsOnStack <=> OnStack
BY SeqFacts DEF FramesOK, InProgressIsOnStack, OnStack

\* The same activations, and no step that makes an entry one in progress.
LEMMA SameStack ==
    ASSUME StackInv, FramesOK', Entries' = Entries, Len(frames') = Len(frames),
           \A k \in 1..Len(frames) : frames'[k].entry = frames[k].entry,
           \A e \in Entries : symtab'[e].step = IN_PROGRESS <=> symtab[e].step = IN_PROGRESS
    PROVE  InProgressIsOnStack'
<1>1. OnStack
  BY OnStackIs DEF StackInv
<1>2. OnStack'
  BY <1>1 DEF OnStack
<1>3. QED
  BY <1>2, SeqFacts DEF FramesOK, InProgressIsOnStack, OnStack

\* The innermost activation is over and its entry done.
LEMMA PoppedStack ==
    ASSUME StackInv, FramesOK', Entries' = Entries, frames # << >>,
           Len(frames') = Len(frames) - 1,
           \A k \in 1..Len(frames) - 1 : frames'[k].entry = frames[k].entry,
           Stepped(Top.entry, DONE)
    PROVE  InProgressIsOnStack'
<1>1. OnStack /\ Len(frames) \in Nat \ {0} /\ Top = frames[Len(frames)]
  BY OnStackIs, FrontSeq DEF StackInv, FramesOK, Top, Last
<1> DEFINE n == Len(frames)
<1>2. \A j, k \in 1..n - 1 : frames'[j].entry = frames'[k].entry => j = k
  BY <1>1 DEF OnStack
<1>3. ASSUME NEW e \in Entries
      PROVE  symtab'[e].step = IN_PROGRESS <=> \E k \in 1..n - 1 : frames'[k].entry = e
  <2>1. symtab'[e].step = IF e = Top.entry THEN DONE ELSE symtab[e].step
    BY DEF Stepped
  <2>2. CASE e = Top.entry
    <3>1. symtab'[e].step # IN_PROGRESS
      BY <2>1, <2>2 DEF DONE, IN_PROGRESS
    <3>2. \A k \in 1..n - 1 : frames[k].entry # frames[n].entry
      BY <1>1 DEF OnStack
    <3>3. QED
      BY <1>1, <2>2, <3>1, <3>2
  <2>3. CASE e # Top.entry
    <3>1. symtab[e].step = IN_PROGRESS <=> \E k \in 1..n : frames[k].entry = e
      BY <1>1 DEF OnStack
    <3>2. (\E k \in 1..n : frames[k].entry = e) <=> (\E k \in 1..n - 1 : frames[k].entry = e)
      BY <1>1, <2>3
    <3>3. (\E k \in 1..n - 1 : frames[k].entry = e) <=> (\E k \in 1..n - 1 : frames'[k].entry = e)
      OBVIOUS
    <3>4. symtab'[e].step = symtab[e].step
      BY <2>1, <2>3
    <3>5. QED
      BY <3>1, <3>2, <3>3, <3>4
  <2>4. QED
    BY <2>2, <2>3
<1>4. OnStack'
  BY <1>2, <1>3 DEF OnStack
<1>5. QED
  BY <1>4, SeqFacts DEF FramesOK, InProgressIsOnStack, OnStack

\* An activation for an entry that is not in progress.
LEMMA EnterStep ==
    ASSUME StackInv, phase = "resolve", NEW e \in Entries, Enter(e), i' = i,
           symtab[e].step # IN_PROGRESS, symtab[e].kind = "const",
           frames # << >> => Asks(Top, symtab[e].name)
    PROVE  StackInv'
<1> DEFINE n == Len(frames)
           f == Activation(e, symtab[e].expr)
<1>1. IsSeq(frames) /\ n \in Nat /\ e \in Nat \ {0} /\ IsEntry(symtab[e])
  BY SeqFacts DEF StackInv, FramesOK, EntriesOK, Entries
<1>2. symtab' = Marked(e, IN_PROGRESS) /\ frames' = Append(frames, f) /\ phase' = phase
  BY DEF Enter, Marked
<1>3. Stepped(e, IN_PROGRESS)
  BY <1>2, MarkedStepped DEF StackInv, EntriesOK
<1>4. Evolves
  BY <1>3, EvolvesWhen DEF StackInv
<1>5. EntriesOK' /\ Entries' = Entries
  BY <1>4, EvolvesOK DEF StackInv
<1>6. /\ IsSeq(frames') /\ Len(frames') = n + 1 /\ frames'[n + 1] = f
      /\ \A k \in 1..n : frames'[k] = frames[k]
  BY <1>1, <1>2, AppendSeq
<1>7. IsFrame(f) /\ f.entry = e /\ f.expr = symtab[e].expr
  BY <1>1 DEF IsFrame, IsEntry, Activation
<1> HIDE DEF f
<1>8. \A k \in 1..n : frames[k].entry \in {0} \cup Entries
  BY DEF StackInv, FramesOK
<1>9. \A d \in Entries : symtab'[d].expr = symtab[d].expr /\ symtab'[d].name = symtab[d].name
  BY <1>4 DEF Evolves
<1>10. FramesOK'
  <2>1. ASSUME NEW k \in 1..n + 1
        PROVE  /\ IsFrame(frames'[k]) /\ frames'[k].entry \in {0} \cup Entries
               /\ frames'[k].entry # 0 =>
                    Range(frames'[k].expr) \subseteq Range(symtab'[frames'[k].entry].expr)
    <3>1. CASE k = n + 1
      BY <1>6, <1>7, <1>9, <3>1
    <3>2. CASE k # n + 1
      <4>1. k \in 1..n
        BY <1>1, <3>2
      <4>2. /\ IsFrame(frames[k]) /\ frames[k].entry \in {0} \cup Entries
            /\ frames[k].entry # 0 =>
                 Range(frames[k].expr) \subseteq Range(symtab[frames[k].entry].expr)
        BY <4>1 DEF StackInv, FramesOK
      <4>3. QED
        BY <1>6, <1>9, <4>1, <4>2
    <3>3. QED
      BY <3>1, <3>2
  <2>2. QED
    BY <1>5, <1>6, <2>1 DEF FramesOK
<1>11. Chain'
  <2>1. ASSUME NEW k \in 2..n + 1
        PROVE  frames'[k].entry # 0 /\ Asks(frames'[k - 1], symtab'[frames'[k].entry].name)
    <3>1. CASE k = n + 1
      <4>1. frames # << >> /\ n \in 1..n /\ k - 1 = n
        BY <1>1, <3>1, SeqFacts
      <4>2. Asks(frames[n], symtab[e].name)
        BY <4>1 DEF Top, Last
      <4>3. frames'[k].entry = e /\ frames'[k - 1] = frames[n]
        BY <1>6, <1>7, <3>1, <4>1
      <4>4. QED
        BY <1>1, <1>9, <4>2, <4>3
    <3>2. CASE k # n + 1
      <4>1. k \in 2..n /\ k \in 1..n /\ k - 1 \in 1..n
        BY <1>1, <3>2
      <4>2. frames[k].entry # 0 /\ Asks(frames[k - 1], symtab[frames[k].entry].name)
        BY <4>1 DEF StackInv, Chain
      <4>3. frames[k].entry \in Entries
        BY <1>8, <4>1, <4>2
      <4>4. QED
        BY <1>6, <1>9, <4>1, <4>2, <4>3
    <3>3. QED
      BY <3>1, <3>2
  <2>2. QED
    BY <1>6, <2>1 DEF Chain, Asks
<1>12. InProgressIsOnStack'
  <2>1. OnStack
    BY OnStackIs DEF StackInv
  <2>2. \A k \in 1..n : frames[k].entry # e
    BY <2>1 DEF OnStack
  <2>3. ASSUME NEW d \in Entries
        PROVE  symtab'[d].step = IN_PROGRESS <=> \E k \in 1..n + 1 : frames'[k].entry = d
    <3>1. symtab'[d].step = IF d = e THEN IN_PROGRESS ELSE symtab[d].step
      BY <1>3 DEF Stepped
    <3>2. CASE d = e
      <4>1. n + 1 \in 1..n + 1 /\ frames'[n + 1].entry = d
        BY <1>1, <1>6, <1>7, <3>2
      <4>2. QED
        BY <3>1, <3>2, <4>1
    <3>3. CASE d # e
      <4>1. symtab[d].step = IN_PROGRESS <=> \E k \in 1..n : frames[k].entry = d
        BY <2>1 DEF OnStack
      <4>2. (\E k \in 1..n : frames[k].entry = d) <=> (\E k \in 1..n + 1 : frames'[k].entry = d)
        BY <1>1, <1>6, <1>7, <3>3
      <4>3. QED
        BY <3>1, <3>3, <4>1, <4>2
    <3>4. QED
      BY <3>2, <3>3
  <2>4. ASSUME NEW j \in 1..n + 1, NEW k \in 1..n + 1, frames'[j].entry = frames'[k].entry
        PROVE  j = k
    <3>1. \A m \in 1..n + 1 : m = n + 1 \/ m \in 1..n
      BY <1>1
    <3>2. CASE j \in 1..n /\ k \in 1..n
      BY <1>6, <2>1, <2>4, <3>2 DEF OnStack
    <3>3. CASE j = n + 1 /\ k \in 1..n
      BY <1>6, <1>7, <2>2, <2>4, <3>3
    <3>4. CASE k = n + 1 /\ j \in 1..n
      BY <1>6, <1>7, <2>2, <2>4, <3>4
    <3>5. QED
      BY <3>1, <3>2, <3>3, <3>4
  <2>5. OnStack'
    BY <1>5, <1>6, <2>3, <2>4 DEF OnStack
  <2>6. QED
    BY <1>10, <2>5, SeqFacts DEF FramesOK, InProgressIsOnStack, OnStack
<1>13. PhaseOK'
  <2>1. \A k \in 1..n + 1 : frames'[k].entry # 0
    <3>1. \A k \in 1..n : frames[k].entry # 0
      BY DEF StackInv, PhaseOK
    <3>2. \A k \in 1..n + 1 : k = n + 1 \/ k \in 1..n
      BY <1>1
    <3>3. QED
      BY <1>1, <1>6, <1>7, <3>1, <3>2
  <2>2. \A d \in Entries : d < i => symtab'[d].step # NOT_DONE
    BY <1>4 DEF StackInv, PhaseOK, Evolves
  <2>3. QED
    BY <1>2, <1>5, <1>6, <2>1, <2>2 DEF StackInv, PhaseOK
<1>14. QED
  BY <1>5, <1>10, <1>11, <1>12, <1>13 DEF StackInv

LEMMA TopFacts ==
    ASSUME StackInv, frames # << >>
    PROVE  /\ IsSeq(frames) /\ Len(frames) \in Nat \ {0} /\ Top = frames[Len(frames)]
           /\ IsFrame(Top) /\ Top.entry \in {0} \cup Entries
           /\ phase \in {"resolve", "unwind"} => Top.entry \in Entries
<1>1. /\ IsSeq(frames) /\ Len(frames) \in Nat \ {0} /\ Top = frames[Len(frames)]
  BY FrontSeq DEF StackInv, FramesOK, Top, Last
<1>2. Len(frames) \in 1..Len(frames)
  BY <1>1
<1>3. IsFrame(Top) /\ Top.entry \in {0} \cup Entries
  BY <1>1, <1>2 DEF StackInv, FramesOK
<1>4. phase \in {"resolve", "unwind"} => Top.entry # 0
  BY <1>1, <1>2 DEF StackInv, PhaseOK
<1>5. QED
  BY <1>1, <1>3, <1>4

\* A step that is neither the table's nor the stack's.
LEMMA QuietStep ==
    ASSUME StackInv, symtab' = symtab, frames' = frames, i' \in Nat \ {0},
           phase' = "resolve" => phase = "resolve" /\ i' = i,
           phase' = "emit" => phase = "emit",
           phase' = "unwind" => phase \in {"resolve", "unwind"},
           phase' \in {"start", "read", "layout"} => phase \in {"start", "read", "layout"}
    PROVE  StackInv'
<1>1. Entries' = Entries
  BY DEF Entries
<1>2. EntriesOK' /\ FramesOK' /\ Chain' /\ InProgressIsOnStack'
  BY <1>1 DEF StackInv, EntriesOK, FramesOK, Chain, InProgressIsOnStack
<1>3. PhaseOK'
  BY <1>1 DEF StackInv, PhaseOK
<1>4. QED
  BY <1>2, <1>3 DEF StackInv

\* The innermost activation goes on; perhaps a label is done meanwhile.
LEMMA ResumeStep ==
    ASSUME StackInv, frames # << >>, NEW g, Goes(Top, g), Resume(g),
           i' = i, phase' = phase, phase \in {"resolve", "emit"},
           \/ symtab' = symtab
           \/ /\ phase = "resolve"
              /\ \E e \in Entries : symtab[e].step # IN_PROGRESS /\ Stepped(e, DONE)
    PROVE  StackInv'
<1> DEFINE n == Len(frames)
<1>1. IsSeq(frames) /\ n \in Nat \ {0} /\ Top = frames[n]
  BY TopFacts
<1>2. frames' = Append(Front(frames), g)
  BY DEF Resume
<1>3. /\ IsSeq(frames') /\ Len(frames') = n /\ frames'[n] = g
      /\ \A k \in 1..n - 1 : frames'[k] = frames[k]
  BY <1>1, <1>2, ReplaceLast
<1>4. Remain(n)
  BY <1>1, <1>3 DEF Remain
<1>5. Evolves
  BY EvolvesWhen DEF StackInv
<1>6. EntriesOK' /\ Entries' = Entries
  BY <1>5, EvolvesOK DEF StackInv
<1>7. FramesOK' /\ Chain' /\ \A k \in 1..n : frames'[k].entry = frames[k].entry
  BY <1>1, <1>4, <1>5, RemainOK DEF StackInv
<1>8. \A e \in Entries : symtab'[e].step = IN_PROGRESS <=> symtab[e].step = IN_PROGRESS
  BY DEF Stepped, DONE, IN_PROGRESS
<1>9. InProgressIsOnStack'
  BY <1>3, <1>6, <1>7, <1>8, SameStack
<1>10. PhaseOK'
  <2>1. CASE phase = "resolve"
    <3>1. \A d \in Entries : d < i => symtab'[d].step # NOT_DONE
      BY <1>5, <2>1 DEF StackInv, PhaseOK, Evolves
    <3>2. \A k \in 1..n : frames'[k].entry # 0
      BY <1>7, <2>1 DEF StackInv, PhaseOK
    <3>3. QED
      BY <1>3, <1>6, <2>1, <3>1, <3>2 DEF StackInv, PhaseOK
  <2>2. CASE phase = "emit"
    BY <1>3, <1>6, <1>7, <2>2 DEF StackInv, PhaseOK
  <2>3. QED
    BY <2>1, <2>2
<1>11. QED
  BY <1>6, <1>7, <1>9, <1>10 DEF StackInv

\* The innermost activation is over, and its entry done.
LEMMA PopStep ==
    ASSUME StackInv, frames # << >>, phase \in {"resolve", "unwind"}, phase' = phase, i' = i,
           Stepped(Top.entry, DONE), Remain(Len(frames) - 1)
    PROVE  StackInv' /\ Evolves
<1> DEFINE n == Len(frames) - 1
<1>1. n \in Nat /\ n <= Len(frames) /\ Top.entry \in Entries
  BY TopFacts
<1>2. Evolves
  BY <1>1, EvolvesWhen DEF StackInv
<1>3. EntriesOK' /\ Entries' = Entries
  BY <1>2, EvolvesOK DEF StackInv
<1>4. FramesOK' /\ Chain' /\ \A k \in 1..n : frames'[k].entry = frames[k].entry
  BY <1>1, <1>2, RemainOK DEF StackInv
<1>5. Len(frames') = n
  BY DEF Remain
<1>6. InProgressIsOnStack'
  BY <1>3, <1>4, <1>5, PoppedStack
<1>7. PhaseOK'
  <2>1. \A d \in Entries : phase = "resolve" /\ d < i => symtab'[d].step # NOT_DONE
    BY <1>2 DEF StackInv, PhaseOK, Evolves
  <2>2. \A k \in 1..n : frames[k].entry # 0
    BY <1>1, TopFacts DEF StackInv, PhaseOK
  <2>3. QED
    BY <1>3, <1>4, <1>5, <2>1, <2>2 DEF StackInv, PhaseOK
<1>8. QED
  BY <1>2, <1>3, <1>4, <1>6, <1>7 DEF StackInv

LEMMA NamedFacts ==
    ASSUME StackInv, TakesSymbol
    PROVE  /\ frames # << >> /\ phase \in {"resolve", "emit"}
           /\ Named \in Entries /\ Asks(Top, symtab[Named].name) /\ ~AtEnd(Top)
<1>1. /\ frames # << >> /\ phase \in {"resolve", "emit"} /\ ~AtEnd(Top)
      /\ NextToken(Top).kind = "name" /\ Known(NextToken(Top).text)
  BY DEF TakesSymbol, TakesName, TakesToken, Trimmed, Running
<1> DEFINE t == NextToken(Top).text
<1>2. PICK e \in Entries : symtab[e].name = t
  BY <1>1 DEF Known
<1>3. \A d \in 1..e - 1 : symtab[d].name # t
  <2>1. Entries = 1..Len(symtab) /\ Len(symtab) \in Nat
    BY SeqFacts DEF StackInv, EntriesOK, Entries
  <2>2. \A d \in 1..e - 1 : d \in Entries /\ d # e
    BY <2>1
  <2>3. QED
    BY <1>2, <2>2 DEF StackInv, EntriesOK
<1>4. EntryOf(t) \in Entries /\ symtab[EntryOf(t)].name = t
  BY <1>2, <1>3 DEF EntryOf
<1>5. QED
  BY <1>1, <1>4 DEF Named, Asks

LEMMA ReturnStep ==
    ASSUME StackInv, Return, i' = i
    PROVE  StackInv' /\ Evolves
<1> DEFINE n == Len(frames)
           v == Result(Top)
<1>1. /\ frames # << >> /\ phase = "resolve" /\ phase' = phase
      /\ symtab' = Computed(Top.entry, v)
  BY DEF Return, EndsWell, Trimmed, Running, Stored
<1>2. IsSeq(frames) /\ n \in Nat \ {0} /\ Top = frames[n] /\ Top.entry \in Entries
  BY <1>1, TopFacts
<1> HIDE DEF v
<1>3. Stepped(Top.entry, DONE)
  BY <1>1, <1>2, ComputedStepped DEF StackInv, EntriesOK
<1>4. Remain(n - 1)
  <2>1. CASE n = 1
    <3>1. frames' = << >>
      BY <2>1 DEF Return
    <3>2. QED
      BY <2>1, <3>1, EmptyIsSeq DEF Remain
  <2>2. CASE n # 1
    <3> DEFINE caller == frames[n - 1]
               g == Operand(caller, v)
               rest == SubSeq(frames, 1, n - 2)
    <3>1. frames' = Append(rest, g)
      BY <2>2 DEF Return, v
    <3>2. n - 2 \in Nat /\ n - 2 <= n /\ n - 1 \in 1..n /\ n \in 2..n
      BY <1>2, <2>2
    <3>3. /\ IsSeq(rest) /\ Len(rest) = n - 2
          /\ \A k \in 1..n - 2 : rest[k] = frames[k]
      BY <1>2, <3>2, SubSeqSeq
    <3>4. IsFrame(caller) /\ ~AtEnd(caller)
      BY <3>2 DEF StackInv, FramesOK, Chain, Asks
    <3>5. Goes(caller, g)
      BY <3>4, OperandGoes
    <3> HIDE DEF rest, g
    <3>6. /\ IsSeq(frames') /\ Len(frames') = n - 2 + 1
          /\ \A k \in 1..n - 2 : frames'[k] = rest[k]
          /\ frames'[n - 2 + 1] = g
      BY <3>1, <3>3, AppendSeq
    <3>7. n - 2 + 1 = n - 1 /\ n - 1 - 1 = n - 2
      BY <1>2
    <3>8. QED
      BY <3>3, <3>5, <3>6, <3>7 DEF Remain
  <2>3. QED
    BY <2>1, <2>2
<1>5. QED
  BY <1>1, <1>3, <1>4, PopStep

LEMMA UnwindStep ==
    ASSUME StackInv, Unwind, i' = i
    PROVE  StackInv' /\ Evolves
<1> DEFINE n == Len(frames)
<1>1. /\ frames # << >> /\ phase = "unwind" /\ phase' = phase
      /\ symtab' = Marked(Top.entry, DONE) /\ frames' = Front(frames)
  BY DEF Unwind, Marked
<1>2. IsSeq(frames) /\ n \in Nat \ {0} /\ Top.entry \in Entries
  BY <1>1, TopFacts
<1>3. Stepped(Top.entry, DONE)
  BY <1>1, <1>2, MarkedStepped DEF StackInv, EntriesOK
<1>4. Remain(n - 1)
  <2>1. /\ IsSeq(frames') /\ Len(frames') = n - 1
        /\ \A k \in 1..n - 1 : frames'[k] = frames[k]
    BY <1>1, <1>2, FrontSeq
  <2>2. n - 1 > 0 => Goes(frames[n - 1], frames'[n - 1])
    <3>1. n - 1 > 0 => n - 1 \in 1..n - 1 /\ n - 1 \in 1..n
      BY <1>2
    <3>2. QED
      BY <2>1, <3>1, GoesRefl DEF StackInv, FramesOK
  <2>3. \A k \in 1..n - 1 - 1 : k \in 1..n - 1
    BY <1>2
  <2>4. QED
    BY <2>1, <2>2, <2>3 DEF Remain
<1>5. QED
  BY <1>1, <1>3, <1>4, PopStep

LEMMA CalculateStack ==
    ASSUME StackInv, Calculate, i' = i
    PROVE  StackInv' /\ Evolves
<1>1. i \in Nat \ {0} /\ EntriesOK
  BY DEF StackInv, PhaseOK
<1>2. ASSUME NEW how \in {"failed", "panicked", "trimming"}, Stop(how)
      PROVE  StackInv' /\ Evolves
  <2>1. symtab' = symtab /\ frames' = frames /\ phase' = how
    BY <1>2 DEF Stop
  <2>2. StackInv'
    BY <1>1, <2>1, QuietStep
  <2>3. QED
    BY <1>1, <2>1, <2>2, EvolvesWhen
<1>3. ASSUME NEW g, Goes(Top, g), Resume(g), frames # << >>, phase \in {"resolve", "emit"},
             phase' = phase, symtab' = symtab
      PROVE  StackInv' /\ Evolves
  BY <1>1, <1>3, ResumeStep, EvolvesWhen
<1>4. CASE MeetSemicolon
  BY <1>2, <1>4 DEF MeetSemicolon
<1>5. CASE ExecuteOperator
  <2>1. frames # << >> /\ phase \in {"resolve", "emit"}
    BY <1>5 DEF ExecuteOperator, Trimmed, Running
  <2>2. CASE ExecutePanics(Top) \/ ExecuteFails(Top)
    BY <1>2, <1>5, <2>2 DEF ExecuteOperator
  <2>3. CASE ~ExecutePanics(Top) /\ ~ExecuteFails(Top)
    <3>1. Resume(Executed(Top)) /\ symtab' = symtab /\ phase' = phase
      BY <1>5, <2>3 DEF ExecuteOperator
    <3>2. Goes(Top, Executed(Top))
      BY <2>1, TopFacts, ExecutedGoes
    <3>3. QED
      BY <1>3, <2>1, <3>1, <3>2
  <2>4. QED
    BY <2>2, <2>3
<1>6. CASE TakeBadToken
  BY <1>2, <1>6 DEF TakeBadToken
<1>7. CASE TakeToken
  <2>1. /\ frames # << >> /\ phase \in {"resolve", "emit"} /\ ~AtEnd(Top) /\ ~TokenFails(Top)
        /\ NextToken(Top).kind \notin {"name", "semicolon"}
        /\ Resume(Shifted(Top)) /\ symtab' = symtab /\ phase' = phase
    BY <1>7 DEF TakeToken, TakesToken, Trimmed, Running
  <2>2. Goes(Top, Shifted(Top))
    BY <2>1, TopFacts, ShiftedGoes
  <2>3. QED
    BY <1>3, <2>1, <2>2
<1>8. CASE TakeUnknownName
  BY <1>2, <1>8 DEF TakeUnknownName
<1>9. CASE TakeValue
  <2>1. TakesSymbol
    BY <1>9 DEF TakeValue
  <2>2. frames # << >> /\ phase \in {"resolve", "emit"} /\ ~AtEnd(Top)
    BY <2>1, NamedFacts
  <2>3. CASE symtab[Named].step # DONE
    BY <1>2, <1>9, <2>3 DEF TakeValue
  <2>4. CASE symtab[Named].step = DONE
    <3>1. Resume(Operand(Top, symtab[Named].value)) /\ symtab' = symtab /\ phase' = phase
      BY <1>9, <2>4 DEF TakeValue
    <3>2. Goes(Top, Operand(Top, symtab[Named].value))
      BY <2>2, TopFacts, OperandGoes
    <3>3. QED
      BY <1>3, <2>2, <3>1, <3>2
  <2>5. QED
    BY <2>3, <2>4
<1>10. CASE TakeLabel
  <2>1. /\ TakesSymbol /\ phase = "resolve" /\ symtab[Named].kind = "label" /\ phase' = phase
        /\ symtab' = Computed(Named, LabelValue(Named))
        /\ Resume(Operand(Top, LabelValue(Named)))
    BY <1>10 DEF TakeLabel
  <2>2. frames # << >> /\ Named \in Entries /\ ~AtEnd(Top)
    BY <2>1, NamedFacts
  <2>3. Stepped(Named, DONE)
    BY <2>1, <2>2, ComputedStepped DEF StackInv, EntriesOK
  <2>4. symtab[Named].step # IN_PROGRESS
    BY <1>1, <2>1, <2>2 DEF EntriesOK, IsEntry
  <2>5. Goes(Top, Operand(Top, LabelValue(Named)))
    BY <2>2, TopFacts, OperandGoes
  <2>6. StackInv'
    BY <2>1, <2>2, <2>3, <2>4, <2>5, ResumeStep
  <2>7. QED
    BY <1>1, <2>2, <2>3, <2>6, EvolvesWhen
<1>11. CASE TakeConstant
  <2>1. /\ TakesSymbol /\ phase = "resolve" /\ symtab[Named].kind = "const"
        /\ symtab[Named].step # IN_PROGRESS /\ Enter(Named)
    BY <1>11 DEF TakeConstant
  <2>2. Named \in Entries /\ Asks(Top, symtab[Named].name)
    BY <2>1, NamedFacts
  <2>3. StackInv'
    BY <2>1, <2>2, EnterStep
  <2>4. symtab' = Marked(Named, IN_PROGRESS)
    BY <2>1 DEF Enter, Marked
  <2>5. Stepped(Named, IN_PROGRESS)
    BY <2>2, <2>4, MarkedStepped DEF StackInv, EntriesOK
  <2>6. QED
    BY <1>1, <2>1, <2>2, <2>3, <2>5, EvolvesWhen
<1>12. CASE FindLoop
  <2>1. symtab' = symtab /\ frames' = frames /\ phase = "resolve" /\ phase' = "unwind"
    BY <1>12 DEF FindLoop
  <2>2. StackInv'
    BY <1>1, <2>1, QuietStep
  <2>3. QED
    BY <1>1, <2>1, <2>2, EvolvesWhen
<1>13. CASE EndBadly
  BY <1>2, <1>13 DEF EndBadly
<1>14. CASE Return
  BY <1>14, ReturnStep
<1>15. CASE Unwind
  BY <1>15, UnwindStep
<1>16. CASE EndUnwind
  BY <1>2, <1>16 DEF EndUnwind
<1>17. QED
  BY <1>4, <1>5, <1>6, <1>7, <1>8, <1>9, <1>10, <1>11, <1>12, <1>13, <1>14, <1>15, <1>16
     DEF Calculate

\* Without activations there is nothing to say of the stack.
LEMMA NoFrames ==
    ASSUME EntriesOK, frames = << >>, \A e \in Entries : symtab[e].step # IN_PROGRESS
    PROVE  FramesOK /\ Chain /\ InProgressIsOnStack
<1>1. IsSeq(frames) /\ Len(frames) = 0 /\ DOMAIN frames = {}
  BY EmptyIsSeq, SeqFacts
<1>2. QED
  BY <1>1 DEF FramesOK, Chain, InProgressIsOnStack

LEMMA StackInit == Init => StackInv
<1> SUFFICES ASSUME Init PROVE StackInv
  OBVIOUS
<1>1. symtab = << >> /\ frames = << >> /\ phase = "start" /\ i = 1
  BY DEF Init, SymtabInit
<1>2. IsSeq(symtab) /\ Entries = {}
  BY <1>1, EmptyIsSeq, SeqFacts DEF Entries
<1>3. EntriesOK
  BY <1>2 DEF EntriesOK
<1>4. FramesOK /\ Chain /\ InProgressIsOnStack
  BY <1>1, <1>2, <1>3, NoFrames
<1>5. QED
  BY <1>1, <1>3, <1>4 DEF StackInv, PhaseOK

\* A new entry has a name of its own.
LEMMA AddStep ==
    ASSUME StackInv, frames = << >>, frames' = frames, phase = "layout", phase' = phase,
           i' = i + 1, NEW s, IsEntry(s), s.step = NOT_DONE, Adds(s)
    PROVE  StackInv'
<1>1. IsSeq(symtab) /\ Entries = 1..Len(symtab) /\ Len(symtab) \in Nat
  BY SeqFacts DEF StackInv, EntriesOK, Entries
<1>2. symtab' = Append(symtab, s) /\ \A e \in Entries : symtab[e].name # s.name
  BY DEF Adds, Known
<1> DEFINE m == Len(symtab)
<1>3. /\ IsSeq(symtab') /\ Len(symtab') = m + 1 /\ symtab'[m + 1] = s
      /\ \A e \in 1..m : symtab'[e] = symtab[e]
  BY <1>1, <1>2, AppendSeq
<1>4. Entries' = 1..m + 1
  BY <1>3, SeqFacts DEF Entries
<1>5. \A e \in 1..m + 1 : e = m + 1 \/ e \in 1..m
  BY <1>1
<1>6. \A e \in 1..m : IsEntry(symtab[e]) /\ symtab[e].step # IN_PROGRESS
  <2>1. OnStack /\ Len(frames) = 0
    BY OnStackIs, EmptySeq DEF StackInv
  <2>2. QED
    BY <1>1, <2>1 DEF StackInv, EntriesOK, OnStack
<1>7. \A e \in 1..m + 1 : IsEntry(symtab'[e]) /\ symtab'[e].step # IN_PROGRESS
  BY <1>3, <1>5, <1>6 DEF NOT_DONE, IN_PROGRESS
<1>8. \A d, e \in 1..m + 1 : symtab'[d].name = symtab'[e].name => d = e
  <2>1. \A d, e \in 1..m : symtab[d].name = symtab[e].name => d = e
    BY <1>1 DEF StackInv, EntriesOK
  <2>2. \A e \in 1..m : symtab[e].name # s.name
    BY <1>1, <1>2
  <2>3. QED
    BY <1>3, <1>5, <2>1, <2>2
<1>9. EntriesOK'
  BY <1>3, <1>4, <1>7, <1>8 DEF EntriesOK
<1>10. FramesOK' /\ Chain' /\ InProgressIsOnStack'
  <2>1. IsSeq(frames') /\ Len(frames') = 0 /\ DOMAIN frames' = {}
    BY EmptyIsSeq, SeqFacts
  <2>2. QED
    BY <1>4, <1>7, <2>1 DEF FramesOK, Chain, InProgressIsOnStack
<1>11. PhaseOK'
  BY DEF StackInv, PhaseOK
<1>12. QED
  BY <1>9, <1>10, <1>11 DEF StackInv

LEMMA LayoutStack ==
    ASSUME PassInv, StackInv,
           LayoutSymbol \/ LayoutInstr \/ LayoutData \/ LayoutSymType \/ LayoutEnd
    PROVE  StackInv'
<1>1. phase = "layout" /\ frames = << >> /\ i \in Nat \ {0}
  BY DEF LayoutSymbol, LayoutInstr, LayoutData, LayoutSymType, LayoutEnd, InLayout,
         StackInv, PhaseOK
<1>2. ASSUME NEW how \in {"failed", "panicked", "trimming"}, Fail(how)
      PROVE  StackInv'
  BY <1>1, <1>2, QuietStep DEF Fail, Stop, pass_vars
<1>3. ASSUME Located, UNCHANGED symtab
      PROVE  StackInv'
  BY <1>1, <1>3, QuietStep DEF Located
<1>4. CASE LayoutSymbol
  <2>1. CASE Known(S.name)
    BY <1>2, <1>4, <2>1 DEF LayoutSymbol
  <2>2. CASE ~Known(S.name)
    <3> DEFINE s == IF S.type = "label" THEN Entry("label", S.name, location, << >>)
                    ELSE Entry("const", S.name, 0, S.args[1])
    <3>1. Adds(s) /\ Located /\ i <= Len(ast) /\ S.type \in {"label", "const"}
      BY <1>4, <2>2 DEF LayoutSymbol, InLayout
    <3>2. s.step = NOT_DONE
      BY DEF Entry
    <3>3. IsEntry(s)
      <4>1. ast \in Seq(Statements) /\ i \in 1..Len(ast)
        BY <1>1, <3>1, LenProperties DEF PassInv, ReadOK
      <4>2. S \in Statements
        BY <4>1, ElementOfSeq DEF S
      <4>3. S.type = "const" => S.args[1] \in Seq(Tokens)
        <5>1. S.args \in Seq(Seq(Tokens)) /\ (S.type = "const" => Len(S.args) = 1)
          BY <4>2 DEF Statements
        <5>2. QED
          BY <5>1, ElementOfSeq
      <4>4. << >> \in Seq(Tokens)
        BY EmptySeq
      <4>5. QED
        BY <3>1, <4>3, <4>4 DEF IsEntry, Entry, NOT_DONE, IN_PROGRESS
    <3> HIDE DEF s
    <3>4. frames' = frames /\ phase' = phase /\ i' = i + 1
      BY <3>1 DEF Located
    <3>5. QED
      BY <1>1, <3>1, <3>2, <3>3, <3>4, AddStep
  <2>3. QED
    BY <2>1, <2>2
<1>5. CASE LayoutInstr
  BY <1>2, <1>3, <1>5 DEF LayoutInstr
<1>6. CASE LayoutData
  BY <1>2, <1>3, <1>6 DEF LayoutData
<1>7. CASE LayoutSymType
  BY <1>2, <1>3, <1>7 DEF LayoutSymType
<1>8. CASE LayoutEnd
  <2>1. /\ symtab' = symtab /\ frames' = frames /\ phase' = "resolve" /\ i' = 1
    BY <1>8 DEF LayoutEnd, Keep
  <2>2. Entries' = Entries
    BY <2>1 DEF Entries
  <2>3. EntriesOK' /\ FramesOK' /\ Chain' /\ InProgressIsOnStack'
    BY <2>1, <2>2 DEF StackInv, EntriesOK, FramesOK, Chain, InProgressIsOnStack
  <2>4. \A e \in Entries : ~(e < 1)
    BY SeqFacts DEF StackInv, EntriesOK, Entries
  <2>5. Len(frames) = 0
    BY <1>1, EmptySeq
  <2>6. PhaseOK'
    BY <2>1, <2>2, <2>4, <2>5 DEF StackInv, PhaseOK
  <2>7. QED
    BY <2>3, <2>6 DEF StackInv
<1>9. QED
  BY <1>4, <1>5, <1>6, <1>7, <1>8

LEMMA ResolveStack ==
    ASSUME StackInv, ResolveDone \/ ResolveLabel \/ ResolveConst \/ ResolveEnd
    PROVE  StackInv'
<1>1. phase = "resolve" /\ frames = << >> /\ i \in Nat \ {0} /\ EntriesOK
  BY DEF ResolveDone, ResolveLabel, ResolveConst, ResolveEnd, InResolve, StackInv, PhaseOK
<1>2. IsSeq(frames) /\ Len(frames) = 0
  BY <1>1, EmptyIsSeq
<1>3. \A e \in Entries : symtab[e].step # IN_PROGRESS
  BY <1>2, OnStackIs DEF StackInv, OnStack
<1>4. Entries \subseteq Nat
  BY SeqFacts DEF StackInv, EntriesOK, Entries
<1>5. CASE ResolveDone
  <2>1. /\ symtab' = symtab /\ frames' = frames /\ phase' = phase /\ i' = i + 1
        /\ symtab[i].step = DONE
    BY <1>5 DEF ResolveDone, Keep, Passes
  <2>2. Entries' = Entries
    BY <2>1 DEF Entries
  <2>3. EntriesOK' /\ FramesOK' /\ Chain' /\ InProgressIsOnStack'
    BY <2>1, <2>2 DEF StackInv, EntriesOK, FramesOK, Chain, InProgressIsOnStack
  <2>4. ASSUME NEW e \in Entries, e < i + 1 PROVE symtab[e].step # NOT_DONE
    <3>1. e < i \/ e = i
      BY <1>1, <1>4, <2>4
    <3>2. QED
      BY <1>1, <2>1, <3>1 DEF StackInv, PhaseOK, DONE, NOT_DONE
  <2>5. PhaseOK'
    BY <1>1, <1>2, <2>1, <2>2, <2>4 DEF PhaseOK
  <2>6. QED
    BY <2>3, <2>5 DEF StackInv
<1>6. CASE ResolveLabel
  <2>1. /\ i \in Entries /\ symtab[i].kind = "label" /\ symtab' = Computed(i, LabelValue(i))
        /\ frames' = frames /\ phase' = phase /\ i' = i
    BY <1>6 DEF ResolveLabel, InResolve, pass_vars
  <2>2. Stepped(i, DONE)
    BY <2>1, ComputedStepped DEF StackInv, EntriesOK
  <2>3. Evolves
    BY <1>1, <2>1, <2>2, EvolvesWhen
  <2>4. EntriesOK' /\ Entries' = Entries
    BY <1>1, <2>3, EvolvesOK
  <2>5. \A e \in Entries : symtab'[e].step # IN_PROGRESS
    BY <1>3, <2>2 DEF Stepped, DONE, IN_PROGRESS
  <2>6. FramesOK' /\ Chain' /\ InProgressIsOnStack'
    <3>1. IsSeq(frames') /\ Len(frames') = 0 /\ DOMAIN frames' = {}
      BY <1>2, <2>1, SeqFacts
    <3>2. QED
      BY <2>4, <2>5, <3>1 DEF FramesOK, Chain, InProgressIsOnStack
  <2>7. PhaseOK'
    <3>1. \A e \in Entries : e < i => symtab'[e].step # NOT_DONE
      BY <1>1, <2>3 DEF StackInv, PhaseOK, Evolves
    <3>2. QED
      BY <1>1, <1>2, <2>1, <2>4, <3>1 DEF PhaseOK
  <2>8. QED
    BY <2>4, <2>6, <2>7 DEF StackInv
<1>7. CASE ResolveConst
  <2>1. /\ i \in Entries /\ symtab[i].kind = "const" /\ symtab[i].step = NOT_DONE
        /\ Enter(i) /\ i' = i
    BY <1>7 DEF ResolveConst, InResolve, pass_vars
  <2>2. symtab[i].step # IN_PROGRESS
    BY <2>1 DEF NOT_DONE, IN_PROGRESS
  <2>3. QED
    BY <1>1, <2>1, <2>2, EnterStep
<1>8. CASE ResolveEnd
  <2>1. /\ symtab' = symtab /\ frames' = frames /\ phase' = "emit" /\ i' = 1
        /\ i \notin Entries
    BY <1>8 DEF ResolveEnd, Keep
  <2>2. Entries' = Entries
    BY <2>1 DEF Entries
  <2>3. EntriesOK' /\ FramesOK' /\ Chain' /\ InProgressIsOnStack'
    BY <2>1, <2>2 DEF StackInv, EntriesOK, FramesOK, Chain, InProgressIsOnStack
  <2>4. ASSUME NEW e \in Entries PROVE symtab[e].step = DONE
    <3>1. e < i
      <4>1. Entries = 1..Len(symtab) /\ Len(symtab) \in Nat
        BY <1>1, SeqFacts DEF EntriesOK, Entries
      <4>2. QED
        BY <1>1, <2>1, <4>1
    <3>2. symtab[e].step # NOT_DONE /\ symtab[e].step # IN_PROGRESS
      BY <1>1, <1>3, <3>1 DEF StackInv, PhaseOK
    <3>3. QED
      BY <1>1, <3>2 DEF EntriesOK, IsEntry
  <2>5. PhaseOK'
    BY <1>2, <2>1, <2>2, <2>4 DEF PhaseOK
  <2>6. QED
    BY <2>3, <2>5 DEF StackInv
<1>9. QED
  BY <1>5, <1>6, <1>7, <1>8

LEMMA EmitStack ==
    ASSUME PassInv, StackInv,
           \/ EmitNothing \/ EmitBlob \/ EmitExpression \/ EmitNumber
           \/ EmitArgument \/ EmitInstr \/ EmitEnd
    PROVE  StackInv'
<1>1. phase = "emit" /\ i \in Nat \ {0} /\ symtab' = symtab /\ EntriesOK
  BY DEF EmitNothing, EmitBlob, EmitExpression, EmitNumber, EmitArgument, EmitInstr,
         EmitEnd, InEmit, Emitted, Fail, Stop, Keep, StackInv, PhaseOK
<1>2. Entries' = Entries /\ Entries \subseteq Nat \ {0}
  BY <1>1, SeqFacts DEF EntriesOK, Entries
<1>3. EntriesOK' /\ \A e \in Entries : symtab[e].step = DONE
  BY <1>1, <1>2 DEF EntriesOK, StackInv, PhaseOK
<1>4. CASE EmitNothing \/ EmitBlob \/ EmitInstr
  <2>1. frames' = frames /\ phase' = phase /\ i' = i + 1
    BY <1>4 DEF EmitNothing, EmitBlob, EmitInstr, Emitted, Keep
  <2>2. QED
    BY <1>1, <2>1, QuietStep
<1>5. CASE EmitExpression
  <2> DEFINE f == Activation(0, S.args[arg])
  <2>1. /\ frames' = <<f>> /\ phase' = phase /\ i' = i /\ i <= Len(ast)
        /\ S.type = "number" \/ (S.type = "instr" /\ arg <= Len(S.args))
    BY <1>5 DEF EmitExpression, InEmit, pass_vars
  <2>2. S.args[arg] \in Seq(Tokens)
    <3>1. Emitting /\ ast \in Seq(Statements)
      BY <1>1 DEF PassInv, ReadOK
    <3>2. i \in 1..Len(ast)
      BY <1>1, <2>1, <3>1, LenProperties
    <3>3. S \in Statements
      BY <3>1, <3>2, ElementOfSeq DEF S
    <3>4. S.args \in Seq(Seq(Tokens)) /\ (S.type = "number" => Len(S.args) = 1)
      BY <3>3 DEF Statements
    <3>5. arg \in 1..Len(S.args)
      <4>1. arg \in Nat \ {0} /\ (S.type = "number" => arg = 1) /\ Len(S.args) \in Nat
        BY <3>1, <3>4, LenProperties DEF Emitting, S
      <4>2. QED
        BY <2>1, <3>4, <4>1
    <3>6. QED
      BY <3>4, <3>5, ElementOfSeq
  <2>3. IsFrame(f) /\ f.entry = 0
    BY <2>2 DEF IsFrame, Activation
  <2> HIDE DEF f
  <2>4. IsSeq(frames') /\ Len(frames') = 1 /\ frames'[1] = f
    <3>1. frames' \in Seq({f}) /\ Len(frames') = 1 /\ frames'[1] = f
      BY <2>1
    <3>2. QED
      BY <3>1, SomeSeq
  <2>5. FramesOK' /\ Chain'
    BY <1>2, <2>3, <2>4 DEF FramesOK, Chain
  <2>6. InProgressIsOnStack'
    <3>1. \A e \in Entries : symtab'[e].step # IN_PROGRESS /\ e # 0
      BY <1>1, <1>2, <1>3 DEF DONE, IN_PROGRESS
    <3>2. OnStack'
      BY <1>2, <2>3, <2>4, <3>1 DEF OnStack
    <3>3. QED
      BY <2>5, <3>2, SeqFacts DEF FramesOK, InProgressIsOnStack, OnStack
  <2>7. PhaseOK'
    BY <1>1, <1>2, <1>3, <2>1, <2>3, <2>4 DEF PhaseOK
  <2>8. QED
    BY <1>3, <2>5, <2>6, <2>7 DEF StackInv
<1>6. CASE EmitNumber \/ EmitArgument
  <2>1. frames' = << >> /\ phase' = phase /\ i' \in Nat \ {0}
    BY <1>1, <1>6 DEF EmitNumber, EmitArgument
  <2>2. IsSeq(frames') /\ Len(frames') = 0 /\ DOMAIN frames' = {}
    BY <2>1, EmptyIsSeq, SeqFacts
  <2>3. \A e \in Entries : symtab'[e].step # IN_PROGRESS
    BY <1>1, <1>3 DEF DONE, IN_PROGRESS
  <2>4. FramesOK' /\ Chain' /\ InProgressIsOnStack'
    <3>1. FramesOK'
      BY <2>2 DEF FramesOK
    <3>2. Chain'
      BY <2>2 DEF Chain
    <3>3. InProgressIsOnStack'
      BY <1>2, <2>2, <2>3 DEF InProgressIsOnStack
    <3>4. QED
      BY <3>1, <3>2, <3>3
  <2>5. PhaseOK'
    BY <1>1, <1>2, <1>3, <2>1, <2>2 DEF PhaseOK
  <2>6. QED
    BY <1>3, <2>4, <2>5 DEF StackInv
<1>7. CASE EmitEnd
  <2>1. frames' = frames /\ phase' = "done" /\ i' = i
    BY <1>7 DEF EmitEnd, Fail, Stop, pass_vars
  <2>2. QED
    BY <1>1, <2>1, QuietStep
<1>8. QED
  BY <1>4, <1>5, <1>6, <1>7

LEMMA StackStep == PassInv /\ StackInv /\ [Next]_vars => StackInv'
<1> SUFFICES ASSUME PassInv, StackInv, [Next]_vars PROVE StackInv'
  OBVIOUS
<1>1. i \in Nat \ {0}
  BY DEF StackInv, PhaseOK
<1>2. CASE OpenMain \/ ReadInclude \/ ReadStatement \/ ReadEnd
  <2>1. /\ symtab' = symtab /\ frames' = frames /\ i' = i /\ phase \in {"start", "read"}
        /\ phase' \in {"start", "read", "layout", "failed", "panicked", "trimming"}
    BY <1>2 DEF OpenMain, ReadInclude, ReadStatement, ReadEnd, Keep, Open
  <2>2. QED
    BY <1>1, <2>1, QuietStep
<1>3. CASE Compute
  BY <1>3, CalculateStack DEF Compute, pass_vars
<1>4. CASE UNCHANGED vars
  BY <1>1, <1>4, QuietStep DEF vars, symtab_vars, pass_vars
<1>5. QED
  BY <1>2, <1>3, <1>4, LayoutStack, ResolveStack, EmitStack DEF Next, Rest

THEOREM StackInvariant == Spec => [](PassInv /\ StackInv)
<1>1. PassInv /\ StackInv /\ [Next]_vars => StackInv'
  BY StackStep
<1>2. QED
  BY <1>1, StackInit, PassInvariant, PTL DEF Spec

\* Whatever constants name one another, an entry is in progress exactly while an
\* activation of _get_value computes it, and no two activations compute the
\* same: the depth of the recursion is bounded by the number of symbols, and
\* what is taken for a loop is one.
THEOREM RecursionIsOnStack == Spec => []InProgressIsOnStack
BY StackInvariant, PTL DEF StackInv

\* The second pass meets no symbol without a value: the check$ of
\* _fake_get_value (calc.c:535) is never the end of the process.
SecondPassKnowsValues ==
    phase = "emit" /\ TakesSymbol => symtab[Named].step = DONE

\* See SecondPassKnowsValues.
THEOREM ValuesAreKnown == Spec => []SecondPassKnowsValues
<1>1. StackInv => SecondPassKnowsValues
  BY NamedFacts DEF StackInv, PhaseOK, SecondPassKnowsValues
<1>2. QED
  BY <1>1, StackInvariant, PTL

-----------------------------------------------------------------------------
(* The report of a loop.                                                    *)

\* What is printed so far, in the words of LoopReportIsACycle, and what is
\* still to come: the innermost activation mentions the line printed last, and
\* the entry where the loop closes is printed or still to be.
TraceInv ==
    /\ IsSeq(printed)
    /\ printed # << >> =>
         traceback_to \in Entries /\ Mentions(printed[1].entry, traceback_to)
    /\ \A k \in 1..Len(printed) :
         /\ printed[k].entry \in Entries /\ symtab[printed[k].entry].step # IN_PROGRESS
         /\ k > 1 => Mentions(printed[k].entry, printed[k - 1].entry)
         /\ printed[k].mark = "outside" <=> \E j \in 1..k - 1 : printed[j].entry = traceback_to
         /\ printed[k].mark = "last" <=> k > 1 /\ printed[k].entry = traceback_to
    /\ phase \notin {"unwind", "failed"} => printed = << >>
    /\ phase = "unwind" =>
         /\ traceback_to \in Entries
         /\ frames # << >> =>
              Mentions(Top.entry, IF printed = << >> THEN traceback_to ELSE Last(printed).entry)
         /\ \/ symtab[traceback_to].step = IN_PROGRESS
            \/ \E k \in 1..Len(printed) : printed[k].entry = traceback_to
    /\ phase = "failed" /\ printed # << >> =>
         \E k \in 1..Len(printed) : printed[k].entry = traceback_to

\* Nothing is printed as long as no loop is found.
LEMMA NothingPrinted ==
    ASSUME printed = << >>, phase # "unwind"
    PROVE  TraceInv
<1>1. IsSeq(printed) /\ Len(printed) = 0
  BY EmptyIsSeq
<1>2. QED
  BY <1>1 DEF TraceInv

\* An activation mentions what it stands at.
LEMMA AskedIsMentioned ==
    ASSUME StackInv, NEW k \in 1..Len(frames), frames[k].entry # 0, NEW e \in Entries,
           Asks(frames[k], symtab[e].name)
    PROVE  Mentions(frames[k].entry, e)
<1>1. IsFrame(frames[k]) /\ Range(frames[k].expr) \subseteq Range(symtab[frames[k].entry].expr)
  BY DEF StackInv, FramesOK
<1>2. NextToken(frames[k]) \in Range(frames[k].expr)
  BY <1>1, TokenOfFrame DEF Asks
<1>3. QED
  BY <1>1, <1>2 DEF Mentions, Asks

LEMMA FindTrace ==
    ASSUME StackInv, TraceInv, FindLoop
    PROVE  TraceInv'
<1>1. /\ TakesSymbol /\ phase = "resolve" /\ symtab[Named].step = IN_PROGRESS
      /\ traceback_to' = Named /\ phase' = "unwind"
      /\ symtab' = symtab /\ frames' = frames /\ printed' = printed
  BY DEF FindLoop
<1>2. /\ frames # << >> /\ Named \in Entries /\ Asks(Top, symtab[Named].name)
  BY <1>1, NamedFacts
<1>3. printed' = << >> /\ IsSeq(printed') /\ Len(printed') = 0
  BY <1>1, EmptyIsSeq DEF TraceInv
<1>4. Mentions(Top.entry, Named)
  <2>1. Len(frames) \in 1..Len(frames) /\ Top = frames[Len(frames)] /\ Top.entry \in Entries
    BY <1>1, <1>2, TopFacts
  <2>2. Top.entry # 0
    BY <1>1, <2>1 DEF StackInv, PhaseOK
  <2>3. QED
    BY <1>2, <2>1, <2>2, AskedIsMentioned
<1>5. Entries' = Entries /\ Top' = Top
  BY <1>1 DEF Entries, Top
<1> DEFINE e == Named
<1>6. PICK d : d = e /\ d \in Entries
  BY <1>2
<1>7. Mentions(Top.entry, d)'
  BY <1>1, <1>4, <1>5, <1>6 DEF Mentions
<1> HIDE DEF e
<1>8. traceback_to' = d /\ symtab'[d].step = IN_PROGRESS
  BY <1>1, <1>6 DEF e
<1>9. Mentions(Top.entry, traceback_to)'
  BY <1>7, <1>8 DEF Mentions
<1>10. QED
  BY <1>1, <1>3, <1>5, <1>6, <1>8, <1>9 DEF TraceInv

LEMMA UnwindTrace ==
    ASSUME StackInv, TraceInv, Unwind, i' = i
    PROVE  TraceInv'
<1> DEFINE n == Len(frames)
           p == Len(printed)
           line == [entry |-> Top.entry, mark |-> Mark(Top.entry)]
<1>1. /\ phase = "unwind" /\ phase' = phase /\ frames # << >> /\ printed' = Append(printed, line)
      /\ symtab' = Marked(Top.entry, DONE) /\ frames' = Front(frames)
      /\ traceback_to' = traceback_to
  BY DEF Unwind, Marked
<1>2. /\ IsSeq(frames) /\ n \in Nat \ {0} /\ Top = frames[n] /\ Top.entry \in Entries
  BY <1>1, TopFacts
<1>3. StackInv' /\ Evolves /\ Entries' = Entries
  BY UnwindStep, EvolvesOK DEF StackInv
<1>4. Stepped(Top.entry, DONE)
  BY <1>1, <1>2, MarkedStepped DEF StackInv, EntriesOK
<1>5. PICK e \in Entries : e = Top.entry
  BY <1>2
<1>6. line.entry = e /\ line.mark = Mark(e)
  BY <1>5
<1> HIDE DEF line
<1>7. /\ IsSeq(printed') /\ Len(printed') = p + 1 /\ p \in Nat /\ printed' # << >>
      /\ \A k \in 1..p : printed'[k] = printed[k]
      /\ printed'[p + 1] = line
      /\ printed = << >> <=> p = 0
  BY <1>1, AppendSeq, SeqFacts DEF TraceInv
<1>8. traceback_to \in Entries /\ \A k \in 1..p : printed[k].entry \in Entries
  BY <1>1 DEF TraceInv
<1>9. \A c, d \in Entries : Mentions(c, d)' <=> Mentions(c, d)
  BY <1>3 DEF Evolves, Mentions
<1>10. symtab[e].step = IN_PROGRESS /\ \A k \in 1..n - 1 : frames[k].entry # e
  <2>1. OnStack /\ n \in 1..n
    BY <1>2, OnStackIs DEF StackInv
  <2>2. QED
    BY <1>2, <1>5, <2>1 DEF OnStack
<1>11. \A d \in Entries : symtab'[d].step = IF d = e THEN DONE ELSE symtab[d].step
  BY <1>4, <1>5 DEF Stepped
<1>12. \A k \in 1..p + 1 : k = p + 1 \/ k \in 1..p
  BY <1>7
\* The entry is not in a line above, and the loop closes in none before it.
<1>13. \A k \in 1..p : printed[k].entry # e
  BY <1>10 DEF TraceInv
<1>14. symtab[traceback_to].step = IN_PROGRESS <=> ~\E k \in 1..p : printed[k].entry = traceback_to
  BY <1>1 DEF TraceInv
<1>15. Mentions(e, IF p = 0 THEN traceback_to ELSE printed[p].entry)
  BY <1>1, <1>5, <1>7 DEF TraceInv, Last
<1>16. traceback_to' \in Entries' /\ Mentions(printed[1].entry, traceback_to)'
  <2>1. CASE p = 0
    <3>1. printed'[1] = line
      BY <1>7, <2>1
    <3>2. \A d : d = traceback_to => Mentions(e, d)'
      BY <1>8, <1>9, <1>15, <2>1
    <3>3. \A c, d : c = printed'[1].entry /\ d = traceback_to' => Mentions(c, d)'
      BY <1>1, <1>6, <3>1, <3>2
    <3>4. QED
      BY <1>1, <1>3, <1>8, <3>3 DEF Mentions
  <2>2. CASE p # 0
    <3>1. 1 \in 1..p /\ printed'[1] = printed[1]
      BY <1>7, <2>2
    <3>2. Mentions(printed[1].entry, traceback_to)
      BY <1>7, <2>2 DEF TraceInv
    <3>3. \A c, d : c = printed'[1].entry /\ d = traceback_to' => Mentions(c, d)'
      BY <1>1, <1>8, <1>9, <3>1, <3>2
    <3>4. QED
      BY <1>1, <1>3, <1>8, <3>3 DEF Mentions
  <2>3. QED
    BY <2>1, <2>2
<1>17. ASSUME NEW k \in 1..p + 1
       PROVE  printed'[k].entry \in Entries /\ symtab'[printed'[k].entry].step # IN_PROGRESS
  <2>1. CASE k = p + 1
    BY <1>6, <1>7, <1>11, <2>1 DEF DONE, IN_PROGRESS
  <2>2. CASE k \in 1..p
    <3>1. printed[k].entry \in Entries /\ symtab[printed[k].entry].step # IN_PROGRESS
      BY <2>2 DEF TraceInv
    <3>2. QED
      BY <1>7, <1>11, <2>2, <3>1 DEF DONE, IN_PROGRESS
  <2>3. QED
    BY <1>12, <2>1, <2>2
<1>18. ASSUME NEW k \in 2..p + 1
       PROVE  \A c, d : c = printed'[k].entry /\ d = printed'[k - 1].entry => Mentions(c, d)'
  <2>1. CASE k = p + 1
    <3>1. p \in 1..p /\ k - 1 = p /\ p # 0
      BY <1>7, <2>1
    <3>2. printed'[k].entry = e /\ printed'[k - 1].entry = printed[p].entry
      BY <1>6, <1>7, <2>1, <3>1
    <3>3. Mentions(e, printed[p].entry)
      BY <1>15, <3>1
    <3>4. QED
      BY <1>8, <1>9, <3>1, <3>2, <3>3
  <2>2. CASE k # p + 1
    <3>1. k \in 1..p /\ k - 1 \in 1..p /\ k > 1
      BY <1>7, <2>2
    <3>2. Mentions(printed[k].entry, printed[k - 1].entry)
      BY <3>1 DEF TraceInv
    <3>3. QED
      BY <1>7, <1>8, <1>9, <3>1, <3>2
  <2>3. QED
    BY <2>1, <2>2
<1>19. \A k \in 1..p + 1 : k > 1 => Mentions(printed[k].entry, printed[k - 1].entry)'
  <2>1. \A k \in 1..p + 1 : k > 1 => k \in 2..p + 1
    BY <1>7
  <2>2. QED
    BY <1>18, <2>1 DEF Mentions
<1>20. ASSUME NEW k \in 1..p + 1
       PROVE  /\ printed'[k].mark = "outside" <=> \E j \in 1..k - 1 : printed'[j].entry = traceback_to
              /\ printed'[k].mark = "last" <=> k > 1 /\ printed'[k].entry = traceback_to
  <2>1. CASE k = p + 1
    <3>1. printed'[k] = line /\ k - 1 = p
      BY <1>7, <2>1
    <3>2. (\E j \in 1..p : printed[j].entry = traceback_to) =>
            p # 0 /\ e # traceback_to
      BY <1>7, <1>13
    <3>3. /\ line.mark = "outside" <=> \E j \in 1..p : printed[j].entry = traceback_to
          /\ line.mark = "last" <=> p # 0 /\ e = traceback_to
      BY <1>6, <1>7, <1>14, <3>2 DEF Mark
    <3>4. k > 1 <=> p # 0
      BY <1>7, <2>1
    <3>5. QED
      BY <1>6, <1>7, <3>1, <3>3, <3>4
  <2>2. CASE k \in 1..p
    <3>1. \A j \in 1..k - 1 : printed'[j] = printed[j]
      BY <1>7, <2>2
    <3>2. QED
      BY <1>7, <2>2, <3>1 DEF TraceInv
  <2>3. QED
    BY <1>12, <2>1, <2>2
<1>21. frames' # << >> => Mentions(Top.entry, Last(printed).entry)'
  <2>1. SUFFICES ASSUME frames' # << >> PROVE Mentions(Top.entry, Last(printed).entry)'
    OBVIOUS
  <2>2. /\ IsSeq(frames') /\ Len(frames') = n - 1
        /\ \A k \in 1..n - 1 : frames'[k] = frames[k]
    BY <1>1, <1>2, FrontSeq
  <2>3. n - 1 \in 1..n - 1 /\ n - 1 \in 1..n /\ n \in 2..n /\ n \in 1..n
    BY <1>2, <2>1, <2>2, SeqFacts
  <2>4. Top' = frames[n - 1] /\ Last(printed)' = line
    BY <1>7, <2>2, <2>3 DEF Top, Last
  <2>5. frames[n].entry # 0 /\ Asks(frames[n - 1], symtab[frames[n].entry].name)
    BY <2>3 DEF StackInv, Chain
  <2>6. frames[n - 1].entry \in Entries /\ frames[n - 1].entry # 0
    BY <1>1, <2>3 DEF StackInv, PhaseOK, FramesOK
  <2>7. Mentions(frames[n - 1].entry, e)
    BY <1>2, <1>5, <2>3, <2>5, <2>6, AskedIsMentioned
  <2>8. \A c : c = frames[n - 1].entry => Mentions(c, e)'
    BY <1>9, <2>6, <2>7
  <2>9. QED
    BY <1>6, <2>2, <2>3, <2>4, <2>8 DEF Mentions
<1>22. \/ symtab'[traceback_to].step = IN_PROGRESS
       \/ \E k \in 1..p + 1 : printed'[k].entry = traceback_to
  <2>1. CASE e = traceback_to
    <3>1. p + 1 \in 1..p + 1
      BY <1>7
    <3>2. QED
      BY <1>6, <1>7, <2>1, <3>1
  <2>2. CASE e # traceback_to
    <3>1. symtab'[traceback_to].step = symtab[traceback_to].step
      BY <1>8, <1>11, <2>2
    <3>2. \A k \in 1..p : k \in 1..p + 1
      BY <1>7
    <3>3. QED
      BY <1>7, <1>14, <3>1, <3>2
  <2>3. QED
    BY <2>1, <2>2
<1>23. QED
  BY <1>1, <1>3, <1>7, <1>16, <1>17, <1>19, <1>20, <1>21, <1>22 DEF TraceInv

\* A step that leaves the table, the stack and the report alone.
LEMMA QuietTrace ==
    ASSUME TraceInv, UNCHANGED <<symtab, frames, traceback_to, printed>>,
           \/ phase' = phase
           \/ phase' = "failed" /\ phase = "unwind" /\ frames = << >> /\ StackInv
    PROVE  TraceInv'
<1>1. Entries' = Entries /\ \A c, d : Mentions(c, d)' <=> Mentions(c, d)
  BY DEF Entries, Mentions
<1>2. /\ IsSeq(printed)'
      /\ printed' # << >> =>
           traceback_to' \in Entries' /\ Mentions(printed[1].entry, traceback_to)'
      /\ \A k \in 1..Len(printed') :
           /\ printed'[k].entry \in Entries' /\ symtab'[printed'[k].entry].step # IN_PROGRESS
           /\ k > 1 => Mentions(printed[k].entry, printed[k - 1].entry)'
           /\ printed'[k].mark = "outside" <=>
                \E j \in 1..k - 1 : printed'[j].entry = traceback_to'
           /\ printed'[k].mark = "last" <=> k > 1 /\ printed'[k].entry = traceback_to'
  BY <1>1 DEF TraceInv, Mentions
<1>3. CASE phase' = phase
  BY <1>1, <1>2, <1>3 DEF TraceInv, Mentions, Top
<1>4. CASE phase' = "failed" /\ phase = "unwind" /\ frames = << >> /\ StackInv
  <2>1. symtab[traceback_to].step # IN_PROGRESS
    <3>1. OnStack /\ Len(frames) = 0
      BY <1>4, OnStackIs, EmptySeq DEF StackInv
    <3>2. traceback_to \in Entries
      BY <1>4 DEF TraceInv
    <3>3. QED
      BY <3>1, <3>2 DEF OnStack
  <2>2. \E k \in 1..Len(printed) : printed[k].entry = traceback_to
    BY <1>4, <2>1 DEF TraceInv
  <2>3. QED
    BY <1>2, <1>4, <2>2 DEF TraceInv
<1>5. QED
  BY <1>3, <1>4

LEMMA TraceStep == StackInv /\ TraceInv /\ [Next]_vars => TraceInv'
<1> SUFFICES ASSUME StackInv, TraceInv, [Next]_vars PROVE TraceInv'
  OBVIOUS
<1>1. ASSUME printed' = printed, phase \notin {"unwind", "failed"}, phase' # "unwind"
      PROVE  TraceInv'
  <2>1. printed' = << >>
    BY <1>1 DEF TraceInv
  <2>2. IsSeq(printed') /\ Len(printed') = 0
    BY <2>1, EmptyIsSeq
  <2>3. QED
    BY <1>1, <2>1, <2>2 DEF TraceInv
<1>2. CASE OpenMain \/ ReadInclude \/ ReadStatement \/ ReadEnd
  BY <1>1, <1>2 DEF OpenMain, ReadInclude, ReadStatement, ReadEnd, Keep, Open
<1>3. CASE LayoutSymbol \/ LayoutInstr \/ LayoutData \/ LayoutSymType \/ LayoutEnd
  BY <1>1, <1>3 DEF LayoutSymbol, LayoutInstr, LayoutData, LayoutSymType, LayoutEnd, InLayout,
     Located, Fail, Stop, Keep
<1>4. CASE ResolveDone \/ ResolveLabel \/ ResolveConst \/ ResolveEnd
  BY <1>1, <1>4 DEF ResolveDone, ResolveLabel, ResolveConst, ResolveEnd, InResolve, Enter, Keep
<1>5. CASE EmitNothing \/ EmitBlob \/ EmitExpression \/ EmitNumber
  BY <1>1, <1>5 DEF EmitNothing, EmitBlob, EmitExpression, EmitNumber, InEmit, EndsWell, Emitted,
     Keep
<1>6. CASE EmitArgument \/ EmitInstr \/ EmitEnd
  BY <1>1, <1>6 DEF EmitArgument, EmitInstr, EmitEnd, InEmit, EndsWell, Emitted, Fail, Stop, Keep
<1>7. CASE Compute
  <2>1. i' = i /\ Calculate
    BY <1>7 DEF Compute, pass_vars
  <2>2. CASE Unwind
    BY <2>1, <2>2, UnwindTrace
  <2>3. CASE EndUnwind
    BY <2>3, QuietTrace DEF EndUnwind, Stop
  <2>4. CASE FindLoop
    BY <2>4, FindTrace
  <2>5. CASE MeetSemicolon \/ ExecuteOperator \/ TakeBadToken \/ TakeToken \/ TakeUnknownName
    BY <1>1, <2>5 DEF MeetSemicolon, ExecuteOperator, TakeBadToken, TakeToken, TakeUnknownName,
       TakesName, TakesToken, Trimmed, Running, Stop
  <2>6. CASE TakeValue \/ TakeLabel \/ TakeConstant \/ EndBadly \/ Return
    BY <1>1, <2>6 DEF TakeValue, TakeLabel, TakeConstant, Enter, EndBadly, Return, EndsWell,
       TakesSymbol, TakesName, TakesToken, Trimmed, Running, Stop
  <2>7. QED
    BY <2>1, <2>2, <2>3, <2>4, <2>5, <2>6 DEF Calculate
<1>8. CASE UNCHANGED vars
  BY <1>8, QuietTrace DEF vars, symtab_vars
<1>9. QED
  BY <1>2, <1>3, <1>4, <1>5, <1>6, <1>7, <1>8 DEF Next, Rest

\* Whatever symbols name one another, the report of a loop shows a loop: its
\* lines are joined by mentions, the arrow goes down to the entry it points at
\* and no further, and the report is never cut short.
THEOREM LoopsAreReported == Spec => []LoopReportIsACycle
<1>1. Init => TraceInv
  <2> SUFFICES ASSUME Init PROVE TraceInv
    OBVIOUS
  <2>1. printed = << >> /\ phase # "unwind"
    BY DEF Init, SymtabInit
  <2>2. QED
    BY <2>1, NothingPrinted
<1>2. TraceInv => LoopReportIsACycle
  <2> SUFFICES ASSUME TraceInv PROVE LoopReportIsACycle
    OBVIOUS
  <2> DEFINE lines == [k \in DOMAIN printed |-> printed[k].entry]
             p == Len(printed)
  <2>1. /\ DOMAIN printed = 1..p /\ p \in Nat /\ printed # << >> => p # 0
    BY SeqFacts DEF TraceInv
  <2>2. DOMAIN lines = 1..p /\ \A k \in 1..p : lines[k] = printed[k].entry
    BY <2>1
  <2> HIDE DEF lines
  <2>3. \A k \in 1..p : k > 1 => Mentions(lines[k], lines[k - 1])
    <3>1. \A k \in 1..p : k > 1 => k - 1 \in 1..p
      BY <2>1
    <3>2. QED
      BY <2>2, <3>1 DEF TraceInv
  <2>4. printed # << >> => Mentions(lines[1], traceback_to)
    <3>1. printed # << >> => 1 \in 1..p
      BY SeqFacts DEF TraceInv
    <3>2. QED
      BY <2>2, <3>1 DEF TraceInv
  <2>5. ASSUME NEW k \in 1..p
        PROVE  /\ printed[k].mark = "outside" <=> \E j \in 1..k - 1 : lines[j] = traceback_to
               /\ printed[k].mark = "last" <=> k > 1 /\ lines[k] = traceback_to
    <3>1. \A j \in 1..k - 1 : j \in 1..p
      BY <2>1
    <3>2. QED
      BY SMTT(30), <2>2, <3>1 DEF TraceInv
  <2>6. phase = "failed" /\ printed # << >> => \E k \in 1..p : lines[k] = traceback_to
    BY <2>2 DEF TraceInv
  <2>7. /\ \A k \in DOMAIN lines : k > 1 => Mentions(lines[k], lines[k - 1])
        /\ printed # << >> => Mentions(lines[1], traceback_to)
        /\ \A k \in DOMAIN lines :
             printed[k].mark = "outside" <=> \E j \in 1..k - 1 : lines[j] = traceback_to
        /\ \A k \in DOMAIN lines :
             printed[k].mark = "last" <=> k > 1 /\ lines[k] = traceback_to
        /\ phase = "failed" /\ printed # << >> =>
             \E k \in DOMAIN lines : lines[k] = traceback_to
    BY <2>2, <2>3, <2>4, <2>5, <2>6
  <2>8. QED
    BY <2>7, Zenon DEF LoopReportIsACycle, lines
<1>3. QED
  BY <1>1, <1>2, TraceStep, StackInvariant, PTL DEF Spec

-----------------------------------------------------------------------------
(* Types of the calculator.                                                 *)

\* What is on the stack of operators: a binary one is one that has a priority.
Ops ==
    {o \in [op_type : {"binary", "unary", "lbrace"}, operator : STRING] :
        o.op_type = "binary" => o.operator \in BinaryOperators}
Frames == {f \in Activations : f.op_stack \in Seq(Ops)}

LEMMA EndsType ==
    ASSUME NEW T, NEW s \in Seq(T), s # << >>
    PROVE  /\ Front(s) \in Seq(T) /\ Last(s) \in T /\ Last(s) = s[Len(s)]
           /\ Len(s) \in Nat \ {0} /\ Len(Front(s)) = Len(s) - 1
           /\ \A k \in 1..Len(s) - 1 : Front(s)[k] = s[k]
           /\ \A k \in 1..Len(s) : s[k] \in T
<1>1. Len(s) \in Nat \ {0} /\ IsSeq(s)
  BY SomeSeq, LenProperties, EmptySeq
<1>2. \A k \in 1..Len(s) : s[k] \in T
  BY ElementOfSeq
<1>3. Front(s) \in Seq(T)
  <2>1. \A k \in 1..Len(s) - 1 : s[k] \in T
    BY <1>1, <1>2
  <2>2. QED
    BY <1>1, <2>1, SubSeqProperties DEF Front
<1>4. Last(s) = s[Len(s)] /\ Len(s) \in 1..Len(s)
  BY <1>1 DEF Last
<1>5. QED
  BY <1>1, <1>2, <1>3, <1>4, FrontSeq

LEMMA FrameFields ==
    ASSUME NEW f \in Frames
    PROVE  /\ f.entry \in Nat /\ f.expr \in Seq(Tokens) /\ f.prev_ttype \in TokenKinds
           /\ f.res_stack \in Seq(Words) /\ f.op_stack \in Seq(Ops) /\ IsFrame(f)
           /\ \A r \in Seq(Words) : [f EXCEPT !.res_stack = r] \in Frames
           /\ \A o \in Seq(Ops) : [f EXCEPT !.op_stack = o] \in Frames
<1>1. f \in Activations /\ f.op_stack \in Seq(Ops)
  BY DEF Frames
<1>2. \A o \in Seq(Ops) : o \in Seq([op_type : {"binary", "unary", "lbrace"}, operator : STRING])
  <2> SUFFICES ASSUME NEW o \in Seq(Ops)
               PROVE  o \in Seq([op_type : {"binary", "unary", "lbrace"}, operator : STRING])
    OBVIOUS
  <2>1. \A k \in 1..Len(o) : o[k] \in [op_type : {"binary", "unary", "lbrace"}, operator : STRING]
    BY ElementOfSeq DEF Ops
  <2>2. QED
    BY <2>1, SeqOver
<1>3. /\ f.entry \in Nat /\ f.expr \in Seq(Tokens) /\ f.prev_ttype \in TokenKinds
      /\ f.res_stack \in Seq(Words)
  BY <1>1 DEF Activations
<1>4. IsFrame(f)
  BY <1>1, <1>3 DEF IsFrame, Activations
<1>5. ASSUME NEW r \in Seq(Words) PROVE [f EXCEPT !.res_stack = r] \in Frames
  BY <1>1, <1>5 DEF Frames, Activations
<1>6. ASSUME NEW o \in Seq(Ops) PROVE [f EXCEPT !.op_stack = o] \in Frames
  BY <1>1, <1>2, <1>6 DEF Frames, Activations
<1>7. QED
  BY <1>1, <1>3, <1>4, <1>5, <1>6

LEMMA ActivationType ==
    ASSUME NEW e \in Nat, NEW expr \in Seq(Tokens)
    PROVE  Activation(e, expr) \in Frames
<1>1. \A T : << >> \in Seq(T)
  BY EmptySeq
<1>2. QED
  BY <1>1 DEF Activation, Frames, Activations, TokenKinds

LEMMA BinaryType ==
    ASSUME NEW o \in BinaryOperators, NEW v \in Words, NEW w \in Words,
           o \in {"/", "%"} => w # 0 /\ ~(v = -HALF /\ w = -1)
    PROVE  Binary(o, v, w) \in Words
<1>1. v \in Int /\ w \in Int
  BY WordsAreInts
<1>2. v * w \in Int /\ v + w \in Int /\ v - w \in Int
  BY <1>1
<1>3. Wrap(v * w) \in Words /\ Wrap(v + w) \in Words /\ Wrap(v - w) \in Words
  BY <1>2, WrapType
<1>4. /\ ShiftLeft(v, w) \in Words /\ ShiftRight(v, w) \in Words
      /\ BitAnd(v, w) \in Words /\ BitXor(v, w) \in Words /\ BitOr(v, w) \in Words
  BY <1>1, ShiftType, BitOperationsType
<1>5. o \in {"/", "%"} => Quotient(v, w) \in Words /\ Remainder(v, w) \in Words
  BY QuotientType
<1>6. QED
  BY <1>3, <1>4, <1>5 DEF Binary, BinaryOperators

LEMMA UnaryType ==
    ASSUME NEW o, NEW v \in Words
    PROVE  Unary(o, v) \in Words
<1>1. v \in Int /\ -v \in Int /\ -v - 1 \in Words
  BY HalfType DEF Words
<1>2. Wrap(-v) \in Words
  BY <1>1, WrapType
<1>3. QED
  BY <1>1, <1>2 DEF Unary

LEMMA ExecutedType ==
    ASSUME NEW f \in Frames, MustExecute(f), ~ExecutePanics(f), ~ExecuteFails(f)
    PROVE  Executed(f) \in Frames
<1> DEFINE op == Last(f.op_stack)
           n == Len(f.res_stack)
           v == IF op.op_type = "binary"
                THEN Binary(op.operator, f.res_stack[n - 1], f.res_stack[n])
                ELSE Unary(op.operator, f.res_stack[n])
           g == [f EXCEPT !.op_stack = Front(f.op_stack)]
<1>1. f.op_stack \in Seq(Ops) /\ f.res_stack \in Seq(Words)
  BY FrameFields
<1>2. f.op_stack # << >>
  BY DEF MustExecute
<1>3. op \in Ops /\ Front(f.op_stack) \in Seq(Ops)
  BY <1>1, <1>2, EndsType
<1>4. Arity(op) \in {1, 2} /\ (op.op_type = "binary" => Arity(op) = 2) /\ n \in Nat
  BY <1>1, LenProperties DEF Arity
<1>5. n >= Arity(op)
  BY <1>4 DEF ExecutePanics
<1>6. /\ f.res_stack[n] \in Words
      /\ op.op_type = "binary" => f.res_stack[n - 1] \in Words
  <2>1. n \in 1..n /\ (op.op_type = "binary" => n - 1 \in 1..n)
    BY <1>4, <1>5
  <2>2. QED
    BY <1>1, <2>1, ElementOfSeq
<1>7. Last(f.res_stack) = f.res_stack[n]
  BY DEF Last
<1>8. v \in Words
  <2>1. CASE op.op_type = "binary"
    <3>1. op.operator \in BinaryOperators
      BY <1>3, <2>1 DEF Ops
    <3>2. op.operator \in {"/", "%"} =>
            f.res_stack[n] # 0 /\ ~(f.res_stack[n - 1] = -HALF /\ f.res_stack[n] = -1)
      BY <1>7, <2>1 DEF ExecutePanics, ExecuteFails, Divides
    <3> HIDE DEF op, n
    <3>3. Binary(op.operator, f.res_stack[n - 1], f.res_stack[n]) \in Words
      BY <1>6, <2>1, <3>1, <3>2, BinaryType
    <3>4. QED
      BY <2>1, <3>3
  <2>2. CASE op.op_type # "binary"
    BY <1>6, <2>2, UnaryType
  <2>3. QED
    BY <2>1, <2>2
<1>9. Below(f) \in Seq(Words)
  <2>1. n - Arity(op) \in Nat /\ \A k \in 1..n - Arity(op) : f.res_stack[k] \in Words
    <3>1. n - Arity(op) \in Nat /\ \A k \in 1..n - Arity(op) : k \in 1..n
      BY <1>4, <1>5
    <3>2. QED
      BY <1>1, <3>1, ElementOfSeq
  <2>2. QED
    BY <2>1, SubSeqProperties DEF Below
<1>10. Executed(f) = [g EXCEPT !.res_stack = Append(Below(f), v)]
  BY DEF Executed
<1>11. g \in Frames
  BY <1>3, FrameFields
<1> HIDE DEF v, g
<1>12. Append(Below(f), v) \in Seq(Words)
  BY <1>8, <1>9, AppendProperties
<1>13. QED
  BY <1>10, <1>11, <1>12, FrameFields

LEMMA TakenType ==
    ASSUME NEW f \in Frames, ~AtEnd(f)
    PROVE  /\ Taken(f) \in Frames /\ NextToken(f) \in Tokens
           /\ Taken(f).res_stack = f.res_stack /\ Taken(f).op_stack = f.op_stack
<1>1. IsFrame(f) /\ f \in Activations
  BY FrameFields DEF Frames
<1>2. Tail(f.expr) \in Seq(Tokens) /\ NextToken(f) \in Tokens
  BY <1>1, TokenOfFrame
<1>3. NextToken(f).kind \in TokenKinds
  BY <1>2 DEF Tokens
<1>4. Taken(f) \in Activations
  BY <1>1, <1>2, <1>3 DEF Taken, Activations
<1>5. Taken(f).res_stack = f.res_stack /\ Taken(f).op_stack = f.op_stack
  BY <1>1 DEF Taken, Activations
<1>6. QED
  BY <1>2, <1>4, <1>5 DEF Frames

LEMMA OperandType ==
    ASSUME NEW f \in Frames, ~AtEnd(f), NEW v \in Words
    PROVE  Operand(f, v) \in Frames
<1> DEFINE t == Taken(f)
<1>1. t \in Frames
  BY TakenType
<1>2. Operand(f, v) = [t EXCEPT !.res_stack = Append(t.res_stack, v)]
  BY DEF Operand
<1> HIDE DEF t
<1>3. Append(t.res_stack, v) \in Seq(Words)
  BY <1>1, FrameFields, AppendProperties
<1>4. QED
  BY <1>1, <1>2, <1>3, FrameFields

LEMMA ShiftedType ==
    ASSUME NEW f \in Frames, ~AtEnd(f), ~TokenFails(f),
           NextToken(f).kind \notin {"name", "semicolon"}
    PROVE  Shifted(f) \in Frames
<1> DEFINE t == Taken(f)
<1>1. t \in Frames /\ NextToken(f) \in Tokens /\ t.op_stack = f.op_stack
  BY TakenType
<1>2. /\ NextToken(f).kind \in TokenKinds /\ NextToken(f).text \in STRING
      /\ NextToken(f).value \in Words
  BY <1>1 DEF Tokens
<1>3. NextToken(f).kind \in {"number", "operator", "lparen", "rparen"}
  BY <1>2 DEF TokenKinds, TokenFails
<1>4. ASSUME NEW op_type \in {"binary", "unary", "lbrace"},
             op_type = "binary" => NextToken(f).text \in BinaryOperators
      PROVE  Stacked(f, op_type) \in Frames
  <2> DEFINE o == [op_type |-> op_type, operator |-> NextToken(f).text]
  <2>1. o \in Ops
    BY <1>2, <1>4 DEF Ops
  <2>2. Stacked(f, op_type) = [t EXCEPT !.op_stack = Append(t.op_stack, o)]
    BY DEF Stacked
  <2> HIDE DEF o, t
  <2>3. Append(t.op_stack, o) \in Seq(Ops)
    BY <1>1, <2>1, FrameFields, AppendProperties
  <2>4. QED
    BY <1>1, <2>2, <2>3, FrameFields
<1>5. CASE NextToken(f).kind = "number"
  BY <1>2, <1>5, OperandType DEF Shifted
<1>6. CASE NextToken(f).kind = "operator"
  <2>1. NextToken(f).text \in BinaryOperators
    BY <1>6 DEF TokenFails
  <2>2. QED
    BY <1>4, <1>6, <2>1 DEF Shifted
<1>7. CASE NextToken(f).kind = "lparen"
  BY <1>4, <1>7 DEF Shifted
<1>8. CASE NextToken(f).kind = "rparen"
  <2>1. f.op_stack # << >>
    BY <1>8 DEF TokenFails
  <2>2. Front(t.op_stack) \in Seq(Ops)
    BY <1>1, <2>1, FrameFields, EndsType
  <2>3. Shifted(f) = [t EXCEPT !.op_stack = Front(t.op_stack)]
    BY <1>8 DEF Shifted
  <2> HIDE DEF t
  <2>4. QED
    BY <1>1, <2>2, <2>3, FrameFields
<1>9. QED
  BY <1>3, <1>5, <1>6, <1>7, <1>8

-----------------------------------------------------------------------------
(* Types of the table and of the stack of calls.                            *)

Lines == [entry : Entries, mark : Marks]

TableTyped ==
    /\ symtab \in Seq(SymtabEntries) /\ frames \in Seq(Frames)
    /\ traceback_to \in {0} \cup Entries /\ printed \in Seq(Lines)

\* An entry is replaced by one that is typed.
LEMMA PutType ==
    ASSUME TableTyped, NEW e \in Entries, NEW x \in SymtabEntries, symtab' = Put(symtab, e, x)
    PROVE  symtab' \in Seq(SymtabEntries) /\ Entries' = Entries
<1>1. symtab \in Seq(SymtabEntries) /\ Entries = 1..Len(symtab)
  BY LenProperties DEF TableTyped, Entries
<1>2. symtab' \in Seq(SymtabEntries) /\ Len(symtab') = Len(symtab)
  BY <1>1, ExceptSeq DEF Put
<1>3. Entries' = 1..Len(symtab')
  BY <1>2, LenProperties DEF Entries
<1>4. QED
  BY <1>1, <1>2, <1>3

LEMMA EntryTyped ==
    ASSUME TableTyped, NEW e \in Entries
    PROVE  symtab[e] \in SymtabEntries
<1>1. symtab \in Seq(SymtabEntries) /\ Entries = 1..Len(symtab)
  BY LenProperties DEF TableTyped, Entries
<1>2. QED
  BY <1>1, ElementOfSeq

LEMMA ComputedType ==
    ASSUME TableTyped, NEW e \in Entries, NEW v \in Words, symtab' = Computed(e, v)
    PROVE  symtab' \in Seq(SymtabEntries) /\ Entries' = Entries
<1> DEFINE x == [symtab[e] EXCEPT !.value = v, !.step = DONE]
<1>1. symtab' = Put(symtab, e, x)
  BY DEF Computed, Entries, Put
<1>2. symtab[e] \in SymtabEntries
  BY EntryTyped
<1>3. x \in SymtabEntries
  BY <1>2 DEF SymtabEntries
<1> HIDE DEF x
<1>4. QED
  BY <1>1, <1>3, PutType

LEMMA MarkedType ==
    ASSUME TableTyped, NEW e \in Entries, NEW st \in {IN_PROGRESS, DONE}, symtab' = Marked(e, st)
    PROVE  symtab' \in Seq(SymtabEntries) /\ Entries' = Entries
<1> DEFINE x == [symtab[e] EXCEPT !.step = st]
<1>1. symtab' = Put(symtab, e, x)
  BY DEF Marked, Put
<1>2. symtab[e] \in SymtabEntries
  BY EntryTyped
<1>3. x \in SymtabEntries
  BY <1>2 DEF SymtabEntries
<1> HIDE DEF x
<1>4. QED
  BY <1>1, <1>3, PutType

LEMMA LabelType ==
    ASSUME TableTyped, NEW e \in Entries
    PROVE  LabelValue(e) \in Words
<1>1. symtab[e].location \in Int
  BY EntryTyped DEF SymtabEntries
<1>2. QED
  BY <1>1, WrapType DEF LabelValue

\* No entry is added, and what is printed is printed.
LEMMA SameEntries ==
    ASSUME TableTyped, symtab' \in Seq(SymtabEntries), Entries' = Entries,
           frames' \in Seq(Frames), traceback_to' \in {0} \cup Entries, printed' \in Seq(Lines)
    PROVE  TableTyped'
BY DEF TableTyped, Lines

LEMMA CalculateTyped ==
    ASSUME StackInv, TableTyped, Calculate
    PROVE  TableTyped'
<1>1. /\ symtab \in Seq(SymtabEntries) /\ frames \in Seq(Frames)
      /\ traceback_to \in {0} \cup Entries /\ printed \in Seq(Lines)
  BY DEF TableTyped
<1>2. symtab' = symtab => Entries' = Entries
  BY DEF Entries
<1>3. ASSUME NEW how, Stop(how) PROVE TableTyped'
  BY <1>1, <1>2, <1>3, SameEntries DEF Stop
<1>4. ASSUME frames # << >>
      PROVE  Top \in Frames /\ Front(frames) \in Seq(Frames)
  BY <1>1, <1>4, EndsType DEF Top
<1>5. ASSUME NEW g \in Frames, Resume(g), frames # << >>
      PROVE  frames' \in Seq(Frames)
  BY <1>4, <1>5, AppendProperties DEF Resume
<1>6. ASSUME NEW e \in Entries, Enter(e) PROVE TableTyped'
  <2>1. symtab' = Marked(e, IN_PROGRESS) /\ traceback_to' = traceback_to /\ printed' = printed
    BY <1>6 DEF Enter, Marked
  <2>2. symtab' \in Seq(SymtabEntries) /\ Entries' = Entries
    BY <2>1, MarkedType
  <2>3. Activation(e, symtab[e].expr) \in Frames
    <3>1. e \in Nat
      BY <1>1, LenProperties DEF Entries
    <3>2. symtab[e].expr \in Seq(Tokens)
      BY EntryTyped DEF SymtabEntries
    <3>3. QED
      BY <3>1, <3>2, ActivationType
  <2>4. frames' \in Seq(Frames)
    BY <1>1, <1>6, <2>3, AppendProperties DEF Enter
  <2>5. QED
    BY <1>1, <2>1, <2>2, <2>4, SameEntries
<1>7. CASE MeetSemicolon
  BY <1>3, <1>7 DEF MeetSemicolon
<1>8. CASE ExecuteOperator
  <2>1. CASE ExecutePanics(Top) \/ ExecuteFails(Top)
    BY <1>3, <1>8, <2>1 DEF ExecuteOperator
  <2>2. CASE ~ExecutePanics(Top) /\ ~ExecuteFails(Top)
    <3>1. /\ frames # << >> /\ MustExecute(Top) /\ Resume(Executed(Top))
          /\ UNCHANGED <<symtab, traceback_to, printed>>
      BY <1>8, <2>2 DEF ExecuteOperator, Trimmed, Running
    <3>2. Executed(Top) \in Frames
      BY <1>4, <2>2, <3>1, ExecutedType
    <3>3. frames' \in Seq(Frames)
      BY <1>5, <3>1, <3>2
    <3>4. QED
      BY <1>1, <1>2, <3>1, <3>3, SameEntries
  <2>3. QED
    BY <2>1, <2>2
<1>9. CASE TakeBadToken
  BY <1>3, <1>9 DEF TakeBadToken
<1>10. CASE TakeToken
  <2>1. /\ frames # << >> /\ ~AtEnd(Top) /\ ~TokenFails(Top) /\ Resume(Shifted(Top))
        /\ NextToken(Top).kind \notin {"name", "semicolon"}
        /\ UNCHANGED <<symtab, traceback_to, printed>>
    BY <1>10 DEF TakeToken, TakesToken, Trimmed, Running
  <2>2. Shifted(Top) \in Frames
    BY <1>4, <2>1, ShiftedType
  <2>3. frames' \in Seq(Frames)
    BY <1>5, <2>1, <2>2
  <2>4. QED
    BY <1>1, <1>2, <2>1, <2>3, SameEntries
<1>11. CASE TakeUnknownName
  BY <1>3, <1>11 DEF TakeUnknownName
<1>12. CASE TakeValue
  <2>1. CASE symtab[Named].step # DONE
    BY <1>3, <1>12, <2>1 DEF TakeValue
  <2>2. CASE symtab[Named].step = DONE
    <3>1. /\ TakesSymbol /\ Resume(Operand(Top, symtab[Named].value))
          /\ UNCHANGED <<symtab, traceback_to, printed>>
      BY <1>12, <2>2 DEF TakeValue
    <3>2. frames # << >> /\ Named \in Entries /\ ~AtEnd(Top)
      BY <3>1, NamedFacts
    <3>3. symtab[Named].value \in Words
      BY <3>2, EntryTyped DEF SymtabEntries
    <3>4. Operand(Top, symtab[Named].value) \in Frames
      BY <1>4, <3>2, <3>3, OperandType
    <3>5. frames' \in Seq(Frames)
      BY <1>5, <3>1, <3>2, <3>4
    <3>6. QED
      BY <1>1, <1>2, <3>1, <3>5, SameEntries
  <2>3. QED
    BY <2>1, <2>2
<1>13. CASE TakeLabel
  <2>1. /\ TakesSymbol /\ symtab' = Computed(Named, LabelValue(Named))
        /\ Resume(Operand(Top, LabelValue(Named)))
        /\ UNCHANGED <<traceback_to, printed>>
    BY <1>13 DEF TakeLabel
  <2>2. frames # << >> /\ Named \in Entries /\ ~AtEnd(Top)
    BY <2>1, NamedFacts
  <2>3. LabelValue(Named) \in Words
    BY <2>2, LabelType
  <2>4. symtab' \in Seq(SymtabEntries) /\ Entries' = Entries
    BY <2>1, <2>2, <2>3, ComputedType
  <2>5. Operand(Top, LabelValue(Named)) \in Frames
    BY <1>4, <2>2, <2>3, OperandType
  <2>6. frames' \in Seq(Frames)
    BY <1>5, <2>1, <2>2, <2>5
  <2>7. QED
    BY <1>1, <2>1, <2>4, <2>6, SameEntries
<1>14. CASE TakeConstant
  BY <1>6, <1>14, NamedFacts DEF TakeConstant
<1>15. CASE FindLoop
  <2>1. TakesSymbol /\ traceback_to' = Named /\ UNCHANGED <<symtab, frames, printed>>
    BY <1>15 DEF FindLoop
  <2>2. Named \in Entries
    BY <2>1, NamedFacts
  <2>3. QED
    BY <1>1, <1>2, <2>1, <2>2, SameEntries
<1>16. CASE EndBadly
  BY <1>3, <1>16 DEF EndBadly
<1>17. CASE Return
  <2>1. /\ frames # << >> /\ phase = "resolve" /\ ~EndPanics(Top)
        /\ symtab' = Computed(Top.entry, Result(Top))
        /\ UNCHANGED <<traceback_to, printed>>
    BY <1>17 DEF Return, EndsWell, Trimmed, Running, Stored
  <2>2. Top.entry \in Entries /\ Len(frames) \in Nat \ {0}
    BY <2>1, TopFacts
  <2>3. Result(Top) \in Words
    <3>1. Top.res_stack \in Seq(Words) /\ Len(Top.res_stack) = 1
      BY <1>4, <2>1, FrameFields DEF EndPanics
    <3>2. QED
      BY <3>1, ElementOfSeq DEF Result
  <2>4. symtab' \in Seq(SymtabEntries) /\ Entries' = Entries
    BY <2>1, <2>2, <2>3, ComputedType
  <2>5. frames' \in Seq(Frames)
    <3>1. CASE Len(frames) = 1
      <4>1. frames' = << >>
        BY <1>17, <3>1 DEF Return
      <4>2. QED
        BY <4>1, EmptySeq
    <3>2. CASE Len(frames) # 1
      <4> DEFINE n == Len(frames)
                 caller == frames[n - 1]
                 rest == SubSeq(frames, 1, n - 2)
                 g == Operand(caller, Result(Top))
      <4>1. frames' = Append(rest, g)
        BY <1>17, <3>2 DEF Return
      <4>2. n - 1 \in 1..n /\ n \in 2..n /\ n - 2 \in Nat /\ \A k \in 1..n - 2 : k \in 1..n
        <5>1. \A m \in Nat \ {0} : m # 1 =>
                m - 1 \in 1..m /\ m \in 2..m /\ m - 2 \in Nat /\ \A k \in 1..m - 2 : k \in 1..m
          OBVIOUS
        <5>2. QED
          BY <2>2, <3>2, <5>1
      <4>3. \A k \in 1..n : frames[k] \in Frames
        BY <1>1, ElementOfSeq
      <4>4. rest \in Seq(Frames)
        BY <4>2, <4>3, SubSeqProperties
      <4>5. ~AtEnd(caller)
        BY <4>2 DEF StackInv, Chain, Asks
      <4>6. g \in Frames
        BY <2>3, <4>2, <4>3, <4>5, OperandType
      <4> HIDE DEF rest, g
      <4>7. QED
        BY <4>1, <4>4, <4>6, AppendProperties
    <3>3. QED
      BY <3>1, <3>2
  <2>6. QED
    BY <1>1, <2>1, <2>4, <2>5, SameEntries
<1>18. CASE Unwind
  <2> DEFINE line == [entry |-> Top.entry, mark |-> Mark(Top.entry)]
  <2>1. /\ frames # << >> /\ phase = "unwind" /\ symtab' = Marked(Top.entry, DONE)
        /\ frames' = Front(frames) /\ traceback_to' = traceback_to
        /\ printed' = Append(printed, line)
    BY <1>18 DEF Unwind, Marked
  <2>2. Top.entry \in Entries
    BY <2>1, TopFacts
  <2>3. line \in Lines
    BY <2>2 DEF Lines, Marks, Mark
  <2> HIDE DEF line
  <2>4. symtab' \in Seq(SymtabEntries) /\ Entries' = Entries
    BY <2>1, <2>2, MarkedType
  <2>5. printed' \in Seq(Lines)
    BY <1>1, <2>1, <2>3, AppendProperties
  <2>6. QED
    BY <1>1, <1>4, <2>1, <2>4, <2>5, SameEntries
<1>19. CASE EndUnwind
  BY <1>3, <1>19 DEF EndUnwind
<1>20. QED
  BY <1>7, <1>8, <1>9, <1>10, <1>11, <1>12, <1>13, <1>14, <1>15, <1>16, <1>17, <1>18, <1>19
     DEF Calculate

\* A statement that a pass is at, and the argument of its that is evaluated.
LEMMA StatementType ==
    ASSUME PassInv, i \in Nat \ {0}, i <= Len(ast)
    PROVE  /\ S \in Statements /\ i \in 1..Len(ast) /\ S.name \in STRING
           /\ S.args \in Seq(Seq(Tokens))
           /\ S.type \in {"const", "number"} => S.args[1] \in Seq(Tokens)
<1>1. ast \in Seq(Statements) /\ i \in 1..Len(ast)
  BY LenProperties DEF PassInv, ReadOK
<1>2. S \in Statements
  BY <1>1, ElementOfSeq DEF S
<1>3. S.name \in STRING /\ S.args \in Seq(Seq(Tokens))
  BY <1>2 DEF Statements
<1>4. S.type \in {"const", "number"} => Len(S.args) = 1
  BY <1>2 DEF Statements
<1>5. S.type \in {"const", "number"} => S.args[1] \in Seq(Tokens)
  BY <1>3, <1>4, ElementOfSeq
<1>6. QED
  BY <1>1, <1>2, <1>3, <1>5

LEMMA ArgumentType ==
    ASSUME PassInv, InEmit, S.type = "number" \/ (S.type = "instr" /\ arg <= Len(S.args))
    PROVE  S.args[arg] \in Seq(Tokens) /\ arg \in 1..Len(S.args)
<1>1. Emitting /\ i <= Len(ast)
  BY DEF InEmit, PassInv
<1>2. i \in Nat \ {0}
  BY <1>1, LenProperties DEF PassInv, ReadOK, Emitting
<1>3. S \in Statements /\ S.args \in Seq(Seq(Tokens))
  BY <1>1, <1>2, StatementType
<1>4. S.type = "number" => Len(S.args) = 1
  BY <1>3 DEF Statements
<1>5. arg \in 1..Len(S.args)
  <2>1. arg \in Nat \ {0} /\ (S.type = "number" => arg = 1) /\ Len(S.args) \in Nat
    BY <1>1, <1>3, LenProperties DEF Emitting, S
  <2>2. QED
    BY <1>4, <2>1
<1>6. QED
  BY <1>3, <1>5, ElementOfSeq

\* An entry is added before anything is printed of it.
LEMMA AddType ==
    ASSUME TableTyped, NEW x \in SymtabEntries, Adds(x),
           UNCHANGED <<frames, traceback_to, printed>>
    PROVE  TableTyped'
<1>1. symtab' = Append(symtab, x)
  BY DEF Adds
<1>2. /\ symtab \in Seq(SymtabEntries) /\ frames \in Seq(Frames)
      /\ traceback_to \in {0} \cup Entries /\ printed \in Seq(Lines)
  BY DEF TableTyped
<1>3. symtab' \in Seq(SymtabEntries) /\ Len(symtab') = Len(symtab) + 1
  BY <1>1, <1>2, AppendProperties
<1>4. Entries \subseteq Entries'
  <2>1. Entries = 1..Len(symtab) /\ Entries' = 1..Len(symtab') /\ Len(symtab) \in Nat
    BY <1>2, <1>3, LenProperties DEF Entries
  <2>2. QED
    BY <1>3, <2>1
<1>5. printed' \in Seq(Lines')
  <2>1. \A k \in 1..Len(printed) : printed[k] \in Lines
    BY <1>2, ElementOfSeq
  <2>2. \A k \in 1..Len(printed) : printed[k] \in Lines'
    BY <1>4, <2>1 DEF Lines
  <2>3. QED
    BY <1>2, <2>2, SeqOver
<1>6. QED
  BY <1>2, <1>3, <1>4, <1>5 DEF TableTyped

LEMMA TableStep == PassInv /\ StackInv /\ TableTyped /\ [Next]_vars => TableTyped'
<1> SUFFICES ASSUME PassInv, StackInv, TableTyped, [Next]_vars PROVE TableTyped'
  OBVIOUS
<1>1. /\ symtab \in Seq(SymtabEntries) /\ frames \in Seq(Frames)
      /\ traceback_to \in {0} \cup Entries /\ printed \in Seq(Lines) /\ i \in Nat \ {0}
  BY DEF TableTyped, StackInv, PhaseOK
<1>2. ASSUME UNCHANGED <<symtab, traceback_to, printed>>, frames' \in Seq(Frames)
      PROVE  TableTyped'
  BY <1>1, <1>2, SameEntries DEF Entries
<1>3. CASE OpenMain \/ ReadInclude \/ ReadStatement \/ ReadEnd
  BY <1>1, <1>2, <1>3 DEF OpenMain, ReadInclude, ReadStatement, ReadEnd, Keep
<1>4. CASE LayoutSymbol
  <2>1. CASE Known(S.name)
    BY <1>1, <1>2, <1>4, <2>1 DEF LayoutSymbol, Fail, Stop
  <2>2. CASE ~Known(S.name)
    <3> DEFINE x == IF S.type = "label" THEN Entry("label", S.name, location, << >>)
                    ELSE Entry("const", S.name, 0, S.args[1])
    <3>1. Adds(x) /\ Located /\ i <= Len(ast) /\ S.type \in {"label", "const"}
      BY <1>4, <2>2 DEF LayoutSymbol, InLayout
    <3>2. S.name \in STRING /\ (S.type = "const" => S.args[1] \in Seq(Tokens))
      BY <1>1, <3>1, StatementType
    <3>3. location \in Nat /\ << >> \in Seq(Tokens) /\ 0 \in Words
      BY EmptySeq, WrapType, HalfType DEF PassInv, Adjacent, Words
    <3>4. x \in SymtabEntries
      BY <3>1, <3>2, <3>3 DEF SymtabEntries, Entry
    <3> HIDE DEF x
    <3>5. QED
      BY <3>1, <3>4, AddType DEF Located
  <2>3. QED
    BY <2>1, <2>2
<1>5. CASE LayoutInstr \/ LayoutData \/ LayoutSymType
  BY <1>1, <1>2, <1>5 DEF LayoutInstr, LayoutData, LayoutSymType, Located, Fail, Stop
<1>6. CASE LayoutEnd \/ ResolveDone \/ ResolveEnd
  BY <1>1, <1>2, <1>6 DEF LayoutEnd, ResolveDone, ResolveEnd, Keep
<1>7. CASE ResolveLabel
  <2>1. /\ i \in Entries /\ symtab' = Computed(i, LabelValue(i))
        /\ UNCHANGED <<frames, traceback_to, printed>>
    BY <1>7 DEF ResolveLabel, InResolve
  <2>2. LabelValue(i) \in Words
    BY <2>1, LabelType
  <2>3. symtab' \in Seq(SymtabEntries) /\ Entries' = Entries
    BY <2>1, <2>2, ComputedType
  <2>4. QED
    BY <1>1, <2>1, <2>3, SameEntries
<1>8. CASE ResolveConst
  <2>1. /\ i \in Entries /\ symtab' = Marked(i, IN_PROGRESS)
        /\ frames' = Append(frames, Activation(i, symtab[i].expr))
        /\ UNCHANGED <<traceback_to, printed>>
    BY <1>8 DEF ResolveConst, InResolve, Enter, Marked
  <2>2. symtab' \in Seq(SymtabEntries) /\ Entries' = Entries
    BY <2>1, MarkedType
  <2>3. symtab[i].expr \in Seq(Tokens)
    BY <2>1, EntryTyped DEF SymtabEntries
  <2>4. Activation(i, symtab[i].expr) \in Frames
    BY <1>1, <2>3, ActivationType
  <2>5. frames' \in Seq(Frames)
    BY <1>1, <2>1, <2>4, AppendProperties
  <2>6. QED
    BY <1>1, <2>1, <2>2, <2>5, SameEntries
<1>9. CASE Compute
  BY <1>9, CalculateTyped DEF Compute
<1>10. CASE EmitExpression
  <2> DEFINE f == Activation(0, S.args[arg])
  <2>1. InEmit /\ (S.type = "number" \/ (S.type = "instr" /\ arg <= Len(S.args)))
    BY <1>10 DEF EmitExpression
  <2>2. f \in Frames
    BY <2>1, ArgumentType, ActivationType
  <2>3. frames' = <<f>> /\ UNCHANGED <<symtab, traceback_to, printed>>
    BY <1>10 DEF EmitExpression
  <2> HIDE DEF f
  <2>4. frames' \in Seq(Frames)
    BY <2>2, <2>3
  <2>5. QED
    BY <1>2, <2>3, <2>4
<1>11. CASE EmitNumber \/ EmitArgument
  <2>1. frames' = << >> /\ UNCHANGED <<symtab, traceback_to, printed>>
    BY <1>11 DEF EmitNumber, EmitArgument
  <2>2. QED
    BY <1>2, <2>1, EmptySeq
<1>12. CASE EmitNothing \/ EmitBlob \/ EmitInstr \/ EmitEnd
  BY <1>1, <1>2, <1>12 DEF EmitNothing, EmitBlob, EmitInstr, EmitEnd, Emitted, Keep, Fail, Stop
<1>13. CASE UNCHANGED vars
  BY <1>1, <1>2, <1>13 DEF vars, symtab_vars
<1>14. QED
  BY <1>3, <1>4, <1>5, <1>6, <1>7, <1>8, <1>9, <1>10, <1>11, <1>12, <1>13 DEF Next, Rest

-----------------------------------------------------------------------------
(* Types of the passes.                                                     *)

Items == [at : Nat, kind : ItemKinds, value : Nat]

\* What the first pass lets through.
Accepted(s) ==
    /\ s.type = "instr" => ~BadInstr(s)
    /\ s.type = "blob" => s.size >= 0

PassTyped ==
    /\ phase \in Phases
    /\ \A k \in 1..Len(reading) : reading[k].next <= Len(source[reading[k].file]) + 1
    /\ \A k \in 1..Len(pc) : Accepted(ast[k])
    /\ arg \in Nat \ {0} /\ position \in Nat /\ output \in Seq(Items)

LEMMA NumberItemType ==
    ASSUME NEW at \in Nat, NEW size \in 1..WORD, NEW v \in Words
    PROVE  NumberItem(at, size, v) \in Items
<1>1. Unsigned(v) \in Int /\ Weight(size) \in Nat \ {0}
  BY WordAssumption, WordsAreInts, UnsignedType, WeightStep
<1>2. Unsigned(v) % Weight(size) \in Nat
  <2>1. \A a \in Int, b \in Nat \ {0} : (a % b) \in Nat
    BY DivMod
  <2>2. QED
    BY <1>1, <2>1
<1>3. "number" \in ItemKinds
  BY DEF ItemKinds
<1>4. QED
  BY <1>2, <1>3 DEF NumberItem, Item, Items

LEMMA WrittenType ==
    ASSUME output \in Seq(Items), NEW items \in Seq(Items), NEW size, Written(items, size)
    PROVE  output' \in Seq(Items)
BY ConcatProperties DEF Written

\* The innermost activation has ended with a word.
LEMMA ResultType ==
    ASSUME TableTyped, EndsWell
    PROVE  Result(Top) \in Words
<1>1. frames # << >> /\ ~EndPanics(Top) /\ frames \in Seq(Frames)
  BY DEF EndsWell, Trimmed, Running, TableTyped
<1>2. Top \in Frames
  BY <1>1, EndsType DEF Top
<1>3. Top.res_stack \in Seq(Words) /\ Len(Top.res_stack) = 1
  BY <1>1, <1>2, FrameFields DEF EndPanics
<1>4. QED
  BY <1>3, ElementOfSeq DEF Result

\* Who reads on is at one of the statements, or behind the last.
LEMMA ReadersTyped ==
    ASSUME PassInv, PassTyped, OpenMain \/ ReadInclude \/ ReadStatement \/ ReadEnd
    PROVE  \A k \in 1..Len(reading') : reading'[k].next <= Len(source'[reading'[k].file]) + 1
<1> DEFINE Fits(r) == r.next <= Len(source[r.file]) + 1
           R == {r \in Readers : Fits(r)}
<1>1. source' = source
  BY DEF OpenMain, ReadInclude, ReadStatement, ReadEnd
<1>2. reading \in Seq(R)
  <2>1. reading \in Seq(Readers)
    BY DEF PassInv, ReadOK
  <2>2. \A k \in 1..Len(reading) : reading[k] \in R
    BY <2>1, ElementOfSeq DEF PassTyped
  <2> HIDE DEF R
  <2>3. QED
    BY <2>1, <2>2, SeqOver
<1>3. ASSUME reading # << >>
      PROVE  Front(reading) \in Seq(R) /\ Reader \in R
  BY <1>2, <1>3, EndsType DEF Reader
<1>4. \A file \in DOMAIN source : source[file] \in Seq(Statements)
  BY DEF PassInv, ReadOK
<1>5. ASSUME reading # << >>, ~ReaderDone
      PROVE  ReaderMoved \in Seq(R)
  <2>1. Reader.file \in DOMAIN source /\ Reader.next \in Nat \ {0} /\ Reader \in Readers
    BY <1>3, <1>5 DEF Readers
  <2>2. Len(source[Reader.file]) \in Nat /\ ~(Reader.next > Len(source[Reader.file]))
    BY <1>4, <1>5, <2>1, LenProperties DEF ReaderDone
  <2> DEFINE r == [Reader EXCEPT !.next = @ + 1]
  <2>3. r \in Readers /\ r.next = Reader.next + 1 /\ r.file = Reader.file
    BY <2>1 DEF Readers
  <2> HIDE DEF r
  <2>4. r \in R
    BY <2>1, <2>2, <2>3
  <2> HIDE DEF R
  <2>5. QED
    BY <1>3, <1>5, <2>4, AppendProperties DEF ReaderMoved, r
<1>6. ASSUME NEW file, NEW callers \in Seq(R), Open(file, callers)
      PROVE  reading' \in Seq(R)
  <2>1. CASE reading' = reading
    BY <1>2, <2>1
  <2>2. CASE file \in DOMAIN source /\ reading' = Append(callers, [file |-> file, next |-> 1])
    <3> DEFINE r == [file |-> file, next |-> 1]
    <3>1. r \in Readers /\ r.next = 1 /\ r.file = file
      BY <2>2 DEF Readers
    <3>2. Len(source[file]) \in Nat
      BY <1>4, <2>2, LenProperties
    <3>3. reading' = Append(callers, r)
      BY <2>2
    <3> HIDE DEF r
    <3>4. r \in R
      BY <3>1, <3>2
    <3> HIDE DEF R
    <3>5. QED
      BY <3>3, <3>4, AppendProperties
  <2>3. QED
    BY <1>6, <2>1, <2>2 DEF Open
<1>7. reading' \in Seq(R)
  <2>1. CASE OpenMain
    BY <1>6, <2>1, EmptySeq DEF OpenMain
  <2>2. CASE ReadInclude
    BY <1>5, <1>6, <2>2 DEF ReadInclude
  <2>3. CASE ReadStatement
    BY <1>5, <2>3 DEF ReadStatement
  <2>4. CASE ReadEnd
    BY <1>3, <2>4 DEF ReadEnd
  <2>5. QED
    BY <2>1, <2>2, <2>3, <2>4
<1>8. \A k \in 1..Len(reading') : reading'[k] \in R
  BY <1>7, ElementOfSeq
<1>9. QED
  BY <1>1, <1>8

\* What is written is typed.
LEMMA OutputTyped ==
    ASSUME PassInv, StackInv, TableTyped, PassTyped,
           EmitBlob \/ EmitNumber \/ EmitArgument \/ EmitInstr
    PROVE  output' \in Seq(Items)
<1>1. /\ phase = "emit" /\ i \in Nat \ {0} /\ output \in Seq(Items) /\ position \in Nat
      /\ Emitting /\ Len(pc) = Len(ast)
  BY DEF EmitBlob, EmitNumber, EmitArgument, EmitInstr, InEmit, PassInv, PassTyped,
         StackInv, PhaseOK
<1>2. i <= Len(ast)
  <2>1. frames # << >> => i <= Len(ast)
    BY <1>1 DEF Emitting
  <2>2. QED
    BY <2>1 DEF EmitBlob, EmitNumber, EmitArgument, EmitInstr, InEmit, EndsWell, Trimmed, Running
<1>3. S \in Statements /\ S.name \in STRING /\ Accepted(S)
  <2>1. i \in 1..Len(pc)
    BY <1>1, <1>2, StatementType
  <2>2. QED
    BY <1>1, <1>2, <2>1, StatementType DEF PassTyped, S
<1>4. CASE EmitBlob
  <2> DEFINE n == S.size
             items == [k \in 1..n |-> Item(position + k - 1, "char", 0)]
  <2>1. n \in Nat
    BY <1>3, <1>4 DEF Statements, Accepted, EmitBlob
  <2>2. "char" \in ItemKinds
    BY DEF ItemKinds
  <2> HIDE DEF n
  <2>3. \A k \in 1..n : Item(position + k - 1, "char", 0) \in Items
    BY <1>1, <2>1, <2>2 DEF Item, Items
  <2>4. items \in Seq(Items)
    BY <2>1, <2>3, IsASeq
  <2> HIDE DEF items
  <2>5. output' = output \o items
    BY <1>4 DEF EmitBlob, Written, items, n
  <2>6. QED
    BY <1>1, <2>4, <2>5, ConcatProperties
<1>5. CASE EmitNumber
  <2> DEFINE item == NumberItem(position, S.size, Result(Top))
  <2>1. EndsWell /\ S.size \in 1..WORD
    BY <1>3, <1>5 DEF Statements, EmitNumber
  <2>2. item \in Items
    BY <1>1, <2>1, ResultType, NumberItemType
  <2>3. Written(<<item>>, S.size)
    BY <1>5 DEF EmitNumber
  <2> HIDE DEF item
  <2>4. <<item>> \in Seq(Items)
    BY <2>2
  <2>5. QED
    BY <1>1, <2>3, <2>4, WrittenType
<1>6. CASE EmitArgument
  <2> DEFINE param == IF arg = Len(S.args) /\ Flags[S.name] = "IF_REL"
                      THEN Wrap(Result(Top) - JumpFrom(S, pc[i]))
                      ELSE Result(Top)
             push == Item(position, "push", 0)
             number == NumberItem(position + 1, WORD, param)
  <2>1. EndsWell /\ Result(Top) \in Words
    BY <1>6, ResultType DEF EmitArgument
  <2>2. param \in Words
    <3>1. JumpFrom(S, pc[i]) \in Int
      <4>1. pc[i] \in Nat
        <5>1. i \in 1..Len(pc) /\ pc \in Seq(Nat)
          BY <1>1, <1>2, StatementType DEF PassInv, Adjacent
        <5>2. QED
          BY <5>1, ElementOfSeq
      <4>2. Len(S.args) \in Nat
        BY <1>1, <1>2, StatementType, LenProperties
      <4>3. PUSH_LENGTH * Len(S.args) \in Nat
        BY <4>2, Pushes
      <4>4. QED
        BY <4>1, <4>3 DEF JumpFrom
    <3>2. Result(Top) - JumpFrom(S, pc[i]) \in Int
      BY <2>1, <3>1, WordsAreInts
    <3>3. QED
      BY <2>1, <3>2, WrapType
  <2> HIDE DEF param
  <2>3. number \in Items
    BY <1>1, <2>2, WordAssumption, NumberItemType
  <2>4. push \in Items
    BY <1>1 DEF Item, Items, ItemKinds
  <2>5. Written(<<push, number>>, PUSH_LENGTH)
    BY <1>6 DEF EmitArgument, param
  <2> HIDE DEF push, number
  <2>6. <<push, number>> \in Seq(Items)
    BY <2>3, <2>4
  <2>7. QED
    BY <1>1, <2>5, <2>6, WrittenType
<1>7. CASE EmitInstr
  <2>1. CASE Flags[S.name] = "IF_PUSH"
    BY <1>1, <1>7, <2>1 DEF EmitInstr
  <2>2. CASE Flags[S.name] # "IF_PUSH"
    <3> DEFINE item == Item(position, S.name, 0)
    <3>1. S.name \in DOMAIN Flags
      BY <1>3, <1>7 DEF Accepted, BadInstr, EmitInstr
    <3>2. item \in Items
      BY <1>1, <3>1 DEF Item, Items, ItemKinds
    <3>3. Written(<<item>>, 1)
      BY <1>7, <2>2 DEF EmitInstr
    <3> HIDE DEF item
    <3>4. <<item>> \in Seq(Items)
      BY <3>2
    <3>5. QED
      BY <1>1, <3>3, <3>4, WrittenType
  <2>3. QED
    BY <2>1, <2>2
<1>8. QED
  BY <1>4, <1>5, <1>6, <1>7

\* The first pass goes on behind what it accepts.
LEMMA AcceptedStep ==
    ASSUME PassInv, PassTyped, Located, InLayout, i \in Nat \ {0}, Accepted(S)
    PROVE  \A k \in 1..Len(pc') : Accepted(ast'[k])
<1>1. i = Len(pc) + 1 /\ pc \in Seq(Nat) /\ pc' = Append(pc, location) /\ ast' = ast
  BY DEF InLayout, PassInv, Adjacent, Located
<1>2. Len(pc') = Len(pc) + 1 /\ Len(pc) \in Nat
  <2>1. location \in Nat
    BY DEF PassInv, Adjacent
  <2>2. QED
    BY <1>1, <2>1, AppendProperties, LenProperties
<1>3. \A k \in 1..Len(pc) + 1 : k \in 1..Len(pc) \/ k = i
  BY <1>1, <1>2
<1>4. QED
  BY <1>1, <1>2, <1>3 DEF PassTyped, S

\* A pass that has ended stays where it is.
LEMMA StaysAtEnd ==
    ASSUME StackInv, [Next]_vars, phase' \in Phases \ (Before \cup {"emit"})
    PROVE  UNCHANGED <<arg, position>>
BY DEF Next, vars, pass_vars, Rest, Phases, Before, OpenMain, ReadInclude, ReadStatement, ReadEnd,
   LayoutSymbol, LayoutInstr, LayoutData, LayoutSymType, LayoutEnd, Located, Fail, Stop,
   ResolveDone, ResolveLabel, ResolveConst, ResolveEnd, Compute,
   EmitNothing, EmitBlob, EmitExpression, EmitNumber, EmitArgument, EmitInstr, EmitEnd,
   InEmit, EndsWell, Emitted

LEMMA PhaseTyped ==
    ASSUME phase \in Phases, [Next]_vars
    PROVE  phase' \in Phases
<1>1. CASE Compute
  BY <1>1, CalculatePhase DEF Compute, Phases
<1>2. CASE OpenMain \/ ReadInclude \/ ReadStatement \/ ReadEnd
  BY <1>2 DEF OpenMain, ReadInclude, ReadStatement, ReadEnd, Open, Phases
<1>3. CASE LayoutSymbol \/ LayoutInstr \/ LayoutData \/ LayoutSymType \/ LayoutEnd
  BY <1>3 DEF LayoutSymbol, LayoutInstr, LayoutData, LayoutSymType, LayoutEnd, Located, Fail,
     Stop, Phases
<1>4. CASE ResolveDone \/ ResolveLabel \/ ResolveConst \/ ResolveEnd
  BY <1>4 DEF ResolveDone, ResolveLabel, ResolveConst, ResolveEnd, Enter, Phases
<1>5. CASE \/ EmitNothing \/ EmitBlob \/ EmitExpression \/ EmitNumber
           \/ EmitArgument \/ EmitInstr \/ EmitEnd
  BY <1>5 DEF EmitNothing, EmitBlob, EmitExpression, EmitNumber, EmitArgument, EmitInstr,
     EmitEnd, Emitted, Fail, Stop, Phases
<1>6. CASE UNCHANGED vars
  BY <1>6 DEF vars, symtab_vars
<1>7. QED
  BY <1>1, <1>2, <1>3, <1>4, <1>5, <1>6 DEF Next, Rest

LEMMA PassTypedStep ==
    ASSUME PassInv, PassInv', StackInv, TableTyped, PassTyped, [Next]_vars
    PROVE  PassTyped'
<1>1. phase' \in Phases
  BY PhaseTyped DEF PassTyped
<1>2. arg' \in Nat \ {0} /\ position' \in Nat
  <2>1. CASE phase' \in Before
    BY <2>1, AssemblerAssumption DEF PassInv
  <2>2. CASE phase' = "emit"
    <3>1. /\ arg' \in Nat \ {0} /\ i' \in 1..Len(ast') + 1 /\ pc' \in Seq(Nat)
          /\ location' \in Nat /\ position' = At(i)' + PUSH_LENGTH * (arg' - 1)
          /\ ast' \in Seq(Statements)
      BY <2>2 DEF PassInv, Emitting, Adjacent, ReadOK
    <3>2. At(i)' \in Nat
      <4>1. i' \in Nat \ {0} /\ Len(pc') \in Nat
        BY <3>1, LenProperties
      <4>2. i' <= Len(pc') => pc'[i'] \in Nat
        BY <3>1, <4>1, ElementOfSeq
      <4>3. QED
        BY <3>1, <4>2 DEF At
    <3>3. PUSH_LENGTH * (arg' - 1) \in Nat
      <4>1. \A n \in Nat \ {0} : n - 1 \in Nat
        OBVIOUS
      <4>2. arg' - 1 \in Nat
        BY <3>1, <4>1
      <4>3. QED
        BY <4>2, Pushes
    <3>4. QED
      BY <3>1, <3>2, <3>3
  <2>3. CASE phase' \notin Before \cup {"emit"}
    BY <1>1, <2>3, StaysAtEnd DEF PassTyped
  <2>4. QED
    BY <2>1, <2>2, <2>3
<1>3. i \in Nat \ {0}
  BY DEF StackInv, PhaseOK
<1>4. CASE OpenMain \/ ReadInclude \/ ReadStatement \/ ReadEnd
  <2>1. /\ phase \in {"start", "read"} /\ pc' = pc /\ output' = output
    BY <1>4 DEF OpenMain, ReadInclude, ReadStatement, ReadEnd
  <2>2. Len(pc') = 0
    BY <2>1, EmptySeq DEF PassInv
  <2>3. \A k \in 1..Len(pc') : Accepted(ast'[k])
    BY <2>2
  <2>4. QED
    BY <1>1, <1>2, <1>4, <2>1, <2>3, ReadersTyped DEF PassTyped
<1>5. ASSUME UNCHANGED <<source, reading>>, \A k \in 1..Len(pc') : Accepted(ast'[k]),
             output' \in Seq(Items)
      PROVE  PassTyped'
  BY <1>1, <1>2, <1>5 DEF PassTyped, Items
<1>6. ASSUME UNCHANGED <<source, reading, pc, ast>>, output' \in Seq(Items)
      PROVE  PassTyped'
  BY <1>5, <1>6 DEF PassTyped
<1>7. output \in Seq(Items)
  BY DEF PassTyped
<1>8. ASSUME InLayout, Located, Accepted(S) PROVE PassTyped'
  <2>1. \A k \in 1..Len(pc') : Accepted(ast'[k])
    BY <1>3, <1>8, AcceptedStep
  <2>2. UNCHANGED <<source, reading, output>>
    BY <1>8 DEF Located
  <2>3. QED
    BY <1>5, <1>7, <2>1, <2>2
<1>9. ASSUME NEW how, Fail(how) PROVE PassTyped'
  BY <1>6, <1>7, <1>9 DEF Fail, pass_vars
<1>10. CASE LayoutSymbol
  BY <1>8, <1>9, <1>10 DEF LayoutSymbol, InLayout, Accepted
<1>11. CASE LayoutInstr
  BY <1>8, <1>9, <1>11 DEF LayoutInstr, InLayout, Accepted
<1>12. CASE LayoutData
  <2>1. S \in Statements
    BY <1>3, <1>12, StatementType DEF LayoutData, InLayout
  <2>2. S.size \in Int
    BY <2>1 DEF Statements
  <2>3. QED
    BY <1>8, <1>9, <1>12, <2>2 DEF LayoutData, InLayout, Accepted
<1>13. CASE LayoutSymType
  BY <1>8, <1>9, <1>13 DEF LayoutSymType, InLayout, Accepted
<1>14. CASE LayoutEnd \/ ResolveDone \/ ResolveLabel \/ ResolveConst \/ ResolveEnd \/ Compute
  BY <1>6, <1>7, <1>14 DEF LayoutEnd, ResolveDone, ResolveLabel, ResolveConst, ResolveEnd,
     Compute, pass_vars
<1>15. CASE EmitNothing \/ EmitExpression \/ EmitEnd
  BY <1>6, <1>7, <1>15 DEF EmitNothing, EmitExpression, EmitEnd, Emitted, Fail, pass_vars
<1>16. CASE EmitBlob \/ EmitNumber \/ EmitArgument \/ EmitInstr
  <2>1. UNCHANGED <<source, reading, pc, ast>>
    BY <1>16 DEF EmitBlob, EmitNumber, EmitArgument, EmitInstr, Emitted
  <2>2. QED
    BY <1>6, <1>16, <2>1, OutputTyped
<1>17. CASE UNCHANGED vars
  BY <1>6, <1>7, <1>17 DEF vars, pass_vars
<1>18. QED
  BY <1>4, <1>10, <1>11, <1>12, <1>13, <1>14, <1>15, <1>16, <1>17 DEF Next, Rest

LEMMA TypedInit == Init => TableTyped /\ PassTyped
<1> SUFFICES ASSUME Init PROVE TableTyped /\ PassTyped
  OBVIOUS
<1>1. /\ symtab = << >> /\ frames = << >> /\ traceback_to = 0 /\ printed = << >>
      /\ reading = << >> /\ pc = << >> /\ output = << >> /\ arg = 1
      /\ position = LABEL_OFFSET /\ phase = "start"
  BY DEF Init, SymtabInit
<1>2. \A T : << >> \in Seq(T) /\ Len(<< >>) = 0
  BY EmptySeq
<1>3. TableTyped
  BY <1>1, <1>2 DEF TableTyped
<1>4. PassTyped
  BY <1>1, <1>2, AssemblerAssumption DEF PassTyped, Phases
<1>5. QED
  BY <1>3, <1>4

\* Whatever the program, every symbol and everything that the calculator and
\* the stack of calls hold is a word: no expression leaves the 64 bits, though
\* it is computed in steps and shared between the symbols.  Every item of the
\* image is of a known kind.
THEOREM AssemblerTypes == Spec => []TypeOK
<1>1. PassInv /\ StackInv /\ TableTyped /\ PassTyped => TypeOK
  <2> SUFFICES ASSUME PassInv, StackInv, TableTyped, PassTyped PROVE TypeOK
    OBVIOUS
  <2>1. frames \in Seq(Activations)
    <3>1. frames \in Seq(Frames)
      BY DEF TableTyped
    <3>2. \A k \in 1..Len(frames) : frames[k] \in Activations
      BY <3>1, ElementOfSeq DEF Frames
    <3>3. QED
      BY <3>1, <3>2, SeqOver
  <2>2. SymtabTypeOK
    BY <2>1 DEF SymtabTypeOK, TableTyped, Lines
  <2>3. ASSUME NEW k \in DOMAIN reading
        PROVE  /\ reading[k].file \in DOMAIN source
               /\ reading[k].next \in 1..Len(source[reading[k].file]) + 1
    <3>1. reading \in Seq(Readers) /\ k \in 1..Len(reading)
      BY LenProperties DEF PassInv, ReadOK
    <3>2. reading[k] \in Readers
      BY <3>1, ElementOfSeq
    <3>3. reading[k].file \in DOMAIN source /\ reading[k].next \in Nat \ {0}
      BY <3>2 DEF Readers
    <3>4. Len(source[reading[k].file]) \in Nat
      BY <3>3, LenProperties DEF PassInv, ReadOK
    <3>5. reading[k].next <= Len(source[reading[k].file]) + 1
      BY <3>1 DEF PassTyped
    <3>6. QED
      BY <3>3, <3>4, <3>5
  <2>4. i \in Nat \ {0}
    BY DEF StackInv, PhaseOK
  <2>5. /\ \A file \in DOMAIN source : source[file] \in Seq(Statements)
        /\ ast \in Seq(Statements) /\ pc \in Seq(Nat) /\ location \in Nat
    BY DEF PassInv, ReadOK, Adjacent
  <2>6. /\ phase \in Phases /\ arg \in Nat \ {0} /\ position \in Nat
        /\ output \in Seq([at : Nat, kind : ItemKinds, value : Nat])
    BY DEF PassTyped, Items
  <2>7. QED
    BY <2>2, <2>3, <2>4, <2>5, <2>6, Zenon DEF TypeOK
<1>2. PassInv /\ PassInv' /\ StackInv /\ TableTyped /\ PassTyped /\ [Next]_vars
        => TableTyped' /\ PassTyped'
  BY TableStep, PassTypedStep
<1>3. QED
  BY <1>1, <1>2, TypedInit, StackInvariant, PTL DEF Spec

-----------------------------------------------------------------------------
(* Labels have the values that jumps need.                                  *)

\* A label that has its place has an entry that knows the place.
Labelled ==
    \A l \in 1..Len(pc) :
        ast[l].type = "label" =>
            \E e \in Entries :
                /\ symtab[e].kind = "label" /\ symtab[e].name = ast[l].name
                /\ symtab[e].location = pc[l]

Valued ==
    \A e \in Entries :
        symtab[e].kind = "label" /\ symtab[e].step = DONE => symtab[e].value = LabelValue(e)

LEMMA PutLabels ==
    ASSUME TableTyped, Labelled, Valued, NEW e \in Entries, NEW x, symtab' = Put(symtab, e, x),
           x.kind = symtab[e].kind, x.name = symtab[e].name, x.location = symtab[e].location,
           x.kind = "label" /\ x.step = DONE => x.value = LabelValue(e),
           UNCHANGED <<pc, ast>>
    PROVE  Labelled' /\ Valued'
<1>1. IsSeq(symtab) /\ Entries = 1..Len(symtab)
  BY SomeSeq, LenProperties DEF TableTyped, Entries
<1>2. /\ IsSeq(symtab') /\ Len(symtab') = Len(symtab)
      /\ \A d \in Entries : symtab'[d] = IF d = e THEN x ELSE symtab[d]
  BY <1>1, PutSeq
<1>3. Entries' = Entries
  BY <1>1, <1>2, SeqFacts DEF Entries
<1>4. \A d \in Entries :
        /\ symtab'[d].kind = symtab[d].kind /\ symtab'[d].name = symtab[d].name
        /\ symtab'[d].location = symtab[d].location
  BY <1>2
<1>5. Labelled'
  BY <1>3, <1>4 DEF Labelled
<1>6. ASSUME NEW d \in Entries, symtab'[d].kind = "label" /\ symtab'[d].step = DONE
      PROVE  symtab'[d].value = LabelValue(d)'
  <2>1. LabelValue(d)' = LabelValue(d)
    BY <1>4 DEF LabelValue
  <2>2. QED
    BY <1>2, <1>6, <2>1 DEF Valued
<1>7. QED
  BY <1>3, <1>5, <1>6 DEF Valued

\* A label gets the value that it has anyway.
LEMMA ComputedLabels ==
    ASSUME TableTyped, Labelled, Valued, NEW e \in Entries, NEW v, symtab' = Computed(e, v),
           symtab[e].kind = "label" => v = LabelValue(e), UNCHANGED <<pc, ast>>
    PROVE  Labelled' /\ Valued'
<1> DEFINE x == [symtab[e] EXCEPT !.value = v, !.step = DONE]
<1>1. symtab' = Put(symtab, e, x)
  BY DEF Computed, Entries, Put
<1>2. symtab[e] \in SymtabEntries
  BY EntryTyped
<1>3. /\ x.kind = symtab[e].kind /\ x.name = symtab[e].name
      /\ x.location = symtab[e].location /\ x.value = v
  BY <1>2 DEF SymtabEntries
<1> HIDE DEF x
<1>4. QED
  BY <1>1, <1>3, PutLabels

\* The step of a constant says nothing of labels.
LEMMA MarkedLabels ==
    ASSUME TableTyped, Labelled, Valued, NEW e \in Entries, NEW st, symtab' = Marked(e, st),
           symtab[e].kind # "label", UNCHANGED <<pc, ast>>
    PROVE  Labelled' /\ Valued'
<1> DEFINE x == [symtab[e] EXCEPT !.step = st]
<1>1. symtab' = Put(symtab, e, x)
  BY DEF Marked, Put
<1>2. symtab[e] \in SymtabEntries
  BY EntryTyped
<1>3. /\ x.kind = symtab[e].kind /\ x.name = symtab[e].name
      /\ x.location = symtab[e].location
  BY <1>2 DEF SymtabEntries
<1> HIDE DEF x
<1>4. QED
  BY <1>1, <1>3, PutLabels

\* Only constants are computed in activations.
LEMMA TopIsConstant ==
    ASSUME StackInv, frames # << >>, phase \in {"resolve", "unwind"}
    PROVE  Top.entry \in Entries /\ symtab[Top.entry].kind # "label"
<1>1. Top.entry \in Entries /\ Len(frames) \in Nat \ {0} /\ Top = frames[Len(frames)]
  BY TopFacts
<1>2. OnStack
  BY OnStackIs DEF StackInv
<1>3. Len(frames) \in 1..Len(frames)
  BY <1>1
<1>4. symtab[Top.entry].step = IN_PROGRESS
  BY <1>1, <1>2, <1>3 DEF OnStack
<1>5. QED
  BY <1>1, <1>4 DEF StackInv, EntriesOK, IsEntry

LEMMA CalculateLabels ==
    ASSUME StackInv, TableTyped, Labelled, Valued, Calculate, UNCHANGED <<pc, ast>>
    PROVE  Labelled' /\ Valued'
<1>1. ASSUME symtab' = symtab PROVE Labelled' /\ Valued'
  BY <1>1 DEF Labelled, Valued, Entries, LabelValue
<1>2. CASE MeetSemicolon \/ ExecuteOperator \/ TakeBadToken \/ TakeToken \/ TakeUnknownName
  BY <1>1, <1>2 DEF MeetSemicolon, ExecuteOperator, TakeBadToken, TakeToken, TakeUnknownName,
     Stop
<1>3. CASE TakeValue \/ FindLoop \/ EndBadly \/ EndUnwind
  BY <1>1, <1>3 DEF TakeValue, FindLoop, EndBadly, EndUnwind, Stop
<1>4. CASE TakeLabel
  <2>1. TakesSymbol /\ symtab' = Computed(Named, LabelValue(Named))
    BY <1>4 DEF TakeLabel
  <2>2. QED
    BY <2>1, NamedFacts, ComputedLabels
<1>5. CASE TakeConstant
  <2>1. TakesSymbol /\ symtab[Named].kind = "const" /\ symtab' = Marked(Named, IN_PROGRESS)
    BY <1>5 DEF TakeConstant, Enter, Marked
  <2>2. QED
    BY <2>1, NamedFacts, MarkedLabels
<1>6. CASE Return
  <2>1. frames # << >> /\ phase = "resolve" /\ symtab' = Computed(Top.entry, Result(Top))
    BY <1>6 DEF Return, EndsWell, Trimmed, Running, Stored
  <2>2. QED
    BY <2>1, TopIsConstant, ComputedLabels
<1>7. CASE Unwind
  <2>1. frames # << >> /\ phase = "unwind" /\ symtab' = Marked(Top.entry, DONE)
    BY <1>7 DEF Unwind, Marked
  <2>2. QED
    BY <2>1, TopIsConstant, MarkedLabels
<1>8. QED
  BY <1>2, <1>3, <1>4, <1>5, <1>6, <1>7 DEF Calculate

\* The first pass gives a label its place and its entry in one step.
LEMMA LocatedLabels ==
    ASSUME PassInv, StackInv, TableTyped, Labelled, Valued, InLayout, Located,
           \/ symtab' = symtab /\ S.type # "label"
           \/ /\ S.type = "label"
              /\ symtab' = Append(symtab, Entry("label", S.name, location, << >>))
           \/ /\ S.type # "label"
              /\ \E expr : symtab' = Append(symtab, Entry("const", S.name, 0, expr))
    PROVE  Labelled' /\ Valued'
<1>1. /\ i = Len(pc) + 1 /\ pc \in Seq(Nat) /\ pc' = Append(pc, location) /\ ast' = ast
      /\ location \in Nat /\ IsSeq(symtab)
  BY SomeSeq DEF InLayout, PassInv, Adjacent, Located, TableTyped
<1>2. /\ Len(pc) \in Nat /\ Len(pc') = Len(pc) + 1 /\ pc'[Len(pc) + 1] = location
      /\ \A l \in 1..Len(pc) : pc'[l] = pc[l]
  BY <1>1, AppendProperties, LenProperties
<1>3. \A l \in 1..Len(pc) + 1 : l \in 1..Len(pc) \/ l = i
  BY <1>1, <1>2
<1> DEFINE Kept == /\ Entries \subseteq Entries'
                   /\ \A e \in Entries : symtab'[e] = symtab[e]
<1>4. ASSUME Kept, S.type = "label" =>
             \E e \in Entries' : /\ symtab'[e].kind = "label" /\ symtab'[e].name = S.name
                                 /\ symtab'[e].location = location
      PROVE  Labelled'
  <2> SUFFICES ASSUME NEW l \in 1..Len(pc'), ast'[l].type = "label"
               PROVE  \E e \in Entries' :
                        /\ symtab'[e].kind = "label" /\ symtab'[e].name = ast'[l].name
                        /\ symtab'[e].location = pc'[l]
    BY DEF Labelled
  <2>1. CASE l \in 1..Len(pc)
    BY ZenonT(30), <1>1, <1>2, <1>4, <2>1 DEF Labelled
  <2>2. CASE l = i
    BY <1>1, <1>2, <1>4, <2>2 DEF S
  <2>3. QED
    BY <1>2, <1>3, <2>1, <2>2
<1>5. ASSUME Kept, \A e \in Entries' : e \in Entries \/ symtab'[e].step = NOT_DONE
      PROVE  Valued'
  BY <1>5 DEF Valued, LabelValue, NOT_DONE, DONE
<1>6. CASE symtab' = symtab /\ S.type # "label"
  <2>1. Kept /\ Entries' = Entries
    BY <1>6 DEF Entries
  <2>2. QED
    BY <1>4, <1>5, <1>6, <2>1
<1>7. ASSUME NEW x, symtab' = Append(symtab, x), x.step = NOT_DONE,
             S.type = "label" => x.kind = "label" /\ x.name = S.name /\ x.location = location
      PROVE  Labelled' /\ Valued'
  <2>1. /\ IsSeq(symtab') /\ Len(symtab') = Len(symtab) + 1
        /\ \A e \in 1..Len(symtab) : symtab'[e] = symtab[e]
        /\ symtab'[Len(symtab) + 1] = x
    BY <1>1, <1>7, AppendSeq
  <2>2. Entries = 1..Len(symtab) /\ Entries' = 1..Len(symtab) + 1 /\ Len(symtab) \in Nat
    BY <1>1, <2>1, SeqFacts DEF Entries
  <2>3. /\ Entries \subseteq Entries' /\ Len(symtab) + 1 \in Entries'
        /\ \A e \in Entries' : e \in Entries \/ e = Len(symtab) + 1
    BY <2>2
  <2>4. Kept
    BY <2>1, <2>2, <2>3
  <2>5. S.type = "label" =>
          \E e \in Entries' : /\ symtab'[e].kind = "label" /\ symtab'[e].name = S.name
                              /\ symtab'[e].location = location
    BY <1>7, <2>1, <2>3
  <2>6. \A e \in Entries' : e \in Entries \/ symtab'[e].step = NOT_DONE
    BY <1>7, <2>1, <2>3
  <2> HIDE DEF Kept
  <2>7. QED
    BY <1>4, <1>5, <2>4, <2>5, <2>6
<1>8. QED
  BY <1>6, <1>7 DEF Entry

LEMMA LabelsStep ==
    ASSUME PassInv, StackInv, TableTyped, Labelled, Valued, [Next]_vars
    PROVE  Labelled' /\ Valued'
<1>1. ASSUME UNCHANGED <<symtab, pc, ast>> PROVE Labelled' /\ Valued'
  BY <1>1 DEF Labelled, Valued, Entries, LabelValue
<1>2. CASE OpenMain \/ ReadInclude \/ ReadStatement \/ ReadEnd
  <2>1. phase \in {"start", "read"} /\ pc' = pc /\ symtab' = symtab
    BY <1>2 DEF OpenMain, ReadInclude, ReadStatement, ReadEnd, Keep
  <2>2. Len(pc') = 0
    BY <2>1, EmptySeq DEF PassInv
  <2>3. Valued'
    BY <2>1 DEF Valued, Entries, LabelValue
  <2>4. QED
    BY <2>2, <2>3 DEF Labelled
<1>3. ASSUME NEW how, Fail(how) PROVE Labelled' /\ Valued'
  BY <1>1, <1>3 DEF Fail, Stop, pass_vars
<1>4. CASE LayoutSymbol
  <2>1. CASE Known(S.name)
    BY <1>3, <1>4, <2>1 DEF LayoutSymbol
  <2>2. CASE ~Known(S.name)
    BY <1>4, <2>2, LocatedLabels DEF LayoutSymbol, Adds
  <2>3. QED
    BY <2>1, <2>2
<1>5. CASE LayoutInstr
  BY <1>3, <1>5, LocatedLabels DEF LayoutInstr
<1>6. CASE LayoutData
  BY <1>3, <1>6, LocatedLabels DEF LayoutData
<1>7. CASE LayoutSymType
  BY <1>3, <1>7, LocatedLabels DEF LayoutSymType
<1>8. CASE LayoutEnd \/ ResolveDone \/ ResolveEnd
  BY <1>1, <1>8 DEF LayoutEnd, ResolveDone, ResolveEnd, Keep
<1>9. CASE ResolveLabel
  <2>1. i \in Entries /\ symtab' = Computed(i, LabelValue(i)) /\ UNCHANGED <<pc, ast>>
    BY <1>9 DEF ResolveLabel, InResolve, pass_vars
  <2>2. QED
    BY <2>1, ComputedLabels
<1>10. CASE ResolveConst
  <2>1. /\ i \in Entries /\ symtab[i].kind = "const" /\ symtab' = Marked(i, IN_PROGRESS)
        /\ UNCHANGED <<pc, ast>>
    BY <1>10 DEF ResolveConst, InResolve, Enter, Marked, pass_vars
  <2>2. QED
    BY <2>1, MarkedLabels
<1>11. CASE Compute
  BY <1>11, CalculateLabels DEF Compute, pass_vars
<1>12. CASE \/ EmitNothing \/ EmitBlob \/ EmitExpression \/ EmitNumber
            \/ EmitArgument \/ EmitInstr \/ EmitEnd
  BY <1>1, <1>12 DEF EmitNothing, EmitBlob, EmitExpression, EmitNumber, EmitArgument,
     EmitInstr, EmitEnd, Emitted, Keep, Fail, Stop, pass_vars
<1>13. CASE UNCHANGED vars
  BY <1>1, <1>13 DEF vars, symtab_vars, pass_vars
<1>14. QED
  BY <1>2, <1>4, <1>5, <1>6, <1>7, <1>8, <1>9, <1>10, <1>11, <1>12, <1>13 DEF Next, Rest

-----------------------------------------------------------------------------
(* Jumps land.                                                              *)

\* Items are written from the front to the back.
Ordered ==
    /\ \A k \in 1..Len(output) : output[k].at < position
    /\ \A j, k \in 1..Len(output) : j < k => output[j].at < output[k].at

LEMMA OrderedWritten ==
    ASSUME output \in Seq(Items), position \in Nat, Ordered,
           NEW items \in Seq(Items), NEW size \in Nat, Written(items, size),
           \A k \in 1..Len(items) : items[k].at >= position /\ items[k].at < position + size,
           \A j, k \in 1..Len(items) : j < k => items[j].at < items[k].at
    PROVE  /\ Ordered' /\ output' \in Seq(Items) /\ Len(output') = Len(output) + Len(items)
           /\ \A k \in 1..Len(output) : output'[k] = output[k]
           /\ \A k \in 1..Len(items) : output'[Len(output) + k] = items[k]
<1> DEFINE n == Len(output)
           m == Len(items)
<1>1. n \in Nat /\ m \in Nat
  BY LenProperties
<1>2. /\ output' \in Seq(Items) /\ Len(output') = n + m
      /\ \A k \in 1..n + m : output'[k] = IF k <= n THEN output[k] ELSE items[k - n]
      /\ position' = position + size
  BY ConcatProperties DEF Written
<1>3. /\ \A k \in 1..n : output[k] \in Items
      /\ \A k \in 1..m : items[k] \in Items
  BY ElementOfSeq
<1>4. /\ \A k \in 1..n : output[k].at \in Nat
      /\ \A k \in 1..m : items[k].at \in Nat
  BY <1>3 DEF Items
<1> HIDE DEF n, m
<1>5. \A k \in 1..n : output'[k] = output[k]
  BY <1>1, <1>2
<1>6. ASSUME NEW k \in 1..m PROVE output'[n + k] = items[k]
  <2>1. n + k \in 1..n + m /\ ~(n + k <= n) /\ (n + k) - n = k
    BY <1>1
  <2>2. QED
    BY <1>2, <2>1
<1>7. \A k \in 1..n + m : k \in 1..n \/ (k - n \in 1..m /\ n + (k - n) = k)
  BY <1>1
<1>8. /\ \A k \in 1..n : output[k].at < position
      /\ \A j, k \in 1..n : j < k => output[j].at < output[k].at
  BY DEF Ordered, n
<1>9. /\ \A k \in 1..m : items[k].at >= position /\ items[k].at < position + size
      /\ \A j, k \in 1..m : j < k => items[j].at < items[k].at
  BY DEF m
<1>10. ASSUME NEW k \in 1..n + m PROVE output'[k].at < position'
  <2>0. position' = position + size
    BY <1>2
  <2>1. CASE k \in 1..n
    <3>1. output'[k] = output[k] /\ output[k].at < position /\ output[k].at \in Nat
      BY <1>4, <1>5, <1>8, <2>1
    <3>2. QED
      BY <2>0, <3>1
  <2>2. CASE k - n \in 1..m /\ n + (k - n) = k
    <3>1. output'[k] = items[k - n] /\ items[k - n].at < position + size
      BY <1>6, <1>9, <2>2
    <3>2. QED
      BY <2>0, <3>1
  <2>3. QED
    BY <1>7, <2>1, <2>2
<1>11. ASSUME NEW j \in 1..n + m, NEW k \in 1..n + m, j < k
       PROVE  output'[j].at < output'[k].at
  <2>1. CASE k \in 1..n
    <3>1. j \in 1..n
      BY <1>1, <1>11, <2>1
    <3>2. QED
      BY <1>5, <1>8, <1>11, <2>1, <3>1
  <2>2. CASE j \in 1..n /\ k - n \in 1..m /\ n + (k - n) = k
    <3>1. /\ output'[j] = output[j] /\ output'[k] = items[k - n]
          /\ output[j].at < position /\ items[k - n].at >= position
          /\ output[j].at \in Nat /\ items[k - n].at \in Nat
      BY <1>4, <1>5, <1>6, <1>8, <1>9, <2>2
    <3>2. QED
      BY <3>1
  <2>3. CASE j - n \in 1..m /\ n + (j - n) = j /\ k - n \in 1..m /\ n + (k - n) = k
    <3>1. j - n < k - n
      BY <1>1, <1>11
    <3>2. output'[j] = items[j - n] /\ output'[k] = items[k - n]
      BY <1>6, <2>3
    <3>3. QED
      BY <1>9, <2>3, <3>1, <3>2
  <2>4. QED
    BY <1>7, <2>1, <2>2, <2>3
<1>12. Ordered'
  BY <1>2, <1>10, <1>11 DEF Ordered
<1>13. QED
  BY <1>2, <1>5, <1>6, <1>12 DEF n, m

\* Only one item is at an address.
LEMMA OneItem ==
    ASSUME output \in Seq(Items), Ordered, NEW j \in 1..Len(output), NEW k \in 1..Len(output),
           output[j].at = output[k].at
    PROVE  j = k
<1>1. output[j].at \in Nat /\ output[k].at \in Nat
  <2>1. output[j] \in Items /\ output[k] \in Items
    BY ElementOfSeq
  <2>2. QED
    BY <2>1 DEF Items
<1>2. j < k \/ k < j \/ j = k
  BY LenProperties
<1>3. QED
  BY <1>1, <1>2 DEF Ordered

\* The expression of an argument that is a name alone: nothing is done yet, or
\* the value of the name is the result.
Evaluating ==
    frames # << >> /\ S.type = "instr" =>
        \A n \in STRING :
            S.args[arg] = <<Name(n)>> =>
                \/ Top.expr = <<Name(n)>> /\ Top.op_stack = << >> /\ Top.prev_ttype = "lparen"
                   /\ Top.res_stack = << >>
                \/ Top.expr = << >> /\ Top.op_stack = << >>
                   /\ Top.res_stack = <<symtab[EntryOf(n)].value>>

\* The lengths of sequences written out.
LEMMA Singleton ==
    ASSUME NEW T, NEW e \in T
    PROVE  /\ <<e>> \in Seq(T) /\ Len(<<e>>) = 1 /\ <<e>>[1] = e /\ <<e>> # << >>
           /\ Head(<<e>>) = e /\ Tail(<<e>>) = << >> /\ Append(<< >>, e) = <<e>>
OBVIOUS

\* The calculator of the second pass leaves the table alone and replaces the
\* activation, if it goes on.
LEMMA EvaluatingStep ==
    ASSUME StackInv, TableTyped, Evaluating, phase = "emit", Calculate, phase' = "emit",
           UNCHANGED <<ast, i, arg>>
    PROVE  Evaluating'
<1>1. UNCHANGED <<S, arg>>
  BY DEF S
<1>2. SUFFICES ASSUME frames' # << >>, S.type = "instr", NEW n \in STRING,
                      S.args[arg] = <<Name(n)>>
               PROVE  \/ /\ Top'.expr = <<Name(n)>> /\ Top'.op_stack = << >>
                         /\ Top'.prev_ttype = "lparen" /\ Top'.res_stack = << >>
                      \/ /\ Top'.expr = << >> /\ Top'.op_stack = << >>
                         /\ Top'.res_stack = <<symtab'[EntryOf(n)'].value>>
  BY <1>1 DEF Evaluating
<1>3. frames # << >>
  BY CalculatePhase
<1> DEFINE Fresh == /\ Top.expr = <<Name(n)>> /\ Top.op_stack = << >>
                    /\ Top.prev_ttype = "lparen" /\ Top.res_stack = << >>
           Over == /\ Top.expr = << >> /\ Top.op_stack = << >>
                   /\ Top.res_stack = <<symtab[EntryOf(n)].value>>
<1>4. Fresh \/ Over
  BY <1>2, <1>3 DEF Evaluating
<1>5. ~MustExecute(Top)
  BY <1>4 DEF MustExecute
<1>6. CASE Over
  <2>1. AtEnd(Top) /\ NextToken(Top) = END
    BY <1>6 DEF AtEnd, NextToken
  <2>2. FALSE
    BY <1>5, <2>1 DEF Calculate, MeetSemicolon, ExecuteOperator, TakeBadToken, TakeToken,
       TakeUnknownName, TakeValue, TakeLabel, TakeConstant, FindLoop, EndBadly, Return,
       Unwind, EndUnwind, TakesSymbol, TakesName, TakesToken, EndsWell, Stop, END, Token
  <2>3. QED
    BY <2>2
<1>7. CASE Fresh
  <2>1. ~AtEnd(Top) /\ NextToken(Top) = Name(n)
    BY <1>7 DEF AtEnd, NextToken
  <2>2. NextToken(Top).kind = "name" /\ NextToken(Top).text = n
    BY <2>1 DEF Name, Token
  <2>3. TakesSymbol /\ Resume(Operand(Top, symtab[Named].value)) /\ symtab' = symtab
    BY <1>5, <2>1, <2>2 DEF Calculate, MeetSemicolon, ExecuteOperator, TakeBadToken, TakeToken,
       TakeUnknownName, TakeValue, TakeLabel, TakeConstant, FindLoop, EndBadly, Return,
       Unwind, EndUnwind, EndsWell, Stop
  <2> DEFINE v == symtab[Named].value
             g == Operand(Top, v)
  <2>4. Named = EntryOf(n) /\ EntryOf(n)' = EntryOf(n)
    BY <2>2, <2>3 DEF Named, EntryOf, Entries
  <2>5. v \in Words
    BY <2>3, NamedFacts, EntryTyped DEF SymtabEntries
  <2>6. Top \in Frames /\ frames \in Seq(Frames)
    BY <1>3, EndsType DEF TableTyped, Top
  <2>7. g.expr = Tail(Top.expr) /\ g.op_stack = Top.op_stack /\ g.res_stack = Append(Top.res_stack, v)
    BY <2>6 DEF Operand, Taken, Frames, Activations
  <2>8. g.expr = << >> /\ g.op_stack = << >> /\ g.res_stack = <<v>>
    BY <1>7, <2>5, <2>7, Singleton
  <2>9. Top' = g
    <3>1. IsSeq(frames)
      BY <2>6, SomeSeq
    <3>2. frames' = Append(Front(frames), g)
      BY <2>3 DEF Resume
    <3> HIDE DEF g
    <3>3. Len(frames') = Len(frames) /\ frames'[Len(frames)] = g
      BY <1>3, <3>1, <3>2, ReplaceLast
    <3>4. QED
      BY <3>3 DEF Top, Last
  <2>10. QED
    BY <2>3, <2>4, <2>8, <2>9
<1>8. QED
  BY <1>4, <1>6, <1>7

\* A jump, the address of its opcode, and the labels it goes to.
IsJump(k) == ast[k].type = "instr" /\ ast[k].name = "rjmp" /\ ast[k].args # << >>
Opcode(k) == JumpFrom(ast[k], pc[k])
GoesTo(k, l) == ast[l].type = "label" /\ Last(ast[k].args) = <<Name(ast[l].name)>>

\* Its operand is written, and its opcode.
Pushed(k) ==
    \E m \in 1..Len(output) :
        /\ output[m].kind = "number" /\ output[m].at = Opcode(k) - WORD
        /\ \A l \in 1..Len(ast) : GoesTo(k, l) => Wrap(Opcode(k) + output[m].value) = Wrap(pc[l])
Landed(k) == \E j \in 1..Len(output) : output[j] = Item(Opcode(k), "rjmp", 0)

LandInv ==
    /\ Labelled /\ Valued /\ Ordered
    /\ phase \in {"emit", "done"} => Len(pc) = Len(ast)
    /\ phase = "emit" =>
         /\ Evaluating
         /\ \A k \in 1..Len(ast) :
              IsJump(k) =>
                /\ k < i \/ (k = i /\ arg > Len(ast[k].args)) => Pushed(k)
                /\ k < i => Landed(k)
    /\ phase = "done" => \A k \in 1..Len(ast) : IsJump(k) => Pushed(k) /\ Landed(k)

\* What is in the image stays there.
LEMMA StaysWritten ==
    ASSUME UNCHANGED <<ast, pc>>, Len(output) \in Nat, Len(output') \in Nat,
           Len(output) <= Len(output'), \A m \in 1..Len(output) : output'[m] = output[m], NEW k
    PROVE  (Pushed(k) => Pushed(k)') /\ (Landed(k) => Landed(k)')
<1>1. \A m \in 1..Len(output) : m \in 1..Len(output')
  OBVIOUS
<1>2. Opcode(k)' = Opcode(k) /\ \A l : GoesTo(k, l)' = GoesTo(k, l)
  BY DEF Opcode, JumpFrom, GoesTo
<1>3. QED
  BY <1>1, <1>2 DEF Pushed, Landed

\* The operand takes the processor from the opcode to where the label is.
LEMMA OperandReaches ==
    ASSUME NEW from \in Int, NEW v \in Words, NEW to \in Int, v = Wrap(to)
    PROVE  Wrap(from + NumberItem(0, WORD, Wrap(v - from)).value) = Wrap(to)
<1> DEFINE p == Wrap(v - from)
           u == Unsigned(p)
<1>1. v \in Int /\ v - from \in Int
  BY WordsAreInts
<1>2. p \in Words /\ p \in Int
  BY <1>1, WrapType, WordsAreInts
<1>3. u \in 0..2 * HALF - 1 /\ Wrap(u) = Wrap(p) /\ u \in Int
  <2> HIDE DEF p
  <2>1. Unsigned(p) \in 0..2 * HALF - 1 /\ Wrap(Unsigned(p)) = Wrap(p)
    BY <1>2, UnsignedType
  <2>2. QED
    BY <2>1
<1>4. NumberItem(0, WORD, p).value = u
  <2>1. NumberItem(0, WORD, p).value = u % (2 * HALF)
    BY WeightStep DEF NumberItem, Item
  <2>2. \A b \in Nat \ {0} : \A x \in 0..b - 1 : (x % b) = x
    OBVIOUS
  <2>3. 2 * HALF \in Nat \ {0}
    BY HalfType
  <2> HIDE DEF u
  <2>4. QED
    BY <1>3, <2>1, <2>2, <2>3
<1> HIDE DEF u
<1>5. Wrap(u + from) = Wrap(p + from)
  <2>1. Wrap(Wrap(u) + from) = Wrap(u + from)
    BY <1>3, WrapSum
  <2>2. Wrap(Wrap(p) + from) = Wrap(p + from)
    BY <1>2, WrapSum
  <2>3. QED
    BY <1>3, <2>1, <2>2
<1>6. Wrap(p + from) = Wrap(v)
  <2>1. Wrap(p + from) = Wrap((v - from) + from)
    BY <1>1, WrapSum
  <2>2. (v - from) + from = v
    BY <1>1
  <2>3. QED
    BY <2>1, <2>2
<1>7. Wrap(v) = Wrap(to)
  BY WrapWord
<1>8. u + from = from + u
  BY <1>3
<1>9. QED
  BY <1>4, <1>5, <1>6, <1>7, <1>8

\* The name of a label has its place for a value, in the second pass.
LEMMA LabelOf ==
    ASSUME StackInv, PassInv, TableTyped, LandInv, phase = "emit",
           NEW l \in 1..Len(ast), ast[l].type = "label"
    PROVE  /\ EntryOf(ast[l].name) \in Entries /\ pc[l] \in Nat
           /\ symtab[EntryOf(ast[l].name)].value \in Words
           /\ symtab[EntryOf(ast[l].name)].value = Wrap(pc[l])
<1>1. l \in 1..Len(pc)
  BY DEF LandInv
<1>2. PICK e \in Entries : /\ symtab[e].kind = "label" /\ symtab[e].name = ast[l].name
                           /\ symtab[e].location = pc[l]
  BY <1>1 DEF LandInv, Labelled
<1>3. \A d \in 1..e - 1 : symtab[d].name # ast[l].name
  <2>1. Entries = 1..Len(symtab) /\ Len(symtab) \in Nat
    BY SeqFacts DEF StackInv, EntriesOK, Entries
  <2>2. \A d \in 1..e - 1 : d \in Entries /\ d # e
    BY <2>1
  <2>3. QED
    BY <1>2, <2>2 DEF StackInv, EntriesOK
<1>4. EntryOf(ast[l].name) \in Entries /\ symtab[EntryOf(ast[l].name)].name = ast[l].name
  BY <1>2, <1>3 DEF EntryOf
<1>5. EntryOf(ast[l].name) = e
  BY <1>2, <1>4 DEF StackInv, EntriesOK
<1>6. symtab[e].value = Wrap(pc[l])
  BY <1>2 DEF LandInv, Valued, LabelValue, StackInv, PhaseOK
<1>7. pc[l] \in Nat /\ symtab[e].value \in Words
  <2>1. pc \in Seq(Nat)
    BY DEF PassInv, Adjacent
  <2>2. symtab[e].value \in Words
    BY EntryTyped DEF SymtabEntries
  <2>3. QED
    BY <1>1, <2>1, <2>2, ElementOfSeq
<1>8. QED
  BY <1>4, <1>5, <1>6, <1>7

\* Where the second pass is.
LEMMA EmitFacts ==
    ASSUME PassInv, PassTyped, StackInv, LandInv, phase = "emit", i <= Len(ast)
    PROVE  /\ i \in 1..Len(ast) /\ Len(ast) \in Nat /\ S = ast[i] /\ S \in Statements
           /\ Accepted(S) /\ pc[i] \in Nat /\ Len(S.args) \in Nat
           /\ position = pc[i] + PUSH_LENGTH * (arg - 1) /\ position \in Nat /\ arg \in Nat \ {0}
           /\ output \in Seq(Items) /\ Len(output) \in Nat
           /\ S.type # "instr" => arg = 1
           /\ arg # 1 => arg <= Len(S.args) + 1
           /\ frames # << >> /\ S.type = "instr" => arg <= Len(S.args)
           /\ IsJump(i) => Len(S.args) \in Nat \ {0}
<1>1. Emitting /\ Len(pc) = Len(ast) /\ pc \in Seq(Nat) /\ ast \in Seq(Statements)
  BY DEF PassInv, Adjacent, ReadOK
<1>2. i \in Nat \ {0} /\ output \in Seq(Items) /\ position \in Nat /\ arg \in Nat \ {0}
  BY DEF StackInv, PhaseOK, PassTyped
<1>3. i \in 1..Len(ast) /\ S \in Statements /\ S.args \in Seq(Seq(Tokens))
  BY <1>2, StatementType
<1>4. Len(ast) \in Nat /\ Len(S.args) \in Nat /\ Len(output) \in Nat
  BY <1>1, <1>2, <1>3, LenProperties
<1>5. pc[i] \in Nat /\ At(i) = pc[i]
  BY <1>1, <1>3, ElementOfSeq DEF At
<1>6. Accepted(S)
  BY <1>1, <1>3 DEF PassTyped, S
<1>7. S.args # << >> => Len(S.args) # 0
  BY <1>3, EmptySeq
<1>8. /\ position = pc[i] + PUSH_LENGTH * (arg - 1)
      /\ S.type # "instr" => arg = 1
      /\ arg # 1 => arg <= Len(S.args) + 1
      /\ frames # << >> /\ S.type = "instr" => arg <= Len(S.args)
  BY <1>1, <1>5 DEF Emitting, S
<1>9. QED
  BY <1>1, <1>2, <1>3, <1>4, <1>5, <1>6, <1>7, <1>8 DEF S, IsJump

\* The invariant with what the second pass adds to it.
LEMMA LandAfter ==
    ASSUME PassInv, StackInv, TableTyped, LandInv, Labelled', Valued', Ordered',
           phase = "emit", phase' = "emit",
           UNCHANGED <<ast, pc>>, Evaluating', Len(output) \in Nat, Len(output') \in Nat,
           Len(output) <= Len(output'), \A m \in 1..Len(output) : output'[m] = output[m],
           NEW h \in 1..Len(ast), h = i, i' \in {h, h + 1}, Len(ast) \in Nat,
           arg' \in Nat \ {0}, i' = h + 1 => arg' = 1,
           IsJump(h) /\ i' = h /\ arg' > Len(ast[h].args) => Pushed(h)',
           IsJump(h) /\ i' = h + 1 => Pushed(h)' /\ Landed(h)'
    PROVE  LandInv'
<1>1. ASSUME NEW k \in 1..Len(ast), IsJump(k)'
      PROVE  /\ k < i' \/ (k = i' /\ arg' > Len(ast[k].args)) => Pushed(k)'
             /\ k < i' => Landed(k)'
  <2>1. IsJump(k) /\ k \in Nat /\ h \in Nat
    BY <1>1 DEF IsJump
  <2>2. k < h => Pushed(k)' /\ Landed(k)'
    BY <2>1, StaysWritten DEF LandInv
  <2>3. ast[k].args # << >> => Len(ast[k].args) \in Nat \ {0}
    <3>1. ast \in Seq(Statements)
      BY DEF PassInv, ReadOK
    <3>2. ast[k].args \in Seq(Seq(Tokens))
      BY <3>1, ElementOfSeq DEF Statements
    <3>3. QED
      BY <3>2, EmptySeq, LenProperties
  <2>4. Len(ast[k].args) \in Nat \ {0}
    BY <2>1, <2>3 DEF IsJump
  <2>5. CASE i' = h
    BY <2>1, <2>2, <2>5
  <2>6. CASE i' = h + 1
    <3>1. ~(arg' > Len(ast[k].args))
      BY <2>4, <2>6
    <3>2. k < i' => k < h \/ k = h
      BY <2>1, <2>6
    <3>3. QED
      BY <2>1, <2>2, <2>6, <3>1, <3>2
  <2>7. QED
    BY <2>5, <2>6
<1>2. Len(pc') = Len(ast')
  BY DEF LandInv
<1>3. QED
  BY <1>1, <1>2 DEF LandInv

\* The operand of a jump, behind its opcode.
LEMMA ArgumentLands ==
    ASSUME PassInv, PassTyped, StackInv, TableTyped, LandInv, EmitArgument, Labelled', Valued'
    PROVE  LandInv'
<1> DEFINE param == IF arg = Len(S.args) /\ Flags[S.name] = "IF_REL"
                    THEN Wrap(Result(Top) - JumpFrom(S, pc[i]))
                    ELSE Result(Top)
           push == Item(position, "push", 0)
           number == NumberItem(position + 1, WORD, param)
           items == <<push, number>>
<1>1. /\ phase = "emit" /\ S.type = "instr" /\ frames # << >> /\ EndsWell /\ AtEnd(Top)
      /\ frames' = << >> /\ arg' = arg + 1 /\ UNCHANGED <<ast, pc, i, phase>>
      /\ Written(items, PUSH_LENGTH)
  BY DEF EmitArgument, EndsWell, Trimmed, Running
<1>2. i <= Len(ast)
  BY <1>1 DEF PassInv, Emitting
<1>3. /\ i \in 1..Len(ast) /\ Len(ast) \in Nat /\ S = ast[i] /\ S \in Statements
      /\ pc[i] \in Nat /\ Len(S.args) \in Nat
      /\ position = pc[i] + PUSH_LENGTH * (arg - 1) /\ position \in Nat /\ arg \in Nat \ {0}
      /\ output \in Seq(Items) /\ Len(output) \in Nat /\ arg <= Len(S.args)
  BY <1>1, <1>2, EmitFacts
<1>4. JumpFrom(S, pc[i]) = Opcode(i) /\ Opcode(i) \in Int
      /\ Opcode(i) = pc[i] + PUSH_LENGTH * Len(S.args)
  <2>1. PUSH_LENGTH * Len(S.args) \in Nat
    BY <1>3, Pushes
  <2>2. QED
    BY <1>3, <2>1 DEF Opcode, JumpFrom
<1>5. Result(Top) \in Words
  BY <1>1, ResultType
<1>6. param \in Words
  <2>1. Result(Top) - Opcode(i) \in Int
    BY <1>4, <1>5, WordsAreInts
  <2>2. QED
    BY <1>4, <1>5, <2>1, WrapType
<1>7. param = IF arg = Len(S.args) /\ Flags[S.name] = "IF_REL"
              THEN Wrap(Result(Top) - Opcode(i)) ELSE Result(Top)
  BY <1>4
<1> HIDE DEF param
<1>8. /\ push \in Items /\ number \in Items /\ push.at = position
      /\ number.at = position + 1 /\ number.kind = "number"
  <2>1. number \in Items
    BY <1>3, <1>6, WordAssumption, NumberItemType
  <2>2. push \in Items /\ push.at = position
    BY <1>3 DEF Item, Items, ItemKinds
  <2>3. QED
    BY <2>1, <2>2 DEF NumberItem, Item
<1>9. number.value = NumberItem(0, WORD, param).value
  BY DEF NumberItem, Item
<1> HIDE DEF push, number
<1>10. items \in Seq(Items) /\ Len(items) = 2 /\ items[1] = push /\ items[2] = number
  BY <1>8
<1> HIDE DEF items
<1>11. /\ \A k \in 1..Len(items) : items[k].at >= position /\ items[k].at < position + PUSH_LENGTH
       /\ \A j, k \in 1..Len(items) : j < k => items[j].at < items[k].at
  <2>1. \A k \in 1..2 : k = 1 \/ k = 2
    OBVIOUS
  <2>2. position + 1 < position + PUSH_LENGTH /\ position < position + PUSH_LENGTH
        /\ position < position + 1 /\ position >= position /\ position + 1 >= position
    BY <1>3, Pushes
  <2>3. \A j, k \in 1..2 : j < k => j = 1 /\ k = 2
    OBVIOUS
  <2>4. QED
    BY <1>8, <1>10, <2>1, <2>2, <2>3
<1>12. /\ Ordered' /\ output' \in Seq(Items) /\ Len(output') = Len(output) + Len(items)
       /\ \A k \in 1..Len(output) : output'[k] = output[k]
       /\ \A k \in 1..Len(items) : output'[Len(output) + k] = items[k]
  BY <1>1, <1>3, <1>10, <1>11, OrderedWritten, Pushes DEF LandInv
<1>13. ASSUME NEW h \in 1..Len(ast), h = i, IsJump(h), arg' > Len(ast[h].args)
       PROVE  Pushed(h)'
  <2>1. arg = Len(S.args) /\ S.name = "rjmp"
    BY <1>1, <1>3, <1>13 DEF IsJump
  <2>2. Flags[S.name] = "IF_REL"
    BY <2>1 DEF Flags
  <2>3. param = Wrap(Result(Top) - Opcode(i))
    BY <1>7, <2>1, <2>2
  <2> DEFINE m == Len(output) + 2
  <2>4. m \in 1..Len(output') /\ output'[m] = number
    <3>1. 2 \in 1..Len(items) /\ m \in 1..Len(output) + 2
      BY <1>3, <1>10
    <3>2. QED
      BY <1>10, <1>12, <3>1
  <2>5. number.at = Opcode(i) - WORD
    <3> DEFINE x == PUSH_LENGTH * (arg - 1)
    <3>1. PUSH_LENGTH * arg = x + PUSH_LENGTH /\ x \in Int
      <4>1. arg \in Int /\ arg - 1 \in Int
        BY <1>3
      <4>2. QED
        BY <4>1, Pushes
    <3>2. position = pc[i] + x /\ Opcode(i) = pc[i] + PUSH_LENGTH * arg
      BY <1>3, <1>4, <2>1
    <3> HIDE DEF x
    <3>3. Opcode(i) = pc[i] + (x + PUSH_LENGTH)
      BY <3>1, <3>2
    <3>4. QED
      BY <1>3, <1>8, <3>1, <3>2, <3>3, Pushes
  <2>6. ASSUME NEW l \in 1..Len(ast), GoesTo(i, l)
        PROVE  Wrap(Opcode(i) + number.value) = Wrap(pc[l])
    <3> DEFINE n == ast[l].name
    <3>1. ast[l].type = "label" /\ S.args[arg] = <<Name(n)>>
      BY <1>3, <2>1, <2>6 DEF GoesTo, Last
    <3>2. n \in STRING
      <4>1. ast[l] \in Statements
        BY ElementOfSeq DEF PassInv, ReadOK
      <4>2. QED
        BY <4>1 DEF Statements
    <3>3. symtab[EntryOf(n)].value \in Words /\ symtab[EntryOf(n)].value = Wrap(pc[l])
          /\ pc[l] \in Nat
      BY <1>1, <3>1, LabelOf
    <3>4. Top.res_stack = <<symtab[EntryOf(n)].value>>
      <4>1. <<Name(n)>> # << >>
        OBVIOUS
      <4>2. Evaluating
        BY <1>1 DEF LandInv
      <4>3. QED
        BY <1>1, <3>1, <3>2, <4>1, <4>2 DEF Evaluating, AtEnd
    <3>5. Result(Top) = symtab[EntryOf(n)].value
      BY <3>3, <3>4, Singleton DEF Result
    <3>6. Wrap(Opcode(i) + NumberItem(0, WORD, Wrap(Result(Top) - Opcode(i))).value) = Wrap(pc[l])
      BY <1>4, <3>3, <3>5, OperandReaches
    <3>7. QED
      BY <1>9, <2>3, <3>6
  <2>7. /\ Opcode(h)' = Opcode(i)
        /\ \A l \in 1..Len(ast) : GoesTo(h, l)' = GoesTo(i, l)
    BY <1>1, <1>13 DEF Opcode, JumpFrom, GoesTo
  <2>8. QED
    BY <1>1, <1>8, <2>4, <2>5, <2>6, <2>7 DEF Pushed
<1>14. Evaluating'
  BY <1>1 DEF Evaluating
<1>15. Len(output') \in Nat /\ Len(output) <= Len(output') /\ arg' \in Nat \ {0} /\ i' # i + 1
  BY <1>1, <1>3, <1>10, <1>12
<1>16. PICK h \in 1..Len(ast) : h = i
  BY <1>3
<1>17. QED
  BY <1>1, <1>3, <1>12, <1>13, <1>14, <1>15, <1>16, LandAfter

\* A statement is over; an instruction has its opcode behind its pushes.
LEMMA StatementLands ==
    ASSUME PassInv, PassTyped, StackInv, TableTyped, LandInv, Labelled', Valued',
           EmitNothing \/ EmitBlob \/ EmitNumber \/ EmitInstr
    PROVE  LandInv'
<1>1. /\ phase = "emit" /\ phase' = phase /\ UNCHANGED <<ast, pc>> /\ i' = i + 1
      /\ frames' = << >>
  BY DEF EmitNothing, EmitBlob, EmitNumber, EmitInstr, Emitted, InEmit, Keep
<1>2. i <= Len(ast)
  <2>1. frames # << >> => i <= Len(ast)
    BY <1>1 DEF PassInv, Emitting
  <2>2. QED
    BY <2>1 DEF EmitNothing, EmitBlob, EmitNumber, EmitInstr, InEmit, EndsWell, Trimmed, Running
<1>3. /\ i \in 1..Len(ast) /\ Len(ast) \in Nat /\ S = ast[i] /\ S \in Statements
      /\ Accepted(S) /\ pc[i] \in Nat /\ Len(S.args) \in Nat
      /\ position = pc[i] + PUSH_LENGTH * (arg - 1) /\ position \in Nat /\ arg \in Nat \ {0}
      /\ output \in Seq(Items) /\ Len(output) \in Nat
      /\ S.type # "instr" => arg = 1
      /\ arg # 1 => arg <= Len(S.args) + 1
      /\ IsJump(i) => Len(S.args) \in Nat \ {0}
  BY <1>1, <1>2, EmitFacts
<1>4. arg' = 1
  BY <1>3 DEF EmitNothing, EmitBlob, EmitNumber, EmitInstr, Emitted
<1>5. Evaluating'
  BY <1>1 DEF Evaluating
<1>6. PICK h \in 1..Len(ast) : h = i
  BY <1>3
<1>7. i' = h + 1 /\ i' # h /\ h \in Nat
  BY <1>1, <1>6
<1>8. ASSUME Ordered', Len(output') \in Nat, Len(output) <= Len(output'),
             \A m \in 1..Len(output) : output'[m] = output[m],
             IsJump(h) => Pushed(h)' /\ Landed(h)'
      PROVE  LandInv'
  BY <1>1, <1>3, <1>4, <1>5, <1>6, <1>7, <1>8, LandAfter
<1>9. ASSUME NEW items \in Seq(Items), NEW size \in Nat, Written(items, size), ~IsJump(h),
             \A k \in 1..Len(items) : items[k].at >= position /\ items[k].at < position + size,
             \A j, k \in 1..Len(items) : j < k => items[j].at < items[k].at
      PROVE  LandInv'
  <2>1. /\ Ordered' /\ output' \in Seq(Items) /\ Len(output') = Len(output) + Len(items)
        /\ \A k \in 1..Len(output) : output'[k] = output[k]
    BY <1>3, <1>9, OrderedWritten DEF LandInv
  <2>2. Len(items) \in Nat
    BY <1>9, LenProperties
  <2>3. Len(output') \in Nat /\ Len(output) <= Len(output')
    BY <1>3, <2>1, <2>2
  <2>4. QED
    BY <1>8, <1>9, <2>1, <2>3
<1>10. CASE EmitNothing
  <2>1. output' = output /\ position' = position /\ ~IsJump(h)
    BY <1>3, <1>6, <1>10 DEF EmitNothing, IsJump
  <2>2. Ordered'
    BY <2>1 DEF LandInv, Ordered
  <2>3. QED
    BY <1>3, <1>8, <2>1, <2>2
<1>11. CASE EmitBlob
  <2> DEFINE n == S.size
             items == [k \in 1..n |-> Item(position + k - 1, "char", 0)]
  <2>1. n \in Nat
    BY <1>3, <1>11 DEF Statements, Accepted, EmitBlob
  <2>2. Written(items, n)
    BY <1>11 DEF EmitBlob
  <2> HIDE DEF n
  <2>3. \A k \in 1..n : Item(position + k - 1, "char", 0) \in Items
    BY <1>3, <2>1 DEF Item, Items, ItemKinds
  <2>4. items \in Seq(Items)
    BY <2>1, <2>3, IsASeq
  <2>5. Len(items) = n
    <3>1. DOMAIN items = 1..n
      OBVIOUS
    <3> HIDE DEF items
    <3>2. DOMAIN items = 1..Len(items) /\ Len(items) \in Nat
      BY <2>4, LenProperties
    <3>3. \A a, b \in Nat : 1..a = 1..b => a = b
      <4> SUFFICES ASSUME NEW a \in Nat, NEW b \in Nat, 1..a = 1..b PROVE a = b
        OBVIOUS
      <4>1. a # 0 => a \in 1..b
        OBVIOUS
      <4>2. b # 0 => b \in 1..a
        OBVIOUS
      <4>3. QED
        BY <4>1, <4>2
    <3>4. QED
      BY <2>1, <3>1, <3>2, <3>3
  <2>6. \A k \in 1..n : items[k].at = position + k - 1
    BY DEF Item
  <2> HIDE DEF items
  <2>7. /\ \A k \in 1..n : items[k].at >= position /\ items[k].at < position + n
        /\ \A j, k \in 1..n : j < k => items[j].at < items[k].at
    BY <1>3, <2>1, <2>6
  <2>8. ~IsJump(h)
    BY <1>3, <1>6, <1>11 DEF EmitBlob, IsJump
  <2>9. QED
    BY <1>9, <2>1, <2>2, <2>4, <2>5, <2>7, <2>8
<1>12. CASE EmitNumber
  <2> DEFINE item == NumberItem(position, S.size, Result(Top))
  <2>1. EndsWell /\ S.size \in 1..WORD /\ S.size \in Nat \ {0}
    BY <1>3, <1>12, WordAssumption DEF Statements, EmitNumber
  <2>2. item \in Items
    BY <1>3, <2>1, ResultType, NumberItemType
  <2>3. item.at = position
    BY DEF NumberItem, Item
  <2>4. Written(<<item>>, S.size)
    BY <1>12 DEF EmitNumber
  <2> HIDE DEF item
  <2>5. <<item>> \in Seq(Items) /\ Len(<<item>>) = 1 /\ <<item>>[1] = item
    BY <2>2
  <2>6. /\ \A k \in 1..1 : k = 1
        /\ \A j, k \in 1..1 : ~(j < k)
    OBVIOUS
  <2>7. position >= position /\ position < position + S.size
    BY <1>3, <2>1
  <2>8. ~IsJump(h)
    BY <1>3, <1>6, <1>12 DEF EmitNumber, IsJump
  <2> DEFINE items == <<item>>
  <2>9. /\ items \in Seq(Items) /\ Len(items) = 1 /\ items[1] = item /\ Written(items, S.size)
    BY <2>4, <2>5
  <2> HIDE DEF items
  <2>10. QED
    BY <1>9, <2>1, <2>3, <2>6, <2>7, <2>8, <2>9
<1>13. CASE EmitInstr
  <2>1. CASE Flags[S.name] = "IF_PUSH"
    <3>1. output' = output /\ position' = position
      BY <1>13, <2>1 DEF EmitInstr
    <3>2. ~IsJump(h)
      BY <1>3, <1>6, <2>1 DEF IsJump, Flags
    <3>3. Ordered'
      BY <3>1 DEF LandInv, Ordered
    <3>4. QED
      BY <1>3, <1>8, <3>1, <3>2, <3>3
  <2>2. CASE Flags[S.name] # "IF_PUSH"
    <3> DEFINE item == Item(position, S.name, 0)
               items == <<item>>
    <3>1. S.name \in DOMAIN Flags
      BY <1>3, <1>13 DEF Accepted, BadInstr, EmitInstr
    <3>2. item \in Items /\ item.at = position
      BY <1>3, <3>1 DEF Item, Items, ItemKinds
    <3>3. Written(items, 1)
      BY <1>13, <2>2 DEF EmitInstr
    <3> HIDE DEF item
    <3>4. items \in Seq(Items) /\ Len(items) = 1 /\ items[1] = item
      BY <3>2
    <3> HIDE DEF items
    <3>5. /\ \A k \in 1..1 : k = 1
          /\ \A j, k \in 1..1 : ~(j < k)
      OBVIOUS
    <3>6. position >= position /\ position < position + 1
      BY <1>3
    <3>7. /\ \A k \in 1..Len(items) : items[k].at >= position /\ items[k].at < position + 1
          /\ \A j, k \in 1..Len(items) : j < k => items[j].at < items[k].at
      BY <3>2, <3>4, <3>5, <3>6
    <3>8. /\ Ordered' /\ output' \in Seq(Items) /\ Len(output') = Len(output) + Len(items)
          /\ \A k \in 1..Len(output) : output'[k] = output[k]
          /\ \A k \in 1..Len(items) : output'[Len(output) + k] = items[k]
      BY <1>3, <3>3, <3>4, <3>7, OrderedWritten DEF LandInv
    <3>9. /\ Len(output') = Len(output) + 1 /\ Len(output') \in Nat
          /\ Len(output) <= Len(output') /\ output'[Len(output) + 1] = item
          /\ Len(output) + 1 \in 1..Len(output')
      BY <1>3, <3>4, <3>8
    <3>10. ASSUME IsJump(h) PROVE Pushed(h)' /\ Landed(h)'
      <4>1. IsJump(i) /\ S.name = "rjmp" /\ Len(S.args) \in Nat \ {0} /\ arg > Len(S.args)
        BY <1>3, <1>6, <1>13, <3>10 DEF IsJump, EmitInstr
      <4>2. arg = Len(S.args) + 1
        BY <1>3, <4>1
      <4>3. position = pc[i] + PUSH_LENGTH * Len(S.args)
        <5>1. PUSH_LENGTH * ((Len(S.args) + 1) - 1) = PUSH_LENGTH * Len(S.args)
          BY <4>1, Pushes
        <5>2. QED
          BY <1>3, <4>2, <5>1
      <4>4. Opcode(h)' = position
        BY <1>1, <1>3, <1>6, <4>3 DEF Opcode, JumpFrom
      <4>5. item = Item(Opcode(h)', "rjmp", 0)
        BY <4>1, <4>4 DEF item
      <4>6. Landed(h)'
        BY <3>9, <4>5 DEF Landed
      <4>7. Pushed(h)
        BY <1>1, <1>3, <1>6, <3>10, <4>1 DEF LandInv
      <4>8. Pushed(h)'
        BY <1>1, <1>3, <3>8, <3>9, <4>7, StaysWritten
      <4>9. QED
        BY <4>6, <4>8
    <3>11. QED
      BY <1>8, <3>8, <3>9, <3>10
  <2>3. QED
    BY <2>1, <2>2
<1>14. QED
  BY <1>10, <1>11, <1>12, <1>13

LEMMA LandStep ==
    ASSUME PassInv, PassInv', PassTyped, StackInv, TableTyped, LandInv, [Next]_vars
    PROVE  LandInv'
<1>1. Labelled' /\ Valued'
  BY LabelsStep DEF LandInv
<1>2. ASSUME UNCHANGED <<output, position>>
      PROVE  Ordered'
  BY <1>2 DEF LandInv, Ordered
<1>3. ASSUME UNCHANGED <<output, position>>, phase' \notin {"emit", "done"}
      PROVE  LandInv'
  BY <1>1, <1>2, <1>3 DEF LandInv
<1>4. ASSUME UNCHANGED <<output, position, phase, ast, pc, i, arg>>, Evaluating'
      PROVE  LandInv'
  <2>1. \A k \in 1..Len(ast) :
          /\ IsJump(k)' <=> IsJump(k)
          /\ Pushed(k)' <=> Pushed(k)
          /\ Landed(k)' <=> Landed(k)
    BY <1>4 DEF IsJump, Pushed, Landed, Opcode, JumpFrom, GoesTo
  <2>2. QED
    BY <1>1, <1>2, <1>4, <2>1 DEF LandInv
<1>5. CASE OpenMain \/ ReadInclude \/ ReadStatement \/ ReadEnd
  BY <1>3, <1>5 DEF OpenMain, ReadInclude, ReadStatement, ReadEnd, Open
<1>6. CASE LayoutSymbol \/ LayoutInstr \/ LayoutData \/ LayoutSymType \/ LayoutEnd
  BY <1>3, <1>6 DEF LayoutSymbol, LayoutInstr, LayoutData, LayoutSymType, LayoutEnd, InLayout,
     Located, Fail, Stop, pass_vars
<1>7. CASE ResolveDone \/ ResolveLabel \/ ResolveConst
  BY <1>3, <1>7 DEF ResolveDone, ResolveLabel, ResolveConst, InResolve, Enter, pass_vars
<1>8. CASE ResolveEnd
  <2>1. /\ phase = "resolve" /\ phase' = "emit" /\ i' = 1 /\ frames' = << >>
        /\ UNCHANGED <<ast, pc, arg, output, position>>
    BY <1>8 DEF ResolveEnd, Keep
  <2>2. Len(pc) = Len(ast) /\ arg = 1 /\ ast \in Seq(Statements)
    BY <2>1 DEF PassInv, Before, ReadOK
  <2>3. Evaluating'
    BY <2>1 DEF Evaluating
  <2>4. ASSUME NEW k \in 1..Len(ast), IsJump(k)'
        PROVE  ~(k < 1) /\ ~(1 > Len(ast[k].args))
    <3>1. ast[k].args \in Seq(Seq(Tokens)) /\ ast[k].args # << >>
      BY <2>1, <2>2, <2>4, ElementOfSeq DEF IsJump, Statements
    <3>2. Len(ast[k].args) \in Nat \ {0}
      BY <3>1, EmptySeq, LenProperties
    <3>3. QED
      BY <3>2
  <2>5. QED
    BY <1>1, <1>2, <2>1, <2>2, <2>3, <2>4 DEF LandInv
<1>9. CASE Compute
  <2>1. Calculate /\ UNCHANGED <<source, reading, ast, pc, location, i, arg, output, position>>
    BY <1>9 DEF Compute, pass_vars
  <2>2. CASE phase' \notin {"emit", "done"}
    BY <1>3, <2>1, <2>2
  <2>3. CASE phase' \in {"emit", "done"}
    <3>1. phase = "emit" /\ phase' = "emit"
      BY <2>1, <2>3, CalculatePhase
    <3>2. Evaluating'
      BY <2>1, <3>1, EvaluatingStep DEF LandInv
    <3>3. QED
      BY <1>4, <2>1, <3>1, <3>2
  <2>4. QED
    BY <2>2, <2>3
<1>10. CASE EmitNothing \/ EmitBlob \/ EmitNumber \/ EmitInstr
  BY <1>1, <1>10, StatementLands
<1>11. CASE EmitArgument
  BY <1>1, <1>11, ArgumentLands
<1>12. CASE EmitExpression
  <2> DEFINE f == Activation(0, S.args[arg])
  <2>1. frames' = <<f>> /\ UNCHANGED <<output, position, phase, ast, pc, i, arg>>
    BY <1>12 DEF EmitExpression, pass_vars
  <2>2. /\ f.expr = S.args[arg] /\ f.op_stack = << >> /\ f.prev_ttype = "lparen"
        /\ f.res_stack = << >>
    BY DEF Activation
  <2>3. UNCHANGED S
    BY <2>1 DEF S
  <2> HIDE DEF f
  <2>4. Top' = f
    BY <2>1, Singleton DEF Top, Last
  <2>5. Evaluating'
    BY <2>1, <2>2, <2>3, <2>4 DEF Evaluating
  <2>6. QED
    BY <1>4, <2>1, <2>5
<1>13. CASE EmitEnd
  <2>1. /\ phase = "emit" /\ phase' = "done" /\ i > Len(ast)
        /\ UNCHANGED <<ast, pc, output, position>>
    BY <1>13 DEF EmitEnd, Fail, Stop, pass_vars
  <2>2. Len(ast) \in Nat /\ i \in Nat
    BY LenProperties DEF PassInv, ReadOK, StackInv, PhaseOK
  <2>3. \A k \in 1..Len(ast) : IsJump(k) => Pushed(k) /\ Landed(k)
    <3>1. \A k \in 1..Len(ast) : k < i
      BY <2>1, <2>2
    <3>2. QED
      BY <2>1, <3>1 DEF LandInv
  <2>4. \A k \in 1..Len(ast) :
          /\ IsJump(k)' <=> IsJump(k)
          /\ Pushed(k)' <=> Pushed(k)
          /\ Landed(k)' <=> Landed(k)
    BY <2>1 DEF IsJump, Pushed, Landed, Opcode, JumpFrom, GoesTo
  <2>5. QED
    BY <1>1, <1>2, <2>1, <2>3, <2>4 DEF LandInv
<1>14. CASE UNCHANGED vars
  <2>1. UNCHANGED <<output, position, phase, ast, pc, i, arg, frames, symtab>>
    BY <1>14 DEF vars, symtab_vars, pass_vars
  <2>2. phase = "emit" => Evaluating'
    BY <2>1 DEF LandInv, Evaluating, S, Top, EntryOf, Entries
  <2>3. CASE phase = "emit"
    BY <1>4, <2>1, <2>2, <2>3
  <2>4. CASE phase # "emit"
    <3>1. \A k \in 1..Len(ast) :
            /\ IsJump(k)' <=> IsJump(k)
            /\ Pushed(k)' <=> Pushed(k)
            /\ Landed(k)' <=> Landed(k)
      BY <2>1 DEF IsJump, Pushed, Landed, Opcode, JumpFrom, GoesTo
    <3>2. QED
      BY <1>1, <1>2, <2>1, <2>4, <3>1 DEF LandInv
  <2>5. QED
    BY <2>3, <2>4
<1>15. QED
  BY <1>5, <1>6, <1>7, <1>8, <1>9, <1>10, <1>11, <1>12, <1>13, <1>14 DEF Next, Rest

LEMMA LandInit == Init => LandInv
<1> SUFFICES ASSUME Init PROVE LandInv
  OBVIOUS
<1>1. symtab = << >> /\ pc = << >> /\ output = << >> /\ phase = "start"
  BY DEF Init, SymtabInit
<1>2. Len(<< >>) = 0 /\ DOMAIN << >> = {}
  BY EmptyIsSeq, SeqFacts
<1>3. Labelled /\ Valued /\ Ordered
  BY <1>1, <1>2 DEF Labelled, Valued, Ordered, Entries
<1>4. QED
  BY <1>1, <1>3 DEF LandInv

\* What is known of the assembler.
AssemblerInv == PassInv /\ StackInv /\ TableTyped /\ PassTyped /\ LandInv

THEOREM AssemblerInvariant == Spec => []AssemblerInv
<1>1. Init => TableTyped /\ PassTyped /\ LandInv
  BY TypedInit, LandInit
<1>2. /\ PassInv /\ PassInv' /\ StackInv /\ TableTyped /\ PassTyped /\ LandInv /\ [Next]_vars
      => TableTyped' /\ PassTyped' /\ LandInv'
  BY TableStep, PassTypedStep, LandStep
<1>3. QED
  BY <1>1, <1>2, StackInvariant, PTL DEF Spec, AssemblerInv

\* Every relative jump that names a label gets there, whatever pushes and
\* statements are between them and wherever the ROM begins: with the operand
\* that the image holds before the opcode, the processor lands where the first
\* pass has put the label.  The wrapping of the difference, of its bytes and of
\* the sum come to nothing.
THEOREM JumpsReachLabels == Spec => []JumpsLand
<1>1. AssemblerInv => JumpsLand
  <2> SUFFICES ASSUME AssemblerInv, phase = "done", NEW k \in DOMAIN ast, NEW l \in DOMAIN ast,
                      ast[k].type = "instr", ast[k].name = "rjmp", ast[l].type = "label",
                      ast[k].args # << >>, Last(ast[k].args) = <<Name(ast[l].name)>>
               PROVE  \E j \in DOMAIN output :
                        /\ output[j] = Item(pc[k] + PUSH_LENGTH * Len(ast[k].args), "rjmp", 0)
                        /\ Wrap(output[j].at + output[NumberBefore(output[j].at)].value)
                             = Wrap(pc[l])
    BY DEF JumpsLand
  <2>1. /\ DOMAIN ast = 1..Len(ast) /\ DOMAIN output = 1..Len(output)
        /\ output \in Seq(Items) /\ Ordered
    BY LenProperties DEF AssemblerInv, PassInv, ReadOK, PassTyped, LandInv
  <2>2. IsJump(k) /\ GoesTo(k, l) /\ Pushed(k) /\ Landed(k)
    BY <2>1 DEF AssemblerInv, LandInv, IsJump, GoesTo
  <2>3. PICK j \in 1..Len(output) : output[j] = Item(Opcode(k), "rjmp", 0)
    BY <2>2 DEF Landed
  <2>4. PICK m \in 1..Len(output) :
          /\ output[m].kind = "number" /\ output[m].at = Opcode(k) - WORD
          /\ Wrap(Opcode(k) + output[m].value) = Wrap(pc[l])
    BY <2>1, <2>2 DEF Pushed
  <2>5. output[j].at = Opcode(k)
    BY <2>3 DEF Item
  <2>6. NumberBefore(Opcode(k)) = m
    <3>1. \A n \in DOMAIN output : output[n].kind = "number" /\ output[n].at = Opcode(k) - WORD
                                   => n = m
      BY <2>1, <2>4, OneItem
    <3>2. QED
      BY <2>1, <2>4, <3>1 DEF NumberBefore
  <2>7. Opcode(k) = pc[k] + PUSH_LENGTH * Len(ast[k].args)
    BY DEF Opcode, JumpFrom
  <2>8. QED
    BY <2>1, <2>3, <2>4, <2>5, <2>6, <2>7
<1>2. QED
  BY <1>1, AssemblerInvariant, PTL

=============================================================================
