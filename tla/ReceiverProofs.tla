--------------------------- MODULE ReceiverProofs ---------------------------
(***************************************************************************)
(* Proofs about Receiver: processor, modem and program together, for every *)
(* batch length, memory map, buffer, amount of data and set of descriptors. *)
(***************************************************************************)
EXTENDS Receiver, SequenceTheorems, TLAPS

-----------------------------------------------------------------------------
(* The inductive invariant.                                                 *)

ModemRequest == Cpu!Interrupt(INTR_MODEM, Cpu!NoSetup)
TimerRequest == Cpu!Interrupt(INTR_TIMER1, Cpu!TimerReset)
Requests == {ModemRequest, TimerRequest}

\* The entries of the queue q that still wait when the pass has put back n and
\* scans m next.
Live(q, n, m) == 1 .. n \cup m .. Len(q)
WaitsIn(q, n, m, e) == \E k \in Live(q, n, m) : q[k] = e
Distinct(q, n, m) == \A j, k \in Live(q, n, m) : q[j] = q[k] => j = k

Awaited(e) == WaitsIn(asked_interrupts, num_postponed, scan, e)

\* The timer asks only while none of its requests waits.
QueueInv ==
    /\ asked_interrupts \in Seq(Requests)
    /\ scan \in Nat /\ num_postponed \in Nat
    /\ num_postponed < scan /\ scan <= Len(asked_interrupts) + 1
    /\ phase # "dispatch" => scan = 1 /\ num_postponed = 0
    /\ Distinct(asked_interrupts, num_postponed, scan)
    /\ is_waiting \in BOOLEAN
    /\ Awaited(TimerRequest) => is_waiting

\* The handler is entered behind the connection, and once at a time.
ProgramInv ==
    /\ pc \in Main \cup Handling
    /\ interrupt_type = IF pc \in Handling THEN <<INTR_MODEM>> ELSE << >>
    /\ pc \notin Handling => interrupt_return_addr = << >>
    /\ pc \in Handling => \E r \in CONNECT + 3 .. PRINTER : interrupt_return_addr = <<r>>
    /\ interrupt_vector = [t \in {INTR_TIMER1, INTR_MODEM, INTR_EXCEPTION} |->
                             IF t = INTR_MODEM /\ pc # MAIN THEN INT_MODEM ELSE 0]
    /\ phase \in {"exec", "dispatch", "crt", "modem", "timer", "stopped"}
    /\ {seen, noticed, destroyed, interrupts_disabled} \subseteq BOOLEAN
    /\ destroyed => phase = "stopped"

\* The registers of the modem; at the command of the handler its arguments
\* are those of the handler, which nothing interrupts.
ModemInv ==
    /\ fd \in Descriptors \cup {-1}
    /\ arg_a \in {0, BUF_BEGIN, HOST, DATA} /\ arg_b \in 0 .. BUF_SIZE + PORT + DATA_LEN
    /\ unread \in Nat
    /\ fd = -1 => peer = "none" /\ unread = 0
    /\ fd # -1 /\ ~destroyed => peer \in {"open", "shut", "reset", "failed"}
    /\ pc \in INT_MODEM + 1 .. RECV => arg_b = BUF_SIZE
    /\ pc = RECV => arg_a = BUF_BEGIN
    /\ pc <= CONNECT + 2 => fd = -1 /\ "INCM" \notin status /\ ~Awaited(ModemRequest)

\* What the flag, the queue and the handler say of each other.
AskInv ==
    /\ ~(Awaited(ModemRequest) /\ Receiving)
    /\ "INCM" \in status /\ ~interrupts_disabled => Awaited(ModemRequest) \/ Receiving
    /\ "INCM" \in status /\ peer \in {"open", "shut"} => unread > 0
    /\ "INCM" \notin status /\ (Awaited(ModemRequest) \/ Receiving) =>
          unread = 0 /\ peer \notin {"open", "shut"}

Inv == QueueInv /\ ProgramInv /\ ModemInv /\ AskInv

-----------------------------------------------------------------------------
(* What the steps of the processor do to the entries that wait.             *)

LEMMA RequestsDiffer == ModemRequest # TimerRequest
  BY DEF ModemRequest, TimerRequest, Cpu!Interrupt, INTR_MODEM, INTR_TIMER1

\* A new request waits, and what waited still does (ia_push$).
LEMMA AppendWaits ==
    ASSUME NEW q \in Seq(Requests), NEW e \in Requests
    PROVE  /\ Append(q, e) \in Seq(Requests)
           /\ \A x : WaitsIn(Append(q, e), 0, 1, x) <=> WaitsIn(q, 0, 1, x) \/ x = e
           /\ Distinct(q, 0, 1) /\ ~WaitsIn(q, 0, 1, e) => Distinct(Append(q, e), 0, 1)
<1>1. Len(q) \in Nat
  OBVIOUS
<1>2. /\ Append(q, e) \in Seq(Requests) /\ Len(Append(q, e)) = Len(q) + 1
      /\ \A k \in 1 .. Len(q) : Append(q, e)[k] = q[k]
      /\ Append(q, e)[Len(q) + 1] = e
  BY <1>1, AppendProperties
<1>3. Live(q, 0, 1) = 1 .. Len(q) /\ Live(Append(q, e), 0, 1) = 1 .. Len(q) + 1
  BY <1>1, <1>2 DEF Live
<1>4. 1 .. Len(q) + 1 = 1 .. Len(q) \cup {Len(q) + 1}
  BY <1>1
<1> QED
  BY <1>1, <1>2, <1>3, <1>4 DEF WaitsIn, Distinct

\* The entry that is taken waits no more, the others do.
LEMMA TakenWaits ==
    ASSUME NEW q \in Seq(Requests), NEW n \in Nat, NEW m \in Nat, n < m, m <= Len(q),
           Distinct(q, n, m)
    PROVE  /\ Distinct(q, n, m + 1)
           /\ \A x : WaitsIn(q, n, m + 1, x) <=> WaitsIn(q, n, m, x) /\ x # q[m]
           /\ WaitsIn(q, n, m, q[m])
<1>1. Len(q) \in Nat
  OBVIOUS
<1>2. Live(q, n, m) = Live(q, n, m + 1) \cup {m} /\ m \notin Live(q, n, m + 1)
  BY <1>1 DEF Live
<1> QED
  BY <1>2 DEF WaitsIn, Distinct

\* The entry that is put back waits at its new place.
LEMMA PutBackWaits ==
    ASSUME NEW q \in Seq(Requests), NEW n \in Nat, NEW m \in Nat, n < m, m <= Len(q),
           Distinct(q, n, m),
           NEW p, p = [q EXCEPT ![n + 1] = q[m]]
    PROVE  /\ p \in Seq(Requests) /\ Len(p) = Len(q)
           /\ Distinct(p, n + 1, m + 1)
           /\ \A x : WaitsIn(p, n + 1, m + 1, x) <=> WaitsIn(q, n, m, x)
<1>1. Len(q) \in Nat /\ n + 1 \in 1 .. Len(q) /\ m \in 1 .. Len(q)
  OBVIOUS
<1>2. q[m] \in Requests
  BY <1>1, ElementOfSeq
<1>3. p \in Seq(Requests) /\ Len(p) = Len(q)
      /\ \A k \in 1 .. Len(q) : p[k] = IF k = n + 1 THEN q[m] ELSE q[k]
  BY <1>1, <1>2, ExceptSeq
<1>4. Live(q, n, m) = 1 .. n \cup {m} \cup m + 1 .. Len(q)
  BY <1>1 DEF Live
<1>5. Live(p, n + 1, m + 1) = 1 .. n \cup {n + 1} \cup m + 1 .. Len(q)
  BY <1>1, <1>3 DEF Live
<1>6. /\ \A k \in 1 .. n \cup m + 1 .. Len(q) : p[k] = q[k]
      /\ p[n + 1] = q[m]
  BY <1>1, <1>3
<1>7. n + 1 \notin 1 .. n \cup m + 1 .. Len(q) /\ m \notin 1 .. n \cup m + 1 .. Len(q)
  BY <1>1
<1> HIDE DEF Live
<1>8. Distinct(p, n + 1, m + 1)
  BY <1>4, <1>5, <1>6, <1>7 DEF Distinct
<1>9. ASSUME NEW x PROVE WaitsIn(p, n + 1, m + 1, x) <=> WaitsIn(q, n, m, x)
  BY <1>4, <1>5, <1>6 DEF WaitsIn
<1> QED
  BY <1>3, <1>8, <1>9

\* When all is scanned, what waits is what was put back (ia_resize$).
LEMMA CutWaits ==
    ASSUME NEW q \in Seq(Requests), NEW n \in Nat, n <= Len(q),
           Distinct(q, n, Len(q) + 1)
    PROVE  /\ SubSeq(q, 1, n) \in Seq(Requests)
           /\ Distinct(SubSeq(q, 1, n), 0, 1)
           /\ \A x : WaitsIn(SubSeq(q, 1, n), 0, 1, x) <=> WaitsIn(q, n, Len(q) + 1, x)
<1>1. Len(q) \in Nat /\ \A k \in 1 .. n : q[k] \in Requests
  BY ElementOfSeq
<1>2. /\ SubSeq(q, 1, n) \in Seq(Requests) /\ Len(SubSeq(q, 1, n)) = n
      /\ \A k \in 1 .. n : SubSeq(q, 1, n)[k] = q[k]
  BY <1>1, SubSeqProperties
<1>3. Live(q, n, Len(q) + 1) = 1 .. n /\ Live(SubSeq(q, 1, n), 0, 1) = 1 .. n
  BY <1>1, <1>2 DEF Live
<1> QED
  BY <1>2, <1>3 DEF WaitsIn, Distinct

\* The operator Pending of VmCore and the entries that wait say the same.
LEMMA PendingWaits ==
    ASSUME QueueInv
    PROVE  /\ ModemAsked <=> Awaited(ModemRequest)
           /\ \A j, k \in DOMAIN Cpu!Pending :
                 Cpu!Pending[j].type = Cpu!Pending[k].type => j = k
<1> DEFINE q == asked_interrupts
           n == num_postponed
           a == SubSeq(q, 1, n)
           b == SubSeq(q, scan, Len(q))
<1>1. /\ q \in Seq(Requests) /\ n \in Nat /\ scan \in Nat /\ n < scan /\ scan <= Len(q) + 1
      /\ Len(q) \in Nat /\ \A k \in 1 .. Len(q) : q[k] \in Requests
  BY ElementOfSeq DEF QueueInv
<1>2. /\ a \in Seq(Requests) /\ Len(a) = n /\ \A k \in 1 .. n : a[k] = q[k]
  <2>1. \A k \in 1 .. n : q[k] \in Requests
    BY <1>1
  <2> QED
    BY <1>1, <2>1, SubSeqProperties
<1>3. /\ b \in Seq(Requests) /\ Len(b) = Len(q) - scan + 1
      /\ \A k \in 1 .. Len(q) - scan + 1 : b[k] = q[scan + k - 1]
  <2>1. \A k \in scan .. Len(q) : q[k] \in Requests
    BY <1>1
  <2> QED
    BY <1>1, <2>1, SubSeqProperties
<1>4. Cpu!Pending = a \o b
  BY DEF Cpu!Pending
<1> HIDE DEF a, b
<1>5. /\ a \o b \in Seq(Requests) /\ Len(a \o b) = n + (Len(q) - scan + 1)
      /\ \A k \in 1 .. n + (Len(q) - scan + 1) :
            (a \o b)[k] = IF k <= n THEN a[k] ELSE b[k - n]
  <2>1. /\ a \o b \in Seq(Requests) /\ Len(a \o b) = Len(a) + Len(b)
        /\ \A k \in 1 .. Len(a) + Len(b) :
              (a \o b)[k] = IF k <= Len(a) THEN a[k] ELSE b[k - Len(a)]
    BY <1>2, <1>3, ConcatProperties
  <2> QED
    BY <1>2, <1>3, <2>1
<1> DEFINE At(k) == IF k <= n THEN k ELSE scan + (k - n) - 1
           D == 1 .. n + (Len(q) - scan + 1)
<1>6. DOMAIN Cpu!Pending = D
  BY <1>1, <1>4, <1>5, LenProperties
<1>7. \A k \in D : At(k) \in Live(q, n, scan) /\ Cpu!Pending[k] = q[At(k)]
  <2> TAKE k \in D
  <2>1. CASE k <= n
    BY <1>1, <1>2, <1>4, <1>5, <2>1 DEF Live
  <2>2. CASE ~(k <= n)
    <3>1. k - n \in 1 .. Len(q) - scan + 1
      BY <1>1, <2>2
    <3>2. At(k) \in scan .. Len(q)
      BY <1>1, <2>2, <3>1
    <3>3. b[k - n] = q[At(k)]
      BY <1>1, <1>3, <2>2, <3>1
    <3> QED
      BY <1>4, <1>5, <2>2, <3>2, <3>3 DEF Live
  <2> QED
    BY <2>1, <2>2
<1>8. \A j, k \in D : At(j) = At(k) => j = k
  BY <1>1
<1>9. \A i \in Live(q, n, scan) : \E k \in D : At(k) = i
  <2> TAKE i \in Live(q, n, scan)
  <2>1. CASE i \in 1 .. n
    <3>1. i \in D /\ At(i) = i
      BY <1>1, <2>1
    <3> QED
      BY <3>1
  <2>2. CASE i \in scan .. Len(q)
    <3>1. i - scan + 1 + n \in D /\ At(i - scan + 1 + n) = i
      BY <1>1, <2>2
    <3> QED
      BY <3>1
  <2> QED
    BY <2>1, <2>2 DEF Live
<1>10. Live(q, n, scan) \subseteq 1 .. Len(q)
  BY <1>1 DEF Live
<1>11. \A e, f \in Requests : e.type = f.type => e = f
  BY DEF Requests, ModemRequest, TimerRequest, Cpu!Interrupt, INTR_MODEM, INTR_TIMER1
<1>12. \A e \in Requests : e.type = INTR_MODEM <=> e = ModemRequest
  BY DEF Requests, ModemRequest, TimerRequest, Cpu!Interrupt, INTR_MODEM, INTR_TIMER1
<1> HIDE DEF At, D
<1>13. ModemAsked <=> Awaited(ModemRequest)
  BY <1>1, <1>6, <1>7, <1>9, <1>10, <1>12 DEF ModemAsked, Awaited, WaitsIn
<1>14. Distinct(q, n, scan)
  BY DEF QueueInv
<1>15. ASSUME NEW j \in D, NEW k \in D, Cpu!Pending[j].type = Cpu!Pending[k].type
       PROVE  j = k
  <2>1. q[At(j)] = q[At(k)]
    BY <1>1, <1>7, <1>10, <1>11, <1>15
  <2> QED
    BY <1>7, <1>8, <1>14, <2>1 DEF Distinct
<1> QED
  BY <1>6, <1>13, <1>15

-----------------------------------------------------------------------------
(* Initial states.                                                          *)

LEMMA InitInv == Init => Inv
<1> SUFFICES ASSUME Init PROVE Inv
  OBVIOUS
<1>1. /\ pc = MAIN /\ interrupts_disabled = FALSE /\ interrupt_type = << >>
      /\ interrupt_return_addr = << >> /\ asked_interrupts = << >> /\ is_waiting = FALSE
      /\ phase = "exec" /\ scan = 1 /\ num_postponed = 0
      /\ interrupt_vector = [t \in {INTR_TIMER1, INTR_MODEM, INTR_EXCEPTION} |-> 0]
  BY DEF Init, Cpu!Init
<1>2. /\ fd = -1 /\ status = {"LINE"} /\ arg_a = 0 /\ arg_b = 0 /\ peer = "none" /\ unread = 0
      /\ destroyed = FALSE /\ seen = FALSE /\ noticed = FALSE
  BY DEF Init, Dev!Init, Dev!NoFd, Dev!LINE
<1>3. << >> \in Seq(Requests) /\ Len(<< >>) = 0 /\ Live(<< >>, 0, 1) = {}
  <2>1. << >> \in Seq(Requests) /\ Len(<< >>) = 0
    BY EmptySeq
  <2> QED
    BY <2>1 DEF Live
<1>4. QueueInv
  <2>1. Live(asked_interrupts, num_postponed, scan) = {}
    BY <1>1, <1>3
  <2>2. Distinct(asked_interrupts, num_postponed, scan) /\ ~Awaited(TimerRequest)
    BY <2>1 DEF Distinct, Awaited, WaitsIn
  <2>3. Len(asked_interrupts) = 0 /\ asked_interrupts \in Seq(Requests)
    BY <1>1, <1>3
  <2>4. /\ scan \in Nat /\ num_postponed \in Nat
        /\ num_postponed < scan /\ scan <= Len(asked_interrupts) + 1
    BY <1>1, <2>3
  <2>5. is_waiting \in BOOLEAN
    BY <1>1
  <2>6. phase # "dispatch" => scan = 1 /\ num_postponed = 0
    BY <1>1
  <2> QED
    BY <2>2, <2>3, <2>4, <2>5, <2>6 DEF QueueInv
<1>5. ProgramInv
  <2>1. pc \in Main /\ pc \notin Handling
    BY <1>1 DEF Main, Handling, MAIN, PRINTER, INT_MODEM, FINI
  <2>2. interrupt_vector = [t \in {INTR_TIMER1, INTR_MODEM, INTR_EXCEPTION} |->
                             IF t = INTR_MODEM /\ pc # MAIN THEN INT_MODEM ELSE 0]
    BY <1>1
  <2> QED
    BY <1>1, <1>2, <2>1, <2>2 DEF ProgramInv
<1>6. BUF_SIZE \in Nat /\ PORT \in Nat /\ DATA_LEN \in Nat
  BY ReceiverAssumption
<1>7. ModemInv
  BY <1>1, <1>2, <1>3, <1>6 DEF ModemInv, MAIN, CONNECT, INT_MODEM, RECV, Awaited, WaitsIn
<1>8. AskInv
  BY <1>1, <1>2, <1>3 DEF AskInv, Receiving, MAIN, INT_MODEM, RECV, Awaited, WaitsIn
<1> QED
  BY <1>4, <1>5, <1>7, <1>8 DEF Inv

-----------------------------------------------------------------------------
(* The queue, in the steps outside the pass.                                *)

SameQueue == UNCHANGED <<asked_interrupts, scan, num_postponed>>

LEMMA QueueSame ==
    ASSUME QueueInv, SameQueue, UNCHANGED is_waiting, phase # "dispatch" \/ phase' = phase
    PROVE  QueueInv' /\ (Awaited(ModemRequest)' <=> Awaited(ModemRequest))
  BY DEF QueueInv, SameQueue, Awaited

\* The modem's request is queued.
LEMMA QueueAsks ==
    ASSUME QueueInv, phase # "dispatch", UNCHANGED <<scan, num_postponed, is_waiting>>,
           asked_interrupts' = Append(asked_interrupts, ModemRequest), ~Awaited(ModemRequest)
    PROVE  QueueInv' /\ Awaited(ModemRequest)'
<1>1. asked_interrupts \in Seq(Requests) /\ scan = 1 /\ num_postponed = 0
      /\ Distinct(asked_interrupts, 0, 1) /\ is_waiting \in BOOLEAN
      /\ (WaitsIn(asked_interrupts, 0, 1, TimerRequest) => is_waiting)
      /\ ~WaitsIn(asked_interrupts, 0, 1, ModemRequest)
  BY DEF QueueInv, Awaited
<1>2. ModemRequest \in Requests
  BY DEF Requests
<1>3. /\ asked_interrupts' \in Seq(Requests)
      /\ \A x : WaitsIn(asked_interrupts', 0, 1, x)
                  <=> WaitsIn(asked_interrupts, 0, 1, x) \/ x = ModemRequest
      /\ Distinct(asked_interrupts', 0, 1)
  BY <1>1, <1>2, AppendWaits
<1>4. scan' = 1 /\ num_postponed' = 0 /\ is_waiting' = is_waiting
  BY <1>1
<1>5. Len(asked_interrupts') \in Nat
  BY <1>3
<1>6. WaitsIn(asked_interrupts', 0, 1, TimerRequest) => is_waiting'
  BY <1>1, <1>3, <1>4, RequestsDiffer
<1> QED
  BY <1>1, <1>3, <1>4, <1>5, <1>6 DEF QueueInv, Awaited

\* The timer's is, and the timer waits for it.
LEMMA QueueTimer ==
    ASSUME QueueInv, phase # "dispatch", UNCHANGED <<scan, num_postponed>>,
           ~is_waiting, is_waiting' = TRUE,
           asked_interrupts' \in {asked_interrupts, Append(asked_interrupts, TimerRequest)}
    PROVE  QueueInv' /\ (Awaited(ModemRequest)' <=> Awaited(ModemRequest))
<1>1. asked_interrupts \in Seq(Requests) /\ scan = 1 /\ num_postponed = 0
      /\ Distinct(asked_interrupts, 0, 1)
      /\ ~WaitsIn(asked_interrupts, 0, 1, TimerRequest)
  BY DEF QueueInv, Awaited
<1>2. TimerRequest \in Requests
  BY DEF Requests
<1>3. /\ asked_interrupts' \in Seq(Requests)
      /\ WaitsIn(asked_interrupts', 0, 1, ModemRequest)
                  <=> WaitsIn(asked_interrupts, 0, 1, ModemRequest)
      /\ Distinct(asked_interrupts', 0, 1)
  <2>1. CASE asked_interrupts' = asked_interrupts
    BY <1>1, <2>1
  <2>2. CASE asked_interrupts' = Append(asked_interrupts, TimerRequest)
    BY <1>1, <1>2, <2>2, AppendWaits, RequestsDiffer
  <2> QED
    BY <2>1, <2>2
<1>4. scan' = 1 /\ num_postponed' = 0
  BY <1>1
<1>5. Len(asked_interrupts') \in Nat
  BY <1>3
<1> QED
  BY <1>1, <1>3, <1>4, <1>5 DEF QueueInv, Awaited

-----------------------------------------------------------------------------
(* The operators of modem.c on a modem given by its fields.                 *)

Registers(f, s, e, b, a, o, p, u, n) ==
    [fd |-> f, status |-> s, error |-> e, arg_b |-> b, asked |-> a,
     open_fds |-> o, peer |-> p, unread |-> u, sent |-> n]

\* Truth values that are handed on as values.
No == FALSE
Rung(a) == a \/ ~interrupts_disabled

LEMMA NowFields ==
    /\ Silent = Registers(fd, status, error, arg_b, No, open_fds, peer, unread, sent)
    /\ Dev!Now = Registers(fd, status, error, arg_b, ModemAsked, open_fds, peer, unread, sent)
<1>1. Dev!Now = Registers(fd, status, error, arg_b, ModemAsked, open_fds, peer, unread, sent)
  BY DEF Dev!Now, Registers
<1>2. ASSUME NEW a, NEW x
      PROVE  [Registers(fd, status, error, arg_b, a, open_fds, peer, unread, sent)
                EXCEPT !.asked = x]
               = Registers(fd, status, error, arg_b, x, open_fds, peer, unread, sent)
  BY DEF Registers
<1> DEFINE a == ModemAsked
<1> HIDE DEF a
<1>3. Dev!Now = Registers(fd, status, error, arg_b, a, open_fds, peer, unread, sent)
  BY <1>1 DEF a
<1>4. [Dev!Now EXCEPT !.asked = No]
        = Registers(fd, status, error, arg_b, No, open_fds, peer, unread, sent)
  BY <1>2, <1>3
<1>5. Silent = [Dev!Now EXCEPT !.asked = No]
  BY Zenon DEF Silent, No
<1> QED
  BY <1>1, <1>4, <1>5

LEMMA ClosedFields ==
    ASSUME NEW f, NEW s, NEW e, NEW b, NEW a, NEW o, NEW p, NEW u, NEW n
    PROVE  Dev!Closed(Registers(f, s, e, b, a, o, p, u, n))
             = Registers(-1, s, e, b, a, o \ {f}, "none", 0, 0)
<1> DEFINE m == Registers(f, s, e, b, a, o, p, u, n)
           m1 == [m EXCEPT !.open_fds = o \ {f}]
           m2 == [m1 EXCEPT !.fd = -1]
           m3 == [m2 EXCEPT !.peer = "none"]
           m4 == [m3 EXCEPT !.unread = 0]
           m5 == [m4 EXCEPT !.sent = 0]
<1>1. m.open_fds = o /\ m.fd = f
  BY DEF Registers
<1>2. Dev!Closed(m) = m5
  BY <1>1 DEF Dev!Closed, Dev!NoFd
<1> HIDE DEF m1, m2, m3, m4, m5
<1>3. m1 = Registers(f, s, e, b, a, o \ {f}, p, u, n)
  BY DEF m1, Registers
<1>4. m2 = Registers(-1, s, e, b, a, o \ {f}, p, u, n)
  BY <1>3 DEF m2, Registers
<1>5. m3 = Registers(-1, s, e, b, a, o \ {f}, "none", u, n)
  BY <1>4 DEF m3, Registers
<1>6. m4 = Registers(-1, s, e, b, a, o \ {f}, "none", 0, n)
  BY <1>5 DEF m4, Registers
<1>7. m5 = Registers(-1, s, e, b, a, o \ {f}, "none", 0, 0)
  BY <1>6 DEF m5, Registers
<1> QED
  BY <1>2, <1>7

LEMMA BrokenFields ==
    ASSUME NEW f, NEW s, NEW e, NEW b, NEW a, NEW o, NEW p, NEW u, NEW n, NEW x
    PROVE  Dev!Broken(Registers(f, s, e, b, a, o, p, u, n), x)
             = Registers(-1, {"FAIL", "LINE"}, x, b, a, o \ {f}, "none", 0, 0)
<1> DEFINE m == Registers(f, s, e, b, a, o, p, u, n)
           m1 == [Dev!Closed(m) EXCEPT !.status = {"FAIL", "LINE"}]
           m2 == [m1 EXCEPT !.error = x]
<1>1. Dev!Broken(m, x) = m2
  BY DEF Dev!Broken, Dev!FAIL, Dev!LINE
<1>2. Dev!Closed(m) = Registers(-1, s, e, b, a, o \ {f}, "none", 0, 0)
  BY ClosedFields
<1> HIDE DEF m1, m2
<1>3. m1 = Registers(-1, {"FAIL", "LINE"}, e, b, a, o \ {f}, "none", 0, 0)
  BY <1>2 DEF m1, Registers
<1>4. m2 = Registers(-1, {"FAIL", "LINE"}, x, b, a, o \ {f}, "none", 0, 0)
  BY <1>3 DEF m2, Registers
<1> QED
  BY <1>1, <1>4

LEMMA FailedFields ==
    ASSUME NEW f, NEW s, NEW e, NEW b, NEW a, NEW o, NEW p, NEW u, NEW n, NEW x
    PROVE  Dev!Failed(Registers(f, s, e, b, a, o, p, u, n), x)
             = Registers(f, s \cup {"FAIL"}, x, b, a, o, p, u, n)
<1> DEFINE m == Registers(f, s, e, b, a, o, p, u, n)
           m1 == [m EXCEPT !.status = s \cup {"FAIL"}]
           m2 == [m1 EXCEPT !.error = x]
<1>1. m.status = s
  BY DEF Registers
<1>2. Dev!Failed(m, x) = m2
  BY <1>1 DEF Dev!Failed, Dev!FAIL
<1> HIDE DEF m1, m2
<1>3. m1 = Registers(f, s \cup {"FAIL"}, e, b, a, o, p, u, n)
  BY DEF m1, Registers
<1>4. m2 = Registers(f, s \cup {"FAIL"}, x, b, a, o, p, u, n)
  BY <1>3 DEF m2, Registers
<1> QED
  BY <1>2, <1>4

LEMMA FlagFields ==
    ASSUME NEW f, NEW s, NEW e, NEW b, NEW a, NEW o, NEW p, NEW u, NEW n
    PROVE  /\ Dev!Quiet(Registers(f, s, e, b, a, o, p, u, n))
                = Registers(f, s \ {"INCM"}, e, b, a, o, p, u, n)
           /\ Dev!Cleared(Registers(f, s, e, b, a, o, p, u, n))
                = Registers(f, s \ {"INCM"}, e, b, a, o, p, u, n)
           /\ Dev!Unsent(Registers(f, s, e, b, a, o, p, u, n))
                = Registers(f, s, e, 0, a, o, p, u, n)
  BY DEF Dev!Quiet, Dev!Cleared, Dev!Unsent, Dev!INCM, Registers

LEMMA AnnouncedFields ==
    ASSUME NEW f, NEW s, NEW e, NEW b, NEW a, NEW o, NEW p, NEW u, NEW n
    PROVE  Dev!Announced(Registers(f, s, e, b, a, o, p, u, n)) =
              IF "INCM" \in s THEN Registers(f, s, e, b, a, o, p, u, n)
              ELSE Registers(f, s \cup {"INCM"}, e, b, Rung(a), o, p, u, n)
<1> DEFINE m == Registers(f, s, e, b, a, o, p, u, n)
<1>1. m.status = s
  BY DEF Registers
<1>2. CASE "INCM" \in s
  BY <1>1, <1>2 DEF Dev!Announced, Dev!INCM
<1>3. CASE "INCM" \notin s
  <2> DEFINE m1 == [m EXCEPT !.status = s \cup {"INCM"}]
  <2>1. Dev!Announced(m) = Dev!Triggered(m1)
    BY <1>1, <1>3 DEF Dev!Announced, Dev!INCM
  <2>2. m1 = Registers(f, s \cup {"INCM"}, e, b, a, o, p, u, n)
    BY DEF Registers
  <2> HIDE DEF m1
  <2>3. m1.asked = a
    BY <2>2 DEF Registers
  <2>4. Dev!Triggered(m1) = [m1 EXCEPT !.asked = Rung(a)]
    BY <2>3 DEF Dev!Triggered, Rung
  <2>5. [m1 EXCEPT !.asked = Rung(a)] = Registers(f, s \cup {"INCM"}, e, b, Rung(a), o, p, u, n)
    BY <2>2 DEF Registers
  <2> QED
    BY <1>3, <2>1, <2>4, <2>5
<1> QED
  BY <1>2, <1>3

\* vm_modem_update, case by case.
UpdatedTo(f, s, e, b, a, o, p, u, n) ==
    IF f = -1 THEN {Registers(f, s, e, b, a, o, p, u, n)}
    ELSE IF u > 0 THEN {Dev!Announced(Registers(f, s, e, b, a, o, p, u, n))}
    ELSE IF p = "open" THEN {Registers(f, s, e, b, a, o, p, u, n)}
    ELSE IF p = "reset"
         THEN {Registers(-1, {"FAIL", "LINE"}, "CONNRESET", b, a, o \ {f}, "none", 0, 0)}
    ELSE IF p = "failed"
         THEN {Registers(-1, {"FAIL", "LINE"}, "CONNFAIL", b, a, o \ {f}, "none", 0, 0)}
    ELSE {Registers(-1, {"FAIL", "LINE"} \cup {"INCM"}, "CONNRESET", b, Rung(a),
                    o \ {f}, "none", 0, 0),
          Registers(f, s \ {"INCM"}, e, b, a, o, "reset", u, n)}

LEMMA UpdatedCases ==
    ASSUME NEW f, NEW s, NEW e, NEW b, NEW a, NEW o, NEW p, NEW u \in Nat, NEW n,
           f # -1 => p \in {"open", "shut", "reset", "failed"}
    PROVE  Dev!Updated(Registers(f, s, e, b, a, o, p, u, n)) = UpdatedTo(f, s, e, b, a, o, p, u, n)
<1> DEFINE m == Registers(f, s, e, b, a, o, p, u, n)
<1>1. m.fd = f /\ m.unread = u /\ m.peer = p
  BY DEF Registers
<1>2. [Dev!Quiet(m) EXCEPT !.peer = "reset"]
        = Registers(f, s \ {"INCM"}, e, b, a, o, "reset", u, n)
  <2>1. Dev!Quiet(m) = Registers(f, s \ {"INCM"}, e, b, a, o, p, u, n)
    BY FlagFields
  <2> QED
    BY <2>1 DEF Registers
<1>3. /\ Dev!Broken(m, "CONNRESET") =
            Registers(-1, {"FAIL", "LINE"}, "CONNRESET", b, a, o \ {f}, "none", 0, 0)
      /\ Dev!Broken(m, "CONNFAIL") =
            Registers(-1, {"FAIL", "LINE"}, "CONNFAIL", b, a, o \ {f}, "none", 0, 0)
  BY BrokenFields
<1>4. Dev!Announced(Dev!Broken(m, "CONNRESET")) =
        Registers(-1, {"FAIL", "LINE"} \cup {"INCM"}, "CONNRESET", b, Rung(a), o \ {f}, "none", 0, 0)
  <2>1. "INCM" \notin {"FAIL", "LINE"}
    OBVIOUS
  <2> QED
    BY <1>3, <2>1, AnnouncedFields
<1> HIDE DEF m
<1>5. CASE f = -1
  BY <1>1, <1>5 DEF Dev!Updated, Dev!NoFd, UpdatedTo, m
<1>6. CASE f # -1 /\ u > 0
  BY <1>1, <1>6 DEF Dev!Updated, Dev!NoFd, UpdatedTo, m
<1>7. CASE f # -1 /\ u = 0 /\ p = "open"
  BY <1>1, <1>7 DEF Dev!Updated, Dev!NoFd, UpdatedTo, m
<1>8. CASE f # -1 /\ u = 0 /\ p = "reset"
  BY <1>1, <1>3, <1>8 DEF Dev!Updated, Dev!NoFd, UpdatedTo, m
<1>9. CASE f # -1 /\ u = 0 /\ p = "failed"
  BY <1>1, <1>3, <1>9 DEF Dev!Updated, Dev!NoFd, UpdatedTo, m
<1>10. CASE f # -1 /\ u = 0 /\ p = "shut"
  BY <1>1, <1>2, <1>4, <1>10 DEF Dev!Updated, Dev!NoFd, UpdatedTo, m
<1> QED
  BY <1>5, <1>6, <1>7, <1>8, <1>9, <1>10

-----------------------------------------------------------------------------
(* What an access leaves of the modem.                                      *)

Connected == {"open", "shut"}

\* m follows the present registers: it asks exactly when its flag rises and
\* interrupts are enabled, the flag rises for a reason only, and it goes down
\* only when there is nothing to read.
Follows(m) ==
    /\ m.asked \in BOOLEAN /\ m.fd \in {fd, -1} /\ m.unread \in Nat
    /\ m.fd = -1 => m.peer = "none" /\ m.unread = 0
    /\ m.fd # -1 => m.peer \in {"open", "shut", "reset", "failed"}
    /\ m.asked <=> ("INCM" \in m.status /\ "INCM" \notin status /\ ~interrupts_disabled)
    /\ "INCM" \in m.status /\ "INCM" \notin status => unread > 0 \/ peer = "shut"
    /\ "INCM" \in m.status /\ m.peer \in Connected => m.unread > 0
    /\ "INCM" \notin m.status /\ ("INCM" \in status \/ (unread = 0 /\ peer \notin Connected)) =>
          m.unread = 0 /\ m.peer \notin Connected

LEMMA UpdatedFollows ==
    ASSUME ModemInv, ProgramInv, AskInv, ~destroyed, NEW m \in Dev!Updated(Silent)
    PROVE  Follows(m) /\ m.arg_b = arg_b
<1>0. /\ fd = -1 => peer = "none" /\ unread = 0
      /\ fd # -1 => peer \in {"open", "shut", "reset", "failed"}
      /\ unread \in Nat /\ interrupts_disabled \in BOOLEAN
      /\ "INCM" \in status /\ peer \in {"open", "shut"} => unread > 0
  BY DEF ModemInv, ProgramInv, AskInv
<1> DEFINE now == Registers(fd, status, error, arg_b, No, open_fds, peer, unread, sent)
<1>1. m \in Dev!Updated(now)
  BY NowFields
<1>2. CASE m = now /\ (fd = -1 \/ (unread = 0 /\ peer = "open"))
  BY <1>0, <1>2 DEF Follows, Connected, Registers, No
<1>3. CASE m = Dev!Announced(now) /\ fd # -1 /\ unread > 0
  <2>1. CASE "INCM" \in status
    <3>1. m = now
      BY <1>3, <2>1, AnnouncedFields
    <3>2. /\ m.fd = fd /\ m.status = status /\ m.asked = FALSE
          /\ m.peer = peer /\ m.unread = unread /\ m.arg_b = arg_b
      BY <3>1 DEF Registers, No
    <3> QED
      BY <1>0, <1>3, <2>1, <3>2 DEF Follows, Connected
  <2>2. CASE "INCM" \notin status
    <3>1. m = Registers(fd, status \cup {"INCM"}, error, arg_b, Rung(No), open_fds, peer,
                        unread, sent)
      BY <1>3, <2>2, AnnouncedFields
    <3>2. /\ m.fd = fd /\ m.status = status \cup {"INCM"} /\ m.asked = ~interrupts_disabled
          /\ m.peer = peer /\ m.unread = unread /\ m.arg_b = arg_b
      BY <3>1 DEF Registers, Rung, No
    <3> QED
      BY <1>0, <1>3, <2>2, <3>2 DEF Follows, Connected
  <2> QED
    BY <2>1, <2>2
<1>4. CASE \E x : m = Registers(-1, {"FAIL", "LINE"}, x, arg_b, No, open_fds \ {fd}, "none", 0, 0)
  BY <1>0, <1>4 DEF Follows, Connected, Registers, No
<1>5. CASE m = Registers(-1, {"FAIL", "LINE"} \cup {"INCM"}, "CONNRESET", arg_b, Rung(No),
                         open_fds \ {fd}, "none", 0, 0)
           /\ fd # -1 /\ unread = 0 /\ peer = "shut"
  <2>1. /\ m.fd = -1 /\ m.status = {"FAIL", "LINE"} \cup {"INCM"}
        /\ m.asked = ~interrupts_disabled
        /\ m.peer = "none" /\ m.unread = 0 /\ m.arg_b = arg_b
    BY <1>5 DEF Registers, Rung, No
  <2>2. "INCM" \notin status
    BY <1>0, <1>5
  <2> QED
    BY <1>0, <1>5, <2>1, <2>2 DEF Follows, Connected
<1>6. CASE m = Registers(fd, status \ {"INCM"}, error, arg_b, No, open_fds, "reset",
                         unread, sent)
           /\ fd # -1 /\ unread = 0 /\ peer = "shut"
  BY <1>0, <1>6 DEF Follows, Connected, Registers, No
<1>7. \/ m = now /\ (fd = -1 \/ (unread = 0 /\ peer = "open"))
      \/ m = Dev!Announced(now) /\ fd # -1 /\ unread > 0
      \/ \E x : m = Registers(-1, {"FAIL", "LINE"}, x, arg_b, No, open_fds \ {fd}, "none", 0, 0)
      \/ /\ m = Registers(-1, {"FAIL", "LINE"} \cup {"INCM"}, "CONNRESET", arg_b, Rung(No),
                          open_fds \ {fd}, "none", 0, 0)
         /\ fd # -1 /\ unread = 0 /\ peer = "shut"
      \/ /\ m = Registers(fd, status \ {"INCM"}, error, arg_b, No, open_fds, "reset", unread, sent)
         /\ fd # -1 /\ unread = 0 /\ peer = "shut"
  <2>1. m \in UpdatedTo(fd, status, error, arg_b, No, open_fds, peer, unread, sent)
    BY <1>0, <1>1, UpdatedCases
  <2> QED
    BY <1>0, <2>1 DEF UpdatedTo
<1> QED
  BY <1>2, <1>3, <1>4, <1>5, <1>6, <1>7

-----------------------------------------------------------------------------
(* The commands, case by case, on the present modem with the request a.     *)

NowWith(a) == Registers(fd, status, error, arg_b, a, open_fds, peer, unread, sent)

\* The socket s is lost, with the error x.
Lost(x, b, a, o) == Registers(-1, {"FAIL", "LINE"}, x, b, a, o, "none", 0, 0)

SendTo(a) ==
    IF fd = -1 THEN {Lost("CONNFAIL", 0, a, open_fds \ {fd})}
    ELSE IF ~Dev!InBounds(arg_a, arg_b)
         THEN {Registers(fd, status \cup {"FAIL"}, "SEGFAULT", 0, a, open_fds, peer, unread, sent)}
    ELSE IF peer = "reset" THEN {Lost("CONNRESET", 0, a, open_fds \ {fd})}
    ELSE IF peer = "failed" THEN {Lost("CONNFAIL", 0, a, open_fds \ {fd})}
    ELSE {Registers(fd, status, error, k, a, open_fds, peer, unread, sent) : k \in 0 .. arg_b}
         \cup IF Dev!Wraps(arg_a, arg_b) THEN {Lost("CONNFAIL", 0, a, open_fds \ {fd})} ELSE {}

LEMMA SendCases ==
    ASSUME NEW a, fd # -1 => peer \in {"open", "shut", "reset", "failed"}
    PROVE  Dev!SendOutcomes(NowWith(a)) = SendTo(a)
<1> DEFINE m == NowWith(a)
<1>1. m.fd = fd /\ m.peer = peer
  BY DEF Registers, NowWith
<1>2. ASSUME NEW x PROVE Dev!Unsent(Dev!Broken(m, x)) = Lost(x, 0, a, open_fds \ {fd})
  <2>1. Dev!Broken(m, x) = Lost(x, arg_b, a, open_fds \ {fd})
    BY BrokenFields DEF NowWith, Lost
  <2> QED
    BY <2>1, FlagFields DEF Lost
<1>3. Dev!Unsent(Dev!Failed(m, "SEGFAULT"))
        = Registers(fd, status \cup {"FAIL"}, "SEGFAULT", 0, a, open_fds, peer, unread, sent)
  <2>1. Dev!Failed(m, "SEGFAULT")
          = Registers(fd, status \cup {"FAIL"}, "SEGFAULT", arg_b, a, open_fds, peer, unread, sent)
    BY FailedFields DEF NowWith
  <2>2. ASSUME NEW s, NEW e
        PROVE  Dev!Unsent(Registers(fd, s, e, arg_b, a, open_fds, peer, unread, sent))
                 = Registers(fd, s, e, 0, a, open_fds, peer, unread, sent)
    BY DEF Dev!Unsent, Registers
  <2> QED
    BY <2>1, <2>2
<1>4. ASSUME NEW k
      PROVE  [m EXCEPT !.arg_b = k]
               = Registers(fd, status, error, k, a, open_fds, peer, unread, sent)
  BY DEF Registers, NowWith
<1> HIDE DEF m
<1>5. CASE fd = -1
  BY <1>1, <1>2, <1>5 DEF Dev!SendOutcomes, Dev!NoFd, SendTo, m
<1>6. CASE fd # -1 /\ ~Dev!InBounds(arg_a, arg_b)
  BY <1>1, <1>3, <1>6 DEF Dev!SendOutcomes, Dev!NoFd, SendTo, m
<1>7. CASE fd # -1 /\ Dev!InBounds(arg_a, arg_b) /\ peer = "reset"
  BY <1>1, <1>2, <1>7 DEF Dev!SendOutcomes, Dev!NoFd, SendTo, m
<1>8. CASE fd # -1 /\ Dev!InBounds(arg_a, arg_b) /\ peer = "failed"
  BY <1>1, <1>2, <1>8 DEF Dev!SendOutcomes, Dev!NoFd, SendTo, m
<1>9. CASE fd # -1 /\ Dev!InBounds(arg_a, arg_b) /\ peer \in {"open", "shut"}
  <2> DEFINE ok == {[m EXCEPT !.arg_b = k] : k \in 0 .. arg_b}
             bad == IF Dev!Wraps(arg_a, arg_b) THEN {Dev!Unsent(Dev!Broken(m, "CONNFAIL"))} ELSE {}
  <2>1. Dev!SendOutcomes(m) = ok \cup bad
    BY <1>1, <1>9 DEF Dev!SendOutcomes, Dev!NoFd
  <2>2. ok = {Registers(fd, status, error, k, a, open_fds, peer, unread, sent) : k \in 0 .. arg_b}
    BY <1>4
  <2>3. bad = IF Dev!Wraps(arg_a, arg_b) THEN {Lost("CONNFAIL", 0, a, open_fds \ {fd})} ELSE {}
    BY <1>2
  <2> HIDE DEF ok, bad
  <2> QED
    BY <1>9, <2>1, <2>2, <2>3 DEF SendTo, m
<1> QED
  BY <1>5, <1>6, <1>7, <1>8, <1>9

\* Of connect with the socket f.
SocketTo(f, a) ==
    LET o == (open_fds \ {fd}) \cup {f}
    IN  {Lost("SEGFAULT", arg_b, a, o \ {f})}
        \cup IF ~Dev!Mapped(arg_a) THEN {} ELSE
             {Lost("BADADDR", arg_b, a, o \ {f}), Lost("CONNFAIL", arg_b, a, o \ {f}),
              Registers(f, {"LINE"} \cup {"CONN"}, "NONE", arg_b, a, o, "open", 0, 0)}
ConnectTo(a) ==
    {Lost("CONNFAIL", arg_b, a, (open_fds \ {fd}) \ {-1})}
    \cup UNION {SocketTo(f, a) : f \in Descriptors \ (open_fds \ {fd})}

LEMMA ConnectCases ==
    ASSUME NEW a
    PROVE  Dev!ConnectOutcomes(NowWith(a)) = ConnectTo(a)
<1> DEFINE m == NowWith(a)
           r == open_fds \ {fd}
<1>1. Dev!Fresh(m) = Registers(-1, {"LINE"}, "NONE", arg_b, a, r, "none", 0, 0)
  <2> DEFINE m1 == Dev!Closed(m)
             m2 == [m1 EXCEPT !.status = {"LINE"}]
             m3 == [m2 EXCEPT !.error = "NONE"]
  <2>1. m1 = Registers(-1, status, error, arg_b, a, r, "none", 0, 0)
    BY ClosedFields DEF NowWith
  <2>2. Dev!Fresh(m) = m3
    BY DEF Dev!Fresh, Dev!LINE
  <2> HIDE DEF m1, m2, m3
  <2>3. m2 = Registers(-1, {"LINE"}, error, arg_b, a, r, "none", 0, 0)
    BY <2>1 DEF m2, Registers
  <2>4. m3 = Registers(-1, {"LINE"}, "NONE", arg_b, a, r, "none", 0, 0)
    BY <2>3 DEF m3, Registers
  <2> QED
    BY <2>2, <2>4
<1> HIDE DEF m, r
<1>2. Dev!Fresh(m).open_fds = r
  BY <1>1 DEF Registers
<1>3. ASSUME NEW f
      PROVE  Dev!WithSocket(m, f)
               = Registers(f, {"LINE"}, "NONE", arg_b, a, r \cup {f}, "none", 0, 0)
  <2> DEFINE m1 == Dev!Fresh(m)
             m2 == [m1 EXCEPT !.fd = f]
             m3 == [m2 EXCEPT !.open_fds = r \cup {f}]
  <2>1. Dev!WithSocket(m, f) = m3
    BY <1>2 DEF Dev!WithSocket
  <2> HIDE DEF m1, m2, m3
  <2>2. m2 = Registers(f, {"LINE"}, "NONE", arg_b, a, r, "none", 0, 0)
    BY <1>1 DEF m1, m2, Registers
  <2>3. m3 = Registers(f, {"LINE"}, "NONE", arg_b, a, r \cup {f}, "none", 0, 0)
    BY <2>2 DEF m3, Registers
  <2> QED
    BY <2>1, <2>3
<1>4. ASSUME NEW f, NEW x
      PROVE  Dev!Broken(Dev!WithSocket(m, f), x) = Lost(x, arg_b, a, (r \cup {f}) \ {f})
  <2>1. ASSUME NEW s, NEW o
        PROVE  Dev!Broken(Registers(f, s, "NONE", arg_b, a, o, "none", 0, 0), x)
                 = Lost(x, arg_b, a, o \ {f})
    BY BrokenFields DEF Lost
  <2> QED
    BY <1>3, <2>1
<1>5. ASSUME NEW f
      PROVE  [Dev!WithSocket(m, f) EXCEPT !.status = @ \cup {Dev!CONN}, !.peer = "open"]
               = Registers(f, {"LINE"} \cup {"CONN"}, "NONE", arg_b, a, r \cup {f}, "open", 0, 0)
  <2> DEFINE m1 == Dev!WithSocket(m, f)
             m2 == [m1 EXCEPT !.status = {"LINE"} \cup {"CONN"}]
             m3 == [m2 EXCEPT !.peer = "open"]
  <2>0. m1 = Registers(f, {"LINE"}, "NONE", arg_b, a, r \cup {f}, "none", 0, 0)
    BY <1>3
  <2>1. m1.status = {"LINE"}
    BY <2>0 DEF Registers
  <2>2. [m1 EXCEPT !.status = @ \cup {Dev!CONN}, !.peer = "open"] = m3
    BY <2>1 DEF Dev!CONN
  <2> HIDE DEF m1, m2, m3
  <2>3. m2 = Registers(f, {"LINE"} \cup {"CONN"}, "NONE", arg_b, a, r \cup {f}, "none", 0, 0)
    BY <2>0 DEF m2, Registers
  <2>4. m3 = Registers(f, {"LINE"} \cup {"CONN"}, "NONE", arg_b, a, r \cup {f}, "open", 0, 0)
    BY <2>3 DEF m3, Registers
  <2> QED
    BY <2>2, <2>4 DEF m1
<1>6. ASSUME NEW f PROVE Dev!ConnectWith(m, f) = SocketTo(f, a)
  <2> DEFINE good == [Dev!WithSocket(m, f) EXCEPT !.status = @ \cup {Dev!CONN}, !.peer = "open"]
  <2>1. good = Registers(f, {"LINE"} \cup {"CONN"}, "NONE", arg_b, a, r \cup {f}, "open", 0, 0)
    BY <1>5
  <2>2. Dev!ConnectWith(m, f) =
          {Dev!Broken(Dev!WithSocket(m, f), "SEGFAULT")}
          \cup IF ~Dev!Mapped(arg_a) THEN {} ELSE
             {Dev!Broken(Dev!WithSocket(m, f), "BADADDR"),
              Dev!Broken(Dev!WithSocket(m, f), "CONNFAIL"), good}
    BY DEF Dev!ConnectWith
  <2> HIDE DEF good
  <2> QED
    BY <1>4, <2>1, <2>2 DEF SocketTo, r
<1>7. Dev!Broken(Dev!Fresh(m), "CONNFAIL") = Lost("CONNFAIL", arg_b, a, r \ {-1})
  BY <1>1, BrokenFields DEF Lost
<1>8. Dev!ConnectOutcomes(m) =
        {Dev!Broken(Dev!Fresh(m), "CONNFAIL")}
        \cup UNION {Dev!ConnectWith(m, f) : f \in Descriptors \ r}
  BY <1>2 DEF Dev!ConnectOutcomes
<1> QED
  BY <1>6, <1>7, <1>8 DEF ConnectTo, m, r

\* RECV takes k of the u bytes there are, or finds the connection lost.
TakenTo(f, s, e, a, o, p, u, n) ==
    {Lost("CONNFAIL", 0, a, o \ {f})}
    \cup {Registers(f, s \ {"INCM"}, e, k, a, o, p, u - k, n) :
            k \in {j \in 0 .. u : f # -1 /\ j <= arg_b /\ (arg_b > 0 => j > 0)}}

LEMMA TakenCases ==
    ASSUME NEW f, NEW s, NEW e, NEW b, NEW a, NEW o, NEW p, NEW u, NEW n
    PROVE  Dev!Taken(Registers(f, s, e, b, a, o, p, u, n)) = TakenTo(f, s, e, a, o, p, u, n)
<1> DEFINE m == Registers(f, s, e, b, a, o, p, u, n)
           c == Registers(f, s \ {"INCM"}, e, b, a, o, p, u, n)
<1>1. Dev!Cleared(m) = c
  BY FlagFields
<1>2. m.fd = f /\ m.unread = u /\ c.unread = u
  BY DEF Registers
<1>3. Dev!Unsent(Dev!Broken(c, "CONNFAIL")) = Lost("CONNFAIL", 0, a, o \ {f})
  <2>1. ASSUME NEW z
        PROVE  Dev!Broken(Registers(f, z, e, b, a, o, p, u, n), "CONNFAIL")
                 = Lost("CONNFAIL", b, a, o \ {f})
    BY BrokenFields DEF Lost
  <2>2. Dev!Broken(c, "CONNFAIL") = Lost("CONNFAIL", b, a, o \ {f})
    BY <2>1
  <2> QED
    BY SMTT(30), <2>2 DEF Dev!Unsent, Lost, Registers
<1>4. ASSUME NEW k
      PROVE  [c EXCEPT !.unread = u - k, !.arg_b = k]
               = Registers(f, s \ {"INCM"}, e, k, a, o, p, u - k, n)
  <2>1. ASSUME NEW z, NEW v
        PROVE  [Registers(f, z, e, b, a, o, p, u, n) EXCEPT !.unread = v]
                 = Registers(f, z, e, b, a, o, p, v, n)
    BY DEF Registers
  <2>2. ASSUME NEW z, NEW v
        PROVE  [Registers(f, z, e, b, a, o, p, v, n) EXCEPT !.arg_b = k]
                 = Registers(f, z, e, k, a, o, p, v, n)
    BY DEF Registers
  <2> QED
    BY <2>1, <2>2
<1>5. Dev!Taken(m) =
        {Dev!Unsent(Dev!Broken(c, "CONNFAIL"))}
        \cup {[c EXCEPT !.unread = u - k, !.arg_b = k] :
                k \in {j \in 0 .. u : f # -1 /\ j <= arg_b /\ (arg_b > 0 => j > 0)}}
  BY <1>1, <1>2 DEF Dev!Taken, Dev!NoFd
<1> HIDE DEF m, c
<1> QED
  BY <1>3, <1>4, <1>5 DEF TakenTo, m

\* RECV in the handler: what the flag says is true, and nothing new is announced
\* in vm_modem_update.
ReceiveTo(a) ==
    IF fd = -1 THEN {Lost("CONNFAIL", 0, a, open_fds \ {fd})}
    ELSE IF unread > 0 THEN TakenTo(fd, status, error, a, open_fds, peer, unread, sent)
    ELSE IF peer = "reset" THEN {Lost("CONNRESET", 0, a, open_fds \ {fd})}
    ELSE {Lost("CONNFAIL", 0, a, open_fds \ {fd})}

LEMMA ReceiveCases ==
    ASSUME NEW a, Dev!InBounds(arg_a, arg_b), unread \in Nat,
           fd # -1 => peer \in {"open", "shut", "reset", "failed"},
           "INCM" \in status /\ peer \in {"open", "shut"} => unread > 0,
           "INCM" \notin status => unread = 0 /\ peer \notin {"open", "shut"}
    PROVE  Dev!ReceiveOutcomes(NowWith(a)) = ReceiveTo(a)
<1> DEFINE now == NowWith(a)
<1>1. now.fd = fd /\ now.status = status
  BY DEF NowWith, Registers
<1>2. ASSUME NEW x, NEW o PROVE Dev!Unsent(Lost(x, arg_b, a, o)) = Lost(x, 0, a, o)
  BY DEF Dev!Unsent, Lost, Registers
<1>3. CASE fd = -1
  <2>1. Dev!ReceiveOutcomes(now) = {Dev!Unsent(Dev!Broken(now, "CONNFAIL"))}
    BY <1>1, <1>3 DEF Dev!ReceiveOutcomes, Dev!NoFd
  <2>2. Dev!Broken(now, "CONNFAIL") = Lost("CONNFAIL", arg_b, a, open_fds \ {fd})
    BY BrokenFields DEF NowWith, Lost
  <2> QED
    BY <1>2, <1>3, <2>1, <2>2 DEF ReceiveTo
<1>4. CASE fd # -1
  <2>1. Dev!ReceiveOutcomes(now) =
          UNION {IF "INCM" \in u.status THEN Dev!Taken(u) ELSE {Dev!Unsent(u)} :
                    u \in Dev!Updated(now)}
    BY <1>1, <1>4 DEF Dev!ReceiveOutcomes, Dev!NoFd, Dev!INCM
  <2>2. Dev!Updated(now) = UpdatedTo(fd, status, error, arg_b, a, open_fds, peer, unread, sent)
    BY UpdatedCases DEF NowWith
  <2>3. CASE unread > 0
    <3>1. Dev!Announced(now) = now
      BY <2>3, AnnouncedFields DEF NowWith
    <3>2. Dev!Updated(now) = {now}
      BY <1>4, <2>2, <2>3, <3>1 DEF UpdatedTo, NowWith
    <3>3. Dev!ReceiveOutcomes(now) = Dev!Taken(now)
      BY <1>1, <2>1, <2>3, <3>2
    <3> QED
      BY <1>4, <2>3, <3>3, TakenCases DEF NowWith, ReceiveTo
  <2>4. CASE unread = 0
    <3>1. PICK x \in {"CONNRESET", "CONNFAIL"} :
            /\ Dev!Updated(now) = {Lost(x, arg_b, a, open_fds \ {fd})}
            /\ x = IF peer = "reset" THEN "CONNRESET" ELSE "CONNFAIL"
      <4>1. peer \in {"reset", "failed"}
        BY <1>4, <2>4
      <4>2. CASE peer = "reset"
        BY <1>4, <2>2, <2>4, <4>2 DEF UpdatedTo, Lost
      <4>3. CASE peer = "failed"
        BY <1>4, <2>2, <2>4, <4>3 DEF UpdatedTo, Lost
      <4> QED
        BY <4>1, <4>2, <4>3
    <3> DEFINE u == Lost(x, arg_b, a, open_fds \ {fd})
    <3>2. u.status = {"FAIL", "LINE"}
      BY DEF Lost, Registers
    <3> HIDE DEF u
    <3>3. Dev!ReceiveOutcomes(now) = {Dev!Unsent(u)}
      BY <2>1, <3>1, <3>2 DEF u
    <3>4. Dev!Unsent(u) = Lost(x, 0, a, open_fds \ {fd})
      BY <1>2 DEF u
    <3> QED
      BY <1>4, <2>4, <3>1, <3>3, <3>4 DEF ReceiveTo
  <2> QED
    BY <2>3, <2>4
<1> QED
  BY <1>3, <1>4

LEMMA LostFollows ==
    ASSUME NEW x, NEW b, NEW o, NEW m, m = Lost(x, b, No, o), ProgramInv
    PROVE  Follows(m) /\ m.arg_b = b /\ m.fd = -1 /\ ~m.asked /\ "INCM" \notin m.status
<1>1. /\ m.fd = -1 /\ m.status = {"FAIL", "LINE"} /\ m.arg_b = b /\ m.asked = FALSE
      /\ m.peer = "none" /\ m.unread = 0
  BY DEF Lost, Registers, No
<1>2. "INCM" \notin m.status
  BY <1>1
<1>3. m.unread \in Nat /\ m.peer \notin {"open", "shut"}
  BY <1>1
<1>4. m.asked = FALSE
  BY <1>1
<1> QED
  BY <1>1, <1>2, <1>3, <1>4 DEF Follows, Connected

LEMMA SendFollows ==
    ASSUME ModemInv, ProgramInv, AskInv, ~destroyed, NEW m \in Dev!SendOutcomes(Silent)
    PROVE  Follows(m) /\ m.arg_b \in 0 .. arg_b
<1>0. /\ fd = -1 => peer = "none" /\ unread = 0
      /\ fd # -1 => peer \in {"open", "shut", "reset", "failed"}
      /\ unread \in Nat /\ interrupts_disabled \in BOOLEAN /\ arg_b \in Nat
      /\ "INCM" \in status /\ peer \in {"open", "shut"} => unread > 0
  <2>1. BUF_SIZE + PORT + DATA_LEN \in Nat
    BY ReceiverAssumption
  <2> QED
    BY <2>1 DEF ModemInv, ProgramInv, AskInv
<1>1. m \in SendTo(No)
  BY <1>0, NowFields, SendCases DEF NowWith
<1>2. CASE \E x : m = Lost(x, 0, No, open_fds \ {fd})
  BY <1>0, <1>2, LostFollows
<1>3. CASE /\ fd # -1
           /\ m = Registers(fd, status \cup {"FAIL"}, "SEGFAULT", 0, No, open_fds, peer, unread, sent)
  <2>1. /\ m.fd = fd /\ m.status = status \cup {"FAIL"} /\ m.asked = FALSE
        /\ m.peer = peer /\ m.unread = unread /\ m.arg_b = 0
    BY <1>3 DEF Registers, No
  <2>2. "INCM" \in m.status <=> "INCM" \in status
    BY <2>1
  <2>3. m.arg_b \in 0 .. arg_b
    BY <1>0, <2>1
  <2>4. fd # -1
    BY <1>3
  <2>5. Follows(m)
    BY <1>0, <2>1, <2>2, <2>4 DEF Follows, Connected
  <2> QED
    BY <2>3, <2>5
<1>4. CASE /\ fd # -1
           /\ \E k \in 0 .. arg_b :
                 m = Registers(fd, status, error, k, No, open_fds, peer, unread, sent)
  <2>1. /\ m.fd = fd /\ m.status = status /\ m.asked = FALSE
        /\ m.peer = peer /\ m.unread = unread /\ m.arg_b \in 0 .. arg_b
    BY <1>4 DEF Registers, No
  <2> QED
    BY <1>0, <1>4, <2>1 DEF Follows, Connected
<1> QED
  BY <1>1, <1>2, <1>3, <1>4 DEF SendTo

\* The connection begins with nothing announced.
Begins(m) ==
    /\ ~m.asked /\ m.fd \in Descriptors \cup {-1} /\ "INCM" \notin m.status
    /\ m.unread = 0 /\ m.arg_b = arg_b
    /\ m.peer = IF m.fd = -1 THEN "none" ELSE "open"

LEMMA ConnectFollows ==
    ASSUME NEW m \in Dev!ConnectOutcomes(Silent), ProgramInv
    PROVE  Begins(m)
<1>1. m \in ConnectTo(No)
  BY NowFields, ConnectCases DEF NowWith
<1>2. CASE \E x, o : m = Lost(x, arg_b, No, o)
  <2>1. PICK x, o : m = Lost(x, arg_b, No, o)
    BY <1>2
  <2>2. /\ m.fd = -1 /\ m.status = {"FAIL", "LINE"} /\ m.arg_b = arg_b /\ m.asked = FALSE
        /\ m.peer = "none" /\ m.unread = 0
    BY <2>1 DEF Lost, Registers, No
  <2> QED
    BY <2>2 DEF Begins
<1>3. ASSUME NEW f \in Descriptors, NEW o,
             m = Registers(f, {"LINE"} \cup {"CONN"}, "NONE", arg_b, No, o, "open", 0, 0)
      PROVE  Begins(m)
  <2>1. f # -1
    BY ReceiverAssumption
  <2>2. /\ m.fd = f /\ m.status = {"LINE"} \cup {"CONN"} /\ m.arg_b = arg_b /\ m.asked = FALSE
        /\ m.peer = "open" /\ m.unread = 0
    BY <1>3 DEF Registers, No
  <2> QED
    BY <2>1, <2>2 DEF Begins
<1>4. ASSUME NEW f \in Descriptors, m \in SocketTo(f, No)
      PROVE  Begins(m)
  <2> DEFINE o == (open_fds \ {fd}) \cup {f}
  <2>1. \/ \E x : m = Lost(x, arg_b, No, o \ {f})
        \/ m = Registers(f, {"LINE"} \cup {"CONN"}, "NONE", arg_b, No, o, "open", 0, 0)
    BY <1>4 DEF SocketTo
  <2> HIDE DEF o
  <2> QED
    BY <1>2, <1>3, <2>1
<1> QED
  BY <1>1, <1>2, <1>4 DEF ConnectTo

\* The handler receives: whatever it finds, nothing is announced afterwards.
Receives(m) ==
    /\ ~m.asked /\ m.fd \in {fd, -1} /\ "INCM" \notin m.status
    /\ m.unread \in Nat /\ m.arg_b \in 0 .. arg_b
    /\ m.fd = -1 => m.peer = "none" /\ m.unread = 0
    /\ m.fd # -1 => m.peer \in {"open", "shut", "reset", "failed"}

\* The buffer of the handler passes the test of RECV, and does so without a wrap.
LEMMA BufferInBounds == Dev!InBounds(BUF_BEGIN, BUF_SIZE)
<1>1. /\ Dev!Pointer(BUF_BEGIN) = RAM_AT + (BUF_BEGIN - SYSMEM_END)
      /\ Dev!EndPointer(BUF_BEGIN) = RAM_AT + (RAM_END - SYSMEM_END)
      /\ Dev!Mapped(BUF_BEGIN)
  BY ReceiverAssumption DEF Dev!Pointer, Dev!EndPointer, Dev!Mapped
<1>2. /\ Dev!Pointer(BUF_BEGIN) + BUF_SIZE \in Nat
      /\ Dev!Pointer(BUF_BEGIN) + BUF_SIZE < Dev!EndPointer(BUF_BEGIN)
      /\ Dev!EndPointer(BUF_BEGIN) < POINTERS
  BY <1>1, ReceiverAssumption
<1>3. \A x, y \in Nat : x < y => x % y = x
  OBVIOUS
<1>4. (Dev!Pointer(BUF_BEGIN) + BUF_SIZE) % POINTERS = Dev!Pointer(BUF_BEGIN) + BUF_SIZE
  BY <1>1, <1>2, <1>3, ReceiverAssumption
<1> QED
  BY <1>1, <1>2, <1>4 DEF Dev!InBounds

\* The command is given with the handler's arguments, for what is announced.
LEMMA ReceiveReady ==
    ASSUME ModemInv, ProgramInv, AskInv, ~destroyed, pc = RECV
    PROVE  /\ Dev!InBounds(arg_a, arg_b) /\ arg_b \in Nat /\ unread \in Nat
           /\ fd = -1 => peer = "none" /\ unread = 0
           /\ fd # -1 => peer \in {"open", "shut", "reset", "failed"}
           /\ "INCM" \in status /\ peer \in {"open", "shut"} => unread > 0
           /\ "INCM" \notin status => unread = 0 /\ peer \notin {"open", "shut"}
<1>1. /\ fd = -1 => peer = "none" /\ unread = 0
      /\ fd # -1 => peer \in {"open", "shut", "reset", "failed"}
      /\ unread \in Nat
      /\ "INCM" \in status /\ peer \in {"open", "shut"} => unread > 0
      /\ arg_a = BUF_BEGIN /\ arg_b = BUF_SIZE
      /\ "INCM" \notin status => unread = 0 /\ peer \notin {"open", "shut"}
  BY DEF ModemInv, ProgramInv, AskInv, Receiving, RECV, INT_MODEM
<1>2. Dev!InBounds(arg_a, arg_b)
  BY <1>1, BufferInBounds
<1>3. arg_b \in Nat
  BY <1>1, ReceiverAssumption
<1> QED
  BY <1>1, <1>2, <1>3

LEMMA ReceiveFollows ==
    ASSUME ModemInv, ProgramInv, AskInv, ~destroyed, pc = RECV,
           NEW m \in Dev!ReceiveOutcomes(Silent)
    PROVE  Receives(m)
<1>0. /\ Dev!InBounds(arg_a, arg_b) /\ arg_b \in Nat /\ unread \in Nat
      /\ fd = -1 => peer = "none" /\ unread = 0
      /\ fd # -1 => peer \in {"open", "shut", "reset", "failed"}
      /\ "INCM" \in status /\ peer \in {"open", "shut"} => unread > 0
      /\ "INCM" \notin status => unread = 0 /\ peer \notin {"open", "shut"}
  BY ReceiveReady
<1>1. m \in ReceiveTo(No)
  BY <1>0, NowFields, ReceiveCases DEF NowWith
<1>2. CASE \E x, o : m = Lost(x, 0, No, o)
  <2>1. PICK x, o : m = Lost(x, 0, No, o)
    BY <1>2
  <2>2. /\ m.fd = -1 /\ m.status = {"FAIL", "LINE"} /\ m.arg_b = 0 /\ m.asked = FALSE
        /\ m.peer = "none" /\ m.unread = 0
    BY <2>1 DEF Lost, Registers, No
  <2> QED
    BY <1>0, <2>2 DEF Receives
<1>3. ASSUME NEW k \in 0 .. unread, k <= arg_b, fd # -1,
             m = Registers(fd, status \ {"INCM"}, error, k, No, open_fds, peer, unread - k, sent)
      PROVE  Receives(m)
  <2>1. /\ m.fd = fd /\ m.status = status \ {"INCM"} /\ m.arg_b = k /\ m.asked = FALSE
        /\ m.peer = peer /\ m.unread = unread - k
    BY <1>3 DEF Registers, No
  <2>2. "INCM" \notin m.status
    BY <2>1
  <2>3. m.unread \in Nat /\ m.arg_b \in 0 .. arg_b
    BY <1>0, <1>3, <2>1
  <2> QED
    BY <1>0, <1>3, <2>1, <2>2, <2>3 DEF Receives
<1> QED
  BY <1>1, <1>2, <1>3 DEF ReceiveTo, TakenTo

-----------------------------------------------------------------------------
(* The parts of the invariant, for a step that ...                          *)

\* ... leaves the places where the modem's state matters as they are.
SamePlace ==
    pc' = pc \/ (pc \in CONNECT + 3 .. PRINTER /\ pc' \in CONNECT + 3 .. PRINTER)

\* ... has the modem become m.
LEMMA TakesInv ==
    ASSUME Inv, phase \notin {"dispatch", "stopped"}, SamePlace,
           UNCHANGED <<interrupts_disabled, is_waiting, scan, num_postponed>>,
           NEW m, Takes(m), Follows(m), m.arg_b \in 0 .. arg_b,
           pc' = pc => m.arg_b = arg_b
    PROVE  QueueInv' /\ ModemInv' /\ AskInv' /\ noticed' \in BOOLEAN
<1> DEFINE W == Awaited(ModemRequest)
<1>1. QueueInv /\ ProgramInv /\ ModemInv /\ AskInv /\ ~destroyed
  BY DEF Inv, ProgramInv
<1>2. /\ fd' = m.fd /\ status' = m.status /\ arg_b' = m.arg_b /\ arg_a' = arg_a
      /\ peer' = m.peer /\ unread' = m.unread /\ destroyed' = destroyed
      /\ asked_interrupts' = IF m.asked THEN Append(asked_interrupts, ModemRequest)
                             ELSE asked_interrupts
  BY DEF Takes, Queued, ModemRequest
<1>3. noticed' \in BOOLEAN
  BY DEF Takes
<1>4. m.asked => ~W /\ ~Receiving
  BY <1>1 DEF Follows, AskInv, Connected
<1>5. QueueInv' /\ (Awaited(ModemRequest)' <=> W \/ m.asked)
  <2>1. CASE m.asked
    BY <1>1, <1>2, <1>4, <2>1, QueueAsks
  <2>2. CASE ~m.asked
    BY <1>1, <1>2, <2>2, QueueSame DEF SameQueue
  <2> QED
    BY <2>1, <2>2 DEF Follows
<1>6. Receiving' <=> Receiving
  BY DEF Receiving, SamePlace, CONNECT, PRINTER, INT_MODEM, RECV
<1>7. AskInv'
  <2>1. ~(Awaited(ModemRequest)' /\ Receiving')
    BY <1>1, <1>4, <1>5, <1>6 DEF AskInv
  <2>2. "INCM" \in status' /\ ~interrupts_disabled' => Awaited(ModemRequest)' \/ Receiving'
    BY <1>1, <1>2, <1>5, <1>6 DEF AskInv, Follows
  <2>3. "INCM" \in status' /\ peer' \in {"open", "shut"} => unread' > 0
    BY <1>2 DEF Follows, Connected
  <2>4. ASSUME "INCM" \notin status', Awaited(ModemRequest)' \/ Receiving'
        PROVE  unread' = 0 /\ peer' \notin {"open", "shut"}
    <3>1. W \/ Receiving
      BY <1>2, <1>5, <1>6, <2>4 DEF Follows
    <3>2. "INCM" \notin status => unread = 0 /\ peer \notin {"open", "shut"}
      BY <1>1, <3>1 DEF AskInv
    <3>3. m.unread = 0 /\ m.peer \notin {"open", "shut"}
      BY <1>2, <2>4, <3>2 DEF Follows, Connected
    <3> QED
      BY <1>2, <3>3
  <2> QED
    BY <2>1, <2>2, <2>3, <2>4 DEF AskInv
<1>8. ModemInv'
  <2>1. fd' \in Descriptors \cup {-1}
    BY <1>1, <1>2 DEF ModemInv, Follows
  <2>2. /\ arg_a' \in {0, BUF_BEGIN, HOST, DATA} /\ arg_b' \in 0 .. BUF_SIZE + PORT + DATA_LEN
        /\ unread' \in Nat
    <3>1. arg_b \in 0 .. BUF_SIZE + PORT + DATA_LEN /\ BUF_SIZE + PORT + DATA_LEN \in Nat
      BY <1>1, ReceiverAssumption DEF ModemInv
    <3>2. arg_b' \in 0 .. BUF_SIZE + PORT + DATA_LEN
      BY <1>2, <3>1
    <3> QED
      BY <1>1, <1>2, <3>2 DEF ModemInv, Follows
  <2>3. /\ fd' = -1 => peer' = "none" /\ unread' = 0
        /\ fd' # -1 /\ ~destroyed' => peer' \in {"open", "shut", "reset", "failed"}
    BY <1>2 DEF Follows
  <2>4. /\ pc' \in INT_MODEM + 1 .. RECV => arg_b' = BUF_SIZE
        /\ pc' = RECV => arg_a' = BUF_BEGIN
    <3>1. pc' \in INT_MODEM + 1 .. RECV \/ pc' = RECV => pc' = pc
      BY DEF SamePlace, CONNECT, PRINTER, INT_MODEM, RECV
    <3> QED
      BY <1>1, <1>2, <3>1 DEF ModemInv
  <2>5. ASSUME pc' <= CONNECT + 2
        PROVE  fd' = -1 /\ "INCM" \notin status' /\ ~Awaited(ModemRequest)'
    <3>1. pc <= CONNECT + 2
      BY <2>5 DEF SamePlace, CONNECT, PRINTER
    <3>2. fd = -1 /\ "INCM" \notin status /\ ~W /\ peer = "none" /\ unread = 0
      BY <1>1, <3>1 DEF ModemInv
    <3>3. "INCM" \notin m.status
      BY <3>2 DEF Follows
    <3> QED
      BY <1>2, <1>5, <3>2, <3>3 DEF Follows
  <2> QED
    BY <2>1, <2>2, <2>3, <2>4, <2>5 DEF ModemInv
<1> QED
  BY <1>3, <1>5, <1>7, <1>8

\* ... leaves the modem and what waits as they are; interrupts may be disabled.
LEMMA RestsInv ==
    ASSUME Inv, ModemRests, SamePlace,
           Awaited(ModemRequest)' <=> Awaited(ModemRequest),
           interrupts_disabled' = interrupts_disabled \/ interrupts_disabled' = TRUE
    PROVE  ModemInv' /\ AskInv'
<1>1. ModemInv /\ AskInv
  BY DEF Inv
<1>2. UNCHANGED <<fd, status, arg_a, arg_b, peer, unread, destroyed>>
  BY DEF ModemRests, modemVars
<1>3. Receiving' <=> Receiving
  BY DEF Receiving, SamePlace, CONNECT, PRINTER, INT_MODEM, RECV
<1>4. AskInv'
  BY <1>1, <1>2, <1>3 DEF AskInv
<1>5. /\ pc' \in INT_MODEM + 1 .. RECV => pc \in INT_MODEM + 1 .. RECV
      /\ pc' = RECV => pc = RECV
      /\ pc' <= CONNECT + 2 => pc <= CONNECT + 2
  BY DEF SamePlace, CONNECT, PRINTER, INT_MODEM, RECV
<1>6. ModemInv'
  BY <1>1, <1>2, <1>5 DEF ModemInv
<1> QED
  BY <1>4, <1>6

\* ... runs an instruction of the main program, or one of the handler.
LEMMA SameProgram ==
    ASSUME ProgramInv, phase \notin {"dispatch", "stopped"},
           phase' \in {"exec", "dispatch", "crt", "modem", "timer", "stopped"},
           UNCHANGED <<interrupt_vector, interrupt_type, interrupt_return_addr, destroyed>>,
           {seen', noticed', interrupts_disabled'} \subseteq BOOLEAN,
           pc' \in Main \cup Handling, pc' \in Handling <=> pc \in Handling,
           pc' = MAIN <=> pc = MAIN
    PROVE  ProgramInv'
<1>1. ~destroyed /\ destroyed' = destroyed
  BY DEF ProgramInv
<1>2. interrupt_vector' = [t \in {INTR_TIMER1, INTR_MODEM, INTR_EXCEPTION} |->
                             IF t = INTR_MODEM /\ pc' # MAIN THEN INT_MODEM ELSE 0]
  BY DEF ProgramInv
<1>3. /\ interrupt_type' = IF pc' \in Handling THEN <<INTR_MODEM>> ELSE << >>
      /\ pc' \notin Handling => interrupt_return_addr' = << >>
      /\ pc' \in Handling => \E r \in CONNECT + 3 .. PRINTER : interrupt_return_addr' = <<r>>
  BY DEF ProgramInv
<1> QED
  BY <1>1, <1>2, <1>3 DEF ProgramInv, Main, Handling

-----------------------------------------------------------------------------
(* The instructions of the program.                                         *)

\* What all of them do.
Instruction ==
    /\ phase = "exec" /\ phase' = "dispatch" /\ scan' = 1 /\ num_postponed' = 0
    /\ ~should_die /\ UNCHANGED is_waiting

\* ... and what all but the store to the vector, cli and fini leave.
Plain ==
    /\ Instruction
    /\ UNCHANGED <<interrupt_vector, interrupt_type, interrupt_return_addr, interrupts_disabled>>

LEMMA OrdinaryStep == Cpu!ExecOrdinary => Plain
  BY DEF Cpu!ExecOrdinary, Cpu!Executing, Cpu!BeginPass, Cpu!devices, Cpu!frames, Plain, Instruction

LEMMA QuietStep ==
    ASSUME NEW next, Quietly(next)
    PROVE  Plain /\ UNCHANGED asked_interrupts /\ pc' = next
  BY OrdinaryStep DEF Quietly

\* An instruction that asks for nothing leaves the queue.
LEMMA InstructionQueue ==
    ASSUME QueueInv, Instruction, UNCHANGED asked_interrupts
    PROVE  QueueInv' /\ (Awaited(ModemRequest)' <=> Awaited(ModemRequest))
<1>1. scan = 1 /\ num_postponed = 0
  BY DEF QueueInv, Instruction
<1>2. SameQueue /\ UNCHANGED is_waiting /\ phase # "dispatch"
  BY <1>1 DEF SameQueue, Instruction
<1> QED
  BY <1>2, QueueSame

LEMMA SetHandlerInv ==
    ASSUME Inv, SetHandler
    PROVE  Inv' /\ (Awaited(ModemRequest)' <=> Awaited(ModemRequest))
<1>1. /\ pc = MAIN /\ Instruction /\ UNCHANGED asked_interrupts /\ pc' = Cpu!After(pc, 1)
      /\ UNCHANGED <<interrupt_type, interrupt_return_addr, interrupts_disabled, seen>>
      /\ interrupt_vector' = [interrupt_vector EXCEPT ![INTR_MODEM] = INT_MODEM]
      /\ ModemRests
  BY DEF SetHandler, Cpu!ExecSetVector, Cpu!Executing, Cpu!BeginPass, Cpu!devices, Cpu!frames,
         Cpu!Advance, Instruction
<1>2. pc' = CONNECT
  BY <1>1 DEF Cpu!After, Cpu!Code, MAIN, CONNECT, FINI
<1>3. QueueInv /\ ProgramInv /\ ModemInv /\ AskInv
  BY DEF Inv
<1>4. QueueInv' /\ (Awaited(ModemRequest)' <=> Awaited(ModemRequest))
  BY <1>1, <1>3, InstructionQueue
<1>5. UNCHANGED <<fd, status, arg_a, arg_b, peer, unread, destroyed, noticed>>
  BY <1>1 DEF ModemRests, modemVars
<1>6. /\ pc \notin Handling /\ pc' \notin Handling /\ pc' \in Main
      /\ ~Receiving /\ ~Receiving'
  BY <1>1, <1>2 DEF Handling, Main, Receiving, MAIN, PRINTER, CONNECT, INT_MODEM, RECV, FINI
<1>7. ProgramInv'
  <2>1. interrupt_vector' = [t \in {INTR_TIMER1, INTR_MODEM, INTR_EXCEPTION} |->
                             IF t = INTR_MODEM /\ pc' # MAIN THEN INT_MODEM ELSE 0]
    <3>1. pc' # MAIN
      BY <1>2 DEF MAIN, CONNECT
    <3> QED
      BY <1>1, <1>3, <3>1 DEF ProgramInv, INTR_TIMER1, INTR_MODEM, INTR_EXCEPTION
  <2>2. /\ interrupt_type' = IF pc' \in Handling THEN <<INTR_MODEM>> ELSE << >>
        /\ pc' \notin Handling => interrupt_return_addr' = << >>
        /\ pc' \in Handling => \E r \in CONNECT + 3 .. PRINTER : interrupt_return_addr' = <<r>>
    BY <1>1, <1>3, <1>6 DEF ProgramInv
  <2>3. ~destroyed' /\ phase' = "dispatch"
    BY <1>1, <1>3, <1>5 DEF ProgramInv, Instruction
  <2>4. {seen', noticed', destroyed', interrupts_disabled'} \subseteq BOOLEAN
    BY <1>1, <1>3, <1>5 DEF ProgramInv
  <2> QED
    BY <1>6, <2>1, <2>2, <2>3, <2>4 DEF ProgramInv
<1>8. ModemInv'
  <2>1. /\ pc' \notin INT_MODEM + 1 .. RECV /\ pc' # RECV /\ pc <= CONNECT + 2
    BY <1>1, <1>2 DEF MAIN, CONNECT, INT_MODEM, RECV
  <2> QED
    BY <1>3, <1>4, <1>5, <2>1 DEF ModemInv
<1>9. AskInv'
  BY <1>1, <1>3, <1>4, <1>5, <1>6 DEF AskInv
<1> QED
  BY <1>4, <1>7, <1>8, <1>9 DEF Inv

\* An instruction of the program that is neither a command nor the load of the
\* handler's arguments, and leaves the modem alone.
LEMMA RestingInstruction ==
    ASSUME Inv, Plain, UNCHANGED <<asked_interrupts, seen>>, ModemRests, SamePlace,
           pc' \in Handling <=> pc \in Handling, pc' \in Main \cup Handling,
           pc # MAIN, pc' # MAIN
    PROVE  Inv' /\ (Awaited(ModemRequest)' <=> Awaited(ModemRequest))
<1>1. QueueInv /\ ProgramInv /\ ModemInv /\ AskInv
  BY DEF Inv
<1>2. QueueInv' /\ (Awaited(ModemRequest)' <=> Awaited(ModemRequest))
  BY <1>1, InstructionQueue DEF Plain
<1>3. ModemInv' /\ AskInv'
  BY <1>2, RestsInv DEF Plain
<1>4. UNCHANGED <<destroyed, noticed>>
  BY DEF ModemRests, modemVars
<1>5. {seen', noticed', interrupts_disabled'} \subseteq BOOLEAN
  BY <1>1, <1>4 DEF ProgramInv, Plain
<1>6. ProgramInv'
  BY <1>1, <1>4, <1>5, SameProgram DEF Plain, Instruction
<1> QED
  BY <1>2, <1>3, <1>6 DEF Inv

LEMMA BranchInv ==
    ASSUME Inv, Branch
    PROVE  Inv' /\ (Awaited(ModemRequest)' <=> Awaited(ModemRequest))
<1>1. PICK next \in {SEND, LOOP, FAILED, QUIT} :
          Quietly(next) /\ pc \in {CONNECT + 4, SEND + 4, LOOP + 2}
  BY DEF Branch
<1>2. Plain /\ UNCHANGED asked_interrupts /\ pc' = next
  BY <1>1, QuietStep
<1>3. /\ SamePlace /\ pc # MAIN /\ pc' # MAIN
      /\ pc \notin Handling /\ pc' \notin Handling /\ pc' \in Main
  BY <1>1, <1>2 DEF SamePlace, Handling, Main, MAIN, CONNECT, SEND, LOOP, FAILED, QUIT,
                    PRINTER, INT_MODEM, FINI
<1> QED
  BY <1>2, <1>3, RestingInstruction DEF Branch

LEMMA StraightInv ==
    ASSUME Inv, Straight
    PROVE  Inv' /\ (Awaited(ModemRequest)' <=> Awaited(ModemRequest))
<1>1. Quietly(pc + 1) /\ pc \in {FAILED, RESET, RECV + 1}
  BY DEF Straight
<1>2. Plain /\ UNCHANGED <<asked_interrupts, seen>> /\ pc' = pc + 1 /\ ModemRests
  BY <1>1, QuietStep DEF Straight
<1>3. CASE pc # RECV + 1
  <2>1. /\ SamePlace /\ pc # MAIN /\ pc' # MAIN
        /\ pc \notin Handling /\ pc' \notin Handling /\ pc' \in Main
    BY <1>1, <1>2, <1>3 DEF SamePlace, Handling, Main, MAIN, CONNECT, FAILED, RESET,
                      PRINTER, INT_MODEM, RECV, FINI
  <2> QED
    BY <1>2, <2>1, RestingInstruction
<1>4. CASE pc = RECV + 1
  <2>1. pc = 23 /\ pc' = 24
    BY <1>2, <1>4 DEF RECV
  <2>2. QueueInv /\ ProgramInv /\ ModemInv /\ AskInv
    BY DEF Inv
  <2>3. QueueInv' /\ (Awaited(ModemRequest)' <=> Awaited(ModemRequest))
    BY <1>2, <2>2, InstructionQueue DEF Plain
  <2>4. UNCHANGED <<fd, status, arg_a, arg_b, peer, unread, destroyed, noticed>>
    BY <1>2 DEF ModemRests, modemVars
  <2>5. ModemInv'
    <3>1. pc' \notin INT_MODEM + 1 .. RECV /\ pc' # RECV /\ ~(pc' <= CONNECT + 2)
      BY <2>1 DEF CONNECT, INT_MODEM, RECV
    <3> QED
      BY <2>2, <2>4, <3>1 DEF ModemInv
  <2>6. AskInv'
    <3>1. ~Receiving /\ ~Receiving'
      BY <2>1 DEF Receiving, INT_MODEM, RECV
    <3> QED
      BY <1>2, <2>2, <2>3, <2>4, <3>1 DEF AskInv, Plain
  <2>7. ProgramInv'
    <3>1. {seen', noticed', interrupts_disabled'} \subseteq BOOLEAN
      BY <1>2, <2>2, <2>4 DEF ProgramInv, Plain
    <3>2. pc \in Handling /\ pc' \in Handling /\ pc # MAIN /\ pc' # MAIN
      BY <2>1 DEF Handling, MAIN, INT_MODEM, FINI
    <3> QED
      BY <1>2, <2>2, <2>4, <3>1, <3>2, SameProgram DEF Plain, Instruction
  <2> QED
    BY <2>3, <2>5, <2>6, <2>7 DEF Inv
<1> QED
  BY <1>3, <1>4

LEMMA PutArgumentInv ==
    ASSUME Inv, PutArgument
    PROVE  Inv' /\ (Awaited(ModemRequest)' <=> Awaited(ModemRequest))
<1>1. /\ Quietly(pc + 1)
      /\ UNCHANGED <<fd, status, peer, unread, destroyed, seen, noticed>>
  BY DEF PutArgument, programVars
<1>2. Plain /\ UNCHANGED asked_interrupts /\ pc' = pc + 1
  BY <1>1, QuietStep
<1>3. QueueInv /\ ProgramInv /\ ModemInv /\ AskInv
  BY DEF Inv
<1>4. QueueInv' /\ (Awaited(ModemRequest)' <=> Awaited(ModemRequest))
  BY <1>2, <1>3, InstructionQueue DEF Plain
<1>5. \/ pc = CONNECT /\ arg_a' = HOST /\ arg_b' = arg_b
      \/ pc = CONNECT + 1 /\ arg_b' = PORT /\ arg_a' = arg_a
      \/ pc = SEND /\ arg_b' = DATA_LEN /\ arg_a' = arg_a
      \/ pc = SEND + 1 /\ arg_a' = DATA /\ arg_b' = arg_b
      \/ pc = INT_MODEM /\ arg_b' = BUF_SIZE /\ arg_a' = arg_a
      \/ pc = INT_MODEM + 1 /\ arg_a' = BUF_BEGIN /\ arg_b' = arg_b
  BY DEF PutArgument, ArgumentA, ArgumentB, CONNECT, SEND, INT_MODEM
<1>6. /\ pc # MAIN /\ pc' # MAIN /\ pc' \in Main \cup Handling
      /\ pc' \in Handling <=> pc \in Handling
      /\ Receiving' <=> Receiving
  BY <1>2, <1>5 DEF Main, Handling, Receiving, MAIN, CONNECT, SEND, PRINTER, INT_MODEM, RECV, FINI
<1>7. ProgramInv'
  <2>1. {seen', noticed', interrupts_disabled'} \subseteq BOOLEAN
    BY <1>1, <1>2, <1>3 DEF ProgramInv, Plain
  <2> QED
    BY <1>1, <1>2, <1>3, <1>6, <2>1, SameProgram DEF Plain, Instruction
<1>8. AskInv'
  BY <1>1, <1>2, <1>3, <1>4, <1>6 DEF AskInv, Plain
<1>9. ModemInv'
  <2>1. {BUF_SIZE, PORT, DATA_LEN} \subseteq 0 .. BUF_SIZE + PORT + DATA_LEN
    BY ReceiverAssumption
  <2>2. arg_a' \in {0, BUF_BEGIN, HOST, DATA} /\ arg_b' \in 0 .. BUF_SIZE + PORT + DATA_LEN
    BY <1>3, <1>5, <2>1 DEF ModemInv
  <2>3. /\ pc' \in INT_MODEM + 1 .. RECV => arg_b' = BUF_SIZE
        /\ pc' = RECV => arg_a' = BUF_BEGIN
    <3>1. pc' \in INT_MODEM + 1 .. RECV => pc = INT_MODEM \/ pc = INT_MODEM + 1
      BY <1>2, <1>5 DEF CONNECT, SEND, INT_MODEM, RECV
    <3>2. pc' = RECV => pc = INT_MODEM + 1
      BY <1>2, <1>5 DEF CONNECT, SEND, INT_MODEM, RECV
    <3>3. pc = INT_MODEM + 1 => arg_b = BUF_SIZE /\ arg_b' = arg_b /\ arg_a' = BUF_BEGIN
      BY <1>3, <1>5 DEF ModemInv, CONNECT, SEND, INT_MODEM, RECV
    <3>4. pc = INT_MODEM => arg_b' = BUF_SIZE
      BY <1>5 DEF CONNECT, SEND, INT_MODEM
    <3> QED
      BY <3>1, <3>2, <3>3, <3>4
  <2>4. pc' <= CONNECT + 2 => pc <= CONNECT + 2
    BY <1>2, <1>5 DEF CONNECT, SEND, INT_MODEM
  <2> QED
    BY <1>1, <1>3, <1>4, <2>2, <2>3, <2>4 DEF ModemInv
<1> QED
  BY <1>4, <1>7, <1>8, <1>9 DEF Inv

\* An access that follows the present registers.
LEMMA AccessInv ==
    ASSUME Inv, Plain, SamePlace, pc # MAIN, pc' # MAIN,
           pc' \in Handling <=> pc \in Handling, pc' \in Main \cup Handling, seen' \in BOOLEAN,
           NEW m, Takes(m), Follows(m), m.arg_b \in 0 .. arg_b, pc' = pc => m.arg_b = arg_b
    PROVE  Inv'
<1>1. QueueInv /\ ProgramInv
  BY DEF Inv
<1>2. UNCHANGED <<interrupts_disabled, is_waiting, scan, num_postponed>> /\ phase = "exec"
  BY <1>1 DEF QueueInv, Plain, Instruction
<1>3. QueueInv' /\ ModemInv' /\ AskInv' /\ noticed' \in BOOLEAN
  BY <1>2, TakesInv
<1>4. ProgramInv'
  <2>1. destroyed' = destroyed
    BY DEF Takes
  <2>2. {seen', noticed', interrupts_disabled'} \subseteq BOOLEAN
    BY <1>1, <1>2, <1>3 DEF ProgramInv
  <2> QED
    BY <1>1, <1>2, <2>1, <2>2, SameProgram DEF Plain, Instruction
<1> QED
  BY <1>3, <1>4 DEF Inv

LEMMA PutCommandInv == ASSUME Inv, PutCommand PROVE Inv'
<1>1. QueueInv /\ ProgramInv /\ ModemInv /\ AskInv /\ UNCHANGED seen /\ seen \in BOOLEAN
  BY DEF Inv, ProgramInv, PutCommand
<1>2. CASE pc = SEND + 2 /\ Access(Dev!SendOutcomes(Silent))
  <2>1. PICK m \in Dev!SendOutcomes(Silent) : Takes(m)
    BY <1>2 DEF Access
  <2>2. Plain /\ pc' = pc + 1
    BY <1>2, OrdinaryStep DEF Access
  <2>3. ~destroyed
    BY <1>1, <2>2 DEF ProgramInv, Plain, Instruction
  <2>4. Follows(m) /\ m.arg_b \in 0 .. arg_b
    BY <1>1, <2>3, SendFollows
  <2>5. pc = 9 /\ pc' = 10
    BY <1>2, <2>2 DEF SEND
  <2>6. /\ SamePlace /\ pc # MAIN /\ pc' # MAIN
        /\ pc \notin Handling /\ pc' \notin Handling /\ pc' \in Main
    BY <2>5 DEF SamePlace, Handling, Main, MAIN, CONNECT, PRINTER, INT_MODEM, FINI
  <2> QED
    BY <1>1, <2>1, <2>2, <2>4, <2>5, <2>6, AccessInv
<1>3. CASE pc = CONNECT + 2 /\ Access(Dev!ConnectOutcomes(Silent))
  <2>1. PICK m \in Dev!ConnectOutcomes(Silent) : Takes(m)
    BY <1>3 DEF Access
  <2>2. Plain /\ pc' = pc + 1
    BY <1>3, OrdinaryStep DEF Access
  <2>3. Begins(m)
    BY <1>1, ConnectFollows
  <2>4. pc = 4 /\ pc' = 5
    BY <1>3, <2>2 DEF CONNECT
  <2>5. /\ UNCHANGED <<asked_interrupts, arg_a, arg_b, destroyed>> /\ noticed' \in BOOLEAN
        /\ fd' = m.fd /\ status' = m.status /\ peer' = m.peer /\ unread' = m.unread
    BY <2>1, <2>3 DEF Takes, Queued, Begins
  <2>6. QueueInv' /\ (Awaited(ModemRequest)' <=> Awaited(ModemRequest))
    BY <1>1, <2>2, <2>5, InstructionQueue DEF Plain
  <2>7. /\ pc # MAIN /\ pc' # MAIN /\ ~Receiving' /\ pc <= CONNECT + 2 /\ ~(pc' <= CONNECT + 2)
        /\ pc' \notin INT_MODEM + 1 .. RECV /\ pc' # RECV
        /\ pc \notin Handling /\ pc' \notin Handling /\ pc' \in Main
    BY <2>4 DEF Receiving, Handling, Main, MAIN, CONNECT, PRINTER, INT_MODEM, RECV, FINI
  <2>8. ProgramInv'
    <3>1. {seen', noticed', interrupts_disabled'} \subseteq BOOLEAN
      BY <1>1, <2>2, <2>5 DEF ProgramInv, Plain
    <3> QED
      BY <1>1, <2>2, <2>5, <2>7, <3>1, SameProgram DEF Plain, Instruction
  <2>9. AskInv'
    <3>1. ~Awaited(ModemRequest)'
      BY <1>1, <2>6, <2>7 DEF ModemInv
    <3> QED
      BY <2>3, <2>5, <2>7, <3>1 DEF AskInv, Begins
  <2>10. ModemInv'
    <3>1. fd' \in Descriptors \cup {-1} /\ unread' = 0 /\ unread' \in Nat
      BY <2>3, <2>5 DEF Begins
    <3>2. /\ fd' = -1 => peer' = "none"
          /\ fd' # -1 => peer' \in {"open", "shut", "reset", "failed"}
      BY <2>3, <2>5 DEF Begins
    <3> QED
      BY <1>1, <2>5, <2>7, <3>1, <3>2 DEF ModemInv
  <2> QED
    BY <2>6, <2>8, <2>9, <2>10 DEF Inv
<1> QED
  BY <1>2, <1>3 DEF PutCommand

LEMMA GetStatusInv == ASSUME Inv, GetStatus PROVE Inv'
<1>1. QueueInv /\ ProgramInv /\ ModemInv /\ AskInv /\ seen' \in BOOLEAN
  BY DEF Inv, GetStatus
<1>2. PICK m \in Dev!Updated(Silent) : Takes(m)
  BY DEF GetStatus, Access
<1>3. Plain /\ pc' = pc + 1
  BY OrdinaryStep DEF GetStatus, Access
<1>4. ~destroyed
  BY <1>1, <1>3 DEF ProgramInv, Plain, Instruction
<1>5. Follows(m) /\ m.arg_b = arg_b
  BY <1>1, <1>4, UpdatedFollows
<1>6. arg_b \in 0 .. arg_b
  BY <1>1, ReceiverAssumption DEF ModemInv
<1>7. /\ SamePlace /\ pc # MAIN /\ pc' # MAIN
      /\ pc \notin Handling /\ pc' \notin Handling /\ pc' \in Main
  BY <1>3 DEF GetStatus, SamePlace, Handling, Main, MAIN, CONNECT, SEND, LOOP, PRINTER, INT_MODEM, FINI
<1> QED
  BY <1>1, <1>2, <1>3, <1>5, <1>6, <1>7, AccessInv

LEMMA PutRecvInv == ASSUME Inv, PutRecv PROVE Inv'
<1>1. /\ QueueInv /\ ProgramInv /\ ModemInv /\ AskInv /\ UNCHANGED seen /\ seen \in BOOLEAN
      /\ pc = RECV
  BY DEF Inv, ProgramInv, PutRecv
<1>2. PICK m \in Dev!ReceiveOutcomes(Silent) : Takes(m)
  BY DEF PutRecv, Access
<1>3. Plain /\ pc' = pc + 1
  BY OrdinaryStep DEF PutRecv, Access
<1>4. ~destroyed
  BY <1>1, <1>3 DEF ProgramInv, Plain, Instruction
<1>5. Receives(m)
  BY <1>1, <1>4, ReceiveFollows
<1>6. /\ UNCHANGED <<asked_interrupts, arg_a, destroyed>> /\ noticed' \in BOOLEAN
      /\ fd' = m.fd /\ status' = m.status /\ peer' = m.peer /\ unread' = m.unread
      /\ arg_b' = m.arg_b
  BY <1>2, <1>5 DEF Takes, Queued, Receives
<1>7. QueueInv' /\ (Awaited(ModemRequest)' <=> Awaited(ModemRequest))
  BY <1>1, <1>3, <1>6, InstructionQueue DEF Plain
<1>8. pc = 22 /\ pc' = 23
  BY <1>1, <1>3 DEF RECV
<1>9. /\ pc # MAIN /\ pc' # MAIN /\ Receiving /\ ~Receiving' /\ ~(pc' <= CONNECT + 2)
      /\ pc' \notin INT_MODEM + 1 .. RECV /\ pc' # RECV
      /\ pc \in Handling /\ pc' \in Handling
  BY <1>8 DEF Receiving, Handling, MAIN, CONNECT, INT_MODEM, RECV, FINI
<1>10. ProgramInv'
  <2>1. {seen', noticed', interrupts_disabled'} \subseteq BOOLEAN
    BY <1>1, <1>3, <1>6 DEF ProgramInv, Plain
  <2> QED
    BY <1>1, <1>3, <1>6, <1>9, <2>1, SameProgram DEF Plain, Instruction
<1>11. AskInv'
  <2>1. ~Awaited(ModemRequest)'
    BY <1>1, <1>7, <1>9 DEF AskInv
  <2> QED
    BY <1>5, <1>6, <1>9, <2>1 DEF AskInv, Receives
<1>12. ModemInv'
  <2>1. arg_b' \in 0 .. BUF_SIZE + PORT + DATA_LEN
    <3>1. arg_b \in 0 .. BUF_SIZE + PORT + DATA_LEN /\ BUF_SIZE + PORT + DATA_LEN \in Nat
      BY <1>1, ReceiverAssumption DEF ModemInv
    <3>2. arg_b' \in 0 .. arg_b
      BY <1>5, <1>6 DEF Receives
    <3> QED
      BY <3>1, <3>2
  <2>2. /\ fd' \in Descriptors \cup {-1} /\ unread' \in Nat
        /\ fd' = -1 => peer' = "none" /\ unread' = 0
        /\ fd' # -1 => peer' \in {"open", "shut", "reset", "failed"}
    BY <1>1, <1>5, <1>6 DEF Receives, ModemInv
  <2> QED
    BY <1>1, <1>6, <1>9, <2>1, <2>2 DEF ModemInv
<1> QED
  BY <1>7, <1>10, <1>11, <1>12 DEF Inv

LEMMA ControlInv ==
    ASSUME Inv, Control
    PROVE  Inv' /\ (Awaited(ModemRequest)' <=> Awaited(ModemRequest))
<1>1. QueueInv /\ ProgramInv /\ ModemInv /\ AskInv /\ UNCHANGED seen /\ ModemRests
  BY DEF Inv, Control
<1>2. CASE pc \in {LOOP, QUIT + 1} /\ Cpu!ExecHlt
  <2>1. Plain /\ UNCHANGED asked_interrupts /\ pc' = Cpu!After(pc, 1)
    BY <1>2 DEF Cpu!ExecHlt, Cpu!Executing, Cpu!BeginPass, Cpu!devices, Cpu!frames,
                Cpu!Advance, Plain, Instruction
  <2>2. pc' = pc + 1
    BY <1>2, <2>1 DEF Cpu!After, Cpu!Code, LOOP, QUIT, FINI
  <2>3. /\ SamePlace /\ pc # MAIN /\ pc' # MAIN
        /\ pc \notin Handling /\ pc' \notin Handling /\ pc' \in Main
    BY <1>2, <2>2 DEF SamePlace, Handling, Main, MAIN, CONNECT, LOOP, QUIT, PRINTER,
                      INT_MODEM, FINI
  <2> QED
    BY <1>1, <2>1, <2>3, RestingInstruction
<1>3. CASE pc = QUIT /\ Cpu!ExecMask(TRUE)
  <2>1. /\ Instruction /\ UNCHANGED asked_interrupts /\ pc' = Cpu!After(pc, 1)
        /\ UNCHANGED <<interrupt_vector, interrupt_type, interrupt_return_addr>>
        /\ interrupts_disabled' = TRUE
    BY <1>3 DEF Cpu!ExecMask, Cpu!Executing, Cpu!BeginPass, Cpu!devices, Cpu!frames,
                Cpu!Advance, Instruction
  <2>2. pc = 17 /\ pc' = 18
    BY <1>3, <2>1 DEF Cpu!After, Cpu!Code, QUIT, FINI
  <2>3. /\ SamePlace /\ pc # MAIN /\ pc' # MAIN
        /\ pc \notin Handling /\ pc' \notin Handling /\ pc' \in Main
    BY <2>2 DEF SamePlace, Handling, Main, MAIN, CONNECT, PRINTER, INT_MODEM, FINI
  <2>4. QueueInv' /\ (Awaited(ModemRequest)' <=> Awaited(ModemRequest))
    BY <1>1, <2>1, InstructionQueue
  <2>5. ModemInv' /\ AskInv'
    BY <1>1, <2>1, <2>3, <2>4, RestsInv
  <2>6. ProgramInv'
    <3>1. destroyed' = destroyed /\ noticed' = noticed
      BY <1>1 DEF ModemRests, modemVars
    <3>2. {seen', noticed', interrupts_disabled'} \subseteq BOOLEAN
      BY <1>1, <2>1, <3>1 DEF ProgramInv
    <3> QED
      BY <1>1, <2>1, <2>3, <3>1, <3>2, SameProgram DEF Instruction
  <2> QED
    BY <2>4, <2>5, <2>6 DEF Inv
<1>4. CASE pc = FINI /\ Cpu!ExecFini
  <2>1. /\ Instruction /\ UNCHANGED <<asked_interrupts, interrupts_disabled, interrupt_vector>>
        /\ pc' = Last(interrupt_return_addr)
        /\ interrupt_type' = Front(interrupt_type)
        /\ interrupt_return_addr' = Front(interrupt_return_addr)
    <3>1. Cpu!Executing /\ Cpu!BeginPass
      BY <1>4 DEF Cpu!ExecFini
    <3>2. Instruction
      BY <3>1 DEF Cpu!Executing, Cpu!BeginPass, Cpu!devices, Instruction
    <3>3. /\ UNCHANGED <<asked_interrupts, interrupts_disabled, interrupt_vector>>
          /\ pc' = Last(interrupt_return_addr)
          /\ interrupt_type' = Front(interrupt_type)
          /\ interrupt_return_addr' = Front(interrupt_return_addr)
      BY <1>4 DEF Cpu!ExecFini, Cpu!Last, Last, Cpu!Front, Front
    <3> QED
      BY <3>2, <3>3
  <2>2. pc \in Handling /\ pc # MAIN /\ ~Receiving
    BY <1>4 DEF Handling, Receiving, MAIN, INT_MODEM, RECV, FINI
  <2>3. PICK r \in CONNECT + 3 .. PRINTER : interrupt_return_addr = <<r>>
    BY <1>1, <2>2 DEF ProgramInv
  <2>4. interrupt_type = <<INTR_MODEM>>
    BY <1>1, <2>2 DEF ProgramInv
  <2>5. ASSUME NEW x PROVE Last(<<x>>) = x /\ Front(<<x>>) = << >>
    BY DEF Last, Front
  <2>6. pc' = r /\ interrupt_type' = << >> /\ interrupt_return_addr' = << >>
    BY <2>1, <2>3, <2>4, <2>5
  <2>7. /\ pc' \notin Handling /\ pc' \in Main /\ pc' # MAIN /\ ~Receiving' /\ ~(pc' <= CONNECT + 2)
        /\ pc' \notin INT_MODEM + 1 .. RECV /\ pc' # RECV
    BY <2>6 DEF Handling, Main, Receiving, MAIN, CONNECT, PRINTER, INT_MODEM, RECV, FINI
  <2>8. QueueInv' /\ (Awaited(ModemRequest)' <=> Awaited(ModemRequest))
    BY <1>1, <2>1, InstructionQueue
  <2>9. UNCHANGED <<fd, status, arg_a, arg_b, peer, unread, destroyed, noticed>>
    BY <1>1 DEF ModemRests, modemVars
  <2>10. ModemInv' /\ AskInv'
    BY <1>1, <2>1, <2>2, <2>7, <2>8, <2>9 DEF ModemInv, AskInv
  <2>11. ProgramInv'
    <3>1. ~destroyed' /\ phase' = "dispatch"
      BY <1>1, <2>1, <2>9 DEF ProgramInv, Instruction
    <3>2. {seen', noticed', destroyed', interrupts_disabled'} \subseteq BOOLEAN
      BY <1>1, <2>1, <2>9 DEF ProgramInv
    <3>3. interrupt_vector' = [t \in {INTR_TIMER1, INTR_MODEM, INTR_EXCEPTION} |->
                             IF t = INTR_MODEM /\ pc' # MAIN THEN INT_MODEM ELSE 0]
      BY <1>1, <2>1, <2>2, <2>7 DEF ProgramInv
    <3> QED
      BY <2>6, <2>7, <3>1, <3>2, <3>3 DEF ProgramInv
  <2> QED
    BY <2>8, <2>10, <2>11 DEF Inv
<1> QED
  BY <1>2, <1>3, <1>4 DEF Control

-----------------------------------------------------------------------------
(* The main loop, the timer, the modem's turn, the end and the network.     *)

\* A step between two instructions that changes neither the program nor what
\* the modem has to say.
BetweenInstructions ==
    /\ phase \notin {"dispatch", "stopped"}
    /\ phase' \in {"exec", "crt", "modem", "timer", "stopped"}
    /\ UNCHANGED <<pc, interrupts_disabled, interrupt_vector, interrupt_type,
                   interrupt_return_addr, scan, num_postponed, seen>>

LEMMA IdleProgram ==
    ASSUME ProgramInv, BetweenInstructions, destroyed' = destroyed, noticed' \in BOOLEAN
    PROVE  ProgramInv'
<1>1. {seen', noticed', interrupts_disabled'} \subseteq BOOLEAN
  BY DEF ProgramInv, BetweenInstructions
<1>2. pc' \in Main \cup Handling
  BY DEF ProgramInv, BetweenInstructions
<1> QED
  BY <1>1, <1>2, SameProgram DEF BetweenInstructions

LEMMA IdleInv ==
    ASSUME Inv, BetweenInstructions, ModemRests, QueueInv',
           Awaited(ModemRequest)' <=> Awaited(ModemRequest)
    PROVE  Inv'
<1>1. ProgramInv /\ noticed \in BOOLEAN
  BY DEF Inv, ProgramInv
<1>2. ModemInv' /\ AskInv'
  BY RestsInv DEF BetweenInstructions, SamePlace
<1>3. ProgramInv'
  BY <1>1, IdleProgram DEF ModemRests, modemVars
<1> QED
  BY <1>2, <1>3 DEF Inv

LEMMA TimerFiresInv ==
    ASSUME Inv, TimerFires
    PROVE  Inv' /\ (Awaited(ModemRequest)' <=> Awaited(ModemRequest))
<1>1. /\ BetweenInstructions /\ ModemRests
      /\ ~is_waiting /\ is_waiting' = TRUE
      /\ asked_interrupts' \in {asked_interrupts, Append(asked_interrupts, TimerRequest)}
  BY DEF TimerFires, Cpu!TimerFires, Cpu!TimerReady, Cpu!Trigger, Cpu!Asked, Cpu!NextTurn,
         Cpu!Untouched, Cpu!frames, Cpu!locals, BetweenInstructions, TimerRequest,
         INTR_TIMER1, Cpu!VM_INTR_TIMER1
<1>2. QueueInv' /\ (Awaited(ModemRequest)' <=> Awaited(ModemRequest))
  BY <1>1, QueueTimer DEF Inv, BetweenInstructions
<1> QED
  BY <1>1, <1>2, IdleInv

LEMMA ModemUpdateInv == ASSUME Inv, ModemUpdate PROVE Inv'
<1>1. QueueInv /\ ProgramInv /\ ModemInv /\ AskInv
  BY DEF Inv
<1>2. BetweenInstructions /\ UNCHANGED is_waiting
  BY DEF ModemUpdate, Cpu!ModemUpdate, Cpu!Untouched, Cpu!frames, Cpu!locals, Cpu!devices,
         BetweenInstructions
<1>3. PICK m \in Dev!Updated(Silent) : Takes(m)
  BY DEF ModemUpdate
<1>4. ~destroyed
  BY <1>1, <1>2 DEF ProgramInv, BetweenInstructions
<1>5. Follows(m) /\ m.arg_b = arg_b
  BY <1>1, <1>4, UpdatedFollows
<1>6. arg_b \in 0 .. arg_b
  BY <1>1, ReceiverAssumption DEF ModemInv
<1>7. QueueInv' /\ ModemInv' /\ AskInv' /\ noticed' \in BOOLEAN
  BY <1>2, <1>3, <1>5, <1>6, TakesInv DEF BetweenInstructions, SamePlace
<1>8. ProgramInv'
  BY <1>1, <1>2, <1>3, <1>7, IdleProgram DEF Takes
<1> QED
  BY <1>7, <1>8 DEF Inv

\* The pass over the queue.
LEMMA DispatchEnterInv ==
    ASSUME Inv, Cpu!DispatchEnter, UNCHANGED seen, ModemRests
    PROVE  Inv' /\ Awaited(ModemRequest) /\ ~Awaited(ModemRequest)'
<1> DEFINE e == asked_interrupts[scan]
<1>1. QueueInv /\ ProgramInv /\ ModemInv /\ AskInv
  BY DEF Inv
<1>2. /\ phase = "dispatch" /\ scan <= Len(asked_interrupts)
      /\ Cpu!Outranks(e) /\ interrupt_vector[e.type] # 0
      /\ interrupt_type' = Append(interrupt_type, e.type)
      /\ interrupt_return_addr' = Append(interrupt_return_addr, pc)
      /\ Cpu!RunSetup(e.setup)
      /\ pc' = interrupt_vector[e.type]
      /\ scan' = scan + 1
      /\ UNCHANGED <<interrupts_disabled, interrupt_vector, asked_interrupts, phase, num_postponed>>
  BY DEF Cpu!DispatchEnter, Cpu!Dispatching, Cpu!Current
<1>3. /\ asked_interrupts \in Seq(Requests) /\ scan \in Nat /\ num_postponed \in Nat
      /\ num_postponed < scan /\ Distinct(asked_interrupts, num_postponed, scan)
      /\ Len(asked_interrupts) \in Nat /\ is_waiting \in BOOLEAN
      /\ (Awaited(TimerRequest) => is_waiting)
  BY <1>1 DEF QueueInv
<1>4. e \in Requests
  <2>1. scan \in 1 .. Len(asked_interrupts)
    BY <1>2, <1>3
  <2> QED
    BY <1>3, <2>1, ElementOfSeq
<1>5. /\ Distinct(asked_interrupts, num_postponed, scan + 1)
      /\ \A x : WaitsIn(asked_interrupts, num_postponed, scan + 1, x)
                  <=> Awaited(x) /\ x # e
      /\ Awaited(e)
  BY <1>2, <1>3, TakenWaits DEF Awaited
<1>6. e = ModemRequest /\ pc # MAIN
  <2>1. e = TimerRequest => interrupt_vector[e.type] = 0
    BY <1>1 DEF ProgramInv, TimerRequest, Cpu!Interrupt, INTR_TIMER1, INTR_MODEM
  <2>2. e = ModemRequest
    BY <1>2, <1>4, <2>1 DEF Requests
  <2>3. pc = MAIN => interrupt_vector[INTR_MODEM] = 0
    BY <1>1 DEF ProgramInv
  <2>4. e.type = INTR_MODEM
    BY <2>2 DEF ModemRequest, Cpu!Interrupt
  <2> QED
    BY <1>2, <2>2, <2>3, <2>4
<1>7. e.type = INTR_MODEM /\ e.setup = Cpu!NoSetup
  BY <1>6 DEF ModemRequest, Cpu!Interrupt
<1>8. pc \notin Handling
  <2>1. pc \in Handling => interrupt_type = <<INTR_MODEM>>
    BY <1>1 DEF ProgramInv
  <2>2. ~Cpu!Outranks(e) \/ interrupt_type # <<INTR_MODEM>>
    <3>1. Last(<<INTR_MODEM>>) = INTR_MODEM /\ <<INTR_MODEM>> # << >>
      BY DEF Last
    <3>2. ~(Cpu!Priority(INTR_MODEM) < Cpu!Priority(INTR_MODEM))
      BY DEF Cpu!Priority, INTR_MODEM, Cpu!VM_INTR_TIMER1, Cpu!VM_INTR_KEY, Cpu!VM_INTR_EXCEPTION
    <3>3. SUFFICES ASSUME interrupt_type = <<INTR_MODEM>> PROVE ~Cpu!Outranks(e)
      OBVIOUS
    <3>4. Last(interrupt_type) = INTR_MODEM /\ interrupt_type # << >>
      BY <3>1, <3>3
    <3> QED
      BY <1>7, <3>2, <3>4 DEF Cpu!Outranks, Cpu!Last, Last
  <2> QED
    BY <1>2, <2>1, <2>2
<1>9. pc \in CONNECT + 3 .. PRINTER
  <2>1. ~(pc <= CONNECT + 2)
    BY <1>1, <1>5, <1>6 DEF ModemInv
  <2> QED
    BY <1>1, <1>8, <2>1 DEF ProgramInv, Main, MAIN, CONNECT, PRINTER
<1>10. pc' = INT_MODEM
  BY <1>1, <1>2, <1>6, <1>7 DEF ProgramInv
<1>11. interrupt_type' = <<INTR_MODEM>> /\ interrupt_return_addr' = <<pc>>
  <2>1. interrupt_type = << >> /\ interrupt_return_addr = << >>
    BY <1>1, <1>8 DEF ProgramInv
  <2>2. ASSUME NEW x PROVE Append(<< >>, x) = <<x>>
    OBVIOUS
  <2> QED
    BY <1>2, <1>7, <2>1, <2>2
<1>12. is_waiting' = is_waiting
  BY <1>2, <1>3, <1>7 DEF Cpu!RunSetup, Cpu!NoSetup, Cpu!TimerReset
<1>13. /\ QueueInv' /\ ~Awaited(ModemRequest)'
  <2>1. scan + 1 \in Nat /\ num_postponed < scan + 1 /\ scan + 1 <= Len(asked_interrupts) + 1
    BY <1>2, <1>3
  <2>2. Awaited(TimerRequest)' => is_waiting'
    BY <1>2, <1>3, <1>5, <1>12 DEF Awaited
  <2>3. ~Awaited(ModemRequest)'
    BY <1>2, <1>5, <1>6 DEF Awaited
  <2> QED
    BY <1>2, <1>3, <1>5, <1>12, <2>1, <2>2, <2>3 DEF QueueInv
<1>14. UNCHANGED <<fd, status, arg_a, arg_b, peer, unread, destroyed, noticed>>
  BY DEF ModemRests, modemVars
<1>15. /\ pc' \in Handling /\ pc' # MAIN /\ Receiving' /\ ~(pc' <= CONNECT + 2)
       /\ pc' \notin INT_MODEM + 1 .. RECV /\ pc' # RECV
  BY <1>10 DEF Receiving, Handling, MAIN, CONNECT, INT_MODEM, RECV, FINI
<1>16. ProgramInv'
  <2>1. {seen', noticed', destroyed', interrupts_disabled'} \subseteq BOOLEAN
    BY <1>1, <1>2, <1>14 DEF ProgramInv
  <2>2. ~destroyed' /\ phase' = "dispatch"
    BY <1>1, <1>2, <1>14 DEF ProgramInv
  <2>3. interrupt_vector' = [t \in {INTR_TIMER1, INTR_MODEM, INTR_EXCEPTION} |->
                             IF t = INTR_MODEM /\ pc' # MAIN THEN INT_MODEM ELSE 0]
    BY <1>1, <1>2, <1>6, <1>15 DEF ProgramInv
  <2> QED
    BY <1>9, <1>11, <1>15, <2>1, <2>2, <2>3 DEF ProgramInv
<1>17. ModemInv'
  BY <1>1, <1>14, <1>15 DEF ModemInv
<1>18. AskInv'
  BY <1>1, <1>2, <1>5, <1>6, <1>13, <1>14, <1>15 DEF AskInv
<1> QED
  BY <1>5, <1>6, <1>13, <1>16, <1>17, <1>18 DEF Inv

\* The pass goes on, or ends, and the program with it.
LEMMA PassInv ==
    ASSUME Inv, ModemRests, QueueInv', Awaited(ModemRequest)' <=> Awaited(ModemRequest),
           phase = "dispatch", phase' \in {"dispatch", "exec"},
           UNCHANGED <<pc, interrupts_disabled, interrupt_vector, interrupt_type,
                       interrupt_return_addr, seen>>
    PROVE  Inv'
<1>1. ProgramInv
  BY DEF Inv
<1>2. ModemInv' /\ AskInv'
  BY RestsInv DEF SamePlace
<1>3. UNCHANGED <<destroyed, noticed>>
  BY DEF ModemRests, modemVars
<1>4. ~destroyed
  BY <1>1 DEF ProgramInv
<1>5. ProgramInv'
  BY <1>1, <1>3, <1>4 DEF ProgramInv, Main, Handling
<1> QED
  BY <1>2, <1>5 DEF Inv

LEMMA DispatchIgnoreInv ==
    ASSUME Inv, Cpu!DispatchIgnore, UNCHANGED seen, ModemRests
    PROVE  Inv' /\ (Awaited(ModemRequest)' <=> Awaited(ModemRequest))
<1> DEFINE e == asked_interrupts[scan]
<1>1. QueueInv /\ ProgramInv /\ ModemInv
  BY DEF Inv
<1>2. /\ phase = "dispatch" /\ scan <= Len(asked_interrupts)
      /\ interrupt_vector[e.type] = 0
      /\ Cpu!RunSetup(e.setup)
      /\ scan' = scan + 1
      /\ UNCHANGED <<pc, interrupts_disabled, interrupt_vector, interrupt_type,
                     interrupt_return_addr, asked_interrupts, phase, num_postponed>>
  BY DEF Cpu!DispatchIgnore, Cpu!Dispatching, Cpu!Current, Cpu!frames
<1>3. /\ asked_interrupts \in Seq(Requests) /\ scan \in Nat /\ num_postponed \in Nat
      /\ num_postponed < scan /\ Distinct(asked_interrupts, num_postponed, scan)
      /\ Len(asked_interrupts) \in Nat /\ is_waiting \in BOOLEAN
      /\ (Awaited(TimerRequest) => is_waiting)
  BY <1>1 DEF QueueInv
<1>4. e \in Requests
  <2>1. scan \in 1 .. Len(asked_interrupts)
    BY <1>2, <1>3
  <2> QED
    BY <1>3, <2>1, ElementOfSeq
<1>5. /\ Distinct(asked_interrupts, num_postponed, scan + 1)
      /\ \A x : WaitsIn(asked_interrupts, num_postponed, scan + 1, x)
                  <=> Awaited(x) /\ x # e
      /\ Awaited(e)
  BY <1>2, <1>3, TakenWaits DEF Awaited
<1>6. e # ModemRequest
  <2>1. SUFFICES ASSUME e = ModemRequest PROVE FALSE
    OBVIOUS
  <2>2. pc # MAIN
    BY <1>1, <1>5, <2>1 DEF ModemInv, MAIN, CONNECT
  <2>3. interrupt_vector[INTR_MODEM] = INT_MODEM
    BY <1>1, <2>2 DEF ProgramInv
  <2> QED
    BY <1>2, <2>1, <2>3 DEF ModemRequest, Cpu!Interrupt, INT_MODEM
<1>7. is_waiting' \in BOOLEAN
  BY <1>2 DEF Cpu!RunSetup
<1>8. /\ QueueInv' /\ (Awaited(ModemRequest)' <=> Awaited(ModemRequest))
  <2>1. scan + 1 \in Nat /\ num_postponed < scan + 1 /\ scan + 1 <= Len(asked_interrupts) + 1
    BY <1>2, <1>3
  <2>2. ~Awaited(TimerRequest)'
    BY <1>2, <1>4, <1>5, <1>6 DEF Awaited, Requests
  <2>3. Awaited(ModemRequest)' <=> Awaited(ModemRequest)
    BY <1>2, <1>5, <1>6 DEF Awaited
  <2> QED
    BY <1>2, <1>3, <1>5, <1>7, <2>1, <2>2, <2>3 DEF QueueInv
<1> QED
  BY <1>2, <1>8, PassInv

LEMMA DispatchPostponeInv ==
    ASSUME Inv, Cpu!DispatchPostpone, UNCHANGED seen, ModemRests
    PROVE  Inv' /\ (Awaited(ModemRequest)' <=> Awaited(ModemRequest))
<1> DEFINE p == [asked_interrupts EXCEPT ![num_postponed + 1] = asked_interrupts[scan]]
<1>1. QueueInv
  BY DEF Inv
<1>2. /\ phase = "dispatch" /\ scan <= Len(asked_interrupts)
      /\ asked_interrupts' = p
      /\ num_postponed' = num_postponed + 1
      /\ scan' = scan + 1
      /\ UNCHANGED <<pc, interrupts_disabled, interrupt_vector, interrupt_type,
                     interrupt_return_addr, is_waiting, phase>>
  BY DEF Cpu!DispatchPostpone, Cpu!Dispatching, Cpu!Current, Cpu!Compacted, Cpu!frames,
         Cpu!devices
<1>3. /\ asked_interrupts \in Seq(Requests) /\ scan \in Nat /\ num_postponed \in Nat
      /\ num_postponed < scan /\ Distinct(asked_interrupts, num_postponed, scan)
      /\ is_waiting \in BOOLEAN
      /\ (Awaited(TimerRequest) => is_waiting)
  BY <1>1 DEF QueueInv
<1>4. /\ p \in Seq(Requests) /\ Len(p) = Len(asked_interrupts)
      /\ Distinct(p, num_postponed + 1, scan + 1)
      /\ \A x : WaitsIn(p, num_postponed + 1, scan + 1, x) <=> Awaited(x)
  BY <1>2, <1>3, PutBackWaits DEF Awaited
<1> HIDE DEF p
<1>5. Len(asked_interrupts) \in Nat
  BY <1>3
<1>6. \A x : Awaited(x)' <=> Awaited(x)
  BY <1>2, <1>4 DEF Awaited
<1>7. /\ scan + 1 \in Nat /\ num_postponed + 1 \in Nat /\ num_postponed + 1 < scan + 1
      /\ scan + 1 <= Len(p) + 1
  BY <1>2, <1>3, <1>4, <1>5
<1>8. Awaited(TimerRequest)' => is_waiting'
  BY <1>2, <1>3, <1>4 DEF Awaited
<1>9. Awaited(ModemRequest)' <=> Awaited(ModemRequest)
  BY <1>2, <1>4 DEF Awaited
<1>10. QueueInv'
  BY <1>2, <1>3, <1>4, <1>7, <1>8 DEF QueueInv
<1> QED
  BY <1>2, <1>9, <1>10, PassInv

LEMMA DispatchEndInv ==
    ASSUME Inv, phase = "dispatch", scan > Len(asked_interrupts), Cpu!EndPass,
           UNCHANGED seen, ModemRests
    PROVE  Inv' /\ (Awaited(ModemRequest)' <=> Awaited(ModemRequest))
<1> DEFINE c == SubSeq(asked_interrupts, 1, num_postponed)
<1>1. QueueInv
  BY DEF Inv
<1>2. /\ asked_interrupts' = c /\ phase' = "exec" /\ scan' = 1 /\ num_postponed' = 0
      /\ UNCHANGED <<pc, interrupts_disabled, interrupt_vector, interrupt_type,
                     interrupt_return_addr, is_waiting>>
  BY DEF Cpu!EndPass, Cpu!frames, Cpu!devices
<1>3. /\ asked_interrupts \in Seq(Requests) /\ scan \in Nat /\ num_postponed \in Nat
      /\ num_postponed < scan /\ scan <= Len(asked_interrupts) + 1
      /\ Distinct(asked_interrupts, num_postponed, scan)
      /\ is_waiting \in BOOLEAN
      /\ (Awaited(TimerRequest) => is_waiting)
  BY <1>1 DEF QueueInv
<1>4. Len(asked_interrupts) \in Nat
  BY <1>3
<1>5. scan = Len(asked_interrupts) + 1 /\ num_postponed <= Len(asked_interrupts)
  BY <1>3, <1>4
<1>6. /\ c \in Seq(Requests) /\ Distinct(c, 0, 1)
      /\ \A x : WaitsIn(c, 0, 1, x) <=> Awaited(x)
  BY <1>3, <1>5, CutWaits DEF Awaited
<1> HIDE DEF c
<1>7. Len(c) \in Nat
  BY <1>6
<1>8. Awaited(TimerRequest)' => is_waiting'
  BY <1>2, <1>3, <1>6 DEF Awaited
<1>9. Awaited(ModemRequest)' <=> Awaited(ModemRequest)
  BY <1>2, <1>6 DEF Awaited
<1>10. QueueInv'
  BY <1>2, <1>3, <1>6, <1>7, <1>8 DEF QueueInv
<1> QED
  BY <1>2, <1>9, <1>10, PassInv

LEMMA MainLoopInv ==
    ASSUME Inv, MainLoop
    PROVE  Inv' /\ (Cpu!DispatchEnter \/ (Awaited(ModemRequest)' <=> Awaited(ModemRequest)))
<1>1. UNCHANGED seen /\ ModemRests /\ QueueInv
  BY DEF MainLoop, Inv
<1>2. CASE Cpu!ExecSkip \/ Cpu!EndBatch \/ Cpu!CrtDone \/ Cpu!TimerIdle
  <2>1. BetweenInstructions /\ UNCHANGED <<asked_interrupts, is_waiting>>
    BY <1>1, <1>2 DEF Cpu!ExecSkip, Cpu!EndBatch, Cpu!CrtDone, Cpu!TimerIdle, Cpu!NextTurn,
       Cpu!Untouched, Cpu!frames, Cpu!locals, Cpu!devices, BetweenInstructions
  <2>2. QueueInv' /\ (Awaited(ModemRequest)' <=> Awaited(ModemRequest))
    BY <1>1, <2>1, QueueSame DEF SameQueue, BetweenInstructions
  <2> QED
    BY <1>1, <2>1, <2>2, IdleInv
<1>3. CASE Cpu!DispatchCrash
  <2> DEFINE e == asked_interrupts[scan]
  <2>1. scan <= Len(asked_interrupts) /\ e.type = Cpu!VM_INTR_EXCEPTION
    BY <1>3 DEF Cpu!DispatchCrash, Cpu!Dispatching, Cpu!Current
  <2>2. e \in Requests
    <3>1. scan \in 1 .. Len(asked_interrupts) /\ asked_interrupts \in Seq(Requests)
      BY <1>1, <2>1 DEF QueueInv
    <3> QED
      BY <3>1, ElementOfSeq
  <2> QED
    BY <2>1, <2>2 DEF Requests, ModemRequest, TimerRequest, Cpu!Interrupt, INTR_MODEM,
                      INTR_TIMER1, Cpu!VM_INTR_EXCEPTION
<1>4. CASE Cpu!DispatchEnd
  BY <1>1, <1>4, DispatchEndInv DEF Cpu!DispatchEnd
<1>5. CASE Cpu!DispatchEnter \/ Cpu!DispatchIgnore \/ Cpu!DispatchPostpone
  BY <1>1, <1>5, DispatchEnterInv, DispatchIgnoreInv, DispatchPostponeInv
<1> QED
  BY <1>2, <1>3, <1>4, <1>5 DEF MainLoop, Cpu!Dispatch

\* Nothing of the processor or of the program changes.
LEMMA CpuRests ==
    ASSUME Inv, UNCHANGED <<cpuVars, seen>>
    PROVE  /\ QueueInv' /\ (Awaited(ModemRequest)' <=> Awaited(ModemRequest))
           /\ UNCHANGED <<pc, interrupts_disabled, phase, interrupt_vector, interrupt_type,
                          interrupt_return_addr>>
           /\ (Receiving' <=> Receiving)
           /\ (noticed' \in BOOLEAN /\ destroyed' \in BOOLEAN
                 /\ (destroyed' => phase = "stopped") => ProgramInv')
<1>1. /\ UNCHANGED <<pc, interrupts_disabled, phase, interrupt_vector, interrupt_type,
                     interrupt_return_addr, is_waiting, seen>>
      /\ SameQueue
  BY DEF cpuVars, SameQueue
<1>2. QueueInv' /\ (Awaited(ModemRequest)' <=> Awaited(ModemRequest))
  BY <1>1, QueueSame DEF Inv
<1>3. noticed' \in BOOLEAN /\ destroyed' \in BOOLEAN /\ (destroyed' => phase = "stopped")
        => ProgramInv'
  BY <1>1 DEF Inv, ProgramInv, Main, Handling
<1> QED
  BY <1>1, <1>2, <1>3 DEF Receiving

LEMMA ExitInv == ASSUME Inv, Exit PROVE Inv'
<1>1. QueueInv /\ ProgramInv /\ ModemInv /\ AskInv
  BY DEF Inv
<1>2. /\ phase = "stopped" /\ UNCHANGED <<cpuVars, seen, noticed>>
      /\ destroyed' = TRUE /\ peer' = "none" /\ unread' = 0
      /\ UNCHANGED <<fd, status, arg_a, arg_b>>
  BY DEF Exit, programVars, Dev!Destroy, Dev!regs, Dev!args
<1>3. /\ QueueInv' /\ (Awaited(ModemRequest)' <=> Awaited(ModemRequest))
      /\ UNCHANGED <<pc, interrupts_disabled>>
      /\ (Receiving' <=> Receiving)
  BY <1>2, CpuRests
<1>4. ProgramInv'
  <2>1. noticed' \in BOOLEAN /\ destroyed' \in BOOLEAN /\ (destroyed' => phase = "stopped")
    BY <1>1, <1>2 DEF ProgramInv
  <2> QED
    BY <1>2, <2>1, CpuRests
<1>5. ModemInv'
  BY <1>1, <1>2, <1>3 DEF ModemInv
<1>6. AskInv'
  BY <1>1, <1>2, <1>3 DEF AskInv
<1> QED
  BY <1>3, <1>4, <1>5, <1>6 DEF Inv

LEMMA NetworkInv == ASSUME Inv, Network PROVE Inv'
<1>1. QueueInv /\ ProgramInv /\ ModemInv /\ AskInv
  BY DEF Inv
<1>2. UNCHANGED <<cpuVars, seen, noticed>> /\ Dev!Network
  BY DEF Network, programVars
<1>3. /\ ~destroyed /\ UNCHANGED <<fd, status, arg_a, arg_b, destroyed>>
      /\ peer \in {"open", "shut"}
      /\ \/ peer' = "open" /\ unread' = unread + 1
         \/ peer' = "shut" /\ unread' = unread
         \/ peer' \in {"reset", "failed"} /\ unread' \in {0, unread}
  BY <1>2 DEF Dev!Network, Dev!PeerSends, Dev!PeerShutsDown, Dev!ConnectionLost, Dev!NetStep,
              Dev!Running, Dev!regs, Dev!args
<1>4. /\ QueueInv' /\ (Awaited(ModemRequest)' <=> Awaited(ModemRequest))
      /\ UNCHANGED <<pc, interrupts_disabled>>
      /\ (Receiving' <=> Receiving)
  BY <1>2, CpuRests
<1>5. ProgramInv'
  <2>1. noticed' \in BOOLEAN /\ destroyed' \in BOOLEAN /\ (destroyed' => phase = "stopped")
    BY <1>1, <1>2, <1>3 DEF ProgramInv
  <2> QED
    BY <1>2, <2>1, CpuRests
<1>6. fd # -1
  BY <1>1, <1>3 DEF ModemInv
<1>7. ModemInv'
  <2>1. unread' \in Nat
    BY <1>1, <1>3 DEF ModemInv
  <2>2. peer' \in {"open", "shut", "reset", "failed"}
    BY <1>3
  <2> QED
    BY <1>1, <1>3, <1>4, <1>6, <2>1, <2>2 DEF ModemInv
<1>8. AskInv'
  <2>1. "INCM" \notin status => ~(Awaited(ModemRequest) \/ Receiving)
    BY <1>1, <1>3 DEF AskInv
  <2>2. "INCM" \in status => unread > 0 /\ unread \in Nat
    BY <1>1, <1>3 DEF AskInv, ModemInv
  <2>3. "INCM" \in status' /\ peer' \in {"open", "shut"} => unread' > 0
    BY <1>3, <2>2
  <2> QED
    BY <1>1, <1>3, <1>4, <2>1, <2>3 DEF AskInv
<1> QED
  BY <1>4, <1>5, <1>7, <1>8 DEF Inv

LEMMA NextInv == Inv /\ [Next]_vars => Inv'
<1> SUFFICES ASSUME Inv, [Next]_vars PROVE Inv'
  OBVIOUS
<1>1. CASE Program
  BY <1>1, SetHandlerInv, PutArgumentInv, PutCommandInv, PutRecvInv, GetStatusInv, BranchInv,
     StraightInv, ControlInv DEF Program
<1>2. CASE MainLoop
  BY <1>2, MainLoopInv
<1>3. CASE ModemUpdate
  BY <1>3, ModemUpdateInv
<1>4. CASE TimerFires
  BY <1>4, TimerFiresInv
<1>5. CASE Exit
  BY <1>5, ExitInv
<1>6. CASE UNCHANGED vars
  <2>1. UNCHANGED <<cpuVars, modemVars, seen, noticed>>
    BY <1>6 DEF vars, programVars
  <2>2. UNCHANGED <<fd, status, arg_a, arg_b, peer, unread, destroyed>>
    BY <2>1 DEF modemVars
  <2>3. QueueInv /\ ProgramInv /\ ModemInv /\ AskInv
    BY DEF Inv
  <2>4. /\ QueueInv' /\ (Awaited(ModemRequest)' <=> Awaited(ModemRequest))
        /\ UNCHANGED <<pc, interrupts_disabled, phase>>
        /\ (Receiving' <=> Receiving)
    BY <2>1, CpuRests
  <2>5. ProgramInv'
    <3>1. noticed' \in BOOLEAN /\ destroyed' \in BOOLEAN /\ (destroyed' => phase = "stopped")
      BY <2>1, <2>2, <2>3 DEF ProgramInv
    <3> QED
      BY <2>1, <3>1, CpuRests
  <2>6. ModemInv' /\ AskInv'
    BY <2>2, <2>3, <2>4 DEF ModemInv, AskInv
  <2> QED
    BY <2>4, <2>5, <2>6 DEF Inv
<1>7. CASE Network
  BY <1>7, NetworkInv
<1> QED
  BY <1>1, <1>2, <1>3, <1>4, <1>5, <1>6, <1>7 DEF Next, Machine, Exited

-----------------------------------------------------------------------------
(* The theorems.                                                            *)

\* The four parts of the inductive invariant hold in every reachable state: the
\* processor's queue, the program's frames, the modem's registers and what they
\* say of each other (mainloop.c:121-161, modem.c:77-87, examples/v2/modem.s).
THEOREM Invariance == Spec => []Inv
  BY InitInv, NextInv, PTL DEF Spec

\* The handler is at its own instructions exactly while it is in a frame, and
\* returns to the main program (mainloop.c:121-143, examples/v2/modem.s:90-112).
THEOREM TypeCorrect == Spec => []TypeOK
<1>1. Inv => TypeOK
  <2> SUFFICES ASSUME Inv PROVE TypeOK
    OBVIOUS
  <2>1. ProgramInv
    BY DEF Inv
  <2>2. interrupt_return_addr \in Seq(Main)
    <3>1. CASE pc \in Handling
      <4>1. PICK r \in CONNECT + 3 .. PRINTER : interrupt_return_addr = <<r>>
        BY <2>1, <3>1 DEF ProgramInv
      <4>2. r \in Main
        BY DEF Main, MAIN, CONNECT, PRINTER
      <4> QED
        BY <4>1, <4>2
    <3>2. CASE pc \notin Handling
      BY <2>1, <3>2 DEF ProgramInv
    <3> QED
      BY <3>1, <3>2
  <2> QED
    BY <2>1, <2>2 DEF ProgramInv, TypeOK
<1> QED
  BY <1>1, Invariance, PTL

\* An announcement of the modem is never lost between its flag, the queue and
\* the handler (modem.c:77-87, 207, mainloop.c:121-161).
THEOREM Kept == Spec => []AnnouncementKept
<1>1. Inv => AnnouncementKept
  BY PendingWaits DEF Inv, AskInv, AnnouncementKept
<1> QED
  BY <1>1, Invariance, PTL

\* The queue holds one request of each device at most, and none of the modem
\* while its handler has still to receive (state.c:97-108, modem.c:77-87).
THEOREM QueueBounded == Spec => []OneRequestEach
<1>1. Inv => OneRequestEach
  BY PendingWaits DEF Inv, AskInv, OneRequestEach
<1> QED
  BY <1>1, Invariance, PTL

\* While the connection lives, the handler is run only for bytes it can receive
\* (modem.c:77-87, 188-216).
THEOREM HandlerHasBytes == Spec => []NeverInVain
<1>1. Inv => NeverInVain
  BY DEF Inv, AskInv, NeverInVain
<1> QED
  BY <1>1, Invariance, PTL

-----------------------------------------------------------------------------
(* The modem of the program is that of Modem.                               *)

\* m2 is what m is when the request ModemAsked was there before.
Matches(m, m2) ==
    /\ m2.fd = m.fd /\ m2.status = m.status /\ m2.error = m.error /\ m2.arg_b = m.arg_b
    /\ m2.open_fds = m.open_fds
    /\ m2.peer = m.peer /\ m2.unread = m.unread /\ m2.sent = m.sent
    /\ \/ m.asked = No /\ m2.asked = ModemAsked
       \/ m.asked = Rung(No) /\ m2.asked = Rung(ModemAsked)

LEMMA MatchQuiet ==
    ASSUME NEW f, NEW s, NEW e, NEW b, NEW o, NEW p, NEW u, NEW n
    PROVE  Matches(Registers(f, s, e, b, No, o, p, u, n),
                   Registers(f, s, e, b, ModemAsked, o, p, u, n))
  BY DEF Matches, Registers

LEMMA MatchRung ==
    ASSUME NEW f, NEW s, NEW e, NEW b, NEW o, NEW p, NEW u, NEW n
    PROVE  Matches(Registers(f, s, e, b, Rung(No), o, p, u, n),
                   Registers(f, s, e, b, Rung(ModemAsked), o, p, u, n))
  BY DEF Matches, Registers

LEMMA MatchLost ==
    ASSUME NEW x, NEW b, NEW o
    PROVE  Matches(Lost(x, b, No, o), Lost(x, b, ModemAsked, o))
  BY MatchQuiet DEF Lost

LEMMA ConnectMatch ==
    ASSUME NEW m \in Dev!ConnectOutcomes(Silent)
    PROVE  \E m2 \in Dev!ConnectOutcomes(Dev!Now) : Matches(m, m2)
<1>1. m \in ConnectTo(No) /\ Dev!ConnectOutcomes(Dev!Now) = ConnectTo(ModemAsked)
  BY NowFields, ConnectCases DEF NowWith
<1>2. CASE m = Lost("CONNFAIL", arg_b, No, (open_fds \ {fd}) \ {-1})
  <2>1. Lost("CONNFAIL", arg_b, ModemAsked, (open_fds \ {fd}) \ {-1}) \in ConnectTo(ModemAsked)
    BY DEF ConnectTo
  <2> QED
    BY <1>1, <1>2, <2>1, MatchLost
<1>3. ASSUME NEW f \in Descriptors \ (open_fds \ {fd}), m \in SocketTo(f, No)
      PROVE  \E m2 \in ConnectTo(ModemAsked) : Matches(m, m2)
  <2> DEFINE o == (open_fds \ {fd}) \cup {f}
             good(a) == Registers(f, {"LINE"} \cup {"CONN"}, "NONE", arg_b, a, o, "open", 0, 0)
  <2>1. SocketTo(f, ModemAsked) \subseteq ConnectTo(ModemAsked)
    BY DEF ConnectTo
  <2>2. \A x : Lost(x, arg_b, No, o \ {f}) \in SocketTo(f, No) =>
               Matches(Lost(x, arg_b, No, o \ {f}), Lost(x, arg_b, ModemAsked, o \ {f}))
    BY MatchLost
  <2>3. Matches(good(No), good(ModemAsked))
    BY MatchQuiet
  <2>4. ASSUME NEW a
        PROVE  SocketTo(f, a) =
            {Lost("SEGFAULT", arg_b, a, o \ {f})}
            \cup IF ~Dev!Mapped(arg_a) THEN {} ELSE
                 {Lost("BADADDR", arg_b, a, o \ {f}), Lost("CONNFAIL", arg_b, a, o \ {f}), good(a)}
    BY DEF SocketTo
  <2> HIDE DEF o, good
  <2>5. CASE m = good(No) /\ Dev!Mapped(arg_a)
    <3>1. good(ModemAsked) \in SocketTo(f, ModemAsked)
      BY <2>4, <2>5
    <3> QED
      BY <2>1, <2>3, <2>5, <3>1
  <2>6. ASSUME NEW x \in {"SEGFAULT", "BADADDR", "CONNFAIL"}, m = Lost(x, arg_b, No, o \ {f}),
               x = "SEGFAULT" \/ Dev!Mapped(arg_a)
        PROVE  \E m2 \in ConnectTo(ModemAsked) : Matches(m, m2)
    <3>1. Lost(x, arg_b, ModemAsked, o \ {f}) \in SocketTo(f, ModemAsked)
      BY <2>4, <2>6
    <3>2. Matches(m, Lost(x, arg_b, ModemAsked, o \ {f}))
      BY <2>6, MatchLost
    <3> QED
      BY <2>1, <3>1, <3>2
  <2>7. \/ m = good(No) /\ Dev!Mapped(arg_a)
        \/ m = Lost("SEGFAULT", arg_b, No, o \ {f})
        \/ m = Lost("BADADDR", arg_b, No, o \ {f}) /\ Dev!Mapped(arg_a)
        \/ m = Lost("CONNFAIL", arg_b, No, o \ {f}) /\ Dev!Mapped(arg_a)
    BY <1>3, <2>4
  <2> QED
    BY <2>5, <2>6, <2>7
<1> QED
  BY <1>1, <1>2, <1>3 DEF ConnectTo

LEMMA SendMatch ==
    ASSUME fd # -1 => peer \in {"open", "shut", "reset", "failed"},
           NEW m \in Dev!SendOutcomes(Silent)
    PROVE  \E m2 \in Dev!SendOutcomes(Dev!Now) : Matches(m, m2)
<1>1. m \in SendTo(No) /\ Dev!SendOutcomes(Dev!Now) = SendTo(ModemAsked)
  BY NowFields, SendCases DEF NowWith
<1>2. CASE \E k : /\ m = Registers(fd, status, error, k, No, open_fds, peer, unread, sent)
                  /\ Registers(fd, status, error, k, ModemAsked, open_fds, peer, unread, sent)
                        \in SendTo(ModemAsked)
  BY <1>1, <1>2, MatchQuiet
<1>3. CASE \E x : /\ m = Lost(x, 0, No, open_fds \ {fd})
                  /\ Lost(x, 0, ModemAsked, open_fds \ {fd}) \in SendTo(ModemAsked)
  BY <1>1, <1>3, MatchLost
<1>4. CASE \E s : /\ m = Registers(fd, s, "SEGFAULT", 0, No, open_fds, peer, unread, sent)
                  /\ Registers(fd, s, "SEGFAULT", 0, ModemAsked, open_fds, peer, unread, sent)
                        \in SendTo(ModemAsked)
  BY <1>1, <1>4, MatchQuiet
<1>5. CASE fd = -1 \/ (Dev!InBounds(arg_a, arg_b) /\ peer \in {"reset", "failed"})
  BY <1>1, <1>3, <1>5 DEF SendTo
<1>6. CASE fd # -1 /\ ~Dev!InBounds(arg_a, arg_b)
  BY <1>1, <1>4, <1>6 DEF SendTo
<1>7. CASE fd # -1 /\ Dev!InBounds(arg_a, arg_b) /\ peer \in {"open", "shut"}
  <2>1. CASE m = Lost("CONNFAIL", 0, No, open_fds \ {fd}) /\ Dev!Wraps(arg_a, arg_b)
    BY <1>1, <1>3, <1>7, <2>1 DEF SendTo
  <2>2. CASE \E k \in 0 .. arg_b :
               m = Registers(fd, status, error, k, No, open_fds, peer, unread, sent)
    BY <1>1, <1>2, <1>7, <2>2 DEF SendTo
  <2> QED
    BY <1>1, <1>7, <2>1, <2>2 DEF SendTo
<1> QED
  BY <1>5, <1>6, <1>7

LEMMA UpdatedMatch ==
    ASSUME fd # -1 => peer \in {"open", "shut", "reset", "failed"}, unread \in Nat,
           NEW m \in Dev!Updated(Silent)
    PROVE  \E m2 \in Dev!Updated(Dev!Now) : Matches(m, m2)
<1> DEFINE To(a) == UpdatedTo(fd, status, error, arg_b, a, open_fds, peer, unread, sent)
<1>1. m \in To(No) /\ Dev!Updated(Dev!Now) = To(ModemAsked)
  BY NowFields, UpdatedCases
<1> HIDE DEF To
<1>2. CASE /\ m = NowWith(No) /\ NowWith(ModemAsked) \in To(ModemAsked)
  BY <1>1, <1>2, MatchQuiet DEF NowWith
<1>3. CASE \E x : /\ m = Lost(x, arg_b, No, open_fds \ {fd})
                  /\ Lost(x, arg_b, ModemAsked, open_fds \ {fd}) \in To(ModemAsked)
  BY <1>1, <1>3, MatchLost
<1>4. CASE fd = -1 \/ (unread = 0 /\ peer = "open")
  <2>1. m = NowWith(No) /\ NowWith(ModemAsked) \in To(ModemAsked)
    BY <1>1, <1>4 DEF To, UpdatedTo, NowWith
  <2> QED
    BY <1>2, <2>1
<1>5. CASE fd # -1 /\ unread = 0 /\ peer \in {"reset", "failed"}
  BY <1>1, <1>3, <1>5 DEF To, UpdatedTo, Lost
<1>6. CASE fd # -1 /\ unread > 0
  <2>1. \A a : To(a) = {Dev!Announced(NowWith(a))}
    BY <1>6 DEF To, UpdatedTo, NowWith
  <2>2. CASE "INCM" \in status
    <3>1. \A a : Dev!Announced(NowWith(a)) = NowWith(a)
      BY <2>2, AnnouncedFields DEF NowWith
    <3> QED
      BY <1>1, <1>2, <2>1, <3>1
  <2>3. CASE "INCM" \notin status
    <3> DEFINE s == status \cup {"INCM"}
               at(x) == Registers(fd, s, error, arg_b, x, open_fds, peer, unread, sent)
    <3>1. \A a : Dev!Announced(NowWith(a)) = at(Rung(a))
      BY <2>3, AnnouncedFields DEF NowWith
    <3> HIDE DEF s
    <3>2. Matches(at(Rung(No)), at(Rung(ModemAsked)))
      BY MatchRung
    <3> HIDE DEF at
    <3> QED
      BY <1>1, <2>1, <3>1, <3>2
  <2> QED
    BY <2>2, <2>3
<1>7. CASE fd # -1 /\ unread = 0 /\ peer = "shut"
  <2> DEFINE o == open_fds \ {fd}
             s == {"FAIL", "LINE"} \cup {"INCM"}
             q == status \ {"INCM"}
             gone(x) == Registers(-1, s, "CONNRESET", arg_b, x, o, "none", 0, 0)
             still(x) == Registers(fd, q, error, arg_b, x, open_fds, "reset", unread, sent)
  <2>1. \A a : To(a) = {gone(Rung(a)), still(a)}
    BY <1>7 DEF To, UpdatedTo
  <2> HIDE DEF o, s, q
  <2>2. Matches(gone(Rung(No)), gone(Rung(ModemAsked)))
    BY MatchRung
  <2>3. Matches(still(No), still(ModemAsked))
    BY MatchQuiet
  <2> HIDE DEF gone, still
  <2> QED
    BY <1>1, <2>1, <2>2, <2>3
<1> QED
  BY <1>4, <1>5, <1>6, <1>7

LEMMA ReceiveMatch ==
    ASSUME ModemInv, ProgramInv, AskInv, ~destroyed, pc = RECV,
           NEW m \in Dev!ReceiveOutcomes(Silent)
    PROVE  \E m2 \in Dev!ReceiveOutcomes(Dev!Now) : Matches(m, m2)
<1>1. m \in ReceiveTo(No) /\ Dev!ReceiveOutcomes(Dev!Now) = ReceiveTo(ModemAsked)
  <2>1. ASSUME NEW a PROVE Dev!ReceiveOutcomes(NowWith(a)) = ReceiveTo(a)
    BY ReceiveReady, ReceiveCases
  <2> QED
    BY <2>1, NowFields DEF NowWith
<1>2. CASE \E x : /\ m = Lost(x, 0, No, open_fds \ {fd})
                  /\ Lost(x, 0, ModemAsked, open_fds \ {fd}) \in ReceiveTo(ModemAsked)
  BY <1>1, <1>2, MatchLost
<1>3. CASE ~(fd # -1 /\ unread > 0)
  BY <1>1, <1>2, <1>3 DEF ReceiveTo
<1>4. CASE fd # -1 /\ unread > 0
  <2> DEFINE s == status \ {"INCM"}
             got(k, x) == Registers(fd, s, error, k, x, open_fds, peer, unread - k, sent)
             K == {j \in 0 .. unread : fd # -1 /\ j <= arg_b /\ (arg_b > 0 => j > 0)}
  <2>1. \A a : ReceiveTo(a) = {Lost("CONNFAIL", 0, a, open_fds \ {fd})} \cup {got(k, a) : k \in K}
    BY <1>4 DEF ReceiveTo, TakenTo
  <2> HIDE DEF s, K
  <2>2. \A k : Matches(got(k, No), got(k, ModemAsked))
    BY MatchQuiet
  <2> HIDE DEF got
  <2>3. Matches(Lost("CONNFAIL", 0, No, open_fds \ {fd}), Lost("CONNFAIL", 0, ModemAsked, open_fds \ {fd}))
    BY MatchLost
  <2> QED
    BY <1>1, <2>1, <2>2, <2>3
<1> QED
  BY <1>3, <1>4

LEMMA AskedIsAwaited == QueueInv => (ModemAsked <=> Awaited(ModemRequest))
  BY PendingWaits

LEMMA AskedIsTruth == ModemAsked \in BOOLEAN
  BY DEF ModemAsked

\* When what waits of the modem's requests stays, so does asked.
LEMMA AskedStays ==
    ASSUME QueueInv, QueueInv', Awaited(ModemRequest)' <=> Awaited(ModemRequest)
    PROVE  ModemAsked' = ModemAsked
<1>1. (QueueInv => (ModemAsked <=> Awaited(ModemRequest)))'
  BY AskedIsAwaited, PTL
<1>2. (ModemAsked \in BOOLEAN)'
  BY AskedIsTruth, PTL
<1>3. ModemAsked' <=> ModemAsked
  BY <1>1, AskedIsAwaited
<1> QED
  BY <1>2, <1>3, AskedIsTruth

LEMMA TakesWaits ==
    ASSUME QueueInv, phase # "dispatch", scan' = 1, num_postponed' = 0,
           NEW m, Takes(m), m.asked \in BOOLEAN
    PROVE  Awaited(ModemRequest)' <=> Awaited(ModemRequest) \/ m.asked
<1>1. asked_interrupts \in Seq(Requests) /\ scan = 1 /\ num_postponed = 0
  BY DEF QueueInv
<1>2. asked_interrupts' = IF m.asked THEN Append(asked_interrupts, ModemRequest)
                          ELSE asked_interrupts
  BY DEF Takes, Queued, ModemRequest
<1>3. ModemRequest \in Requests
  BY DEF Requests
<1>4. WaitsIn(Append(asked_interrupts, ModemRequest), 0, 1, ModemRequest)
  BY <1>1, <1>3, AppendWaits
<1> QED
  BY <1>1, <1>2, <1>4 DEF Awaited

LEMMA BecomesMatch ==
    ASSUME QueueInv, QueueInv', phase # "dispatch", scan' = 1, num_postponed' = 0,
           NEW m, Takes(m), NEW m2, Matches(m, m2)
    PROVE  Dev!Become(m2)
<1>1. Rung(No) = ~interrupts_disabled /\ No = FALSE
      /\ Rung(ModemAsked) = (ModemAsked \/ ~interrupts_disabled)
  BY DEF Rung, No
<1>2. m.asked \in BOOLEAN
  BY <1>1 DEF Matches
<1>3. (QueueInv => (ModemAsked <=> Awaited(ModemRequest)))'
  BY AskedIsAwaited, PTL
<1>4. (ModemAsked \in BOOLEAN)'
  BY AskedIsTruth, PTL
<1>5. ModemAsked' <=> ModemAsked \/ m.asked
  BY <1>2, <1>3, AskedIsAwaited, TakesWaits
<1>6. ModemAsked' = m2.asked
  <2>1. CASE m.asked = No /\ m2.asked = ModemAsked
    <3>1. ModemAsked' <=> ModemAsked
      BY <1>1, <1>5, <2>1
    <3> QED
      BY <1>4, <2>1, <3>1, AskedIsTruth
  <2>2. CASE m.asked = Rung(No) /\ m2.asked = Rung(ModemAsked)
    <3>1. ModemAsked' <=> (ModemAsked \/ ~interrupts_disabled)
      BY <1>1, <1>5, <2>2
    <3>2. m2.asked = (ModemAsked \/ ~interrupts_disabled)
      BY <1>1, <2>2
    <3> QED
      BY <1>4, <3>1, <3>2
  <2> QED
    BY <2>1, <2>2 DEF Matches
<1> QED
  BY <1>6 DEF Takes, Matches, Dev!Become

\* A step that leaves the modem, its request and the mask is a stutter of Modem.
LEMMA ModemStutters ==
    ASSUME UNCHANGED <<modemVars, interrupts_disabled>>, ModemAsked' = ModemAsked
    PROVE  UNCHANGED Dev!vars
  BY DEF modemVars, Dev!vars, Dev!regs, Dev!args, Dev!net

LEMMA RestIsStutter ==
    ASSUME Inv, Inv', UNCHANGED interrupts_disabled, ModemRests,
           Awaited(ModemRequest)' <=> Awaited(ModemRequest)
    PROVE  UNCHANGED Dev!vars
<1>1. ModemAsked' = ModemAsked
  BY AskedStays DEF Inv
<1> QED
  BY <1>1, ModemStutters DEF ModemRests

\* Only cli of quit touches the mask.
LEMMA MaskStays ==
    ASSUME SetHandler \/ PutArgument \/ PutCommand \/ PutRecv \/ GetStatus \/ Branch
              \/ Straight \/ MainLoop \/ ModemUpdate \/ TimerFires
    PROVE  UNCHANGED interrupts_disabled
<1>1. CASE SetHandler
  BY <1>1 DEF SetHandler, Cpu!ExecSetVector
<1>2. CASE PutArgument
  BY <1>2, QuietStep DEF PutArgument, Plain
<1>3. CASE Branch
  <2>1. \E next : Quietly(next)
    BY <1>3 DEF Branch
  <2> QED
    BY <2>1, QuietStep DEF Plain
<1>4. CASE Straight
  BY <1>4, QuietStep DEF Straight, Plain
<1>5. CASE PutCommand \/ PutRecv \/ GetStatus
  BY <1>5, OrdinaryStep DEF PutCommand, PutRecv, GetStatus, Access, Plain
<1>6. CASE MainLoop
  BY <1>6 DEF MainLoop, Cpu!ExecSkip, Cpu!EndBatch, Cpu!CrtDone, Cpu!TimerIdle, Cpu!Untouched,
     Cpu!Dispatch, Cpu!DispatchEnter, Cpu!DispatchIgnore, Cpu!DispatchPostpone,
     Cpu!DispatchCrash, Cpu!DispatchEnd, Cpu!EndPass
<1>7. CASE ModemUpdate \/ TimerFires
  BY <1>7 DEF ModemUpdate, Cpu!ModemUpdate, TimerFires, Cpu!TimerFires, Cpu!Untouched
<1> QED
  BY <1>1, <1>2, <1>3, <1>4, <1>5, <1>6, <1>7

\* What the handler receives lies in its buffer, and so in RAM.
LEMMA NextIntact == Inv /\ Dev!Intact /\ [Next]_vars => Dev!Intact'
<1> SUFFICES ASSUME Inv, Dev!Intact, [Next]_vars PROVE Dev!Intact'
  OBVIOUS
<1>1. CASE PutRecv
  <2>1. QueueInv /\ ProgramInv /\ ModemInv /\ AskInv
    BY DEF Inv
  <2>2. pc = RECV /\ ~destroyed
    <3>1. phase = "exec"
      BY <1>1, OrdinaryStep DEF PutRecv, Access, Plain, Instruction
    <3> QED
      BY <1>1, <2>1, <3>1 DEF PutRecv, ProgramInv
  <2>3. PICK m \in Dev!ReceiveOutcomes(Silent) : Takes(m)
    BY <1>1 DEF PutRecv, Access
  <2>4. arg_b' \in 0 .. arg_b
    BY <2>1, <2>2, <2>3, ReceiveFollows DEF Receives, Takes
  <2>5. arg_a = BUF_BEGIN /\ arg_b = BUF_SIZE
    BY <2>1, <2>2 DEF ModemInv, RECV, INT_MODEM
  <2>6. written' = BUF_BEGIN .. BUF_BEGIN + arg_b' - 1 /\ arg_b' \in 0 .. BUF_SIZE
    BY <1>1, <2>4, <2>5 DEF PutRecv
  <2>7. /\ SYSMEM_END \in Nat /\ RAM_END \in Nat /\ BUF_BEGIN \in Nat /\ BUF_SIZE \in Nat
        /\ SYSMEM_END <= BUF_BEGIN /\ BUF_BEGIN + BUF_SIZE < RAM_END
    BY ReceiverAssumption
  <2>8. ASSUME NEW k \in 0 .. BUF_SIZE
        PROVE  BUF_BEGIN .. BUF_BEGIN + k - 1 \subseteq SYSMEM_END .. RAM_END - 1
    <3>1. SYSMEM_END <= BUF_BEGIN /\ BUF_BEGIN + k - 1 <= RAM_END - 1 /\ k \in Nat
      BY <2>7
    <3> QED
      BY <2>7, <3>1
  <2>9. written' \subseteq SYSMEM_END .. RAM_END - 1
    BY <2>6, <2>8
  <2> QED
    BY <2>9 DEF Dev!Intact
<1>2. CASE PutCommand
  BY <1>2 DEF PutCommand, Dev!Intact
<1>3. CASE ~PutRecv /\ ~PutCommand
  <2>1. UNCHANGED written
    BY <1>3 DEF Next, Machine, Program, SetHandler, PutArgument, GetStatus, Branch, Straight,
       Control, MainLoop, ModemUpdate, TimerFires, Exit, Exited, Network, ModemRests, modemVars,
       vars, Dev!Destroy, Dev!regs, Dev!args, Dev!Network, Dev!PeerSends, Dev!PeerShutsDown,
       Dev!ConnectionLost, Dev!NetStep
  <2> QED
    BY <2>1 DEF Dev!Intact
<1> QED
  BY <1>1, <1>2, <1>3

\* An access or the modem's turn of the main loop is a step of Modem.
LEMMA CommandIsModem ==
    ASSUME Inv, Inv', Dev!Intact, PutCommand \/ PutRecv \/ GetStatus \/ ModemUpdate
    PROVE  Dev!Next
<1>1. QueueInv /\ ProgramInv /\ ModemInv /\ AskInv /\ QueueInv'
  BY DEF Inv
<1>2. phase # "dispatch" /\ phase # "stopped" /\ scan' = 1 /\ num_postponed' = 0
  <2>1. CASE PutCommand \/ PutRecv \/ GetStatus
    BY <2>1, OrdinaryStep DEF PutCommand, PutRecv, GetStatus, Access, Plain, Instruction
  <2>2. CASE ModemUpdate
    BY <1>1, <2>2 DEF ModemUpdate, Cpu!ModemUpdate, Cpu!Untouched, Cpu!locals, QueueInv
  <2> QED
    BY <2>1, <2>2
<1>3. ~destroyed /\ Dev!Running
  BY <1>1, <1>2 DEF ProgramInv, Dev!Running
<1>4. UNCHANGED interrupts_disabled
  BY MaskStays
<1>5. /\ fd # -1 => peer \in {"open", "shut", "reset", "failed"}
      /\ unread \in Nat
  BY <1>1, <1>3 DEF ModemInv
<1>6. ASSUME NEW m, Takes(m), NEW m2, Matches(m, m2)
      PROVE  Dev!Become(m2) /\ UNCHANGED <<arg_a, destroyed>> /\ arg_b' = m2.arg_b
  <2>1. Dev!Become(m2)
    BY <1>1, <1>2, <1>6, BecomesMatch
  <2> QED
    BY <1>6, <2>1 DEF Takes, Matches
<1>7. CASE GetStatus \/ ModemUpdate
  <2>1. PICK m \in Dev!Updated(Silent) : Takes(m) /\ UNCHANGED written
    BY <1>7 DEF GetStatus, Access, ModemUpdate
  <2>2. PICK m2 \in Dev!Updated(Dev!Now) : Matches(m, m2)
    BY <1>5, UpdatedMatch
  <2>3. Dev!UpdateStep
    BY <1>3, <1>4, <1>6, <2>1, <2>2 DEF Dev!UpdateStep
  <2> QED
    BY <2>3 DEF Dev!Next
<1>8. CASE PutCommand
  <2>1. CASE Access(Dev!ConnectOutcomes(Silent))
    <3>1. PICK m \in Dev!ConnectOutcomes(Silent) : Takes(m)
      BY <2>1 DEF Access
    <3>2. PICK m2 \in Dev!ConnectOutcomes(Dev!Now) : Matches(m, m2)
      BY ConnectMatch
    <3>3. Dev!Connect
      BY <1>3, <1>4, <1>6, <1>8, <3>1, <3>2 DEF Dev!Connect, Dev!Command, PutCommand
    <3> QED
      BY <3>3 DEF Dev!Next, Dev!Commands
  <2>2. CASE Access(Dev!SendOutcomes(Silent))
    <3>1. PICK m \in Dev!SendOutcomes(Silent) : Takes(m)
      BY <2>2 DEF Access
    <3>2. PICK m2 \in Dev!SendOutcomes(Dev!Now) : Matches(m, m2)
      BY <1>5, SendMatch
    <3>3. Dev!Send
      BY <1>3, <1>4, <1>6, <1>8, <3>1, <3>2 DEF Dev!Send, Dev!Command, PutCommand
    <3> QED
      BY <3>3 DEF Dev!Next, Dev!Commands
  <2> QED
    BY <1>8, <2>1, <2>2 DEF PutCommand
<1>9. CASE PutRecv
  <2>1. PICK m \in Dev!ReceiveOutcomes(Silent) : Takes(m)
    BY <1>9 DEF PutRecv, Access
  <2>2. PICK m2 \in Dev!ReceiveOutcomes(Dev!Now) : Matches(m, m2)
    BY <1>1, <1>3, <1>9, ReceiveMatch DEF PutRecv
  <2>3. Dev!Receive
    BY <1>3, <1>4, <1>6, <1>9, <2>1, <2>2 DEF Dev!Receive, PutRecv
  <2> QED
    BY <2>3 DEF Dev!Next, Dev!Commands
<1> QED
  BY <1>7, <1>8, <1>9

LEMMA StepIsModem ==
    ASSUME Inv, Inv', Dev!Intact, [Next]_vars
    PROVE  Dev!Next \/ UNCHANGED Dev!vars
<1>1. QueueInv /\ ProgramInv /\ ModemInv /\ AskInv /\ QueueInv' /\ ModemInv'
  BY DEF Inv
<1>2. CASE SetHandler \/ Branch \/ Straight \/ TimerFires
  <2>1. ModemRests /\ UNCHANGED interrupts_disabled
    BY <1>2, MaskStays DEF SetHandler, Branch, Straight, TimerFires
  <2>2. Awaited(ModemRequest)' <=> Awaited(ModemRequest)
    BY <1>2, SetHandlerInv, BranchInv, StraightInv, TimerFiresInv
  <2> QED
    BY <2>1, <2>2, RestIsStutter
<1>3. CASE PutArgument
  <2>1. Awaited(ModemRequest)' <=> Awaited(ModemRequest)
    BY <1>3, PutArgumentInv
  <2>2. ModemAsked' = ModemAsked
    BY <1>1, <2>1, AskedStays
  <2>3. UNCHANGED <<fd, status, error, written, open_fds, peer, unread, sent, destroyed,
                    interrupts_disabled>>
    BY <1>3, MaskStays DEF PutArgument
  <2>4. arg_a' \in {0, BUF_BEGIN, HOST, DATA} /\ arg_b' \in 0 .. BUF_SIZE + PORT + DATA_LEN
    BY <1>1 DEF ModemInv
  <2>5. ~destroyed
    <3>1. phase = "exec"
      BY <1>3, QuietStep DEF PutArgument, Plain, Instruction
    <3> QED
      BY <1>1, <3>1 DEF ProgramInv
  <2>6. Dev!WriteArgs(arg_a', arg_b')
    BY <2>2, <2>3, <2>5 DEF Dev!WriteArgs, Dev!Running, Dev!regs, Dev!net
  <2> QED
    BY <2>4, <2>6 DEF Dev!Next
<1>4. CASE PutCommand \/ PutRecv \/ GetStatus \/ ModemUpdate
  BY <1>4, CommandIsModem
<1>5. CASE Control
  <2>1. ModemRests /\ (Awaited(ModemRequest)' <=> Awaited(ModemRequest))
    BY <1>5, ControlInv DEF Control
  <2>2. CASE Cpu!ExecHlt \/ Cpu!ExecFini
    <3>1. UNCHANGED interrupts_disabled
      BY <2>2 DEF Cpu!ExecHlt, Cpu!ExecFini
    <3> QED
      BY <2>1, <3>1, RestIsStutter
  <2>3. CASE Cpu!ExecMask(TRUE)
    <3>1. interrupts_disabled' = TRUE /\ phase = "exec"
      BY <2>3 DEF Cpu!ExecMask, Cpu!Executing
    <3>2. ModemAsked' = ModemAsked
      BY <1>1, <2>1, AskedStays
    <3>3. ~destroyed
      BY <1>1, <3>1 DEF ProgramInv
    <3>4. Dev!Mask(TRUE)
      BY <2>1, <3>1, <3>2, <3>3 DEF Dev!Mask, Dev!Running, Dev!regs, Dev!args, Dev!net, ModemRests,
                             modemVars
    <3> QED
      BY <3>4 DEF Dev!Next
  <2> QED
    BY <1>5, <2>2, <2>3 DEF Control
<1>6. CASE MainLoop
  <2>1. ModemRests /\ UNCHANGED <<interrupts_disabled, seen>>
    BY <1>6, MaskStays DEF MainLoop
  <2>2. CASE Cpu!DispatchEnter
    <3>1. Awaited(ModemRequest) /\ ~Awaited(ModemRequest)'
      BY <2>1, <2>2, DispatchEnterInv
    <3>2. (QueueInv => (ModemAsked <=> Awaited(ModemRequest)))'
      BY AskedIsAwaited, PTL
    <3>3. ModemAsked /\ ~ModemAsked'
      BY <1>1, <3>1, <3>2, AskedIsAwaited
    <3>4. ~destroyed
      <4>1. phase = "dispatch"
        BY <2>2 DEF Cpu!DispatchEnter, Cpu!Dispatching
      <4> QED
        BY <1>1, <4>1 DEF ProgramInv
    <3>5. (ModemAsked \in BOOLEAN)'
      BY AskedIsTruth, PTL
    <3>6. ModemAsked' = FALSE
      BY <3>3, <3>5
    <3>7. Dev!Delivered
      BY <2>1, <3>3, <3>4, <3>6 DEF Dev!Delivered, Dev!Running, Dev!regs, Dev!args, Dev!net, ModemRests,
                             modemVars
    <3> QED
      BY <3>7 DEF Dev!Next
  <2>3. CASE Awaited(ModemRequest)' <=> Awaited(ModemRequest)
    BY <2>1, <2>3, RestIsStutter
  <2> QED
    BY <1>6, <2>2, <2>3, MainLoopInv
<1>7. CASE Exit
  BY <1>7 DEF Exit, Dev!Next
<1>8. CASE Network
  BY <1>8 DEF Network, Dev!Next
<1>9. CASE UNCHANGED vars
  <2>1. UNCHANGED <<cpuVars, modemVars, seen, noticed>>
    BY <1>9 DEF vars, programVars
  <2>2. ModemRests /\ UNCHANGED interrupts_disabled
    BY <2>1 DEF ModemRests, cpuVars
  <2>3. Awaited(ModemRequest)' <=> Awaited(ModemRequest)
    BY <2>1, CpuRests
  <2> QED
    BY <2>2, <2>3, RestIsStutter
<1> QED
  BY <1>2, <1>3, <1>4, <1>5, <1>6, <1>7, <1>8, <1>9 DEF Next, Machine, Program, Exited

\* The handler never stores outside the machine's RAM, whatever the network
\* sends: its size is one for which the modem's bounds test does not wrap
\* (modem.s:91-95, modem.c:195-200).
THEOREM StaysIntact == Spec => []Dev!Intact
<1>1. Init => Dev!Intact
  BY DEF Init, Dev!Init, Dev!Intact
<1> QED
  BY <1>1, NextIntact, Invariance, PTL DEF Spec

\* The modem that the program drives, with its request in the processor's queue,
\* behaves as Modem does (modem.c:77-87, state.c:97-108, mainloop.c:121-161).
THEOREM ModemRefined == Spec => IsModem
<1>1. Init => Dev!Init
  BY DEF Init
<1>2. Inv /\ Inv' /\ Dev!Intact /\ [Next]_vars => [Dev!Next]_(Dev!vars)
  BY StepIsModem
<1> QED
  BY <1>1, <1>2, Invariance, StaysIntact, PTL DEF Spec, IsModem, Dev!Spec

\* Between two instructions the queue has no more than two entries, one of the
\* modem and one of the timer: it has no limit (state.c:97-108), and this
\* program never needs one.
THEOREM QueueIsShort == Spec => [](phase # "dispatch" => Len(asked_interrupts) <= 2)
<1>1. Inv => (phase # "dispatch" => Len(asked_interrupts) <= 2)
  <2> SUFFICES ASSUME Inv, phase # "dispatch", ~(Len(asked_interrupts) <= 2) PROVE FALSE
    OBVIOUS
  <2>1. /\ asked_interrupts \in Seq(Requests) /\ Distinct(asked_interrupts, 0, 1)
    BY DEF Inv, QueueInv
  <2>2. Len(asked_interrupts) \in Nat
    BY <2>1
  <2>3. {1, 2, 3} \subseteq 1 .. Len(asked_interrupts)
    BY <2>2
  <2>4. {1, 2, 3} \subseteq Live(asked_interrupts, 0, 1)
    BY <2>3 DEF Live
  <2>5. \A k \in {1, 2, 3} : asked_interrupts[k] \in Requests
    BY <2>1, <2>3, ElementOfSeq
  <2>6. \A j, k \in {1, 2, 3} : asked_interrupts[j] = asked_interrupts[k] => j = k
    BY <2>1, <2>4 DEF Distinct
  <2> QED
    BY <2>5, <2>6 DEF Requests
<1> QED
  BY <1>1, Invariance, PTL

=============================================================================
