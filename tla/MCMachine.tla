----------------------------- MODULE MCMachine -----------------------------
(***************************************************************************)
(* The instance of Machine that TLC checks: words of four bytes of two bits *)
(* (-128..127), an address space of 41 bytes in the order of the real one.  *)
(* The machines differ in the data stack or in the registers.               *)
(***************************************************************************)
EXTENDS Machine

MCRom == <<1, 2, 3, 0, 1, 2>>
MCSizes == {1, 2, 4}

\* Zero, small and negative numbers, the extremes of a word, and addresses at
\* the edges: of the vectors, the exception registers and the RAM.
Samples == {-128, -1, 0, 1, 3, 9, 20, 21, 26, 127}
Edges == {-2, 2, 9, 11, 17, 22, 23, 25, 31, 33, 38}

Machine(stack, pc, sp, sf, fill) ==
    [stack |-> stack, pc |-> pc, v2_sp |-> sp, v2_sf |-> sf,
     mem |-> [a \in Stored |-> IF fill = 0 THEN 0 ELSE (a * fill) % BYTE],
     exception_type |-> "NONE", exception_pc |-> 0, exception_addr |-> 0,
     raised |-> FALSE, host |-> "runs"]

Stacks(S, n) == UNION {[1..k -> S] : k \in 0..n}

\* The opcode lies in RAM or ROM; the literal of push may cross into the ROM or
\* run over its end.  In the last machines there is none: pc is below the memory,
\* at or between registers, or behind the ROM.
MCStarts ==
    {Machine(s, pc, 31, 29, 3) : s \in Stacks(Samples, 2), pc \in {25, 31, 37, 40}}
      \cup {Machine(s, 35, 31, 29, 3) : s \in [1..3 -> Samples]}
      \cup {Machine(<<7, v, a>>, 35, 31, 29, f) :
              v \in Samples, a \in Edges, f \in {0, 1}}
      \cup {Machine(s, 35, sp, sf, f) :
              s \in Stacks({-3, 2}, 1), sp \in Edges \cup {-128}, sf \in Edges, f \in {1, 3}}
      \cup {Machine(s, pc, 31, 29, 3) :
              s \in Stacks({-3, 2}, 1), pc \in {-128, -1, 0, 5, 13, 21, 22, 23, 41, 127}}
=============================================================================
