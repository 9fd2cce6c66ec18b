----------------------------- MODULE ModemProofs -----------------------------
(***************************************************************************)
(* Proofs about Modem, for every memory map, descriptor set and stream.    *)
(* Good is the invariant of a modem between two of its functions; the      *)
(* lemmas show what each function of modem.c makes of a good modem, the    *)
(* theorems that every state is good.                                      *)
(***************************************************************************)
EXTENDS Modem, TLAPS

Modems ==
    [fd : Descriptors \cup {NoFd}, status : SUBSET Flags, error : Errors, arg_b : 0 .. POINTERS - 1,
     asked : BOOLEAN, open_fds : SUBSET Descriptors, peer : Peers,
     unread : Nat, sent : 0 .. MaxStream]

\* What every function of modem.c keeps, whether or not it fails.
Good(m) ==
    /\ m \in Modems
    /\ LINE \in m.status
    /\ m.unread <= m.sent
    /\ m.open_fds = {m.fd} \ {NoFd}
    /\ m.fd # NoFd => m.peer # "none"
    /\ CONN \in m.status <=> m.fd # NoFd
    /\ FAIL \in m.status => m.error # "NONE"
    /\ INCM \in m.status /\ m.fd # NoFd => m.unread > 0 \/ m.peer # "open"

MInv ==
    /\ TypeOK
    /\ ~destroyed => Good(Now)
    /\ destroyed => NoSocketLeak /\ ConnectedIffSocket /\ FailHasReason /\ RecvNeverBlocks

\* The host's numbers, of which 0 is one.
LEMMA HostNumbers ==
    /\ Descriptors \subseteq Nat /\ MaxStream \in Nat
    /\ POINTERS \in Nat /\ 0 \in 0 .. POINTERS - 1
  BY HostAssumption, MapAssumption

USE HostNumbers

\* A number is its own rest when it is less than the divisor.
LEMMA SmallRest ==
    ASSUME NEW x \in Nat, NEW y \in Nat, x < y
    PROVE  x % y = x
  OBVIOUS

\* The flags of the status byte are different bits (modem.h:6-9).
LEMMA DistinctFlags ==
    /\ LINE # CONN /\ LINE # INCM /\ LINE # FAIL
    /\ CONN # INCM /\ CONN # FAIL /\ INCM # FAIL
    /\ Flags = {LINE, CONN, INCM, FAIL}
  BY DEF Flags, LINE, CONN, INCM, FAIL

\* No descriptor of the host is the mark of a modem without a socket.
LEMMA NoFdIsFree == NoFd \notin Descriptors
  BY DEF NoFd

\* Closing the socket leaves an idle modem that holds no descriptor.
LEMMA ClosedFacts ==
    ASSUME NEW m \in Modems, m.open_fds \subseteq {m.fd}
    PROVE  /\ Closed(m) \in Modems
           /\ Closed(m).fd = NoFd
           /\ Closed(m).open_fds = {}
           /\ Closed(m).unread = 0
           /\ Closed(m).sent = 0
           /\ Closed(m).asked = m.asked
           /\ Closed(m).arg_b = m.arg_b
  <1>1. m.open_fds \ {m.fd} \in SUBSET Descriptors /\ m.open_fds \ {m.fd} = {}
    BY DEF Modems
  <1>2. 0 \in Nat /\ 0 \in 0 .. MaxStream /\ "none" \in Peers
    BY DEF Peers
  <1>3. Closed(m) \in Modems
    BY <1>1, <1>2 DEF Closed, Modems
  <1>4. Closed(m).fd = NoFd
    BY DEF Closed, Modems
  <1>5. Closed(m).open_fds = {}
    BY <1>1 DEF Closed, Modems
  <1>6. Closed(m).unread = 0
    BY DEF Closed, Modems
  <1>7. Closed(m).sent = 0
    BY DEF Closed, Modems
  <1>8. Closed(m).asked = m.asked
    BY DEF Closed, Modems
  <1>9. Closed(m).arg_b = m.arg_b
    BY DEF Closed, Modems
  <1> QED
    BY <1>3, <1>4, <1>5, <1>6, <1>7, <1>8, <1>9

\* Changing the status changes nothing else.
LEMMA StatusChange ==
    ASSUME NEW m \in Modems, NEW s \in SUBSET Flags
    PROVE  LET r == [m EXCEPT !.status = s]
           IN  /\ r \in Modems
               /\ r.status = s
               /\ r.error = m.error
               /\ r.fd = m.fd
               /\ r.open_fds = m.open_fds
               /\ r.peer = m.peer
               /\ r.unread = m.unread
               /\ r.sent = m.sent
  <1> DEFINE r == [m EXCEPT !.status = s]
  <1>1. r \in Modems
    BY DEF Modems
  <1>2. r.status = s
    BY DEF Modems
  <1>3. r.error = m.error
    BY DEF Modems
  <1>4. r.fd = m.fd
    BY DEF Modems
  <1>5. r.open_fds = m.open_fds
    BY DEF Modems
  <1>6. r.peer = m.peer
    BY DEF Modems
  <1>7. r.unread = m.unread
    BY DEF Modems
  <1>8. r.sent = m.sent
    BY DEF Modems
  <1> QED
    BY <1>1, <1>2, <1>3, <1>4, <1>5, <1>6, <1>7, <1>8

\* The hard error state is good, from whatever state of the socket it is entered.
LEMMA BrokenGood ==
    ASSUME NEW m \in Modems, m.open_fds \subseteq {m.fd}, NEW err \in Errors, err # "NONE"
    PROVE  Good(Broken(m, err)) /\ Broken(m, err).fd = NoFd
  <1> DEFINE c == Closed(m)
  <1> DEFINE r == Broken(m, err)
  <1>0. c \in Modems /\ c.fd = NoFd /\ c.open_fds = {} /\ c.unread = 0 /\ c.sent = 0
    BY ClosedFacts
  <1>1. r = [c EXCEPT !.status = {FAIL, LINE}, !.error = err]
    BY DEF Broken
  <1> HIDE DEF c, r
  <1>2. {FAIL, LINE} \in SUBSET Flags /\ CONN \notin {FAIL, LINE} /\ INCM \notin {FAIL, LINE}
    BY DistinctFlags
  <1>3. r \in Modems
    BY <1>0, <1>1, <1>2 DEF Modems
  <1>4. r.status = {FAIL, LINE}
    BY <1>0, <1>1 DEF Modems
  <1>5. r.error = err
    BY <1>0, <1>1 DEF Modems
  <1>6. r.fd = c.fd
    BY <1>0, <1>1 DEF Modems
  <1>7. r.open_fds = c.open_fds
    BY <1>0, <1>1 DEF Modems
  <1>8. r.unread = c.unread
    BY <1>0, <1>1 DEF Modems
  <1>9. r.sent = c.sent
    BY <1>0, <1>1 DEF Modems
  <1>10. Good(r) /\ r.fd = NoFd
    BY <1>0, <1>2, <1>3, <1>4, <1>5, <1>6, <1>7, <1>8, <1>9 DEF Good
  <1> QED
    BY <1>10 DEF r

\* The soft error state keeps the connection.
LEMMA FailedGood ==
    ASSUME NEW m, Good(m), NEW err \in Errors, err # "NONE"
    PROVE  Good(Failed(m, err))
  <1> DEFINE r == Failed(m, err)
  <1>0. m \in Modems
    BY DEF Good
  <1>1. m.status \cup {FAIL} \in SUBSET Flags
    BY <1>0, DistinctFlags DEF Modems
  <1>2. r \in Modems
    BY <1>0, <1>1 DEF Failed, Modems
  <1>3. r.status = m.status \cup {FAIL}
    BY <1>0 DEF Failed, Modems
  <1>4. r.error = err
    BY <1>0 DEF Failed, Modems
  <1>5. r.fd = m.fd
    BY <1>0 DEF Failed, Modems
  <1>6. r.open_fds = m.open_fds
    BY <1>0 DEF Failed, Modems
  <1>7. r.peer = m.peer
    BY <1>0 DEF Failed, Modems
  <1>8. r.unread = m.unread
    BY <1>0 DEF Failed, Modems
  <1>9. r.sent = m.sent
    BY <1>0 DEF Failed, Modems
  <1> HIDE DEF r
  <1>10. Good(r)
    BY <1>2, <1>3, <1>4, <1>5, <1>6, <1>7, <1>8, <1>9, DistinctFlags DEF Good
  <1> QED
    BY <1>10 DEF r

\* arg_b is a plain register.
LEMMA CountGood ==
    ASSUME NEW m, Good(m), NEW n \in 0 .. POINTERS - 1
    PROVE  LET r == [m EXCEPT !.arg_b = n] IN Good(r) /\ r.arg_b = n
  <1> DEFINE r == [m EXCEPT !.arg_b = n]
  <1>1. r \in Modems /\ m \in Modems
    BY DEF Good, Modems
  <1>2. r.arg_b = n
    BY <1>1 DEF Modems
  <1>3. r.status = m.status
    BY <1>1 DEF Modems
  <1>4. r.error = m.error
    BY <1>1 DEF Modems
  <1>5. r.fd = m.fd
    BY <1>1 DEF Modems
  <1>6. r.open_fds = m.open_fds
    BY <1>1 DEF Modems
  <1>7. r.peer = m.peer
    BY <1>1 DEF Modems
  <1>8. r.unread = m.unread
    BY <1>1 DEF Modems
  <1>9. r.sent = m.sent
    BY <1>1 DEF Modems
  <1> QED
    BY <1>1, <1>2, <1>3, <1>4, <1>5, <1>6, <1>7, <1>8, <1>9 DEF Good

LEMMA UnsentGood ==
    ASSUME NEW m, Good(m)
    PROVE  Good(Unsent(m)) /\ Unsent(m).arg_b = 0
  BY CountGood DEF Unsent

\* Asking for the interrupt touches no register.
LEMMA TriggeredGood ==
    ASSUME NEW m, Good(m), interrupts_disabled \in BOOLEAN
    PROVE  Good(Triggered(m)) /\ Triggered(m).arg_b = m.arg_b
  <1> DEFINE r == Triggered(m)
  <1>0. m \in Modems
    BY DEF Good
  <1>1. (m.asked \/ ~interrupts_disabled) \in BOOLEAN
    OBVIOUS
  <1>2. r \in Modems
    BY <1>0, <1>1 DEF Triggered, Modems
  <1>3. r.status = m.status
    BY <1>0 DEF Triggered, Modems
  <1>4. r.error = m.error
    BY <1>0 DEF Triggered, Modems
  <1>5. r.fd = m.fd
    BY <1>0 DEF Triggered, Modems
  <1>6. r.open_fds = m.open_fds
    BY <1>0 DEF Triggered, Modems
  <1>7. r.peer = m.peer
    BY <1>0 DEF Triggered, Modems
  <1>8. r.unread = m.unread
    BY <1>0 DEF Triggered, Modems
  <1>9. r.sent = m.sent
    BY <1>0 DEF Triggered, Modems
  <1>10. r.arg_b = m.arg_b
    BY <1>0 DEF Triggered, Modems
  <1> QED
    BY <1>2, <1>3, <1>4, <1>5, <1>6, <1>7, <1>8, <1>9, <1>10 DEF Good

\* Raising INCM is sound where recv would not block, or without a socket.
LEMMA AnnouncedGood ==
    ASSUME NEW m, Good(m), m.fd # NoFd => m.unread > 0, interrupts_disabled \in BOOLEAN
    PROVE  Good(Announced(m))
  <1>1. CASE INCM \in m.status
    BY <1>1 DEF Announced
  <1>2. CASE INCM \notin m.status
    <2> DEFINE r == [m EXCEPT !.status = m.status \cup {INCM}]
    <2>1. m.status \cup {INCM} \in SUBSET Flags /\ m \in Modems
      BY DistinctFlags DEF Good, Modems
    <2>2. Good(r)
      BY <2>1, StatusChange, DistinctFlags DEF Good
    <2>3. Announced(m) = Triggered(r)
      BY <1>2 DEF Announced
    <2> QED
      BY <2>2, <2>3, TriggeredGood
  <1> QED
    BY <1>1, <1>2

\* vm_modem_update keeps a modem good.
LEMMA UpdatedGood ==
    ASSUME NEW m, Good(m), interrupts_disabled \in BOOLEAN, NEW u \in Updated(m)
    PROVE  Good(u)
  <1>0. m \in Modems /\ m.open_fds \subseteq {m.fd} /\ m.unread \in Nat /\ m.peer \in Peers
    BY DEF Good, Modems
  <1>1. CASE m.fd = NoFd
    BY <1>1 DEF Updated
  <1>2. CASE m.fd # NoFd /\ m.unread > 0
    BY <1>2, AnnouncedGood DEF Updated
  <1>3. CASE m.fd # NoFd /\ m.unread = 0 /\ m.peer = "open"
    BY <1>3 DEF Updated
  <1>4. CASE m.fd # NoFd /\ m.unread = 0 /\ m.peer = "reset"
    BY <1>0, <1>4, BrokenGood DEF Updated, Errors
  <1>5. CASE m.fd # NoFd /\ m.unread = 0 /\ m.peer = "failed"
    BY <1>0, <1>5, BrokenGood DEF Updated, Errors
  <1>6. CASE m.fd # NoFd /\ m.unread = 0 /\ m.peer = "shut"
    <2>1. Good(Announced(Broken(m, "CONNRESET")))
      BY <1>0, BrokenGood, AnnouncedGood DEF Errors
    <2> DEFINE q == [m EXCEPT !.status = m.status \ {INCM}]
    <2> DEFINE r == [q EXCEPT !.peer = "reset"]
    <2>2. q \in Modems /\ q.status = m.status \ {INCM} /\ q.error = m.error /\ q.fd = m.fd
          /\ q.open_fds = m.open_fds /\ q.unread = m.unread /\ q.sent = m.sent
      <3>1. m.status \ {INCM} \in SUBSET Flags
        BY <1>0 DEF Modems
      <3> QED
        BY <1>0, <3>1, StatusChange
    <2>3. r \in Modems
      BY <2>2 DEF Modems, Peers
    <2>4. r.status = q.status
      BY <2>2 DEF Modems
    <2>5. r.error = q.error
      BY <2>2 DEF Modems
    <2>6. r.fd = q.fd
      BY <2>2 DEF Modems
    <2>7. r.open_fds = q.open_fds
      BY <2>2 DEF Modems
    <2>8. r.unread = q.unread
      BY <2>2 DEF Modems
    <2>9. r.sent = q.sent
      BY <2>2 DEF Modems
    <2>10. r.peer = "reset"
      BY <2>2 DEF Modems
    <2>11. Good(r)
      BY <2>2, <2>3, <2>4, <2>5, <2>6, <2>7, <2>8, <2>9, <2>10, DistinctFlags DEF Good
    <2>12. u \in {Announced(Broken(m, "CONNRESET")), r}
      BY <1>6 DEF Updated, Quiet
    <2> QED
      BY <2>1, <2>11, <2>12
  <1> QED
    BY <1>0, <1>1, <1>2, <1>3, <1>4, <1>5, <1>6 DEF Good, Peers

-----------------------------------------------------------------------------
(* The commands. *)

\* The registers of a running modem are those of the record Now.
LEMMA NowGood ==
    ASSUME MInv, ~destroyed
    PROVE  Good(Now) /\ Now \in Modems /\ Now.open_fds \subseteq {Now.fd}
  BY DEF MInv, Good

\* A new attempt to connect starts from a clean modem without a socket.
LEMMA FreshGood ==
    ASSUME MInv, ~destroyed
    PROVE  Good(Fresh(Now)) /\ Fresh(Now).fd = NoFd
  <1> DEFINE c == Closed(Now)
  <1> DEFINE r == Fresh(Now)
  <1>0. c \in Modems /\ c.fd = NoFd /\ c.open_fds = {} /\ c.unread = 0 /\ c.sent = 0
    BY NowGood, ClosedFacts
  <1>1. r = [c EXCEPT !.status = {LINE}, !.error = "NONE"]
    BY DEF Fresh
  <1> HIDE DEF c, r
  <1>2. {LINE} \in SUBSET Flags /\ "NONE" \in Errors
    BY DistinctFlags DEF Errors
  <1>3. r \in Modems
    BY <1>0, <1>1, <1>2 DEF Modems
  <1>4. r.status = {LINE}
    BY <1>0, <1>1 DEF Modems
  <1>5. r.error = "NONE"
    BY <1>0, <1>1 DEF Modems
  <1>6. r.fd = c.fd
    BY <1>0, <1>1 DEF Modems
  <1>7. r.open_fds = c.open_fds
    BY <1>0, <1>1 DEF Modems
  <1>8. r.unread = c.unread
    BY <1>0, <1>1 DEF Modems
  <1>9. r.sent = c.sent
    BY <1>0, <1>1 DEF Modems
  <1>10. Good(r) /\ r.fd = NoFd
    BY <1>0, <1>3, <1>4, <1>5, <1>6, <1>7, <1>8, <1>9, DistinctFlags DEF Good
  <1> QED
    BY <1>10 DEF r

\* With its socket, it is good as soon as CONN is set and a peer is there, and
\* can be broken at any moment before.
LEMMA WithSocketGood ==
    ASSUME MInv, ~destroyed, NEW f \in Descriptors
    PROVE  /\ WithSocket(Now, f) \in Modems
           /\ WithSocket(Now, f).open_fds \subseteq {WithSocket(Now, f).fd}
           /\ Good([WithSocket(Now, f) EXCEPT !.status = @ \cup {CONN}, !.peer = "open"])
  <1> DEFINE c == Fresh(Now)
  <1> DEFINE r == WithSocket(Now, f)
  <1>0. c \in Modems /\ c.fd = NoFd /\ c.open_fds = {} /\ c.unread <= c.sent
        /\ FAIL \notin c.status /\ INCM \notin c.status /\ LINE \in c.status
    <2>1. Good(c) /\ c.fd = NoFd
      BY FreshGood
    <2>2. c.status = {LINE}
      <3>1. Closed(Now) \in Modems
        BY NowGood, ClosedFacts
      <3> QED
        BY <3>1 DEF Fresh, Modems
    <2> QED
      BY <2>1, <2>2, DistinctFlags DEF Good
  <1>1. r = [c EXCEPT !.fd = f, !.open_fds = c.open_fds \cup {f}]
    BY DEF WithSocket
  <1> DEFINE q == [r EXCEPT !.status = r.status \cup {CONN}, !.peer = "open"]
  <1> HIDE DEF c, r
  <1>2. r \in Modems
    BY <1>0, <1>1 DEF Modems
  <1>3. r.fd = f
    BY <1>0, <1>1 DEF Modems
  <1>4. r.open_fds = {f}
    BY <1>0, <1>1 DEF Modems
  <1>5. r.status = c.status
    BY <1>0, <1>1 DEF Modems
  <1>6. r.unread = c.unread
    BY <1>0, <1>1 DEF Modems
  <1>7. r.sent = c.sent
    BY <1>0, <1>1 DEF Modems
  <1>8. r.status \cup {CONN} \in SUBSET Flags /\ "open" \in Peers
    BY <1>2, DistinctFlags DEF Modems, Peers
  <1>9. q \in Modems
    BY <1>2, <1>8 DEF Modems
  <1>10. q.status = r.status \cup {CONN}
    BY <1>2 DEF Modems
  <1>11. q.peer = "open"
    BY <1>2 DEF Modems
  <1>12. q.fd = r.fd
    BY <1>2 DEF Modems
  <1>13. q.open_fds = r.open_fds
    BY <1>2 DEF Modems
  <1>14. q.unread = r.unread
    BY <1>2 DEF Modems
  <1>15. q.sent = r.sent
    BY <1>2 DEF Modems
  <1> HIDE DEF q
  <1>16. Good(q)
    BY <1>0, <1>3, <1>4, <1>5, <1>6, <1>7, <1>9, <1>10, <1>11, <1>12, <1>13, <1>14, <1>15,
       NoFdIsFree, DistinctFlags DEF Good
  <1> QED
    BY <1>2, <1>3, <1>4, <1>16 DEF q, r

LEMMA ConnectGood ==
    ASSUME MInv, ~destroyed, NEW m \in ConnectOutcomes(Now)
    PROVE  Good(m)
  <1>1. CASE m = Broken(Fresh(Now), "CONNFAIL")
    BY <1>1, FreshGood, BrokenGood DEF Good, Errors
  <1>2. ASSUME NEW f \in Descriptors, m \in ConnectWith(Now, f)
        PROVE  Good(m)
    <2> DEFINE w == WithSocket(Now, f)
    <2>1. Good(Broken(w, "SEGFAULT")) /\ Good(Broken(w, "BADADDR")) /\ Good(Broken(w, "CONNFAIL"))
      BY WithSocketGood, BrokenGood DEF Errors
    <2>2. m \in {Broken(w, "SEGFAULT"), Broken(w, "BADADDR"), Broken(w, "CONNFAIL"),
                 [w EXCEPT !.status = @ \cup {CONN}, !.peer = "open"]}
      BY <1>2 DEF ConnectWith
    <2> QED
      BY <2>1, <2>2, WithSocketGood
  <1> QED
    BY <1>1, <1>2 DEF ConnectOutcomes

LEMMA SendGood ==
    ASSUME MInv, ~destroyed, NEW m \in SendOutcomes(Now)
    PROVE  Good(m)
  <1>0. Good(Now) /\ Now \in Modems /\ Now.open_fds \subseteq {Now.fd} /\ peer \in Peers
        /\ Now.fd = fd /\ Now.peer = peer /\ arg_b \in 0 .. POINTERS - 1
    BY NowGood DEF Now, MInv, TypeOK
  <1>1. Good(Unsent(Broken(Now, "CONNFAIL"))) /\ Good(Unsent(Broken(Now, "CONNRESET")))
    BY <1>0, BrokenGood, UnsentGood DEF Errors
  <1>2. Good(Unsent(Failed(Now, "SEGFAULT")))
    BY <1>0, FailedGood, UnsentGood DEF Errors
  <1>3. \A n \in 0 .. arg_b : Good([Now EXCEPT !.arg_b = n])
    BY <1>0, CountGood
  <1>4. fd # NoFd => peer # "none"
    BY <1>0 DEF Good
  <1> QED
    BY <1>0, <1>1, <1>2, <1>3, <1>4 DEF SendOutcomes, Peers

\* What recv takes leaves less to read, and INCM lowered until the next update.
LEMMA TakenGood ==
    ASSUME NEW m, Good(m), arg_b \in 0 .. POINTERS - 1, NEW t \in Taken(m)
    PROVE  Good(t) /\ t.arg_b \in 0 .. arg_b
  <1> DEFINE c == Cleared(m)
  <1>0. c \in Modems /\ c.status = m.status \ {INCM} /\ c.error = m.error /\ c.fd = m.fd
        /\ c.open_fds = m.open_fds /\ c.peer = m.peer /\ c.unread = m.unread /\ c.sent = m.sent
    <2>1. m \in Modems /\ m.status \ {INCM} \in SUBSET Flags
      BY DEF Good, Modems
    <2>2. c = [m EXCEPT !.status = m.status \ {INCM}]
      BY DEF Cleared
    <2> QED
      BY <2>1, StatusChange DEF Cleared
  <1>1. Good(c)
    BY <1>0, DistinctFlags DEF Good
  <1>2. CASE t = Unsent(Broken(c, "CONNFAIL"))
    BY <1>1, <1>2, BrokenGood, UnsentGood DEF Errors, Good
  <1>3. ASSUME NEW n \in 0 .. m.unread, n <= arg_b, t = [c EXCEPT !.unread = @ - n, !.arg_b = n]
        PROVE  Good(t) /\ t.arg_b \in 0 .. arg_b
    <2> HIDE DEF c
    <2>0. c.unread \in Nat /\ n \in 0 .. POINTERS - 1 /\ c.unread - n \in Nat
      BY <1>0, <1>3 DEF Modems
    <2>1. t \in Modems
      BY <1>0, <1>3, <2>0 DEF Modems
    <2>2. t.unread = c.unread - n
      BY <1>0, <1>3 DEF Modems
    <2>3. t.arg_b = n
      BY <1>0, <1>3 DEF Modems
    <2>4. t.status = c.status
      BY <1>0, <1>3 DEF Modems
    <2>5. t.error = c.error
      BY <1>0, <1>3 DEF Modems
    <2>6. t.fd = c.fd
      BY <1>0, <1>3 DEF Modems
    <2>7. t.open_fds = c.open_fds
      BY <1>0, <1>3 DEF Modems
    <2>8. t.peer = c.peer
      BY <1>0, <1>3 DEF Modems
    <2>9. t.sent = c.sent
      BY <1>0, <1>3 DEF Modems
    <2>10. c.unread \in Nat /\ c.sent \in Nat
      BY <1>0 DEF Modems
    <2> QED
      BY <1>0, <1>1, <1>3, <2>0, <2>1, <2>2, <2>3, <2>4, <2>5, <2>6, <2>7, <2>8, <2>9, <2>10 DEF Good
  <1> QED
    BY <1>2, <1>3 DEF Taken

LEMMA ReceiveGood ==
    ASSUME MInv, ~destroyed, NEW m \in ReceiveOutcomes(Now)
    PROVE  /\ Good(m)
           /\ m.arg_b \in 0 .. arg_b
           /\ m.arg_b > 0 => InBounds(arg_a, arg_b)
  <1>0. Good(Now) /\ Now \in Modems /\ Now.open_fds \subseteq {Now.fd}
        /\ arg_b \in 0 .. POINTERS - 1 /\ interrupts_disabled \in BOOLEAN
    BY NowGood DEF Now, MInv, TypeOK
  <1>1. Good(Unsent(Broken(Now, "CONNFAIL"))) /\ Unsent(Broken(Now, "CONNFAIL")).arg_b = 0
    BY <1>0, BrokenGood, UnsentGood DEF Errors
  <1>2. Good(Unsent(Failed(Now, "SEGFAULT"))) /\ Unsent(Failed(Now, "SEGFAULT")).arg_b = 0
    BY <1>0, FailedGood, UnsentGood DEF Errors
  <1>3. ASSUME NEW u \in Updated(Now)
        PROVE  /\ Good(Unsent(u)) /\ Unsent(u).arg_b = 0
               /\ \A t \in Taken(u) : Good(t) /\ t.arg_b \in 0 .. arg_b
    BY <1>0, UpdatedGood, UnsentGood, TakenGood
  <1> QED
    BY <1>0, <1>1, <1>2, <1>3 DEF ReceiveOutcomes

-----------------------------------------------------------------------------
(* The steps. *)

\* A step that makes the modem a good one leads to a good state.
LEMMA BecomeGood ==
    ASSUME NEW m, Good(m), Become(m), ~destroyed, UNCHANGED <<arg_a, destroyed>>,
           interrupts_disabled' \in BOOLEAN, written' \subseteq Nat, TypeOK
    PROVE  MInv'
  <1>1. m \in Modems
    BY DEF Good
  <1>2. m.fd \in Descriptors \cup {NoFd} /\ m.status \subseteq Flags /\ m.error \in Errors
        /\ m.arg_b \in 0 .. POINTERS - 1 /\ m.asked \in BOOLEAN /\ m.open_fds \subseteq Descriptors
        /\ m.peer \in Peers /\ m.unread \in Nat /\ m.sent \in 0 .. MaxStream
    BY <1>1 DEF Modems
  <1>3. m = Now'
    BY <1>1 DEF Modems, Now, Become
  <1>4. Good(Now)'
    BY <1>3 DEF Good
  <1>5. m.unread \in 0 .. MaxStream /\ LINE \in m.status
    BY <1>2 DEF Good
  <1>6. TypeOK'
    BY <1>2, <1>5 DEF TypeOK, Become
  <1> QED
    BY <1>4, <1>6 DEF MInv

LEMMA CommandStep ==
    ASSUME MInv, NEW outcomes, \A m \in outcomes : Good(m), Command(outcomes)
    PROVE  MInv'
  <1>1. PICK m \in outcomes : Become(m)
    BY DEF Command
  <1>2. Good(m) /\ ~destroyed /\ UNCHANGED <<arg_a, destroyed>> /\ TypeOK
        /\ interrupts_disabled' \in BOOLEAN /\ written' = {}
    BY <1>1 DEF Command, Running, MInv, TypeOK
  <1>3. written' \subseteq Nat
    BY <1>2
  <1> QED
    BY <1>1, <1>2, <1>3, BecomeGood

\* A buffer that InBounds admits lies in one region, unless its sum wraps.
LEMMA BufferInRegion ==
    ASSUME NEW a \in Nat, NEW n \in Nat, NEW k \in 0 .. n, InBounds(a, n), ~Wraps(a, n)
    PROVE  \/ a .. a + k - 1 \subseteq SYSMEM_END .. RAM_END - 1
           \/ a .. a + k - 1 \subseteq RAM_END .. ROM_LIMIT - 1
  <1>1. a \in SYSMEM_END .. ROM_LIMIT - 1
    BY DEF InBounds, Mapped
  <1>2. Pointer(a) + n \in Nat /\ Pointer(a) + n < POINTERS /\ POINTERS \in Nat
    BY <1>1, MapAssumption, HostAssumption DEF Pointer, Wraps
  <1>3. (Pointer(a) + n) % POINTERS = Pointer(a) + n
    BY <1>2, SmallRest
  <1>4. Pointer(a) + n < EndPointer(a)
    BY <1>3 DEF InBounds
  <1>5. CASE a < RAM_END
    BY <1>1, <1>4, <1>5, MapAssumption, HostAssumption DEF Pointer, EndPointer
  <1>6. CASE ~(a < RAM_END)
    BY <1>1, <1>4, <1>6, MapAssumption, HostAssumption DEF Pointer, EndPointer
  <1> QED
    BY <1>5, <1>6

LEMMA ReceiveStep == MInv /\ Receive => MInv'
  <1> SUFFICES ASSUME MInv, Receive PROVE MInv'
    OBVIOUS
  <1>1. PICK m \in ReceiveOutcomes(Now) : Become(m) /\ written' = arg_a .. arg_a + m.arg_b - 1
    BY DEF Receive
  <1>2. ~destroyed /\ UNCHANGED <<arg_a, destroyed>> /\ TypeOK
        /\ interrupts_disabled' \in BOOLEAN /\ arg_a \in Nat /\ arg_b \in Nat
    BY MapAssumption DEF Receive, Running, MInv, TypeOK
  <1>3. Good(m) /\ m.arg_b \in 0 .. arg_b /\ (m.arg_b > 0 => InBounds(arg_a, arg_b))
    BY <1>2, ReceiveGood
  <1>4. written' \subseteq Nat
    BY <1>1, <1>2, <1>3
  <1> QED
    BY <1>1, <1>2, <1>3, <1>4, BecomeGood

LEMMA CommandsStep == MInv /\ Commands => MInv'
  <1> SUFFICES ASSUME MInv, Commands PROVE MInv'
    OBVIOUS
  <1>0. Commands => ~destroyed
    BY DEF Commands, Connect, Quit, Send, Receive, ClearFail, BadCommand, Command, Running
  <1>1. Good(Now) /\ Now \in Modems
    BY <1>0, NowGood
  <1>2. CASE Connect
    BY <1>0, <1>2, ConnectGood, CommandStep DEF Connect
  <1>3. CASE Quit
    <2>1. \A m \in {Fresh(Now)} : Good(m)
      BY <1>0, FreshGood
    <2> QED
      BY <1>3, <2>1, CommandStep DEF Quit, Fresh
  <1>4. CASE Send
    BY <1>0, <1>4, SendGood, CommandStep DEF Send
  <1>5. CASE Receive
    BY <1>5, ReceiveStep
  <1>6. CASE ClearFail
    <2> DEFINE c == [Now EXCEPT !.status = Now.status \ {FAIL}]
    <2>1. Now.status \ {FAIL} \in SUBSET Flags
      BY <1>1 DEF Modems
    <2>2. Good(c)
      BY <1>1, <2>1, StatusChange, DistinctFlags DEF Good
    <2> QED
      BY <1>6, <2>2, CommandStep DEF ClearFail
  <1>7. CASE BadCommand
    BY <1>1, <1>7, FailedGood, CommandStep DEF BadCommand, Errors
  <1> QED
    BY <1>2, <1>3, <1>4, <1>5, <1>6, <1>7 DEF Commands

LEMMA UpdateStepInv == MInv /\ UpdateStep => MInv'
  <1> SUFFICES ASSUME MInv, UpdateStep PROVE MInv'
    OBVIOUS
  <1>1. PICK m \in Updated(Now) : Become(m)
    BY DEF UpdateStep
  <1>2. ~destroyed /\ UNCHANGED <<arg_a, written, destroyed>> /\ TypeOK
        /\ interrupts_disabled \in BOOLEAN /\ interrupts_disabled' = interrupts_disabled
    BY DEF UpdateStep, Running, MInv, TypeOK
  <1>3. Good(m)
    BY <1>2, NowGood, UpdatedGood
  <1>4. written' \subseteq Nat
    BY <1>2 DEF MInv, TypeOK
  <1> QED
    BY <1>1, <1>2, <1>3, <1>4, BecomeGood

\* The program and the processor touch only what is not the modem's own.
LEMMA OutsideStep ==
    ASSUME MInv,
           \/ \E a \in Addresses, n \in Sizes : WriteArgs(a, n)
           \/ \E disable \in BOOLEAN : Mask(disable)
           \/ Delivered
           \/ Network
    PROVE  MInv'
  <1>0. Good(Now) /\ ~destroyed /\ TypeOK
    BY NowGood DEF WriteArgs, Mask, Delivered, Network, PeerSends, PeerShutsDown, ConnectionLost,
       NetStep, Running, MInv
  <1>1. UNCHANGED <<regs, written, open_fds, destroyed>>
    BY DEF WriteArgs, Mask, Delivered, Network, PeerSends, PeerShutsDown, ConnectionLost,
       NetStep, MInv
  <1>2. /\ arg_b' \in 0 .. POINTERS - 1 /\ arg_a' \in Addresses \cup {0}
        /\ interrupts_disabled' \in BOOLEAN /\ asked' \in BOOLEAN
    BY <1>0, MapAssumption DEF WriteArgs, Mask, Delivered, Network, PeerSends, PeerShutsDown,
       ConnectionLost, NetStep, TypeOK, args
  <1>3. /\ peer' \in Peers /\ unread' \in Nat /\ sent' \in 0 .. MaxStream /\ unread' <= sent'
        /\ peer # "none" => peer' # "none"
        /\ unread > 0 \/ peer # "open" => unread' > 0 \/ peer' # "open"
    <2>1. unread \in Nat /\ sent \in 0 .. MaxStream /\ unread <= sent /\ peer \in Peers
      BY <1>0 DEF Good, Now, TypeOK
    <2>2. CASE UNCHANGED net
      BY <2>1, <2>2 DEF net
    <2>3. CASE PeerSends
      BY <2>1, <2>3 DEF PeerSends, Peers
    <2>4. CASE PeerShutsDown
      BY <2>1, <2>4 DEF PeerShutsDown, Peers
    <2>5. ASSUME NEW how \in {"reset", "failed"}, ConnectionLost(how)
          PROVE  <1>3!:
      BY <2>1, <2>5 DEF ConnectionLost, Peers
    <2> QED
      BY <2>2, <2>3, <2>4, <2>5 DEF WriteArgs, Mask, Delivered, Network
  <1>4. TypeOK'
    <2>1. unread' \in 0 .. MaxStream
      BY <1>3
    <2> QED
      BY <1>0, <1>1, <1>2, <1>3, <2>1 DEF TypeOK, regs
  <1>5. Good(Now)'
    <2>1. Now' \in Modems
      BY <1>1, <1>2, <1>3, <1>4 DEF Now, Modems, TypeOK
    <2> QED
      BY <1>0, <1>1, <1>3, <2>1 DEF Good, Now, regs
  <1> QED
    BY <1>0, <1>1, <1>4, <1>5 DEF MInv

LEMMA DestroyStep == MInv /\ Destroy => MInv'
  <1> SUFFICES ASSUME MInv, Destroy PROVE MInv'
    OBVIOUS
  <1>1. Good(Now) /\ TypeOK
    BY NowGood DEF Destroy, Running, MInv
  <1>2. UNCHANGED <<regs, args, written, interrupts_disabled, asked>> /\ destroyed'
        /\ open_fds' = {} /\ peer' = "none" /\ unread' = 0 /\ sent' = 0
    BY <1>1 DEF Destroy, Good, Now
  <1>3. TypeOK'
    BY <1>1, <1>2 DEF TypeOK, regs, args, Peers
  <1>4. ConnectedIffSocket' /\ FailHasReason'
    BY <1>1, <1>2 DEF Good, Now, ConnectedIffSocket, FailHasReason, regs
  <1>5. NoSocketLeak' /\ RecvNeverBlocks'
    BY <1>2 DEF NoSocketLeak, RecvNeverBlocks
  <1> QED
    BY <1>2, <1>3, <1>4, <1>5 DEF MInv

LEMMA StutterStep == MInv /\ UNCHANGED vars => MInv'
  BY DEF MInv, vars, regs, args, net, TypeOK, Good, Now, NoSocketLeak,
     ConnectedIffSocket, FailHasReason, RecvNeverBlocks

LEMMA InitGood == Init => MInv
  <1> SUFFICES ASSUME Init PROVE MInv
    OBVIOUS
  <1>1. TypeOK
    <2>1. status \subseteq Flags /\ LINE \in status
      BY DistinctFlags DEF Init
    <2>2. 0 \in 0 .. MaxStream
      OBVIOUS
    <2> QED
      BY <2>1, <2>2 DEF Init, TypeOK, Errors, Peers
  <1>2. Now \in Modems
    BY <1>1 DEF TypeOK, Now, Modems
  <1>3. Good(Now)
    BY <1>2, DistinctFlags DEF Good, Now, Init
  <1> QED
    BY <1>1, <1>3 DEF MInv, Init

\* Whatever commands the program sends, whatever the network does and however
\* often the main loop looks, the modem stays good.
THEOREM ModemGood == Spec => []MInv
  <1>1. MInv /\ [Next]_vars => MInv'
    BY CommandsStep, UpdateStepInv, OutsideStep, DestroyStep, StutterStep DEF Next, Gone
  <1> QED
    BY <1>1, InitGood, PTL DEF Spec

\* Every variable of the modem keeps its type, for every memory map.
THEOREM TypeOKHolds == Spec => []TypeOK
  <1>1. MInv => TypeOK
    BY DEF MInv
  <1> QED
    BY <1>1, ModemGood, PTL

\* The properties of a good modem also hold once it is destroyed.
LEMMA GoodProperties ==
    MInv => NoSocketLeak /\ ConnectedIffSocket /\ FailHasReason /\ RecvNeverBlocks
  <1> SUFFICES ASSUME MInv PROVE NoSocketLeak /\ ConnectedIffSocket /\ FailHasReason /\ RecvNeverBlocks
    OBVIOUS
  <1>1. CASE destroyed
    BY <1>1 DEF MInv
  <1>2. CASE ~destroyed
    BY <1>2 DEF MInv, Good, Now, NoSocketLeak, ConnectedIffSocket, FailHasReason, RecvNeverBlocks
  <1> QED
    BY <1>1, <1>2

\* The process holds exactly the socket the modem uses (modem.c:36-47, 93-97).
THEOREM SocketNotLeaked == Spec => []NoSocketLeak
  BY ModemGood, GoodProperties, PTL

\* CONN tells the program the truth about the socket (modem.c:36-47, 153).
THEOREM ConnectedRight == Spec => []ConnectedIffSocket
  BY ModemGood, GoodProperties, PTL

\* FAIL always comes with an error code (modem.c:36-47, 219-248).
THEOREM FailExplained == Spec => []FailHasReason
  BY ModemGood, GoodProperties, PTL

\* A RECV that passes its checks does not stop the machine (modem.c:202-209).
THEOREM ReceiveDoesNotBlock == Spec => []RecvNeverBlocks
  BY ModemGood, GoodProperties, PTL

-----------------------------------------------------------------------------
(* What a RECV stores.                                                      *)

\* No step but a RECV stores anything.
LEMMA OthersStoreNothing ==
    ASSUME [Next]_vars, Intact, ~Receive
    PROVE  Intact'
  <1>1. written' = written \/ written' = {}
    BY DEF Next, Commands, Connect, Quit, Send, ClearFail, BadCommand, Command, WriteArgs,
       UpdateStep, Mask, Delivered, Destroy, Gone, Network, PeerSends, PeerShutsDown,
       ConnectionLost, NetStep, vars
  <1> QED
    BY <1>1 DEF Intact

LEMMA ReceiveStores ==
    ASSUME MInv, Receive
    PROVE  Intact' \/ Wraps(arg_a, arg_b)
  <1>1. PICK m \in ReceiveOutcomes(Now) : Become(m) /\ written' = arg_a .. arg_a + m.arg_b - 1
    BY DEF Receive
  <1>2. ~destroyed /\ arg_a \in Nat /\ arg_b \in Nat
    BY MapAssumption DEF Receive, Running, MInv, TypeOK
  <1>3. m.arg_b \in 0 .. arg_b /\ (m.arg_b > 0 => InBounds(arg_a, arg_b))
    BY <1>2, ReceiveGood
  <1>4. CASE m.arg_b = 0
    BY <1>1, <1>2, <1>4 DEF Intact
  <1>5. CASE m.arg_b > 0
    BY <1>1, <1>2, <1>3, <1>5, BufferInRegion DEF Intact
  <1> QED
    BY <1>3, <1>4, <1>5

\* A RECV stores outside the region its buffer begins in only when the size the
\* program has given is so large that the sum in the bounds test wraps, for every
\* memory map and wherever the machine's memory lies in the host (modem.c:20-25,
\* 195-200).
THEOREM OverrunNeedsWrap == Spec => OverrunsOnlyByWrapping
  <1>1. MInv /\ [Next]_vars => [Intact' \/ Wraps(arg_a, arg_b)]_vars
    <2> SUFFICES ASSUME MInv, [Next]_vars PROVE [Intact' \/ Wraps(arg_a, arg_b)]_vars
      OBVIOUS
    <2>1. CASE Receive
      BY <2>1, ReceiveStores
    <2>2. CASE ~Receive /\ Intact
      BY <2>2, OthersStoreNothing
    <2>3. CASE ~Intact
      BY <2>3 DEF Next, Commands, Connect, Quit, Send, Receive, ClearFail, BadCommand, Command,
         WriteArgs, UpdateStep, Mask, Delivered, Destroy, Gone, Network, PeerSends,
         PeerShutsDown, ConnectionLost, NetStep, Running
    <2> QED
      BY <2>1, <2>2, <2>3
  <1> QED
    BY <1>1, ModemGood, PTL DEF OverrunsOnlyByWrapping, Spec

=============================================================================
