-------------------------------- MODULE Modem --------------------------------
(***************************************************************************)
(* The emulated modem (src/vm/dev/modem.c): a memory-mapped device that    *)
(* wraps one TCP socket.  Its actors are the program, which writes the     *)
(* arguments, sends commands and reads the status byte; the main loop,     *)
(* which calls vm_modem_update once a turn; the processor, which takes the *)
(* modem's interrupt from the queue; and the host's network.               *)
(*                                                                         *)
(* Bytes are counted, not named.  Addresses keep the order of the memory   *)
(* map, 0 < SYSMEM_END < RAM_END <= ROM_LIMIT, with small numbers.  The    *)
(* commands work on pointers of the host, which wrap at POINTERS.          *)
(***************************************************************************)
EXTENDS Integers, FiniteSets

CONSTANTS
    SYSMEM_END, RAM_END,
    ROM_LIMIT,      \* RAM_END + rom_size
    POINTERS,       \* number of addresses of the host: 2^64
    RAM_AT, ROM_AT, \* vm->ram, vm->rom
    Addresses,      \* values of arg_a
    Sizes,          \* values of arg_b a program writes
    Descriptors,    \* descriptors the host can hand out
    MaxStream       \* bound: bytes a peer sends over one connection

ASSUME MapAssumption ==
    /\ SYSMEM_END \in Nat /\ RAM_END \in Nat /\ ROM_LIMIT \in Nat
    /\ SYSMEM_END < RAM_END /\ RAM_END <= ROM_LIMIT
    /\ Addresses \subseteq Nat
    /\ POINTERS \in Nat
    /\ Sizes \subseteq 0 .. POINTERS - 1 /\ 0 \in Sizes
\* The host has room for the machine's memory, and for the ends of it.
ASSUME HostAssumption ==
    /\ RAM_AT \in Nat /\ RAM_AT + (RAM_END - SYSMEM_END) < POINTERS
    /\ ROM_AT \in Nat /\ ROM_AT + (ROM_LIMIT - RAM_END) < POINTERS
    /\ Descriptors \subseteq Nat /\ MaxStream \in Nat

NoFd == -1

LINE == "LINE"  CONN == "CONN"  INCM == "INCM"  FAIL == "FAIL"
Flags == {LINE, CONN, INCM, FAIL}

Errors == {"NONE", "BADCMD", "CONNFAIL", "CONNRESET", "SEGFAULT", "BADADDR"}

\* The other end of the connection: none; there; it has shut down its side; it
\* has reset the connection; the connection has failed in another way.
Peers == {"none", "open", "shut", "reset", "failed"}

VARIABLES
    fd, status, error,      \* vm_modem; status is the set of its flags
    arg_a, arg_b,
    written,                \* what the last command stored: addresses
    interrupts_disabled,    \* of the processor
    asked,                  \* VM_INTR_MODEM waits in asked_interrupts
    open_fds,               \* sockets this process holds
    peer,
    unread,                 \* bytes in the socket's receive queue
    sent,                   \* bytes the peer has sent over this connection
    destroyed               \* vm_modem_destroy has run

regs == <<fd, status, error>>
args == <<arg_a, arg_b>>
net  == <<peer, unread, sent>>
vars == <<regs, args, written, interrupts_disabled, asked, open_fds, net, destroyed>>

Init ==
    /\ fd = NoFd
    /\ status = {LINE}
    /\ error = "NONE"
    /\ arg_a = 0 /\ arg_b = 0
    /\ written = {}
    /\ interrupts_disabled = FALSE
    /\ asked = FALSE
    /\ open_fds = {}
    /\ peer = "none" /\ unread = 0 /\ sent = 0
    /\ destroyed = FALSE

\* What the last command stored lies in one region, RAM or ROM.  Else it has
\* overwritten other memory of the host, and the model ends.
Intact ==
    \/ written \subseteq SYSMEM_END .. RAM_END - 1
    \/ written \subseteq RAM_END .. ROM_LIMIT - 1

Running == ~destroyed /\ Intact

-----------------------------------------------------------------------------
(* What the functions of modem.c do to a modem m: a record with the fields  *)
(* of Now.                                                                  *)

Now == [fd |-> fd, status |-> status, error |-> error, arg_b |-> arg_b, asked |-> asked,
        open_fds |-> open_fds, peer |-> peer, unread |-> unread, sent |-> sent]

Become(m) ==
    /\ fd' = m.fd /\ status' = m.status /\ error' = m.error /\ arg_b' = m.arg_b
    /\ asked' = m.asked
    /\ open_fds' = m.open_fds
    /\ peer' = m.peer /\ unread' = m.unread /\ sent' = m.sent

\* close(modem->fd), modem->fd = -1
DropsSocket(m) ==
    [m EXCEPT !.fd = NoFd, !.peer = "none", !.unread = 0, !.sent = 0]
Closed(m) ==
    [m EXCEPT !.open_fds = @ \ {m.fd}, !.fd = NoFd, !.peer = "none", !.unread = 0, !.sent = 0]

\* l_vm_modem_enter_error_state
BrokenKeepsFlags(m, err) == [Closed(m) EXCEPT !.status = @ \cup {FAIL}, !.error = err]
Broken(m, err) == [Closed(m) EXCEPT !.status = {FAIL, LINE}, !.error = err]
Failed(m, err) == [m EXCEPT !.status = @ \cup {FAIL}, !.error = err]

\* vm_state_trigger_interrupt of VM_INTR_MODEM
Triggered(m) == [m EXCEPT !.asked = @ \/ ~interrupts_disabled]

\* The end of vm_modem_update: the flag follows incoming, and its rise asks
\* for the interrupt.
AnnouncedAgain(m) == Triggered([m EXCEPT !.status = @ \cup {INCM}])
AnnouncedSilently(m) == [m EXCEPT !.status = @ \cup {INCM}]
Announced(m) ==
    IF INCM \in m.status THEN m ELSE Triggered([m EXCEPT !.status = @ \cup {INCM}])
Quiet(m) == [m EXCEPT !.status = @ \ {INCM}]

\* vm_modem_update.  Unread bytes are seen first, whatever came after them.  A
\* peer that has shut its side down reads as zero bytes twice, unless the
\* connection is reset between the two calls of recv.
Updated(m) ==
    CASE m.fd = NoFd          -> {m}
      [] m.fd # NoFd /\ m.unread > 0                      -> {Announced(m)}
      [] m.fd # NoFd /\ m.unread = 0 /\ m.peer = "open"   -> {m}
      [] m.fd # NoFd /\ m.unread = 0 /\ m.peer = "reset"  -> {Broken(m, "CONNRESET")}
      [] m.fd # NoFd /\ m.unread = 0 /\ m.peer = "failed" -> {Broken(m, "CONNFAIL")}
      [] m.fd # NoFd /\ m.unread = 0 /\ m.peer = "shut"   ->
            {Announced(Broken(m, "CONNRESET")), [Quiet(m) EXCEPT !.peer = "reset"]}

\* l_get_ptr_and_bounds: where it finds a pointer, that pointer, and the end of
\* its region.
Mapped(a) == a \in SYSMEM_END .. ROM_LIMIT - 1
Pointer(a) ==
    IF a < RAM_END THEN RAM_AT + (a - SYSMEM_END) ELSE ROM_AT + (a - RAM_END)
EndPointer(a) ==
    IF a < RAM_END THEN RAM_AT + (RAM_END - SYSMEM_END) ELSE ROM_AT + (ROM_LIMIT - RAM_END)

\* data + arg_b < end: the sum is one of pointers, and wraps.
AnySize(a, n) == Mapped(a)
InBounds(a, n) == Mapped(a) /\ (Pointer(a) + n) % POINTERS < EndPointer(a)

Wraps(a, n) == Pointer(a) + n >= POINTERS

-----------------------------------------------------------------------------
(* Commands: l_vm_modem_cmd *)

\* A command that stores nothing in the machine's memory.
Command(outcomes) ==
    /\ Running
    /\ \E m \in outcomes : Become(m)
    /\ written' = {}
    /\ UNCHANGED <<arg_a, interrupts_disabled, destroyed>>

\* l_vm_modem_connect: the old socket goes first; then the socket, the name at
\* arg_a, its address and the connection can each fail.
Fresh(m) == [Closed(m) EXCEPT !.status = {LINE}, !.error = "NONE"]

WithSocket(m, f) == [Fresh(m) EXCEPT !.fd = f, !.open_fds = @ \cup {f}]

ConnectWith(m, f) ==
    {Broken(WithSocket(m, f), "SEGFAULT")}
    \cup IF ~Mapped(arg_a) THEN {} ELSE
         {Broken(WithSocket(m, f), "BADADDR"), Broken(WithSocket(m, f), "CONNFAIL"),
          [WithSocket(m, f) EXCEPT !.status = @ \cup {CONN}, !.peer = "open"]}

ConnectOutcomes(m) ==
    {Broken(Fresh(m), "CONNFAIL")}
    \cup UNION {ConnectWith(m, f) : f \in Descriptors \ Fresh(m).open_fds}

Connect == Command(ConnectOutcomes(Now))

Quit == Command({[Closed(Now) EXCEPT !.status = {LINE}, !.error = "NONE"]})

Unsent(m) == [m EXCEPT !.arg_b = 0]

\* l_vm_modem_send.  With a size that wraps, the host may refuse the buffer.
SendOutcomes(m) ==
    CASE m.fd = NoFd -> {Unsent(Broken(m, "CONNFAIL"))}
      [] m.fd # NoFd /\ ~InBounds(arg_a, arg_b) -> {Unsent(Failed(m, "SEGFAULT"))}
      [] m.fd # NoFd /\ InBounds(arg_a, arg_b) /\ m.peer = "reset" -> {Unsent(Broken(m, "CONNRESET"))}
      [] m.fd # NoFd /\ InBounds(arg_a, arg_b) /\ m.peer = "failed" -> {Unsent(Broken(m, "CONNFAIL"))}
      [] m.fd # NoFd /\ InBounds(arg_a, arg_b) /\ m.peer \in {"open", "shut"} ->
            {[m EXCEPT !.arg_b = n] : n \in 0 .. arg_b}
            \cup IF Wraps(arg_a, arg_b) THEN {Unsent(Broken(m, "CONNFAIL"))} ELSE {}

Send == Command(SendOutcomes(Now))

\* l_vm_modem_recv, once vm_modem_update has run and left the modem m with
\* INCM: recv takes what it can; it fails without a socket, if the connection
\* is lost meanwhile, or if the host refuses the buffer.
StillIncoming(m) == m
Cleared(m) == [m EXCEPT !.status = @ \ {INCM}]

Taken(m) ==
    {Unsent(Broken(Cleared(m), "CONNFAIL"))}
    \cup {[Cleared(m) EXCEPT !.unread = @ - n, !.arg_b = n] :
            n \in {k \in 0 .. m.unread : m.fd # NoFd /\ k <= arg_b /\ (arg_b > 0 => k > 0)}}

ReceiveOutcomes(m) ==
    CASE m.fd = NoFd -> {Unsent(Broken(m, "CONNFAIL"))}
      [] m.fd # NoFd /\ ~InBounds(arg_a, arg_b) -> {Unsent(Failed(m, "SEGFAULT"))}
      [] m.fd # NoFd /\ InBounds(arg_a, arg_b) ->
            UNION {IF INCM \in u.status THEN Taken(u) ELSE {Unsent(u)} : u \in Updated(m)}

Receive ==
    /\ Running
    /\ \E m \in ReceiveOutcomes(Now) :
          /\ Become(m)
          /\ written' = arg_a .. arg_a + m.arg_b - 1
    /\ UNCHANGED <<arg_a, interrupts_disabled, destroyed>>

ClearFail == Command({[Now EXCEPT !.status = @ \ {FAIL}]})

BadCommand == Command({Failed(Now, "BADCMD")})

-----------------------------------------------------------------------------
(* The other accesses of the program, the main loop and the processor *)

\* l_vm_modem_write of the arguments
WriteArgs(a, n) ==
    /\ Running
    /\ arg_a' = a /\ arg_b' = n
    /\ UNCHANGED <<regs, written, interrupts_disabled, asked, open_fds, net, destroyed>>

\* vm_modem_update, from the main loop or by a read of the status byte
UpdateStep ==
    /\ Running
    /\ \E m \in Updated(Now) : Become(m)
    /\ UNCHANGED <<arg_a, written, interrupts_disabled, destroyed>>

\* vm_op_cli, vm_op_sti
Mask(disable) ==
    /\ Running
    /\ interrupts_disabled' = disable
    /\ UNCHANGED <<regs, args, written, asked, open_fds, net, destroyed>>

\* The pass over asked_interrupts consumes the request.
Delivered ==
    /\ Running
    /\ asked /\ asked' = FALSE
    /\ UNCHANGED <<regs, args, written, interrupts_disabled, open_fds, net, destroyed>>

\* vm_modem_destroy: the socket is closed, fd keeps its number.
Destroy ==
    /\ Running
    /\ destroyed' = TRUE
    /\ open_fds' = open_fds \ {fd}
    /\ peer' = "none" /\ unread' = 0 /\ sent' = 0
    /\ UNCHANGED <<regs, args, written, interrupts_disabled, asked>>

Gone == ~Running /\ UNCHANGED vars

-----------------------------------------------------------------------------
(* The network *)

NetStep ==
    Running /\ UNCHANGED <<regs, args, written, interrupts_disabled, asked, open_fds, destroyed>>

PeerSends ==
    /\ peer = "open" /\ sent < MaxStream
    /\ sent' = sent + 1 /\ unread' = unread + 1
    /\ UNCHANGED peer
    /\ NetStep

PeerShutsDown ==
    /\ peer = "open" /\ peer' = "shut"
    /\ UNCHANGED <<unread, sent>>
    /\ NetStep

\* What was not read may still be readable or be gone.
ConnectionLost(how) ==
    /\ peer \in {"open", "shut"} /\ peer' = how
    /\ unread' \in {0, unread}
    /\ UNCHANGED sent
    /\ NetStep

Commands == Connect \/ Quit \/ Send \/ Receive \/ ClearFail \/ BadCommand

Network ==
    \/ PeerSends
    \/ PeerShutsDown
    \/ \E how \in {"reset", "failed"} : ConnectionLost(how)

Next ==
    \/ Commands
    \/ \E a \in Addresses, n \in Sizes : WriteArgs(a, n)
    \/ UpdateStep
    \/ \E disable \in BOOLEAN : Mask(disable)
    \/ Delivered
    \/ Destroy
    \/ Gone
    \/ Network

Spec == Init /\ [][Next]_vars

\* The main loop always comes back to vm_modem_update.
FairSpec == Spec /\ WF_vars(UpdateStep)

-----------------------------------------------------------------------------
(* Properties *)

TypeOK ==
    /\ fd \in Descriptors \cup {NoFd}
    /\ status \subseteq Flags /\ LINE \in status
    /\ error \in Errors
    /\ arg_a \in Addresses \cup {0} /\ arg_b \in 0 .. POINTERS - 1
    /\ written \subseteq Nat
    /\ interrupts_disabled \in BOOLEAN /\ asked \in BOOLEAN /\ destroyed \in BOOLEAN
    /\ open_fds \subseteq Descriptors
    /\ peer \in Peers
    /\ unread \in 0 .. MaxStream /\ sent \in 0 .. MaxStream

\* The process holds the socket the modem uses and no other, however the
\* connection ended, also after a failed or a repeated connect and at exit
\* (modem.c:36-47, 93-97, 299-304).
NoSocketLeak == open_fds = IF destroyed THEN {} ELSE {fd} \ {NoFd}

\* The program's view of the line is right: CONN is set exactly while there is
\* a connected socket (modem.c:36-47, 91-155).
ConnectedIffSocket == CONN \in status <=> fd # NoFd

\* A program that sees FAIL finds the reason in the error register, whatever
\* it did since (modem.c:36-47, 219-248).
FailHasReason == FAIL \in status => error # "NONE"

\* INCM on a live socket means that recv has something to return, so the RECV
\* command, whose recv may block, does not stop the machine (modem.c:202-209).
RecvNeverBlocks == INCM \in status /\ fd # NoFd => unread > 0 \/ peer # "open"

\* A RECV stores outside the region its buffer begins in, the machine's RAM or
\* its ROM, in one case only: the program's size is so large that the sum in the
\* bounds test wraps.  No other size passes that test and overruns, in RAM, in
\* ROM, or from one to the other (modem.c:20-25, 195-200).
OverrunsOnlyByWrapping == [][Intact' \/ Wraps(arg_a, arg_b)]_vars

\* Bytes that INCM does not announce yet are announced by an interrupt, also
\* those a short RECV left behind, unless the program masks interrupts, reads
\* them by itself, loses the connection or has overrun (modem.c:77-87, 207).
LeftoversAreAnnounced ==
    (unread > 0 /\ INCM \notin status)
        ~> (asked \/ unread = 0 \/ interrupts_disabled \/ ~Intact)

-----------------------------------------------------------------------------
(* What the repository says and the code does not do *)

\* docs/hardware.md:87-88: the interrupt "is triggered when new data comes or
\* when connection is closed from the other side".
ClosingInterrupts ==
    [][fd # NoFd /\ fd' = NoFd /\ error' = "CONNRESET" /\ ~interrupts_disabled
        => asked']_vars

=============================================================================
