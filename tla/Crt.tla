-------------------------------- MODULE Crt --------------------------------
(***************************************************************************)
(* The vector display and the keyboard (vm/dev/crt.c): the segments the ray *)
(* has drawn, in a linked list through an array whose free places are kept  *)
(* in a pool; the tick of the main loop, which turns key presses into       *)
(* interrupts, draws and recycles what has faded; and the window's end.     *)
(*                                                                          *)
(* Times are kept as ages: how long before the present a segment ended and  *)
(* the last tick happened, up to the value after which nothing changes.     *)
(* The array begins at 1, and 0 stands for the index (size_t) -1.           *)
(***************************************************************************)
EXTENDS Integers, Sequences, FiniteSets

CONSTANTS
    Points,     \* positions the two registers can name
    Origin,     \* the middle of the screen
    FADE,       \* FULL_FADE_TIME, in units of TimePasses
    TICK,       \* TIME_BETWEEN_TICKS, in the same units
    Keys,       \* the keys of the host's keyboard in use
    MaxSegs,    \* bound: places in the array of segments
    MaxKeys     \* bound: presses remembered by the host and the device

ASSUME CrtAssumption ==
    /\ Origin \in Points
    /\ FADE \in Nat
    /\ TICK \in Nat
    /\ MaxSegs \in Nat
    /\ MaxKeys \in Nat

VARIABLES
    segs,           \* crt->segs
    seg_pool,       \* crt->seg_pool, used as a stack
    oldest_idx,
    newest_idx,
    cursor,         \* where the ray is
    keys,           \* crt->keys: pressed and not yet reported released
    kpos,           \* of the loop over keys: how many it has kept
    key_i,          \* and which one is next
    since_tick,     \* time since prev_update_time
    should_exit,
    was_closed,
    should_die,     \* vm->should_die
    phase,          \* "machine": instructions run, or the loop is called
                    \* "press", "release", "fade": inside the loops of the
                    \* tick that ask for presses, ask for releases and
                    \* recycle segments
                    \* "gone": vm_crt_destroy has returned
    down,           \* host: keys that are down
    pressed,        \* host: presses since the last poll
    owed            \* per key, presses less releases asked of the machine

segVars == <<segs, seg_pool, oldest_idx, newest_idx, cursor>>
keyVars == <<keys, kpos, key_i, down, pressed, owed>>
endVars == <<should_exit, was_closed, should_die>>
vars == <<segVars, keyVars, since_tick, endVars, phase>>

NONE == 0

Segments ==
    [start : Points, next : Nat, lit : BOOLEAN, age : 0..FADE + 1]

Init ==
    /\ segs = <<>>
    /\ seg_pool = <<>>
    /\ oldest_idx = NONE
    /\ newest_idx = NONE
    /\ cursor = Origin
    /\ keys = <<>>
    /\ kpos = 0
    /\ key_i = 1
    /\ since_tick = TICK
    /\ should_exit = FALSE
    /\ was_closed = FALSE
    /\ should_die = FALSE
    /\ phase = "machine"
    /\ down = {}
    /\ pressed = <<>>
    /\ owed = [k \in Keys |-> 0]

-----------------------------------------------------------------------------
(* The program draws.                                                       *)

\* An instruction runs only in a live machine (vm_exec).
Running == phase = "machine" /\ ~should_die

\* _new_segment: the place most recently freed, or a new one at the end.
NewIndex ==
    IF seg_pool # <<>> THEN seg_pool[Len(seg_pool)] ELSE Len(segs) + 1

PoolWithNew == seg_pool
PoolWithoutNew ==
    IF seg_pool # <<>> THEN SubSeq(seg_pool, 1, Len(seg_pool) - 1) ELSE <<>>

\* The array with seg at place i, which may be the first one past its end.
Placed(i, seg) ==
    [j \in DOMAIN segs \cup {i} |-> IF j = i THEN seg ELSE segs[j]]

\* The list continued from its newest segment, if there is one.
Continued(places, i) ==
    IF newest_idx = NONE THEN places
    ELSE [places EXCEPT ![newest_idx].next = i]

\* A segment that starts at the cursor and ends now.  A stroke is lit for a
\* time that begins now too: the distance it takes to draw is measured from a
\* cursor that has already moved (crt.c:45, 55), so it is always zero.
NewSegment(stroke) ==
    [start |-> cursor, next |-> NONE, lit |-> stroke, age |-> 0]

\* _vm_crt_move, called for a command byte: 0 moves, any other value draws.
\* The program has stored any position it likes in crt_x and crt_y before.
Move(to, stroke) ==
    /\ Running
    /\ seg_pool # <<>> \/ Len(segs) < MaxSegs
    /\ segs' = Continued(Placed(NewIndex, NewSegment(stroke)), NewIndex)
    /\ seg_pool' = PoolWithoutNew
    /\ oldest_idx' = IF newest_idx = NONE THEN NewIndex ELSE oldest_idx
    /\ newest_idx' = NewIndex
    /\ cursor' = to
    /\ UNCHANGED <<keyVars, since_tick, endVars, phase>>

\* The machine dies of itself: halted for good, or a second fault.
Die ==
    /\ Running
    /\ should_die' = TRUE
    /\ UNCHANGED <<segVars, keyVars, since_tick,
                   should_exit, was_closed, phase>>

-----------------------------------------------------------------------------
(* The host: time and keys.  A tick takes no time.                          *)

Older(age, limit) == IF age < limit THEN age + 1 ELSE age

TimePasses ==
    /\ phase = "machine"
    /\ since_tick' = Older(since_tick, TICK)
    /\ segs' = [i \in DOMAIN segs |->
                    [segs[i] EXCEPT !.age = Older(@, FADE + 1)]]
    /\ UNCHANGED <<seg_pool, oldest_idx, newest_idx, cursor, keyVars,
                   endVars, phase>>

PressKey(k) ==
    /\ phase = "machine"
    /\ k \notin down
    /\ Len(keys) + Len(pressed) < MaxKeys
    /\ down' = down \cup {k}
    /\ pressed' = Append(pressed, k)
    /\ UNCHANGED <<segVars, keys, kpos, key_i, owed, since_tick, endVars,
                   phase>>

ReleaseKey(k) ==
    /\ phase = "machine"
    /\ k \in down
    /\ down' = down \ {k}
    /\ UNCHANGED <<segVars, keys, kpos, key_i, pressed, owed, since_tick,
                   endVars, phase>>

-----------------------------------------------------------------------------
(* vm_crt_loop.                                                             *)

Due == ~was_closed /\ since_tick >= TICK

\* The ordinary tick, up to its loops.
Tick ==
    /\ phase = "machine"
    /\ Due
    /\ ~should_exit
    /\ since_tick' = 0
    /\ phase' = "press"
    /\ UNCHANGED <<segVars, keyVars, endVars>>

\* One round of the loop over GetKeyPressed: the interrupt of a press is asked
\* for and the key joins those held.
TakePress ==
    /\ phase = "press"
    /\ pressed # <<>>
    /\ keys' = Append(keys, Head(pressed))
    /\ owed' = [owed EXCEPT ![Head(pressed)] = @ + 1]
    /\ pressed' = Tail(pressed)
    /\ UNCHANGED <<segVars, kpos, key_i, down, since_tick, endVars, phase>>

PressesDone ==
    /\ phase = "press"
    /\ pressed = <<>>
    /\ phase' = "release"
    /\ UNCHANGED <<segVars, keyVars, since_tick, endVars>>

\* One round of the loop over the keys held: one that is down moves to the
\* front of the array, for any other its release is asked for.
KeepKey ==
    /\ phase = "release"
    /\ key_i <= Len(keys)
    /\ keys[key_i] \in down
    /\ keys' = [keys EXCEPT ![kpos + 1] = keys[key_i]]
    /\ kpos' = kpos + 1
    /\ key_i' = key_i + 1
    /\ UNCHANGED <<segVars, down, pressed, owed, since_tick, endVars, phase>>

ReportRelease ==
    /\ phase = "release"
    /\ key_i <= Len(keys)
    /\ keys[key_i] \notin down
    /\ owed' = [owed EXCEPT ![keys[key_i]] = @ - 1]
    /\ key_i' = key_i + 1
    /\ UNCHANGED <<segVars, keys, kpos, down, pressed, since_tick, endVars,
                   phase>>

\* The keys that stay held: what the loop has moved to the front.
KeptAndLeftOver == keys
KeptForgotten == <<>>
Kept == SubSeq(keys, 1, kpos)

ReleasesDone ==
    /\ phase = "release"
    /\ key_i > Len(keys)
    /\ keys' = Kept
    /\ kpos' = 0
    /\ key_i' = 1
    /\ phase' = "fade"
    /\ UNCHANGED <<segVars, down, pressed, owed, since_tick, endVars>>

ExpiredUnlessLast(i) == i # NONE /\ segs[i].age > FADE /\ segs[i].next # NONE
Expired(i) == i # NONE /\ segs[i].age > FADE

\* One round of the loop: the oldest segment goes to the pool.
Recycle ==
    /\ phase = "fade"
    /\ Expired(oldest_idx)
    /\ seg_pool' = Append(seg_pool, oldest_idx)
    /\ oldest_idx' = segs[oldest_idx].next
    /\ UNCHANGED <<segs, newest_idx, cursor, keyVars, since_tick,
                   endVars, phase>>

NewestKept == newest_idx
NewestAfterFade == IF oldest_idx = NONE THEN NONE ELSE newest_idx

\* Its end, and the return of the tick.
FadeDone ==
    /\ phase = "fade"
    /\ ~Expired(oldest_idx)
    /\ newest_idx' = NewestAfterFade
    /\ phase' = "machine"
    /\ UNCHANGED <<segs, seg_pool, oldest_idx, cursor, keyVars,
                   since_tick, endVars>>

\* The user has closed the window: the tick sees it, after its poll, and
\* takes the machine down.
CloseWindow ==
    /\ phase = "machine"
    /\ Due
    /\ was_closed' = TRUE
    /\ should_die' = TRUE
    /\ since_tick' = 0
    /\ UNCHANGED <<segVars, keyVars, should_exit, phase>>

\* vm_crt_destroy, after the main loop: one more call of vm_crt_loop, which
\* returns at once when the window is closed or the last tick is too recent.
Destroy ==
    /\ phase = "machine"
    /\ should_die
    /\ should_exit' = TRUE
    /\ was_closed' = (was_closed \/ Due)
    /\ since_tick' = IF Due THEN 0 ELSE since_tick
    /\ phase' = "gone"
    /\ UNCHANGED <<segVars, keyVars, should_die>>

Gone ==
    /\ phase = "gone"
    /\ UNCHANGED vars

Next ==
    \/ \E to \in Points, stroke \in BOOLEAN : Move(to, stroke)
    \/ Die
    \/ TimePasses
    \/ \E k \in Keys : PressKey(k) \/ ReleaseKey(k)
    \/ Tick
    \/ TakePress
    \/ PressesDone
    \/ KeepKey
    \/ ReportRelease
    \/ ReleasesDone
    \/ Recycle
    \/ FadeDone
    \/ CloseWindow
    \/ Destroy
    \/ Gone

\* Time goes on, and the main loop comes back to the display
\* (DevicesKeepTheirTurn of VmCore).
Rounds ==
    \/ TakePress \/ PressesDone
    \/ KeepKey \/ ReportRelease \/ ReleasesDone
    \/ Recycle \/ FadeDone
Fairness == WF_vars(TimePasses) /\ WF_vars(Tick) /\ WF_vars(Rounds)

Spec == Init /\ [][Next]_vars
FairSpec == Spec /\ Fairness

-----------------------------------------------------------------------------
(* Properties.                                                              *)

TypeOK ==
    /\ segs \in Seq(Segments)
    /\ seg_pool \in Seq(Nat)
    /\ oldest_idx \in Nat
    /\ newest_idx \in Nat
    /\ cursor \in Points
    /\ keys \in Seq(Keys)
    /\ kpos \in 0..Len(keys)
    /\ key_i \in 1..Len(keys) + 1
    /\ since_tick \in 0..TICK
    /\ should_exit \in BOOLEAN
    /\ was_closed \in BOOLEAN
    /\ should_die \in BOOLEAN
    /\ phase \in {"machine", "press", "release", "fade", "gone"}
    /\ down \in SUBSET Keys
    /\ pressed \in Seq(Keys)
    /\ owed \in [Keys -> Int]

\* The orders in which places of the array can be linked.
Orders == UNION {[1..n -> DOMAIN segs] : n \in 0..Len(segs)}

\* The list from oldest_idx visits the places of q, in order, and ends.
IsList(q) ==
    /\ oldest_idx = IF q = <<>> THEN NONE ELSE q[1]
    /\ \A n \in DOMAIN q :
          segs[q[n]].next = IF n = Len(q) THEN NONE ELSE q[n + 1]

\* The list and the pool together hold every place exactly once.
HoldsAllOnce(q) ==
    /\ Len(q) + Len(seg_pool) = Len(segs)
    /\ \A n \in DOMAIN q, m \in DOMAIN seg_pool : q[n] # seg_pool[m]
    /\ \A m, n \in DOMAIN q : q[m] = q[n] => m = n
    /\ \A m, n \in DOMAIN seg_pool : seg_pool[m] = seg_pool[n] => m = n

\* newest_idx is the end of the list; inside the loop it may outlive the list.
EndsAtNewest(q) ==
    /\ q # <<>> => newest_idx = q[Len(q)]
    /\ q = <<>> /\ phase # "fade" => newest_idx = NONE

\* The list that starts at oldest_idx ends, at newest_idx; no place of the
\* array is in it twice, or both in it and free, or in neither
\* (crt.c:23-36, 74-83, 322-329).
SegmentsAccounted ==
    \E q \in Orders : IsList(q) /\ HoldsAllOnce(q) /\ EndsAtNewest(q)

\* The list, followed from oldest_idx: its n-th place, counting from 0.
Successor ==
    [i \in {NONE} \cup DOMAIN segs |-> IF i = NONE THEN NONE ELSE segs[i].next]

Nth[n \in Nat] == IF n = 0 THEN oldest_idx ELSE Successor[Nth[n - 1]]

OnList(i) == \E n \in 0..Len(segs) - 1 : Nth[n] = i

ListLength == Cardinality({n \in 0..Len(segs) - 1 : Nth[n] # NONE})

\* What vm_crt_loop draws: the list, each line ending where the next begins
\* and the last one at the cursor (crt.c:292-309).
Line(seg) ==
    [from |-> seg.start,
     to |-> IF seg.next = NONE THEN cursor ELSE segs[seg.next].start,
     lit |-> seg.lit,
     age |-> seg.age]

Drawn == [n \in 1..ListLength |-> Line(segs[Nth[n - 1]])]

\* The list in the array is the queue of lines the program has drawn: in
\* order, end to end, none lost while it is visible.
Screen == INSTANCE Phosphor WITH lines <- Drawn, pen <- cursor
ImplementsPhosphor == Screen!Spec

\* A tick leaves no faded segment anywhere in the list, although it looks at
\* the oldest only (crt.c:322-327).
NoneFaded ==
    \E q \in Orders : IsList(q) /\ \A n \in DOMAIN q : segs[q[n]].age <= FADE
TickForgetsAllFaded ==
    [][phase = "fade" /\ phase' = "machine" => NoneFaded']_vars

\* The places of keys that the device still has to look at or has kept: all of
\* them, but for what the loop over keys has dropped or moved to the front.
StillHeld == 1..kpos \cup key_i..Len(keys)

\* As many releases as presses have been asked of the machine, but for the
\* keys the device still holds, also while the array of keys is compacted in
\* place (crt.c:274-288).
ReleasesMatchPresses ==
    \A k \in Keys : owed[k] = Cardinality({n \in StillHeld : keys[n] = k})

\* Every place in the list is freed, as long as the window is open
\* (crt.c:321-327).
SegmentsAreFreed ==
    \A i \in 1..MaxSegs :
        OnList(i)
            ~> (\/ i \in {seg_pool[m] : m \in DOMAIN seg_pool}
                \/ was_closed
                \/ phase = "gone")

\* A key that stays up is reported released as often as it was pressed
\* (crt.c:280-288).
KeysAreReleased ==
    \A k \in Keys :
        \/ []<>(k \in down)
        \/ <>[](owed[k] = 0)
        \/ <>(was_closed \/ phase = "gone")

\* include/ivm/vm/dev/crt.h:69: vm_crt_destroy is to "Destroy the CRT window":
\* when it has returned, the window is closed.
WindowIsDestroyed == phase = "gone" => was_closed
=============================================================================
