-------------------------------- MODULE Terminal --------------------------------
(***************************************************************************)
(* How connections end while they compete for ciphertext slots             *)
(* (src/src/tls/senders.rs, protocol.rs).  A connection that is shut down  *)
(* seals a close_notify; one that fails on a receive owes its peer an      *)
(* alert, and the driver then calls only settle and prepare_drain.  Either *)
(* may find no slot, or have its last words behind output that does not    *)
(* fit in one: it may be closed only when they have left.                  *)
(*                                                                         *)
(* conn[c] is a connection, its SendState and what the driver keeps of the *)
(* last answer (closing: close_after; waiting: buffer_wait).  Ciphertext   *)
(* is counted; due counts the units up to and with the last words.         *)
(***************************************************************************)
EXTENDS Naturals, FiniteSets

CONSTANTS
    Conns,
    Slots,         \* ciphertext slots of the worker
    CursorCap,     \* units in one of them
    MaxUnits       \* bound: units a connection produces besides its last words

ASSUME CapAssumption == CursorCap \in Nat \ {0}
ASSUME BoundAssumption == MaxUnits \in Nat

VARIABLE conn

Fresh == [native |-> 0, cursor |-> 0, held |-> FALSE, flight |-> 0, due |-> 0, made |-> 0,
          open |-> FALSE, bye |-> FALSE, closed |-> FALSE, terminal |-> "no", broken |-> FALSE,
          closing |-> FALSE, waiting |-> FALSE, phase |-> "alive"]

Init == conn = [c \in Conns |-> Fresh]

Least(m, n) == IF m < n THEN m ELSE n

-----------------------------------------------------------------------------
(* Steps of a call, from one record to the next *)

\* SendState::try_buffer finds the connection's own slot or takes one.
HasCapacity == Cardinality({c \in Conns : conn[c].held}) < Slots
CanBuffer(r) == r.held \/ HasCapacity

Fit(r) == Least(CursorCap - r.cursor, r.native)

\* An emptied cursor starts over; behind a retained suffix there is less room.
Moves(r) == IF r.cursor = 0 THEN {Fit(r)} ELSE 0..Fit(r)

Moved(r, k) == [r EXCEPT !.held = TRUE, !.cursor = r.cursor + k, !.native = r.native - k]

\* Connection::drain: output moves until none is left or the slot is full; a
\* failure keeps what was moved, and uses up a Drain.
Drained(r) ==
    {Moved(r, k) : k \in Moves(r)}
        \cup {[Moved(r, k) EXCEPT !.broken = TRUE, !.terminal = "spent"] :
                 k \in {j \in 0..Fit(r) : r.native > 0}}

FreeEmpty(r) == [r EXCEPT !.held = r.held /\ r.cursor > 0]

Waits(r)    == [r EXCEPT !.waiting = TRUE]
Buffered(r) == [FreeEmpty(r) EXCEPT !.waiting = FALSE]

\* A connection in use that a failed drain ends: the driver may or may not
\* offer a Drain.
Offered(d) ==
    IF d.broken THEN {[d EXCEPT !.terminal = t] : t \in {"drain", "spent"}} ELSE {d}

Ready(d) == {[Buffered(r) EXCEPT !.closing = r.broken] : r \in Offered(d)}

\* A cursor with a suffix keeps it in place until it was sent.
Refill(r) == IF r.cursor = 0 THEN Drained(r) ELSE {r}

Produces(r, n) == [r EXCEPT !.native = @ + n, !.made = @ + n]

\* A last word goes behind everything, an alert also behind one's own close_notify.
LastWord(r) == [r EXCEPT !.native = @ + 1, !.due = r.cursor + r.native + 1]

\* Mutant: what was sent still counts as in the kernel.
TakenInFlight(r, n) ==
    [r EXCEPT !.cursor = @ - n, !.due = IF @ < n THEN 0 ELSE @ - n]

\* The kernel has taken n units.
Taken(r, n) ==
    [r EXCEPT !.flight = 0, !.cursor = @ - n, !.due = IF @ < n THEN 0 ELSE @ - n]

Alive(c) == conn[c].phase = "alive" /\ conn[c].terminal = "no"
Ending(c) == conn[c].phase = "alive" /\ conn[c].terminal # "no"

Becomes(c, set) == \E r \in set : conn' = [conn EXCEPT ![c] = r]

-----------------------------------------------------------------------------
(* The connection is in use *)

\* A receive queues output.  One that fails may have an alert to send; the
\* end of input without close_notify has none.
Receive(c) ==
    /\ Alive(c)
    /\ \E n \in 0..(MaxUnits - conn[c].made), fails, alert, done \in BOOLEAN :
        LET old == conn[c]
            out == Produces([old EXCEPT !.open = @ \/ done], n)
            end == IF fails /\ alert THEN LastWord(out) ELSE out
            new == IF fails THEN [end EXCEPT !.terminal = "drain"] ELSE end
        IN IF ~old.open /\ old.flight = 0
           THEN /\ CanBuffer(old)
                /\ \E d \in Drained(new) : Becomes(c, Offered(FreeEmpty(d)))
           ELSE Becomes(c, {new})

\* flush, and prepare with n units of plaintext to seal: only a connection that
\* may write seals, and only behind output that is drained.
Send(c) ==
    /\ Alive(c) /\ conn[c].flight = 0
    /\ \E n \in 0..(MaxUnits - conn[c].made) :
        LET old == conn[c]
        IN /\ n > 0 => old.open /\ ~old.closed
           /\ n > 0 \/ old.cursor > 0 \/ old.native > 0
           /\ IF ~CanBuffer(old)
              THEN Becomes(c, {Waits(old)})
              ELSE \E d \in Drained(old) :
                    IF n > 0 /\ d.native = 0 /\ d.cursor < CursorCap /\ ~d.broken
                    THEN \E s \in Drained(Produces(d, n)) : Becomes(c, Ready(s))
                    ELSE Becomes(c, Ready(d))

\* close_notify is sealed once.
Sealed(r) == IF r.closed THEN r ELSE [LastWord(r) EXCEPT !.closed = TRUE]

\* Egress::close, when the application shuts the connection down (bye), and
\* again while it waits for a slot.
Close(c) ==
    /\ Alive(c) /\ conn[c].flight = 0
    /\ LET old == [conn[c] EXCEPT !.bye = TRUE]
       IN IF ~CanBuffer(old)
          THEN Becomes(c, {Waits(old)})
          ELSE \E d \in Drained(Sealed(old)) : Becomes(c, Ready(d))

Submit(c) ==
    /\ conn[c].phase = "alive" /\ conn[c].flight = 0 /\ conn[c].cursor > 0
    /\ Becomes(c, {[conn[c] EXCEPT !.flight = conn[c].cursor]})

\* Mutant: a completion keeps the emptied slot.
AfterSendKeeps(c) ==
    /\ Alive(c)
    /\ \E n \in 1..conn[c].flight : \E d \in Refill(Taken(conn[c], n)) :
        Becomes(c, {[r EXCEPT !.held = TRUE] : r \in Ready(d)})

AfterSend(c) ==
    /\ Alive(c)
    /\ \E n \in 1..conn[c].flight : \E d \in Refill(Taken(conn[c], n)) :
        Becomes(c, Ready(d))

-----------------------------------------------------------------------------
(* The connection is over *)

\* Mutant: without a slot there is nothing to wait for.
EndedWithoutSlot(r) ==
    LET told == [r EXCEPT !.closing = TRUE]
    IN IF r.terminal = "spent" \/ r.native = 0 \/ ~CanBuffer(r)
       THEN {Buffered(told)}
       ELSE {Buffered(d) : d \in Refill(told)}

\* resume and what settle and prepare_drain make of it: both tell the driver to
\* close afterwards, but a connection without a slot is to be called again.
Ended(r) ==
    LET told == [r EXCEPT !.closing = TRUE]
    IN IF r.terminal = "spent" \/ r.native = 0
       THEN {Buffered(told)}
       ELSE IF ~CanBuffer(r)
       THEN {Waits(told)}
       ELSE {Buffered(d) : d \in Refill(told)}

PrepareDrain(c) ==
    /\ Ending(c) /\ conn[c].flight = 0
    /\ Becomes(c, Ended(conn[c]))

Settle(c) ==
    /\ Ending(c)
    /\ \E n \in 1..conn[c].flight : Becomes(c, Ended(Taken(conn[c], n)))

-----------------------------------------------------------------------------
(* The driver closes, when it may and what it was given has left *)

NothingLeft(c) == conn[c].flight = 0 /\ conn[c].cursor = 0 /\ ~conn[c].waiting

\* Nothing of it is used any more; what it owes stays on record.
Over(r, phase) == [Fresh EXCEPT !.phase = phase, !.due = r.due, !.broken = r.broken]

\* The socket's write half, after an orderly close.
WriteShutdown(c) ==
    /\ Alive(c) /\ conn[c].closed /\ NothingLeft(c)
    /\ Becomes(c, {Over(conn[c], "shut")})

HangUp(c) ==
    /\ Ending(c) /\ conn[c].closing /\ NothingLeft(c)
    /\ Becomes(c, {Over(conn[c], "gone")})

Next ==
    \E c \in Conns :
        \/ Receive(c) \/ Send(c) \/ Close(c) \/ Submit(c) \/ AfterSend(c)
        \/ PrepareDrain(c) \/ Settle(c) \/ WriteShutdown(c) \/ HangUp(c)

Fairness ==
    \A c \in Conns :
        /\ WF_conn(Submit(c)) /\ WF_conn(AfterSend(c)) /\ WF_conn(Settle(c))
        /\ WF_conn(conn[c].bye /\ Close(c)) /\ WF_conn(PrepareDrain(c))
        /\ WF_conn(WriteShutdown(c)) /\ WF_conn(HangUp(c))

Spec == Init /\ [][Next]_conn /\ Fairness

-----------------------------------------------------------------------------
(* Properties *)

Connection ==
    [native : Nat, cursor : 0..CursorCap, held : BOOLEAN, flight : 0..CursorCap, due : Nat,
     made : 0..MaxUnits, open : BOOLEAN, bye : BOOLEAN, closed : BOOLEAN,
     terminal : {"no", "drain", "spent"}, broken : BOOLEAN, closing : BOOLEAN,
     waiting : BOOLEAN, phase : {"alive", "shut", "gone"}]

TypeOK ==
    /\ conn \in [Conns -> Connection]
    /\ \A c \in Conns :
        /\ conn[c].flight <= conn[c].cursor
        /\ conn[c].phase = "alive" => conn[c].due <= conn[c].cursor + conn[c].native

\* The driver neither shuts the socket down nor hangs up before the close_notify
\* or the alert has left, however late a slot was found for it and however many
\* completions it took; except when draining failed.
LastWordsLeave ==
    \A c \in Conns : conn[c].phase # "alive" => conn[c].due = 0 \/ conn[c].broken

\* A connection that was shut down or is over is closed some day: a wait for a
\* slot is answered, because whoever holds one sends what is in it and gives it
\* back, and no connection that ends waits for itself.
Ends ==
    \A c \in Conns :
        (conn[c].bye \/ conn[c].terminal # "no") ~> conn[c].phase # "alive"
=============================================================================
