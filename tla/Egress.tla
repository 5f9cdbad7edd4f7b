-------------------------------- MODULE Egress --------------------------------
(***************************************************************************)
(* The way out of one connection: plaintext is sealed by the native        *)
(* connection (rustls), whose output is drained into the ciphertext cursor *)
(* of the connection's SendState; the driver submits the cursor and the    *)
(* kernel takes a prefix of it.  Receiving may queue native output at any  *)
(* time, also while a submission is in the kernel.                         *)
(*                                                                         *)
(* Between calls a connection holds a ciphertext slot exactly when its     *)
(* cursor has ciphertext (module Endpoint), so only the cursor is kept     *)
(* here; a call that needs a slot and finds none returns buffer_wait and   *)
(* changes nothing.                                                        *)
(***************************************************************************)
EXTENDS Naturals, Sequences

CONSTANTS
    CursorCap,     \* units one ciphertext slot holds
    MaxPart,       \* MAX_PLAINTEXT: plaintext of one write
    MaxOffer,      \* bound: plaintext the driver offers in one call
    MaxControl,    \* bound: control units the native connection queues at once
    MaxUnits       \* bound: units of the whole connection

ASSUME CapAssumption == CursorCap \in Nat \ {0}
ASSUME OfferAssumption ==
    /\ MaxPart \in Nat \ {0}
    /\ MaxOffer \in Nat /\ MaxControl \in Nat /\ MaxUnits \in Nat

VARIABLES
    open,          \* the handshake is done
    call,          \* "encrypt" inside the loop of encrypt, else "none"
    offer,         \* plaintext of the call that is not consumed
    accepted,      \* plaintext consumed so far
    native,        \* output of the native connection
    cursor,        \* SendState.buffer: ciphertext not yet taken by the kernel
    gone,          \* taken units that still occupy the slot before the cursor
    flight,        \* what was submitted to the kernel
    wire,          \* what the kernel has taken
    closed,        \* Connection.local_closed
    failed         \* Connection.failed, or the driver's terminal state

vars == <<open, call, offer, accepted, native, cursor, gone, flight, wire,
          closed, failed>>

Produced == wire \o cursor \o native

Stream == INSTANCE WireStream WITH produced <- Produced

Least(m, n) == IF m < n THEN m ELSE n

-----------------------------------------------------------------------------
(* state::drain: output moves to the cursor until none is left or the slot  *)
(* is full; an error keeps what was moved.                                  *)

\* Spare behind cur; an empty cursor starts over at the front of its slot.
Start(cur) == IF cur = <<>> THEN 0 ELSE gone
\* Mutant: what was taken is counted as spare.
SpareWhole(cur) == CursorCap - Len(cur)
Spare(cur) == CursorCap - Start(cur) - Len(cur)

Drain(cur, out, over) ==
    \E k \in 0..Least(Spare(cur), Len(out)), broken \in BOOLEAN :
        /\ broken => out # <<>> /\ Spare(cur) > 0
        /\ ~broken => k = Least(Spare(cur), Len(out))
        /\ cursor' = cur \o SubSeq(out, 1, k)
        /\ native' = SubSeq(out, k + 1, Len(out))
        /\ gone' = Start(cur)
        /\ failed' = (over \/ broken)

\* The bound on the whole connection.
Room(n) == Len(Produced) + n <= MaxUnits

Idle == call = "none"
\* Mutant: plaintext is sealed behind close_notify.
CanWriteClosed == ~failed /\ open
CanWrite == ~failed /\ ~closed /\ open

\* Connection::new: the opening's first flight is drained into its slot.
Init ==
    /\ open = FALSE /\ call = "none" /\ offer = 0 /\ accepted = 0
    /\ \E m \in 0..MaxControl :
        LET flight1 == Stream!Controls(m)
        IN /\ cursor = SubSeq(flight1, 1, Least(CursorCap, m))
           /\ native = SubSeq(flight1, Least(CursorCap, m) + 1, m)
    /\ gone = 0 /\ flight = <<>> /\ wire = <<>>
    /\ closed = FALSE /\ failed = FALSE

-----------------------------------------------------------------------------
(* Receiving.  A handshaking connection with nothing in the kernel drains    *)
(* into its slot; any other leaves its output to the send path.              *)

\* A refused record is answered with an alert; an input that cannot be read or
\* kept is not.
Receive ==
    /\ Idle /\ ~failed
    /\ \E m \in 0..MaxControl, kind \in {"none", "alert"}, broken, done \in BOOLEAN :
        LET out == native \o Stream!Sealed(0, m, kind)
        IN /\ kind = "alert" => broken
           /\ Room(m + Len(Stream!Last(kind)))
           /\ open' = (open \/ done)
           /\ IF ~open /\ flight = <<>>
              THEN Drain(cursor, out, broken)
              ELSE /\ native' = out
                   /\ failed' = broken
                   /\ UNCHANGED <<cursor, gone>>
    /\ UNCHANGED <<call, offer, accepted, flight, wire, closed>>

\* peer_eof: the end of input before a close_notify fails the connection.
PeerEof ==
    /\ Idle /\ ~failed
    /\ failed' = TRUE
    /\ UNCHANGED <<open, call, offer, accepted, native, cursor, gone, flight, wire, closed>>

-----------------------------------------------------------------------------
(* Sending.  The driver calls these while nothing is in the kernel.          *)

\* prepare and prepare_many: drain first, and seal plaintext only if that left
\* no native output.
Prepare ==
    /\ Idle /\ flight = <<>>
    /\ \E n \in 0..MaxOffer :
        /\ n > 0 \/ cursor # <<>> \/ native # <<>>
        /\ Drain(cursor, native, failed)
        /\ IF native' = <<>> /\ ~(failed' /\ ~failed)
           THEN call' = "encrypt" /\ offer' = n
           ELSE UNCHANGED <<call, offer>>
    /\ UNCHANGED <<open, accepted, flight, wire, closed>>

Encrypting == call = "encrypt"
Seals == CanWrite /\ offer > 0 /\ Spare(cursor) > 0 /\ native = <<>>

\* Mutant: a short write commits the whole part.
SealCommitsPart ==
    /\ Encrypting /\ Seals
    /\ \E n \in 0..Least(offer, MaxPart), m \in 0..MaxControl :
        /\ Room(n + m)
        /\ accepted' = accepted + Least(offer, MaxPart)
        /\ offer' = offer - Least(offer, MaxPart)
        /\ Drain(cursor, Stream!Sealed(n, m, "none"), failed)
        /\ call' = IF n = 0 \/ failed' THEN "none" ELSE call
    /\ UNCHANGED <<open, flight, wire, closed>>

\* One turn of encrypt: the native connection takes a prefix of the part, of
\* which exactly that is committed, and may add a key update.
Seal ==
    /\ Encrypting /\ Seals
    /\ \E n \in 0..Least(offer, MaxPart), m \in 0..MaxControl :
        /\ Room(n + m)
        /\ accepted' = accepted + n
        /\ offer' = offer - n
        /\ Drain(cursor, Stream!Sealed(n, m, "none"), failed)
        /\ call' = IF n = 0 \/ failed' THEN "none" ELSE call
    /\ UNCHANGED <<open, flight, wire, closed>>

\* The native connection refuses the part: nothing of it is committed.
SealFails ==
    /\ Encrypting /\ Seals
    /\ failed' = TRUE
    /\ call' = "none"
    /\ UNCHANGED <<open, offer, accepted, native, cursor, gone, flight, wire, closed>>

EncryptEnds ==
    /\ Encrypting /\ ~Seals
    /\ call' = "none"
    /\ UNCHANGED <<open, offer, accepted, native, cursor, gone, flight, wire, closed, failed>>

\* flush, when there is anything to move; prepare_drain of a connection that is
\* over does the same for an empty cursor, and nothing for another.
Flush ==
    /\ Idle /\ flight = <<>>
    /\ cursor # <<>> \/ native # <<>>
    /\ Drain(cursor, native, failed)
    /\ UNCHANGED <<open, call, offer, accepted, flight, wire, closed>>

\* Mutant: close_notify is sealed again by a retried close.
SealCloseAgain ==
    /\ Idle /\ flight = <<>>
    /\ LET kind == IF ~failed THEN "close" ELSE "none"
       IN /\ Room(Len(Stream!Last(kind)))
          /\ closed' = (closed \/ kind = "close")
          /\ Drain(cursor, native \o Stream!Last(kind), failed)
    /\ UNCHANGED <<open, call, offer, accepted, flight, wire>>

\* close and seal_close: close_notify goes behind the native output, once.
SealClose ==
    /\ Idle /\ flight = <<>>
    /\ LET kind == IF ~closed /\ ~failed THEN "close" ELSE "none"
       IN /\ Room(Len(Stream!Last(kind)))
          /\ closed' = (closed \/ kind = "close")
          /\ Drain(cursor, native \o Stream!Last(kind), failed)
    /\ UNCHANGED <<open, call, offer, accepted, flight, wire>>

-----------------------------------------------------------------------------
(* The kernel *)

\* The driver submits the cursor's ciphertext.
Submit ==
    /\ Idle /\ flight = <<>> /\ cursor # <<>>
    /\ flight' = cursor
    /\ UNCHANGED <<open, call, offer, accepted, native, cursor, gone, wire, closed, failed>>

\* The kernel took k units; consume_max takes them off the cursor.
Completes(k) ==
    /\ Idle /\ k <= Len(flight)
    /\ wire' = wire \o SubSeq(flight, 1, k)
    /\ flight' = <<>>
    /\ UNCHANGED <<open, call, offer, accepted, closed>>

Rest(k) == SubSeq(cursor, k + 1, Len(cursor))

\* Mutant: the native output replaces what the kernel did not take.
SentPartRefills ==
    \E k \in 1..CursorCap :
        /\ Completes(k) /\ k < Len(cursor)
        /\ Drain(<<>>, native, failed)

\* A submission that was taken in part keeps its suffix where it is.
SentPart ==
    \E k \in 1..CursorCap :
        /\ Completes(k) /\ k < Len(cursor)
        /\ cursor' = Rest(k) /\ gone' = gone + k
        /\ UNCHANGED <<native, failed>>

\* Mutant: the emptied slot is given back with native output waiting.
SentAllReleases ==
    \E k \in 1..CursorCap :
        /\ Completes(k) /\ k = Len(cursor)
        /\ cursor' = <<>> /\ gone' = 0
        /\ UNCHANGED <<native, failed>>

\* after_send and settle: an emptied cursor is refilled; settle does so only
\* when the terminal of a connection that is over still drains.
SentAll ==
    \E k \in 1..CursorCap :
        /\ Completes(k) /\ k = Len(cursor)
        /\ \/ Drain(<<>>, native, failed)
           \/ /\ failed
              /\ cursor' = <<>> /\ gone' = 0
              /\ UNCHANGED <<native, failed>>

-----------------------------------------------------------------------------
Next ==
    \/ Receive \/ PeerEof
    \/ Prepare \/ Seal \/ SealFails \/ EncryptEnds
    \/ Flush \/ SealClose
    \/ Submit \/ SentPart \/ SentAll

Spec == Init /\ [][Next]_vars

\* A call runs to its end, a submission completes, and a driver that keeps
\* calling submits what the calls have buffered.
LiveSpec ==
    /\ Spec
    /\ WF_vars(Seal \/ SealFails \/ EncryptEnds)
    /\ SF_vars(Submit)
    /\ WF_vars(SentPart \/ SentAll)

-----------------------------------------------------------------------------
(* Properties *)

\* In the kernel is what stands at the front of the cursor.
TypeOK ==
    /\ open \in BOOLEAN /\ call \in {"none", "encrypt"}
    /\ offer \in 0..MaxOffer /\ accepted \in Nat
    /\ native \in Seq(Stream!Unit) /\ cursor \in Seq(Stream!Unit)
    /\ wire \in Seq(Stream!Unit) /\ flight \in Seq(Stream!Unit)
    /\ gone \in 0..CursorCap /\ gone + Len(cursor) <= CursorCap
    /\ Len(flight) <= Len(cursor) /\ flight = SubSeq(cursor, 1, Len(flight))
    /\ closed \in BOOLEAN /\ failed \in BOOLEAN

\* The send path implements the abstract stream, with what is on the wire, in
\* the cursor and in the native connection as the stream produced so far.
StreamSpec == Stream!Spec

\* Each consumed byte of plaintext is sealed once, in order, however writes
\* fall short and output backs up.
DataInOrder == Stream!DataInOrder

\* close_notify once, and no plaintext behind the end of the stream.
NothingAfterEnd == Stream!NothingAfterEnd

\* Once a connection has ciphertext in its slot, completions alone carry all
\* that is produced to the wire: the driver need not ask again.
CompletionsSuffice ==
    \A n \in 1..MaxUnits :
        (cursor # <<>> /\ Len(Produced) >= n) ~> (Len(wire) >= n \/ failed)
=============================================================================
