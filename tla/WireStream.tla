------------------------------ MODULE WireStream ------------------------------
(***************************************************************************)
(* What one TLS connection owes its peer: one stream of sealed units.  The *)
(* plaintext the driver was told is consumed is in it once and in order,   *)
(* close_notify is in it at most once and no plaintext follows the end,    *)
(* and the wire carries the stream from its beginning, without a gap.      *)
(***************************************************************************)
EXTENDS Naturals, Sequences

CONSTANTS
    MaxPart,       \* plaintext of one record
    MaxControl     \* control units one step produces

VARIABLES
    produced,      \* everything sealed so far
    wire,          \* everything the kernel has taken
    accepted,      \* plaintext reported to the driver as consumed
    closed,        \* Connection.local_closed
    failed         \* Connection.failed, or the driver's terminal state

stream == <<produced, wire, accepted, closed, failed>>

Unit == [kind : {"data"}, at : Nat \ {0}] \cup [kind : {"control", "close", "alert"}, at : {0}]

DataUnit(x)    == [kind |-> "data", at |-> x]
\* The n bytes of plaintext behind the first x.
Data(x, n)     == [i \in 1..n |-> DataUnit(x + i)]
\* Handshake messages, key updates, session tickets.
Controls(m)    == [i \in 1..m |-> [kind |-> "control", at |-> 0]]
Last(kind)     == IF kind = "none" THEN <<>> ELSE <<[kind |-> kind, at |-> 0]>>
Sealed(n, m, kind) == Data(accepted, n) \o Controls(m) \o Last(kind)

Init ==
    /\ \E m \in 0..MaxControl : produced = Controls(m)
    /\ wire = <<>>
    /\ accepted = 0
    /\ closed = FALSE /\ failed = FALSE

Produce ==
    \E n \in 0..MaxPart, m \in 0..MaxControl, kind \in {"none", "close", "alert"} :
        /\ n > 0 \/ kind = "close" => ~closed /\ ~failed
        /\ produced' = produced \o Sealed(n, m, kind)
        /\ accepted' = accepted + n
        /\ closed' = (closed \/ kind = "close")
        /\ failed' \in {failed, TRUE}
        /\ kind = "alert" => failed'
        /\ UNCHANGED wire

\* The kernel takes some more of what is produced.
Transmit ==
    /\ \E n \in (Len(wire) + 1)..Len(produced) : wire' = SubSeq(produced, 1, n)
    /\ failed' \in {failed, TRUE}
    /\ UNCHANGED <<produced, accepted, closed>>

Next == Produce \/ Transmit

Spec == Init /\ [][Next]_stream

-----------------------------------------------------------------------------
IsData(i) == produced[i].kind = "data"

\* Exactly the plaintext reported as consumed was sealed: each byte once, in
\* the order it was offered.
DataInOrder ==
    /\ \A i, j \in 1..Len(produced) :
          IsData(i) /\ IsData(j) /\ i < j => produced[i].at < produced[j].at
    /\ \A i \in 1..Len(produced) : IsData(i) => produced[i].at \in 1..accepted
    /\ \A x \in 1..accepted : \E i \in 1..Len(produced) : produced[i] = DataUnit(x)

\* Behind a close_notify or an alert there is no plaintext and no close_notify.
NothingAfterEnd ==
    \A i, j \in 1..Len(produced) :
        i < j /\ produced[i].kind \in {"close", "alert"} =>
            produced[j].kind \notin {"data", "close"}

\* The peer has received a prefix of what was produced for it.
WireIsPrefix ==
    /\ Len(wire) <= Len(produced)
    /\ wire = SubSeq(produced, 1, Len(wire))
=============================================================================
