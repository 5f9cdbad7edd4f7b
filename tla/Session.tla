-------------------------------- MODULE Session --------------------------------
(***************************************************************************)
(* One direction of a TLS session, end to end: what one connection seals   *)
(* (WireStream, which Egress implements) travels over a TCP connection     *)
(* that may be cut anywhere, and the peer, running the same code, decrypts *)
(* and publishes it (state/direct/input.rs, receive/mod.rs, protocol.rs).  *)
(* What this module adds is the end: when the reader's application may     *)
(* hear that the stream is over, and what it has been given by then.       *)
(***************************************************************************)
EXTENDS WireStream

CONSTANT MaxUnits      \* bound: units of the stream

ASSUME UnitsAssumption == MaxPart \in Nat /\ MaxControl \in Nat /\ MaxUnits \in Nat

VARIABLES
    seen,              \* units of the wire the reader has received
    decoded,           \* of these, units in records that are complete
    delivered,         \* positions in the wire published to the reader's application
    peer_closed,       \* the reader's Connection.peer_closed
    broken,            \* the reader's Connection.failed, or the driver's terminal state
    told               \* what its application was told: "open", "eof", "failed"

reader == <<seen, decoded, delivered, peer_closed, broken, told>>
session == <<stream, reader>>

End == {"close", "alert"}

ReaderInit ==
    /\ seen = 0 /\ decoded = 0 /\ delivered = {}
    /\ peer_closed = FALSE /\ broken = FALSE /\ told = "open"

SessionInit == Init /\ ReaderInit

Write == (Produce \/ Transmit) /\ Len(produced') <= MaxUnits /\ UNCHANGED reader

\* protocol.rs finish: an error goes before the end of the stream.
Outcome(result, closes) ==
    IF ~result THEN "failed" ELSE IF closes THEN "eof" ELSE "open"

\* Mutant: a connection that failed reads on.
ReadsOn == ~peer_closed

\* The guard of the loop in Input::owned; the driver reads no connection that is
\* over.
Reads == ~peer_closed /\ ~broken

\* The native connection goes as far as the first end; an alert is an error.
Decodes(d, result) ==
    /\ \A i \in (decoded + 1)..(d - 1) : wire[i].kind \notin End
    /\ d > decoded /\ wire[d].kind = "alert" => ~result

\* What is decoded is published also in front of an error, of decoding or of
\* flushing the answer (result); only a read that cannot be counted is lost.
Read ==
    /\ Reads
    /\ \E s \in (seen + 1)..Len(wire) : \E d \in decoded..s, result, kept \in BOOLEAN :
        LET closes == d > decoded /\ wire[d].kind = "close"
        IN /\ Decodes(d, result)
           /\ result => kept
           /\ seen' = s /\ decoded' = d
           /\ delivered' = delivered \cup (IF kept THEN (decoded + 1)..d ELSE {})
           /\ peer_closed' = closes
           /\ broken' = ~result
           /\ told' = Outcome(result, closes)
    /\ UNCHANGED stream

\* Mutant: the end of the TCP stream is the end of the session's.
EofOfTcp ==
    /\ ~broken
    /\ told' = "eof"
    /\ UNCHANGED <<stream, seen, decoded, delivered, peer_closed, broken>>

\* Mutant: the failure is reported and not kept.
EofForgets ==
    /\ ~broken
    /\ told' = IF peer_closed THEN told ELSE "failed"
    /\ UNCHANGED <<stream, seen, decoded, delivered, peer_closed, broken>>

\* The TCP stream ends, wherever it was cut: Connection::peer_eof asks the
\* native connection whether that was after a close_notify.
Eof ==
    /\ ~broken
    /\ broken' = ~peer_closed
    /\ told' = IF peer_closed THEN told ELSE "failed"
    /\ UNCHANGED <<stream, seen, decoded, delivered, peer_closed>>

SessionNext == Write \/ Read \/ Eof

SessionSpec == SessionInit /\ [][SessionNext]_session

-----------------------------------------------------------------------------
(* Properties *)

TypeOK ==
    /\ seen \in 0..Len(wire) /\ decoded \in 0..seen
    /\ delivered \subseteq 1..decoded
    /\ peer_closed \in BOOLEAN /\ broken \in BOOLEAN
    /\ told \in {"open", "eof", "failed"}
    /\ told = "failed" <=> broken

Published(x) == \E i \in delivered : wire[i] = DataUnit(x)

\* An application that is told of the end of the stream has got everything the
\* peer's application ever gave its connection: no cut, failure or order of
\* steps passes off a part as the whole.
NoTruncation == told = "eof" => \A x \in 1..accepted : Published(x)

\* The application never sees a byte without all that its peer sent before it,
\* also when what was decoded in one read is lost.
NoGaps ==
    \A i \in delivered : wire[i].kind = "data" =>
        \A x \in 1..(wire[i].at - 1) : Published(x)
=============================================================================
