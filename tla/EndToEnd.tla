------------------------------- MODULE EndToEnd -------------------------------
(***************************************************************************)
(* A session whose writer is the send path as it is (Egress), and not the  *)
(* stream it promises: what one endpoint's calls seal, buffer and submit,  *)
(* cut by the kernel wherever it likes, is what the other endpoint's       *)
(* connection reads (Session).                                             *)
(***************************************************************************)
EXTENDS Egress

VARIABLES seen, decoded, delivered, peer_closed, broken, told

Peer == INSTANCE Session WITH produced <- Produced

reader == <<seen, decoded, delivered, peer_closed, broken, told>>
ends == <<vars, reader>>

\* The first flight is within the bound on the connection.
ASSUME FlightAssumption == MaxControl <= MaxUnits

EndsInit == Init /\ Peer!ReaderInit

\* Each endpoint makes its calls when its own driver likes; they share the wire.
EndsNext ==
    \/ Next /\ UNCHANGED reader
    \/ UNCHANGED vars /\ (Peer!Read \/ Peer!Eof)

EndsSpec == EndsInit /\ [][EndsNext]_ends

-----------------------------------------------------------------------------
(* Properties *)

\* To the reader, the calls of the send path are the writer of a session.
SessionSpec == Peer!SessionSpec

\* An application that is told of the end has got all the plaintext that the
\* other endpoint's calls reported as consumed, whatever of it was still in the
\* native connection, in the cursor or in the kernel when the close was asked for.
NoTruncation == Peer!NoTruncation

\* However completions fall short and drains are cut, the reader's application
\* never sees a byte without all those consumed before it.
NoGaps == Peer!NoGaps
=============================================================================
