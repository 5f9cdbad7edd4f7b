----------------------------- MODULE DirectInput -----------------------------
(***************************************************************************)
(* Input::owned (src/src/state/direct/input.rs): one connection decrypts   *)
(* each input of the driver in place.  Plaintext overwrites ciphertext the *)
(* native connection has already taken from the same input; what does not  *)
(* fit goes, once per input, to the staged receive slot.                   *)
(*                                                                         *)
(* The plaintext decoded during one call is numbered 1, 2, ...; a cell of  *)
(* the input is 0 while it still has ciphertext and otherwise names the    *)
(* plaintext byte in it.  Record boundaries are positions in that          *)
(* numbering.  Record sizes are chosen when a record completes.            *)
(***************************************************************************)
EXTENDS Integers, Sequences

CONSTANTS
    MaxPlain,      \* MAX_PLAINTEXT: plaintext of one record
    MaxWire,       \* a record on the wire
    SlotCap,       \* what the staged receive slot holds: Layout.recv_cap
    MaxInput       \* bound: bytes of one input of the driver

ASSUME RecordAssumption ==
    /\ MaxPlain \in Nat \ {0}
    /\ MaxWire \in Nat \ {0}
    /\ MaxInput \in Nat
ASSUME SlotAssumption == SlotCap \in Nat /\ SlotCap >= MaxPlain

VARIABLES
    phase,         \* where the call is; "idle" between calls
    extent,        \* Input.bytes.len()
    cells,         \* Input.bytes
    used,          \* Input.used
    len,           \* Input.len
    staged,        \* which variant of staged::Staged
    chunk,         \* what Staged::Retained has
    result,        \* the call's result so far
    peer_closed,   \* Connection.peer_closed
    failed,        \* Connection.failed
    buffered,      \* native: bytes of ciphertext not decoded
    short,         \* native: as many bytes were not yet a whole record
    decoded,       \* native: plaintext decoded during this call
    ends,          \* native: ends of the records the reader has not had
    taken,         \* native: plaintext the reader has had
    head           \* history: plaintext of the call's first record, or -1

native == <<buffered, short, decoded, ends, taken, head>>
input  == <<extent, cells, used, len>>
slot   == <<staged, chunk>>
conn   == <<peer_closed, failed>>
vars   == <<phase, input, slot, result, conn, native>>

Phase  == {"idle", "loop", "process", "copy", "finish"}
Result == {"ok", "native", "InvalidBufferProgress", "Consume"}

Init ==
    /\ phase = "idle"
    /\ extent = 0 /\ cells = <<>> /\ used = 0 /\ len = 0
    /\ staged = "ready" /\ chunk = <<>>
    /\ result = "ok"
    /\ peer_closed = FALSE /\ failed = FALSE
    /\ buffered = 0 /\ short = 0
    /\ decoded = 0 /\ ends = <<>> /\ taken = 0 /\ head = -1

-----------------------------------------------------------------------------
(* The call and its loop over the input *)

\* The driver hands over n bytes and an admitted receive slot.
Begin ==
    /\ phase = "idle"
    /\ \E n \in 0..MaxInput :
        /\ extent' = n
        /\ cells' = [i \in 1..n |-> 0]
    /\ used' = 0 /\ len' = 0
    /\ staged' = "ready" /\ chunk' = <<>>
    /\ result' = "ok"
    /\ decoded' = 0 /\ ends' = <<>> /\ taken' = 0 /\ head' = -1
    /\ phase' = "loop"
    /\ UNCHANGED <<conn, buffered, short>>

Goes == used # extent /\ ~peer_closed /\ ~failed

\* read_tls takes some of the unread suffix, or refuses it.
Read ==
    /\ phase = "loop" /\ Goes
    /\ \E count \in 1..(extent - used) :
        /\ used' = used + count
        /\ buffered' = buffered + count
    /\ phase' = "process"
    /\ UNCHANGED <<extent, cells, len, slot, result, conn, short, decoded, ends, taken, head>>

ReadFails ==
    /\ phase = "loop" /\ Goes
    /\ result' = "native"
    /\ phase' = "finish"
    /\ UNCHANGED <<input, slot, conn, native>>

-----------------------------------------------------------------------------
(* process_new_packets decodes every complete record *)

\* The next record is longer than what was seen of it before.
Record ==
    /\ phase = "process"
    /\ \E w \in (short + 1)..buffered, p \in 0..MaxPlain :
        /\ p <= w /\ w <= MaxWire
        /\ buffered' = buffered - w
        /\ decoded' = decoded + p
        /\ ends' = IF p > 0 THEN Append(ends, decoded + p) ELSE ends
        /\ head' = IF head = -1 THEN p ELSE head
    /\ short' = 0
    /\ UNCHANGED <<phase, input, slot, result, conn, taken>>

\* What is left is the beginning of a record.
RecordsEnd ==
    /\ phase = "process"
    /\ buffered < MaxWire
    /\ short' = buffered
    /\ phase' = "copy"
    /\ UNCHANGED <<input, slot, result, conn, buffered, decoded, ends, taken, head>>

\* Nothing behind a close_notify or a record that fails is ever decoded.
PeerCloses ==
    /\ phase = "process" /\ buffered > 0
    /\ peer_closed' = TRUE
    /\ buffered' = 0 /\ short' = 0
    /\ phase' = "copy"
    /\ UNCHANGED <<input, slot, result, failed, decoded, ends, taken, head>>

\* Mutant: a failed record ends the call before the good ones were copied.
BadRecordAtOnce ==
    /\ phase = "process" /\ buffered > 0
    /\ result' = "native"
    /\ buffered' = 0 /\ short' = 0
    /\ phase' = "finish"
    /\ UNCHANGED <<input, slot, conn, decoded, ends, taken, head>>

\* copy_plain runs although process failed, and process's error stays.
BadRecord ==
    /\ phase = "process" /\ buffered > 0
    /\ result' = "native"
    /\ buffered' = 0 /\ short' = 0
    /\ phase' = "copy"
    /\ UNCHANGED <<input, slot, conn, decoded, ends, taken, head>>

-----------------------------------------------------------------------------
(* copy_plain *)

Plain == Head(ends) - taken              \* the reader's next chunk: its length
Chunk == [i \in 1..Plain |-> taken + i]  \* and its bytes

\* Mutant: the input's extent is the limit, not what was consumed of it.
FitsExtent(n, at) == n <= extent - at

\* consume::Error::check(n, used - at)
Fits(n, at) == n <= used - at

\* Mutant: the whole prefix moves to the staged slot.
PrefixWhole(prior) == Len(prior)

\* How much of the prior plaintext moves: at most one record's worth.
Prefix(prior) == IF Len(prior) < MaxPlain THEN Len(prior) ELSE MaxPlain

\* Mutant: what stays in the input is not moved to its front.
KeptInPlace(bytes, prefix) == bytes

\* prior.copy_within(prefix.., 0)
MovedDown(bytes, prefix) ==
    [i \in 1..extent |-> IF i <= len - prefix THEN bytes[i + prefix] ELSE bytes[i]]

\* target.copy_from_slice(plain), with target behind the first n cells.
Written(bytes, n) ==
    [i \in 1..extent |-> IF i \in (n + 1)..(n + Plain) THEN Chunk[i - n] ELSE bytes[i]]

\* staged.copy: the slot is taken once; one that is too small is given back.
Copied(bytes) ==
    CASE staged # "ready" ->
            [staged |-> staged, chunk |-> chunk, error |-> "InvalidBufferProgress"]
      [] staged = "ready" /\ Len(bytes) > SlotCap ->
            [staged |-> "released", chunk |-> <<>>, error |-> "Consume"]
      [] OTHER -> [staged |-> "retained", chunk |-> bytes, error |-> "ok"]

\* reader.consume, unless `?' returned before it; process's error goes first.
Concludes(error) ==
    /\ result' = IF result = "ok" THEN error ELSE result
    /\ phase'  = IF error = "ok" THEN "copy" ELSE "finish"
    /\ taken'  = IF error = "ok" THEN Head(ends) ELSE taken
    /\ ends'   = IF error = "ok" THEN Tail(ends) ELSE ends
    /\ UNCHANGED <<extent, used, conn, buffered, short, decoded, head>>

CopyInPlace ==
    /\ phase = "copy" /\ ends # <<>>
    /\ Fits(Plain, len)
    /\ cells' = Written(cells, len)
    /\ len' = len + Plain
    /\ Concludes("ok")
    /\ UNCHANGED slot

\* Nothing was written yet: the record goes to the staged slot.
StageRecord ==
    /\ phase = "copy" /\ ends # <<>>
    /\ ~Fits(Plain, len) /\ len = 0
    /\ LET copied == Copied(Chunk)
       IN /\ staged' = copied.staged /\ chunk' = copied.chunk
          /\ Concludes(copied.error)
    /\ UNCHANGED <<cells, len>>

\* The front of what was written goes there instead, and the rest moves down;
\* the record has to fit behind it.
StagePrefix ==
    /\ phase = "copy" /\ ends # <<>>
    /\ ~Fits(Plain, len) /\ len > 0
    /\ LET prior  == SubSeq(cells, 1, len)
           prefix == Prefix(prior)
           copied == Copied(SubSeq(prior, 1, prefix))
           moved  == MovedDown(cells, prefix)
           error  == IF copied.error = "ok" /\ ~Fits(Plain, len - prefix)
                     THEN "InvalidBufferProgress" ELSE copied.error
       IN /\ staged' = copied.staged /\ chunk' = copied.chunk
          /\ cells' = IF copied.error # "ok" THEN cells
                      ELSE IF error # "ok" THEN moved
                      ELSE Written(moved, len - prefix)
          /\ len' = IF copied.error # "ok" THEN len
                    ELSE IF error # "ok" THEN len - prefix
                    ELSE (len - prefix) + Plain
          /\ Concludes(error)

\* Mutant: one read per call.
CopyEndsCall ==
    /\ phase = "copy" /\ ends = <<>>
    /\ phase' = "finish"
    /\ UNCHANGED <<input, slot, result, conn, native>>

\* The reader is empty: back to the loop, unless process failed.
CopyEnds ==
    /\ phase = "copy" /\ ends = <<>>
    /\ phase' = IF result = "ok" THEN "loop" ELSE "finish"
    /\ UNCHANGED <<input, slot, result, conn, native>>

\* The chunk and the prefix of the input are published, in this order.
Publish ==
    /\ phase = "finish" \/ (phase = "loop" /\ ~Goes)
    /\ failed' = (failed \/ result # "ok")
    /\ phase' = "idle"
    /\ UNCHANGED <<input, slot, result, peer_closed, native>>

Next ==
    \/ Begin \/ Read \/ ReadFails
    \/ Record \/ RecordsEnd \/ PeerCloses \/ BadRecord
    \/ CopyInPlace \/ StageRecord \/ StagePrefix \/ CopyEnds
    \/ Publish

Spec == Init /\ [][Next]_vars

-----------------------------------------------------------------------------
(* Properties *)

Published == chunk \o SubSeq(cells, 1, len)

TypeOK ==
    /\ phase \in Phase
    /\ extent \in Nat /\ used \in 0..extent /\ len \in 0..used
    /\ cells \in [1..extent -> Nat]
    /\ staged \in {"ready", "retained", "released"}
    /\ chunk \in Seq(Nat)
    /\ result \in Result
    /\ peer_closed \in BOOLEAN /\ failed \in BOOLEAN
    /\ buffered \in Nat /\ short \in 0..buffered
    /\ decoded \in Nat /\ taken \in 0..decoded
    /\ ends \in Seq((taken + 1)..decoded)
    /\ head \in {-1} \cup 0..MaxPlain

\* input.rs and staged.rs guard against a second promotion and against a
\* record that fits nowhere; neither guard is ever reached, so no healthy
\* connection dies of how its records fall into inputs.
NeverRefused == result \notin {"InvalidBufferProgress", "Consume"}

\* Ciphertext that was not read yet is never written over.
UnreadIntact == \A i \in (used + 1)..extent : cells[i] = 0

\* The staged chunk and the input's prefix are the decoded plaintext, in
\* order, without gap, repetition or a byte that was not authenticated.
PublishedInOrder ==
    /\ Len(Published) = taken
    /\ \A i \in 1..taken : Published[i] = i

\* What was decoded before a failure or a close is published with it.
NothingDecodedIsLost == phase = "idle" => taken = decoded

\* A call leaves input unread only when the connection is over.
InputExhausted == phase = "idle" => used = extent \/ peer_closed \/ failed
=============================================================================
