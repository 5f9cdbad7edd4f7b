-------------------------------- MODULE Retained --------------------------------
(***************************************************************************)
(* Plaintext as the application gets it (src/src/tls/receive/stream.rs,    *)
(* raw.rs and src/src/state/direct/source.rs).  A read leaves a staged     *)
(* chunk in a receive slot and a prefix of the driver's input; both are    *)
(* read as one stream, through a Retained cursor that lends its current    *)
(* head, or as a Batch of at most two items.  Slices that are shared from  *)
(* a head keep their buffer when the cursor has moved on or is gone.       *)
(*                                                                         *)
(* The bytes of a connection are numbered 1, 2, ...; 0 is what a buffer    *)
(* has behind its plaintext.                                               *)
(***************************************************************************)
EXTENDS Integers, Sequences, FiniteSets

CONSTANTS
    Buffers,       \* receive slots and driver inputs
    NoBuffer,
    SlotCap,       \* plaintext of one receive slot
    MaxBytes,      \* transfer::MAX_BYTES
    MaxInput,      \* bound: plaintext in one input
    MaxStream,     \* bound: plaintext of the connection
    MaxShares      \* bound: slices shared at a time

ASSUME BufferAssumption == NoBuffer \notin Buffers
ASSUME SizeAssumption ==
    SlotCap \in Nat /\ MaxBytes \in Nat /\ MaxInput \in Nat /\ MaxStream \in Nat

VARIABLES
    mode,          \* what the read returned: "none", a "cursor" or a "batch"
    part,          \* per part: its buffer, the end of its plaintext, what is left
    remaining,     \* Retained.remaining
    head,          \* the part a head was lent of, or "none"
    left,          \* that head's own remaining
    memory,        \* what is in the buffers
    shares,        \* shared slices, each with the number of its first byte
    published,     \* plaintext of the connection so far
    got,           \* bytes the application consumed
    failed         \* Connection.failed

cursor == <<mode, part, remaining>>
loan   == <<head, left>>
vars   == <<cursor, loan, memory, shares, published, got, failed>>

Part    == {"staged", "plain"}
Nothing == [buf |-> NoBuffer, end |-> 0, len |-> 0]

Unread == IF mode = "cursor" THEN remaining ELSE part["staged"].len + part["plain"].len

Stream == INSTANCE PlainStream WITH passed <- published - Unread, unread <- Unread

Free(b) ==
    /\ \A p \in Part : part[p].buf # b
    /\ \A s \in shares : s.buf # b

Init ==
    /\ mode = "none" /\ part = [p \in Part |-> Nothing] /\ remaining = 0
    /\ head = "none" /\ left = 0
    /\ memory = [b \in Buffers |-> <<>>]
    /\ shares = {} /\ published = 0 /\ got = <<>> /\ failed = FALSE

-----------------------------------------------------------------------------
(* A read *)

\* An empty part is dropped, and its buffer with it.
Given(b, n) == IF n = 0 THEN Nothing ELSE [buf |-> b, end |-> n, len |-> n]

\* Input::owned left n bytes in a slot and m in the input.
Decrypts(s, n, i, m) ==
    /\ mode = "none" /\ ~failed
    /\ Free(s) /\ Free(i) /\ s # i
    /\ published + n + m <= MaxStream
    /\ memory' = [memory EXCEPT ![s] = Append(Stream!Run(published, n), 0),
                                ![i] = Append(Stream!Run(published + n, m), 0)]
    /\ published' = published + n + m
    /\ UNCHANGED <<loan, shares, got>>

\* Retained::try_new: nothing for an empty read; a read that cannot be counted
\* is lost, and fails the connection.
ReadLease ==
    \E s, i \in Buffers, n \in 0..SlotCap, m \in 0..MaxInput :
        /\ Decrypts(s, n, i, m)
        /\ failed' = (n + m > MaxBytes)
        /\ IF n + m = 0 \/ failed'
           THEN UNCHANGED cursor
           ELSE /\ mode' = "cursor"
                /\ part' = [p \in Part |-> IF p = "staged" THEN Given(s, n) ELSE Given(i, m)]
                /\ remaining' = n + m

\* The other way to read: a Batch.
Process ==
    \E s, i \in Buffers, n \in 0..SlotCap, m \in 0..MaxInput :
        /\ Decrypts(s, n, i, m)
        /\ mode' = IF n + m = 0 THEN "none" ELSE "batch"
        /\ part' = [p \in Part |-> IF p = "staged" THEN Given(s, n) ELSE Given(i, m)]
        /\ UNCHANGED <<remaining, failed>>

-----------------------------------------------------------------------------
(* Batch::next: the chunk, then the input's prefix *)

Item == IF part["staged"] # Nothing THEN "staged" ELSE "plain"

BatchNext ==
    /\ mode = "batch"
    /\ LET it == part[Item]
       IN got' = got \o SubSeq(memory[it.buf], it.end - it.len + 1, it.end)
    /\ part' = [part EXCEPT ![Item] = Nothing]
    /\ mode' = IF part' = [p \in Part |-> Nothing] THEN "none" ELSE "batch"
    /\ UNCHANGED <<remaining, loan, memory, shares, published, failed>>

-----------------------------------------------------------------------------
(* The cursor and its heads *)

\* The part that as_ref, view and next look at.
Front == IF part["staged"].len > 0 THEN "staged" ELSE "plain"

\* Where in its buffer a part begins of which n bytes are left.
Start(p, n) == part[p].end - n

\* Mutant: what is left of the head is taken for what is left of the cursor.
AdvanceToHead(p, n) ==
    /\ got' = got \o SubSeq(memory[part[p].buf], Start(p, part[p].len) + 1, Start(p, n))
    /\ part' = [part EXCEPT ![p].len = n]
    /\ remaining' = n

\* What is left of part p becomes n; the bytes before that are consumed.
Advance(p, n) ==
    /\ got' = got \o SubSeq(memory[part[p].buf], Start(p, part[p].len) + 1, Start(p, n))
    /\ part' = [part EXCEPT ![p].len = n]
    /\ remaining' = remaining - (part[p].len - n)

\* Sequence::next lends the head; nobody uses the cursor until it is back.
NextHead ==
    /\ mode = "cursor" /\ head = "none"
    /\ part[Front].len > 0
    /\ head' = Front /\ left' = part[Front].len
    /\ UNCHANGED <<cursor, memory, shares, published, got, failed>>

\* Mutant: the head is asked for as much as the cursor has.
HeadConsumeAcross ==
    /\ head # "none"
    /\ \E n \in 1..remaining : left' = left - n
    /\ UNCHANGED <<cursor, head, memory, shares, published, got, failed>>

\* try_consume refuses more than the head has; consume_max takes less.
HeadConsume ==
    /\ head # "none"
    /\ \E n \in 1..left : left' = left - n
    /\ UNCHANGED <<cursor, head, memory, shares, published, got, failed>>

HeadCommit ==
    /\ head # "none"
    /\ Advance(head, left)
    /\ head' = "none" /\ left' = 0
    /\ UNCHANGED <<mode, memory, shares, published, failed>>

\* Mutant: a head that is dropped has consumed from its own part.
HeadDropConsumes ==
    /\ head # "none"
    /\ part' = [part EXCEPT ![head].len = left]
    /\ head' = "none" /\ left' = 0
    /\ UNCHANGED <<mode, remaining, memory, shares, published, got, failed>>

\* A head that is dropped has consumed nothing.
HeadDrop ==
    /\ head # "none"
    /\ head' = "none" /\ left' = 0
    /\ UNCHANGED <<cursor, memory, shares, published, got, failed>>

\* The cursor's own try_consume and consume_max: head, consume and commit.
Consume ==
    /\ mode = "cursor" /\ head = "none"
    /\ \E n \in 0..(part[Front].len - 1) : Advance(Front, n)
    /\ UNCHANGED <<mode, loan, memory, shares, published, failed>>

\* Cursor and head are gone; what was not read is given up.
Drop ==
    /\ mode # "none" /\ head = "none"
    /\ mode' = "none" /\ part' = [p \in Part |-> Nothing] /\ remaining' = 0
    /\ UNCHANGED <<loan, memory, shares, published, got, failed>>

-----------------------------------------------------------------------------
(* Slices that outlive the cursor *)

Current     == IF head = "none" THEN Front ELSE head
Uncommitted == IF head = "none" THEN 0 ELSE part[head].len - left

\* Mutant: a head shows what the cursor has left.
ShownOfCursor == part[Current].len

\* How much of its part a reader sees: of a head, what it has not consumed.
Shown == IF head = "none" THEN part[Front].len ELSE left

\* try_get and try_retain of bytes i to j of what the reader sees.
Share ==
    /\ mode = "cursor" /\ Cardinality(shares) < MaxShares
    /\ \E i \in 1..Shown : \E j \in i..Shown :
        shares' = shares \cup
            {[buf |-> part[Current].buf, from |-> Start(Current, Shown) + i,
              to |-> Start(Current, Shown) + j,
              at |-> published - remaining + Uncommitted + i]}
    /\ UNCHANGED <<cursor, loan, memory, published, got, failed>>

Forget ==
    /\ \E s \in shares : shares' = shares \ {s}
    /\ UNCHANGED <<cursor, loan, memory, published, got, failed>>

-----------------------------------------------------------------------------
Next ==
    \/ ReadLease \/ Process \/ BatchNext
    \/ NextHead \/ HeadConsume \/ HeadCommit \/ HeadDrop \/ Consume \/ Drop
    \/ Share \/ Forget

Spec == Init /\ [][Next]_vars

-----------------------------------------------------------------------------
(* Properties *)

TypeOK ==
    /\ mode \in {"none", "cursor", "batch"}
    /\ part \in [Part -> [buf : Buffers \cup {NoBuffer}, end : Nat, len : Nat]]
    /\ remaining \in Nat
    /\ head \in {"none"} \cup Part /\ left \in Nat
    /\ memory \in [Buffers -> Seq(Nat)]
    /\ shares \subseteq [buf : Buffers, from : Nat, to : Nat, at : Nat]
    /\ published \in Nat /\ got \in Seq(Nat) /\ failed \in BOOLEAN

\* Whatever way it is read, and wherever its parts lie, the application reads
\* one stream, and Retained.remaining says what is left of it.
StreamSpec == Stream!Spec

\* The cursor's count and those of its parts never drift apart, whichever
\* heads were committed or dropped; so commit cannot underflow, and a cursor
\* that promises bytes has a head to lend.
CountsAgree ==
    mode = "cursor" =>
        /\ remaining = part["staged"].len + part["plain"].len
        /\ remaining > 0 => part[Front].len > 0
        /\ head # "none" => head = Front /\ left <= part[head].len

\* A shared slice is what its reader asked for, and stays so when the cursor
\* has moved on, is gone, or later reads use the buffers again.
SharesIntact ==
    \A s \in shares :
        SubSeq(memory[s.buf], s.from, s.to) = Stream!Run(s.at - 1, s.to - s.from + 1)
=============================================================================
