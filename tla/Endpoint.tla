------------------------------ MODULE Endpoint ------------------------------
(***************************************************************************)
(* One endpoint runtime of dope-tls: the pools every connection of a       *)
(* worker shares (session leases, receive slots, ciphertext slots), the    *)
(* cached opening, and the two FIFO lanes of connections whose receive is  *)
(* blocked.  One action is one call of the driver into src/src/tls; the    *)
(* worker is single threaded and a receive transaction borrows the runtime *)
(* exclusively, so a call is one step.  Which call comes next is up to the *)
(* driver, its peers and the application, and is left open.                *)
(***************************************************************************)
EXTENDS Naturals, Sequences, FiniteSets, SequencesExt

CONSTANTS
    Conn,          \* entries of the driver's connection table
    Sessions,      \* session leases: Sessions::from_count
    RecvSlots,     \* receive pool limit: max staged records plus one
    WarmSlots,     \* receive slots allocated at binding (= RecvSlots: Fixed)
    SendSlots,     \* ciphertext slots
    SendOnOpen,    \* R::SEND_ON_OPEN: TRUE for Client, FALSE for Server
    CursorCap,     \* ciphertext units one slot holds
    MaxNative,     \* bound: units the native connection queues
    MaxEpoch,      \* bound: reuses of one connection table entry
    MaxRole        \* bound: reconfigurations

ASSUME SlotsAssumption ==
    /\ Sessions \in Nat \ {0}
    /\ RecvSlots \in Nat \ {0}
    /\ SendSlots \in Nat \ {0}
    /\ WarmSlots \in 1..RecvSlots
ASSUME BoundsAssumption ==
    /\ SendOnOpen \in BOOLEAN
    /\ CursorCap \in Nat \ {0}
    /\ MaxNative \in Nat \ {0}
    /\ MaxEpoch \in Nat
    /\ MaxRole \in Nat
ASSUME ConnAssumption == IsFiniteSet(Conn)

VARIABLES
    role,          \* Runtime.role, as a version number
    pending,       \* Runtime.pending: the cached opening, or NoOpening
    sessions,      \* free session leases
    sendFree,      \* free ciphertext slots
    recvFree,      \* receive slots that can still be borrowed
    grown,         \* receive slots allocated so far
    retained,      \* receive slots published as staged plaintext, not dropped
    conn,          \* the connection in each table entry
    queue,         \* Runtime.waiters and the credits of its entries
    stale          \* ids of torn-down connections whose cancel may come again

vars == <<role, pending, sessions, sendFree, recvFree, grown, retained,
          conn, queue, stale>>

-----------------------------------------------------------------------------
(* Types *)

Resource == {"Recv", "HandshakeEgress"}
Credit   == {"idle", "ready", "held"}
Epoch    == 0..MaxEpoch
Target   == [slot : Conn, epoch : Epoch]          \* credit::Id

NoOpening == [cached |-> FALSE]
Opening   == [cached : {TRUE}, policy : 0..MaxRole, held : BOOLEAN,
              cipher : 0..CursorCap]

\* tls::Connection with its SendState (held, cipher: the loaned cursor and
\* what it contains; inflight: submitted to the kernel) and the driver's
\* undelivered ciphertext (input).
Connection == [phase : {"vacant", "handshaking", "open"}, epoch : Epoch,
               policy : 0..MaxRole, failed : BOOLEAN, closed : BOOLEAN,
               native : 0..MaxNative, held : BOOLEAN, cipher : 0..CursorCap,
               inflight : BOOLEAN, input : BOOLEAN]

VacantEntry(e) == [phase |-> "vacant", epoch |-> e, policy |-> 0,
                   failed |-> FALSE, closed |-> FALSE, native |-> 0,
                   held |-> FALSE, cipher |-> 0, inflight |-> FALSE,
                   input |-> FALSE]

IdOf(c)     == [slot |-> c, epoch |-> conn[c].epoch]
Admitted(c) == conn[c].phase # "vacant"

-----------------------------------------------------------------------------
(* The waiter lanes.  The driver tries a connection whose credit is "ready" *)
(* (new input, or a retried waiter); a registered credit is "held".         *)

\* Mutant: the entry that came last is popped.
WakeLast(q, r) ==
    IF q.lane[r] = <<>> THEN q
    ELSE [lane   |-> [q.lane EXCEPT ![r] = Front(@)],
          credit |-> [q.credit EXCEPT ![Last(q.lane[r]).slot] = "ready"]]

Wake(q, r) ==
    IF q.lane[r] = <<>> THEN q
    ELSE [lane   |-> [q.lane EXCEPT ![r] = Tail(@)],
          credit |-> [q.credit EXCEPT ![Head(q.lane[r]).slot] = "ready"]]

Register(q, r, id) ==
    [lane   |-> [q.lane EXCEPT ![r] = Append(@, id)],
     credit |-> [q.credit EXCEPT ![id.slot] = "held"]]

\* remove_if looks the entry up by table index and compares the whole id.
Queued(q, id) == \E r \in Resource : \E p \in DOMAIN q.lane[r] : q.lane[r][p] = id

\* Mutant: the entry of the table index goes, whoever it belongs to.
CancelAnyEpoch(q, id) ==
    LET same == {t \in Target : t.slot = id.slot /\ Queued(q, t)}
    IN IF same # {}
       THEN [lane   |-> [r \in Resource |-> SelectSeq(q.lane[r], LAMBDA t : t \notin same)],
             credit |-> [q.credit EXCEPT ![id.slot] = "idle"]]
       ELSE q

Cancel(q, id) ==
    IF Queued(q, id)
    THEN [lane   |-> [r \in Resource |-> RemoveFirst(q.lane[r], id)],
          credit |-> [q.credit EXCEPT ![id.slot] = "idle"]]
    ELSE q

\* The driver takes a ready credit before it calls try_reserve.
Taken(q, c) == [q EXCEPT !.credit[c] = "idle"]

\* Mutant: a poll never looks at the egress lane.
ReadyRecvOnly ==
    IF recvFree # 0 /\ queue.lane["Recv"] # <<>> THEN "Recv" ELSE "none"

\* Mutant: a poll pops the egress lane while no ciphertext slot is free.
ReadyWithoutSend ==
    IF recvFree = 0 THEN "none"
    ELSE IF queue.lane["Recv"] # <<>> THEN "Recv"
    ELSE IF queue.lane["HandshakeEgress"] # <<>> THEN "HandshakeEgress" ELSE "none"

\* Mutant: a poll leaves the receive lane to the wakes of release_recv.
ReadyEgressOnly ==
    IF recvFree # 0 /\ sendFree # 0 /\ queue.lane["HandshakeEgress"] # <<>>
    THEN "HandshakeEgress" ELSE "none"

\* Runtime::ready: the lane the driver's next poll may pop, or "none".
Ready ==
    LET r == IF queue.lane["Recv"] # <<>> THEN "Recv"
             ELSE IF queue.lane["HandshakeEgress"] # <<>> /\ sendFree # 0
                  THEN "HandshakeEgress" ELSE "none"
    IN IF recvFree # 0 THEN r ELSE "none"

-----------------------------------------------------------------------------
(* Native output and the ciphertext cursor *)

Less(m, n) == IF m < n THEN m ELSE n

\* state::drain: move native output until none is left or no space is spare.
Drained(x) ==
    LET n == Less(CursorCap - x.cipher, x.native)
    IN [x EXCEPT !.cipher = @ + n, !.native = @ - n]

\* SendState::free_empty and Vacant::restore: an empty cursor goes back.
Emptied(x) == x.held /\ x.cipher = 0
\* Mutant: an emptied cursor is kept.
FreeNothing(x) == x
FreeEmpty(x) == IF Emptied(x) THEN [x EXCEPT !.held = FALSE] ELSE x

\* SendState::try_buffer and reserve: the own cursor, else one of the pool.
CanBuffer(x) == x.held \/ sendFree > 0
\* Mutant: a new cursor is taken although the connection owns one.
BorrowedAnew(x) == sendFree - 1
Borrowed(x)  == IF x.held THEN sendFree ELSE sendFree - 1
Returned(free, x) == IF Emptied(x) THEN free + 1 ELSE free

\* A native error while output is moved ends the connection where it struck.
Broken(x) == [x EXCEPT !.failed = TRUE]

CanWrite(x) == ~x.failed /\ ~x.closed /\ x.phase = "open"

-----------------------------------------------------------------------------
Init ==
    /\ role = 0
    /\ pending = NoOpening
    /\ sessions = Sessions
    /\ sendFree = SendSlots
    /\ recvFree = RecvSlots
    /\ grown = WarmSlots
    /\ retained = 0
    /\ conn = [c \in Conn |-> VacantEntry(0)]
    /\ queue = [lane   |-> [r \in Resource |-> <<>>],
                credit |-> [c \in Conn |-> "idle"]]
    /\ stale = {}

-----------------------------------------------------------------------------
(* Admission *)

Adopted(c, parts) ==
    [VacantEntry(conn[c].epoch) EXCEPT
        !.phase = "handshaking", !.policy = parts.policy,
        !.held = parts.held, !.cipher = parts.cipher]

\* A fresh opening leases a session and, for a client, a ciphertext slot that
\* takes the whole hello.  The driver commits it to a vacant entry or hands it
\* back, and then it is cached.
FreshOpening == [cached |-> TRUE, policy |-> role, held |-> SendOnOpen,
                 cipher |-> IF SendOnOpen THEN 1 ELSE 0]

OpenFresh(c) ==
    /\ conn[c].phase = "vacant"
    /\ ~pending.cached
    /\ sessions > 0
    /\ SendOnOpen => sendFree > 0
    /\ sessions' = sessions - 1
    /\ sendFree' = IF SendOnOpen THEN sendFree - 1 ELSE sendFree
    /\ \/ /\ conn' = [conn EXCEPT ![c] = Adopted(c, FreshOpening)]
          /\ UNCHANGED pending
       \/ /\ pending' = FreshOpening
          /\ UNCHANGED conn
    /\ UNCHANGED <<role, recvFree, grown, retained, queue, stale>>

\* Mutant: a failed opening forgets its lease.
OpenFailsKeepsLease(c) ==
    /\ conn[c].phase = "vacant"
    /\ ~pending.cached
    /\ sessions > 0
    /\ sessions' = sessions - 1
    /\ UNCHANGED <<role, pending, sendFree, recvFree, grown, retained, conn, queue, stale>>

\* A fresh opening that leased a session fails: a client finds no ciphertext slot,
\* or the native connection cannot be built or queues what has no slot.  What it
\* has by then goes back, and no waiter is told.
OpenFails(c) ==
    /\ conn[c].phase = "vacant"
    /\ ~pending.cached
    /\ sessions > 0
    /\ sessions' = (sessions - 1) + 1
    /\ sendFree' = IF SendOnOpen /\ sendFree > 0 THEN (sendFree - 1) + 1 ELSE sendFree
    /\ UNCHANGED <<role, pending, recvFree, grown, retained, conn, queue, stale>>

OpenCached(c) ==
    /\ conn[c].phase = "vacant"
    /\ pending.cached
    /\ pending' = NoOpening
    /\ conn' = [conn EXCEPT ![c] = Adopted(c, pending)]
    /\ UNCHANGED <<role, sessions, sendFree, recvFree, grown, retained, queue, stale>>

\* Server only.  The cached opening is dropped: its session lease goes back
\* (a server's opening has no ciphertext slot).
\* Mutant: the cached opening survives the new policy.
ReconfigureKeepsOpening ==
    /\ ~SendOnOpen
    /\ role < MaxRole
    /\ role' = role + 1
    /\ UNCHANGED <<pending, sessions, sendFree, recvFree, grown, retained, conn, queue, stale>>

Reconfigure ==
    /\ ~SendOnOpen
    /\ role < MaxRole
    /\ role' = role + 1
    /\ pending' = NoOpening
    /\ sessions' = IF pending.cached THEN sessions + 1 ELSE sessions
    /\ UNCHANGED <<sendFree, recvFree, grown, retained, conn, queue, stale>>

-----------------------------------------------------------------------------
(* Receive *)

\* Ciphertext for c reaches the driver.
Deliver(c) ==
    /\ Admitted(c) /\ ~conn[c].failed /\ ~conn[c].input
    /\ conn' = [conn EXCEPT ![c].input = TRUE]
    /\ queue' = [queue EXCEPT !.credit[c] = "ready"]
    /\ UNCHANGED <<role, pending, sessions, sendFree, recvFree, grown, retained, stale>>

\* When the driver calls try_reserve.
Tries(c) == Admitted(c) /\ ~conn[c].failed /\ queue.credit[c] = "ready"

\* Mutant: the cursor is lent although it was submitted.
WantsLoanInFlight(c) == conn[c].phase = "handshaking"

\* The driver lends SendState only while no send is in flight.
WantsLoan(c) == conn[c].phase = "handshaking" /\ ~conn[c].inflight

\* The receive pool has no slot without allocating one.
MustGrow == RecvSlots - recvFree = grown
GrownBy  == IF MustGrow THEN grown + 1 ELSE grown

\* A blocked receive registers its credit; a registration the driver drops is
\* rolled back, and the driver gives the read up.
Block(c, q, r) ==
    \/ /\ queue' = Register(q, r, IdOf(c))
       /\ UNCHANGED conn
    \/ /\ queue' = Cancel(Register(q, r, IdOf(c)), IdOf(c))
       /\ conn' = [conn EXCEPT ![c].input = FALSE]

BlockRecv(c) ==
    /\ Tries(c)
    /\ recvFree = 0
    /\ Block(c, Taken(queue, c), "Recv")
    /\ UNCHANGED <<role, pending, sessions, sendFree, recvFree, grown, retained, stale>>

\* Mutant: a receive that waits for a ciphertext slot keeps its receive slot.
BlockEgressHoldingRecv(c) ==
    /\ Tries(c)
    /\ recvFree > 0
    /\ WantsLoan(c) /\ ~CanBuffer(conn[c])
    /\ grown' = GrownBy
    /\ recvFree' = recvFree - 1
    /\ Block(c, Taken(queue, c), "HandshakeEgress")
    /\ UNCHANGED <<role, pending, sessions, sendFree, retained, stale>>

\* No ciphertext slot: the receive slot is dropped first and its waiter woken.
BlockEgress(c) ==
    /\ Tries(c)
    /\ recvFree > 0
    /\ WantsLoan(c) /\ ~CanBuffer(conn[c])
    /\ grown' = GrownBy
    /\ recvFree' = (recvFree - 1) + 1
    /\ Block(c, Wake(Taken(queue, c), "Recv"), "HandshakeEgress")
    /\ UNCHANGED <<role, pending, sessions, sendFree, retained, stale>>

\* A growing pool cannot allocate the slot it needs.
GrowthFails(c) ==
    /\ Tries(c)
    /\ recvFree > 0 /\ MustGrow
    /\ conn' = [conn EXCEPT ![c].failed = TRUE]
    /\ queue' = Taken(queue, c)
    /\ UNCHANGED <<role, pending, sessions, sendFree, recvFree, grown, retained, stale>>

Reserves(c) == Tries(c) /\ recvFree > 0 /\ (WantsLoan(c) => CanBuffer(conn[c]))

\* Transaction::release, c having become x with or without a ciphertext loan,
\* and the receive slot being published (keep) or dropped.
Release(c, x, loan, keep) ==
    /\ recvFree' = IF keep THEN recvFree - 1 ELSE (recvFree - 1) + 1
    /\ retained' = IF keep THEN retained + 1 ELSE retained
    /\ sendFree' = IF loan THEN Returned(Borrowed(conn[c]), x) ELSE sendFree

Woken(q, loan, x, keep) ==
    LET first == IF keep THEN q ELSE Wake(q, "Recv")
    IN IF loan /\ Emptied(x) THEN Wake(first, "HandshakeEgress") ELSE first

\* The reservation is completed unused, or silently dropped.
Unused(c) ==
    LET loan == WantsLoan(c)
        x == IF loan THEN [conn[c] EXCEPT !.held = TRUE] ELSE conn[c]
    IN /\ Reserves(c)
       /\ grown' = GrownBy
       /\ conn' = [conn EXCEPT ![c] = [(IF loan THEN FreeEmpty(x) ELSE x)
                                          EXCEPT !.input = FALSE]]
       /\ Release(c, x, loan, FALSE)
       /\ \/ queue' = Woken(Taken(queue, c), loan, x, FALSE)
          \/ queue' = Taken(queue, c)
       /\ UNCHANGED <<role, pending, sessions, stale>>

\* process, read_lease: the native connection takes the input.  It may finish
\* its handshake, queue output (a flight, a key update, an alert), fail, and
\* publish plaintext in the receive slot; then its output, an alert included,
\* is moved to the loaned cursor and both loans are released.
Process(c) ==
    \E done, keep, fail \in BOOLEAN, out \in 0..MaxNative :
        LET loan == WantsLoan(c)
            open == conn[c].phase = "open" \/ done
            read == [conn[c] EXCEPT
                        !.phase = IF open THEN "open" ELSE "handshaking",
                        !.native = @ + out,
                        !.failed = fail,
                        !.input = FALSE]
            lent == [read EXCEPT !.held = TRUE]
        IN /\ Reserves(c)
           /\ conn[c].native + out <= MaxNative
           /\ keep => open
           /\ grown' = GrownBy
           /\ \E x \in IF loan THEN {Drained(lent), Broken(lent)} ELSE {read} :
                /\ conn' = [conn EXCEPT ![c] = IF loan THEN FreeEmpty(x) ELSE x]
                /\ Release(c, x, loan, keep)
                /\ queue' = Woken(Taken(queue, c), loan, x, keep)
           /\ UNCHANGED <<role, pending, sessions, stale>>

\* peer_eof: the stream ends after what was delivered.  Without a close_notify
\* that is a failure; after one, nothing changes.
Eof(c) ==
    /\ Admitted(c) /\ ~conn[c].failed /\ ~conn[c].input
    /\ conn' = [conn EXCEPT ![c].failed = TRUE]
    /\ UNCHANGED <<role, pending, sessions, sendFree, recvFree, grown, retained, queue, stale>>

\* The last owner of a staged chunk drops it.  A chunk the application keeps
\* past its read returns to the pool with no call into the runtime.
DropChunk ==
    /\ retained > 0
    /\ retained' = retained - 1
    /\ recvFree' = recvFree + 1
    /\ \/ queue' = Wake(queue, "Recv")              \* release_recv
       \/ UNCHANGED queue
    /\ UNCHANGED <<role, pending, sessions, sendFree, grown, conn, stale>>

\* take_ready followed by retry.
PollReady ==
    /\ Ready # "none"
    /\ queue' = Wake(queue, Ready)
    /\ UNCHANGED <<role, pending, sessions, sendFree, recvFree, grown, retained, conn, stale>>

-----------------------------------------------------------------------------
(* Send.  Only what takes and returns a ciphertext slot: module Egress has  *)
(* the order of what is sent.                                               *)

\* prepare, prepare_many, flush and prepare_drain: drain the native output, then
\* encrypt plaintext (sealed units, the last of which may not fit).
Prepare(c) ==
    \E sealed \in 0..MaxNative :
        LET own == [conn[c] EXCEPT !.held = TRUE]
            x == Drained(own)
            writes == CanWrite(x) /\ x.native = 0 /\ x.cipher < CursorCap
            y == IF writes THEN Drained([x EXCEPT !.native = sealed]) ELSE x
        IN /\ Admitted(c) /\ ~conn[c].inflight
           /\ CanBuffer(conn[c])
           /\ sealed > 0 => writes
           /\ \E z \in {y, Broken(y), Broken(own)} :
                /\ conn' = [conn EXCEPT ![c] = FreeEmpty(z)]
                /\ sendFree' = Returned(Borrowed(conn[c]), z)
           /\ UNCHANGED <<role, pending, sessions, recvFree, grown, retained, queue, stale>>

\* close: queue one close_notify behind the native output and drain both.
SealClose(c) ==
    LET own == [conn[c] EXCEPT !.held = TRUE]
        notify == ~own.closed /\ ~own.failed
        x == IF notify THEN [own EXCEPT !.closed = TRUE, !.native = @ + 1] ELSE own
    IN /\ Admitted(c) /\ ~conn[c].inflight
       /\ CanBuffer(conn[c])
       /\ notify => conn[c].native < MaxNative
       /\ \E z \in {Drained(x), Broken(Drained(x)), Broken(x)} :
            /\ conn' = [conn EXCEPT ![c] = FreeEmpty(z)]
            /\ sendFree' = Returned(Borrowed(conn[c]), z)
       /\ UNCHANGED <<role, pending, sessions, recvFree, grown, retained, queue, stale>>

\* The driver submits a cursor with ciphertext.
Submit(c) ==
    /\ Admitted(c) /\ conn[c].held /\ ~conn[c].inflight
    /\ conn' = [conn EXCEPT ![c].inflight = TRUE]
    /\ UNCHANGED <<role, pending, sessions, sendFree, recvFree, grown, retained, queue, stale>>

\* after_send, and settle for a connection that is over: n units left the
\* cursor, an empty one is refilled (settle refills only when the terminal
\* still drains), and one that stays empty is returned; the driver then calls
\* release_send.
Sent(c) ==
    \E n \in 1..CursorCap, refill \in BOOLEAN :
        LET x == [conn[c] EXCEPT !.cipher = @ - n, !.inflight = FALSE]
            moves == x.cipher = 0 /\ x.native > 0 /\ refill
        IN /\ conn[c].inflight
           /\ n <= conn[c].cipher
           /\ ~conn[c].failed => refill
           /\ \E y \in IF moves THEN {Drained(x), Broken(Drained(x)), Broken(x)} ELSE {x} :
                /\ conn' = [conn EXCEPT ![c] = FreeEmpty(y)]
                /\ sendFree' = Returned(sendFree, y)
                /\ queue' = IF Emptied(y) THEN Wake(queue, "HandshakeEgress") ELSE queue
           /\ UNCHANGED <<role, pending, sessions, recvFree, grown, retained, stale>>

-----------------------------------------------------------------------------
(* Teardown *)

\* The driver tears the connection down: it cancels the waiter, releases the
\* SendState (calling release_send if that returned a slot) and drops the
\* connection with its session lease, in either order.
Discard(c) ==
    LET id == IdOf(c)
        freed == conn[c].held
        waking(q) == IF freed THEN Wake(q, "HandshakeEgress") ELSE q
    IN /\ Admitted(c) /\ ~conn[c].inflight
       /\ conn[c].epoch < MaxEpoch
       /\ \/ queue' = Taken(waking(Cancel(queue, id)), c)
          \/ queue' = Taken(Cancel(waking(queue), id), c)
       /\ sendFree' = IF freed THEN sendFree + 1 ELSE sendFree
       /\ sessions' = sessions + 1
       /\ conn' = [conn EXCEPT ![c] = VacantEntry(conn[c].epoch + 1)]
       /\ stale' = stale \cup {id}
       /\ UNCHANGED <<role, pending, recvFree, grown, retained>>

\* A cancel that names an earlier connection of a table entry.
CancelAgain ==
    \E id \in stale :
        /\ queue' = Cancel(queue, id)
        /\ stale' = stale \ {id}
        /\ UNCHANGED <<role, pending, sessions, sendFree, recvFree, grown, retained, conn>>

-----------------------------------------------------------------------------
Next ==
    \/ \E c \in Conn :
        \/ OpenFresh(c) \/ OpenFails(c) \/ OpenCached(c) \/ Discard(c)
        \/ Deliver(c) \/ BlockRecv(c) \/ BlockEgress(c) \/ GrowthFails(c)
        \/ Unused(c) \/ Process(c) \/ Eof(c)
        \/ Prepare(c) \/ SealClose(c) \/ Submit(c) \/ Sent(c)
    \/ Reconfigure \/ DropChunk \/ PollReady \/ CancelAgain

Spec == Init /\ [][Next]_vars

\* Fairness the driver owes the runtime: its loop polls is_ready every turn
\* and tries a connection it was told to retry; submitted sends complete; the
\* application drops what it read; a cached opening is asked for again.
Retry(c) == BlockRecv(c) \/ BlockEgress(c) \/ GrowthFails(c) \/ Unused(c) \/ Process(c)

Fairness ==
    /\ WF_vars(PollReady)
    /\ WF_vars(DropChunk)
    /\ \A c \in Conn :
        /\ WF_vars(Retry(c))
        /\ SF_vars(Unused(c) \/ Process(c))
        /\ WF_vars(Submit(c)) /\ WF_vars(Sent(c))
        /\ WF_vars(OpenCached(c))

LiveSpec == Spec /\ Fairness

-----------------------------------------------------------------------------
(* Safety *)

TypeOK ==
    /\ role \in 0..MaxRole
    /\ pending \in {NoOpening} \cup Opening
    /\ sessions \in 0..Sessions
    /\ sendFree \in 0..SendSlots
    /\ recvFree \in 0..RecvSlots
    /\ grown \in WarmSlots..RecvSlots
    /\ retained \in 0..RecvSlots
    /\ conn \in [Conn -> Connection]
    /\ queue \in [lane : [Resource -> Seq(Target)], credit : [Conn -> Credit]]
    /\ stale \subseteq Target

\* Who holds a ciphertext slot: connections, and the cached opening.
SendHolders == {c \in Conn : conn[c].held}
Cached(p)   == IF p THEN 1 ELSE 0

\* Every slot and lease is free or has exactly one owner between two calls:
\* a receive that blocks on the ciphertext pool keeps no receive slot
\* (policy.rs drops it first), and no path loses or doubles a loan.
PoolsConserved ==
    /\ recvFree + retained = RecvSlots
    /\ sendFree + Cardinality(SendHolders) + Cached(pending.cached /\ SendOnOpen) = SendSlots
    /\ sessions + Cardinality({c \in Conn : Admitted(c)}) + Cached(pending.cached) = Sessions
    /\ RecvSlots - recvFree <= grown

\* No idle connection pins a ciphertext slot: whoever owns one has ciphertext
\* in it, so its send will complete and give the slot back.
SendOwnersBusy ==
    /\ \A c \in Conn : conn[c].held <=> conn[c].cipher > 0
    /\ \A c \in Conn : conn[c].inflight => conn[c].held
    /\ pending.cached => (pending.held <=> pending.cipher > 0) /\ pending.held = SendOnOpen

\* A credit is held exactly while its connection has one entry in one of the
\* lanes, the entry names the connection that is in the table now (never a
\* predecessor), and no delivered input is forgotten: it is tried or waits.
WaitersTracked ==
    /\ \A r \in Resource : \A p \in DOMAIN queue.lane[r] :
          LET id == queue.lane[r][p]
          IN /\ id = IdOf(id.slot)
             /\ Admitted(id.slot) /\ conn[id.slot].input
             /\ queue.credit[id.slot] = "held"
    /\ \A r, s \in Resource : \A p \in DOMAIN queue.lane[r], q \in DOMAIN queue.lane[s] :
          queue.lane[r][p].slot = queue.lane[s][q].slot => r = s /\ p = q
    /\ \A c \in Conn : queue.credit[c] = "held" => Queued(queue, IdOf(c))
    /\ \A c \in Conn : conn[c].input /\ ~conn[c].failed => queue.credit[c] # "idle"

\* Whoever waits, waits for somebody: the poll can pop a lane, the
\* application keeps every receive slot, or ciphertext on its way out (or a
\* cached hello) holds every ciphertext slot.  No set of waiting connections
\* can block itself.
WaitersNotStranded ==
    (\E r \in Resource : queue.lane[r] # <<>>) =>
        \/ Ready # "none"
        \/ retained = RecvSlots
        \/ /\ sendFree = 0
           /\ pending.cached \/ \E c \in Conn : conn[c].held /\ conn[c].cipher > 0

-----------------------------------------------------------------------------
(* Liveness *)

\* Once peers stop sending, a receive that blocked is eventually processed,
\* given up or torn down, whatever the applications keep sending.
Quiet == <>[][\A c \in Conn : ~Deliver(c)]_vars

BlockedReceiveServed ==
    Quiet => \A c \in Conn :
        (queue.credit[c] = "held") ~> (~conn[c].input \/ conn[c].failed)

-----------------------------------------------------------------------------
(* Action properties *)

\* A connection admitted after a reconfiguration never runs the old policy,
\* even when an opening had been cached under it.
AdmittedUnderCurrentRole ==
    [][\A c \in Conn : (~Admitted(c) /\ Admitted(c)') => conn'[c].policy = role]_vars

\* Ciphertext that was submitted is left alone until its completion: receiving
\* defers new native output (policy.rs, try_reserve).
SubmittedUntouched ==
    [][\A c \in Conn : (conn[c].inflight /\ conn'[c].inflight) =>
          conn'[c].cipher = conn[c].cipher /\ conn'[c].held]_vars

\* A capacity wait does not spin: while no slot changes hands, polls and
\* retries that block again only go downhill.  Weight is how far a connection
\* still is from resting in a lane nobody can pop, and Weights is the sum.
Waits(q, c, r) == \E p \in DOMAIN q.lane[r] : q.lane[r][p].slot = c

Poppable == IF recvFree = 0 THEN {} ELSE IF sendFree = 0 THEN {"Recv"} ELSE Resource

Weight(c) == IF \E r \in Poppable : Waits(queue, c, r) THEN 2
             ELSE IF queue.credit[c] = "ready" THEN 1 ELSE 0

Weights == Cardinality({c \in Conn : Weight(c) >= 1})
           + Cardinality({c \in Conn : Weight(c) >= 2})

CapacityWaitDoesNotSpin ==
    [][(PollReady \/ \E c \in Conn : BlockRecv(c) \/ BlockEgress(c)) =>
          Weights' < Weights]_vars

\* Nobody is overtaken: as long as a connection waits in a lane, whoever came
\* into that lane behind it waits there too, still behind it, or is gone.
NoOvertaking ==
    [][\A r \in Resource : \A p, n \in DOMAIN queue.lane[r] :
          LET first == queue.lane[r][p]
              later == queue.lane[r][n]
          IN /\ p < n
             /\ queue'.credit[first.slot] = "held"
             /\ queue'.credit[later.slot] # "idle"
             => \E i, j \in DOMAIN queue'.lane[r] :
                   i < j /\ queue'.lane[r][i] = first /\ queue'.lane[r][j] = later]_vars
=============================================================================
