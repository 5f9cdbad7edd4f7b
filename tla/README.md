# Verification of dope-tls

TLA+ models of the TLS wire of *dope* (`src/`), the TLC configurations that
check them, and TLAPS proofs about them. The crate drives a native rustls
connection for every socket of a single-threaded worker. Its own logic is not
cryptography: it is who may hold which buffer, who waits for whom, and in which
order bytes move through a few slots of fixed size. That is what is verified here.

## The system

| Part | Source | State it keeps | Operations |
|---|---|---|---|
| Endpoint runtime | `tls/endpoint/mod.rs`, `tls/mod.rs` | role, cached opening, session leases, receive pool, ciphertext pool | open, reconfigure, is_ready, take_ready, teardown |
| Receive admission | `tls/receive/policy.rs`, `tls/receive/waiters.rs` | two FIFO lanes of blocked receives, a credit per connection | try_reserve, register, commit or drop of a registration, cancel, release, wake |
| Send path | `tls/senders.rs`, `tls/protocol.rs`, `tls/mod.rs`, `state/mod.rs` | per connection: ciphertext cursor, `local_closed`, `failed`, the native output | prepare, prepare_many, after_send, settle, flush, prepare_drain, close |
| Direct receive | `state/direct/input.rs`, `state/staged.rs`, `state/buffers.rs` | one input's `used` and `len`, the staged slot | owned, process, copy_plain, copy |
| Retained cursor | `tls/receive/stream.rs`, `state/direct/source.rs`, `tls/receive/raw.rs` | a staged chunk and an input prefix read as one stream | next, consume, share, commit |
| Pool layout | `tls/endpoint/layout.rs`, `staging.rs` | none | slot counts from limits |
| Binding | `tls/endpoint/mod.rs` | a storage cell that is empty or bound | try_runtime |
| Raw key identity | `config/raw.rs` | pinned keys, own key | verify, resolve |
| Roles, errors, configuration | `tls/roles`, `tls/client.rs`, `error.rs`, `config/mod.rs`, `roots` | none | constructors and conversions |

The driver (`dope`), the buffer pools (`o3`) and rustls are libraries outside
the repository; they are modelled from how `src/` uses them, and marked external.

**Interactions.** The driver calls into a connection with its `SendState` and,
for a receive, with an admitted `Transaction`. A receive first borrows a receive
slot and, while the connection is handshaking and nothing of it is in the
kernel, also a ciphertext slot. If either pool is empty the receive registers in
that pool's lane and the driver comes back when a completion wakes it or when a
poll (`take_ready`) pops it. Processing an input decrypts it in place; what does
not fit goes to the receive slot, which the application drops whenever it likes,
perhaps long after the read. Native output goes into the ciphertext cursor: at
once if the receive had one on loan, otherwise through the next send call or
completion.

**What is hard here.** Nothing runs in parallel, so there are no data races; the
difficulty is order. Every call may interleave with calls of other connections
that compete for the same slots; completions, chunk drops and cancels come late;
a table entry is reused while a cancel of its predecessor is still on the way;
any drain or seal can fail with output half moved; the kernel and rustls may take
a part of what they are given; a record can be spread over several inputs.

**What makes each part correct.**

- Runtime and admission: slots and leases are conserved; waiting connections
  never block themselves; a lane names only the connection now in the table; a
  capacity wait does not make the worker spin; a connection admitted after a
  reconfiguration has the new policy.
- Send path: each consumed byte is sealed once and in order; one close_notify and
  no plaintext behind the end; the wire is a prefix of what was produced;
  submitted ciphertext is not touched; output is not stranded.
- Direct receive: unread ciphertext is never overwritten; what is published is
  what was decoded, in order; the two internal-error guards are unreachable.
- Retained cursor: chunk and prefix read as one stream, each byte once; the count
  of the cursor and those of its parts agree; shared slices keep their bytes.
- The end of a connection: the last words (close_notify, alert) leave before the
  socket is closed, and every connection that ends is closed; the peer takes only
  a close_notify for the end of the stream.
- Layout: counts fit their width, and there is one receive slot more than may be
  staged. Binding: a runtime has its own pools, and calls
  within one another do not all refuse one another.
- Raw key identity: a peer is accepted only with a pinned key.

## The modules

| Module | Models |
|---|---|
| `Endpoint` | the runtime, its pools, the cached opening, both lanes and the life of every connection, one action per call of the driver |
| `MCEndpoint` | its TLC instances (symmetry over connections) |
| `DirectInput` | `Input::owned`: one connection, call after call, one action per step of its loop |
| `Egress` | one connection's send path, one action per call or turn of `encrypt` |
| `WireStream` | what `Egress` promises: one stream of units, produced at its end and transmitted from its front |
| `Retained` | what the application does with a read: batch, cursor, heads, shared slices, over the buffers they lie in |
| `PlainStream` | what `Retained` promises: the plaintext of a connection as one stream |
| `Terminal` | how connections end while they compete for ciphertext slots, with the driver's side of it |
| `Session` | extends `WireStream` by the peer that reads it over TCP, up to what its application is told |
| `EndToEnd` | composes `Egress` with the reader of `Session`: one connection's calls on one end, the other end's reads, TCP between them |
| `Layout`, `Binding` | slot counts of the pools; binding a storage, call within call |
| `EndpointProofs`, `BindingProofs`, `DirectInputProofs`, `WireStreamProofs`, `EgressProofs`, `RetainedProofs`, `TerminalProofs`, `SessionProofs` | theorems |

How they fit: `Egress` implements `WireStream`, whose wire `Session` reads, and
`EndToEnd` puts `Egress` itself in the writer's place; what
`Session` publishes in one read is, inside a call, the business of `DirectInput`,
and what the application then does with it that of `Retained`. `Endpoint` has the
pools and the waiting of all of them; `Terminal` takes up, for the connections
that end, the ciphertext slots again and adds what `Endpoint` leaves out: the last
words and the driver's closing.

Operators starting a "Mutant" comment are plausible bugs. No specification uses
them: put in the place of the definition that follows, each makes one property
fail, which shows that the property depends on that code.

### Endpoint

`conn[c]` is a `Connection` together with its `SendState` (`held`, `cipher`,
`inflight`) and the input the driver has for it; `queue` is `Runtime.waiters`
with the credits; `pending` is `Runtime.pending`. A call borrows the runtime
mutably (and a transaction borrows it for its whole life), so a call, with its
releases and wakes, is one action. `try_reserve` is `BlockRecv`, `BlockEgress`,
`GrowthFails` or the guard `Reserves` of `Unused` and `Process`, which differ in
whether the reservation is used. That the driver lends no cursor and prepares
nothing while a submission is in the kernel (the `~inflight` guards) is its side of
the contract, as `state_send_retry.rs` shows it; `SubmittedUntouched` checks that
a receive then leaves the cursor alone, and the refill behind a retained suffix,
when the submission is over, is checked in `Egress`. `OpenFails` is `open` with a
lease and no ciphertext slot, or with an error of the native connection, and has
to leave no trace. `Release` and `Woken` are
`Transaction::release`. `Discard` has both orders in which a teardown may cancel
and wake. `CancelAgain` is a cancel that arrives after its entry was torn down,
and perhaps reused. The ciphertext in a cursor is a number of units, any fraction
of a record; `Egress` has what they are.

Wakes in `release` are shortcuts: a slot that comes back without one (a dropped
loan, a late chunk) is found by `PollReady`, and the properties hold because of
it. Both variants are in the model.

### DirectInput

A cell of the input is 0 while it has ciphertext, or names the plaintext byte
written there, so overwriting and reordering are visible. Sizes of records are
chosen when a record completes, with no more plaintext than wire bytes: that is
all the code relies on of TLS framing. A record may have begun in an earlier
input (`buffered` and `short` survive a call). Two things are left out because no
behaviour reaches them: `read_tls` returning 0 for a nonempty slice, which rustls
does only after close_notify, where the loop's guard stops first; and a failure
of the empty write that publishes key updates, whose output belongs to `Egress`.

### Egress and WireStream

A unit stands for one byte of plaintext in its record, or for one control
message, close_notify or alert; framing is left out. `Produced` is what is on the
wire, in the cursor and in the native connection, and is the refinement mapping:
draining and completions move the two seams inside it, only sealing and receiving
append to it. `gone` counts units the kernel took that still occupy the slot in
front of a retained suffix; an emptied cursor starts over at the front of its
slot. `Drain` may fail after any part of the output. `Receive` may queue output
while a submission is in the kernel. `failed` is `Connection.failed` or the
driver's terminal state: `finish` and `close` report a failed drain only to the
driver. A call that finds no slot returns `buffer_wait` and changes nothing,
hence is no action here; whether it finds one is the business of `Endpoint`.
`prepare_drain` and `settle` are within `Flush` and `SentAll`.

### Retained and PlainStream

Bytes of a connection have numbers, and `memory` says which are in which buffer,
so a buffer that is lent again while a slice of it is shared would show.
`part["staged"]` and `part["plain"]` are the two owners with the end and the rest
of their plaintext; `remaining` is the cursor's own count, `left` that of a head
that is lent. `ReadLease` is `Retained::try_new` (empty parts dropped, a read too
long to count lost with the connection), `Process` the other way to read, a
`Batch`. `HeadCommit` and `HeadDrop` are the two ends of a head; `Consume` is the
cursor's own `try_consume` and `consume_max`, which take a head and commit it.
`Share` is `try_get` and `try_retain` on a cursor or a head; a copy has memory of
its own and is left out. In `PlainStream` a read publishes, the application takes
from the front or gives the rest up.

### Terminal

One record per connection holds what matters of a `Connection`, its `SendState`
and the driver's answers: `closing` is `close_after`, `waiting` is `buffer_wait`,
`terminal` whether the driver has its outcome and still offers a `Drain`. `due`
counts the units up to and with the last words; it is what `LastWordsLeave` is
about and the model's only addition. `Ended` is `resume` with what `settle` and
`prepare_drain` make of it, `Ready` is the answer of a call in use. The driver is
modelled as the tests describe it: a write shutdown waits for the room that
close_notify needs (`state_send_retry.rs`), a wait for a slot is called again, and
`close_after` closes when nothing is submitted, buffered or waited for. An alert
queued behind one's own close_notify is a last word too. Output that no record
carries and contents are left to `Egress`.

### Session

The writer is `WireStream` as it stands; TCP delivers the wire in order, in any
pieces, and may end anywhere (`Eof` is `Connection::peer_eof`). `Read` is one
read: how far the native connection decodes (never past an end), whether it or
the flush of its answer fails, and whether the result can be counted. `told` is
what the driver hears from `finish`: an error first, then the end.

### EndToEnd

`EndToEnd` extends `Egress` and instantiates `Session` with `Produced` for the
stream, as the refinement of `WireStream` does. A step is a call of the writer's
driver, or a step of the reader; they share the wire only. So the reader meets
what `WireStream` only promises: submissions cut by the kernel, retained suffixes,
a close behind output that no slot had room for, an alert in the middle of it.

### Layout and Binding

Widths are small numbers, so that every count up to one past the largest is
tried. Results that may be errors are sets of at most one element. A call of
`try_runtime` is a frame; `Allocate` goes through its four allocations, and other
calls may begin inside each of them, as allocators and their callbacks can
(`state_binding_reentry.rs`). `Endpoint` starts from what `Binding` ends with.

## What TLC checks

| Run | Question | Instance, distinct states |
|---|---|---|
| `client` | types; nobody pins a ciphertext slot (`SendOwnersBusy`); no set of waiters can block itself (`WaitersNotStranded`); a capacity wait does not spin (`CapacityWaitDoesNotSpin`); nobody is overtaken in a lane (`NoOvertaking`) | 3 connections, 1 receive and 1 ciphertext slot, client; 293k |
| `reuse` | slots and leases conserved (`PoolsConserved`); lanes name only present connections (`WaitersTracked`) | 2 entries, each reused twice, late and repeated cancels; 525k |
| `server` | `PoolsConserved` with a growing pool, partial sends and failed openings; a connection has the policy in force when it was admitted (`AdmittedUnderCurrentRole`); `SubmittedUntouched` | 2 connections, 2 receive slots (1 warm), cursors of 2 units, one reconfiguration; 425k |
| `live` | a blocked receive is eventually served (`BlockedReceiveServed`) | 2 connections, sole slots; 19k |
| `direct_input` | `NeverRefused`, `UnreadIntact`, `PublishedInOrder`, `NothingDecodedIsLost`, `InputExhausted` | records up to 3 plain and 4 wire bytes, inputs up to 8; 44k |
| `egress` | refinement of `WireStream` (`StreamSpec`), `DataInOrder`, `NothingAfterEnd` | slot of 3 units, parts of 2, offers of 3, 6 units in all; 103k |
| `retained` | refinement of `PlainStream` (`StreamSpec`); `CountsAgree`; shared slices keep their bytes (`SharesIntact`) | 3 buffers for two parts and a share, slot and input of 2, reads of up to 3 (4 do not count), 6 bytes in all; 376k |
| `terminal` | the last words leave before the connection is closed (`LastWordsLeave`); whoever ends is closed some day (`Ends`) | 2 connections, 1 slot of 2 units, 1 unit each besides the last words; 256k |
| `session` | who hears the end has got everything (`NoTruncation`); no byte without those before it (`NoGaps`) | records of 2 plaintext units, 5 units in all; 53k |
| `end_to_end` | the send path is a writer of sessions (`SessionSpec`), whose reader has `NoTruncation` and `NoGaps` | slot of 2 units, parts of 2, 4 units in all; 147k |
| `binding` | a runtime works on the pools of its own call (`OwnPools`); calls within one another do not all refuse one another (`SomeoneBinds`); accepted counts fit (`StagedFits`) and leave a slot to assemble a record in (`RoomToAssemble`) | 3 calls, 2 deep, u32::MAX = 3; 256k |
| `egress_live` | completions alone carry what is produced to the wire (`CompletionsSuffice`) | slot of 2 units, 5 in all; 29k |

**Bounds.** `MaxNative`, `MaxEpoch` and `MaxRole` (Endpoint), `MaxInput`
(DirectInput), `MaxOffer`, `MaxControl` and `MaxUnits` (Egress, EndToEnd), `MaxInput`, `MaxStream` and
`MaxShares` (Retained), `MaxUnits` (Terminal, Session), `MaxPart` and
`MaxControl` (Session), `Connections`, `Resident`, `Sends`, `Warms`, `MaxBinds`
and `MaxDepth` (Binding) are bounds of the models. Everything else is a size the program has. Contention needs more
connections than slots: three for one slot give a holder, a waiter at the head
and one behind it. Reuse needs an entry to have two successors, so a cancel can be
late by more than one. In `direct_input` two whole records fit in an input with
the tail of a third, and a first record can be longer than what the input gives;
in `retained` three buffers serve two parts and a shared slice, so later reads
use the buffers of earlier ones again; in `terminal` one slot for two connections
is the worst contention, and output with its last words and a retained suffix
fills more than a slot; in `session` an end can come behind two records, or in front of nothing;
in `binding` the largest count is small enough to be overstepped by each formula;
in `egress` a stream is twice as long as a slot, so output backs up, suffixes are
retained and native output waits at the same time; in `end_to_end` it is twice a
slot too. `client` has no table reuse, so the discards that `NoOvertaking` and
`CapacityWaitDoesNotSpin` also speak of are covered by the proofs. The theorems
below remove these bounds for safety: they hold for all values of the constants.

**Deadlock** is checked for `Endpoint` and `DirectInput`. `Egress` may really
stop: at `MaxUnits`, and when a connection is over and all is sent. So may
`Retained` (the stream is over or the connection failed), `Terminal` (all
connections are closed), `Session` and `EndToEnd` (the reader knows the end) and `Binding` (the
storage is bound and nothing runs).

**Fairness.** `live`: the driver's loop polls every turn (`PollReady`) and tries
a connection it was told to retry; submitted sends complete; the application drops
its chunks; a cached opening is asked for again, because a client's cached hello
keeps a ciphertext slot until then. A retried connection competes with others that
arrive between the poll and its try, so processing is strongly fair; with weak
fairness alone a connection can be overtaken for ever. For the same reason the
property speaks of a time when peers have gone quiet (`Quiet`): under
endless fresh input, the egress lane ranks behind the receive lane and is not
guaranteed a turn. The instance has no table reuse. `egress_live`: a call of
`encrypt` runs to its end, a submission completes, and a driver that keeps calling
submits in between (strong fairness, since the calls disable it while they run).
Nothing is assumed about `flush` or `prepare` being called. `terminal` needs only
weak fairness: submissions are made and complete, a connection that was shut down
is tried again (`Close` while `bye`), one that is over is drained and settled, and
the driver closes what it may. `Close` competes for the one slot, and weak
fairness is enough because what a connection produces is bounded: the slot is
free in the end. `binding` assumes that a call, once it is past its first check,
runs to its end; whether its allocations succeed, and what runs inside them, is
left open.

## What is proved

TLAPS checks each theorem from the named assumptions on the constants, and TLC
evaluates those assumptions in the runs.

`EndpointProofs`, for any finite set of connections and any pool sizes: type
correctness, `PoolsConserved`, `SendOwnersBusy`, `WaitersTracked`,
`WaitersNotStranded`, `AdmittedUnderCurrentRole`, `SubmittedUntouched`,
`CapacityWaitDoesNotSpin` and `NoOvertaking`. None of these is inductive. The invariant has two halves. `Pools` ties each slot and lease
to its owner, with two facts the code never writes down: a connection holds a
cursor exactly while it has ciphertext in it, and only then can it be in the
kernel; a cached opening holds one exactly if its role sends first. `Lanes` says
that lanes and credits are two views of the same waiting connections, that a
waiter's entry names the connection now in the table, and that every id whose
cancel may still come is older. Three lemmas say which entries waking,
registering and cancelling leave, and in which order; `Lanes` and the two action
properties rest on them.

`CapacityWaitDoesNotSpin` is a measure. A waiter that a poll would pop weighs 2, a
connection with a ready credit 1, any other 0; a poll or a receive that blocks
again lowers the sum. It does because a poll pops only when the slot the popped
connection asked for is free, and blocking happens only when one is not: so no
connection can go from the one to the other and back while the pools stay as they
are. A sum is not an induction here: it is the two cardinalities of the
connections with weight at least 1 and at least 2, of which one shrinks and none
grows. `NoOvertaking` follows from what each step does to a lane: it takes one
entry out, keeping the others in order, or adds one at the end.

`BindingProofs`, for any width of the counts, any planned counts and any nesting
of calls: the four invariants of the run. The invariant follows the stack of calls
(`Calls`: their ids grow, and none of them is the call that bound the storage;
`Laid`: each lays out its own plan) and the pools (`Placed`: they are complete, and
those of the call that bound). `OwnPools` holds because the check is repeated
behind the last allocation, where no other call can come between it and the cell:
the cell itself is set only once whatever the code does, but without that check a
call would be given a runtime over another's pools.
`RoomToAssemble` and `StagedFits` are the arithmetic of `Layout`, for every plan
that `try_from` accepts.

`DirectInputProofs`, for all sizes of records and inputs and any slot that holds
one record: all six properties of the run. The argument is `Budget`: since a
record has no more plaintext than wire bytes, plaintext can exceed the ciphertext
consumed in this call only by the call's first record, part of which came with an
earlier input. Once the staged slot has taken at least that record (`Slot`),
everything else fits behind what is in the input; so a second promotion is never
asked for. This is the reason the code's `InvalidBufferProgress` and
`Consume` errors in `copy_plain` are unreachable.

`WireStreamProofs`: the abstract stream has `DataInOrder`, `NothingAfterEnd` and
`WireIsPrefix`, because what a step appends is plaintext, then control, then at
most one end, and an end, once produced, is recorded in `closed` or `failed`.

`EgressProofs`, for all sizes: `TypeOK`, which is inductive (what is in the kernel
is the front of the cursor, because sending only appends to a submitted cursor
and only a completion takes from it), and the refinement `Spec => StreamSpec`, one
lemma per action. `DataInOrder` and `NothingAfterEnd` then follow from the
theorems about the abstract stream, instantiated with `Produced`. Composed with a
reader, the send path implements a session (`EndsSpec => SessionSpec`), by the same
lemmas and the length of what is produced, which `Room` bounds as a session is
bounded. The theorems of `SessionProofs` then give `NoTruncation` and `NoGaps` of
`Egress` itself: from what a native connection, a slot and the kernel have of a
stream to what the other application has been given, for all sizes.

`RetainedProofs`, for any buffers, sizes, streams and numbers of shares: all four
properties of the run. `CountsAgree` is not inductive alone: the invariant says
of each part that its buffer has there exactly the next bytes of the stream, the
staged ones before the plain ones, which gives what a consume takes; and of each
share that its buffer still has its bytes, which no step can change because a read
only writes to buffers that no part and no share names. The refinement has one
case per action; heads do not show, except when they are committed.

`TerminalProofs`, for any set of connections, any number and size of slots:
`TypeOK`, and `LastWordsLeave` from an invariant that says where the last words
are. Last words that are due mean ciphertext in the slot, which keeps the driver
from closing; a connection that is over and has them only in its native output
was not told to close yet, or is waiting; and without a failed drain no third
case exists.

`SessionProofs`, for streams of any length: `NoTruncation` and `NoGaps`. The
reader's half of the invariant is that what is published is a beginning of the
wire, all that is decoded unless the connection failed, and that the end is
reported only with a decoded close_notify as the last unit; the rest comes from
the invariant of `WireStream`.

**Only model-checked:** the liveness properties, `BlockedReceiveServed`,
`CompletionsSuffice`, `Ends` and `SomeoneBinds`: fairness and ENABLED are out of the prover's
reach. Every invariant and every action property of the runs, and every
refinement, is also a theorem.

## What is not modelled, and the plan

Not modelled: record framing and cryptography (rustls). The identity of raw
public keys (`config/raw.rs`): each check compares one key with one pin, once and
without state; `tests/state_auth.rs` decides its cases. Constructors, error
conversions, configuration extensions, certificate roots: stateless. Of the
roles, what the core distinguishes is in `Endpoint`; the rest builds a native
connection. Receiving while one's own close_notify is under way is in `Terminal`
as output and alerts; half-closed traffic of the application is a matter of the driver.

Next:

1. The reader of `Session` as an abstract specification that `DirectInput`
   implements, as `Egress` implements the writer.
2. The refinement of `Endpoint`'s and `Terminal`'s unit counts by `Egress`, so
   that the three views of a connection's send path are tied together.
3. The safety half of the liveness properties: that whoever waits has a step
   enabled that serves it, as an invariant without ENABLED.
