-------------------------------- MODULE Binding --------------------------------
(***************************************************************************)
(* Binding an endpoint to a worker's storage, Bootstrap::try_runtime       *)
(* (endpoint/mod.rs): the pools are laid out and allocated, and put in     *)
(* the storage's cell, once.  Allocating runs foreign code, which may bind *)
(* the same storage; so a call is a frame of a stack, and another call may *)
(* begin within each of its allocations.                                   *)
(***************************************************************************)
EXTENDS Layout, Sequences, FiniteSets

CONSTANTS
    Connections,       \* bound: domain::Limits.connections
    Resident,          \* bound: domain::Limits.resident
    Sends,             \* bound: what with_send is given
    Warms,             \* bound: what with_growth is given
    MaxBinds,          \* bound: calls that get past the first check
    MaxDepth           \* bound: calls within one another

\* The table of connections is indexed by a u32.
ASSUME LimitsAssumption == Connections \subseteq 1..MaxU32 /\ Resident \subseteq Nat
ASSUME PlanAssumption == Sends \subseteq Nat \ {0} /\ Warms \subseteq Nat \ {0}
ASSUME BoundsAssumption == MaxBinds \in Nat /\ MaxDepth \in Nat

VARIABLES
    limits,            \* the domain's
    frames,            \* calls that have not returned, the innermost last
    bound,             \* Sessions.buffers: the call whose pools it has, or 0
    runtimes,          \* calls that returned a runtime, those still in use
    pools,             \* what the calls that bound have put there
    answer,            \* what the last call answered, and to what staged count
    binds              \* calls past the first check so far

vars == <<limits, frames, bound, runtimes, pools, answer, binds>>

\* Plan::new, with_staged, with_send and with_growth.
Plans ==
    [staged : {{}} \cup {StagedFrom(n) : n \in 0..(MaxU32 + 1)},
     send : {DefaultSend} \cup Sends,
     growing : {{}} \cup {{n} : n \in Warms}]

NoAnswer == [to |-> "none", staged |-> {}]
Answer(kind) == [to |-> kind, staged |-> {}]

Init ==
    /\ limits \in [connections : Connections, resident : Resident]
    /\ frames = <<>> /\ bound = 0 /\ runtimes = {} /\ pools = <<>>
    /\ answer = NoAnswer /\ binds = 0

Allocations == <<"sessions", "recv", "send", "waiters">>

Top  == frames[Len(frames)]
Pop  == SubSeq(frames, 1, Len(frames) - 1)
Done == Len(Allocations) + 1

Allocating == IF frames = <<>> THEN FALSE ELSE Top.at < Done
Finishing  == IF frames = <<>> THEN FALSE ELSE Top.at = Done

Return(kind) ==
    /\ frames' = Pop
    /\ answer' = Answer(kind)

\* The call up to its first check: it lays the pools out, and is refused if it
\* cannot, or if the storage is bound.  Others run outside any call, or within
\* an allocation.
Call ==
    /\ ~Finishing
    /\ \E plan \in Plans :
        LET layouts == LayoutOf(plan, limits)
        IN \/ /\ layouts = {}
              /\ answer' = [to |-> "layout", staged |-> plan.staged]
              /\ UNCHANGED <<frames, binds>>
           \/ /\ layouts # {} /\ bound # 0
              /\ answer' = Answer("already")
              /\ UNCHANGED <<frames, binds>>
           \/ /\ bound = 0
              /\ binds < MaxBinds /\ Len(frames) < MaxDepth
              /\ binds' = binds + 1
              /\ \E layout \in layouts :
                    frames' = Append(frames, [id |-> binds', at |-> 1, plan |-> plan,
                                              layout |-> layout])
              /\ UNCHANGED answer
    /\ UNCHANGED <<limits, bound, runtimes, pools>>

\* A growing pool is refused when more is to be warm than it may have.
MayAllocate(f) ==
    Allocations[f.at] = "recv" => \A warm \in f.layout.growing : warm <= f.layout.recv

Allocate ==
    /\ Allocating
    /\ MayAllocate(Top)
    /\ frames' = [frames EXCEPT ![Len(frames)].at = @ + 1]
    /\ UNCHANGED <<limits, bound, runtimes, pools, answer, binds>>

\* What was allocated is freed.
AllocateFails ==
    /\ Allocating
    /\ Return("exhausted")
    /\ UNCHANGED <<limits, bound, runtimes, pools, binds>>

\* Mutant: without the second check, get_or_init returns what it finds.
FinishUnchecked ==
    /\ Finishing
    /\ bound' = IF bound = 0 THEN Top.id ELSE bound
    /\ runtimes' = runtimes \cup {Top.id}
    /\ pools' = IF bound = 0 THEN Append(pools, Top) ELSE pools
    /\ Return("runtime")
    /\ UNCHANGED <<limits, binds>>

\* Mutant: whoever had other calls begin within it is refused.
FinishRefusesOuter ==
    /\ Finishing
    /\ IF bound # 0 \/ binds # Top.id
       THEN /\ Return("already")
            /\ UNCHANGED <<limits, bound, runtimes, pools>>
       ELSE /\ bound' = Top.id
            /\ runtimes' = runtimes \cup {Top.id}
            /\ pools' = Append(pools, Top)
            /\ Return("runtime")
    /\ UNCHANGED <<limits, binds>>

\* The second check, and the cell.
Finish ==
    /\ Finishing
    /\ IF bound # 0
       THEN /\ Return("already")
            /\ UNCHANGED <<limits, bound, runtimes, pools>>
       ELSE /\ bound' = Top.id
            /\ runtimes' = runtimes \cup {Top.id}
            /\ pools' = Append(pools, Top)
            /\ Return("runtime")
    /\ UNCHANGED <<limits, binds>>

\* A runtime ends; its pools stay in the storage.
DropRuntime ==
    /\ ~Finishing
    /\ \E r \in runtimes : runtimes' = runtimes \ {r}
    /\ UNCHANGED <<limits, frames, bound, pools, answer, binds>>

Next == Call \/ Allocate \/ AllocateFails \/ Finish \/ DropRuntime

Spec == Init /\ [][Next]_vars

\* A call runs to its end: its steps are statements of one function.
Fairness == WF_vars(Allocate \/ AllocateFails) /\ WF_vars(Finish)

LiveSpec == Spec /\ Fairness

-----------------------------------------------------------------------------
(* Properties *)

Frame ==
    [id : 1..MaxBinds, at : 1..Done, plan : Plans,
     layout : [recv : 1..MaxU32, send : 1..MaxU32, growing : SUBSET Warms]]

TypeOK ==
    /\ limits \in [connections : Connections, resident : Resident]
    /\ frames \in Seq(Frame) /\ Len(frames) <= MaxDepth
    /\ bound \in 0..MaxBinds /\ runtimes \subseteq 1..MaxBinds
    /\ pools \in Seq(Frame) /\ binds \in 0..MaxBinds
    /\ answer.to \in {"none", "layout", "already", "exhausted", "runtime"}

\* Every runtime works on the pools it laid out itself: whatever calls began
\* within one another, one of them bound the storage and nobody shares it.
OwnPools ==
    /\ runtimes \subseteq {bound}
    /\ bound # 0 => Len(pools) = 1 /\ pools[1].id = bound

\* Calls within one another do not all refuse one another: whatever those within
\* it answered, the outermost ends with the storage bound, or because an
\* allocation of its own failed.
SomeoneBinds ==
    (frames # <<>>) ~> (bound # 0 \/ (frames = <<>> /\ answer.to = "exhausted"))

\* A staged count that was accepted can always be laid out.
StagedFits == answer.to = "layout" => answer.staged = {}

\* Whatever is staged, one receive slot is left to assemble a record in: with a
\* planned count, and for all the bytes the domain may keep resident without one.
RoomToAssemble ==
    \A i \in 1..Len(pools) :
        LET p == pools[i]
        IN /\ \A n \in p.plan.staged : p.layout.recv > n
           /\ p.plan.staged = {} =>
                /\ (p.layout.recv - 1) * MaxPlaintext >= limits.resident
                /\ p.layout.recv > Lesser(DefaultStaged, limits.connections)
           /\ p.layout.send <= limits.connections
           /\ \A warm \in p.layout.growing : warm <= p.layout.recv
=============================================================================
