---------------------------- MODULE BindingProofs ----------------------------
(***************************************************************************)
(* Binding, for any limits and plans, any number of calls, and any depth   *)
(* to which they run within one another.                                   *)
(***************************************************************************)
EXTENDS Binding, TLAPS

-----------------------------------------------------------------------------
(* The inductive invariant *)

\* A call's pools are laid out for its own plan, and once past the receive
\* pool's allocation no more of them are warm than there are.
Laid(f) ==
    /\ f.layout \in LayoutOf(f.plan, limits)
    /\ f.at > 2 => \A warm \in f.layout.growing : warm <= f.layout.recv

\* An id names one call: those on the stack began in its order, and none of
\* them is the one that bound the storage.
Calls ==
    /\ \A i \in 1..Len(frames) : frames[i].id <= binds /\ frames[i].id # bound
    /\ \A i, j \in 1..Len(frames) : i < j => frames[i].id < frames[j].id
    /\ bound <= binds

\* The pools are those of the call that bound, complete.
Placed ==
    /\ IF bound = 0 THEN pools = <<>>
       ELSE Len(pools) = 1 /\ pools[1].id = bound /\ pools[1].at = Done /\ Laid(pools[1])
    /\ runtimes \subseteq {bound}

IInv ==
    /\ TypeOK
    /\ \A i \in 1..Len(frames) : Laid(frames[i])
    /\ Calls
    /\ Placed
    /\ StagedFits

-----------------------------------------------------------------------------
(* Layout arithmetic *)

LEMMA DivCeilCovers ==
    ASSUME NEW m \in Nat, NEW n \in Nat \ {0}
    PROVE  DivCeil(m, n) \in Nat /\ DivCeil(m, n) * n >= m
BY DEF DivCeil

\* What Plans says of a plan: its staged count, if it has one, is in range.
LEMMA PlanOK ==
    ASSUME NEW plan \in Plans
    PROVE  /\ plan.send \in Nat \ {0} /\ plan.growing \in SUBSET Warms
           /\ plan.staged = {} \/ \E n \in Nat : n <= MaxStaged /\ plan.staged = {n}
<1>1. /\ plan.staged \in {{}} \cup {StagedFrom(n) : n \in 0..(MaxU32 + 1)}
      /\ plan.send \in {DefaultSend} \cup Sends
      /\ plan.growing \in {{}} \cup {{n} : n \in Warms}
  BY DEF Plans
<1>2. plan.send \in Nat \ {0} /\ plan.growing \in SUBSET Warms
  BY <1>1, DefaultAssumption, PlanAssumption
<1>3. ASSUME NEW k \in 0..(MaxU32 + 1), plan.staged = StagedFrom(k)
      PROVE  plan.staged = {} \/ \E n \in Nat : n <= MaxStaged /\ plan.staged = {n}
  <2>1. k \in Nat
    BY WidthAssumption
  <2>2. StagedFrom(k) = {} \/ (k <= MaxStaged /\ StagedFrom(k) = {k})
    <3>1. CASE k <= MaxStaged
      BY <3>1 DEF StagedFrom
    <3>2. CASE ~(k <= MaxStaged)
      <4>1. \A m : m \notin StagedFrom(k)
        BY <3>2 DEF StagedFrom
      <4>2. StagedFrom(k) = {}
        BY <4>1
      <4> QED
        BY <4>2
    <3> QED
      BY <3>1, <3>2
  <2> QED
    BY <1>3, <2>1, <2>2
<1> QED
  BY <1>1, <1>2, <1>3

\* How many receive slots a plan asks for: one more than it stages, and
\* without a count, one more than the resident bytes fill.
LEMMA RecvOK ==
    ASSUME NEW plan \in Plans,
           NEW l \in [connections : Connections, resident : Resident]
    PROVE  /\ Recv(plan, l) \in Nat
           /\ \A n \in plan.staged : n \in Nat /\ n <= MaxStaged /\ Recv(plan, l) = 1 + n
           /\ plan.staged = {} =>
                /\ (Recv(plan, l) - 1) * MaxPlaintext >= l.resident
                /\ Recv(plan, l) > Lesser(DefaultStaged, l.connections)
<1>1. l.connections \in Nat /\ l.resident \in Nat
  <2>1. l.connections \in Connections /\ l.resident \in Resident
    OBVIOUS
  <2>2. l.connections \in 1..MaxU32 /\ l.resident \in Nat
    BY <2>1, LimitsAssumption
  <2> QED
    BY <2>2, WidthAssumption
<1>2. CASE plan.staged # {}
  <2>1. PICK n \in Nat : n <= MaxStaged /\ plan.staged = {n}
    BY <1>2, PlanOK
  <2>2. (CHOOSE m \in plan.staged : TRUE) = n
    BY <2>1
  <2>3. Recv(plan, l) = 1 + n
    BY <1>2, <2>2 DEF Recv
  <2> QED
    BY <1>2, <2>1, <2>3
<1>3. CASE plan.staged = {}
  <2> DEFINE least == Lesser(DefaultStaged, l.connections)
             fill == DivCeil(l.resident, MaxPlaintext)
  <2>1. least \in Nat
    BY <1>1, DefaultAssumption DEF Lesser
  <2>2. fill \in Nat /\ fill * MaxPlaintext >= l.resident
    BY <1>1, WidthAssumption, DivCeilCovers
  <2>3. Recv(plan, l) = 1 + Greater(least, fill)
    BY <1>3 DEF Recv
  <2> HIDE DEF least, fill
  <2>4. Recv(plan, l) \in Nat /\ Recv(plan, l) > least /\ Recv(plan, l) - 1 >= fill
    BY <2>1, <2>2, <2>3 DEF Greater
  <2>5. MaxPlaintext \in Nat
    BY WidthAssumption
  <2> DEFINE room == Recv(plan, l) - 1
  <2>6. room \in Nat /\ room >= fill
    BY <2>2, <2>4
  <2> HIDE DEF room
  <2>7. room * MaxPlaintext >= fill * MaxPlaintext
    BY <2>2, <2>5, <2>6
  <2>8. room * MaxPlaintext >= l.resident
    BY <1>1, <2>2, <2>5, <2>6, <2>7
  <2> QED
    BY <1>3, <2>4, <2>8 DEF least, room
<1> QED
  BY <1>2, <1>3

\* A send pool is never larger than the connection table, and never empty.
LEMMA SendOK ==
    ASSUME NEW plan \in Plans,
           NEW l \in [connections : Connections, resident : Resident]
    PROVE  Send(plan, l) \in 1..MaxU32 /\ Send(plan, l) <= l.connections
<1>1. plan.send \in Nat \ {0} /\ l.connections \in 1..MaxU32
  BY PlanOK, LimitsAssumption
<1> QED
  BY <1>1, WidthAssumption DEF Send, Lesser

\* A layout has the sizes the plan asks for, and they are sizes of a pool.
LEMMA LayoutOK ==
    ASSUME NEW plan \in Plans,
           NEW l \in [connections : Connections, resident : Resident],
           NEW layout \in LayoutOf(plan, l)
    PROVE  /\ layout \in [recv : 1..MaxU32, send : 1..MaxU32, growing : SUBSET Warms]
           /\ layout.recv = Recv(plan, l) /\ layout.send = Send(plan, l)
<1>1. layout = [recv |-> Recv(plan, l), send |-> Send(plan, l), growing |-> plan.growing]
      /\ Recv(plan, l) \in 1..MaxU32 /\ Send(plan, l) \in 1..MaxU32
  BY DEF LayoutOf, PoolLayout
<1> QED
  BY <1>1, PlanOK

\* A plan with a staged count can be laid out, whatever the domain's limits.
LEMMA StagedLaidOut ==
    ASSUME NEW plan \in Plans,
           NEW l \in [connections : Connections, resident : Resident],
           plan.staged # {}
    PROVE  LayoutOf(plan, l) # {}
<1>1. PICK n \in plan.staged : TRUE
  OBVIOUS
<1>2. Recv(plan, l) \in 1..MaxU32
  BY <1>1, RecvOK, WidthAssumption DEF MaxStaged
<1>3. Send(plan, l) \in 1..MaxU32
  BY SendOK
<1>4. [recv |-> Recv(plan, l), send |-> Send(plan, l), growing |-> plan.growing]
        \in LayoutOf(plan, l)
  BY <1>2, <1>3 DEF LayoutOf, PoolLayout
<1> QED
  BY <1>4

-----------------------------------------------------------------------------
(* The invariant, call by call *)

LEMMA InitOK == Init => IInv
<1> SUFFICES ASSUME Init PROVE IInv
  OBVIOUS
<1>1. frames = <<>> /\ bound = 0 /\ runtimes = {} /\ pools = <<>> /\ answer = NoAnswer /\ binds = 0
      /\ limits \in [connections : Connections, resident : Resident]
  BY DEF Init
<1>2. frames \in Seq(Frame) /\ pools \in Seq(Frame) /\ Len(frames) = 0
  BY <1>1
<1>3. answer.to = "none"
  BY <1>1 DEF NoAnswer
<1>4. TypeOK
  BY <1>1, <1>2, <1>3, BoundsAssumption DEF TypeOK
<1>5. \A i \in 1..Len(frames) : FALSE
  BY <1>2
<1> QED
  BY <1>1, <1>3, <1>4, <1>5 DEF IInv, Calls, Placed, StagedFits

\* Removing the innermost call leaves the others as they were.
LEMMA PopOK ==
    ASSUME frames \in Seq(Frame), frames # <<>>
    PROVE  /\ Len(frames) \in Nat \ {0} /\ Top \in Frame
           /\ Pop \in Seq(Frame) /\ Len(Pop) = Len(frames) - 1
           /\ \A i \in 1..Len(frames) - 1 : Pop[i] = frames[i]
<1>1. Len(frames) \in Nat \ {0}
  OBVIOUS
<1>2. Top \in Frame
  BY <1>1 DEF Top
<1>3. /\ Pop \in Seq(Frame) /\ Len(Pop) = Len(frames) - 1
      /\ \A i \in 1..Len(frames) - 1 : Pop[i] = frames[i]
  <2>1. \A i \in 1..Len(frames) - 1 : frames[i] \in Frame
    BY <1>1
  <2>2. Pop = [i \in 1..Len(frames) - 1 |-> frames[i]]
    <3> DEFINE n == Len(frames) - 1
    <3>1. n \in Nat /\ n - 1 + 1 = n
      BY <1>1
    <3>2. SubSeq(frames, 1, n) = [i \in 1..n |-> frames[i]]
      BY <1>1, <3>1, SMTT(60)
    <3> QED
      BY <3>2 DEF Pop
  <2>3. Pop \in Seq(Frame) /\ Len(Pop) = Len(frames) - 1
    BY <1>1, <2>1, <2>2
  <2> QED
    BY <2>2, <2>3
<1> QED
  BY <1>1, <1>2, <1>3

\* A call answers, or it begins and is the innermost.
LEMMA CallKeeps ==
    ASSUME IInv, Call
    PROVE  IInv'
<1> PICK plan \in Plans :
        LET layouts == LayoutOf(plan, limits)
        IN \/ /\ layouts = {}
              /\ answer' = [to |-> "layout", staged |-> plan.staged]
              /\ UNCHANGED <<frames, binds>>
           \/ /\ layouts # {} /\ bound # 0
              /\ answer' = Answer("already")
              /\ UNCHANGED <<frames, binds>>
           \/ /\ bound = 0
              /\ binds < MaxBinds /\ Len(frames) < MaxDepth
              /\ binds' = binds + 1
              /\ \E layout \in layouts :
                    frames' = Append(frames, [id |-> binds', at |-> 1, plan |-> plan,
                                              layout |-> layout])
              /\ UNCHANGED answer
  BY DEF Call
<1>1. UNCHANGED <<limits, bound, runtimes, pools>>
  BY DEF Call
<1>2. TypeOK /\ limits \in [connections : Connections, resident : Resident]
  BY DEF IInv, TypeOK
<1>3. CASE UNCHANGED <<frames, binds>> /\ answer'.to \in {"layout", "already"} /\ StagedFits'
  <2>1. TypeOK'
    BY <1>1, <1>2, <1>3 DEF TypeOK
  <2>2. \A i \in 1..Len(frames') : Laid(frames[i])'
    BY <1>1, <1>3 DEF IInv, Laid
  <2> QED
    BY <1>1, <1>3, <2>1, <2>2 DEF IInv, Calls, Placed, Laid
<1>4. CASE LayoutOf(plan, limits) = {} /\ answer' = [to |-> "layout", staged |-> plan.staged]
           /\ UNCHANGED <<frames, binds>>
  <2>1. plan.staged = {}
    BY <1>2, <1>4, StagedLaidOut
  <2>2. StagedFits' /\ answer'.to = "layout"
    BY <1>4, <2>1 DEF StagedFits
  <2> QED
    BY <1>3, <1>4, <2>2
<1>5. CASE answer' = Answer("already") /\ UNCHANGED <<frames, binds>>
  <2>1. StagedFits' /\ answer'.to = "already"
    BY <1>5 DEF StagedFits, Answer
  <2> QED
    BY <1>3, <1>5, <2>1
<1>6. ASSUME NEW layout \in LayoutOf(plan, limits),
             bound = 0, binds < MaxBinds, Len(frames) < MaxDepth, binds' = binds + 1,
             frames' = Append(frames, [id |-> binds', at |-> 1, plan |-> plan, layout |-> layout]),
             UNCHANGED answer
      PROVE  IInv'
  <2>0. PICK f : f = [id |-> binds', at |-> 1, plan |-> plan, layout |-> layout]
    OBVIOUS
  <2>1. binds \in Nat /\ binds' \in 1..MaxBinds /\ MaxDepth \in Nat
    BY <1>2, <1>6, BoundsAssumption DEF TypeOK
  <2>2. f \in Frame
    <3>1. layout \in [recv : 1..MaxU32, send : 1..MaxU32, growing : SUBSET Warms]
      BY <1>2, LayoutOK
    <3>2. 1 \in 1..Done
      BY DEF Done, Allocations
    <3> QED
      BY <2>0, <2>1, <3>1, <3>2 DEF Frame
  <2>3. /\ f.id = binds' /\ f.at = 1 /\ f.layout \in LayoutOf(f.plan, limits')
    BY <1>1, <2>0
  <2>4. frames \in Seq(Frame)
    BY <1>2 DEF TypeOK
  <2>5. /\ frames' \in Seq(Frame) /\ Len(frames') = Len(frames) + 1 /\ Len(frames) \in Nat
        /\ \A i \in 1..Len(frames) : frames'[i] = frames[i]
        /\ frames'[Len(frames) + 1] = f
    BY <1>6, <2>0, <2>2, <2>4
  <2>6. \A i \in 1..Len(frames') : i \in 1..Len(frames) \/ i = Len(frames) + 1
    BY <2>5
  <2>7. TypeOK'
    <3>1. Len(frames') <= MaxDepth
      BY <1>6, <2>1, <2>5
    <3> QED
      BY <1>1, <1>2, <1>6, <2>1, <2>5, <3>1 DEF TypeOK
  <2>8. \A i \in 1..Len(frames') : Laid(frames[i])'
    <3>1. Laid(f)'
      BY <2>3 DEF Laid
    <3>2. \A i \in 1..Len(frames) : Laid(frames[i])'
      BY <1>1, <2>5 DEF IInv, Laid
    <3> QED
      BY <2>5, <2>6, <3>1, <3>2 DEF Laid
  <2>9. Calls'
    <3>1. \A i \in 1..Len(frames) : frames'[i].id <= binds /\ frames'[i].id \in Nat
      <4>1. \A i \in 1..Len(frames) : frames[i] \in Frame
        BY <2>4
      <4>2. \A i \in 1..Len(frames) : frames[i].id \in Nat
        BY <4>1 DEF Frame
      <4> QED
        BY <2>5, <4>2 DEF IInv, Calls
    <3>2. \A i \in 1..Len(frames') : frames'[i].id <= binds' /\ frames'[i].id # bound'
      <4>1. f.id <= binds' /\ f.id # bound'
        BY <1>1, <1>6, <2>1, <2>3
      <4>2. \A i \in 1..Len(frames) : frames'[i].id <= binds' /\ frames'[i].id # bound'
        BY <1>1, <1>6, <2>1, <2>5, <3>1 DEF IInv, Calls
      <4> QED
        BY <2>5, <2>6, <4>1, <4>2
    <3>3. ASSUME NEW i \in 1..Len(frames'), NEW j \in 1..Len(frames'), i < j
          PROVE  frames'[i].id < frames'[j].id
      <4>1. i \in 1..Len(frames)
        BY <2>5, <3>3
      <4>2. CASE j \in 1..Len(frames)
        BY <2>5, <3>3, <4>1, <4>2 DEF IInv, Calls
      <4>3. CASE j = Len(frames) + 1
        BY <1>6, <2>1, <2>3, <2>5, <3>1, <4>1, <4>3
      <4> QED
        BY <2>6, <4>2, <4>3
    <3>4. bound' <= binds'
      BY <1>1, <1>6, <2>1
    <3> QED
      BY <3>2, <3>3, <3>4 DEF Calls
  <2>10. Placed'
    BY <1>1, <1>6 DEF IInv, Placed, Laid
  <2>11. StagedFits'
    BY <1>6 DEF IInv, StagedFits
  <2> QED
    BY <2>7, <2>8, <2>9, <2>10, <2>11 DEF IInv
<1> QED
  BY <1>4, <1>5, <1>6

\* An allocation that succeeds takes the innermost call one further.
LEMMA AllocateKeeps ==
    ASSUME IInv, Allocate
    PROVE  IInv'
<1>1. /\ frames # <<>> /\ Top.at < Done /\ MayAllocate(Top)
      /\ frames' = [frames EXCEPT ![Len(frames)].at = @ + 1]
      /\ UNCHANGED <<limits, bound, runtimes, pools, answer, binds>>
  BY DEF Allocate, Allocating
<1>2. frames \in Seq(Frame)
  BY DEF IInv, TypeOK
<1>3. Len(frames) \in Nat \ {0} /\ Top \in Frame /\ Top = frames[Len(frames)]
  BY <1>1, <1>2, PopOK DEF Top
<1> DEFINE f == [Top EXCEPT !.at = @ + 1]
<1>4. Top.at \in 1..4 /\ Done = 5
  BY <1>1, <1>3 DEF Frame, Done, Allocations
<1>5. /\ f \in Frame /\ f.at = Top.at + 1
      /\ f.id = Top.id /\ f.plan = Top.plan /\ f.layout = Top.layout
  BY <1>3, <1>4 DEF Frame
<1>6. Laid(Top) /\ Len(frames) \in 1..Len(frames)
  BY <1>3 DEF IInv
<1>7. Laid(f)
  <2>1. CASE Top.at = 2
    BY <1>1, <1>5, <1>6, <2>1 DEF Laid, MayAllocate, Allocations
  <2>2. CASE Top.at # 2
    <3>1. f.at > 2 => Top.at > 2
      BY <1>4, <1>5, <2>2
    <3> QED
      BY <1>5, <1>6, <3>1 DEF Laid
  <2> QED
    BY <2>1, <2>2
<1> HIDE DEF f
<1>8. frames' = [frames EXCEPT ![Len(frames)] = f]
  BY <1>1, <1>3 DEF f
<1>9. /\ frames' \in Seq(Frame) /\ Len(frames') = Len(frames)
      /\ \A i \in 1..Len(frames) : frames'[i] = IF i = Len(frames) THEN f ELSE frames[i]
  BY <1>2, <1>3, <1>5, <1>8
<1>10. \A i \in 1..Len(frames) : frames'[i].id = frames[i].id
  BY <1>3, <1>5, <1>9
<1>11. \A i \in 1..Len(frames') : Laid(frames[i])'
  <2>1. \A i \in 1..Len(frames) : Laid(IF i = Len(frames) THEN f ELSE frames[i])
    BY <1>7 DEF IInv
  <2> QED
    BY <1>1, <1>9, <2>1 DEF Laid
<1>12. TypeOK'
  BY <1>1, <1>9 DEF IInv, TypeOK
<1>13. Calls'
  BY <1>1, <1>9, <1>10 DEF IInv, Calls
<1>14. Placed' /\ StagedFits'
  BY <1>1 DEF IInv, Placed, Laid, StagedFits
<1> QED
  BY <1>11, <1>12, <1>13, <1>14 DEF IInv

\* A call that returns leaves the others on the stack as they were.
LEMMA PopKeeps ==
    ASSUME IInv, frames # <<>>, frames' = Pop, UNCHANGED <<limits, binds>>,
           bound' = bound \/ bound' = Top.id
    PROVE  /\ frames' \in Seq(Frame) /\ Len(frames') <= MaxDepth
           /\ \A i \in 1..Len(frames') : Laid(frames[i])'
           /\ Calls'
<1>1. frames \in Seq(Frame) /\ Len(frames) <= MaxDepth
  BY DEF IInv, TypeOK
<1>2. /\ Len(frames) \in Nat \ {0} /\ Top = frames[Len(frames)] /\ Top \in Frame
      /\ frames' \in Seq(Frame) /\ Len(frames') = Len(frames) - 1
      /\ \A i \in 1..Len(frames) - 1 : frames'[i] = frames[i]
  BY <1>1, PopOK DEF Top
<1>3. Len(frames') <= MaxDepth
  BY <1>1, <1>2, BoundsAssumption
<1>4. \A i \in 1..Len(frames') : /\ i \in 1..Len(frames) /\ i < Len(frames)
                                 /\ frames'[i] = frames[i]
  BY <1>2
<1>5. \A i \in 1..Len(frames') : Laid(frames[i])'
  BY <1>4 DEF IInv, Laid
<1>6. Len(frames) \in 1..Len(frames)
  BY <1>2
<1>7. \A i \in 1..Len(frames') : frames'[i].id <= binds' /\ frames'[i].id # bound'
  <2>1. ASSUME NEW i \in 1..Len(frames') PROVE frames[i].id # Top.id
    <3>1. frames[i].id < Top.id
      BY <1>2, <1>4, <1>6 DEF IInv, Calls
    <3>2. frames[i] \in Frame
      BY <1>1, <1>4
    <3>3. frames[i].id \in Nat /\ Top.id \in Nat
      <4>1. frames[i].id \in 1..MaxBinds /\ Top.id \in 1..MaxBinds
        BY <1>2, <3>2 DEF Frame
      <4> QED
        BY <4>1, BoundsAssumption
    <3> QED
      BY <3>1, <3>3
  <2> QED
    BY <1>4, <2>1 DEF IInv, Calls
<1>8. \A i, j \in 1..Len(frames') : i < j => frames'[i].id < frames'[j].id
  BY <1>4 DEF IInv, Calls
<1>9. bound' <= binds'
  BY <1>2, <1>6 DEF IInv, Calls
<1> QED
  BY <1>2, <1>3, <1>5, <1>7, <1>8, <1>9 DEF Calls

\* A call that cannot allocate, or finds the storage bound, leaves no trace.
LEMMA RefusedKeeps ==
    ASSUME IInv, NEW kind \in {"already", "exhausted"}, frames # <<>>, Return(kind),
           UNCHANGED <<limits, bound, runtimes, pools, binds>>
    PROVE  IInv'
<1>1. frames' = Pop /\ answer'.to = kind
  BY DEF Return, Answer
<1>2. /\ frames' \in Seq(Frame) /\ Len(frames') <= MaxDepth
      /\ \A i \in 1..Len(frames') : Laid(frames[i])'
      /\ Calls'
  BY <1>1, PopKeeps
<1>3. TypeOK'
  BY <1>1, <1>2 DEF IInv, TypeOK
<1>4. Placed' /\ StagedFits'
  BY <1>1 DEF IInv, Placed, Laid, StagedFits
<1> QED
  BY <1>2, <1>3, <1>4 DEF IInv

\* The call that finds the cell empty fills it with its own pools.
LEMMA FinishKeeps ==
    ASSUME IInv, Finish
    PROVE  IInv'
<1>1. frames # <<>> /\ Top.at = Done
  BY DEF Finish, Finishing
<1>2. CASE bound # 0
  BY <1>1, <1>2, RefusedKeeps DEF Finish
<1>3. CASE bound = 0
  <2>1. /\ bound' = Top.id /\ runtimes' = runtimes \cup {Top.id}
        /\ pools' = Append(pools, Top) /\ frames' = Pop /\ answer'.to = "runtime"
        /\ UNCHANGED <<limits, binds>>
    BY <1>3 DEF Finish, Return, Answer
  <2>2. frames \in Seq(Frame) /\ pools = <<>> /\ runtimes \subseteq {0} /\ runtimes \subseteq 1..MaxBinds
    BY <1>3 DEF IInv, TypeOK, Placed
  <2>3. Len(frames) \in Nat \ {0} /\ Top \in Frame /\ Top = frames[Len(frames)]
    BY <1>1, <2>2, PopOK DEF Top
  <2>4. Top.id \in 1..MaxBinds /\ Laid(Top)
    BY <2>3 DEF IInv, Frame
  <2>5. pools' = <<Top>> /\ runtimes' = {Top.id}
    <3>1. runtimes = {}
      BY <2>2
    <3>2. Append(<<>>, Top) = <<Top>>
      OBVIOUS
    <3> QED
      BY <2>1, <2>2, <3>1, <3>2
  <2>6. /\ frames' \in Seq(Frame) /\ Len(frames') <= MaxDepth
        /\ \A i \in 1..Len(frames') : Laid(frames[i])'
        /\ Calls'
    BY <1>1, <2>1, PopKeeps
  <2>7. pools' \in Seq(Frame) /\ Len(pools') = 1 /\ pools'[1] = Top
    BY <2>3, <2>5
  <2>8. TypeOK'
    BY <2>1, <2>4, <2>5, <2>6, <2>7 DEF IInv, TypeOK
  <2>9. Placed'
    <3>1. Laid(pools[1])'
      BY <2>1, <2>4, <2>7 DEF Laid
    <3> QED
      BY <1>1, <2>1, <2>4, <2>5, <2>7, <3>1 DEF Placed
  <2>10. StagedFits'
    BY <2>1 DEF StagedFits
  <2> QED
    BY <2>6, <2>8, <2>9, <2>10 DEF IInv
<1> QED
  BY <1>2, <1>3

LEMMA NextKeeps == IInv /\ [Next]_vars => IInv'
<1> SUFFICES ASSUME IInv, [Next]_vars PROVE IInv'
  OBVIOUS
<1>1. CASE Call
  BY <1>1, CallKeeps
<1>2. CASE Allocate
  BY <1>2, AllocateKeeps
<1>3. CASE AllocateFails
  BY <1>3, RefusedKeeps DEF AllocateFails, Allocating
<1>4. CASE Finish
  BY <1>4, FinishKeeps
<1>5. CASE DropRuntime
  <2>1. PICK r \in runtimes : runtimes' = runtimes \ {r}
    BY <1>5 DEF DropRuntime
  <2>2. UNCHANGED <<limits, frames, bound, pools, answer, binds>>
    BY <1>5 DEF DropRuntime
  <2>3. TypeOK' /\ Placed'
    BY <2>1, <2>2 DEF IInv, TypeOK, Placed, Laid
  <2>4. \A i \in 1..Len(frames') : Laid(frames[i])'
    BY <2>2 DEF IInv, Laid
  <2> QED
    BY <2>2, <2>3, <2>4 DEF IInv, Calls, StagedFits
<1>6. CASE UNCHANGED vars
  <2>1. \A i \in 1..Len(frames') : Laid(frames[i])'
    BY <1>6 DEF vars, IInv, Laid
  <2>2. TypeOK' /\ Placed'
    BY <1>6 DEF vars, IInv, TypeOK, Placed, Laid
  <2> QED
    BY <1>6, <2>1, <2>2 DEF vars, IInv, Calls, StagedFits
<1> QED
  BY <1>1, <1>2, <1>3, <1>4, <1>5, <1>6 DEF Next

-----------------------------------------------------------------------------
(* The theorems *)

\* The invariant holds of every run of Bootstrap::try_runtime calls.
THEOREM Invariance == Spec => []IInv
<1>1. Init => IInv
  BY InitOK
<1>2. IInv /\ [Next]_vars => IInv'
  BY NextKeeps
<1> QED
  BY <1>1, <1>2, PTL DEF Spec

\* What the cell, the stack of calls and the pools may contain.
THEOREM TypeCorrect == Spec => []TypeOK
<1>1. IInv => TypeOK
  BY DEF IInv
<1> QED
  BY <1>1, Invariance, PTL

\* However calls began within one another, a runtime works on the pools it laid
\* out itself, and nobody shares them.
THEOREM OwnsPools == Spec => []OwnPools
<1>1. IInv => OwnPools
  BY DEF IInv, Placed, OwnPools
<1> QED
  BY <1>1, Invariance, PTL

\* A staged count that try_from accepted can be laid out in every domain.
THEOREM StagedAlwaysFits == Spec => []StagedFits
<1>1. IInv => StagedFits
  BY DEF IInv
<1> QED
  BY <1>1, Invariance, PTL

\* Whatever is staged, one receive slot is left to assemble a record in.
THEOREM RoomLeft == Spec => []RoomToAssemble
<1>1. IInv => RoomToAssemble
  <2> SUFFICES ASSUME IInv, NEW i \in 1..Len(pools)
               PROVE  /\ \A n \in pools[i].plan.staged : pools[i].layout.recv > n
                      /\ pools[i].plan.staged = {} =>
                           /\ (pools[i].layout.recv - 1) * MaxPlaintext >= limits.resident
                           /\ pools[i].layout.recv > Lesser(DefaultStaged, limits.connections)
                      /\ pools[i].layout.send <= limits.connections
                      /\ \A warm \in pools[i].layout.growing : warm <= pools[i].layout.recv
    BY DEF RoomToAssemble
  <2> DEFINE p == pools[i]
  <2>1. p \in Frame /\ limits \in [connections : Connections, resident : Resident]
    BY DEF IInv, TypeOK
  <2>2. p.at = 5 /\ Laid(p)
    <3>1. bound # 0
      BY DEF IInv, Placed
    <3>2. Len(pools) = 1
      BY <3>1 DEF IInv, Placed
    <3>3. i = 1
      BY <3>2
    <3> QED
      BY <3>1, <3>3 DEF IInv, Placed, Done, Allocations
  <2> HIDE DEF p
  <2>3. p.plan \in Plans /\ p.layout \in LayoutOf(p.plan, limits)
    BY <2>1, <2>2 DEF Frame, Laid
  <2>4. p.layout.recv = Recv(p.plan, limits) /\ p.layout.send = Send(p.plan, limits)
    BY <2>1, <2>3, LayoutOK
  <2>5. \A n \in p.plan.staged : p.layout.recv > n
    BY <2>1, <2>3, <2>4, RecvOK
  <2>6. p.plan.staged = {} =>
          /\ (p.layout.recv - 1) * MaxPlaintext >= limits.resident
          /\ p.layout.recv > Lesser(DefaultStaged, limits.connections)
    BY <2>1, <2>3, <2>4, RecvOK
  <2>7. p.layout.send <= limits.connections
    BY <2>1, <2>3, <2>4, SendOK
  <2>8. \A warm \in p.layout.growing : warm <= p.layout.recv
    BY <2>2 DEF Laid
  <2> QED
    BY <2>5, <2>6, <2>7, <2>8 DEF p
<1> QED
  BY <1>1, Invariance, PTL
=============================================================================
