--------------------------------- MODULE Layout ---------------------------------
(***************************************************************************)
(* How many slots an endpoint's pools get (endpoint/layout.rs): a plan     *)
(* chosen with the configuration meets the limits of the worker's domain.  *)
(* An optional value is a set of at most one element, and so is a result   *)
(* that may be an error.                                                   *)
(***************************************************************************)
EXTENDS Naturals

CONSTANTS
    MaxU32,            \* u32::MAX
    MaxPlaintext,      \* bytes of a receive slot
    DefaultStaged,     \* DEFAULT_STAGED_RECORDS
    DefaultSend        \* DEFAULT_CIPHERTEXT_SLOTS

ASSUME WidthAssumption == MaxU32 \in Nat \ {0} /\ MaxPlaintext \in Nat \ {0}
ASSUME DefaultAssumption == DefaultStaged \in Nat \ {0} /\ DefaultSend \in Nat \ {0}

Lesser(m, n)  == IF m < n THEN m ELSE n
Greater(m, n) == IF m < n THEN n ELSE m
DivCeil(m, n) == (m + n - 1) \div n

\* Mutant: a count may be as large as its type.
StagedFromAny(actual) == {n \in {actual} : n <= MaxU32}

\* Staged::try_from leaves room for the slot that Plan::layout adds.
MaxStaged == MaxU32 - 1
StagedFrom(actual) == {n \in {actual} : n <= MaxStaged}

\* Mutant: a count is narrowed without a check.
PoolLayoutUnchecked(slots) == {slots}

\* pool::Layout::new
PoolLayout(slots) == {n \in {slots} : n \in 1..MaxU32}

\* Mutant: the slot a record is assembled in is one of the staged ones.
RecvOfBudget(plan, limits) ==
    IF plan.staged # {} THEN CHOOSE n \in plan.staged : TRUE
    ELSE Greater(1, Greater(Lesser(DefaultStaged, limits.connections),
                            DivCeil(limits.resident, MaxPlaintext)))

Recv(plan, limits) ==
    1 + IF plan.staged # {} THEN CHOOSE n \in plan.staged : TRUE
        ELSE Greater(Lesser(DefaultStaged, limits.connections),
                     DivCeil(limits.resident, MaxPlaintext))

Send(plan, limits) == Lesser(plan.send, limits.connections)

\* Plan::layout
LayoutOf(plan, limits) ==
    {[recv |-> r, send |-> s, growing |-> plan.growing] :
        r \in PoolLayout(Recv(plan, limits)), s \in PoolLayout(Send(plan, limits))}
=============================================================================
