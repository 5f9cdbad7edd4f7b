------------------------------ MODULE PlainStream ------------------------------
(***************************************************************************)
(* What an application is promised of the plaintext of one connection,     *)
(* whatever buffers it lies in: one stream of bytes 1, 2, ...  A read      *)
(* publishes the next ones, the application takes them from the front, and *)
(* knows how many are left.  What it gives up is never seen again.         *)
(***************************************************************************)
EXTENDS Naturals, Sequences

VARIABLES
    passed,        \* bytes behind the reader
    unread,        \* bytes of the current read that are left
    got            \* bytes the application consumed

stream == <<passed, unread, got>>

\* The n bytes behind byte x.
Run(x, n) == [i \in 1..n |-> x + i]

Init == passed = 0 /\ unread = 0 /\ got = <<>>

Publish ==
    /\ unread = 0
    /\ unread' \in Nat
    /\ UNCHANGED <<passed, got>>

Take ==
    \E n \in 1..unread :
        /\ got' = got \o Run(passed, n)
        /\ passed' = passed + n
        /\ unread' = unread - n

\* The rest of a read is given up, or a read cannot be published at all.
GiveUp ==
    /\ passed' \in Nat /\ passed' >= passed + unread
    /\ unread' = 0
    /\ UNCHANGED got

Next == Publish \/ Take \/ GiveUp

Spec == Init /\ [][Next]_stream

\* No byte is consumed twice or behind a later one, and none before it was
\* published.
InOrder ==
    /\ \A i, j \in 1..Len(got) : i < j => got[i] < got[j]
    /\ \A i \in 1..Len(got) : got[i] \in 1..passed
=============================================================================
