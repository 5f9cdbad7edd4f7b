--------------------------- MODULE EndpointProofs ---------------------------
(***************************************************************************)
(* Safety of Endpoint for any number of connections and any pool sizes.    *)
(* Pools is the part of the invariant about slots and leases, Lanes the    *)
(* part about blocked receives; neither needs the other.  The last parts   *)
(* are about steps: the weight of the waiting connections, which a poll    *)
(* lowers, and the order of a lane, which every step keeps.                *)
(***************************************************************************)
EXTENDS Endpoint, TLAPS, FiniteSetTheorems, SequenceTheorems

-----------------------------------------------------------------------------
(* The lanes and credits: what waking, registering and cancelling a waiter  *)
(* do to them.                                                             *)

QueueType == [lane : [Resource -> Seq(Target)], credit : [Conn -> Credit]]

\* The lanes and credits of a queue agree with each other.
QueueOK(q) ==
    /\ q \in QueueType
    /\ \A r \in Resource : \A p \in DOMAIN q.lane[r] : q.credit[q.lane[r][p].slot] = "held"
    /\ \A r, s \in Resource : \A p \in DOMAIN q.lane[r], n \in DOMAIN q.lane[s] :
          q.lane[r][p].slot = q.lane[s][n].slot => r = s /\ p = n
    /\ \A c \in Conn : q.credit[c] = "held" =>
          \E r \in Resource : \E p \in DOMAIN q.lane[r] : q.lane[r][p].slot = c

\* What a wake does to the lane it pops: the head goes, the rest moves up.
Popped(q, r, w) ==
    /\ 1 \in DOMAIN q.lane[r] /\ q.lane[r][1] \in Target /\ q.lane[r][1].slot \in Conn
    /\ q.credit[q.lane[r][1].slot] = "held"
    /\ w.credit = [q.credit EXCEPT ![q.lane[r][1].slot] = "ready"]
    /\ w \in QueueType
    /\ \A s \in Resource : s # r => w.lane[s] = q.lane[s]
    /\ DOMAIN q.lane[r] = 1..Len(q.lane[r]) /\ Len(q.lane[r]) \in Nat
    /\ DOMAIN w.lane[r] = 1..Len(q.lane[r]) - 1
    /\ \A p \in 1..Len(q.lane[r]) - 1 : w.lane[r][p] = q.lane[r][p + 1]

LEMMA WakeLane ==
    ASSUME NEW q, QueueOK(q), NEW r \in Resource, q.lane[r] # <<>>
    PROVE  Popped(q, r, Wake(q, r))
<1> DEFINE w == Wake(q, r)
           h == q.lane[r][1].slot
<1>1. /\ q \in QueueType
      /\ q.lane \in [Resource -> Seq(Target)]
      /\ q.credit \in [Conn -> Credit]
      /\ q.lane[r] \in Seq(Target)
  BY DEF QueueType, QueueOK
<1>2. /\ Head(q.lane[r]) = q.lane[r][1]
      /\ 1 \in DOMAIN q.lane[r]
      /\ Tail(q.lane[r]) \in Seq(Target)
      /\ DOMAIN Tail(q.lane[r]) = 1..Len(q.lane[r]) - 1
      /\ DOMAIN q.lane[r] = 1..Len(q.lane[r]) /\ Len(q.lane[r]) \in Nat
      /\ \A p \in 1..Len(q.lane[r]) - 1 : Tail(q.lane[r])[p] = q.lane[r][p + 1]
  BY <1>1
<1>3. q.lane[r][1] \in Target
  BY <1>1, <1>2
<1>4. h \in Conn /\ q.credit[h] = "held"
  BY <1>2, <1>3 DEF QueueOK, Target
<1>5. /\ w.lane = [q.lane EXCEPT ![r] = Tail(@)]
      /\ w.credit = [q.credit EXCEPT ![h] = "ready"]
      /\ w \in QueueType
  BY <1>1, <1>2, <1>4 DEF Wake, QueueType, Credit
<1>6. \A s \in Resource : w.lane[s] = IF s = r THEN Tail(q.lane[r]) ELSE q.lane[s]
  BY <1>1, <1>5
<1> HIDE DEF w
<1> QED
  BY <1>2, <1>3, <1>4, <1>5, <1>6 DEF Popped, w, h

\* Popping the head of a lane keeps the queue in order, adds no entry and only
\* turns a held credit ready.
LEMMA WakeOK ==
    ASSUME NEW q, QueueOK(q), NEW r \in Resource
    PROVE  /\ QueueOK(Wake(q, r))
           /\ \A t \in Target : Queued(Wake(q, r), t) => Queued(q, t)
           /\ \A c \in Conn : \/ Wake(q, r).credit[c] = q.credit[c]
                              \/ q.credit[c] = "held" /\ Wake(q, r).credit[c] = "ready"
<1>1. CASE q.lane[r] = <<>>
  BY <1>1 DEF Wake
<1>2. CASE q.lane[r] # <<>>
  <2> DEFINE w == Wake(q, r)
             h == q.lane[r][1].slot
  <2>1. /\ q \in QueueType
        /\ q.lane \in [Resource -> Seq(Target)]
        /\ q.credit \in [Conn -> Credit]
    BY DEF QueueType, QueueOK
  <2>3. Popped(q, r, w)
    BY <1>2, WakeLane
  <2> HIDE DEF w
  <2>2. /\ 1 \in DOMAIN q.lane[r]
        /\ DOMAIN q.lane[r] = 1..Len(q.lane[r]) /\ Len(q.lane[r]) \in Nat
        /\ DOMAIN w.lane[r] = 1..Len(q.lane[r]) - 1
        /\ \A p \in 1..Len(q.lane[r]) - 1 : w.lane[r][p] = q.lane[r][p + 1]
        /\ \A s \in Resource : s # r => w.lane[s] = q.lane[s]
    BY <2>3, Zenon DEF Popped
  <2>5. /\ h \in Conn /\ q.credit[h] = "held"
        /\ w.credit = [q.credit EXCEPT ![h] = "ready"]
        /\ w \in QueueType
    BY <2>3 DEF Popped
  <2>6. \A s \in Resource : \A p \in DOMAIN w.lane[s] :
            LET n == IF s = r THEN p + 1 ELSE p
            IN n \in DOMAIN q.lane[s] /\ w.lane[s][p] = q.lane[s][n]
    <3> SUFFICES ASSUME NEW s \in Resource, NEW p \in DOMAIN w.lane[s]
                 PROVE  LET n == IF s = r THEN p + 1 ELSE p
                        IN n \in DOMAIN q.lane[s] /\ w.lane[s][p] = q.lane[s][n]
      OBVIOUS
    <3>1. CASE s = r
      <4>1. p \in 1..Len(q.lane[r]) - 1 /\ w.lane[r][p] = q.lane[r][p + 1]
        BY <2>2, <3>1
      <4>2. p + 1 \in 1..Len(q.lane[r])
        BY <4>1, <2>2
      <4> QED
        BY <3>1, <4>1, <4>2, <2>2
    <3>2. CASE s # r
      BY <2>2, <3>2
    <3> QED
      BY <3>1, <3>2
  <2>7. \A s \in Resource : DOMAIN w.lane[s] \subseteq Nat \ {0}
    BY <2>5 DEF QueueType
  <2>8. \A s \in Resource : \A p \in DOMAIN w.lane[s] :
            w.lane[s][p].slot \in Conn /\ w.lane[s][p].slot # h
    <3> SUFFICES ASSUME NEW s \in Resource, NEW p \in DOMAIN w.lane[s]
                 PROVE  w.lane[s][p].slot \in Conn /\ w.lane[s][p].slot # h
      OBVIOUS
    <3> DEFINE n == IF s = r THEN p + 1 ELSE p
    <3>1. n \in DOMAIN q.lane[s] /\ w.lane[s][p] = q.lane[s][n] /\ p \in Nat \ {0}
      BY <2>6, <2>7
    <3>2. w.lane[s][p] \in Target
      BY <3>1, <2>1
    <3>3. ~(s = r /\ n = 1)
      BY <3>1
    <3>4. q.lane[s][n].slot # q.lane[r][1].slot
      BY <3>1, <3>3, <2>2 DEF QueueOK
    <3> QED
      BY <3>1, <3>2, <3>4, <2>2 DEF Target
  <2>9. \A s \in Resource : \A p \in DOMAIN w.lane[s] :
            w.credit[w.lane[s][p].slot] = "held"
    BY <2>1, <2>5, <2>6, <2>8 DEF QueueOK
  <2>10. \A s, u \in Resource : \A p \in DOMAIN w.lane[s], n \in DOMAIN w.lane[u] :
            w.lane[s][p].slot = w.lane[u][n].slot => s = u /\ p = n
    <3> SUFFICES ASSUME NEW s \in Resource, NEW u \in Resource,
                        NEW p \in DOMAIN w.lane[s], NEW n \in DOMAIN w.lane[u],
                        w.lane[s][p].slot = w.lane[u][n].slot
                 PROVE  s = u /\ p = n
      OBVIOUS
    <3> DEFINE i == IF s = r THEN p + 1 ELSE p
               j == IF u = r THEN n + 1 ELSE n
    <3>1. /\ i \in DOMAIN q.lane[s] /\ w.lane[s][p] = q.lane[s][i] /\ p \in Nat
          /\ j \in DOMAIN q.lane[u] /\ w.lane[u][n] = q.lane[u][j] /\ n \in Nat
      BY <2>6, <2>7
    <3>2. s = u /\ i = j
      BY <3>1 DEF QueueOK
    <3> QED
      BY <3>1, <3>2
  <2>11. \A c \in Conn : w.credit[c] = "held" =>
            \E s \in Resource : \E p \in DOMAIN w.lane[s] : w.lane[s][p].slot = c
    <3> SUFFICES ASSUME NEW c \in Conn, w.credit[c] = "held"
                 PROVE  \E s \in Resource : \E p \in DOMAIN w.lane[s] : w.lane[s][p].slot = c
      OBVIOUS
    <3>1. c # h /\ q.credit[c] = "held"
      BY <2>1, <2>5
    <3>2. PICK s \in Resource : \E n \in DOMAIN q.lane[s] : q.lane[s][n].slot = c
      BY <3>1 DEF QueueOK
    <3>3. PICK n \in DOMAIN q.lane[s] : q.lane[s][n].slot = c
      BY <3>2
    <3>4. CASE s # r
      BY <3>3, <3>4, <2>2
    <3>5. CASE s = r
      <4>1. n \in 2..Len(q.lane[r])
        BY <3>1, <3>3, <3>5, <2>1, <2>2
      <4>2. n - 1 \in DOMAIN w.lane[r] /\ w.lane[r][n - 1] = q.lane[r][n]
        BY <4>1, <2>1, <2>2, <2>5
      <4> QED
        BY <4>2, <3>3, <3>5
    <3> QED
      BY <3>4, <3>5
  <2>12. \A t \in Target : Queued(w, t) => Queued(q, t)
    BY <2>6 DEF Queued
  <2>13. \A c \in Conn : \/ w.credit[c] = q.credit[c]
                         \/ q.credit[c] = "held" /\ w.credit[c] = "ready"
    BY <2>1, <2>5
  <2> QED
    BY <2>5, <2>9, <2>10, <2>11, <2>12, <2>13 DEF QueueOK, w
<1> QED
  BY <1>1, <1>2

\* Registering a credit that is not held appends one entry.
LEMMA RegisterOK ==
    ASSUME NEW q, QueueOK(q), NEW r \in Resource, NEW id \in Target,
           q.credit[id.slot] # "held"
    PROVE  /\ QueueOK(Register(q, r, id))
           /\ \A t \in Target : Queued(Register(q, r, id), t) <=> Queued(q, t) \/ t = id
           /\ Register(q, r, id).credit = [q.credit EXCEPT ![id.slot] = "held"]
<1> DEFINE w == Register(q, r, id)
<1>1. /\ q \in QueueType
      /\ q.lane \in [Resource -> Seq(Target)]
      /\ q.credit \in [Conn -> Credit]
      /\ q.lane[r] \in Seq(Target)
  BY DEF QueueType, QueueOK
<1>2. /\ w.lane = [q.lane EXCEPT ![r] = Append(@, id)]
      /\ w.credit = [q.credit EXCEPT ![id.slot] = "held"]
      /\ w \in QueueType
      /\ id.slot \in Conn
  <2>1. id.slot \in Conn
    BY DEF Target
  <2>2. Append(q.lane[r], id) \in Seq(Target)
    BY <1>1
  <2>3. [q.lane EXCEPT ![r] = Append(@, id)] \in [Resource -> Seq(Target)]
    BY <1>1, <2>2
  <2>4. [q.credit EXCEPT ![id.slot] = "held"] \in [Conn -> Credit]
    BY <1>1, <2>1 DEF Credit
  <2> QED
    BY <2>1, <2>3, <2>4 DEF Register, QueueType
<1>3. /\ DOMAIN w.lane[r] = 1..Len(q.lane[r]) + 1
      /\ DOMAIN q.lane[r] = 1..Len(q.lane[r])
      /\ Len(q.lane[r]) \in Nat
      /\ w.lane[r][Len(q.lane[r]) + 1] = id
      /\ \A p \in DOMAIN q.lane[r] : p \in DOMAIN w.lane[r] /\ w.lane[r][p] = q.lane[r][p]
  BY <1>1, <1>2
<1>4. \A s \in Resource : s # r => w.lane[s] = q.lane[s]
  BY <1>1, <1>2
<1>5. \A s \in Resource : \A p \in DOMAIN w.lane[s] :
        \/ s = r /\ p = Len(q.lane[r]) + 1 /\ w.lane[s][p] = id
        \/ p \in DOMAIN q.lane[s] /\ w.lane[s][p] = q.lane[s][p]
  BY <1>3, <1>4, SMTT(60)
<1>6. \A s \in Resource : \A p \in DOMAIN q.lane[s] : q.lane[s][p].slot # id.slot
  BY <1>1 DEF QueueOK
<1>7. \A s \in Resource : \A p \in DOMAIN w.lane[s] : w.credit[w.lane[s][p].slot] = "held"
  <2> SUFFICES ASSUME NEW s \in Resource, NEW p \in DOMAIN w.lane[s]
               PROVE  w.credit[w.lane[s][p].slot] = "held"
    OBVIOUS
  <2>1. CASE w.lane[s][p] = id
    BY <2>1, <1>1, <1>2
  <2>2. CASE p \in DOMAIN q.lane[s] /\ w.lane[s][p] = q.lane[s][p]
    <3>1. q.credit[q.lane[s][p].slot] = "held"
      BY <2>2 DEF QueueOK
    <3> QED
      BY <3>1, <2>2, <1>1, <1>2
  <2> QED
    BY <2>1, <2>2, <1>5
<1>8. \A s, u \in Resource : \A p \in DOMAIN w.lane[s], n \in DOMAIN w.lane[u] :
        w.lane[s][p].slot = w.lane[u][n].slot => s = u /\ p = n
  BY <1>5, <1>6 DEF QueueOK
<1>9. \A c \in Conn : w.credit[c] = "held" =>
        \E s \in Resource : \E p \in DOMAIN w.lane[s] : w.lane[s][p].slot = c
  <2> SUFFICES ASSUME NEW c \in Conn, w.credit[c] = "held"
               PROVE  \E s \in Resource : \E p \in DOMAIN w.lane[s] : w.lane[s][p].slot = c
    OBVIOUS
  <2>1. CASE c = id.slot
    BY <2>1, <1>3
  <2>2. CASE c # id.slot
    <3>1. PICK s \in Resource : \E p \in DOMAIN q.lane[s] : q.lane[s][p].slot = c
      BY <2>2, <1>1, <1>2 DEF QueueOK
    <3> QED
      BY <3>1, <1>3, <1>4
  <2> QED
    BY <2>1, <2>2
<1>10. \A t \in Target : Queued(w, t) <=> Queued(q, t) \/ t = id
  BY <1>3, <1>4, <1>5 DEF Queued
<1> QED
  BY <1>2, <1>7, <1>8, <1>9, <1>10 DEF QueueOK

\* RemoveFirst deletes the only occurrence of e and shifts what follows it.
LEMMA RemoveFirstOnly ==
    ASSUME NEW T, NEW s \in Seq(T), NEW e, NEW p \in DOMAIN s, s[p] = e,
           \A i \in DOMAIN s : s[i] = e => i = p
    PROVE  /\ RemoveFirst(s, e) \in Seq(T)
           /\ Len(RemoveFirst(s, e)) = Len(s) - 1
           /\ \A i \in 1..Len(s) - 1 :
                RemoveFirst(s, e)[i] = IF i < p THEN s[i] ELSE s[i + 1]
<1>1. DOMAIN s = 1..Len(s) /\ Len(s) \in Nat
  OBVIOUS
<1>2. {i \in 1..Len(s) : s[i] = e} = {p}
  BY <1>1
<1>3. Min({p}) = p
  BY <1>1 DEF Min
<1>4. SelectInSeq(s, LAMBDA v : v = e) = p
  BY <1>2, <1>3 DEF SelectInSeq
<1>5. RemoveFirst(s, e) = SubSeq(s, 1, p - 1) \o SubSeq(s, p + 1, Len(s))
  BY <1>1, <1>4 DEF RemoveFirst, RemoveAt
<1> DEFINE a == SubSeq(s, 1, p - 1)
           b == SubSeq(s, p + 1, Len(s))
           ab == a \o b
<1>6. /\ a \in Seq(T) /\ Len(a) = p - 1
      /\ \A i \in 1..p - 1 : a[i] = s[i]
  BY <1>1, SMTT(60)
<1>7. /\ b \in Seq(T) /\ Len(b) = Len(s) - p
      /\ \A i \in 1..Len(s) - p : b[i] = s[p + i]
  BY <1>1, SMTT(60)
<1> HIDE DEF a, b
<1>8. /\ ab \in Seq(T)
      /\ Len(ab) = Len(a) + Len(b)
      /\ \A i \in 1..Len(a) + Len(b) : ab[i] = IF i <= Len(a) THEN a[i] ELSE b[i - Len(a)]
  <2>1. a \in Seq(T) /\ b \in Seq(T) BY <1>6, <1>7
  <2> QED BY <2>1, ConcatProperties, ZenonT(60)
<1>a. RemoveFirst(s, e) = ab BY <1>5 DEF a, b
<1> HIDE DEF ab
<1>b. p \in 1..Len(s) BY <1>1
<1>9. Len(a) + Len(b) = Len(s) - 1
  BY <1>b, <1>1, <1>6, <1>7
<1>10. ASSUME NEW i \in 1..Len(s) - 1
       PROVE  ab[i] = IF i < p THEN s[i] ELSE s[i + 1]
  <2>0. i \in 1..Len(a) + Len(b) BY <1>9
  <2>1. CASE i < p
    <3>1. i <= Len(a) /\ i \in 1..p - 1 BY <1>1, <1>b, <1>6, <2>1
    <3>2. ab[i] = a[i] /\ a[i] = s[i] BY <2>0, <3>1, <1>6, <1>8
    <3> QED BY <3>2, <2>1
  <2>2. CASE ~(i < p)
    <3>1. ~(i <= Len(a)) /\ i - Len(a) \in 1..Len(s) - p /\ p + (i - Len(a)) = i + 1
      BY <1>1, <1>b, <1>6, <2>2
    <3>2. ab[i] = b[i - Len(a)] BY <2>0, <3>1, <1>8
    <3>3. b[i - Len(a)] = s[p + (i - Len(a))] BY <1>7, <3>1
    <3> QED BY <3>1, <3>2, <3>3, <2>2
  <2> QED BY <2>1, <2>2
<1> QED BY <1>a, <1>8, <1>9, <1>10

\* What cancelling does to the lane that has the entry, as number p: what follows
\* moves up.
Removed(q, id, r, p, w) ==
    /\ q.lane[r][p] = id
    /\ w \in QueueType
    /\ w.credit = [q.credit EXCEPT ![id.slot] = "idle"]
    /\ \A s \in Resource : s # r => w.lane[s] = q.lane[s]
    /\ DOMAIN q.lane[r] = 1..Len(q.lane[r]) /\ Len(q.lane[r]) \in Nat
    /\ DOMAIN w.lane[r] = 1..Len(q.lane[r]) - 1
    /\ \A i \in 1..Len(q.lane[r]) - 1 :
          w.lane[r][i] = IF i < p THEN q.lane[r][i] ELSE q.lane[r][i + 1]

LEMMA CancelLane ==
    ASSUME NEW q, QueueOK(q), NEW id \in Target, Queued(q, id)
    PROVE  \E r \in Resource : \E p \in DOMAIN q.lane[r] : Removed(q, id, r, p, Cancel(q, id))
<1> DEFINE w == Cancel(q, id)
<1>1. /\ q \in QueueType
      /\ q.lane \in [Resource -> Seq(Target)]
      /\ q.credit \in [Conn -> Credit]
  BY DEF QueueType, QueueOK
<1>2. PICK r \in Resource : \E p \in DOMAIN q.lane[r] : q.lane[r][p] = id
  BY DEF Queued
<1>3. PICK p \in DOMAIN q.lane[r] : q.lane[r][p] = id
  BY <1>2
<1>4. /\ w.lane = [s \in Resource |-> RemoveFirst(q.lane[s], id)]
      /\ w.credit = [q.credit EXCEPT ![id.slot] = "idle"]
  BY DEF Cancel
<1>5. \A s \in Resource : \A i \in DOMAIN q.lane[s] :
        q.lane[s][i].slot = id.slot => s = r /\ i = p
  BY <1>3 DEF QueueOK
<1>6. /\ RemoveFirst(q.lane[r], id) \in Seq(Target)
      /\ Len(RemoveFirst(q.lane[r], id)) = Len(q.lane[r]) - 1
      /\ \A i \in 1..Len(q.lane[r]) - 1 :
            RemoveFirst(q.lane[r], id)[i] = IF i < p THEN q.lane[r][i] ELSE q.lane[r][i + 1]
  <2> DEFINE l == q.lane[r]
  <2>1. l \in Seq(Target) /\ p \in DOMAIN l /\ l[p] = id
    BY <1>1, <1>3
  <2>2. \A i \in DOMAIN l : l[i] = id => i = p
    BY <1>5
  <2> HIDE DEF l
  <2>3. /\ RemoveFirst(l, id) \in Seq(Target)
        /\ Len(RemoveFirst(l, id)) = Len(l) - 1
        /\ \A i \in 1..Len(l) - 1 :
              RemoveFirst(l, id)[i] = IF i < p THEN l[i] ELSE l[i + 1]
    BY <2>1, <2>2, RemoveFirstOnly
  <2> QED
    BY <2>3 DEF l
<1>7. \A s \in Resource : s # r => RemoveFirst(q.lane[s], id) = q.lane[s]
  <2> SUFFICES ASSUME NEW s \in Resource, s # r
               PROVE  RemoveFirst(q.lane[s], id) = q.lane[s]
    OBVIOUS
  <2>1. ~\E i \in 1..Len(q.lane[s]) : q.lane[s][i] = id
    BY <1>1, <1>5
  <2> QED
    BY <2>1 DEF RemoveFirst
<1>8. w \in QueueType
  <2>1. id.slot \in Conn
    BY DEF Target
  <2>2. [s \in Resource |-> RemoveFirst(q.lane[s], id)] \in [Resource -> Seq(Target)]
    BY <1>1, <1>6, <1>7
  <2>3. [q.credit EXCEPT ![id.slot] = "idle"] \in [Conn -> Credit]
    BY <1>1, <2>1 DEF Credit
  <2> QED
    BY <2>2, <2>3 DEF Cancel, QueueType
<1>9. /\ DOMAIN q.lane[r] = 1..Len(q.lane[r]) /\ Len(q.lane[r]) \in Nat
      /\ DOMAIN w.lane[r] = 1..Len(q.lane[r]) - 1
      /\ \A i \in 1..Len(q.lane[r]) - 1 :
            w.lane[r][i] = IF i < p THEN q.lane[r][i] ELSE q.lane[r][i + 1]
  <2>1. w.lane[r] = RemoveFirst(q.lane[r], id)
    BY <1>4
  <2>2. q.lane[r] \in Seq(Target)
    BY <1>1
  <2> HIDE DEF w
  <2> QED
    BY <2>1, <2>2, <1>6
<1>10. \A s \in Resource : s # r => w.lane[s] = q.lane[s]
  BY <1>4, <1>7
<1> HIDE DEF w
<1> QED
  BY <1>3, <1>4, <1>8, <1>9, <1>10 DEF Removed, w

\* Cancelling removes exactly the entry that names id, if there is one.
LEMMA CancelOK ==
    ASSUME NEW q, QueueOK(q), NEW id \in Target
    PROVE  /\ QueueOK(Cancel(q, id))
           /\ \A t \in Target : Queued(Cancel(q, id), t) <=> Queued(q, t) /\ t # id
           /\ Cancel(q, id).credit =
                IF Queued(q, id) THEN [q.credit EXCEPT ![id.slot] = "idle"] ELSE q.credit
<1>1. CASE ~Queued(q, id)
  BY <1>1 DEF Cancel
<1>2. CASE Queued(q, id)
  <2> DEFINE w == Cancel(q, id)
  <2>1. /\ q \in QueueType
        /\ q.lane \in [Resource -> Seq(Target)]
        /\ q.credit \in [Conn -> Credit]
    BY DEF QueueType, QueueOK
  <2>2. PICK r \in Resource : \E p \in DOMAIN q.lane[r] : Removed(q, id, r, p, w)
    BY <1>2, CancelLane
  <2>3. PICK p \in DOMAIN q.lane[r] : Removed(q, id, r, p, w)
    BY <2>2
  <2> HIDE DEF w
  <2>0. /\ q.lane[r][p] = id
        /\ w \in QueueType
        /\ w.credit = [q.credit EXCEPT ![id.slot] = "idle"]
        /\ \A s \in Resource : s # r => w.lane[s] = q.lane[s]
        /\ DOMAIN q.lane[r] = 1..Len(q.lane[r]) /\ Len(q.lane[r]) \in Nat
        /\ DOMAIN w.lane[r] = 1..Len(q.lane[r]) - 1
        /\ \A i \in 1..Len(q.lane[r]) - 1 :
              w.lane[r][i] = IF i < p THEN q.lane[r][i] ELSE q.lane[r][i + 1]
    BY <2>3 DEF Removed
  <2> HIDE DEF w
  <2>5. \A s \in Resource : \A i \in DOMAIN q.lane[s] :
          q.lane[s][i].slot = id.slot => s = r /\ i = p
    BY <2>0 DEF QueueOK
  <2>9. \A s \in Resource : \A i \in DOMAIN w.lane[s] :
          LET n == IF s = r /\ i >= p THEN i + 1 ELSE i
          IN n \in DOMAIN q.lane[s] /\ w.lane[s][i] = q.lane[s][n] /\ i \in Nat
             /\ ~(s = r /\ n = p)
    <3> SUFFICES ASSUME NEW s \in Resource, NEW i \in DOMAIN w.lane[s]
                 PROVE  LET n == IF s = r /\ i >= p THEN i + 1 ELSE i
                        IN n \in DOMAIN q.lane[s] /\ w.lane[s][i] = q.lane[s][n] /\ i \in Nat
                           /\ ~(s = r /\ n = p)
      OBVIOUS
    <3>1. CASE s = r
      BY <3>1, <2>0
    <3>2. CASE s # r
      BY <3>2, <2>1, <2>0
    <3> QED
      BY <3>1, <3>2
  <2>10. \A s \in Resource : \A n \in DOMAIN q.lane[s] :
          q.lane[s][n] # id => \E i \in DOMAIN w.lane[s] : w.lane[s][i] = q.lane[s][n]
    <3> SUFFICES ASSUME NEW s \in Resource, NEW n \in DOMAIN q.lane[s], q.lane[s][n] # id
                 PROVE  \E i \in DOMAIN w.lane[s] : w.lane[s][i] = q.lane[s][n]
      OBVIOUS
    <3>1. CASE s # r
      BY <3>1, <2>0
    <3>2. CASE s = r
      <4> DEFINE i == IF n < p THEN n ELSE n - 1
      <4>1. n # p /\ n \in 1..Len(q.lane[r]) /\ p \in 1..Len(q.lane[r])
        BY <3>2, <2>1, <2>0
      <4>2. i \in 1..Len(q.lane[r]) - 1 /\ (i < p => i = n) /\ (~(i < p) => i + 1 = n)
        BY <4>1
      <4>3. i \in DOMAIN w.lane[r] /\ w.lane[r][i] = q.lane[r][n]
        <5>2. DOMAIN w.lane[r] = 1..Len(q.lane[r]) - 1
          BY <2>0
        <5>3. w.lane[r][i] = IF i < p THEN q.lane[r][i] ELSE q.lane[r][i + 1]
          BY <4>2, <2>0
        <5> QED
          BY <4>2, <5>2, <5>3
      <4> QED
        BY <4>3, <3>2
    <3> QED
      BY <3>1, <3>2
  <2>11. \A s \in Resource : \A i \in DOMAIN w.lane[s] :
           w.lane[s][i].slot # id.slot /\ w.credit[w.lane[s][i].slot] = "held"
    <3> SUFFICES ASSUME NEW s \in Resource, NEW i \in DOMAIN w.lane[s]
                 PROVE  w.lane[s][i].slot # id.slot /\ w.credit[w.lane[s][i].slot] = "held"
      OBVIOUS
    <3>1. PICK n \in DOMAIN q.lane[s] : w.lane[s][i] = q.lane[s][n] /\ ~(s = r /\ n = p)
      BY <2>9
    <3>2. q.lane[s][n] \in Target /\ q.credit[q.lane[s][n].slot] = "held"
      BY <3>1, <2>1 DEF QueueOK
    <3>3. q.lane[s][n].slot # id.slot /\ q.lane[s][n].slot \in Conn
      BY <3>1, <3>2, <2>5 DEF Target
    <3> QED
      BY <3>1, <3>2, <3>3, <2>1, <2>0
  <2>12. \A s, u \in Resource : \A i \in DOMAIN w.lane[s], j \in DOMAIN w.lane[u] :
           w.lane[s][i].slot = w.lane[u][j].slot => s = u /\ i = j
    <3> SUFFICES ASSUME NEW s \in Resource, NEW u \in Resource,
                        NEW i \in DOMAIN w.lane[s], NEW j \in DOMAIN w.lane[u],
                        w.lane[s][i].slot = w.lane[u][j].slot
                 PROVE  s = u /\ i = j
      OBVIOUS
    <3> DEFINE n == IF s = r /\ i >= p THEN i + 1 ELSE i
               m == IF u = r /\ j >= p THEN j + 1 ELSE j
    <3>1. /\ n \in DOMAIN q.lane[s] /\ w.lane[s][i] = q.lane[s][n] /\ i \in Nat
          /\ m \in DOMAIN q.lane[u] /\ w.lane[u][j] = q.lane[u][m] /\ j \in Nat
          /\ p \in Nat
      BY <2>9, <2>1, <2>0
    <3>2. s = u /\ n = m
      BY <3>1 DEF QueueOK
    <3> QED
      BY <3>1, <3>2
  <2>13. \A c \in Conn : w.credit[c] = "held" =>
           \E s \in Resource : \E i \in DOMAIN w.lane[s] : w.lane[s][i].slot = c
    <3> SUFFICES ASSUME NEW c \in Conn, w.credit[c] = "held"
                 PROVE  \E s \in Resource : \E i \in DOMAIN w.lane[s] : w.lane[s][i].slot = c
      OBVIOUS
    <3>1. c # id.slot /\ q.credit[c] = "held"
      BY <2>1, <2>0
    <3>2. PICK s \in Resource : \E n \in DOMAIN q.lane[s] : q.lane[s][n].slot = c
      BY <3>1 DEF QueueOK
    <3>3. PICK n \in DOMAIN q.lane[s] : q.lane[s][n].slot = c
      BY <3>2
    <3> QED
      BY <3>1, <3>3, <2>10
  <2>14. \A t \in Target : Queued(w, t) <=> Queued(q, t) /\ t # id
    <3> TAKE t \in Target
    <3>1. ASSUME Queued(w, t) PROVE Queued(q, t) /\ t # id
      BY <3>1, <2>9, <2>11 DEF Queued
    <3>2. ASSUME Queued(q, t), t # id PROVE Queued(w, t)
      BY <3>2, <2>10 DEF Queued
    <3> QED
      BY <3>1, <3>2
  <2>15. QueueOK(w)
    BY <2>0, <2>11, <2>12, <2>13 DEF QueueOK
  <2> QED
    BY <1>2, <2>0, <2>14, <2>15 DEF w
<1> QED
  BY <1>1, <1>2

\* Taking a credit that is not held disturbs no lane.
LEMMA TakenOK ==
    ASSUME NEW q, QueueOK(q), NEW c \in Conn, q.credit[c] # "held"
    PROVE  /\ QueueOK(Taken(q, c))
           /\ \A t \in Target : Queued(Taken(q, c), t) <=> Queued(q, t)
           /\ Taken(q, c).credit = [q.credit EXCEPT ![c] = "idle"]
<1>1. /\ q \in QueueType
      /\ q.credit \in [Conn -> Credit]
  BY DEF QueueType, QueueOK
<1>2. /\ Taken(q, c).lane = q.lane
      /\ Taken(q, c).credit = [q.credit EXCEPT ![c] = "idle"]
      /\ Taken(q, c) \in QueueType
  BY <1>1 DEF Taken, QueueType, Credit
<1> QED
  BY <1>1, <1>2 DEF QueueOK, Queued

\* Delivering input to a credit that is idle makes it ready and disturbs no lane.
LEMMA MadeReadyOK ==
    ASSUME NEW q, QueueOK(q), NEW c \in Conn, q.credit[c] # "held"
    PROVE  LET w == [q EXCEPT !.credit[c] = "ready"]
           IN /\ QueueOK(w)
              /\ \A t \in Target : Queued(w, t) <=> Queued(q, t)
              /\ w.credit = [q.credit EXCEPT ![c] = "ready"]
<1> DEFINE w == [q EXCEPT !.credit[c] = "ready"]
<1>1. /\ q \in QueueType
      /\ q.credit \in [Conn -> Credit]
  BY DEF QueueType, QueueOK
<1>2. /\ w.lane = q.lane
      /\ w.credit = [q.credit EXCEPT ![c] = "ready"]
      /\ w \in QueueType
  BY <1>1 DEF QueueType, Credit
<1> QED
  BY <1>1, <1>2 DEF QueueOK, Queued

\* Who is in a lane has a held credit, and who has a held credit is in a lane.
LEMMA HeldIffQueued ==
    ASSUME NEW q, QueueOK(q)
    PROVE  /\ \A t \in Target : Queued(q, t) => q.credit[t.slot] = "held"
           /\ \A c \in Conn : q.credit[c] = "held" =>
                 \E t \in Target : t.slot = c /\ Queued(q, t)
<1>1. q.lane \in [Resource -> Seq(Target)]
  BY DEF QueueOK, QueueType
<1>2. \A t \in Target : Queued(q, t) => q.credit[t.slot] = "held"
  BY DEF Queued, QueueOK
<1>3. ASSUME NEW c \in Conn, q.credit[c] = "held"
      PROVE  \E t \in Target : t.slot = c /\ Queued(q, t)
  <2>1. PICK r \in Resource : \E p \in DOMAIN q.lane[r] : q.lane[r][p].slot = c
    BY <1>3 DEF QueueOK
  <2>2. PICK p \in DOMAIN q.lane[r] : q.lane[r][p].slot = c
    BY <2>1
  <2>3. q.lane[r][p] \in Target
    BY <1>1
  <2>4. Queued(q, q.lane[r][p])
    BY DEF Queued
  <2> QED
    BY <2>2, <2>3, <2>4
<1> QED
  BY <1>2, <1>3

-----------------------------------------------------------------------------
(* The inductive invariant *)

EntryOK(x) ==
    /\ x.held <=> x.cipher > 0
    /\ x.inflight => x.held
    /\ x.phase = "vacant" => x = VacantEntry(x.epoch)

Entries == conn \in [Conn -> Connection] /\ \A c \in Conn : EntryOK(conn[c])

PendingOK ==
    /\ role \in 0..MaxRole
    /\ pending \in {NoOpening} \cup Opening
    /\ pending.cached =>
        /\ pending.held <=> pending.cipher > 0
        /\ pending.held = SendOnOpen
        /\ pending.policy = role

RecvPool ==
    /\ recvFree \in 0..RecvSlots /\ retained \in 0..RecvSlots
    /\ grown \in WarmSlots..RecvSlots
    /\ recvFree + retained = RecvSlots
    /\ RecvSlots - recvFree <= grown

SendPool ==
    /\ sendFree \in 0..SendSlots
    /\ sendFree + Cardinality(SendHolders) + Cached(pending.cached /\ SendOnOpen) = SendSlots

Leases ==
    /\ sessions \in 0..Sessions
    /\ sessions + Cardinality({c \in Conn : Admitted(c)}) + Cached(pending.cached) = Sessions

Pools == Entries /\ PendingOK /\ RecvPool /\ SendPool /\ Leases

\* A lane names the connections in the table only; a delivered input has a
\* credit that is not idle until its connection fails, and only a delivered
\* input has one; an id whose cancel may come again is older than what its table
\* entry holds.
Lanes ==
    /\ QueueOK(queue)
    /\ \A t \in Target : Queued(queue, t) =>
          t = IdOf(t.slot) /\ Admitted(t.slot)
    /\ \A c \in Conn : conn[c].input /\ ~conn[c].failed => queue.credit[c] # "idle"
    /\ \A c \in Conn : queue.credit[c] # "idle" => conn[c].input
    /\ stale \subseteq Target
    /\ \A t \in stale : t.epoch < conn[t.slot].epoch

IInv == Pools /\ Lanes

-----------------------------------------------------------------------------
(* Counting owners *)

\* Adding or removing one member changes a cardinality by one.
LEMMA CountOne ==
    ASSUME NEW S \in SUBSET Conn, NEW T \in SUBSET Conn, NEW c \in Conn,
           T \ {c} = S \ {c}
    PROVE  /\ Cardinality(S) \in Nat /\ Cardinality(T) \in Nat
           /\ Cardinality(T) + Cached(c \in S) = Cardinality(S) + Cached(c \in T)
<1>1. IsFiniteSet(S) /\ IsFiniteSet(T)
  BY ConnAssumption, FS_Subset
<1>2. Cardinality(S) \in Nat /\ Cardinality(T) \in Nat
  BY <1>1, FS_CardinalityType
<1>3. Cardinality(S \ {c}) = IF c \in S THEN Cardinality(S) - 1 ELSE Cardinality(S)
  BY <1>1, FS_RemoveElement
<1>4. Cardinality(T \ {c}) = IF c \in T THEN Cardinality(T) - 1 ELSE Cardinality(T)
  BY <1>1, FS_RemoveElement
<1> QED
  BY <1>2, <1>3, <1>4 DEF Cached

\* When one entry becomes x, the pools stay balanced if what x gained or lost
\* was taken from or given to the free slots and leases.
LEMMA EntryStep ==
    ASSUME Entries, SendPool, Leases, NEW c \in Conn, NEW x \in Connection, EntryOK(x),
           NEW free \in Nat, NEW leases \in Nat, NEW kept \in BOOLEAN,
           conn' = [conn EXCEPT ![c] = x],
           sendFree' = free, sessions' = leases, pending'.cached = kept,
           free + Cached(x.held) + Cached(kept /\ SendOnOpen)
             = sendFree + Cached(conn[c].held) + Cached(pending.cached /\ SendOnOpen),
           leases + Cached(x.phase # "vacant") + Cached(kept)
             = sessions + Cached(conn[c].phase # "vacant") + Cached(pending.cached)
    PROVE  (Entries /\ SendPool /\ Leases)'
<1>1. /\ conn' \in [Conn -> Connection] /\ conn'[c] = x
      /\ \A d \in Conn \ {c} : conn'[d] = conn[d]
  BY DEF Entries
<1>2. Entries'
  BY <1>1 DEF Entries
<1>3. /\ Cardinality(SendHolders) \in Nat /\ Cardinality(SendHolders') \in Nat
      /\ Cardinality(SendHolders') + Cached(conn[c].held)
           = Cardinality(SendHolders) + Cached(x.held)
  <2> DEFINE S == SendHolders
             T == SendHolders'
  <2>1. S \in SUBSET Conn /\ T \in SUBSET Conn /\ T \ {c} = S \ {c}
    BY <1>1 DEF SendHolders
  <2>2. (c \in S <=> conn[c].held) /\ (c \in T <=> x.held)
    BY <1>1 DEF SendHolders
  <2> HIDE DEF S, T
  <2>3. /\ Cardinality(S) \in Nat /\ Cardinality(T) \in Nat
        /\ Cardinality(T) + Cached(c \in S) = Cardinality(S) + Cached(c \in T)
    BY <2>1, CountOne
  <2>4. Cardinality(T) + Cached(conn[c].held) = Cardinality(S) + Cached(x.held)
    BY <2>2, <2>3 DEF Cached
  <2> QED
    BY <2>3, <2>4 DEF S, T
<1>4. SendPool'
  <2> DEFINE k == Cached(pending.cached /\ SendOnOpen)
             kx == Cached(kept /\ SendOnOpen)
             h == Cached(conn[c].held)
             hx == Cached(x.held)
  <2>1. k \in 0..1 /\ kx \in 0..1 /\ h \in 0..1 /\ hx \in 0..1
    BY DEF Cached
  <2>2. /\ Cardinality(SendHolders') + h = Cardinality(SendHolders) + hx
        /\ sendFree \in Nat /\ SendSlots \in Nat
        /\ sendFree + Cardinality(SendHolders) + k = SendSlots
        /\ free + hx + kx = sendFree + h + k
    BY <1>3, SlotsAssumption DEF SendPool
  <2> HIDE DEF k, kx, h, hx
  <2>3. free + Cardinality(SendHolders') + kx = SendSlots /\ free \in 0..SendSlots
    BY <1>3, <2>1, <2>2
  <2> QED
    BY <2>3 DEF SendPool, kx
<1>5. /\ Cardinality({d \in Conn : Admitted(d)}) \in Nat
      /\ Cardinality({d \in Conn : Admitted(d)}') \in Nat
      /\ Cardinality({d \in Conn : Admitted(d)}') + Cached(conn[c].phase # "vacant")
           = Cardinality({d \in Conn : Admitted(d)}) + Cached(x.phase # "vacant")
  <2> DEFINE S == {d \in Conn : Admitted(d)}
             T == {d \in Conn : Admitted(d)}'
  <2>1. S \in SUBSET Conn /\ T \in SUBSET Conn /\ T \ {c} = S \ {c}
    BY <1>1 DEF Admitted
  <2>2. (c \in S <=> conn[c].phase # "vacant") /\ (c \in T <=> x.phase # "vacant")
    BY <1>1 DEF Admitted
  <2> HIDE DEF S, T
  <2>3. /\ Cardinality(S) \in Nat /\ Cardinality(T) \in Nat
        /\ Cardinality(T) + Cached(c \in S) = Cardinality(S) + Cached(c \in T)
    BY <2>1, CountOne
  <2>4. Cardinality(T) + Cached(conn[c].phase # "vacant")
          = Cardinality(S) + Cached(x.phase # "vacant")
    BY <2>2, <2>3 DEF Cached
  <2> QED
    BY <2>3, <2>4 DEF S, T
<1>6. Leases'
  <2> DEFINE k == Cached(pending.cached)
             kx == Cached(kept)
             h == Cached(conn[c].phase # "vacant")
             hx == Cached(x.phase # "vacant")
             n == Cardinality({d \in Conn : Admitted(d)})
             nx == Cardinality({d \in Conn : conn'[d].phase # "vacant"})
  <2>1. k \in 0..1 /\ kx \in 0..1 /\ h \in 0..1 /\ hx \in 0..1
    BY DEF Cached
  <2>2. /\ n \in Nat /\ nx \in Nat /\ nx + h = n + hx
        /\ sessions \in Nat /\ Sessions \in Nat
        /\ sessions + n + k = Sessions
        /\ leases + hx + kx = sessions + h + k
    BY <1>5, SlotsAssumption DEF Leases, Admitted
  <2> HIDE DEF k, kx, h, hx, n, nx
  <2>3. leases + nx + kx = Sessions /\ leases \in 0..Sessions
    BY <2>1, <2>2
  <2> QED
    BY <2>3 DEF Leases, Admitted, kx, nx
<1> QED
  BY <1>2, <1>4, <1>6

\* Moving native output into the cursor changes the two counts and nothing else.
LEMMA DrainedOK ==
    ASSUME NEW x \in Connection
    PROVE  /\ Drained(x) \in Connection
           /\ Drained(x).cipher >= x.cipher
           /\ Drained(x).phase = x.phase /\ Drained(x).epoch = x.epoch
           /\ Drained(x).policy = x.policy /\ Drained(x).failed = x.failed
           /\ Drained(x).held = x.held /\ Drained(x).input = x.input
           /\ Drained(x).inflight = x.inflight
<1> DEFINE n == Less(CursorCap - x.cipher, x.native)
<1>1. /\ x.cipher \in 0..CursorCap /\ x.native \in 0..MaxNative
      /\ CursorCap \in Nat /\ MaxNative \in Nat
  BY BoundsAssumption DEF Connection
<1>2. n \in Nat /\ x.cipher + n \in 0..CursorCap /\ x.native - n \in 0..MaxNative
  BY <1>1 DEF Less
<1> DEFINE a == x.cipher + n
           b == x.native - n
<1>3. Drained(x) = [x EXCEPT !.cipher = a, !.native = b]
  BY DEF Drained, Connection
<1>4. a \in 0..CursorCap /\ b \in 0..MaxNative /\ a >= x.cipher
  BY <1>1, <1>2
<1> HIDE DEF n, a, b
<1> QED
  BY <1>1, <1>3, <1>4 DEF Connection

\* A failure while output moves changes nothing else.
LEMMA BrokenOK ==
    ASSUME NEW x \in Connection
    PROVE  /\ Broken(x) \in Connection /\ Broken(x).failed = TRUE
           /\ Broken(x).phase = x.phase /\ Broken(x).epoch = x.epoch
           /\ Broken(x).held = x.held /\ Broken(x).cipher = x.cipher
           /\ Broken(x).input = x.input /\ Broken(x).inflight = x.inflight
BY DEF Broken, Connection

\* Returning an empty cursor leaves an owner with ciphertext in what it owns,
\* and the free count changes by exactly what the owner gave up.
LEMMA FreeEmptyOK ==
    ASSUME NEW y \in Connection, y.held
    PROVE  /\ FreeEmpty(y) \in Connection
           /\ FreeEmpty(y).held <=> FreeEmpty(y).cipher > 0
           /\ FreeEmpty(y).phase = y.phase /\ FreeEmpty(y).epoch = y.epoch
           /\ FreeEmpty(y).failed = y.failed /\ FreeEmpty(y).input = y.input
           /\ FreeEmpty(y).inflight = y.inflight
           /\ \A free \in Nat : /\ Returned(free, y) \in Nat
                                /\ Returned(free, y) + Cached(FreeEmpty(y).held) = free + 1
<1>1. y.cipher \in Nat
  BY BoundsAssumption DEF Connection
<1>2. CASE y.cipher = 0
  <2>1. FreeEmpty(y) = [y EXCEPT !.held = FALSE]
    BY <1>2 DEF FreeEmpty, Emptied
  <2>2. FreeEmpty(y) \in Connection /\ ~FreeEmpty(y).held /\ FreeEmpty(y).cipher = 0
    BY <2>1, <1>2 DEF Connection
  <2> QED
    BY <2>1, <2>2, <1>2 DEF Connection, Returned, Emptied, Cached
<1>3. CASE y.cipher > 0
  BY <1>1, <1>3 DEF FreeEmpty, Returned, Emptied, Cached
<1> QED
  BY <1>1, <1>2, <1>3

\* A loan ends with the cursor returned if it is empty: the free count and the
\* owner change together.
LEMMA LoanOK ==
    ASSUME Entries, SendPool, NEW c \in Conn, CanBuffer(conn[c]),
           NEW y \in Connection, y.held
    PROVE  /\ Returned(Borrowed(conn[c]), y) \in Nat
           /\ Returned(Borrowed(conn[c]), y) + Cached(FreeEmpty(y).held)
                = sendFree + Cached(conn[c].held)
<1>1. sendFree \in Nat
  BY SlotsAssumption DEF SendPool
<1>2. Borrowed(conn[c]) \in Nat /\ Borrowed(conn[c]) + 1 = sendFree + Cached(conn[c].held)
  BY <1>1 DEF Borrowed, CanBuffer, Cached
<1> QED
  BY <1>2, FreeEmptyOK

\* A receive that reserved its slot, and published (keep) or dropped it.
LEMMA RecvStep ==
    ASSUME RecvPool, recvFree > 0, NEW keep \in BOOLEAN, grown' = GrownBy,
           recvFree' = (IF keep THEN recvFree - 1 ELSE (recvFree - 1) + 1),
           retained' = (IF keep THEN retained + 1 ELSE retained)
    PROVE  RecvPool'
<1>1. /\ recvFree \in Nat /\ retained \in Nat /\ grown \in Nat /\ WarmSlots \in Nat
      /\ RecvSlots \in Nat /\ grown <= RecvSlots /\ grown >= WarmSlots
      /\ recvFree + retained = RecvSlots /\ RecvSlots - recvFree <= grown
  BY SlotsAssumption DEF RecvPool
<1>2. /\ GrownBy \in Nat /\ GrownBy >= grown /\ GrownBy <= RecvSlots
      /\ RecvSlots - recvFree + 1 <= GrownBy
  BY <1>1 DEF GrownBy, MustGrow
<1>3. CASE keep
  BY <1>1, <1>2, <1>3 DEF RecvPool
<1>4. CASE ~keep
  <2>1. recvFree' = recvFree /\ retained' = retained
    BY <1>1, <1>4
  <2> QED
    BY <1>1, <1>2, <2>1 DEF RecvPool
<1> QED
  BY <1>3, <1>4

\* A step on one entry that leaves the cached opening and the leases alone.
LEMMA SendStep ==
    ASSUME Pools, NEW c \in Conn, NEW x \in Connection, EntryOK(x),
           x.phase # "vacant", Admitted(c),
           NEW free \in Nat, free + Cached(x.held) = sendFree + Cached(conn[c].held),
           conn' = [conn EXCEPT ![c] = x], sendFree' = free,
           UNCHANGED <<sessions, pending>>
    PROVE  (Entries /\ SendPool /\ Leases)'
<1>1. sendFree \in Nat /\ sessions \in Nat /\ pending.cached \in BOOLEAN
  <2>1. sendFree \in Nat /\ sessions \in Nat
    BY SlotsAssumption DEF Pools, SendPool, Leases
  <2>2. pending.cached \in BOOLEAN
    <3>1. CASE pending = NoOpening
      BY <3>1 DEF NoOpening
    <3>2. CASE pending \in Opening
      BY <3>2 DEF Opening
    <3> QED
      BY <3>1, <3>2 DEF Pools, PendingOK
  <2> QED
    BY <2>1, <2>2
<1> DEFINE hx == Cached(x.held)
           h == Cached(conn[c].held)
           k == Cached(pending.cached /\ SendOnOpen)
<1>2. hx \in 0..1 /\ h \in 0..1 /\ k \in 0..1 /\ free + hx = sendFree + h
  BY DEF Cached
<1> HIDE DEF hx, h, k
<1>3. free + hx + k = sendFree + h + k
  BY <1>1, <1>2
<1>4. sessions + Cached(x.phase # "vacant") + Cached(pending.cached)
        = sessions + Cached(conn[c].phase # "vacant") + Cached(pending.cached)
  BY DEF Admitted, Cached
<1>5. pending'.cached = pending.cached /\ sessions' = sessions
  OBVIOUS
<1> QED
  BY <1>1, <1>3, <1>4, <1>5, EntryStep DEF Pools, h, hx, k

\* A table entry without a connection is a well-formed entry.
LEMMA VacantOK ==
    ASSUME NEW e \in Epoch
    PROVE  VacantEntry(e) \in Connection /\ EntryOK(VacantEntry(e))
BY BoundsAssumption DEF VacantEntry, Connection, EntryOK

-----------------------------------------------------------------------------
(* Slots and leases, action by action *)

\* An opening, fresh or cached, takes exactly the lease and the slot it records.
LEMMA PoolsOpen ==
    ASSUME Pools, NEW c \in Conn, OpenFresh(c) \/ OpenCached(c)
    PROVE  Pools'
<1>1. /\ conn \in [Conn -> Connection] /\ conn[c] \in Connection /\ EntryOK(conn[c])
      /\ sendFree \in Nat /\ sessions \in Nat
      /\ conn[c].phase = "vacant" /\ conn[c] = VacantEntry(conn[c].epoch)
      /\ ~conn[c].held
      /\ conn[c].epoch \in Epoch /\ 1 \in 0..CursorCap /\ SendOnOpen \in BOOLEAN
  <2>1. conn[c] \in Connection /\ EntryOK(conn[c]) /\ conn[c].phase = "vacant"
    BY DEF Pools, Entries, OpenFresh, OpenCached
  <2>2. conn[c] = VacantEntry(conn[c].epoch)
    BY <2>1 DEF EntryOK
  <2>3. ~conn[c].held
    BY <2>2 DEF VacantEntry
  <2> QED
    BY <2>1, <2>2, <2>3, SlotsAssumption, BoundsAssumption
    DEF Pools, Entries, SendPool, Leases, Connection
<1>2. ASSUME NEW parts \in Opening, parts.held <=> parts.cipher > 0
      PROVE  /\ Adopted(c, parts) \in Connection /\ EntryOK(Adopted(c, parts))
             /\ Adopted(c, parts).held = parts.held
             /\ Adopted(c, parts).phase = "handshaking"
  BY <1>1, <1>2, BoundsAssumption DEF Adopted, VacantEntry, Connection, EntryOK, Opening
<1>3. CASE OpenFresh(c)
  <2>1. /\ FreshOpening \in Opening /\ (FreshOpening.held <=> FreshOpening.cipher > 0)
        /\ FreshOpening.held = SendOnOpen /\ FreshOpening.cached
        /\ FreshOpening.policy = role
    <3> DEFINE hello == IF SendOnOpen THEN 1 ELSE 0
    <3>1. role \in 0..MaxRole
      BY DEF Pools, PendingOK
    <3>2. hello \in 0..CursorCap /\ (SendOnOpen <=> hello > 0)
      BY BoundsAssumption
    <3>3. FreshOpening = [cached |-> TRUE, policy |-> role, held |-> SendOnOpen,
                          cipher |-> hello]
      BY DEF FreshOpening
    <3> HIDE DEF hello
    <3>4. FreshOpening \in Opening
      BY <1>1, <3>1, <3>2, <3>3 DEF Opening
    <3> QED
      BY <3>2, <3>3, <3>4
  <2> DEFINE free == IF SendOnOpen THEN sendFree - 1 ELSE sendFree
  <2>2. /\ ~pending.cached
        /\ sessions - 1 \in Nat /\ sessions' = sessions - 1
        /\ free \in Nat /\ free + Cached(SendOnOpen) = sendFree /\ sendFree' = free
    BY <1>1, <1>3 DEF OpenFresh, Cached
  <2> HIDE DEF free
  <2>3. CASE conn' = [conn EXCEPT ![c] = Adopted(c, FreshOpening)] /\ UNCHANGED pending
    <3> DEFINE x == Adopted(c, FreshOpening)
    <3>1. /\ x \in Connection /\ EntryOK(x) /\ x.held = SendOnOpen
          /\ x.phase = "handshaking"
      BY <1>2, <2>1
    <3> HIDE DEF x
    <3>2. free + Cached(x.held) + Cached(FALSE /\ SendOnOpen)
            = sendFree + Cached(conn[c].held) + Cached(pending.cached /\ SendOnOpen)
      BY <1>1, <2>2, <3>1 DEF Cached
    <3>3. sessions - 1 + Cached(x.phase # "vacant") + Cached(FALSE)
            = sessions + Cached(conn[c].phase # "vacant") + Cached(pending.cached)
      BY <1>1, <2>2, <3>1 DEF Cached
    <3>4. pending'.cached = FALSE
      BY <2>2, <2>3 DEF Pools, PendingOK, NoOpening, Opening
    <3>5. (Entries /\ SendPool /\ Leases)'
      BY <2>2, <2>3, <3>1, <3>2, <3>3, <3>4, EntryStep DEF Pools, x
    <3> QED
      BY <1>3, <2>3, <3>5 DEF Pools, OpenFresh, PendingOK, RecvPool
  <2>4. CASE pending' = FreshOpening /\ UNCHANGED conn
    <3>1. conn' = [conn EXCEPT ![c] = conn[c]] /\ pending'.cached = TRUE
      BY <1>1, <2>4 DEF FreshOpening
    <3>2. free + Cached(conn[c].held) + Cached(TRUE /\ SendOnOpen)
            = sendFree + Cached(conn[c].held) + Cached(pending.cached /\ SendOnOpen)
      BY <1>1, <2>2 DEF Cached
    <3>3. sessions - 1 + Cached(conn[c].phase # "vacant") + Cached(TRUE)
            = sessions + Cached(conn[c].phase # "vacant") + Cached(pending.cached)
      BY <1>1, <2>2 DEF Cached
    <3>4. (Entries /\ SendPool /\ Leases)'
      BY <1>1, <2>2, <3>1, <3>2, <3>3, EntryStep DEF Pools
    <3> QED
      BY <1>3, <2>1, <2>4, <3>4 DEF Pools, OpenFresh, PendingOK, RecvPool
  <2> QED
    BY <1>3, <2>3, <2>4 DEF OpenFresh
<1>4. CASE OpenCached(c)
  <2> DEFINE x == Adopted(c, pending)
  <2>1. pending \in Opening /\ (pending.held <=> pending.cipher > 0)
        /\ pending.held = SendOnOpen /\ pending.cached
    BY <1>4 DEF Pools, PendingOK, OpenCached, NoOpening
  <2>2. /\ x \in Connection /\ EntryOK(x) /\ x.held = SendOnOpen
        /\ x.phase = "handshaking"
    BY <1>2, <2>1
  <2>3. /\ conn' = [conn EXCEPT ![c] = x] /\ pending'.cached = FALSE
        /\ sendFree' = sendFree /\ sessions' = sessions
    BY <1>4 DEF OpenCached, NoOpening
  <2> HIDE DEF x
  <2>4. sendFree + Cached(x.held) + Cached(FALSE /\ SendOnOpen)
          = sendFree + Cached(conn[c].held) + Cached(pending.cached /\ SendOnOpen)
    BY <1>1, <2>1, <2>2 DEF Cached
  <2>5. sessions + Cached(x.phase # "vacant") + Cached(FALSE)
          = sessions + Cached(conn[c].phase # "vacant") + Cached(pending.cached)
    BY <1>1, <2>1, <2>2 DEF Cached
  <2>6. (Entries /\ SendPool /\ Leases)'
    BY <1>1, <2>2, <2>3, <2>4, <2>5, EntryStep DEF Pools
  <2> QED
    BY <1>4, <2>6 DEF Pools, OpenCached, PendingOK, RecvPool, NoOpening
<1> QED
  BY <1>3, <1>4

\* An opening that fails gives back what it had taken, in the same call.
LEMMA FailedOpening ==
    ASSUME Pools, NEW c \in Conn, OpenFails(c)
    PROVE  UNCHANGED vars
<1>1. sessions \in Nat /\ sendFree \in Nat
  BY DEF Pools, SendPool, Leases
<1>2. (sessions - 1) + 1 = sessions /\ (sendFree - 1) + 1 = sendFree
  BY <1>1
<1>3. sessions' = sessions /\ sendFree' = sendFree
  BY <1>2 DEF OpenFails
<1> QED
  BY <1>3 DEF OpenFails, vars

\* The cached opening of a server owns no ciphertext slot, so dropping it
\* returns its lease and nothing else.
LEMMA PoolsReconfigure ==
    ASSUME Pools, Reconfigure
    PROVE  Pools'
<1>1. ~SendOnOpen /\ role' \in 0..MaxRole /\ pending' = NoOpening /\ ~pending'.cached
  BY BoundsAssumption DEF Reconfigure, Pools, PendingOK, NoOpening
<1>2. sendFree' = sendFree /\ SendHolders' = SendHolders
      /\ {c \in Conn : Admitted(c)}' = {c \in Conn : Admitted(c)}
  BY DEF Reconfigure, SendHolders, Admitted
<1>3. SendPool'
  BY <1>1, <1>2 DEF Pools, SendPool, Cached
<1>4. Leases'
  <2> DEFINE n == Cardinality({c \in Conn : Admitted(c)})
  <2>1. n \in Nat /\ sessions \in Nat /\ Sessions \in Nat
    BY SlotsAssumption, ConnAssumption, FS_Subset, FS_CardinalityType DEF Pools, Leases
  <2>2. Cardinality({c \in Conn : conn'[c].phase # "vacant"}) = n
    BY DEF Reconfigure, Admitted
  <2>3. sessions' = IF pending.cached THEN sessions + 1 ELSE sessions
    BY DEF Reconfigure
  <2>4. sessions + n + Cached(pending.cached) = Sessions
    BY DEF Pools, Leases
  <2> HIDE DEF n
  <2> DEFINE g == IF pending.cached THEN sessions + 1 ELSE sessions
  <2>5. g \in Nat /\ g + n = Sessions
    BY <2>1, <2>4 DEF Cached
  <2> HIDE DEF g
  <2>6. g + n + 0 = Sessions /\ g \in 0..Sessions
    BY <2>1, <2>5
  <2>7. sessions' = g
    BY <2>3 DEF g
  <2>8. Cached(pending'.cached) = 0
    BY <1>1 DEF Cached
  <2> QED
    BY <2>2, <2>6, <2>7, <2>8 DEF Leases, Admitted
<1> QED
  BY <1>1, <1>3, <1>4 DEF Pools, Reconfigure, Entries, PendingOK, RecvPool

\* Input that arrives, is read or is given up, and a failure, own nothing.
LEMMA PoolsInput ==
    ASSUME Pools, NEW c \in Conn,
           Deliver(c) \/ BlockRecv(c) \/ BlockEgress(c) \/ GrowthFails(c) \/ Eof(c)
    PROVE  Pools'
<1>1. /\ conn \in [Conn -> Connection] /\ conn[c] \in Connection /\ EntryOK(conn[c])
      /\ Admitted(c) /\ conn[c].phase # "vacant"
      /\ sendFree \in Nat
  BY SlotsAssumption
  DEF Pools, Entries, SendPool, Deliver, BlockRecv, BlockEgress, GrowthFails, Eof, Tries, Admitted
<1>2. /\ UNCHANGED <<role, pending, sessions, sendFree>>
      /\ \E x \in Connection :
            /\ conn' = [conn EXCEPT ![c] = x]
            /\ EntryOK(x) /\ x.phase # "vacant" /\ x.held = conn[c].held
  <2> DEFINE given == [conn[c] EXCEPT !.input = FALSE]
             got == [conn[c] EXCEPT !.input = TRUE]
             dead == [conn[c] EXCEPT !.failed = TRUE]
  <2>1. /\ given \in Connection /\ EntryOK(given) /\ given.phase # "vacant"
        /\ got \in Connection /\ EntryOK(got) /\ got.phase # "vacant"
        /\ dead \in Connection /\ EntryOK(dead) /\ dead.phase # "vacant"
        /\ given.held = conn[c].held /\ got.held = conn[c].held /\ dead.held = conn[c].held
    BY <1>1 DEF Connection, EntryOK
  <2>2. conn = [conn EXCEPT ![c] = conn[c]]
    BY <1>1
  <2>3. \/ conn' = conn
        \/ conn' = [conn EXCEPT ![c] = given]
        \/ conn' = [conn EXCEPT ![c] = got]
        \/ conn' = [conn EXCEPT ![c] = dead]
    BY <1>1 DEF Deliver, BlockRecv, BlockEgress, GrowthFails, Eof, Block
  <2> HIDE DEF given, got, dead
  <2>4. CASE conn' = conn
    BY <1>1, <2>2, <2>4 DEF Deliver, BlockRecv, BlockEgress, GrowthFails, Eof
  <2> QED
    BY <2>1, <2>3, <2>4 DEF Deliver, BlockRecv, BlockEgress, GrowthFails, Eof
<1>3. (Entries /\ SendPool /\ Leases)'
  BY <1>1, <1>2, SendStep
<1>4. RecvPool'
  <2>1. CASE BlockEgress(c)
    <3>1. /\ recvFree > 0 /\ grown' = GrownBy /\ retained' = retained
          /\ recvFree' = (recvFree - 1) + 1
      BY <2>1 DEF BlockEgress
    <3> QED
      BY <3>1, RecvStep DEF Pools
  <2>2. CASE ~BlockEgress(c)
    BY <2>2 DEF Pools, RecvPool, Deliver, BlockRecv, GrowthFails, Eof
  <2> QED
    BY <2>1, <2>2
<1> QED
  BY <1>2, <1>3, <1>4 DEF Pools, PendingOK

\* A receive of c that got its slots: x is what process left in c with the
\* loan still out, y is c once the loan has ended.
Received(c, x, y, keep) ==
    /\ x.phase # "vacant" /\ x.inflight = conn[c].inflight
    /\ IF WantsLoan(c) THEN x.held
       ELSE x.held = conn[c].held /\ x.cipher = conn[c].cipher
    /\ y.phase # "vacant" /\ y.epoch = conn[c].epoch /\ ~y.input
    /\ y.inflight = x.inflight
    /\ IF WantsLoan(c) THEN y.held = FreeEmpty(x).held /\ y.cipher = FreeEmpty(x).cipher
       ELSE y.held = x.held /\ y.cipher = x.cipher
    /\ conn' = [conn EXCEPT ![c] = y]
    /\ Release(c, x, WantsLoan(c), keep)
    /\ \/ queue' = Taken(queue, c)
       \/ queue' = Woken(Taken(queue, c), WantsLoan(c), x, keep)

\* Unused and Process are the steps of an admitted receive described above.
LEMMA ReceivedShape ==
    ASSUME Pools, NEW c \in Conn, Unused(c) \/ Process(c)
    PROVE  \E x, y \in Connection, keep \in BOOLEAN : Received(c, x, y, keep)
<1>1. conn[c] \in Connection /\ conn[c].phase # "vacant"
  <2>1. Reserves(c)
    <3>1. CASE Unused(c)
      BY <3>1 DEF Unused
    <3>2. CASE Process(c)
      BY <3>2, Zenon DEF Process
    <3> QED
      BY <3>1, <3>2
  <2> QED
    BY <2>1 DEF Pools, Entries, Reserves, Tries, Admitted
<1>2. CASE Unused(c)
  <2> DEFINE l == WantsLoan(c)
             x == IF l THEN [conn[c] EXCEPT !.held = TRUE] ELSE conn[c]
             z == IF l THEN FreeEmpty(x) ELSE x
             y == [z EXCEPT !.input = FALSE]
  <2>1. x \in Connection /\ x.phase # "vacant" /\ x.inflight = conn[c].inflight
        /\ (l => x.held) /\ (~l => x.held = conn[c].held /\ x.cipher = conn[c].cipher)
        /\ x.epoch = conn[c].epoch
    BY <1>1 DEF Connection
  <2>2. z \in Connection /\ z.phase # "vacant" /\ z.inflight = x.inflight
        /\ z.epoch = conn[c].epoch
    BY <2>1, FreeEmptyOK
  <2>3. /\ y \in Connection /\ y.phase # "vacant" /\ y.inflight = z.inflight
        /\ y.held = z.held /\ y.cipher = z.cipher
        /\ y.epoch = conn[c].epoch /\ ~y.input
    BY <2>2 DEF Connection
  <2>4. conn' = [conn EXCEPT ![c] = y] /\ Release(c, x, l, FALSE)
        /\ (queue' = Woken(Taken(queue, c), l, x, FALSE) \/ queue' = Taken(queue, c))
    BY <1>2 DEF Unused
  <2>5. (l => y.held = FreeEmpty(x).held /\ y.cipher = FreeEmpty(x).cipher)
        /\ (~l => y.held = x.held /\ y.cipher = x.cipher)
    BY <2>3
  <2> HIDE DEF l, x, y, z
  <2> QED
    BY <2>1, <2>3, <2>2, <2>4, <2>5 DEF l, Received
<1>3. CASE Process(c)
  <2>1. PICK done \in BOOLEAN, keep \in BOOLEAN, fail \in BOOLEAN, out \in 0..MaxNative :
          LET loan == WantsLoan(c)
              open == conn[c].phase = "open" \/ done
              read == [conn[c] EXCEPT
                          !.phase = IF open THEN "open" ELSE "handshaking",
                          !.native = @ + out, !.failed = fail, !.input = FALSE]
              lent == [read EXCEPT !.held = TRUE]
          IN /\ Reserves(c)
             /\ conn[c].native + out <= MaxNative
             /\ keep => open
             /\ grown' = GrownBy
             /\ \E x \in IF loan THEN {Drained(lent), Broken(lent)} ELSE {read} :
                  /\ conn' = [conn EXCEPT ![c] = IF loan THEN FreeEmpty(x) ELSE x]
                  /\ Release(c, x, loan, keep)
                  /\ queue' = Woken(Taken(queue, c), loan, x, keep)
             /\ UNCHANGED <<role, pending, sessions, stale>>
    BY <1>3, Zenon DEF Process
  <2> DEFINE l == WantsLoan(c)
             ph == IF conn[c].phase = "open" \/ done THEN "open" ELSE "handshaking"
             read == [conn[c] EXCEPT !.phase = ph, !.native = @ + out,
                                     !.failed = fail, !.input = FALSE]
             lent == [read EXCEPT !.held = TRUE]
  <2>2. ph \in {"open", "handshaking"} /\ conn[c].native + out \in 0..MaxNative
    BY <1>1, <2>1, BoundsAssumption DEF Connection
  <2> HIDE DEF ph
  <2>3. /\ read \in Connection /\ read.phase # "vacant"
        /\ read.held = conn[c].held /\ read.cipher = conn[c].cipher
        /\ read.inflight = conn[c].inflight
        /\ read.epoch = conn[c].epoch /\ ~read.input
    BY <1>1, <2>2 DEF Connection
  <2>4. PICK x \in IF l THEN {Drained(lent), Broken(lent)} ELSE {read} :
            /\ conn' = [conn EXCEPT ![c] = IF l THEN FreeEmpty(x) ELSE x]
            /\ Release(c, x, l, keep)
            /\ queue' = Woken(Taken(queue, c), l, x, keep)
    BY <2>1 DEF ph
  <2> DEFINE y == IF l THEN FreeEmpty(x) ELSE x
  <2> HIDE DEF read
  <2>5. lent \in Connection /\ lent.held /\ lent.phase # "vacant"
        /\ lent.inflight = read.inflight
        /\ lent.epoch = conn[c].epoch /\ ~lent.input
    BY <2>3 DEF Connection
  <2> HIDE DEF lent
  <2>6. /\ x \in Connection /\ x.phase # "vacant" /\ x.inflight = read.inflight
        /\ (l => x.held) /\ (~l => x = read)
        /\ x.epoch = conn[c].epoch /\ ~x.input
    <3>1. CASE l
      <4>1. x = Drained(lent) \/ x = Broken(lent)
        BY <2>4, <3>1
      <4> QED
        BY <2>5, <3>1, <4>1, DrainedOK, BrokenOK, ZenonT(60)
    <3>2. CASE ~l
      <4>1. x = read
        BY <2>4, <3>2
      <4> QED
        BY <2>3, <3>2, <4>1
    <3> QED
      BY <3>1, <3>2
  <2>7. /\ y \in Connection /\ y.phase # "vacant" /\ y.inflight = x.inflight
        /\ y.epoch = conn[c].epoch /\ ~y.input
        /\ (l => y = FreeEmpty(x)) /\ (~l => y = x)
    BY <2>6, FreeEmptyOK
  <2>8. conn' = [conn EXCEPT ![c] = y]
    BY <2>4
  <2> HIDE DEF l, y
  <2> QED
    BY <2>3, <2>4, <2>6, <2>7, <2>8 DEF l, Received
<1> QED
BY <1>2, <1>3

\* A receive that got its slots gives back or keeps exactly those.
LEMMA PoolsReceive ==
    ASSUME Pools, NEW c \in Conn, Unused(c) \/ Process(c)
    PROVE  Pools'
<1>1. /\ conn \in [Conn -> Connection] /\ conn[c] \in Connection /\ EntryOK(conn[c])
      /\ Admitted(c) /\ conn[c].phase # "vacant"
      /\ sendFree \in Nat /\ recvFree > 0
      /\ grown' = GrownBy /\ UNCHANGED <<role, pending, sessions>>
      /\ WantsLoan(c) => CanBuffer(conn[c]) /\ ~conn[c].inflight
  <2>1. Reserves(c) /\ grown' = GrownBy /\ UNCHANGED <<role, pending, sessions>>
    <3>1. CASE Unused(c)
      BY <3>1 DEF Unused
    <3>2. CASE Process(c)
      BY <3>2, Zenon DEF Process
    <3> QED
      BY <3>1, <3>2
  <2> QED
    BY <2>1, SlotsAssumption
    DEF Pools, Entries, SendPool, Reserves, Tries, Admitted, WantsLoan
<1>2. PICK x \in Connection, y \in Connection, keep \in BOOLEAN : Received(c, x, y, keep)
  BY ReceivedShape
<1>3. EntryOK(y)
  <2>1. CASE WantsLoan(c)
    BY <1>1, <1>2, <2>1, FreeEmptyOK DEF EntryOK, Received
  <2>2. CASE ~WantsLoan(c)
    BY <1>1, <1>2, <2>2 DEF EntryOK, Received
  <2> QED
    BY <2>1, <2>2
<1>4. (Entries /\ SendPool /\ Leases)'
  <2>1. CASE WantsLoan(c)
    <3> DEFINE free == Returned(Borrowed(conn[c]), x)
    <3>1. free \in Nat /\ free + Cached(y.held) = sendFree + Cached(conn[c].held)
      BY <1>1, <1>2, <2>1, LoanOK DEF Pools, Received
    <3>2. sendFree' = free
      BY <1>2, <2>1 DEF Release, Received
    <3> QED
      BY <1>1, <1>2, <1>3, <3>1, <3>2, SendStep DEF Received
  <2>2. CASE ~WantsLoan(c)
    <3>1. sendFree' = sendFree /\ y.held = conn[c].held
      BY <1>2, <2>2 DEF Release, Received
    <3> QED
      BY <1>1, <1>2, <1>3, <3>1, SendStep DEF Received
  <2> QED
    BY <2>1, <2>2
<1>5. RecvPool'
  BY <1>1, <1>2, RecvStep DEF Pools, Release, Received
<1> QED
  BY <1>1, <1>4, <1>5 DEF Pools, PendingOK

\* What a send call does to connection c: y is c with its cursor still out.
Keeps(c, y) ==
    /\ y.epoch = conn[c].epoch /\ y.phase = conn[c].phase
    /\ y.input = conn[c].input /\ (conn[c].failed => y.failed)

SendStepOf(c, y) ==
    /\ y.held /\ ~y.inflight /\ Keeps(c, y)
    /\ \/ CanBuffer(conn[c]) /\ sendFree' = Returned(Borrowed(conn[c]), y)
       \/ conn[c].held /\ sendFree' = Returned(sendFree, y)
    /\ conn' = [conn EXCEPT ![c] = FreeEmpty(y)]

\* The three calls of the send path are the send step described above.
LEMMA SentShape ==
    ASSUME Pools, NEW c \in Conn, Prepare(c) \/ SealClose(c) \/ Sent(c)
    PROVE  \E y \in Connection : SendStepOf(c, y)
<1>1. /\ conn \in [Conn -> Connection] /\ conn[c] \in Connection /\ EntryOK(conn[c])
      /\ conn[c].native \in 0..MaxNative /\ conn[c].cipher \in 0..CursorCap
      /\ MaxNative \in Nat /\ CursorCap \in Nat
  BY BoundsAssumption DEF Pools, Entries, Connection
<1> DEFINE own == [conn[c] EXCEPT !.held = TRUE]
<1>2. own \in Connection /\ own.held /\ own.inflight = conn[c].inflight
      /\ own.native = conn[c].native /\ Keeps(c, own)
  BY <1>1 DEF Connection, Keeps
<1>3. CASE Prepare(c)
  <2>1. PICK sealed \in 0..MaxNative :
          LET x == Drained(own)
              writes == CanWrite(x) /\ x.native = 0 /\ x.cipher < CursorCap
              y == IF writes THEN Drained([x EXCEPT !.native = sealed]) ELSE x
          IN /\ Admitted(c) /\ ~conn[c].inflight
             /\ CanBuffer(conn[c])
             /\ sealed > 0 => writes
             /\ \E v \in {y, Broken(y), Broken(own)} :
                  /\ conn' = [conn EXCEPT ![c] = FreeEmpty(v)]
                  /\ sendFree' = Returned(Borrowed(conn[c]), v)
             /\ UNCHANGED <<role, pending, sessions, recvFree, grown, retained, queue, stale>>
    BY <1>3, Zenon DEF Prepare
  <2> DEFINE x == Drained(own)
             z == [x EXCEPT !.native = sealed]
             writes == CanWrite(x) /\ x.native = 0 /\ x.cipher < CursorCap
             y == IF writes THEN Drained(z) ELSE x
  <2>2. CanBuffer(conn[c]) /\ ~conn[c].inflight
    BY <2>1
  <2>6. PICK v \in {y, Broken(y), Broken(own)} :
            /\ conn' = [conn EXCEPT ![c] = FreeEmpty(v)]
            /\ sendFree' = Returned(Borrowed(conn[c]), v)
    BY <2>1
  <2> HIDE DEF own
  <2>3. x \in Connection /\ x.held /\ ~x.inflight /\ Keeps(c, x)
    BY <1>2, <2>2, DrainedOK DEF Keeps
  <2> HIDE DEF x
  <2>4. z \in Connection /\ z.held /\ ~z.inflight /\ Keeps(c, z)
    BY <2>3 DEF Connection, Keeps
  <2> HIDE DEF z
  <2>5. y \in Connection /\ y.held /\ ~y.inflight /\ Keeps(c, y)
    BY <2>3, <2>4, DrainedOK DEF Keeps
  <2> HIDE DEF y
  <2>7. v \in Connection /\ v.held /\ ~v.inflight /\ Keeps(c, v)
    BY <1>2, <2>2, <2>5, <2>6, BrokenOK, ZenonT(60) DEF Keeps
  <2> QED
    BY <2>2, <2>6, <2>7 DEF SendStepOf
<1>4. CASE SealClose(c)
  <2> DEFINE notify == ~own.closed /\ ~own.failed
             z == [own EXCEPT !.closed = TRUE, !.native = @ + 1]
             x == IF notify THEN z ELSE own
  <2>1. /\ CanBuffer(conn[c]) /\ ~conn[c].inflight
        /\ notify => conn[c].native < MaxNative
        /\ \E y \in {Drained(x), Broken(Drained(x)), Broken(x)} :
             /\ conn' = [conn EXCEPT ![c] = FreeEmpty(y)]
             /\ sendFree' = Returned(Borrowed(conn[c]), y)
    BY <1>4, Zenon DEF SealClose
  <2>2. notify => own.native + 1 \in 0..MaxNative
    BY <1>1, <1>2, <2>1
  <2> HIDE DEF own, notify
  <2>3. notify => z \in Connection /\ z.held /\ ~z.inflight /\ Keeps(c, z)
    BY <1>2, <2>1, <2>2 DEF Connection, Keeps
  <2>4. x \in Connection /\ x.held /\ ~x.inflight /\ Keeps(c, x)
    BY <1>2, <2>1, <2>3
  <2> HIDE DEF x
  <2>5. /\ Drained(x) \in Connection /\ Drained(x).held
        /\ ~Drained(x).inflight /\ Keeps(c, Drained(x))
    BY <2>4, DrainedOK DEF Keeps
  <2>6. PICK y \in {Drained(x), Broken(Drained(x)), Broken(x)} :
             /\ conn' = [conn EXCEPT ![c] = FreeEmpty(y)]
             /\ sendFree' = Returned(Borrowed(conn[c]), y)
    BY <2>1
  <2>7. y \in Connection /\ y.held /\ ~y.inflight /\ Keeps(c, y)
    BY <2>4, <2>5, <2>6, BrokenOK, ZenonT(60) DEF Keeps
  <2> QED
    BY <2>1, <2>6, <2>7 DEF SendStepOf
<1>5. CASE Sent(c)
  <2>1. PICK n \in 1..CursorCap, refill \in BOOLEAN :
          LET x == [conn[c] EXCEPT !.cipher = @ - n, !.inflight = FALSE]
              moves == x.cipher = 0 /\ x.native > 0 /\ refill
          IN /\ conn[c].inflight
             /\ n <= conn[c].cipher
             /\ ~conn[c].failed => refill
             /\ \E y \in IF moves THEN {Drained(x), Broken(Drained(x)), Broken(x)} ELSE {x} :
                  /\ conn' = [conn EXCEPT ![c] = FreeEmpty(y)]
                  /\ sendFree' = Returned(sendFree, y)
                  /\ queue' = IF Emptied(y) THEN Wake(queue, "HandshakeEgress") ELSE queue
             /\ UNCHANGED <<role, pending, sessions, recvFree, grown, retained, stale>>
    BY <1>5, Zenon DEF Sent
  <2> DEFINE m == conn[c].cipher - n
             x == [conn[c] EXCEPT !.cipher = m, !.inflight = FALSE]
  <2>2. conn[c].inflight /\ n <= conn[c].cipher
    BY <2>1
  <2>6. PICK y \in {x, Drained(x), Broken(Drained(x)), Broken(x)} :
            /\ conn' = [conn EXCEPT ![c] = FreeEmpty(y)]
            /\ sendFree' = Returned(sendFree, y)
    BY <2>1
  <2>3. m \in 0..CursorCap /\ conn[c].held
    BY <1>1, <2>2 DEF EntryOK
  <2> HIDE DEF m
  <2>4. x \in Connection /\ x.held /\ ~x.inflight /\ Keeps(c, x)
    BY <1>1, <2>3 DEF Connection, Keeps
  <2> HIDE DEF x
  <2>5. /\ Drained(x) \in Connection /\ Drained(x).held
        /\ ~Drained(x).inflight /\ Keeps(c, Drained(x))
    BY <2>4, DrainedOK DEF Keeps
  <2>7. y \in Connection /\ y.held /\ ~y.inflight /\ Keeps(c, y)
    BY <2>4, <2>5, <2>6, BrokenOK, ZenonT(60) DEF Keeps
  <2> QED
    BY <2>3, <2>6, <2>7 DEF SendStepOf
<1> QED
  BY <1>3, <1>4, <1>5

\* A send buffers in the cursor it owns or borrows one, and returns it empty;
\* a completion returns the cursor it emptied.
LEMMA PoolsSend ==
    ASSUME Pools, NEW c \in Conn, Prepare(c) \/ SealClose(c) \/ Submit(c) \/ Sent(c)
    PROVE  Pools'
<1>1. conn[c] \in Connection /\ EntryOK(conn[c]) /\ sendFree \in Nat
  BY SlotsAssumption DEF Pools, Entries, SendPool
<1>2. Admitted(c) /\ conn[c].phase # "vacant"
  <2>1. conn[c].inflight => conn[c].phase # "vacant"
    BY <1>1 DEF EntryOK, VacantEntry
  <2> QED
    BY <2>1 DEF Prepare, SealClose, Submit, Sent, Admitted
<1>3. UNCHANGED <<role, pending, sessions, recvFree, grown, retained>>
  BY DEF Prepare, SealClose, Submit, Sent
<1>4. CASE Submit(c)
  <2> DEFINE x == [conn[c] EXCEPT !.inflight = TRUE]
  <2>1. conn' = [conn EXCEPT ![c] = x] /\ sendFree' = sendFree /\ conn[c].held
    BY <1>4 DEF Submit
  <2>2. x \in Connection /\ EntryOK(x) /\ x.phase # "vacant" /\ x.held = conn[c].held
    BY <1>1, <1>2, <2>1 DEF Connection, EntryOK
  <2> HIDE DEF x
  <2>3. (Entries /\ SendPool /\ Leases)'
    BY <1>1, <1>2, <1>3, <2>1, <2>2, SendStep
  <2> QED
    BY <1>3, <2>3 DEF Pools, PendingOK, RecvPool
<1>5. CASE Prepare(c) \/ SealClose(c) \/ Sent(c)
  <2>1. PICK y \in Connection : SendStepOf(c, y)
    BY <1>5, SentShape
  <2>2. FreeEmpty(y) \in Connection /\ EntryOK(FreeEmpty(y)) /\ FreeEmpty(y).phase # "vacant"
    BY <1>2, <2>1, FreeEmptyOK DEF EntryOK, SendStepOf, Keeps
  <2>3. PICK free \in Nat : /\ sendFree' = free
                            /\ free + Cached(FreeEmpty(y).held) = sendFree + Cached(conn[c].held)
    <3>1. CASE CanBuffer(conn[c]) /\ sendFree' = Returned(Borrowed(conn[c]), y)
      BY <2>1, <3>1, LoanOK DEF Pools, SendStepOf
    <3>2. CASE conn[c].held /\ sendFree' = Returned(sendFree, y)
      <4>1. /\ Returned(sendFree, y) \in Nat
            /\ Returned(sendFree, y) + Cached(FreeEmpty(y).held) = sendFree + 1
        BY <1>1, <2>1, FreeEmptyOK DEF SendStepOf
      <4> QED
        BY <3>2, <4>1 DEF Cached
    <3> QED
      BY <2>1, <3>1, <3>2 DEF SendStepOf
  <2>4. (Entries /\ SendPool /\ Leases)'
    BY <1>2, <1>3, <2>1, <2>2, <2>3, SendStep DEF SendStepOf
  <2> QED
    BY <1>3, <2>4 DEF Pools, PendingOK, RecvPool
<1> QED
  BY <1>4, <1>5

\* Teardown gives back the session lease, and the ciphertext slot if one is held.
LEMMA PoolsDiscard ==
    ASSUME Pools, NEW c \in Conn, Discard(c)
    PROVE  Pools'
<1> DEFINE x == VacantEntry(conn[c].epoch + 1)
           free == IF conn[c].held THEN sendFree + 1 ELSE sendFree
<1>1. /\ conn[c] \in Connection /\ conn[c].phase # "vacant"
      /\ sendFree \in Nat /\ sessions \in Nat
      /\ conn[c].epoch + 1 \in Epoch
      /\ conn' = [conn EXCEPT ![c] = x] /\ sendFree' = free /\ sessions' = sessions + 1
      /\ UNCHANGED <<role, pending, recvFree, grown, retained>>
  <2>1. conn[c] \in Connection /\ sendFree \in Nat /\ sessions \in Nat
    BY SlotsAssumption DEF Pools, Entries, SendPool, Leases
  <2>2. conn[c].epoch \in Nat
    BY <2>1, BoundsAssumption DEF Connection, Epoch
  <2> QED
    BY <2>1, <2>2, BoundsAssumption DEF Discard, Admitted, Epoch
<1>2. x \in Connection /\ EntryOK(x)
  BY <1>1, VacantOK
<1>3. x.phase = "vacant" /\ ~x.held
  BY DEF VacantEntry
<1>4. pending.cached \in BOOLEAN
  <2>1. CASE pending = NoOpening
    BY <2>1 DEF NoOpening
  <2>2. CASE pending \in Opening
    BY <2>2 DEF Opening
  <2> QED
    BY <2>1, <2>2 DEF Pools, PendingOK
<1>5. free \in Nat /\ sessions + 1 \in Nat
  BY <1>1
<1>6. free + Cached(x.held) = sendFree + Cached(conn[c].held)
  BY <1>1, <1>3 DEF Cached
<1>7. free + Cached(x.held) + Cached(pending.cached /\ SendOnOpen)
        = sendFree + Cached(conn[c].held) + Cached(pending.cached /\ SendOnOpen)
  BY <1>6
<1>8. sessions + 1 + Cached(x.phase # "vacant") + Cached(pending.cached)
        = sessions + Cached(conn[c].phase # "vacant") + Cached(pending.cached)
  BY <1>1, <1>3 DEF Cached
<1> HIDE DEF x, free
<1>9. (Entries /\ SendPool /\ Leases)'
  BY <1>1, <1>2, <1>4, <1>5, <1>7, <1>8, EntryStep DEF Pools
<1> QED
  BY <1>1, <1>9 DEF Pools, PendingOK, RecvPool

\* A bound runtime starts with its pools full and no connection.
LEMMA PoolsInit ==
    ASSUME Init
    PROVE  Pools
<1>1. Entries
  <2>1. 0 \in Epoch
    BY BoundsAssumption DEF Epoch
  <2>2. VacantEntry(0) \in Connection /\ EntryOK(VacantEntry(0))
    BY <2>1, VacantOK
  <2> QED
    BY <2>2 DEF Init, Entries
<1>2. SendHolders = {} /\ {c \in Conn : Admitted(c)} = {}
  BY DEF Init, SendHolders, Admitted, VacantEntry
<1>3. Cardinality({}) = 0 /\ ~NoOpening.cached
  BY FS_EmptySet DEF NoOpening
<1>4. SendPool /\ Leases
  <2>1. /\ sendFree = SendSlots /\ sessions = Sessions /\ ~pending.cached
        /\ Cardinality(SendHolders) = 0 /\ Cardinality({c \in Conn : Admitted(c)}) = 0
    BY <1>2, <1>3 DEF Init
  <2>2. Cached(pending.cached) = 0 /\ Cached(pending.cached /\ SendOnOpen) = 0
    BY <2>1 DEF Cached
  <2> QED
    BY <2>1, <2>2, SlotsAssumption DEF SendPool, Leases
<1>5. RecvPool
  BY SlotsAssumption DEF Init, RecvPool
<1>6. PendingOK
  BY <1>3, BoundsAssumption DEF Init, PendingOK
<1> QED
  BY <1>1, <1>4, <1>5, <1>6 DEF Pools

\* No call of the driver unbalances the pools.
LEMMA PoolsNext ==
    ASSUME Pools, [Next]_vars
    PROVE  Pools'
<1>1. ASSUME NEW c \in Conn, OpenFresh(c) \/ OpenCached(c) PROVE Pools'
  BY <1>1, PoolsOpen
<1>2. ASSUME NEW c \in Conn, Discard(c) PROVE Pools'
  BY <1>2, PoolsDiscard
<1>3. ASSUME NEW c \in Conn,
             Deliver(c) \/ BlockRecv(c) \/ BlockEgress(c) \/ GrowthFails(c) \/ Eof(c)
      PROVE  Pools'
  BY <1>3, PoolsInput
<1>4. ASSUME NEW c \in Conn, Unused(c) \/ Process(c) PROVE Pools'
  BY <1>4, PoolsReceive
<1>5. ASSUME NEW c \in Conn, Prepare(c) \/ SealClose(c) \/ Submit(c) \/ Sent(c) PROVE Pools'
  BY <1>5, PoolsSend
<1>6. CASE Reconfigure
  BY <1>6, PoolsReconfigure
<1>7. CASE DropChunk
  <2>1. RecvPool'
    BY <1>7, SlotsAssumption DEF DropChunk, Pools, RecvPool
  <2> QED
    BY <1>7, <2>1 DEF DropChunk, Pools, Entries, PendingOK, SendPool, SendHolders, Leases, Admitted
<1>8. CASE PollReady \/ CancelAgain \/ UNCHANGED vars
  BY <1>8 DEF PollReady, CancelAgain, vars, Pools, Entries, PendingOK, RecvPool, SendPool,
              SendHolders, Leases, Admitted
<1>9. ASSUME NEW c \in Conn, OpenFails(c) PROVE UNCHANGED vars
  BY <1>9, FailedOpening
<1> QED
  BY <1>1, <1>2, <1>3, <1>4, <1>5, <1>6, <1>7, <1>8, <1>9 DEF Next

-----------------------------------------------------------------------------
(* Blocked receives, action by action *)

\* When entry c becomes x and the lanes w, only what concerns c is to be shown.
LEMMA LanesStep ==
    ASSUME Entries, Lanes, NEW c \in Conn, NEW x, NEW w,
           conn' = [conn EXCEPT ![c] = x], queue' = w, QueueOK(w),
           \A t \in Target : t.slot # c /\ Queued(w, t) => Queued(queue, t),
           \A t \in Target : t.slot = c /\ Queued(w, t) =>
              t.epoch = x.epoch /\ x.phase # "vacant",
           \A d \in Conn \ {c} : w.credit[d] = "idle" <=> queue.credit[d] = "idle",
           x.input /\ ~x.failed => w.credit[c] # "idle",
           w.credit[c] # "idle" => x.input,
           stale' \subseteq Target,
           \A t \in stale' : IF t.slot = c THEN t.epoch < x.epoch ELSE t \in stale
    PROVE  Lanes'
<1>1. conn'[c] = x /\ \A d \in Conn \ {c} : conn'[d] = conn[d]
  BY DEF Entries
<1>2. ASSUME NEW t \in Target, Queued(w, t)
      PROVE  /\ t = [slot |-> t.slot, epoch |-> conn'[t.slot].epoch]
             /\ conn'[t.slot].phase # "vacant"
  <2>1. t = [slot |-> t.slot, epoch |-> t.epoch] /\ t.slot \in Conn
    BY DEF Target
  <2>2. CASE t.slot = c
    BY <1>1, <1>2, <2>1, <2>2
  <2>3. CASE t.slot # c
    BY <1>1, <1>2, <2>1, <2>3 DEF Lanes, IdOf, Admitted
  <2> QED
    BY <2>2, <2>3
<1>3. ASSUME NEW d \in Conn
      PROVE  /\ conn'[d].input /\ ~conn'[d].failed => w.credit[d] # "idle"
             /\ w.credit[d] # "idle" => conn'[d].input
  BY <1>1 DEF Lanes
<1>4. ASSUME NEW t \in stale'
      PROVE  t.epoch < conn'[t.slot].epoch
  <2>1. t.slot \in Conn
    BY DEF Target
  <2> QED
    BY <1>1, <2>1 DEF Lanes
<1> QED
  BY <1>2, <1>3, <1>4 DEF Lanes, IdOf, Admitted

\* Lanes w serve what q did: they are in order, nobody joined, and nobody's
\* credit became or stopped being idle.
Serves(q, w) ==
    /\ QueueOK(w)
    /\ \A t \in Target : Queued(w, t) => Queued(q, t)
    /\ \A d \in Conn : w.credit[d] = "idle" <=> q.credit[d] = "idle"

\* A further wake keeps what earlier wakes have done.
LEMMA WakeServes ==
    ASSUME NEW q, NEW w, Serves(q, w), NEW r \in Resource
    PROVE  Serves(q, Wake(w, r))
BY WakeOK DEF Serves

\* Waking only, with the connections as they are.
LEMMA LanesWake ==
    ASSUME Lanes, UNCHANGED <<conn, stale>>, Serves(queue, queue')
    PROVE  Lanes'
<1>1. \A c \in Conn : /\ conn[c].input /\ ~conn[c].failed => queue'.credit[c] # "idle"
                      /\ queue'.credit[c] # "idle" => conn[c].input
  BY DEF Lanes, Serves
<1>2. \A t \in Target : Queued(queue', t) => t = IdOf(t.slot) /\ Admitted(t.slot)
  BY DEF Lanes, Serves
<1> QED
  BY <1>1, <1>2 DEF Lanes, Serves, IdOf, Admitted

\* A call that leaves the connection's identity, phase and input as they are,
\* may fail it, and at most wakes waiters.
LEMMA LanesSame ==
    ASSUME Entries, Lanes, NEW c \in Conn, NEW x,
           conn' = [conn EXCEPT ![c] = x], UNCHANGED stale,
           Serves(queue, queue'),
           x.epoch = conn[c].epoch, x.input = conn[c].input,
           conn[c].failed => x.failed,
           x.phase = "vacant" => conn[c].phase = "vacant"
    PROVE  Lanes'
<1>1. PICK w : w = queue'
  OBVIOUS
<1>2. QueueOK(w) /\ (\A t \in Target : Queued(w, t) => Queued(queue, t))
      /\ \A d \in Conn : w.credit[d] = "idle" <=> queue.credit[d] = "idle"
  BY <1>1 DEF Serves
<1>3. \A t \in Target : t.slot = c /\ Queued(w, t) =>
         t.epoch = x.epoch /\ x.phase # "vacant"
  <2> SUFFICES ASSUME NEW t \in Target, t.slot = c, Queued(w, t)
               PROVE  t.epoch = x.epoch /\ x.phase # "vacant"
    OBVIOUS
  <2>1. t = [slot |-> t.slot, epoch |-> conn[t.slot].epoch]
        /\ conn[t.slot].phase # "vacant"
    BY <1>2 DEF Lanes, IdOf, Admitted
  <2>2. t.epoch = conn[t.slot].epoch
    BY <2>1
  <2> QED
    BY <2>1, <2>2
<1>4. x.input /\ ~x.failed => w.credit[c] # "idle"
  BY <1>2 DEF Lanes
<1>6. w.credit[c] # "idle" => x.input
  BY <1>2 DEF Lanes
<1>5. stale' \subseteq Target /\ \A t \in stale' : IF t.slot = c THEN t.epoch < x.epoch ELSE t \in stale
  BY DEF Lanes
<1> QED
  <2>1. QueueOK(w) /\ queue' = w
    BY <1>1, <1>2
  <2>2. /\ \A t \in Target : t.slot # c /\ Queued(w, t) => Queued(queue, t)
        /\ \A d \in Conn \ {c} : w.credit[d] = "idle" <=> queue.credit[d] = "idle"
    BY <1>2
  <2> QED
    BY <1>3, <1>4, <1>5, <1>6, <2>1, <2>2, LanesStep

\* Nobody waits for a connection that has no delivered input, or has failed.
LEMMA LanesOpen ==
    ASSUME Entries, Lanes, NEW c \in Conn, OpenFresh(c) \/ OpenCached(c)
    PROVE  Lanes'
<1>1. conn[c] \in Connection /\ conn[c].phase = "vacant"
      /\ conn[c].input = FALSE /\ conn[c].failed = FALSE
  <2>1. conn[c] \in Connection /\ conn[c].phase = "vacant"
    BY DEF Entries, OpenFresh, OpenCached
  <2>2. conn[c] = VacantEntry(conn[c].epoch)
    BY <2>1 DEF Entries, EntryOK
  <2> QED
    BY <2>1, <2>2 DEF VacantEntry
<1>2. UNCHANGED <<queue, stale>>
  BY DEF OpenFresh, OpenCached
<1>3. ASSUME NEW parts, conn' = [conn EXCEPT ![c] = Adopted(c, parts)]
      PROVE  Lanes'
  <2>1. /\ Adopted(c, parts).epoch = conn[c].epoch
        /\ Adopted(c, parts).failed = FALSE /\ Adopted(c, parts).input = FALSE
        /\ Adopted(c, parts).phase # "vacant"
    BY DEF Adopted, VacantEntry
  <2>2. ASSUME NEW d \in Conn
        PROVE  /\ conn'[d].epoch = conn[d].epoch /\ conn'[d].failed = conn[d].failed
               /\ conn'[d].input = conn[d].input
               /\ conn[d].phase # "vacant" => conn'[d].phase # "vacant"
    BY <1>1, <1>3, <2>1 DEF Entries
  <2>3. \A t \in Target : t.slot \in Conn
    BY DEF Target
  <2> QED
    BY <1>2, <2>2, <2>3 DEF Lanes, IdOf, Admitted
<1>4. CASE UNCHANGED conn
  BY <1>2, <1>4 DEF Lanes, IdOf, Admitted
<1> QED
  BY <1>3, <1>4 DEF OpenFresh, OpenCached

\* An idle credit becomes ready with the delivery.
LEMMA LanesDeliver ==
    ASSUME Entries, Lanes, NEW c \in Conn, Deliver(c)
    PROVE  Lanes'
<1> DEFINE x == [conn[c] EXCEPT !.input = TRUE]
           w == [queue EXCEPT !.credit[c] = "ready"]
<1>1. conn[c] \in Connection /\ conn[c].phase # "vacant" /\ ~conn[c].failed
      /\ ~conn[c].input /\ conn' = [conn EXCEPT ![c] = x] /\ queue' = w /\ UNCHANGED stale
  BY DEF Entries, Deliver, Admitted
<1>2. x \in Connection /\ x.epoch = conn[c].epoch /\ x.phase # "vacant"
      /\ x.input
  BY <1>1 DEF Connection
<1>3. queue.credit[c] = "idle" /\ QueueOK(queue) /\ queue.credit \in [Conn -> Credit]
  BY <1>1 DEF Lanes, QueueOK, QueueType
<1>4. /\ QueueOK(w) /\ (\A t \in Target : Queued(w, t) <=> Queued(queue, t))
      /\ w.credit = [queue.credit EXCEPT ![c] = "ready"]
  BY <1>3, MadeReadyOK
<1> HIDE DEF x, w
<1>5. \A t \in Target : Queued(w, t) => t.slot # c
  BY <1>3, <1>4, HeldIffQueued
<1>6. w.credit[c] = "ready" /\ \A d \in Conn \ {c} : w.credit[d] = queue.credit[d]
  BY <1>3, <1>4
<1>7. stale' \subseteq Target /\ \A t \in stale' : IF t.slot = c THEN t.epoch < x.epoch ELSE t \in stale
  BY <1>1, <1>2 DEF Lanes
<1>8. /\ \A t \in Target : t.slot # c /\ Queued(w, t) => Queued(queue, t)
      /\ \A t \in Target : t.slot = c /\ Queued(w, t) =>
            t.epoch = x.epoch /\ x.phase # "vacant"
      /\ \A d \in Conn \ {c} : w.credit[d] = "idle" <=> queue.credit[d] = "idle"
  BY <1>2, <1>4, <1>5, <1>6
<1> QED
  BY <1>1, <1>2, <1>4, <1>6, <1>7, <1>8, LanesStep, ZenonT(60)

\* The driver takes a ready credit; nobody is in a lane for it.
LEMMA TakenServes ==
    ASSUME Lanes, NEW c \in Conn, queue.credit[c] = "ready", NEW w, Serves(Taken(queue, c), w)
    PROVE  /\ QueueOK(w)
           /\ \A t \in Target : Queued(w, t) => Queued(queue, t) /\ t.slot # c
           /\ \A d \in Conn \ {c} : w.credit[d] = "idle" <=> queue.credit[d] = "idle"
           /\ w.credit[c] = "idle"
<1>1. QueueOK(queue) /\ queue.credit \in [Conn -> Credit]
  BY DEF Lanes, QueueOK, QueueType
<1>2. /\ QueueOK(Taken(queue, c))
      /\ \A t \in Target : Queued(Taken(queue, c), t) <=> Queued(queue, t)
      /\ Taken(queue, c).credit = [queue.credit EXCEPT ![c] = "idle"]
  BY <1>1, TakenOK
<1>3. \A t \in Target : Queued(queue, t) => t.slot # c
  BY <1>1, HeldIffQueued
<1> QED
  BY <1>1, <1>2, <1>3 DEF Serves

\* A blocked receive waits in one lane, or its rolled-back registration leaves
\* no trace and its input is given up.
LEMMA LanesBlock ==
    ASSUME Entries, Lanes, NEW c \in Conn, BlockRecv(c) \/ BlockEgress(c)
    PROVE  Lanes'
<1>1. /\ conn[c] \in Connection /\ conn[c].phase # "vacant" /\ ~conn[c].failed
      /\ queue.credit[c] = "ready" /\ UNCHANGED stale
      /\ conn[c].epoch \in Epoch /\ conn[c].input
  BY DEF Entries, Lanes, BlockRecv, BlockEgress, Tries, Admitted, Connection
<1>2. PICK q : Serves(Taken(queue, c), q) /\ \E r \in Resource : Block(c, q, r)
  <2>1. QueueOK(Taken(queue, c))
    BY <1>1, TakenOK DEF Lanes
  <2>2. Serves(Taken(queue, c), Taken(queue, c))
    BY <2>1 DEF Serves
  <2>3. Serves(Taken(queue, c), Wake(Taken(queue, c), "Recv"))
    BY <2>2, WakeServes DEF Resource
  <2> QED
    BY <2>2, <2>3 DEF BlockRecv, BlockEgress, Resource
<1>4. /\ QueueOK(q) /\ q.credit[c] = "idle"
      /\ \A t \in Target : Queued(q, t) => Queued(queue, t) /\ t.slot # c
      /\ \A d \in Conn \ {c} : q.credit[d] = "idle" <=> queue.credit[d] = "idle"
  BY <1>1, <1>2, TakenServes
<1>3. PICK r \in Resource : Block(c, q, r)
  BY <1>2
<1> DEFINE id == IdOf(c)
           w == Register(q, r, id)
           z == Cancel(w, id)
<1>5. id \in Target /\ id.slot = c /\ id.epoch = conn[c].epoch
  BY <1>1 DEF IdOf, Target
<1> HIDE DEF id
<1>6. /\ QueueOK(w)
      /\ \A t \in Target : Queued(w, t) <=> Queued(q, t) \/ t = id
      /\ w.credit = [q.credit EXCEPT ![c] = "held"]
  BY <1>4, <1>5, RegisterOK
<1>7. q.credit \in [Conn -> Credit]
  BY <1>4 DEF QueueOK, QueueType
<1> HIDE DEF w
<1>8. /\ QueueOK(z)
      /\ \A t \in Target : Queued(z, t) <=> Queued(w, t) /\ t # id
      /\ z.credit = [w.credit EXCEPT ![c] = "idle"]
  BY <1>5, <1>6, CancelOK
<1> HIDE DEF z
<1>9. conn = [conn EXCEPT ![c] = conn[c]]
  BY DEF Entries
<1>10. CASE queue' = w /\ UNCHANGED conn
  <2>1. \A t \in Target : t.slot = c /\ Queued(w, t) => t.epoch = conn[c].epoch
    BY <1>4, <1>5, <1>6
  <2>2. \A t \in Target : t.slot # c /\ Queued(w, t) => Queued(queue, t)
    BY <1>4, <1>5, <1>6
  <2>3. w.credit[c] = "held"
        /\ \A d \in Conn \ {c} : w.credit[d] = "idle" <=> queue.credit[d] = "idle"
    BY <1>4, <1>6, <1>7
  <2>4. stale' \subseteq Target
        /\ \A t \in stale' : IF t.slot = c THEN t.epoch < conn[c].epoch ELSE t \in stale
    BY <1>1 DEF Lanes
  <2> QED
    BY <1>1, <1>6, <1>9, <1>10, <2>1, <2>2, <2>3, <2>4, LanesStep, ZenonT(60)
<1>11. CASE queue' = z /\ conn' = [conn EXCEPT ![c].input = FALSE]
  <2> DEFINE x == [conn[c] EXCEPT !.input = FALSE]
  <2>1. x \in Connection /\ x.epoch = conn[c].epoch /\ ~x.input
        /\ conn' = [conn EXCEPT ![c] = x]
    BY <1>1, <1>11 DEF Connection
  <2> HIDE DEF x
  <2>2. \A t \in Target : Queued(z, t) => Queued(queue, t) /\ t.slot # c
    BY <1>4, <1>6, <1>8
  <2>3. z.credit[c] = "idle"
        /\ \A d \in Conn \ {c} : z.credit[d] = "idle" <=> queue.credit[d] = "idle"
    BY <1>4, <1>6, <1>7, <1>8
  <2>4. stale' \subseteq Target
        /\ \A t \in stale' : IF t.slot = c THEN t.epoch < x.epoch ELSE t \in stale
    BY <1>1, <2>1 DEF Lanes
  <2> QED
    BY <1>8, <1>11, <2>1, <2>2, <2>3, <2>4, LanesStep
<1> QED
  BY <1>3, <1>10, <1>11 DEF Block, w, z, id

\* A receive that ran takes its ready credit and its input, a failed growth its
\* credit; whoever is woken keeps a credit that is not idle.
LEMMA LanesReceive ==
    ASSUME Pools, Lanes, NEW c \in Conn, GrowthFails(c) \/ Unused(c) \/ Process(c)
    PROVE  Lanes'
<1>1. queue.credit[c] = "ready" /\ UNCHANGED stale
  <2>1. CASE GrowthFails(c)
    BY <2>1 DEF GrowthFails, Tries
  <2>2. CASE Unused(c)
    BY <2>2 DEF Unused, Reserves, Tries
  <2>3. CASE Process(c)
    <3>1. Reserves(c) /\ UNCHANGED stale
      BY <2>3, Zenon DEF Process
    <3> QED
      BY <3>1 DEF Reserves, Tries
  <2> QED
    BY <2>1, <2>2, <2>3
<1>2. Serves(Taken(queue, c), Taken(queue, c))
  <2>1. QueueOK(Taken(queue, c))
    BY <1>1, TakenOK DEF Lanes
  <2> QED
    BY <2>1 DEF Serves
<1>3. PICK y : /\ conn' = [conn EXCEPT ![c] = y] /\ y.epoch = conn[c].epoch
               /\ ~(y.input /\ ~y.failed)
  <2>1. CASE GrowthFails(c)
    <3> DEFINE y == [conn[c] EXCEPT !.failed = TRUE]
    <3>1. conn[c] \in Connection
      BY DEF Pools, Entries
    <3>2. y.failed /\ y.epoch = conn[c].epoch
      BY <3>1 DEF Connection
    <3>3. conn' = [conn EXCEPT ![c] = y]
      BY <2>1 DEF GrowthFails
    <3> HIDE DEF y
    <3> QED
      BY <3>2, <3>3
  <2>2. CASE Unused(c) \/ Process(c)
    BY <2>2, ReceivedShape DEF Received
  <2> QED
    BY <2>1, <2>2
<1>4. Serves(Taken(queue, c), queue')
  <2>1. CASE GrowthFails(c)
    BY <1>2, <2>1 DEF GrowthFails
  <2>2. CASE Unused(c) \/ Process(c)
    <3>1. PICK x \in Connection, z \in Connection, keep \in BOOLEAN : Received(c, x, z, keep)
      BY <2>2, ReceivedShape
    <3> DEFINE first == IF keep THEN Taken(queue, c) ELSE Wake(Taken(queue, c), "Recv")
    <3>2. Serves(Taken(queue, c), first)
      BY <1>2, WakeServes DEF Resource
    <3> HIDE DEF first
    <3>3. Serves(Taken(queue, c), Wake(first, "HandshakeEgress"))
      BY <3>2, WakeServes DEF Resource
    <3>4. \/ queue' = Taken(queue, c) \/ queue' = first
          \/ queue' = Wake(first, "HandshakeEgress")
      BY <3>1 DEF Received, Woken, first
    <3> QED
      BY <1>2, <3>2, <3>3, <3>4
  <2> QED
    BY <2>1, <2>2
<1>5. PICK w : w = queue'
  OBVIOUS
<1>6. /\ QueueOK(w)
      /\ \A t \in Target : Queued(w, t) => Queued(queue, t) /\ t.slot # c
      /\ \A d \in Conn \ {c} : w.credit[d] = "idle" <=> queue.credit[d] = "idle"
      /\ w.credit[c] = "idle"
  BY <1>1, <1>4, <1>5, TakenServes
<1>7. stale' \subseteq Target
      /\ \A t \in stale' : IF t.slot = c THEN t.epoch < y.epoch ELSE t \in stale
  BY <1>1, <1>3 DEF Lanes
<1>8. Entries
  BY DEF Pools
<1> QED
  BY <1>3, <1>5, <1>6, <1>7, <1>8, LanesStep

\* Sending and the end of the stream change no waiter; a returned ciphertext
\* slot wakes one.
LEMMA LanesSend ==
    ASSUME Pools, Lanes, NEW c \in Conn,
           Prepare(c) \/ SealClose(c) \/ Submit(c) \/ Sent(c) \/ Eof(c)
    PROVE  Lanes'
<1>1. conn[c] \in Connection /\ Entries
  BY DEF Pools, Entries
<1>2. Serves(queue, queue)
  BY DEF Serves, Lanes
<1>3. UNCHANGED stale /\ Serves(queue, queue')
  <2>1. CASE Prepare(c) \/ SealClose(c) \/ Submit(c) \/ Eof(c)
    BY <1>2, <2>1 DEF Prepare, SealClose, Submit, Eof
  <2>2. CASE Sent(c)
    <3>1. UNCHANGED stale /\ (queue' = queue \/ queue' = Wake(queue, "HandshakeEgress"))
      BY <2>2 DEF Sent
    <3> QED
      BY <1>2, <3>1, WakeServes DEF Resource
  <2> QED
    BY <2>1, <2>2
<1>4. \E y : /\ conn' = [conn EXCEPT ![c] = y] /\ y.epoch = conn[c].epoch
             /\ y.input = conn[c].input /\ (conn[c].failed => y.failed)
             /\ y.phase = conn[c].phase
  <2>1. CASE Submit(c)
    <3> DEFINE y == [conn[c] EXCEPT !.inflight = TRUE]
    <3>1. conn' = [conn EXCEPT ![c] = y]
      BY <2>1 DEF Submit
    <3>2. /\ y.epoch = conn[c].epoch /\ (conn[c].failed => y.failed)
          /\ y.input = conn[c].input /\ y.phase = conn[c].phase
      BY <1>1 DEF Connection
    <3> HIDE DEF y
    <3> QED
      BY <3>1, <3>2
  <2>3. CASE Eof(c)
    <3>1. conn' = [conn EXCEPT ![c] = Broken(conn[c])]
      BY <2>3 DEF Eof, Broken
    <3> QED
      BY <1>1, <3>1, BrokenOK
  <2>2. CASE Prepare(c) \/ SealClose(c) \/ Sent(c)
    <3>1. PICK y \in Connection : SendStepOf(c, y)
      BY <2>2, SentShape
    <3> DEFINE z == FreeEmpty(y)
    <3>2. /\ z.epoch = conn[c].epoch /\ (conn[c].failed => z.failed)
          /\ z.input = conn[c].input /\ z.phase = conn[c].phase
      BY <3>1, FreeEmptyOK DEF SendStepOf, Keeps
    <3>3. conn' = [conn EXCEPT ![c] = z]
      BY <3>1 DEF SendStepOf
    <3> HIDE DEF z
    <3> QED
      BY <3>2, <3>3
  <2> QED
    BY <2>1, <2>2, <2>3
<1> QED
  BY <1>1, <1>3, <1>4, LanesSame

\* Teardown leaves nobody in a lane for the entry, in either order of
\* cancelling and waking, and makes the entry's id older than its successor.
LEMMA LanesDiscard ==
    ASSUME Pools, Lanes, NEW c \in Conn, Discard(c)
    PROVE  Lanes'
<1> DEFINE id == IdOf(c)
           x == VacantEntry(conn[c].epoch + 1)
<1>1. /\ conn[c] \in Connection /\ conn[c].epoch \in Nat /\ id \in Target
      /\ id.slot = c /\ id.epoch = conn[c].epoch /\ Entries
  BY BoundsAssumption DEF Pools, Entries, Connection, Epoch, IdOf, Target
<1>2. conn' = [conn EXCEPT ![c] = x] /\ stale' = stale \cup {id}
  BY DEF Discard
<1>3. x.epoch = conn[c].epoch + 1 /\ ~x.input
  BY DEF VacantEntry
<1>4. \A t \in Target : t.slot = c /\ Queued(queue, t) => t = id
  BY DEF Lanes
<1> HIDE DEF id, x
<1>5. \E q : /\ QueueOK(q)
             /\ \A t \in Target : Queued(q, t) => Queued(queue, t) /\ t # id
             /\ \A d \in Conn \ {c} : q.credit[d] = "idle" <=> queue.credit[d] = "idle"
             /\ queue' = Taken(q, c)
  <2>1. ASSUME NEW q, Serves(queue, q)
        PROVE  /\ QueueOK(Cancel(q, id))
               /\ \A t \in Target : Queued(Cancel(q, id), t) => Queued(queue, t) /\ t # id
               /\ \A d \in Conn \ {c} : Cancel(q, id).credit[d] = "idle" <=> queue.credit[d] = "idle"
    <3>1. QueueOK(q) /\ q.credit \in [Conn -> Credit]
      BY <2>1 DEF Serves, QueueOK, QueueType
    <3>2. /\ QueueOK(Cancel(q, id))
          /\ \A t \in Target : Queued(Cancel(q, id), t) <=> Queued(q, t) /\ t # id
          /\ \/ Cancel(q, id).credit = [q.credit EXCEPT ![c] = "idle"]
             \/ Cancel(q, id).credit = q.credit
      BY <1>1, <3>1, CancelOK
    <3>3. \A d \in Conn \ {c} : Cancel(q, id).credit[d] = q.credit[d]
      BY <3>1, <3>2
    <3> QED
      BY <2>1, <3>2, <3>3 DEF Serves
  <2>2. Serves(queue, queue)
    BY DEF Serves, Lanes
  <2>3. Serves(queue, Wake(queue, "HandshakeEgress"))
    BY <2>2, WakeServes DEF Resource
  <2>4. ASSUME NEW q, QueueOK(q),
               \A t \in Target : Queued(q, t) => Queued(queue, t) /\ t # id,
               \A d \in Conn \ {c} : q.credit[d] = "idle" <=> queue.credit[d] = "idle"
        PROVE  LET w == Wake(q, "HandshakeEgress")
               IN /\ QueueOK(w)
                  /\ \A t \in Target : Queued(w, t) => Queued(queue, t) /\ t # id
                  /\ \A d \in Conn \ {c} : w.credit[d] = "idle" <=> queue.credit[d] = "idle"
    <3>1. Serves(q, q)
      BY <2>4 DEF Serves
    <3>2. Serves(q, Wake(q, "HandshakeEgress"))
      BY <3>1, WakeServes DEF Resource
    <3> QED
      BY <2>4, <3>2 DEF Serves
  <2> DEFINE f(q) == IF conn[c].held THEN Wake(q, "HandshakeEgress") ELSE q
  <2>5. queue' = Taken(f(Cancel(queue, id)), c) \/ queue' = Taken(Cancel(f(queue), id), c)
    BY DEF Discard, id
  <2>6. Serves(queue, f(queue))
    BY <2>2, <2>3
  <2>7. CASE queue' = Taken(Cancel(f(queue), id), c)
    BY <2>1, <2>6, <2>7
  <2>8. CASE queue' = Taken(f(Cancel(queue, id)), c)
    <3> DEFINE q == Cancel(queue, id)
    <3>1. /\ QueueOK(q)
          /\ \A t \in Target : Queued(q, t) => Queued(queue, t) /\ t # id
          /\ \A d \in Conn \ {c} : q.credit[d] = "idle" <=> queue.credit[d] = "idle"
      BY <2>1, <2>2
    <3> HIDE DEF q
    <3>2. /\ QueueOK(f(q))
          /\ \A t \in Target : Queued(f(q), t) => Queued(queue, t) /\ t # id
          /\ \A d \in Conn \ {c} : f(q).credit[d] = "idle" <=> queue.credit[d] = "idle"
      BY <2>4, <3>1
    <3> QED
      BY <2>8, <3>2 DEF q
  <2> QED
    BY <2>5, <2>7, <2>8
<1>6. PICK q : /\ QueueOK(q)
               /\ \A t \in Target : Queued(q, t) => Queued(queue, t) /\ t # id
               /\ \A d \in Conn \ {c} : q.credit[d] = "idle" <=> queue.credit[d] = "idle"
               /\ queue' = Taken(q, c)
  BY <1>5
<1>7. \A t \in Target : Queued(q, t) => t.slot # c
  BY <1>4, <1>6
<1>8. q.credit[c] # "held" /\ q.credit \in [Conn -> Credit]
  <2>1. q.credit \in [Conn -> Credit]
    BY <1>6 DEF QueueOK, QueueType
  <2>2. q.credit[c] # "held"
    BY <1>6, <1>7, HeldIffQueued
  <2> QED
    BY <2>1, <2>2
<1>9. PICK w : w = queue'
  OBVIOUS
<1>10. /\ QueueOK(w) /\ w.credit = [q.credit EXCEPT ![c] = "idle"]
       /\ \A t \in Target : Queued(w, t) <=> Queued(q, t)
  BY <1>6, <1>8, <1>9, TakenOK
<1>11. /\ \A t \in Target : Queued(w, t) => Queued(queue, t) /\ t.slot # c
       /\ w.credit[c] = "idle"
       /\ \A d \in Conn \ {c} : w.credit[d] = "idle" <=> queue.credit[d] = "idle"
  BY <1>6, <1>7, <1>8, <1>10
<1>12. stale' \subseteq Target
       /\ \A t \in stale' : IF t.slot = c THEN t.epoch < x.epoch ELSE t \in stale
  <2>1. ASSUME NEW t \in stale, t.slot = c PROVE t.epoch < x.epoch
    <3>1. t.epoch < conn[c].epoch /\ t \in Target
      BY <2>1 DEF Lanes
    <3>2. t.epoch \in Nat
      BY <3>1, BoundsAssumption DEF Target, Epoch
    <3> QED
      BY <1>1, <1>3, <3>1, <3>2
  <2>2. id.epoch < x.epoch
    BY <1>1, <1>3
  <2> QED
    BY <1>1, <1>2, <2>1, <2>2 DEF Lanes
<1> QED
  BY <1>1, <1>2, <1>3, <1>9, <1>10, <1>11, <1>12, LanesStep

\* The lanes start empty.
LEMMA LanesInit ==
    ASSUME Init
    PROVE  Lanes
<1>1. queue = [lane |-> [r \in Resource |-> <<>>], credit |-> [c \in Conn |-> "idle"]]
      /\ stale = {} /\ conn = [c \in Conn |-> VacantEntry(0)]
  BY DEF Init
<1>2. queue \in QueueType
  BY <1>1 DEF QueueType, Credit
<1>3. \A r \in Resource : DOMAIN queue.lane[r] = {}
  BY <1>1
<1>4. \A c \in Conn : queue.credit[c] = "idle" /\ ~conn[c].input
  BY <1>1 DEF VacantEntry
<1> QED
  BY <1>1, <1>2, <1>3, <1>4 DEF Lanes, QueueOK, Queued

\* No call of the driver leaves a lane with a stale or a doubled entry.
LEMMA LanesNext ==
    ASSUME Pools, Lanes, [Next]_vars
    PROVE  Lanes'
<1>0. Entries
  BY DEF Pools
<1>1. ASSUME NEW c \in Conn, OpenFresh(c) \/ OpenCached(c) PROVE Lanes'
  BY <1>0, <1>1, LanesOpen
<1>2. ASSUME NEW c \in Conn, Discard(c) PROVE Lanes'
  BY <1>2, LanesDiscard
<1>3. ASSUME NEW c \in Conn, Deliver(c) PROVE Lanes'
  BY <1>0, <1>3, LanesDeliver
<1>4. ASSUME NEW c \in Conn, BlockRecv(c) \/ BlockEgress(c) PROVE Lanes'
  BY <1>0, <1>4, LanesBlock
<1>5. ASSUME NEW c \in Conn, GrowthFails(c) \/ Unused(c) \/ Process(c) PROVE Lanes'
  BY <1>5, LanesReceive
<1>6. ASSUME NEW c \in Conn,
             Prepare(c) \/ SealClose(c) \/ Submit(c) \/ Sent(c) \/ Eof(c)
      PROVE  Lanes'
  BY <1>6, LanesSend
<1>7. Serves(queue, queue) /\ \A r \in Resource : Serves(queue, Wake(queue, r))
  <2>1. Serves(queue, queue)
    BY DEF Serves, Lanes
  <2> QED
    BY <2>1, WakeServes
<1>8. CASE DropChunk \/ PollReady
  <2>1. UNCHANGED <<conn, stale>> /\ Serves(queue, queue')
    BY <1>7, <1>8 DEF DropChunk, PollReady, Ready, Resource
  <2> QED
    BY <2>1, LanesWake
<1>9. CASE CancelAgain
  <2>1. PICK id \in stale : queue' = Cancel(queue, id) /\ stale' = stale \ {id} /\ UNCHANGED conn
    BY <1>9 DEF CancelAgain
  <2>2. id \in Target /\ id.epoch < conn[id.slot].epoch /\ id.epoch \in Nat
    BY BoundsAssumption DEF Lanes, Target, Epoch
  <2>3. ~Queued(queue, id)
    <3>1. Queued(queue, id) => id.epoch = conn[id.slot].epoch
      BY <2>2 DEF Lanes, IdOf
    <3> QED
      BY <2>2, <3>1
  <2>4. UNCHANGED queue
    BY <2>1, <2>3 DEF Cancel
  <2> QED
    BY <2>1, <2>4 DEF Lanes, IdOf, Admitted
<1>10. CASE Reconfigure \/ UNCHANGED vars
  BY <1>10 DEF Reconfigure, vars, Lanes, IdOf, Admitted
<1>11. ASSUME NEW c \in Conn, OpenFails(c) PROVE UNCHANGED vars
  BY <1>11, FailedOpening
<1> QED
  BY <1>1, <1>2, <1>3, <1>4, <1>5, <1>6, <1>8, <1>9, <1>10, <1>11 DEF Next

-----------------------------------------------------------------------------
(* Theorems *)

\* Every call keeps the invariant.
THEOREM Invariance == Spec => []IInv
<1>1. Init => IInv
  BY PoolsInit, LanesInit DEF IInv
<1>2. IInv /\ [Next]_vars => IInv'
  BY PoolsNext, LanesNext DEF IInv
<1> QED
  BY <1>1, <1>2, PTL DEF Spec

\* The runtime's state has its type whatever the driver calls, with any number
\* of connections and pools of any size.
THEOREM TypeCorrect == Spec => []TypeOK
<1>1. IInv => TypeOK
  BY DEF IInv, Pools, Entries, PendingOK, RecvPool, SendPool, Leases, Lanes, QueueOK,
         QueueType, TypeOK
<1> QED
  BY <1>1, Invariance, PTL

\* No call of the driver loses or doubles a receive slot, a ciphertext slot or
\* a session lease.
THEOREM Conservation == Spec => []PoolsConserved
<1>1. IInv => PoolsConserved
  BY DEF IInv, Pools, RecvPool, SendPool, Leases, PoolsConserved
<1> QED
  BY <1>1, Invariance, PTL

\* Whoever owns a ciphertext slot has ciphertext in it between two calls.
THEOREM OwnersBusy == Spec => []SendOwnersBusy
<1>1. IInv => SendOwnersBusy
  BY DEF IInv, Pools, Entries, EntryOK, PendingOK, SendOwnersBusy
<1> QED
  BY <1>1, Invariance, PTL

\* A credit is held exactly while the connection that is in the table now has
\* one entry in one lane, and no delivered input is forgotten.
THEOREM Tracking == Spec => []WaitersTracked
<1>1. ASSUME IInv PROVE WaitersTracked
  <2>1. /\ QueueOK(queue)
        /\ \A t \in Target : Queued(queue, t) => t = IdOf(t.slot) /\ Admitted(t.slot)
        /\ \A c \in Conn : conn[c].input /\ ~conn[c].failed => queue.credit[c] # "idle"
        /\ \A c \in Conn : queue.credit[c] # "idle" => conn[c].input
    BY <1>1 DEF IInv, Lanes
  <2>2. \A r \in Resource : \A p \in DOMAIN queue.lane[r] :
          /\ queue.lane[r][p] \in Target /\ Queued(queue, queue.lane[r][p])
          /\ queue.credit[queue.lane[r][p].slot] = "held"
    BY <2>1 DEF QueueOK, QueueType, Queued
  <2>5. \A t \in Target : queue.credit[t.slot] = "held" => conn[t.slot].input
    BY <2>1 DEF Target
  <2>3. \A c \in Conn : queue.credit[c] = "held" => Queued(queue, IdOf(c))
    BY <2>1, HeldIffQueued
  <2>4. \A r, s \in Resource : \A p \in DOMAIN queue.lane[r], q \in DOMAIN queue.lane[s] :
          queue.lane[r][p].slot = queue.lane[s][q].slot => r = s /\ p = q
    BY <2>1 DEF QueueOK
  <2> QED
    BY <2>1, <2>2, <2>3, <2>4, <2>5 DEF WaitersTracked
<1> QED
  BY <1>1, Invariance, PTL

\* No set of waiting connections blocks itself: a poll can pop a lane, or what
\* they wait for is in the hands of the application or on its way out.
THEOREM NotStranded == Spec => []WaitersNotStranded
<1>1. ASSUME IInv PROVE WaitersNotStranded
  <2>1. SUFFICES ASSUME \E r \in Resource : queue.lane[r] # <<>>,
                        Ready = "none", retained # RecvSlots
                 PROVE  /\ sendFree = 0
                        /\ \/ pending.cached
                           \/ \E c \in Conn : conn[c].held /\ conn[c].cipher > 0
    BY DEF WaitersNotStranded
  <2>2. recvFree # 0
    BY <1>1, <2>1, SlotsAssumption DEF IInv, Pools, RecvPool
  <2>3. sendFree = 0
    BY <2>1, <2>2 DEF Ready, Resource
  <2>4. ASSUME ~pending.cached, SendHolders = {} PROVE FALSE
    <3>1. Cached(pending.cached /\ SendOnOpen) = 0 /\ Cardinality(SendHolders) = 0
      BY <2>4, FS_EmptySet DEF Cached
    <3> QED
      BY <1>1, <2>3, <3>1, SlotsAssumption DEF IInv, Pools, SendPool
  <2>5. \A c \in SendHolders : c \in Conn /\ conn[c].held /\ conn[c].cipher > 0
    BY <1>1 DEF SendHolders, IInv, Pools, Entries, EntryOK
  <2> QED
    BY <2>3, <2>4, <2>5
<1> QED
  BY <1>1, Invariance, PTL

\* What one step may do to an entry: admit it under the current policy, or
\* change an admitted one, whose submitted ciphertext stays as it is until it
\* is no longer submitted.
EntryChange(d) ==
    \/ conn'[d] = conn[d]
    \/ ~Admitted(d) /\ ~conn[d].inflight /\ conn'[d].policy = role
    \/ /\ Admitted(d)
       /\ conn[d].inflight /\ conn'[d].inflight =>
            conn'[d].cipher = conn[d].cipher /\ conn'[d].held

\* Every step of the endpoint changes a table entry in one of the ways above.
LEMMA EntryChanges ==
    ASSUME IInv, Next, NEW d \in Conn
    PROVE  EntryChange(d)
<1>1. Pools /\ Entries /\ conn \in [Conn -> Connection]
  BY DEF IInv, Pools, Entries
<1>2. ASSUME NEW c \in Conn, OpenFresh(c) \/ OpenCached(c) PROVE EntryChange(d)
  <2>1. conn[c].phase = "vacant" /\ UNCHANGED <<role>>
    BY <1>2 DEF OpenFresh, OpenCached
  <2>2. ~conn[c].inflight
    BY <1>1, <2>1 DEF Entries, EntryOK, VacantEntry
  <2>3. \/ conn' = conn
        \/ \E parts : conn' = [conn EXCEPT ![c] = Adopted(c, parts)] /\ parts.policy = role
    <3>1. CASE OpenFresh(c)
      BY <3>1 DEF OpenFresh, FreshOpening
    <3>2. CASE OpenCached(c)
      BY <1>1, <3>2 DEF OpenCached, Pools, PendingOK
    <3> QED
      BY <1>2, <3>1, <3>2
  <2>4. \A parts : Adopted(c, parts).policy = parts.policy
    BY DEF Adopted, VacantEntry
  <2> QED
    BY <1>1, <2>1, <2>2, <2>3, <2>4 DEF EntryChange, Admitted
<1>3. ASSUME NEW c \in Conn, Unused(c) \/ Process(c) PROVE EntryChange(d)
  <2>1. PICK x \in Connection, y \in Connection, keep \in BOOLEAN : Received(c, x, y, keep)
    BY <1>1, <1>3, ReceivedShape
  <2>2. Reserves(c)
    <3>1. CASE Unused(c)
      BY <3>1 DEF Unused
    <3>2. CASE Process(c)
      BY <3>2, Zenon DEF Process
    <3> QED
      BY <1>3, <3>1, <3>2
  <2>3. Admitted(c)
    BY <2>2 DEF Reserves, Tries
  <2>4. conn[c].inflight => y.cipher = conn[c].cipher /\ y.held
    BY <1>1, <2>1 DEF Received, WantsLoan, Entries, EntryOK
  <2> QED
    BY <1>1, <2>1, <2>3, <2>4 DEF EntryChange, Received
<1>4. ASSUME NEW c \in Conn, Prepare(c) \/ SealClose(c) \/ Submit(c) PROVE EntryChange(d)
  <2>1. Admitted(c) /\ ~conn[c].inflight
    BY <1>4 DEF Prepare, SealClose, Submit
  <2>2. \A e \in Conn : e # c => conn'[e] = conn[e]
    BY <1>1, <1>4 DEF Prepare, SealClose, Submit
  <2> QED
    BY <2>1, <2>2 DEF EntryChange
<1>5. ASSUME NEW c \in Conn, Sent(c) PROVE EntryChange(d)
  <2>1. PICK y \in Connection : SendStepOf(c, y)
    BY <1>1, <1>5, SentShape
  <2>2. ~FreeEmpty(y).inflight
    BY <2>1, FreeEmptyOK DEF SendStepOf
  <2>3. Admitted(c)
    <3>1. conn[c].inflight
      BY <1>5 DEF Sent
    <3> QED
      BY <1>1, <3>1 DEF Entries, EntryOK, VacantEntry, Admitted
  <2> QED
    BY <1>1, <2>1, <2>2, <2>3 DEF EntryChange, SendStepOf
<1>6. ASSUME NEW c \in Conn, Discard(c) PROVE EntryChange(d)
  <2>1. Admitted(c) /\ ~conn[c].inflight
        /\ conn' = [conn EXCEPT ![c] = VacantEntry(conn[c].epoch + 1)]
    BY <1>6 DEF Discard
  <2> QED
    BY <1>1, <2>1 DEF EntryChange
<1>7. ASSUME NEW c \in Conn,
             Deliver(c) \/ BlockRecv(c) \/ BlockEgress(c) \/ GrowthFails(c) \/ Eof(c)
      PROVE  EntryChange(d)
  <2>1. Admitted(c)
    BY <1>7 DEF Deliver, BlockRecv, BlockEgress, GrowthFails, Eof, Tries
  <2> DEFINE given == [conn[c] EXCEPT !.input = FALSE]
             got == [conn[c] EXCEPT !.input = TRUE]
             dead == [conn[c] EXCEPT !.failed = TRUE]
  <2>2. \A y \in {given, got, dead} : y.cipher = conn[c].cipher /\ y.held = conn[c].held
    BY <1>1 DEF Connection
  <2>3. \/ conn' = conn
        \/ \E y \in {given, got, dead} : conn' = [conn EXCEPT ![c] = y]
    BY <1>7 DEF Deliver, BlockRecv, BlockEgress, GrowthFails, Eof, Block
  <2>4. conn[c].inflight => conn[c].held
    BY <1>1 DEF Entries, EntryOK
  <2> HIDE DEF given, got, dead
  <2> QED
    BY <1>1, <2>1, <2>2, <2>3, <2>4 DEF EntryChange
<1>8. CASE Reconfigure \/ DropChunk \/ PollReady \/ CancelAgain
  BY <1>8 DEF Reconfigure, DropChunk, PollReady, CancelAgain, EntryChange
<1>9. ASSUME NEW c \in Conn, OpenFails(c) PROVE EntryChange(d)
  <2>1. UNCHANGED vars
    BY <1>1, <1>9, FailedOpening
  <2> QED
    BY <2>1 DEF EntryChange, vars
<1> QED
  BY <1>2, <1>3, <1>4, <1>5, <1>6, <1>7, <1>8, <1>9 DEF Next

\* A connection admitted after a reconfiguration never runs the old policy,
\* not even when it adopts an opening that had been cached.
THEOREM CurrentPolicy == Spec => AdmittedUnderCurrentRole
<1> DEFINE A == \A c \in Conn : (~Admitted(c) /\ Admitted(c)') => conn'[c].policy = role
<1>1. IInv /\ [Next]_vars => [A]_vars
  <2>1. ASSUME IInv, Next PROVE A
    BY <2>1, EntryChanges DEF EntryChange, Admitted
  <2> QED
    BY <2>1
<1>2. Spec => [][A]_vars
  BY <1>1, Invariance, PTL DEF Spec
<1> QED
  BY <1>2 DEF AdmittedUnderCurrentRole

\* Submitted ciphertext is not touched before its completion, whatever is
\* received meanwhile.
THEOREM Untouched == Spec => SubmittedUntouched
<1> DEFINE A == \A c \in Conn : (conn[c].inflight /\ conn'[c].inflight) =>
                   conn'[c].cipher = conn[c].cipher /\ conn'[c].held
<1>1. IInv /\ [Next]_vars => [A]_vars
  <2>1. ASSUME IInv, Next PROVE A
    <3>1. \A c \in Conn : conn[c].inflight => conn[c].held
      BY <2>1 DEF IInv, Pools, Entries, EntryOK
    <3> QED
      BY <2>1, <3>1, EntryChanges DEF EntryChange
  <2> QED
    BY <2>1
<1>2. Spec => [][A]_vars
  BY <1>1, Invariance, PTL DEF Spec
<1> QED
  BY <1>2 DEF SubmittedUntouched

-----------------------------------------------------------------------------
(* A capacity wait does not spin *)

\* Weight, as a function of the lanes and of which of them can be popped.
WeightIn(q, pops, c) ==
    IF \E r \in pops : Waits(q, c, r) THEN 2 ELSE IF q.credit[c] = "ready" THEN 1 ELSE 0

\* A wake takes the head of the lane out of the lanes, and nobody else.
LEMMA WakeWaits ==
    ASSUME NEW q, QueueOK(q), NEW r \in Resource, q.lane[r] # <<>>
    PROVE  /\ Waits(q, q.lane[r][1].slot, r)
           /\ \A s \in Resource, d \in Conn :
                Waits(Wake(q, r), d, s) <=> Waits(q, d, s) /\ d # q.lane[r][1].slot
<1> DEFINE w == Wake(q, r)
           h == q.lane[r][1].slot
<1>1. /\ 1 \in DOMAIN q.lane[r]
      /\ DOMAIN q.lane[r] = 1..Len(q.lane[r]) /\ Len(q.lane[r]) \in Nat
      /\ DOMAIN w.lane[r] = 1..Len(q.lane[r]) - 1
      /\ \A p \in 1..Len(q.lane[r]) - 1 : w.lane[r][p] = q.lane[r][p + 1]
      /\ \A s \in Resource : s # r => w.lane[s] = q.lane[s]
  <2>1. Popped(q, r, w)
    BY WakeLane
  <2> HIDE DEF w
  <2> QED
    BY <2>1, Zenon DEF Popped
<1> HIDE DEF w
<1>2. Waits(q, h, r)
  BY <1>1 DEF Waits
<1>3. ASSUME NEW s \in Resource, NEW d \in Conn
      PROVE  Waits(w, d, s) <=> Waits(q, d, s) /\ d # h
  <2>1. CASE s # r
    <3>1. \A p \in DOMAIN q.lane[s] : q.lane[s][p].slot # h
      BY <2>1, <1>1 DEF QueueOK
    <3> QED
      BY <2>1, <3>1, <1>1 DEF Waits
  <2>2. CASE s = r
    <3>1. \A p \in DOMAIN q.lane[r] : q.lane[r][p].slot = h => p = 1
      BY <1>1 DEF QueueOK
    <3>2. ASSUME Waits(w, d, r) PROVE Waits(q, d, r) /\ d # h
      <4>1. PICK p \in DOMAIN w.lane[r] : w.lane[r][p].slot = d
        BY <3>2 DEF Waits
      <4>2. p + 1 \in DOMAIN q.lane[r] /\ q.lane[r][p + 1].slot = d /\ p + 1 # 1
        BY <4>1, <1>1
      <4> QED
        BY <4>2, <3>1 DEF Waits
    <3>3. ASSUME Waits(q, d, r), d # h PROVE Waits(w, d, r)
      <4>1. PICK p \in DOMAIN q.lane[r] : q.lane[r][p].slot = d
        BY <3>3 DEF Waits
      <4>2. p # 1
        BY <4>1, <3>3
      <4>3. p - 1 \in 1..Len(q.lane[r]) - 1 /\ (p - 1) + 1 = p
        BY <4>1, <4>2, <1>1
      <4>4. p - 1 \in DOMAIN w.lane[r] /\ w.lane[r][p - 1].slot = d
        BY <4>1, <4>3, <1>1
      <4> QED
        BY <4>4 DEF Waits
    <3> QED
      BY <2>2, <3>2, <3>3
  <2> QED
    BY <2>1, <2>2
<1> QED
  BY <1>2, <1>3 DEF w

\* Registering puts one connection into one lane.
LEMMA RegisterWaits ==
    ASSUME NEW q, QueueOK(q), NEW r \in Resource, NEW id \in Target
    PROVE  \A s \in Resource, d \in Conn :
             Waits(Register(q, r, id), d, s) <=> Waits(q, d, s) \/ (d = id.slot /\ s = r)
<1> DEFINE w == Register(q, r, id)
<1> SUFFICES ASSUME NEW s \in Resource, NEW d \in Conn
             PROVE  Waits(w, d, s) <=> Waits(q, d, s) \/ (d = id.slot /\ s = r)
  OBVIOUS
<1>1. q.lane \in [Resource -> Seq(Target)] /\ q.lane[s] \in Seq(Target)
  BY DEF QueueOK, QueueType
<1>2. w.lane[s] = IF s = r THEN Append(q.lane[r], id) ELSE q.lane[s]
  BY <1>1 DEF Register
<1> HIDE DEF w
<1>3. CASE s # r
  BY <1>2, <1>3 DEF Waits
<1>4. CASE s = r
  <2> DEFINE l == q.lane[s]
             a == Append(l, id)
  <2>1. /\ DOMAIN l = 1..Len(l) /\ Len(l) \in Nat
        /\ DOMAIN a = 1..Len(l) + 1
        /\ a[Len(l) + 1] = id
        /\ \A p \in 1..Len(l) : a[p] = l[p]
    BY <1>1
  <2>2. w.lane[s] = a
    BY <1>2, <1>4
  <2> HIDE DEF a, l
  <2>3. \A p \in DOMAIN a : p = Len(l) + 1 \/ p \in DOMAIN l
    BY <2>1
  <2>4. (\E p \in DOMAIN a : a[p].slot = d) <=> (\E p \in DOMAIN l : l[p].slot = d) \/ d = id.slot
    BY <2>1, <2>3
  <2> QED
    BY <1>4, <2>2, <2>4 DEF Waits, l
<1> QED
  BY <1>3, <1>4

\* Cancelling puts nobody into a lane, and takes the named connection out.
LEMMA CancelWaits ==
    ASSUME NEW q, QueueOK(q), NEW id \in Target
    PROVE  \A s \in Resource, d \in Conn :
             Waits(Cancel(q, id), d, s) =>
               Waits(q, d, s) /\ (Queued(q, id) => d # id.slot)
<1> DEFINE w == Cancel(q, id)
<1>1. CASE ~Queued(q, id)
  BY <1>1 DEF Cancel
<1>2. CASE Queued(q, id)
  <2> SUFFICES ASSUME NEW s \in Resource, NEW d \in Conn, Waits(w, d, s)
               PROVE  Waits(q, d, s) /\ d # id.slot
    BY <1>2
  <2>1. PICK r \in Resource : \E p \in DOMAIN q.lane[r] : Removed(q, id, r, p, w)
    BY <1>2, CancelLane
  <2>2. PICK p \in DOMAIN q.lane[r] : Removed(q, id, r, p, w)
    BY <2>1
  <2> HIDE DEF w
  <2>0. /\ q.lane[r][p] = id
        /\ w \in QueueType
        /\ w.credit = [q.credit EXCEPT ![id.slot] = "idle"]
        /\ \A t \in Resource : t # r => w.lane[t] = q.lane[t]
        /\ DOMAIN q.lane[r] = 1..Len(q.lane[r]) /\ Len(q.lane[r]) \in Nat
        /\ DOMAIN w.lane[r] = 1..Len(q.lane[r]) - 1
        /\ \A i \in 1..Len(q.lane[r]) - 1 :
              w.lane[r][i] = IF i < p THEN q.lane[r][i] ELSE q.lane[r][i + 1]
    BY <2>2 DEF Removed
  <2>3. \A u \in Resource : \A i \in DOMAIN q.lane[u] :
          q.lane[u][i].slot = id.slot => u = r /\ i = p
    BY <2>0 DEF QueueOK
  <2> HIDE DEF w
  <2>4. PICK i \in DOMAIN w.lane[s] : w.lane[s][i].slot = d
    BY DEF Waits
  <2>5. CASE s # r
    BY <2>0, <2>3, <2>4, <2>5 DEF Waits
  <2>6. CASE s = r
    <3> DEFINE n == IF i < p THEN i ELSE i + 1
    <3>0. i \in 1..Len(q.lane[r]) - 1 /\ p \in 1..Len(q.lane[r])
      BY <2>0, <2>4, <2>6
    <3>1. n \in DOMAIN q.lane[r] /\ n # p
      BY <2>0, <3>0
    <3>2. w.lane[r][i] = q.lane[r][n]
      BY <2>0, <2>4, <2>6
    <3>3. q.lane[r][n].slot = d
      BY <3>2, <2>4, <2>6
    <3> HIDE DEF n
    <3> QED
      BY <3>1, <3>3, <2>3, <2>6 DEF Waits
  <2> QED
    BY <2>5, <2>6
<1> QED
  BY <1>1, <1>2

\* If no weight grows and one falls, the sum of the weights falls.
LEMMA Downhill ==
    ASSUME NEW f \in [Conn -> 0..2], NEW g \in [Conn -> 0..2],
           \A c \in Conn : g[c] <= f[c],
           NEW d \in Conn, g[d] < f[d]
    PROVE  Cardinality({c \in Conn : g[c] >= 1}) + Cardinality({c \in Conn : g[c] >= 2})
           < Cardinality({c \in Conn : f[c] >= 1}) + Cardinality({c \in Conn : f[c] >= 2})
<1> DEFINE F(n) == {c \in Conn : f[c] >= n}
           G(n) == {c \in Conn : g[c] >= n}
<1>1. ASSUME NEW n \in {1, 2}
      PROVE  /\ IsFiniteSet(F(n)) /\ IsFiniteSet(G(n))
             /\ Cardinality(F(n)) \in Nat /\ Cardinality(G(n)) \in Nat
             /\ Cardinality(G(n)) <= Cardinality(F(n))
             /\ d \in F(n) \ G(n) => Cardinality(G(n)) < Cardinality(F(n))
  <2>1. \A c \in Conn : f[c] \in 0..2 /\ g[c] \in 0..2
    OBVIOUS
  <2>2. G(n) \subseteq F(n) /\ F(n) \subseteq Conn
    BY <2>1
  <2> HIDE DEF F, G
  <2>3. IsFiniteSet(F(n)) /\ IsFiniteSet(G(n))
    BY <2>2, ConnAssumption, FS_Subset
  <2>4. Cardinality(F(n)) \in Nat /\ Cardinality(G(n)) \in Nat
    BY <2>3, FS_CardinalityType
  <2>5. Cardinality(G(n)) <= Cardinality(F(n))
    BY <2>2, <2>3, FS_Subset
  <2>6. G(n) # F(n) => Cardinality(G(n)) # Cardinality(F(n))
    BY <2>2, <2>3, FS_Subset
  <2> QED
    BY <2>3, <2>4, <2>5, <2>6
<1>2. d \in F(1) \ G(1) \/ d \in F(2) \ G(2)
  <2>1. f[d] \in 0..2 /\ g[d] \in 0..2
    OBVIOUS
  <2> QED
    BY <2>1
<1> HIDE DEF F, G
<1>3. Cardinality(G(1)) + Cardinality(G(2)) < Cardinality(F(1)) + Cardinality(F(2))
  BY <1>1, <1>2
<1> QED
  BY <1>3 DEF F, G

\* A weight is at most that of lanes with more waiters and the same credit.
LEMMA WeightMonotone ==
    ASSUME NEW q, NEW w, NEW pops \in SUBSET Resource, NEW d \in Conn,
           \A s \in Resource : Waits(w, d, s) => Waits(q, d, s),
           w.credit[d] = q.credit[d]
    PROVE  WeightIn(w, pops, d) <= WeightIn(q, pops, d)
<1>1. CASE \E r \in pops : Waits(q, d, r)
  BY <1>1 DEF WeightIn
<1>2. CASE ~\E r \in pops : Waits(q, d, r)
  <2>1. ~\E r \in pops : Waits(w, d, r)
    BY <1>2
  <2>2. WeightIn(w, pops, d) = WeightIn(q, pops, d)
    BY <1>2, <2>1 DEF WeightIn
  <2> QED
    BY <2>2 DEF WeightIn
<1> QED
  BY <1>1, <1>2

\* Popping a lane that may be popped takes one off the weight of its head.
LEMMA WakeLighter ==
    ASSUME NEW q, QueueOK(q), NEW pops \in SUBSET Resource, NEW r \in pops, q.lane[r] # <<>>
    PROVE  /\ \A d \in Conn : WeightIn(Wake(q, r), pops, d) <= WeightIn(q, pops, d)
           /\ \E d \in Conn : WeightIn(Wake(q, r), pops, d) < WeightIn(q, pops, d)
<1> DEFINE w == Wake(q, r)
           h == q.lane[r][1].slot
<1>1. /\ h \in Conn /\ w.credit = [q.credit EXCEPT ![h] = "ready"] /\ q.credit \in [Conn -> Credit]
  BY WakeLane DEF Popped, QueueOK, QueueType
<1>2. /\ Waits(q, h, r)
      /\ \A s \in Resource, d \in Conn : Waits(w, d, s) <=> Waits(q, d, s) /\ d # h
  BY WakeWaits
<1> HIDE DEF w, h
<1>3. WeightIn(q, pops, h) = 2 /\ WeightIn(w, pops, h) = 1
  <2>1. \A s \in pops : ~Waits(w, h, s)
    BY <1>1, <1>2
  <2>2. w.credit[h] = "ready"
    BY <1>1
  <2> QED
    BY <1>2, <2>1, <2>2 DEF WeightIn
<1>4. \A d \in Conn : d # h => WeightIn(w, pops, d) <= WeightIn(q, pops, d)
  BY <1>1, <1>2, WeightMonotone
<1> QED
  BY <1>1, <1>3, <1>4 DEF w, h

\* A receive that blocks again, in a lane that cannot be popped or by giving its
\* read up, has no weight left and adds none to the others.
LEMMA BlockLighter ==
    ASSUME Entries, NEW c \in Conn, NEW pops \in SUBSET Resource, NEW r \in Resource \ pops,
           NEW q, QueueOK(q), q.credit[c] = "idle", Block(c, q, r)
    PROVE  /\ \A d \in Conn \ {c} : WeightIn(queue', pops, d) <= WeightIn(q, pops, d)
           /\ WeightIn(queue', pops, c) = 0
<1> DEFINE id == IdOf(c)
           w == Register(q, r, id)
           z == Cancel(w, id)
<1>1. id \in Target /\ id.slot = c
  BY DEF Entries, Connection, IdOf, Target
<1> HIDE DEF id
<1>2. /\ QueueOK(w) /\ Queued(w, id)
      /\ w.credit = [q.credit EXCEPT ![c] = "held"]
  BY <1>1, RegisterOK
<1>3. \A s \in Resource, d \in Conn : Waits(w, d, s) <=> Waits(q, d, s) \/ (d = c /\ s = r)
  BY <1>1, RegisterWaits
<1>4. \A s \in Resource : ~Waits(q, c, s)
  BY DEF QueueOK, Waits
<1>5. q.credit \in [Conn -> Credit]
  BY DEF QueueOK, QueueType
<1> HIDE DEF w
<1>6. /\ z.credit = [w.credit EXCEPT ![c] = "idle"]
      /\ \A s \in Resource, d \in Conn : Waits(z, d, s) => Waits(w, d, s) /\ d # c
  BY <1>1, <1>2, CancelOK, CancelWaits
<1> HIDE DEF z
<1>7. CASE queue' = w
  <2>1. WeightIn(w, pops, c) = 0
    <3>1. w.credit[c] = "held"
      BY <1>2, <1>5
    <3>2. \A s \in pops : ~Waits(w, c, s)
      BY <1>3, <1>4
    <3> QED
      BY <3>1, <3>2 DEF WeightIn
  <2>2. ASSUME NEW d \in Conn \ {c} PROVE WeightIn(w, pops, d) <= WeightIn(q, pops, d)
    BY <1>2, <1>3, <1>5, WeightMonotone
  <2> QED
    BY <1>7, <2>1, <2>2
<1>8. CASE queue' = z
  <2>1. WeightIn(z, pops, c) = 0
    <3>1. z.credit[c] = "idle"
      BY <1>2, <1>5, <1>6
    <3>2. \A s \in pops : ~Waits(z, c, s)
      BY <1>6
    <3> QED
      BY <3>1, <3>2 DEF WeightIn
  <2>2. ASSUME NEW d \in Conn \ {c} PROVE WeightIn(z, pops, d) <= WeightIn(q, pops, d)
    <3>1. z.credit[d] = q.credit[d]
      BY <1>2, <1>5, <1>6
    <3>2. \A s \in Resource : Waits(z, d, s) => Waits(q, d, s)
      BY <1>3, <1>6
    <3> QED
      BY <3>1, <3>2, WeightMonotone
  <2> QED
    BY <1>8, <2>1, <2>2
<1> QED
  BY <1>7, <1>8 DEF Block, w, z, id

\* Taking the ready credit of c takes one off its weight, and changes no other.
LEMMA TakenLighter ==
    ASSUME NEW q, QueueOK(q), NEW c \in Conn, q.credit[c] = "ready",
           NEW pops \in SUBSET Resource
    PROVE  /\ WeightIn(q, pops, c) = 1
           /\ \A d \in Conn \ {c} : WeightIn(Taken(q, c), pops, d) = WeightIn(q, pops, d)
<1>1. \A s \in Resource : ~Waits(q, c, s)
  BY DEF QueueOK, Waits
<1>2. WeightIn(q, pops, c) = 1
  BY <1>1 DEF WeightIn
<1>3. /\ Taken(q, c).lane = q.lane
      /\ \A d \in Conn \ {c} : Taken(q, c).credit[d] = q.credit[d]
  BY DEF Taken, QueueOK, QueueType
<1> QED
  BY <1>2, <1>3 DEF WeightIn, Waits

\* A poll, and a receive that blocks again, make the sum of the weights smaller.
LEMMA WaitDescends ==
    ASSUME IInv, PollReady \/ \E c \in Conn : BlockRecv(c) \/ BlockEgress(c)
    PROVE  Weights' < Weights
<1> DEFINE pops == Poppable
           f == [d \in Conn |-> WeightIn(queue, pops, d)]
           g == [d \in Conn |-> WeightIn(queue', pops, d)]
<1>1. /\ QueueOK(queue) /\ Entries
      /\ recvFree \in Nat /\ sendFree \in Nat
  BY SlotsAssumption DEF IInv, Lanes, Pools, RecvPool, SendPool
<1>2. Poppable' = pops
  <2>1. recvFree' = recvFree /\ sendFree' = sendFree
    BY <1>1 DEF PollReady, BlockRecv, BlockEgress
  <2> QED
    BY <2>1 DEF Poppable
<1>3. pops \in SUBSET Resource
  BY DEF Poppable, Resource
<1>4. /\ \A d \in Conn : Weight(d) = WeightIn(queue, pops, d)
      /\ \A d \in Conn : Weight(d)' = WeightIn(queue', pops, d)
  BY <1>2 DEF Weight, WeightIn, Waits
<1> HIDE DEF pops
<1>5. (\A d \in Conn : g[d] <= f[d]) /\ (\E d \in Conn : g[d] < f[d])
  <2>1. CASE PollReady
    <3>1. Ready \in pops /\ queue.lane[Ready] # <<>> /\ queue' = Wake(queue, Ready)
      BY <2>1, <1>1 DEF PollReady, Ready, pops, Poppable, Resource
    <3> QED
      BY <3>1, <1>1, <1>3, WakeLighter
  <2>2. ASSUME NEW c \in Conn, BlockRecv(c) \/ BlockEgress(c)
        PROVE  (\A d \in Conn : g[d] <= f[d]) /\ (\E d \in Conn : g[d] < f[d])
    <3> DEFINE t == Taken(queue, c)
    <3>1. queue.credit[c] = "ready"
      BY <2>2 DEF BlockRecv, BlockEgress, Tries
    <3>2. QueueOK(t) /\ t.credit[c] = "idle"
      <4>1. queue.credit \in [Conn -> Credit]
        BY <1>1 DEF QueueOK, QueueType
      <4>2. QueueOK(t) /\ t.credit = [queue.credit EXCEPT ![c] = "idle"]
        BY <1>1, <3>1, TakenOK
      <4> QED
        BY <4>1, <4>2
    <3>3. /\ WeightIn(queue, pops, c) = 1
          /\ \A d \in Conn \ {c} : WeightIn(t, pops, d) = WeightIn(queue, pops, d)
      BY <1>1, <1>3, <3>1, TakenLighter
    <3> HIDE DEF t
    <3>4. ASSUME NEW q, QueueOK(q), q.credit[c] = "idle", NEW r \in Resource \ pops,
                 Block(c, q, r),
                 \A d \in Conn \ {c} : WeightIn(q, pops, d) <= WeightIn(t, pops, d)
          PROVE  (\A d \in Conn : g[d] <= f[d]) /\ (\E d \in Conn : g[d] < f[d])
      <4>1. /\ \A d \in Conn \ {c} : WeightIn(queue', pops, d) <= WeightIn(q, pops, d)
            /\ WeightIn(queue', pops, c) = 0
        BY <1>1, <1>3, <3>4, BlockLighter
      <4>2. \A d \in Conn : /\ WeightIn(queue', pops, d) \in Nat
                            /\ WeightIn(queue, pops, d) \in Nat
                            /\ WeightIn(q, pops, d) \in Nat
        BY DEF WeightIn
      <4>3. \A d \in Conn \ {c} : WeightIn(queue', pops, d) <= WeightIn(queue, pops, d)
        BY <4>1, <4>2, <3>3, <3>4
      <4> QED
        BY <4>1, <4>3, <3>3
    <3>5. CASE BlockRecv(c)
      <4>1. "Recv" \in Resource \ pops /\ Block(c, t, "Recv")
        BY <3>5 DEF BlockRecv, pops, Poppable, Resource, t
      <4>2. \A d \in Conn \ {c} : WeightIn(t, pops, d) <= WeightIn(t, pops, d)
        BY DEF WeightIn
      <4> QED
        BY <3>2, <3>4, <4>1, <4>2
    <3>6. CASE BlockEgress(c)
      <4> DEFINE u == Wake(t, "Recv")
      <4>1. "HandshakeEgress" \in Resource \ pops /\ "Recv" \in pops /\ Block(c, u, "HandshakeEgress")
        BY <3>6, <1>1 DEF BlockEgress, CanBuffer, pops, Poppable, Resource, t
      <4>2. QueueOK(u) /\ u.credit[c] = "idle"
        BY <3>2, WakeOK DEF Resource
      <4>3. \A d \in Conn \ {c} : WeightIn(u, pops, d) <= WeightIn(t, pops, d)
        <5>1. CASE t.lane["Recv"] = <<>>
          BY <5>1 DEF Wake, WeightIn
        <5>2. CASE t.lane["Recv"] # <<>>
          BY <5>2, <1>3, <3>2, <4>1, WakeLighter
        <5> QED
          BY <5>1, <5>2
      <4> HIDE DEF u
      <4> QED
        BY <3>4, <4>1, <4>2, <4>3
    <3> QED
      BY <2>2, <3>5, <3>6
  <2> QED
    BY <2>1, <2>2
<1>6. f \in [Conn -> 0..2] /\ g \in [Conn -> 0..2]
  BY DEF WeightIn
<1>7. /\ Weights = Cardinality({d \in Conn : f[d] >= 1}) + Cardinality({d \in Conn : f[d] >= 2})
      /\ Weights' = Cardinality({d \in Conn : g[d] >= 1}) + Cardinality({d \in Conn : g[d] >= 2})
  <2>1. \A n \in {1, 2} : /\ {d \in Conn : Weight(d) >= n} = {d \in Conn : f[d] >= n}
                          /\ {d \in Conn : Weight(d)' >= n} = {d \in Conn : g[d] >= n}
    BY <1>4
  <2> QED
    BY <2>1 DEF Weights
<1> HIDE DEF f, g
<1> QED
  BY <1>5, <1>6, <1>7, Downhill

\* A capacity wait does not spin: while no slot changes hands, polls and
\* retries that block again only go downhill.
THEOREM DoesNotSpin == Spec => CapacityWaitDoesNotSpin
<1> DEFINE A == (PollReady \/ \E c \in Conn : BlockRecv(c) \/ BlockEgress(c)) => Weights' < Weights
<1>1. IInv /\ [Next]_vars => [A]_vars
  BY WaitDescends
<1>2. Spec => [][A]_vars
  BY <1>1, Invariance, PTL DEF Spec
<1> QED
  BY <1>2 DEF CapacityWaitDoesNotSpin

-----------------------------------------------------------------------------
(* Nobody is overtaken *)

\* Of two entries of a lane of q, the later is behind the earlier in w too, as
\* long as the earlier waits and the later is not gone.
InOrder(q, w) ==
    \A r \in Resource : \A p, n \in DOMAIN q.lane[r] :
        /\ p < n
        /\ w.credit[q.lane[r][p].slot] = "held"
        /\ w.credit[q.lane[r][n].slot] # "idle"
        => \E i, j \in DOMAIN w.lane[r] :
              i < j /\ w.lane[r][i] = q.lane[r][p] /\ w.lane[r][j] = q.lane[r][n]

\* Nobody comes to wait, and who is idle stays so.
Declines(q, w) ==
    \A c \in Conn : /\ w.credit[c] = "held" => q.credit[c] = "held"
                    /\ q.credit[c] = "idle" => w.credit[c] = "idle"

\* Lanes w are what is left of q when waiters were woken or went.
Thinned(q, w) == QueueOK(w) /\ InOrder(q, w) /\ Declines(q, w)

\* The order is kept by two changes one after the other, if the second neither
\* makes a waiter of the first wait again nor revives it.
LEMMA InOrderTwice ==
    ASSUME NEW q, NEW w, NEW z, QueueOK(q), InOrder(q, w), InOrder(w, z),
           \A c \in Conn : q.credit[c] = "held" =>
              /\ z.credit[c] = "held" => w.credit[c] = "held"
              /\ w.credit[c] = "idle" => z.credit[c] = "idle"
    PROVE  InOrder(q, z)
<1> SUFFICES ASSUME NEW r \in Resource,
                    NEW p \in DOMAIN q.lane[r], NEW n \in DOMAIN q.lane[r], p < n,
                    z.credit[q.lane[r][p].slot] = "held",
                    z.credit[q.lane[r][n].slot] # "idle"
             PROVE  \E i, j \in DOMAIN z.lane[r] :
                      i < j /\ z.lane[r][i] = q.lane[r][p] /\ z.lane[r][j] = q.lane[r][n]
  BY DEF InOrder
<1>1. q.lane[r][p] \in Target /\ q.lane[r][n] \in Target
  BY DEF QueueOK, QueueType
<1>2. /\ q.credit[q.lane[r][p].slot] = "held" /\ q.lane[r][p].slot \in Conn
      /\ q.credit[q.lane[r][n].slot] = "held" /\ q.lane[r][n].slot \in Conn
  BY <1>1 DEF QueueOK, Target
<1>3. w.credit[q.lane[r][p].slot] = "held" /\ w.credit[q.lane[r][n].slot] # "idle"
  BY <1>2
<1>4. PICK i, j \in DOMAIN w.lane[r] :
        i < j /\ w.lane[r][i] = q.lane[r][p] /\ w.lane[r][j] = q.lane[r][n]
  BY <1>3 DEF InOrder
<1>5. z.credit[w.lane[r][i].slot] = "held" /\ z.credit[w.lane[r][j].slot] # "idle"
  BY <1>4
<1> QED
  BY <1>4, <1>5 DEF InOrder

\* With the lanes unchanged everybody keeps their place.
LEMMA SameLanesInOrder ==
    ASSUME NEW q, NEW w, w.lane = q.lane
    PROVE  InOrder(q, w)
BY DEF InOrder

\* A wake moves those behind the head up by one.
LEMMA WakeThins ==
    ASSUME NEW q, QueueOK(q), NEW r \in Resource
    PROVE  Thinned(q, Wake(q, r))
<1> DEFINE w == Wake(q, r)
<1>1. QueueOK(w) /\ Declines(q, w)
  BY WakeOK DEF Declines
<1>2. CASE q.lane[r] = <<>>
  BY <1>1, <1>2, SameLanesInOrder DEF Wake, Thinned
<1>3. CASE q.lane[r] # <<>>
  <2>1. Popped(q, r, w)
    BY <1>3, WakeLane
  <2> HIDE DEF w
  <2>2. /\ DOMAIN q.lane[r] = 1..Len(q.lane[r]) /\ Len(q.lane[r]) \in Nat
        /\ DOMAIN w.lane[r] = 1..Len(q.lane[r]) - 1
        /\ \A i \in 1..Len(q.lane[r]) - 1 : w.lane[r][i] = q.lane[r][i + 1]
        /\ \A s \in Resource : s # r => w.lane[s] = q.lane[s]
    BY <2>1, Zenon DEF Popped
  <2>3. w.credit[q.lane[r][1].slot] = "ready"
    BY <2>1 DEF Popped, QueueOK, QueueType
  <2>4. ASSUME NEW s \in Resource,
               NEW p \in DOMAIN q.lane[s], NEW n \in DOMAIN q.lane[s], p < n,
               w.credit[q.lane[s][p].slot] = "held"
        PROVE  \E i, j \in DOMAIN w.lane[s] :
                 i < j /\ w.lane[s][i] = q.lane[s][p] /\ w.lane[s][j] = q.lane[s][n]
    <3>1. CASE s # r
      BY <2>2, <2>4, <3>1
    <3>2. CASE s = r
      <4>1. p # 1
        BY <2>3, <2>4, <3>2
      <4>2. /\ p - 1 \in 1..Len(q.lane[r]) - 1 /\ (p - 1) + 1 = p
            /\ n - 1 \in 1..Len(q.lane[r]) - 1 /\ (n - 1) + 1 = n
            /\ p - 1 < n - 1
        BY <2>2, <2>4, <3>2, <4>1
      <4>3. w.lane[r][p - 1] = q.lane[r][p] /\ w.lane[r][n - 1] = q.lane[r][n]
        BY <2>2, <4>2
      <4> QED
        BY <2>2, <3>2, <4>2, <4>3
    <3> QED
      BY <3>1, <3>2
  <2> QED
    BY <1>1, <2>4 DEF InOrder, Thinned, w
<1> QED
  BY <1>2, <1>3

\* A cancel moves those behind the entry up by one.
LEMMA CancelThins ==
    ASSUME NEW q, QueueOK(q), NEW id \in Target
    PROVE  Thinned(q, Cancel(q, id))
<1> DEFINE w == Cancel(q, id)
<1>1. QueueOK(w) /\ Declines(q, w)
  <2>1. /\ QueueOK(w)
        /\ w.credit = IF Queued(q, id) THEN [q.credit EXCEPT ![id.slot] = "idle"] ELSE q.credit
    BY CancelOK
  <2>2. q.credit \in [Conn -> Credit] /\ id.slot \in Conn
    BY DEF QueueOK, QueueType, Target
  <2> HIDE DEF w
  <2> QED
    BY <2>1, <2>2 DEF Declines
<1>2. CASE ~Queued(q, id)
  BY <1>1, <1>2, SameLanesInOrder DEF Cancel, Thinned
<1>3. CASE Queued(q, id)
  <2>1. PICK r \in Resource : \E k \in DOMAIN q.lane[r] : Removed(q, id, r, k, w)
    BY <1>3, CancelLane
  <2>2. PICK k \in DOMAIN q.lane[r] : Removed(q, id, r, k, w)
    BY <2>1
  <2> HIDE DEF w
  <2>3. /\ DOMAIN q.lane[r] = 1..Len(q.lane[r]) /\ Len(q.lane[r]) \in Nat
        /\ DOMAIN w.lane[r] = 1..Len(q.lane[r]) - 1
        /\ \A i \in 1..Len(q.lane[r]) - 1 :
              w.lane[r][i] = IF i < k THEN q.lane[r][i] ELSE q.lane[r][i + 1]
        /\ \A s \in Resource : s # r => w.lane[s] = q.lane[s]
    BY <2>2, Zenon DEF Removed
  <2>4. w.credit[q.lane[r][k].slot] = "idle"
    BY <2>2 DEF Removed, QueueOK, QueueType, Target
  <2>5. ASSUME NEW s \in Resource,
               NEW p \in DOMAIN q.lane[s], NEW n \in DOMAIN q.lane[s], p < n,
               w.credit[q.lane[s][p].slot] = "held", w.credit[q.lane[s][n].slot] # "idle"
        PROVE  \E i, j \in DOMAIN w.lane[s] :
                 i < j /\ w.lane[s][i] = q.lane[s][p] /\ w.lane[s][j] = q.lane[s][n]
    <3>1. CASE s # r
      BY <2>3, <2>5, <3>1
    <3>2. CASE s = r
      <4> DEFINE up(m) == IF m < k THEN m ELSE m - 1
      <4>1. p # k /\ n # k
        BY <2>4, <2>5, <3>2
      <4>2. p \in 1..Len(q.lane[r]) /\ n \in 1..Len(q.lane[r]) /\ k \in 1..Len(q.lane[r])
        BY <2>3, <3>2
      <4>3. ASSUME NEW m \in 1..Len(q.lane[r]), m # k
            PROVE  up(m) \in 1..Len(q.lane[r]) - 1 /\ w.lane[r][up(m)] = q.lane[r][m]
        <5>1. /\ up(m) \in 1..Len(q.lane[r]) - 1
              /\ m < k => up(m) = m
              /\ ~(m < k) => up(m) + 1 = m /\ ~(up(m) < k)
          BY <4>2, <4>3, <2>3
        <5> HIDE DEF up
        <5> QED
          BY <5>1, <2>3
      <4>4. up(p) < up(n)
        BY <2>5, <2>3, <4>1, <4>2
      <4>5. /\ up(p) \in DOMAIN w.lane[r] /\ w.lane[r][up(p)] = q.lane[r][p]
            /\ up(n) \in DOMAIN w.lane[r] /\ w.lane[r][up(n)] = q.lane[r][n]
        BY <2>3, <4>1, <4>2, <4>3
      <4> HIDE DEF up
      <4> QED
        BY <3>2, <4>4, <4>5
    <3> QED
      BY <3>1, <3>2
  <2> QED
    BY <1>1, <2>5 DEF InOrder, Thinned, w
<1> QED
  BY <1>2, <1>3

\* Registering appends.
LEMMA RegisterInOrder ==
    ASSUME NEW q, QueueOK(q), NEW r \in Resource, NEW id \in Target
    PROVE  InOrder(q, Register(q, r, id))
<1> DEFINE w == Register(q, r, id)
<1>1. ASSUME NEW s \in Resource, NEW p \in DOMAIN q.lane[s]
      PROVE  p \in DOMAIN w.lane[s] /\ w.lane[s][p] = q.lane[s][p]
  <2>1. q.lane \in [Resource -> Seq(Target)] /\ q.lane[s] \in Seq(Target)
    BY DEF QueueOK, QueueType
  <2>2. w.lane[s] = IF s = r THEN Append(q.lane[s], id) ELSE q.lane[s]
    BY <2>1 DEF Register
  <2> DEFINE l == q.lane[s]
  <2>3. p \in DOMAIN Append(l, id) /\ Append(l, id)[p] = l[p]
    BY <2>1
  <2> HIDE DEF w
  <2> QED
    BY <2>2, <2>3
<1> HIDE DEF w
<1>2. InOrder(q, w)
  BY <1>1 DEF InOrder
<1> QED
  BY <1>2 DEF w

\* Thinning twice is thinning.
LEMMA ThinnedTwice ==
    ASSUME NEW q, NEW w, NEW z, QueueOK(q), Thinned(q, w), Thinned(w, z)
    PROVE  Thinned(q, z)
<1>1. Declines(q, z)
  BY DEF Thinned, Declines
<1>2. InOrder(q, z)
  BY InOrderTwice DEF Thinned, Declines
<1> QED
  BY <1>1, <1>2 DEF Thinned

\* Taking a ready credit moves nobody.
LEMMA TakenThins ==
    ASSUME NEW q, QueueOK(q), NEW c \in Conn, q.credit[c] = "ready"
    PROVE  Thinned(q, Taken(q, c))
<1>1. /\ QueueOK(Taken(q, c))
      /\ Taken(q, c).credit = [q.credit EXCEPT ![c] = "idle"]
  BY TakenOK
<1>2. q.credit \in [Conn -> Credit]
  BY DEF QueueOK, QueueType
<1>3. Declines(q, Taken(q, c))
  BY <1>1, <1>2 DEF Declines
<1>4. InOrder(q, Taken(q, c))
  BY SameLanesInOrder DEF Taken, QueueOK, QueueType
<1> QED
  BY <1>1, <1>3, <1>4 DEF Thinned

\* Registering a receive that blocks, and giving it up, moves nobody who waited.
LEMMA BlockInOrder ==
    ASSUME NEW c \in Conn, Entries, QueueOK(queue), queue.credit[c] = "ready",
           NEW q, Thinned(Taken(queue, c), q), NEW r \in Resource, Block(c, q, r)
    PROVE  InOrder(queue, queue')
<1> DEFINE id == IdOf(c)
           w == Register(q, r, id)
           z == Cancel(w, id)
<1>1. id \in Target /\ id.slot = c
  BY DEF Entries, Connection, IdOf, Target
<1> HIDE DEF id
<1>2. Thinned(queue, Taken(queue, c)) /\ QueueOK(q) /\ Thinned(queue, q)
  BY TakenThins, ThinnedTwice DEF Thinned
<1>3. q.credit[c] # "held" /\ q.credit \in [Conn -> Credit]
  BY <1>2 DEF Thinned, Declines, QueueOK, QueueType
<1>4. /\ QueueOK(w) /\ InOrder(q, w)
      /\ w.credit = [q.credit EXCEPT ![c] = "held"]
  BY <1>1, <1>2, <1>3, RegisterOK, RegisterInOrder
<1> HIDE DEF w
<1>5. Thinned(w, z)
  BY <1>1, <1>4, CancelThins
<1> HIDE DEF z
<1>6. \A d \in Conn : queue.credit[d] = "held" => w.credit[d] = q.credit[d]
  BY <1>3, <1>4
<1>7. InOrder(queue, w)
  <2>1. InOrder(queue, q)
    BY <1>2 DEF Thinned
  <2>2. \A d \in Conn : queue.credit[d] = "held" =>
           /\ w.credit[d] = "held" => q.credit[d] = "held"
           /\ q.credit[d] = "idle" => w.credit[d] = "idle"
    BY <1>6
  <2> QED
    BY <1>4, <2>1, <2>2, InOrderTwice
<1>8. InOrder(queue, z)
  BY <1>5, <1>7, InOrderTwice DEF Thinned, Declines
<1> QED
  BY <1>7, <1>8 DEF Block, w, z, id

\* Tearing a connection down moves up those behind it, and wakes at most one.
LEMMA DiscardInOrder ==
    ASSUME NEW c \in Conn, Entries, QueueOK(queue), Discard(c)
    PROVE  InOrder(queue, queue')
<1> DEFINE id == IdOf(c)
           f(q) == IF conn[c].held THEN Wake(q, "HandshakeEgress") ELSE q
<1>1. id \in Target
  BY DEF Entries, Connection, IdOf, Target
<1>2. queue' = Taken(f(Cancel(queue, id)), c) \/ queue' = Taken(Cancel(f(queue), id), c)
  BY DEF Discard
<1> HIDE DEF id
<1>3. ASSUME NEW q, QueueOK(q) PROVE Thinned(q, f(q))
  <2>1. Thinned(q, q)
    BY <1>3, SameLanesInOrder DEF Thinned, Declines
  <2>2. Thinned(q, Wake(q, "HandshakeEgress"))
    BY <1>3, WakeThins DEF Resource
  <2> QED
    BY <2>1, <2>2
<1> HIDE DEF f
<1>4. Thinned(queue, f(Cancel(queue, id)))
  <2>1. Thinned(queue, Cancel(queue, id))
    BY <1>1, CancelThins
  <2>2. Thinned(Cancel(queue, id), f(Cancel(queue, id)))
    BY <1>3, <2>1 DEF Thinned
  <2> QED
    BY <2>1, <2>2, ThinnedTwice
<1>5. Thinned(queue, Cancel(f(queue), id))
  <2>1. Thinned(queue, f(queue))
    BY <1>3
  <2>2. Thinned(f(queue), Cancel(f(queue), id))
    BY <1>1, <2>1, CancelThins DEF Thinned
  <2> QED
    BY <2>1, <2>2, ThinnedTwice
<1>6. ASSUME NEW q, Thinned(queue, q) PROVE InOrder(queue, Taken(q, c))
  <2>1. q \in QueueType /\ q.credit \in [Conn -> Credit]
    BY <1>6 DEF Thinned, QueueOK, QueueType
  <2>2. /\ Taken(q, c).lane = q.lane
        /\ Taken(q, c).credit = [q.credit EXCEPT ![c] = "idle"]
    BY <2>1 DEF Taken, QueueType
  <2>3. InOrder(q, Taken(q, c))
    BY <2>2, SameLanesInOrder
  <2>4. \A d \in Conn : /\ Taken(q, c).credit[d] = "held" => q.credit[d] = "held"
                        /\ q.credit[d] = "idle" => Taken(q, c).credit[d] = "idle"
    BY <2>1, <2>2
  <2> QED
    BY <1>6, <2>3, <2>4, InOrderTwice DEF Thinned
<1> QED
  BY <1>2, <1>4, <1>5, <1>6

\* No call moves one who waits past another.
LEMMA OrderKept ==
    ASSUME IInv, Next
    PROVE  InOrder(queue, queue')
<1>1. Entries /\ Pools /\ QueueOK(queue) /\ stale \subseteq Target
  BY DEF IInv, Lanes, Pools
<1>2. InOrder(queue, queue)
  BY SameLanesInOrder
<1>3. \A r \in Resource : InOrder(queue, Wake(queue, r))
  BY <1>1, WakeThins DEF Thinned
<1>4. ASSUME NEW c \in Conn,
             OpenFresh(c) \/ OpenCached(c) \/ Eof(c) \/ Prepare(c) \/ SealClose(c) \/ Submit(c)
      PROVE  InOrder(queue, queue')
  BY <1>2, <1>4 DEF OpenFresh, OpenCached, Eof, Prepare, SealClose, Submit
<1>5. ASSUME NEW c \in Conn, Deliver(c) PROVE InOrder(queue, queue')
  BY <1>1, <1>5, SameLanesInOrder DEF Deliver, QueueOK, QueueType
<1>6. ASSUME NEW c \in Conn, BlockRecv(c) \/ BlockEgress(c) PROVE InOrder(queue, queue')
  <2>1. queue.credit[c] = "ready"
    BY <1>6 DEF BlockRecv, BlockEgress, Tries
  <2> DEFINE t == Taken(queue, c)
  <2>2. Thinned(queue, t)
    BY <1>1, <2>1, TakenThins
  <2>3. QueueOK(t)
    BY <2>2 DEF Thinned
  <2>4. Thinned(t, t)
    BY <2>3, SameLanesInOrder DEF Thinned, Declines
  <2>5. Thinned(t, Wake(t, "Recv"))
    BY <2>3, WakeThins DEF Resource
  <2>6. \/ Block(c, t, "Recv")
        \/ Block(c, Wake(t, "Recv"), "HandshakeEgress")
    BY <1>6 DEF BlockRecv, BlockEgress
  <2> QED
    BY <1>1, <2>1, <2>4, <2>5, <2>6, BlockInOrder DEF Resource
<1>7. ASSUME NEW c \in Conn, GrowthFails(c) PROVE InOrder(queue, queue')
  BY <1>1, <1>7, TakenThins DEF GrowthFails, Tries, Thinned
<1>8. ASSUME NEW c \in Conn, Unused(c) \/ Process(c) PROVE InOrder(queue, queue')
  <2>1. PICK x \in Connection, y \in Connection, keep \in BOOLEAN : Received(c, x, y, keep)
    BY <1>1, <1>8, ReceivedShape
  <2>2. Reserves(c)
    <3>1. CASE Unused(c)
      BY <3>1 DEF Unused
    <3>2. CASE Process(c)
      BY <3>2, Zenon DEF Process
    <3> QED
      BY <1>8, <3>1, <3>2
  <2> DEFINE t == Taken(queue, c)
             first == IF keep THEN t ELSE Wake(t, "Recv")
  <2>3. Thinned(queue, t)
    BY <1>1, <2>2, TakenThins DEF Reserves, Tries
  <2>4. Thinned(queue, Wake(t, "Recv"))
    <3>1. Thinned(t, Wake(t, "Recv"))
      BY <2>3, WakeThins DEF Thinned, Resource
    <3> QED
      BY <1>1, <2>3, <3>1, ThinnedTwice
  <2>5. Thinned(queue, first)
    BY <2>3, <2>4
  <2> HIDE DEF first
  <2>6. Thinned(queue, Wake(first, "HandshakeEgress"))
    <3>1. Thinned(first, Wake(first, "HandshakeEgress"))
      BY <2>5, WakeThins DEF Thinned, Resource
    <3> QED
      BY <1>1, <2>5, <3>1, ThinnedTwice
  <2>7. queue' \in {t, first, Wake(first, "HandshakeEgress")}
    BY <2>1 DEF Received, Woken, first
  <2> QED
    BY <2>3, <2>5, <2>6, <2>7 DEF Thinned
<1>9. ASSUME NEW c \in Conn, Sent(c) PROVE InOrder(queue, queue')
  <2>1. queue' \in {queue, Wake(queue, "HandshakeEgress")}
    BY <1>9 DEF Sent
  <2> QED
    BY <1>2, <1>3, <2>1 DEF Resource
<1>10. ASSUME NEW c \in Conn, Discard(c) PROVE InOrder(queue, queue')
  BY <1>1, <1>10, DiscardInOrder
<1>11. CASE Reconfigure \/ DropChunk \/ PollReady
  BY <1>2, <1>3, <1>11 DEF Reconfigure, DropChunk, PollReady, Ready, Resource
<1>12. CASE CancelAgain
  BY <1>1, <1>12, CancelThins DEF CancelAgain, Thinned
<1>13. ASSUME NEW c \in Conn, OpenFails(c) PROVE InOrder(queue, queue')
  <2>1. UNCHANGED vars
    BY <1>1, <1>13, FailedOpening
  <2> QED
    BY <1>2, <2>1 DEF vars
<1> QED
  BY <1>4, <1>5, <1>6, <1>7, <1>8, <1>9, <1>10, <1>11, <1>12, <1>13 DEF Next

\* Nobody is overtaken: as long as a connection waits, whoever came into its
\* lane later waits behind it or is gone.
THEOREM FirstComeFirstServed == Spec => NoOvertaking
<1>1. IInv /\ [Next]_vars => [InOrder(queue, queue')]_vars
  BY OrderKept
<1>2. Spec => [][InOrder(queue, queue')]_vars
  BY <1>1, Invariance, PTL DEF Spec
<1> QED
  BY <1>2 DEF NoOvertaking, InOrder
=============================================================================
