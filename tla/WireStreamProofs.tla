--------------------------- MODULE WireStreamProofs ---------------------------
(***************************************************************************)
(* The abstract stream has its three invariants.  A step appends           *)
(* plaintext, control units and at most one end, in this order; everything *)
(* follows from what may come behind what is already produced.             *)
(***************************************************************************)
EXTENDS WireStream, SequenceTheorems, TLAPS

Kind == {"none", "close", "alert"}
Ends(kind) == IF kind = "none" THEN 0 ELSE 1

TypeInv ==
    /\ produced \in Seq(Unit) /\ wire \in Seq(Unit)
    /\ accepted \in Nat
    /\ closed \in BOOLEAN /\ failed \in BOOLEAN

\* An end that was produced is recorded.
EndsRecorded ==
    \A i \in 1..Len(produced) :
        /\ produced[i].kind = "close" => closed
        /\ produced[i].kind = "alert" => failed

IInv == TypeInv /\ EndsRecorded /\ DataInOrder /\ NothingAfterEnd /\ WireIsPrefix

-----------------------------------------------------------------------------
(* What one step appends *)

\* Plaintext first, then control units, then at most one end.
Shape(s, n, m, kind) ==
    /\ s \in Seq(Unit) /\ Len(s) = n + m + Ends(kind)
    /\ \A i \in 1..n : s[i] = DataUnit(accepted + i)
    /\ \A i \in (n + 1)..(n + m) : s[i] = [kind |-> "control", at |-> 0]
    /\ \A i \in (n + m + 1)..(n + m + Ends(kind)) : s[i] = [kind |-> kind, at |-> 0]

\* The shape of the appended sequence, unit by unit.
LEMMA SealedShape ==
    accepted \in Nat =>
        \A n \in Nat, m \in Nat, kind \in Kind : Shape(Sealed(n, m, kind), n, m, kind)
<1> SUFFICES ASSUME accepted \in Nat, NEW n \in Nat, NEW m \in Nat, NEW kind \in Kind
             PROVE  Shape(Sealed(n, m, kind), n, m, kind)
  OBVIOUS
<1> DEFINE d == Data(accepted, n)
           c == Controls(m)
           e == Last(kind)
           l == Ends(kind)
<1>1. /\ d \in Seq(Unit) /\ Len(d) = n
      /\ \A i \in 1..n : d[i] = DataUnit(accepted + i)
  <2>1. \A i \in 1..n : DataUnit(accepted + i) \in Unit BY DEF DataUnit, Unit
  <2>2. d = [i \in 1..n |-> DataUnit(accepted + i)] BY DEF Data
  <2> HIDE DEF d
  <2> QED BY <2>1, <2>2
<1>2. /\ c \in Seq(Unit) /\ Len(c) = m
      /\ \A i \in 1..m : c[i] = [kind |-> "control", at |-> 0]
  <2>1. [kind |-> "control", at |-> 0] \in Unit BY DEF Unit
  <2>2. c = [i \in 1..m |-> [kind |-> "control", at |-> 0]] BY DEF Controls
  <2> HIDE DEF c
  <2> QED BY <2>1, <2>2
<1>3. e \in Seq(Unit) /\ Len(e) = l /\ \A i \in 1..l : e[i] = [kind |-> kind, at |-> 0]
  <2>1. CASE kind = "none"
    <3>1. e = <<>> BY <2>1 DEF Last
    <3> QED BY <3>1, <2>1 DEF Ends
  <2>2. CASE kind # "none"
    <3>1. [kind |-> kind, at |-> 0] \in Unit BY <2>2 DEF Unit, Kind
    <3>2. e = <<[kind |-> kind, at |-> 0]>> BY <2>2 DEF Last
    <3> HIDE DEF e
    <3> QED BY <3>1, <3>2, <2>2 DEF Ends
  <2> QED BY <2>1, <2>2
<1> HIDE DEF d, c, e, l
<1>0. n \in Nat /\ m \in Nat /\ l \in Nat BY DEF l, Ends
<1> DEFINE dc == d \o c
           s == dc \o e
<1>4. /\ dc \in Seq(Unit) /\ Len(dc) = n + m
      /\ \A i \in 1..n + m : dc[i] = IF i <= n THEN d[i] ELSE c[i - n]
  <2>1. d \in Seq(Unit) /\ c \in Seq(Unit) /\ Len(d) = n /\ Len(c) = m BY <1>1, <1>2
  <2>2. /\ dc \in Seq(Unit) /\ Len(dc) = Len(d) + Len(c)
        /\ \A i \in 1..Len(d) + Len(c) : dc[i] = IF i <= Len(d) THEN d[i] ELSE c[i - Len(d)]
    BY <2>1, ConcatProperties, ZenonT(60)
  <2> HIDE DEF dc
  <2> QED BY <2>1, <2>2
<1> HIDE DEF dc
<1>5. /\ s \in Seq(Unit) /\ Len(s) = n + m + l
      /\ \A i \in 1..n + m + l : s[i] = IF i <= n + m THEN dc[i] ELSE e[i - (n + m)]
  <2>1. dc \in Seq(Unit) /\ e \in Seq(Unit) /\ Len(dc) = n + m /\ Len(e) = l
    BY <1>3, <1>4
  <2>2. /\ s \in Seq(Unit) /\ Len(s) = Len(dc) + Len(e)
        /\ \A i \in 1..Len(dc) + Len(e) : s[i] = IF i <= Len(dc) THEN dc[i] ELSE e[i - Len(dc)]
    BY <2>1, ConcatProperties, ZenonT(60)
  <2> HIDE DEF s
  <2> QED BY <2>1, <2>2
<1>7. Sealed(n, m, kind) = s BY DEF Sealed, d, c, e, dc
<1> HIDE DEF s
<1>8. \A i \in 1..n : s[i] = DataUnit(accepted + i)
  <2> TAKE i \in 1..n
  <2>1. i \in 1..n + m /\ i \in 1..n + m + l /\ i <= n /\ i <= n + m BY <1>0
  <2>2. s[i] = dc[i] /\ dc[i] = d[i] BY <2>1, <1>4, <1>5
  <2> QED BY <2>2, <1>1
<1>9. \A i \in (n + 1)..(n + m) : s[i] = [kind |-> "control", at |-> 0]
  <2> TAKE i \in (n + 1)..(n + m)
  <2>1. /\ i - n \in 1..m /\ i \in 1..n + m /\ ~(i <= n) /\ i <= n + m
        /\ i \in 1..n + m + l
    BY <1>0
  <2>2. s[i] = dc[i] /\ dc[i] = c[i - n] BY <2>1, <1>4, <1>5
  <2> QED BY <2>1, <2>2, <1>2
<1>10. \A i \in (n + m + 1)..(n + m + l) : s[i] = [kind |-> kind, at |-> 0]
  <2> TAKE i \in (n + m + 1)..(n + m + l)
  <2>1. i - (n + m) \in 1..l /\ ~(i <= n + m) /\ i \in 1..n + m + l BY <1>0
  <2>2. s[i] = e[i - (n + m)] BY <2>1, <1>5
  <2> QED BY <2>1, <2>2, <1>3
<1> QED BY <1>5, <1>7, <1>8, <1>9, <1>10 DEF l, Shape

-----------------------------------------------------------------------------
(* The invariant *)

\* The initial state satisfies the inductive invariant.
LEMMA InitInv == Init => IInv
<1> SUFFICES ASSUME Init PROVE IInv
  OBVIOUS
<1>1. PICK m \in 0..MaxControl : produced = Controls(m) BY DEF Init
<1>2. wire = <<>> /\ accepted = 0 /\ closed = FALSE /\ failed = FALSE BY DEF Init
<1>3. m \in Nat OBVIOUS
<1>4. /\ produced \in Seq(Unit) /\ Len(produced) = m
      /\ \A i \in 1..m : produced[i] = [kind |-> "control", at |-> 0]
  <2>1. [kind |-> "control", at |-> 0] \in Unit BY DEF Unit
  <2>2. produced = [i \in 1..m |-> [kind |-> "control", at |-> 0]]
    BY <1>1 DEF Controls
  <2> QED BY <2>1, <2>2, <1>3
<1>5. \A i \in 1..Len(produced) : produced[i].kind = "control" BY <1>4
<1>6. TypeInv
  <2>1. wire \in Seq(Unit) BY <1>2, EmptySeq
  <2> QED BY <2>1, <1>2, <1>4 DEF TypeInv
<1>7. EndsRecorded /\ NothingAfterEnd BY <1>5 DEF EndsRecorded, NothingAfterEnd
<1>8. DataInOrder BY <1>2, <1>5 DEF DataInOrder, IsData
<1>9. WireIsPrefix
  <2>1. Len(wire) = 0 /\ SubSeq(produced, 1, 0) = <<>> BY <1>2, SubSeqEmpty
  <2> QED BY <2>1, <1>2, <1>3, <1>4 DEF WireIsPrefix
<1> QED BY <1>6, <1>7, <1>8, <1>9 DEF IInv

\* Appending keeps the order of the plaintext and puts nothing behind an end.
LEMMA ProduceInv == IInv /\ Produce => IInv'
<1> SUFFICES ASSUME IInv, Produce PROVE IInv'
  OBVIOUS
<1> DEFINE L == Len(produced)
<1>1. PICK n \in 0..MaxPart, m \in 0..MaxControl, kind \in Kind :
        /\ n > 0 \/ kind = "close" => ~closed /\ ~failed
        /\ produced' = produced \o Sealed(n, m, kind)
        /\ accepted' = accepted + n
        /\ closed' = (closed \/ kind = "close")
        /\ failed' \in {failed, TRUE}
        /\ kind = "alert" => failed'
        /\ UNCHANGED wire
  BY Zenon DEF Produce, Kind
<1> DEFINE s == Sealed(n, m, kind)
           l == Ends(kind)
<1>2. n \in Nat /\ m \in Nat /\ l \in {0, 1} BY DEF Ends
<1>3. /\ produced \in Seq(Unit) /\ accepted \in Nat /\ L \in Nat
      /\ closed \in BOOLEAN /\ failed \in BOOLEAN
  BY DEF IInv, TypeInv
<1>4. /\ s \in Seq(Unit) /\ Len(s) = n + m + l
      /\ \A i \in 1..n : s[i] = DataUnit(accepted + i)
      /\ \A i \in (n + 1)..(n + m) : s[i] = [kind |-> "control", at |-> 0]
      /\ \A i \in (n + m + 1)..(n + m + l) : s[i] = [kind |-> kind, at |-> 0]
  <2>1. accepted \in Nat /\ n \in Nat /\ m \in Nat /\ kind \in Kind BY <1>2, <1>3
  <2>2. Shape(s, n, m, kind) BY <2>1, SealedShape
  <2> HIDE DEF s
  <2> QED BY <2>2 DEF Shape
<1> HIDE DEF s
<1>5. /\ produced' \in Seq(Unit) /\ Len(produced') = L + (n + m + l)
      /\ \A i \in 1..L : produced'[i] = produced[i]
      /\ \A i \in (L + 1)..(L + (n + m + l)) : produced'[i] = s[i - L]
  <2>1. produced' = produced \o s BY <1>1 DEF s
  <2>2. /\ produced \o s \in Seq(Unit) /\ Len(produced \o s) = L + Len(s)
        /\ \A i \in 1..L + Len(s) :
              (produced \o s)[i] = IF i <= L THEN produced[i] ELSE s[i - L]
    BY <1>3, <1>4, ConcatProperties
  <2> QED BY <2>1, <2>2, <1>2, <1>3, <1>4
<1> HIDE DEF L, l
\* Which of the new units are what.
<1>6. ASSUME NEW i \in (L + 1)..(L + (n + m + l))
      PROVE  /\ produced'[i].kind = "data" =>
                    i - L \in 1..n /\ produced'[i] = DataUnit(accepted + (i - L))
             /\ produced'[i].kind \in {"close", "alert"} =>
                    i = L + (n + m + l) /\ produced'[i].kind = kind /\ l = 1
  <2>1. i - L \in 1..n + m + l /\ produced'[i] = s[i - L] BY <1>5, <1>6, <1>2, <1>3
  <2>2. CASE i - L \in 1..n
    <3>1. produced'[i] = DataUnit(accepted + (i - L)) BY <2>1, <2>2, <1>4
    <3>2. produced'[i].kind = "data" BY <3>1 DEF DataUnit
    <3> QED BY <3>1, <3>2, <2>2
  <2>3. CASE i - L \in (n + 1)..(n + m)
    <3>1. produced'[i].kind = "control" BY <2>1, <2>3, <1>4
    <3> QED BY <3>1
  <2>4. CASE i - L \in (n + m + 1)..(n + m + l)
    <3>1. produced'[i].kind = kind BY <2>1, <2>4, <1>4
    <3>2. l = 1 /\ i = L + (n + m + l) BY <2>4, <1>2, <1>3, <1>6
    <3>3. kind # "data" BY DEF Kind
    <3> QED BY <3>1, <3>2, <3>3
  <2> QED BY <2>1, <2>2, <2>3, <2>4, <1>2, <1>3
<1>7. l = 1 <=> kind # "none" BY DEF l, Ends
<1>8. ASSUME NEW i \in 1..Len(produced'), i \notin 1..L
      PROVE  i \in (L + 1)..(L + (n + m + l))
  BY <1>8, <1>5, <1>2, <1>3
<1>9. TypeInv'
  <2>1. closed' \in BOOLEAN /\ failed' \in BOOLEAN BY <1>1, <1>3
  <2>2. wire' \in Seq(Unit) BY <1>1 DEF IInv, TypeInv
  <2> QED BY <2>1, <2>2, <1>1, <1>2, <1>3, <1>5 DEF TypeInv
<1>10. EndsRecorded'
  <2> SUFFICES ASSUME NEW i \in 1..Len(produced')
               PROVE  /\ produced'[i].kind = "close" => closed'
                      /\ produced'[i].kind = "alert" => failed'
    BY DEF EndsRecorded
  <2>1. CASE i \in 1..L
    <3>1. /\ produced[i].kind = "close" => closed
          /\ produced[i].kind = "alert" => failed
      BY <2>1 DEF IInv, EndsRecorded, L
    <3>2. (closed => closed') /\ (failed => failed') BY <1>1, <1>3
    <3>3. produced'[i] = produced[i] BY <2>1, <1>5
    <3> QED BY <3>1, <3>2, <3>3
  <2>2. CASE i \notin 1..L BY <2>2, <1>1, <1>6, <1>8
  <2> QED BY <2>1, <2>2
<1>11. DataInOrder'
  <2>1. ASSUME NEW i \in 1..Len(produced'), produced'[i].kind = "data"
        PROVE  /\ produced'[i].at \in 1..accepted + n
               /\ i \in 1..L => produced'[i].at \in 1..accepted
               /\ i \notin 1..L => produced'[i].at = accepted + (i - L)
    <3>1. CASE i \in 1..L
      <4>1. produced'[i] = produced[i] /\ produced[i].at \in 1..accepted
        BY <3>1, <2>1, <1>5 DEF IInv, DataInOrder, IsData, L
      <4> QED BY <4>1, <3>1, <1>2, <1>3
    <3>2. CASE i \notin 1..L
      <4>1. i - L \in 1..n /\ produced'[i] = DataUnit(accepted + (i - L))
        BY <3>2, <2>1, <1>6, <1>8
      <4>2. produced'[i].at = accepted + (i - L) BY <4>1 DEF DataUnit
      <4> QED BY <4>1, <4>2, <3>2, <1>2, <1>3
    <3> QED BY <3>1, <3>2
  <2>2. ASSUME NEW i \in 1..Len(produced'), NEW j \in 1..Len(produced'),
               produced'[i].kind = "data", produced'[j].kind = "data", i < j
        PROVE  produced'[i].at < produced'[j].at
    <3>1. CASE j \in 1..L
      <4>1. i \in 1..L BY <3>1, <2>2, <1>3
      <4>2. produced'[i] = produced[i] /\ produced'[j] = produced[j]
        BY <4>1, <3>1, <1>5
      <4> QED BY <4>1, <4>2, <3>1, <2>2 DEF IInv, DataInOrder, IsData, L
    <3>2. CASE j \notin 1..L /\ i \in 1..L
      <4>1. produced'[i].at \in 1..accepted /\ produced'[j].at = accepted + (j - L)
        BY <3>2, <2>1, <2>2
      <4>2. j > L BY <3>2, <1>3
      <4> QED BY <4>1, <4>2, <1>3
    <3>3. CASE j \notin 1..L /\ i \notin 1..L
      <4>1. produced'[i].at = accepted + (i - L) /\ produced'[j].at = accepted + (j - L)
        BY <3>3, <2>1, <2>2
      <4> QED BY <4>1, <2>2, <1>3
    <3> QED BY <3>1, <3>2, <3>3
  <2>3. ASSUME NEW x \in 1..accepted + n
        PROVE  \E i \in 1..Len(produced') : produced'[i] = DataUnit(x)
    <3>1. CASE x \in 1..accepted
      <4>1. PICK i \in 1..L : produced[i] = DataUnit(x)
        BY <3>1 DEF IInv, DataInOrder, L
      <4>2. i \in 1..Len(produced') BY <1>2, <1>3, <1>5
      <4> QED BY <4>1, <4>2, <1>5
    <3>2. CASE x \notin 1..accepted
      <4>1. x - accepted \in 1..n BY <3>2, <1>2, <1>3
      <4> DEFINE i == L + (x - accepted)
      <4>2. /\ i \in (L + 1)..(L + (n + m + l)) /\ i \in 1..Len(produced')
            /\ i - L = x - accepted /\ accepted + (x - accepted) = x
        BY <4>1, <1>2, <1>3, <1>5
      <4>3. produced'[i] = s[x - accepted] BY <4>2, <1>5
      <4>4. s[x - accepted] = DataUnit(x) BY <4>1, <4>2, <1>4
      <4> QED BY <4>2, <4>3, <4>4
    <3> QED BY <3>1, <3>2
  <2>4. accepted' = accepted + n BY <1>1
  <2> QED BY <2>1, <2>2, <2>3, <2>4 DEF DataInOrder, IsData
<1>12. NothingAfterEnd'
  <2> SUFFICES ASSUME NEW i \in 1..Len(produced'), NEW j \in 1..Len(produced'),
                      i < j, produced'[i].kind \in {"close", "alert"}
               PROVE  produced'[j].kind \notin {"data", "close"}
    BY DEF NothingAfterEnd
  <2>1. CASE i \notin 1..L
    <3>1. i = L + (n + m + l) BY <2>1, <1>6, <1>8
    <3> QED BY <3>1, <1>2, <1>3, <1>5
  <2>2. CASE j \in 1..L
    <3>1. i \in 1..L BY <2>2, <1>3
    <3> QED BY <3>1, <2>2, <1>5 DEF IInv, NothingAfterEnd, L
  <2>3. CASE i \in 1..L /\ j \notin 1..L
    <3>1. closed \/ failed BY <2>3, <1>5 DEF IInv, EndsRecorded, L
    <3>2. n = 0 /\ kind # "close" BY <3>1, <1>1, <1>2
    <3> QED BY <3>2, <2>3, <1>6, <1>8
  <2> QED BY <2>1, <2>2, <2>3
<1>13. WireIsPrefix'
  <2>1. Len(wire) <= L /\ wire = SubSeq(produced, 1, Len(wire))
    BY DEF IInv, WireIsPrefix, L
  <2>2. Len(wire) \in Nat BY DEF IInv, TypeInv
  <2>3. SubSeq(produced', 1, Len(wire)) = SubSeq(produced, 1, Len(wire))
    <3>1. CASE Len(wire) = 0 BY <3>1, SubSeqEmpty
    <3>2. CASE Len(wire) # 0
      <4>1. 1 \in 1..L /\ Len(wire) \in 1..L BY <3>2, <2>1, <2>2, <1>3
      <4>2. SubSeq(produced \o s, 1, Len(wire)) = SubSeq(produced, 1, Len(wire))
        BY <4>1, <1>3, <1>4, SubSeqOfConcat1 DEF L
      <4> QED BY <4>2, <1>1 DEF s
    <3> QED BY <3>1, <3>2
  <2> QED BY <2>1, <2>2, <2>3, <1>1, <1>2, <1>3, <1>5 DEF WireIsPrefix
<1> QED BY <1>9, <1>10, <1>11, <1>12, <1>13 DEF IInv

\* Transmitting moves the end of the prefix.
LEMMA TransmitInv == IInv /\ Transmit => IInv'
<1> SUFFICES ASSUME IInv, Transmit PROVE IInv'
  OBVIOUS
<1>1. PICK n \in (Len(wire) + 1)..Len(produced) : wire' = SubSeq(produced, 1, n)
  BY DEF Transmit
<1>2. failed' \in {failed, TRUE} /\ UNCHANGED <<produced, accepted, closed>>
  BY DEF Transmit
<1>3. TypeInv /\ wire \in Seq(Unit) BY DEF IInv, TypeInv
<1>4. WireIsPrefix'
  <2>1. n \in 0..Len(produced) /\ produced \in Seq(Unit) BY <1>1, <1>3 DEF TypeInv
  <2>2. \A i \in 1..n : produced[i] \in Unit BY <2>1
  <2>3. Len(SubSeq(produced, 1, n)) = n BY <2>1, <2>2, SubSeqProperties
  <2> QED BY <2>1, <2>3, <1>1, <1>2 DEF WireIsPrefix
<1>5. TypeInv' /\ EndsRecorded'
  <2>1. n \in 0..Len(produced) /\ produced \in Seq(Unit) BY <1>1, <1>3 DEF TypeInv
  <2>2. \A i \in 1..n : produced[i] \in Unit BY <2>1
  <2>3. wire' \in Seq(Unit) BY <2>1, <2>2, <1>1, SubSeqProperties
  <2>4. failed' \in BOOLEAN /\ (failed => failed') BY <1>2, <1>3 DEF TypeInv
  <2>5. TypeInv' BY <2>3, <2>4, <1>2, <1>3 DEF TypeInv
  <2>6. EndsRecorded' BY <2>4, <1>2 DEF IInv, EndsRecorded
  <2> QED BY <2>5, <2>6
<1>6. DataInOrder' /\ NothingAfterEnd'
  BY <1>2 DEF IInv, DataInOrder, IsData, NothingAfterEnd
<1> QED BY <1>4, <1>5, <1>6 DEF IInv

-----------------------------------------------------------------------------
(* What every implementation of the stream inherits *)

\* The inductive invariant of the abstract stream.
THEOREM Invariance == Spec => []IInv
<1>1. IInv /\ [Next]_stream => IInv'
  <2>1. IInv /\ Produce => IInv' BY ProduceInv
  <2>2. IInv /\ Transmit => IInv' BY TransmitInv
  <2>3. IInv /\ UNCHANGED stream => IInv'
    BY DEF stream, IInv, TypeInv, EndsRecorded, DataInOrder, IsData,
       NothingAfterEnd, WireIsPrefix
  <2> QED BY <2>1, <2>2, <2>3 DEF Next
<1> QED BY <1>1, InitInv, PTL DEF Spec

\* Consumed plaintext is sealed once and in order.
THEOREM InOrder == Spec => []DataInOrder
<1>1. IInv => DataInOrder BY DEF IInv
<1> QED BY <1>1, Invariance, PTL

\* Nothing follows the end of a stream but control units and one alert.
THEOREM EndIsLast == Spec => []NothingAfterEnd
<1>1. IInv => NothingAfterEnd BY DEF IInv
<1> QED BY <1>1, Invariance, PTL

\* What the peer gets is a prefix of what was produced.
THEOREM Prefix == Spec => []WireIsPrefix
<1>1. IInv => WireIsPrefix BY DEF IInv
<1> QED BY <1>1, Invariance, PTL

===============================================================================
