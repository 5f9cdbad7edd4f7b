----------------------------- MODULE SessionProofs -----------------------------
(***************************************************************************)
(* The two ends of a session agree on its end.  What the reader published  *)
(* is always a beginning of the wire, and all that is decoded unless it    *)
(* failed; it reports the end of the stream only behind a close_notify.    *)
(* The abstract stream says the rest: the wire is a prefix of what was     *)
(* sealed, its plaintext is in order, and none follows the close.          *)
(***************************************************************************)
EXTENDS Session, WireStreamProofs

\* Published is a beginning of the wire: all that is decoded, but for a lost
\* last read.
Beginning ==
    /\ \E k \in 0..decoded : delivered = 1..k
    /\ ~broken => delivered = 1..decoded

\* The end that is reported is the close_notify decoded last.
EndSeen ==
    /\ told = "eof" => peer_closed
    /\ peer_closed /\ ~broken => decoded > 0 /\ wire[decoded].kind = "close"

SInv == IInv /\ TypeOK /\ Beginning /\ EndSeen

-----------------------------------------------------------------------------
(* The wire *)

\* The wire carries what was produced, position by position.
LEMMA WireAt == IInv => \A i \in 1..Len(wire) : i \in 1..Len(produced) /\ wire[i] = produced[i]
<1> SUFFICES ASSUME IInv, NEW i \in 1..Len(wire)
             PROVE  i \in 1..Len(produced) /\ wire[i] = produced[i]
  OBVIOUS
<1>1. /\ produced \in Seq(Unit) /\ wire \in Seq(Unit)
      /\ Len(wire) <= Len(produced) /\ wire = SubSeq(produced, 1, Len(wire))
  BY DEF IInv, TypeInv, WireIsPrefix
<1> DEFINE n == Len(wire)
<1>2. n \in Nat /\ Len(produced) \in Nat BY <1>1
<1>3. n \in 0..Len(produced) /\ i \in 1..n /\ i \in 1..Len(produced) BY <1>1, <1>2
<1> HIDE DEF n
<1>4. \A j \in 1..n : produced[j] \in Unit BY <1>1, <1>3
<1>5. SubSeq(produced, 1, n)[i] = produced[i] BY <1>1, <1>3, <1>4
<1> QED BY <1>1, <1>3, <1>5 DEF n

\* The wire only grows, and what is on it stays.
LEMMA WireGrows ==
    IInv /\ Write =>
        /\ Len(wire) <= Len(wire')
        /\ \A i \in 1..Len(wire) : wire'[i] = wire[i]
<1> SUFFICES ASSUME IInv, Write
             PROVE  /\ Len(wire) <= Len(wire')
                    /\ \A i \in 1..Len(wire) : wire'[i] = wire[i]
  OBVIOUS
<1>1. wire \in Seq(Unit) /\ produced \in Seq(Unit) BY DEF IInv, TypeInv
<1>2. CASE Produce
  <2>1. wire' = wire BY <1>2 DEF Produce
  <2> QED BY <2>1, <1>1
<1>3. CASE Transmit
  <2>1. PICK n \in (Len(wire) + 1)..Len(produced) : wire' = SubSeq(produced, 1, n)
    BY <1>3 DEF Transmit
  <2>2. Len(wire) \in Nat /\ Len(produced) \in Nat BY <1>1
  <2>3. n \in 0..Len(produced) /\ n > Len(wire) BY <2>1, <2>2
  <2>4. \A j \in 1..n : produced[j] \in Unit BY <2>2, <2>3, <1>1
  <2>5. /\ Len(SubSeq(produced, 1, n)) = n
        /\ \A i \in 1..n : SubSeq(produced, 1, n)[i] = produced[i]
    BY <2>3, <2>4, <1>1
  <2>6. Len(wire') = n /\ \A i \in 1..n : wire'[i] = produced[i] BY <2>1, <2>5
  <2>7. \A i \in 1..Len(wire) : wire[i] = produced[i] BY WireAt
  <2>8. \A i \in 1..Len(wire) : i \in 1..n BY <2>2, <2>3
  <2> QED BY <2>2, <2>3, <2>6, <2>7, <2>8
<1> QED BY <1>2, <1>3 DEF Write

-----------------------------------------------------------------------------
(* The invariant *)

\* The initial state satisfies the inductive invariant.
LEMMA SInitInv == SessionInit => SInv
<1> SUFFICES ASSUME SessionInit PROVE SInv
  OBVIOUS
<1>1. IInv BY InitInv DEF SessionInit
<1>2. /\ seen = 0 /\ decoded = 0 /\ delivered = {}
      /\ peer_closed = FALSE /\ broken = FALSE /\ told = "open"
  BY DEF SessionInit, ReaderInit
<1>3. Len(wire) = 0 BY DEF SessionInit, Init
<1>4. delivered = 1..0 /\ 0 \in 0..decoded BY <1>2
<1>5. TypeOK
  <2>1. seen \in 0..Len(wire) /\ decoded \in 0..seen /\ delivered \subseteq 1..decoded
    BY <1>2, <1>3
  <2> QED BY <2>1, <1>2 DEF TypeOK
<1>6. Beginning /\ EndSeen BY <1>2, <1>4 DEF Beginning, EndSeen
<1> QED BY <1>1, <1>5, <1>6 DEF SInv

\* A step of the writer moves nothing the reader has seen.
LEMMA WriteInv == SInv /\ Write => SInv'
<1> SUFFICES ASSUME SInv, Write PROVE SInv'
  OBVIOUS
<1>1. IInv' BY ProduceInv, TransmitInv DEF SInv, Write
<1>2. /\ Len(wire) <= Len(wire')
      /\ \A i \in 1..Len(wire) : wire'[i] = wire[i]
  BY WireGrows DEF SInv
<1>3. /\ seen' = seen /\ decoded' = decoded /\ delivered' = delivered
      /\ peer_closed' = peer_closed /\ broken' = broken /\ told' = told
  BY DEF Write, reader
<1>4. Len(wire) \in Nat /\ Len(wire') \in Nat
  <2>1. wire \in Seq(Unit) /\ wire' \in Seq(Unit) BY <1>1 DEF SInv, IInv, TypeInv
  <2> QED BY <2>1
<1>5. seen \in 0..Len(wire) /\ decoded \in 0..seen BY DEF SInv, TypeOK
<1>6. seen' \in 0..Len(wire') BY <1>2, <1>3, <1>4, <1>5
<1>7. TypeOK' BY <1>3, <1>6 DEF SInv, TypeOK
<1>8. Beginning' BY <1>3 DEF SInv, Beginning
<1>9. EndSeen'
  <2>1. decoded > 0 => wire'[decoded] = wire[decoded] BY <1>2, <1>4, <1>5
  <2> QED BY <2>1, <1>3 DEF SInv, EndSeen
<1> QED BY <1>1, <1>7, <1>8, <1>9 DEF SInv

\* A read publishes what it decodes, or fails.
LEMMA ReadInv == SInv /\ Read => SInv'
<1> SUFFICES ASSUME SInv, Read PROVE SInv'
  OBVIOUS
<1>1. ~peer_closed /\ ~broken /\ UNCHANGED stream BY DEF Read, Reads
<1>2. PICK s \in (seen + 1)..Len(wire) : \E d \in decoded..s, result, kept \in BOOLEAN :
        /\ result => kept
        /\ seen' = s /\ decoded' = d
        /\ delivered' = delivered \cup (IF kept THEN (decoded + 1)..d ELSE {})
        /\ peer_closed' = (d > decoded /\ wire[d].kind = "close")
        /\ broken' = ~result
        /\ told' = Outcome(result, d > decoded /\ wire[d].kind = "close")
  BY DEF Read
<1>3. PICK d \in decoded..s, result \in BOOLEAN, kept \in BOOLEAN :
        /\ result => kept
        /\ seen' = s /\ decoded' = d
        /\ delivered' = delivered \cup (IF kept THEN (decoded + 1)..d ELSE {})
        /\ peer_closed' = (d > decoded /\ wire[d].kind = "close")
        /\ broken' = ~result
        /\ told' = Outcome(result, d > decoded /\ wire[d].kind = "close")
  BY <1>2
<1>4. IInv' BY <1>1 DEF SInv, stream, IInv, TypeInv, EndsRecorded, DataInOrder, IsData,
       NothingAfterEnd, WireIsPrefix
<1>5. Len(wire) \in Nat
  <2>1. wire \in Seq(Unit) BY DEF SInv, IInv, TypeInv
  <2> QED BY <2>1
<1>6. seen \in 0..Len(wire) /\ decoded \in 0..seen /\ delivered = 1..decoded
  BY <1>1 DEF SInv, TypeOK, Beginning
<1>7. /\ seen \in Nat /\ decoded \in Nat /\ s \in Nat /\ d \in Nat
      /\ decoded <= d /\ d <= s /\ s <= Len(wire) /\ decoded <= seen
  BY <1>2, <1>3, <1>5, <1>6
<1>8. wire' = wire BY <1>1 DEF stream
<1>9. delivered' = IF kept THEN 1..d ELSE 1..decoded
  <2>1. (1..decoded) \cup ((decoded + 1)..d) = 1..d BY <1>7
  <2> QED BY <2>1, <1>3, <1>6
<1>10. TypeOK'
  <2>1. seen' \in 0..Len(wire') /\ decoded' \in 0..seen' BY <1>3, <1>7, <1>8, <1>5
  <2>2. delivered' \subseteq 1..decoded' BY <1>3, <1>7, <1>9
  <2>3. peer_closed' \in BOOLEAN /\ broken' \in BOOLEAN BY <1>3
  <2>4. told' \in {"open", "eof", "failed"} /\ (told' = "failed" <=> broken')
    BY <1>3 DEF Outcome
  <2> QED BY <2>1, <2>2, <2>3, <2>4 DEF TypeOK
<1>11. Beginning'
  <2>1. decoded \in 0..d /\ d \in 0..d BY <1>7
  <2> QED BY <2>1, <1>3, <1>9 DEF Beginning
<1>12. EndSeen'
  <2>1. told' = "eof" => peer_closed'
    <3>1. CASE result
      <4>1. told' = "eof" => d > decoded /\ wire[d].kind = "close"
        BY <3>1, <1>3, Zenon DEF Outcome
      <4> QED BY <4>1, <1>3
    <3>2. CASE ~result
      <4>1. told' = "failed" BY <3>2, <1>3 DEF Outcome
      <4> QED BY <4>1
    <3> QED BY <3>1, <3>2
  <2>2. peer_closed' => d > decoded /\ wire[d].kind = "close" BY <1>3, Zenon
  <2>3. d > decoded => d > 0 BY <1>7
  <2> QED BY <2>1, <2>2, <2>3, <1>3, <1>8 DEF EndSeen
<1> QED BY <1>4, <1>10, <1>11, <1>12 DEF SInv

\* The end of the TCP stream changes no data.
LEMMA EofInv == SInv /\ Eof => SInv'
<1> SUFFICES ASSUME SInv, Eof PROVE SInv'
  OBVIOUS
<1>1. /\ ~broken /\ broken' = ~peer_closed
      /\ told' = IF peer_closed THEN told ELSE "failed"
      /\ seen' = seen /\ decoded' = decoded /\ delivered' = delivered
      /\ peer_closed' = peer_closed /\ UNCHANGED stream
  BY DEF Eof
<1>2. IInv' BY <1>1 DEF SInv, stream, IInv, TypeInv, EndsRecorded, DataInOrder, IsData,
       NothingAfterEnd, WireIsPrefix
<1>3. wire' = wire BY <1>1 DEF stream
<1>4. peer_closed \in BOOLEAN BY DEF SInv, TypeOK
<1>5. TypeOK' BY <1>1, <1>3, <1>4 DEF SInv, TypeOK
<1>6. Beginning' BY <1>1 DEF SInv, Beginning
<1>7. EndSeen' BY <1>1, <1>3, <1>4 DEF SInv, EndSeen
<1> QED BY <1>2, <1>5, <1>6, <1>7 DEF SInv

-----------------------------------------------------------------------------
(* What an application may rely on *)

\* The inductive invariant of the session.
THEOREM SessionInvariance == SessionSpec => []SInv
<1>1. SInv /\ [SessionNext]_session => SInv'
  <2>1. SInv /\ UNCHANGED session => SInv'
    <3> SUFFICES ASSUME SInv, UNCHANGED session PROVE SInv'
      OBVIOUS
    <3>1. UNCHANGED stream /\ UNCHANGED reader BY DEF session
    <3>2. IInv' BY <3>1 DEF SInv, stream, IInv, TypeInv, EndsRecorded, DataInOrder, IsData,
             NothingAfterEnd, WireIsPrefix
    <3>3. TypeOK' /\ Beginning' /\ EndSeen'
      BY <3>1 DEF SInv, stream, reader, TypeOK, Beginning, EndSeen
    <3> QED BY <3>2, <3>3 DEF SInv
  <2> QED BY <2>1, WriteInv, ReadInv, EofInv DEF SessionNext
<1> QED BY <1>1, SInitInv, PTL DEF SessionSpec

\* The types of the reader's state.
THEOREM SessionTypes == SessionSpec => []TypeOK
<1>1. SInv => TypeOK BY DEF SInv
<1> QED BY <1>1, SessionInvariance, PTL

\* What is told to be the whole stream is the whole stream.
THEOREM WholeStream == SessionSpec => []NoTruncation
<1>1. SInv => NoTruncation
  <2> SUFFICES ASSUME SInv, told = "eof", NEW x \in 1..accepted
               PROVE  \E i \in delivered : wire[i] = DataUnit(x)
    BY DEF NoTruncation, Published
  <2>1. ~broken /\ peer_closed BY DEF SInv, TypeOK, EndSeen
  <2>2. decoded > 0 /\ wire[decoded].kind = "close" /\ delivered = 1..decoded
    BY <2>1 DEF SInv, EndSeen, Beginning
  <2>3. wire \in Seq(Unit) /\ produced \in Seq(Unit) BY DEF SInv, IInv, TypeInv
  <2>4. Len(wire) \in Nat /\ Len(produced) \in Nat BY <2>3
  <2>5. seen \in 0..Len(wire) /\ decoded \in 0..seen BY DEF SInv, TypeOK
  <2>6. decoded \in 1..Len(wire) BY <2>2, <2>4, <2>5
  <2>7. \A i \in 1..Len(wire) : i \in 1..Len(produced) /\ wire[i] = produced[i]
    BY WireAt DEF SInv
  <2>8. PICK i \in 1..Len(produced) : produced[i] = DataUnit(x)
    BY DEF SInv, IInv, DataInOrder
  <2>9. produced[i].kind = "data" BY <2>8 DEF DataUnit
  <2>10. decoded \in 1..Len(produced) /\ produced[decoded].kind = "close"
    BY <2>2, <2>6, <2>7
  <2>11. ~(decoded < i) BY <2>9, <2>10 DEF SInv, IInv, NothingAfterEnd
  <2>12. i # decoded BY <2>9, <2>10
  <2>13. i \in 1..decoded /\ i \in 1..Len(wire) BY <2>4, <2>6, <2>11, <2>12
  <2> QED BY <2>2, <2>7, <2>8, <2>13
<1> QED BY <1>1, SessionInvariance, PTL

\* A byte is published only behind all the bytes sent before it.
THEOREM GapFree == SessionSpec => []NoGaps
<1>1. SInv => NoGaps
  <2> SUFFICES ASSUME SInv, NEW i \in delivered, wire[i].kind = "data",
                      NEW x \in 1..(wire[i].at - 1)
               PROVE  \E j \in delivered : wire[j] = DataUnit(x)
    BY DEF NoGaps, Published
  <2>1. PICK k \in 0..decoded : delivered = 1..k BY DEF SInv, Beginning
  <2>2. wire \in Seq(Unit) /\ produced \in Seq(Unit) BY DEF SInv, IInv, TypeInv
  <2>3. Len(wire) \in Nat /\ Len(produced) \in Nat BY <2>2
  <2>4. seen \in 0..Len(wire) /\ decoded \in 0..seen BY DEF SInv, TypeOK
  <2>5. k \in 0..Len(wire) /\ i \in 1..k /\ i \in 1..Len(wire) BY <2>1, <2>3, <2>4
  <2>6. \A j \in 1..Len(wire) : j \in 1..Len(produced) /\ wire[j] = produced[j]
    BY WireAt DEF SInv
  <2>7. i \in 1..Len(produced) /\ wire[i] = produced[i] BY <2>5, <2>6
  <2>8. accepted \in Nat BY DEF SInv, IInv, TypeInv
  <2>9. produced[i].at \in 1..accepted BY <2>7 DEF SInv, IInv, DataInOrder, IsData
  <2>10. x \in 1..accepted /\ x < produced[i].at BY <2>7, <2>8, <2>9
  <2>11. PICK j \in 1..Len(produced) : produced[j] = DataUnit(x)
    BY <2>10 DEF SInv, IInv, DataInOrder
  <2>12. produced[j].kind = "data" /\ produced[j].at = x BY <2>11 DEF DataUnit
  <2>13. ~(i < j)
    <3>1. i < j => produced[i].at < produced[j].at
      BY <2>7, <2>12 DEF SInv, IInv, DataInOrder, IsData
    <3> QED BY <3>1, <2>8, <2>9, <2>10, <2>12
  <2>14. i # j BY <2>8, <2>9, <2>10, <2>12
  <2>15. j \in 1..k /\ j \in 1..Len(wire) BY <2>3, <2>5, <2>13, <2>14
  <2> QED BY <2>1, <2>6, <2>11, <2>15
<1> QED BY <1>1, SessionInvariance, PTL

===============================================================================
