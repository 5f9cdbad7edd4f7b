----------------------------- MODULE EgressProofs -----------------------------
(***************************************************************************)
(* The send path implements the abstract stream, for every size of the     *)
(* slot, of a record and of what is offered.                               *)
(*                                                                         *)
(* The stream produced so far is what is on the wire, in the cursor and in *)
(* the native connection.  Draining moves output from the third part to    *)
(* the second and completions from the second to the first, both at the    *)
(* seam, so neither changes the whole; only sealing and receiving append,  *)
(* at its end.  TypeOK is inductive: what is in the kernel stays the front *)
(* of the cursor, because only a completion touches a submitted cursor.    *)
(* The last part composes the send path with the reader at the other end.  *)
(***************************************************************************)
EXTENDS EndToEnd, SequenceTheorems, TLAPS

U == Stream!Unit

\* The theorems about the abstract stream, of the stream produced here.
SP == INSTANCE WireStreamProofs WITH produced <- Produced

\* The theorems about a session whose writer is this send path.
SSP == INSTANCE SessionProofs WITH produced <- Produced

-----------------------------------------------------------------------------
(* Sequences *)

\* A sequence cut in two is its two parts.
LEMMA Cut ==
    ASSUME NEW S, NEW s \in Seq(S), NEW k \in 0..Len(s)
    PROVE  /\ SubSeq(s, 1, k) \in Seq(S) /\ Len(SubSeq(s, 1, k)) = k
           /\ SubSeq(s, k + 1, Len(s)) \in Seq(S)
           /\ Len(SubSeq(s, k + 1, Len(s))) = Len(s) - k
           /\ SubSeq(s, 1, k) \o SubSeq(s, k + 1, Len(s)) = s
<1>1. Len(s) \in Nat /\ \A i \in 1..Len(s) : s[i] \in S BY ElementOfSeq, LenProperties
<1>2. SubSeq(s, 1, k) \in Seq(S) /\ Len(SubSeq(s, 1, k)) = k
  BY <1>1, SubSeqProperties
<1>3. /\ SubSeq(s, k + 1, Len(s)) \in Seq(S)
      /\ Len(SubSeq(s, k + 1, Len(s))) = Len(s) - k
  BY <1>1, SubSeqProperties
<1>4. SubSeq(s, 1, k) \o SubSeq(s, k + 1, Len(s)) = s
  <2>1. /\ 1 \in 1..Len(s) + 1 /\ k \in (1 - 1)..Len(s) /\ Len(s) \in k..Len(s)
    BY <1>1
  <2>2. SubSeq(s, 1, k) \o SubSeq(s, k + 1, Len(s)) = SubSeq(s, 1, Len(s))
    BY <2>1, ConcatAdjacentSubSeq
  <2> QED BY <2>2, SubSeqFull
<1> QED BY <1>2, <1>3, <1>4

\* Concatenation is associative; the parts are compared unit by unit.
LEMMA Assoc ==
    ASSUME NEW S, NEW s \in Seq(S), NEW t \in Seq(S), NEW u \in Seq(S)
    PROVE  (s \o t) \o u = s \o (t \o u)
<1> DEFINE st == s \o t
           tu == t \o u
           l == st \o u
           r == s \o tu
<1>1. Len(s) \in Nat /\ Len(t) \in Nat /\ Len(u) \in Nat BY LenProperties
<1>2. /\ st \in Seq(S) /\ Len(st) = Len(s) + Len(t)
      /\ \A i \in 1..Len(s) + Len(t) : st[i] = IF i <= Len(s) THEN s[i] ELSE t[i - Len(s)]
  BY ConcatProperties
<1>3. /\ tu \in Seq(S) /\ Len(tu) = Len(t) + Len(u)
      /\ \A i \in 1..Len(t) + Len(u) : tu[i] = IF i <= Len(t) THEN t[i] ELSE u[i - Len(t)]
  BY ConcatProperties
<1> HIDE DEF st, tu
<1>a. st \in Seq(S) BY <1>2
<1>b. tu \in Seq(S) BY <1>3
<1>4. /\ l \in Seq(S) /\ Len(l) = Len(st) + Len(u)
      /\ \A i \in 1..Len(st) + Len(u) : l[i] = IF i <= Len(st) THEN st[i] ELSE u[i - Len(st)]
  BY <1>a, ConcatProperties
<1>5. /\ r \in Seq(S) /\ Len(r) = Len(s) + Len(tu)
      /\ \A i \in 1..Len(s) + Len(tu) : r[i] = IF i <= Len(s) THEN s[i] ELSE tu[i - Len(s)]
  BY <1>b, ConcatProperties
<1> HIDE DEF l, r
<1>6. ASSUME NEW i \in 1..Len(l) PROVE l[i] = r[i]
  <2>1. i \in 1..Len(s) + Len(t) + Len(u) BY <1>1, <1>2, <1>4
  <2>2. CASE i <= Len(s)
    <3>1. l[i] = s[i] BY <2>1, <2>2, <1>1, <1>2, <1>4
    <3>2. r[i] = s[i] BY <2>1, <2>2, <1>1, <1>3, <1>5
    <3> QED BY <3>1, <3>2
  <2>3. CASE i > Len(s) /\ i <= Len(s) + Len(t)
    <3>1. l[i] = t[i - Len(s)] BY <2>1, <2>3, <1>1, <1>2, <1>4
    <3>2. r[i] = t[i - Len(s)] BY <2>1, <2>3, <1>1, <1>3, <1>5
    <3> QED BY <3>1, <3>2
  <2>4. CASE i > Len(s) + Len(t)
    <3>1. l[i] = u[i - (Len(s) + Len(t))] BY <2>1, <2>4, <1>1, <1>2, <1>4
    <3>2. r[i] = tu[i - Len(s)] BY <2>1, <2>4, <1>1, <1>3, <1>5
    <3>3. /\ i - Len(s) \in 1..Len(t) + Len(u) /\ ~(i - Len(s) <= Len(t))
          /\ (i - Len(s)) - Len(t) = i - (Len(s) + Len(t))
      BY <2>1, <2>4, <1>1
    <3> QED BY <3>1, <3>2, <3>3, <1>3
  <2> QED BY <2>1, <2>2, <2>3, <2>4, <1>1
<1>7. Len(l) = Len(r) BY <1>1, <1>2, <1>3, <1>4, <1>5
<1>8. l = r BY <1>4, <1>5, <1>6, <1>7, SeqEqual
<1> QED BY <1>8 DEF l, r, st, tu

\* The same of units.
LEMMA AssocUnits == \A s, t, u \in Seq(U) : (s \o t) \o u = s \o (t \o u)
BY Assoc

\* The same of four parts.
LEMMA FourParts ==
    \A w, c, n, s \in Seq(U) : w \o (c \o (n \o s)) = ((w \o c) \o n) \o s
<1> SUFFICES ASSUME NEW w \in Seq(U), NEW c \in Seq(U), NEW n \in Seq(U), NEW s \in Seq(U)
             PROVE  w \o (c \o (n \o s)) = ((w \o c) \o n) \o s
  OBVIOUS
<1> DEFINE ns == n \o s
           wc == w \o c
<1>1. ns \in Seq(U) BY ConcatProperties
<1>2. wc \in Seq(U) BY ConcatProperties
<1>3. (wc \o n) \o s = wc \o ns
  <2> HIDE DEF wc
  <2> QED BY <1>2, AssocUnits, ZenonT(60) DEF ns
<1>4. wc \o ns = w \o (c \o ns)
  <2> HIDE DEF ns
  <2> QED BY <1>1, AssocUnits, SMTT(60) DEF wc
<1> QED BY <1>3, <1>4, Zenon

\* The front of a part that a cut leaves in place is the front it had.
LEMMA FrontStays ==
    ASSUME NEW S, NEW c \in Seq(S), NEW d \in Seq(S), NEW k \in 0..Len(c)
    PROVE  SubSeq(c \o d, 1, k) = SubSeq(c, 1, k)
<1>1. CASE k = 0 BY <1>1, SubSeqEmpty
<1>2. CASE k # 0
  <2>1. Len(c) \in Nat BY LenProperties
  <2>2. 1 \in 1..Len(c) /\ k \in 1..Len(c) BY <1>2, <2>1
  <2> QED BY <2>2, SubSeqOfConcat1
<1> QED BY <1>1, <1>2

-----------------------------------------------------------------------------
(* state::drain *)

\* Draining moves the seam and stays within the slot.
LEMMA Drained ==
    ASSUME NEW cur \in Seq(U), NEW out \in Seq(U), NEW over \in BOOLEAN,
           gone \in 0..CursorCap, Start(cur) + Len(cur) <= CursorCap,
           Drain(cur, out, over)
    PROVE  /\ cursor' \in Seq(U) /\ native' \in Seq(U)
           /\ cursor' \o native' = cur \o out
           /\ gone' \in 0..CursorCap /\ gone' + Len(cursor') <= CursorCap
           /\ failed' \in BOOLEAN /\ (over => failed')
           /\ \E d \in Seq(U) : cursor' = cur \o d
<1>1. PICK k \in 0..Least(Spare(cur), Len(out)), stops \in BOOLEAN :
        /\ cursor' = cur \o SubSeq(out, 1, k)
        /\ native' = SubSeq(out, k + 1, Len(out))
        /\ gone' = Start(cur)
        /\ failed' = (over \/ stops)
  BY DEF Drain
<1>2. Len(cur) \in Nat /\ Len(out) \in Nat BY LenProperties
<1>3. CursorCap \in Nat /\ Start(cur) \in 0..CursorCap
  BY CapAssumption DEF Start
<1>4. Spare(cur) \in Nat /\ Start(cur) + Len(cur) + Spare(cur) = CursorCap
  BY <1>2, <1>3 DEF Spare
<1>5. k \in 0..Len(out) /\ k <= Spare(cur) BY <1>2, <1>4 DEF Least
<1> DEFINE front == SubSeq(out, 1, k)
           back == SubSeq(out, k + 1, Len(out))
<1>6. /\ front \in Seq(U) /\ Len(front) = k /\ back \in Seq(U) /\ front \o back = out
  BY <1>5, Cut
<1>7. cursor' = cur \o front /\ native' = back BY <1>1
<1> HIDE DEF front, back
<1>8. cur \o front \in Seq(U) /\ Len(cur \o front) = Len(cur) + k
  BY <1>6, ConcatProperties
<1>9. (cur \o front) \o back = cur \o out BY <1>6, AssocUnits
<1>10. gone' \in 0..CursorCap /\ gone' + Len(cursor') <= CursorCap
  BY <1>1, <1>2, <1>3, <1>4, <1>5, <1>7, <1>8
<1> QED BY <1>1, <1>6, <1>7, <1>8, <1>9, <1>10

\* Nothing appended is nothing changed.
LEMMA NothingSealed ==
    accepted \in Nat => Stream!Sealed(0, 0, "none") = <<>>
<1> SUFFICES ASSUME accepted \in Nat PROVE Stream!Sealed(0, 0, "none") = <<>>
  OBVIOUS
<1>1. Stream!Data(accepted, 0) = <<>> BY DEF Stream!Data
<1>2. Stream!Controls(0) = <<>> BY DEF Stream!Controls
<1>3. Stream!Last("none") = <<>> BY DEF Stream!Last
<1> QED BY <1>1, <1>2, <1>3 DEF Stream!Sealed

\* What a step appends are units.
LEMMA SealedUnits ==
    accepted \in Nat =>
        \A n \in Nat, m \in Nat, kind \in {"none", "close", "alert"} :
            Stream!Sealed(n, m, kind) \in Seq(U)
<1> SUFFICES ASSUME accepted \in Nat, NEW n \in Nat, NEW m \in Nat,
                    NEW kind \in {"none", "close", "alert"}
             PROVE  Stream!Sealed(n, m, kind) \in Seq(U)
  OBVIOUS
<1>2. kind \in SP!Kind BY DEF SP!Kind
<1>3. SP!Sealed(n, m, kind) \in Seq(SP!Unit) BY <1>2, SP!SealedShape DEF SP!Shape
<1>4. SP!Unit = U BY DEF SP!Unit, Stream!Unit, U
<1>5. SP!Sealed(n, m, kind) = Stream!Sealed(n, m, kind)
  BY DEF SP!Sealed, Stream!Sealed, SP!Data, Stream!Data, SP!Controls, Stream!Controls,
         SP!Last, Stream!Last, SP!DataUnit, Stream!DataUnit
<1> QED BY <1>3, <1>4, <1>5

-----------------------------------------------------------------------------
(* The two steps of the stream *)

\* What is appended to the last part is appended to the whole.
LEMMA WholeGrows ==
    TypeOK => \A s \in Seq(U) : wire \o (cursor \o (native \o s)) = Produced \o s
<1> SUFFICES ASSUME TypeOK, NEW s \in Seq(U)
             PROVE  wire \o (cursor \o (native \o s)) = Produced \o s
  OBVIOUS
<1>1. wire \in Seq(U) /\ cursor \in Seq(U) /\ native \in Seq(U) BY DEF TypeOK, U
<1> DEFINE Same(w, c, n, t) == w \o (c \o (n \o t)) = ((w \o c) \o n) \o t
<1>2. \A w, c, n, t \in Seq(U) : Same(w, c, n, t) BY FourParts
<1> HIDE DEF Same
<1>3. Same(wire, cursor, native, s) BY <1>1, <1>2
<1> QED BY <1>3 DEF Produced, Same

\* A step that moves the seam and appends what it seals produces.
LEMMA Produces ==
    ASSUME TypeOK,
           NEW n \in 0..MaxPart, NEW m \in 0..MaxControl,
           NEW kind \in {"none", "close", "alert"},
           n > 0 \/ kind = "close" => ~closed /\ ~failed,
           cursor' \in Seq(U), native' \in Seq(U),
           cursor' \o native' = cursor \o (native \o Stream!Sealed(n, m, kind)),
           wire' = wire, accepted' = accepted + n,
           closed' = (closed \/ kind = "close"),
           failed' \in {failed, TRUE}, kind = "alert" => failed'
    PROVE  Stream!Produce
<1> DEFINE s == Stream!Sealed(n, m, kind)
<1>1. wire \in Seq(U) /\ cursor \in Seq(U) /\ native \in Seq(U) BY DEF TypeOK, U
<1>2. s \in Seq(U)
  <2>1. accepted \in Nat /\ n \in Nat /\ m \in Nat BY OfferAssumption DEF TypeOK
  <2> QED BY <2>1, SealedUnits
<1>3. Produced' = Produced \o s
  <2>1. cursor' \o native' = cursor \o (native \o s) OBVIOUS
  <2> HIDE DEF s
  <2>2. (wire \o cursor') \o native' = wire \o (cursor' \o native')
    BY <1>1, AssocUnits, ZenonT(60)
  <2>3. wire \o (cursor \o (native \o s)) = Produced \o s BY <1>2, WholeGrows
  <2> QED BY <2>1, <2>2, <2>3 DEF Produced
<1> QED BY <1>3 DEF Stream!Produce

\* A step that moves the front of the cursor to the wire transmits.
LEMMA Transmits ==
    ASSUME TypeOK, NEW k \in 1..Len(flight),
           wire' = wire \o SubSeq(flight, 1, k),
           cursor' \in Seq(U), native' \in Seq(U),
           cursor' \o native' = Rest(k) \o native,
           failed' \in {failed, TRUE}, accepted' = accepted, closed' = closed
    PROVE  Stream!Transmit /\ wire' \in Seq(U)
<1> DEFINE front == SubSeq(cursor, 1, k)
           back == SubSeq(cursor, k + 1, Len(cursor))
           tail == back \o native
<1>1. wire \in Seq(U) /\ cursor \in Seq(U) /\ native \in Seq(U) BY DEF TypeOK, U
<1>2. Len(flight) \in Nat /\ k \in 0..Len(cursor) /\ k > 0
  <2>1. flight = SubSeq(cursor, 1, Len(flight)) /\ Len(flight) <= Len(cursor) BY DEF TypeOK
  <2>2. Len(cursor) \in Nat BY <1>1, LenProperties
  <2> QED BY <2>1, <2>2
<1>3. SubSeq(flight, 1, k) = front
  <2>1. flight = SubSeq(cursor, 1, Len(flight)) /\ Len(flight) <= Len(cursor) BY DEF TypeOK
  <2>2. Len(flight) \in 0..Len(cursor) /\ 0 < Len(flight) BY <2>1, <1>1, <1>2
  <2> DEFINE l == Len(flight)
             f == SubSeq(cursor, 1, l)
             g == SubSeq(cursor, l + 1, Len(cursor))
  <2>3. f \in Seq(U) /\ Len(f) = l /\ g \in Seq(U) /\ f \o g = cursor
    <3>1. cursor \in Seq(U) /\ l \in 0..Len(cursor) BY <1>1, <2>2
    <3> QED BY <3>1, Cut, ZenonT(60)
  <2>4. k \in 0..Len(f) BY <2>2, <2>3
  <2> HIDE DEF f, g
  <2>5. SubSeq(f \o g, 1, k) = SubSeq(f, 1, k) BY <2>3, <2>4, FrontStays
  <2>6. f = flight BY <2>1 DEF f
  <2> QED BY <2>3, <2>5, <2>6
<1>4. front \in Seq(U) /\ Len(front) = k /\ back \in Seq(U) /\ front \o back = cursor
  BY <1>1, <1>2, Cut
<1> HIDE DEF front, back
<1>5. tail \in Seq(U) BY <1>1, <1>4, ConcatProperties
<1>6. wire' = wire \o front BY <1>3
<1> DEFINE wf == wire \o front
<1>7. wf \in Seq(U) /\ Len(wf) = Len(wire) + k BY <1>1, <1>4, ConcatProperties
<1>8. Produced' = wf \o tail
  <2>1. cursor' \o native' = tail BY DEF Rest, tail, back
  <2>2. (wf \o cursor') \o native' = wf \o (cursor' \o native')
    <3> HIDE DEF wf
    <3>1. wf \in Seq(U) BY <1>7
    <3> QED BY <3>1, AssocUnits
  <2>3. Produced' = (wf \o cursor') \o native' BY <1>6 DEF Produced, wf
  <2> QED BY <2>1, <2>2, <2>3
<1>9. Produced = wf \o tail
  <2>1. wf \o back = wire \o (front \o back)
    <3>1. wire \in Seq(U) /\ front \in Seq(U) /\ back \in Seq(U) BY <1>1, <1>4
    <3> QED BY <3>1, AssocUnits, ZenonT(60)
  <2>2. wf \o back = wire \o cursor BY <2>1, <1>4
  <2>3. (wf \o back) \o native = wf \o (back \o native)
    <3> HIDE DEF wf
    <3>1. wf \in Seq(U) /\ back \in Seq(U) /\ native \in Seq(U) BY <1>1, <1>4, <1>7
    <3> QED BY <3>1, AssocUnits, ZenonT(60)
  <2> QED BY <2>2, <2>3 DEF Produced, tail
<1> HIDE DEF wf, tail
<1>10. Len(wire) \in Nat /\ Len(tail) \in Nat /\ Len(wf) \in Nat
  BY <1>1, <1>5, <1>7, LenProperties
<1>11. Len(Produced) = Len(wf) + Len(tail)
  <2>1. Len(wf \o tail) = Len(wf) + Len(tail)
    <3>1. wf \in Seq(U) BY <1>7
    <3> QED BY <3>1, <1>5, ConcatProperties
  <2> QED BY <2>1, <1>9
<1>12. wire' = SubSeq(Produced, 1, Len(wf))
  <2>1. Len(wf) \in 0..Len(wf) BY <1>10
  <2>2. SubSeq(wf \o tail, 1, Len(wf)) = SubSeq(wf, 1, Len(wf))
    <3>1. wf \in Seq(U) BY <1>7
    <3> QED BY <3>1, <2>1, <1>5, FrontStays
  <2>3. SubSeq(wf, 1, Len(wf)) = wf BY <1>7, SubSeqFull
  <2> QED BY <2>2, <2>3, <1>6, <1>9 DEF wf
<1>13. Len(wf) \in (Len(wire) + 1)..Len(Produced) BY <1>2, <1>7, <1>10, <1>11
<1>14. UNCHANGED <<Produced, accepted, closed>> BY <1>8, <1>9
<1>15. Stream!Transmit BY <1>12, <1>13, <1>14 DEF Stream!Transmit
<1> QED BY <1>15, <1>6, <1>7 DEF wf

\* Draining the native output, with what a step adds to it, produces.
LEMMA DrainProduces ==
    ASSUME TypeOK,
           NEW n \in 0..MaxPart, NEW m \in 0..MaxControl,
           NEW kind \in {"none", "close", "alert"}, NEW over \in {failed, TRUE},
           n > 0 \/ kind = "close" => ~closed /\ ~failed,
           kind = "alert" => over,
           Drain(cursor, native \o Stream!Sealed(n, m, kind), over),
           wire' = wire, accepted' = accepted + n,
           closed' = (closed \/ kind = "close")
    PROVE  /\ Stream!Produce
           /\ cursor' \in Seq(U) /\ native' \in Seq(U)
           /\ gone' \in 0..CursorCap /\ gone' + Len(cursor') <= CursorCap
           /\ failed' \in BOOLEAN
           /\ \E d \in Seq(U) : cursor' = cursor \o d
<1> DEFINE s == Stream!Sealed(n, m, kind)
           out == native \o s
<1>1. cursor \in Seq(U) /\ native \in Seq(U) BY DEF TypeOK, U
<1>2. s \in Seq(U)
  <2>1. accepted \in Nat /\ n \in Nat /\ m \in Nat BY OfferAssumption DEF TypeOK
  <2> QED BY <2>1, SealedUnits
<1>3. out \in Seq(U)
  <2> HIDE DEF s
  <2> QED BY <1>1, <1>2, ConcatProperties
<1>4. over \in BOOLEAN /\ (failed => over) BY DEF TypeOK
<1>5. gone \in 0..CursorCap /\ Start(cursor) + Len(cursor) <= CursorCap
  <2>1. gone \in 0..CursorCap /\ gone + Len(cursor) <= CursorCap BY DEF TypeOK
  <2>2. Len(cursor) \in Nat BY <1>1, LenProperties
  <2> QED BY <2>1, <2>2, CapAssumption DEF Start
<1>6. Drain(cursor, out, over) OBVIOUS
<1> HIDE DEF out
<1>7. /\ cursor' \in Seq(U) /\ native' \in Seq(U)
      /\ cursor' \o native' = cursor \o out
      /\ gone' \in 0..CursorCap /\ gone' + Len(cursor') <= CursorCap
      /\ failed' \in BOOLEAN /\ (over => failed')
      /\ \E d \in Seq(U) : cursor' = cursor \o d
  BY <1>1, <1>3, <1>4, <1>5, <1>6, Drained
<1>8. cursor' \o native' = cursor \o (native \o Stream!Sealed(n, m, kind))
  BY <1>7 DEF out, s
<1>9. failed' \in {failed, TRUE} /\ (kind = "alert" => failed') BY <1>4, <1>7
<1>10. Stream!Produce BY <1>7, <1>8, <1>9, Produces
<1> QED BY <1>7, <1>10

\* The same when a step adds nothing.
LEMMA DrainMoves ==
    ASSUME TypeOK, Drain(cursor, native, failed),
           wire' = wire, accepted' = accepted, closed' = closed
    PROVE  /\ Stream!Produce
           /\ cursor' \in Seq(U) /\ native' \in Seq(U)
           /\ gone' \in 0..CursorCap /\ gone' + Len(cursor') <= CursorCap
           /\ failed' \in BOOLEAN
           /\ \E d \in Seq(U) : cursor' = cursor \o d
<1>1. accepted \in Nat /\ native \in Seq(U) /\ closed \in BOOLEAN BY DEF TypeOK, U
<1>2. native \o Stream!Sealed(0, 0, "none") = native
  BY <1>1, NothingSealed, ConcatEmptySeq
<1>3. Drain(cursor, native \o Stream!Sealed(0, 0, "none"), failed) BY <1>2
<1>4. 0 \in 0..MaxPart /\ 0 \in 0..MaxControl BY OfferAssumption
<1>5. accepted' = accepted + 0 /\ closed' = (closed \/ "none" = "close") BY <1>1
<1> DEFINE none == "none"
           nil == 0
<1>6. /\ none \in {"none", "close", "alert"} /\ failed \in {failed, TRUE}
      /\ nil \in 0..MaxPart /\ nil \in 0..MaxControl
      /\ nil > 0 \/ none = "close" => ~closed /\ ~failed
      /\ none = "alert" => failed
  BY <1>4
<1>8. accepted' = accepted + nil BY <1>5
<1>9. closed' = (closed \/ none = "close") BY <1>5
<1>7. Drain(cursor, native \o Stream!Sealed(nil, nil, none), failed) BY <1>3
<1> HIDE DEF none, nil
<1> QED BY <1>6, <1>7, <1>8, <1>9, DrainProduces

\* A part with nothing sealed into it is a step of the stream too.
LEMMA FailureProduces ==
    ASSUME TypeOK, failed' \in {failed, TRUE},
           UNCHANGED <<wire, cursor, native, accepted, closed>>
    PROVE  Stream!Produce
<1>1. /\ accepted \in Nat /\ native \in Seq(U) /\ cursor \in Seq(U) /\ closed \in BOOLEAN
  BY DEF TypeOK, U
<1>2. native \o Stream!Sealed(0, 0, "none") = native
  BY <1>1, NothingSealed, ConcatEmptySeq
<1>3. 0 \in 0..MaxPart /\ 0 \in 0..MaxControl BY OfferAssumption
<1>4. accepted' = accepted + 0 /\ closed' = (closed \/ "none" = "close") BY <1>1
<1>5. cursor' \o native' = cursor \o (native \o Stream!Sealed(0, 0, "none")) BY <1>2
<1> DEFINE none == "none"
           nil == 0
<1>6. /\ none \in {"none", "close", "alert"}
      /\ nil \in 0..MaxPart /\ nil \in 0..MaxControl
      /\ nil > 0 \/ none = "close" => ~closed /\ ~failed
      /\ none = "alert" => failed'
  BY <1>3
<1>9. accepted' = accepted + nil BY <1>4
<1>10. closed' = (closed \/ none = "close") BY <1>4
<1>7. cursor' \o native' = cursor \o (native \o Stream!Sealed(nil, nil, none))
  BY <1>5
<1>8. cursor' \in Seq(U) /\ native' \in Seq(U) /\ wire' = wire BY <1>1
<1> HIDE DEF none, nil
<1> QED BY <1>6, <1>7, <1>8, <1>9, <1>10, Produces

-----------------------------------------------------------------------------
(* Every step of the send path is a step of the stream or none, and leaves  *)
(* the types in order                                                       *)

Implements == TypeOK' /\ [Stream!Next]_(Stream!stream)

\* A drain keeps the types: what is in the kernel stays the cursor's front.
LEMMA DrainedTypes ==
    ASSUME TypeOK,
           cursor' \in Seq(U), native' \in Seq(U),
           gone' \in 0..CursorCap, gone' + Len(cursor') <= CursorCap,
           \E d \in Seq(U) : cursor' = cursor \o d,
           failed' \in BOOLEAN, closed' \in BOOLEAN, open' \in BOOLEAN,
           call' \in {"none", "encrypt"}, offer' \in 0..MaxOffer,
           accepted' \in Nat, wire' \in Seq(U), flight' = flight
    PROVE  TypeOK'
<1>1. /\ cursor \in Seq(U) /\ flight \in Seq(U) /\ Len(flight) <= Len(cursor)
      /\ flight = SubSeq(cursor, 1, Len(flight))
  BY DEF TypeOK, U
<1>2. PICK d \in Seq(U) : cursor' = cursor \o d OBVIOUS
<1>3. Len(flight) \in 0..Len(cursor)
  <2>1. Len(flight) \in Nat /\ Len(cursor) \in Nat BY <1>1, LenProperties
  <2> QED BY <2>1, <1>1
<1>4. Len(flight') <= Len(cursor')
  <2>1. Len(cursor \o d) = Len(cursor) + Len(d) BY <1>1, ConcatProperties
  <2>2. Len(cursor) \in Nat /\ Len(d) \in Nat BY <1>1, LenProperties
  <2> QED BY <2>1, <2>2, <1>2, <1>3
<1>5. flight' = SubSeq(cursor', 1, Len(flight'))
  <2>1. SubSeq(cursor \o d, 1, Len(flight)) = SubSeq(cursor, 1, Len(flight))
    BY <1>1, <1>3, FrontStays
  <2> QED BY <2>1, <1>1, <1>2
<1> QED BY <1>1, <1>4, <1>5 DEF TypeOK, U

\* Received data adds control units or an alert at the end of the stream.
LEMMA ReceiveStep == TypeOK /\ Receive => Implements
<1> SUFFICES ASSUME TypeOK, Receive PROVE Implements
  OBVIOUS
<1>1. PICK m \in 0..MaxControl, kind \in {"none", "alert"}, over, done \in BOOLEAN :
        LET out == native \o Stream!Sealed(0, m, kind)
        IN /\ kind = "alert" => over
           /\ Room(m + Len(Stream!Last(kind)))
           /\ open' = (open \/ done)
           /\ IF ~open /\ flight = <<>>
              THEN Drain(cursor, out, over)
              ELSE /\ native' = out
                   /\ failed' = over
                   /\ UNCHANGED <<cursor, gone>>
  BY Zenon DEF Receive
<1>2. ~failed /\ UNCHANGED <<call, offer, accepted, flight, wire, closed>> BY DEF Receive
<1>3. /\ cursor \in Seq(U) /\ native \in Seq(U) /\ accepted \in Nat
      /\ open \in BOOLEAN /\ failed \in BOOLEAN /\ closed \in BOOLEAN
  BY DEF TypeOK, U
<1> DEFINE nil == 0
           s == Stream!Sealed(nil, m, kind)
<1>4. /\ nil \in 0..MaxPart /\ kind \in {"none", "close", "alert"}
      /\ nil > 0 \/ kind = "close" => ~closed /\ ~failed
      /\ kind = "alert" => over
  BY <1>1, <1>2, <1>3, OfferAssumption
<1>4a. over \in {failed, TRUE}
  <2>1. failed = FALSE BY <1>2, <1>3
  <2>2. over \in BOOLEAN BY <1>1
  <2> QED BY <2>1, <2>2
<1>5. accepted' = accepted + nil BY <1>2, <1>3
<1>6. closed' = (closed \/ kind = "close") BY <1>2, <1>3
<1>7. open' \in BOOLEAN BY <1>1, <1>3
<1>8. wire' = wire BY <1>2
<1>9. IF ~open /\ flight = <<>>
      THEN Drain(cursor, native \o s, over)
      ELSE native' = native \o s /\ failed' = over /\ UNCHANGED <<cursor, gone>>
  BY <1>1
<1> HIDE DEF nil, s
<1>10. CASE ~open /\ flight = <<>>
  <2>1. Drain(cursor, native \o Stream!Sealed(nil, m, kind), over) BY <1>9, <1>10 DEF s
  <2>2. /\ Stream!Produce
        /\ cursor' \in Seq(U) /\ native' \in Seq(U)
        /\ gone' \in 0..CursorCap /\ gone' + Len(cursor') <= CursorCap
        /\ failed' \in BOOLEAN
        /\ \E d \in Seq(U) : cursor' = cursor \o d
    BY <2>1, <1>4, <1>4a, <1>5, <1>6, <1>8, DrainProduces
  <2>3. /\ flight' = flight /\ closed' \in BOOLEAN /\ accepted' \in Nat
        /\ call' \in {"none", "encrypt"} /\ offer' \in 0..MaxOffer /\ wire' \in Seq(U)
    BY <1>2, <1>3, <1>10 DEF TypeOK, U
  <2>4. TypeOK' BY <2>2, <2>3, <1>7, DrainedTypes
  <2> QED BY <2>2, <2>4 DEF Implements, Stream!Next
<1>11. CASE ~(~open /\ flight = <<>>)
  <2>1. native' = native \o s /\ failed' = over /\ cursor' = cursor /\ gone' = gone
    BY <1>9, <1>11
  <2>2. s \in Seq(U)
    <3>1. nil \in Nat /\ m \in Nat BY OfferAssumption DEF nil
    <3> QED BY <3>1, <1>3, <1>4, SealedUnits DEF s
  <2>3. native \o s \in Seq(U) BY <2>2, <1>3, ConcatProperties
  <2>4. cursor' \o native' = cursor \o (native \o Stream!Sealed(nil, m, kind))
    BY <2>1 DEF s
  <2>5. cursor' \in Seq(U) /\ native' \in Seq(U) /\ failed' \in {failed, TRUE}
        /\ (kind = "alert" => failed')
    BY <2>1, <2>3, <1>3, <1>4, <1>4a
  <2>6. Stream!Produce BY <2>4, <2>5, <1>4, <1>5, <1>6, <1>8, Produces
  <2>7. TypeOK' BY <2>1, <2>3, <1>2, <1>3, <1>4a, <1>7 DEF TypeOK, U
  <2> QED BY <2>6, <2>7 DEF Implements, Stream!Next
<1> QED BY <1>10, <1>11

\* A failure alone is a step of the stream that adds nothing to it.
LEMMA PeerEofStep == TypeOK /\ PeerEof => Implements
<1> SUFFICES ASSUME TypeOK, PeerEof PROVE Implements
  OBVIOUS
<1>1. /\ failed' = TRUE
      /\ UNCHANGED <<open, call, offer, accepted, native, cursor, gone, flight, wire, closed>>
  BY DEF PeerEof
<1>2. Stream!Produce BY <1>1, FailureProduces
<1>3. TypeOK' BY <1>1 DEF TypeOK
<1> QED BY <1>2, <1>3 DEF Implements, Stream!Next

\* prepare only moves the seam.
LEMMA PrepareStep == TypeOK /\ Prepare => Implements
<1> SUFFICES ASSUME TypeOK, Prepare PROVE Implements
  OBVIOUS
<1>1. /\ Drain(cursor, native, failed) /\ flight = <<>>
      /\ UNCHANGED <<open, accepted, flight, wire, closed>>
  BY Zenon DEF Prepare
<1>2. call' \in {"none", "encrypt"} /\ offer' \in 0..MaxOffer
  BY DEF Prepare, TypeOK
<1>3. /\ Stream!Produce
      /\ cursor' \in Seq(U) /\ native' \in Seq(U)
      /\ gone' \in 0..CursorCap /\ gone' + Len(cursor') <= CursorCap
      /\ failed' \in BOOLEAN
      /\ \E d \in Seq(U) : cursor' = cursor \o d
  BY <1>1, DrainMoves
<1>4. /\ open' \in BOOLEAN /\ closed' \in BOOLEAN /\ accepted' \in Nat
      /\ wire' \in Seq(U) /\ flight' = flight
  BY <1>1 DEF TypeOK, U
<1>5. TypeOK' BY <1>2, <1>3, <1>4, DrainedTypes
<1> QED BY <1>3, <1>5 DEF Implements, Stream!Next

\* flush only moves the seam.
LEMMA FlushStep == TypeOK /\ Flush => Implements
<1> SUFFICES ASSUME TypeOK, Flush PROVE Implements
  OBVIOUS
<1>1. /\ Drain(cursor, native, failed) /\ flight = <<>>
      /\ UNCHANGED <<open, call, offer, accepted, flight, wire, closed>>
  BY DEF Flush
<1>3. /\ Stream!Produce
      /\ cursor' \in Seq(U) /\ native' \in Seq(U)
      /\ gone' \in 0..CursorCap /\ gone' + Len(cursor') <= CursorCap
      /\ failed' \in BOOLEAN
      /\ \E d \in Seq(U) : cursor' = cursor \o d
  BY <1>1, DrainMoves
<1>4. /\ open' \in BOOLEAN /\ closed' \in BOOLEAN /\ accepted' \in Nat
      /\ call' \in {"none", "encrypt"} /\ offer' \in 0..MaxOffer
      /\ wire' \in Seq(U) /\ flight' = flight
  BY <1>1 DEF TypeOK, U
<1>5. TypeOK' BY <1>3, <1>4, DrainedTypes
<1> QED BY <1>3, <1>5 DEF Implements, Stream!Next

\* What the native connection took is sealed at the end of the stream and is
\* exactly what is committed.
LEMMA SealStep == TypeOK /\ Seal => Implements
<1> SUFFICES ASSUME TypeOK, Seal PROVE Implements
  OBVIOUS
<1>1. PICK n \in 0..Least(offer, MaxPart), m \in 0..MaxControl :
        /\ Room(n + m)
        /\ accepted' = accepted + n
        /\ offer' = offer - n
        /\ Drain(cursor, Stream!Sealed(n, m, "none"), failed)
        /\ call' = IF n = 0 \/ failed' THEN "none" ELSE call
  BY DEF Seal
<1>2. /\ ~failed /\ ~closed /\ native = <<>>
      /\ UNCHANGED <<open, flight, wire, closed>>
  BY DEF Seal, Seals, CanWrite
<1>3. /\ offer \in 0..MaxOffer /\ accepted \in Nat /\ call \in {"none", "encrypt"}
      /\ open \in BOOLEAN /\ closed \in BOOLEAN /\ failed \in BOOLEAN /\ wire \in Seq(U)
  BY DEF TypeOK, U
<1>4. n \in 0..MaxPart /\ n \in 0..offer /\ n \in Nat /\ m \in Nat
  BY <1>3, OfferAssumption DEF Least
<1> DEFINE kind == "none"
           s == Stream!Sealed(n, m, kind)
<1>5. s \in Seq(U) BY <1>3, <1>4, SealedUnits
<1>6. Drain(cursor, native \o s, failed)
  <2>1. Drain(cursor, s, failed) BY <1>1
  <2>2. native \o s = s
    <3> HIDE DEF s
    <3> QED BY <1>2, <1>5, ConcatEmptySeq
  <2> QED BY <2>1, <2>2
<1>7. /\ kind \in {"none", "close", "alert"} /\ failed \in {failed, TRUE}
      /\ n > 0 \/ kind = "close" => ~closed /\ ~failed
      /\ kind = "alert" => failed
  BY <1>2
<1>8. closed' = (closed \/ kind = "close") BY <1>2, <1>3
<1>9. accepted' = accepted + n /\ wire' = wire BY <1>1, <1>2
<1> HIDE DEF kind
<1>10. /\ Stream!Produce
       /\ cursor' \in Seq(U) /\ native' \in Seq(U)
       /\ gone' \in 0..CursorCap /\ gone' + Len(cursor') <= CursorCap
       /\ failed' \in BOOLEAN
       /\ \E d \in Seq(U) : cursor' = cursor \o d
  BY <1>4, <1>6, <1>7, <1>8, <1>9, DrainProduces DEF s
<1>11. /\ closed' \in BOOLEAN /\ open' \in BOOLEAN /\ accepted' \in Nat
       /\ offer' \in 0..MaxOffer /\ wire' \in Seq(U) /\ flight' = flight
  BY <1>1, <1>2, <1>3, <1>4, OfferAssumption
<1>12. call' \in {"none", "encrypt"} BY <1>1, <1>3
<1>13. TypeOK' BY <1>10, <1>11, <1>12, DrainedTypes
<1> QED BY <1>10, <1>13 DEF Implements, Stream!Next

\* A refused part is not in the stream.
LEMMA SealFailsStep == TypeOK /\ SealFails => Implements
<1> SUFFICES ASSUME TypeOK, SealFails PROVE Implements
  OBVIOUS
<1>1. /\ failed' = TRUE /\ call' = "none"
      /\ UNCHANGED <<open, offer, accepted, native, cursor, gone, flight, wire, closed>>
  BY DEF SealFails
<1>2. Stream!Produce BY <1>1, FailureProduces
<1>3. TypeOK' BY <1>1 DEF TypeOK
<1> QED BY <1>2, <1>3 DEF Implements, Stream!Next

\* close_notify is sealed behind everything else, by a connection not closed.
LEMMA SealCloseStep == TypeOK /\ SealClose => Implements
<1> SUFFICES ASSUME TypeOK, SealClose PROVE Implements
  OBVIOUS
<1> DEFINE kind == IF ~closed /\ ~failed THEN "close" ELSE "none"
           nil == 0
<1>1. /\ closed' = (closed \/ kind = "close")
      /\ Drain(cursor, native \o Stream!Last(kind), failed)
      /\ UNCHANGED <<open, call, offer, accepted, flight, wire>>
  BY DEF SealClose
<1>2. /\ accepted \in Nat /\ wire \in Seq(U) /\ closed \in BOOLEAN /\ failed \in BOOLEAN
      /\ offer \in 0..MaxOffer /\ call \in {"none", "encrypt"} /\ open \in BOOLEAN
  BY DEF TypeOK, U
<1>3. /\ nil \in 0..MaxPart /\ nil \in 0..MaxControl
      /\ kind \in {"none", "close", "alert"} /\ failed \in {failed, TRUE}
      /\ nil > 0 \/ kind = "close" => ~closed /\ ~failed
      /\ kind = "alert" => failed
  BY OfferAssumption
<1>4. accepted' = accepted + nil /\ wire' = wire BY <1>1, <1>2
<1>5. Stream!Sealed(nil, nil, kind) = Stream!Last(kind)
  <2>1. Stream!Data(accepted, nil) = <<>> BY <1>2 DEF Stream!Data
  <2>2. Stream!Controls(nil) = <<>> BY DEF Stream!Controls
  <2>3. Stream!Last(kind) \in Seq(U)
    <3>1. [kind |-> "close", at |-> 0] \in U BY DEF U, Stream!Unit
    <3>2. CASE kind = "close" BY <3>1, <3>2 DEF Stream!Last
    <3>3. CASE kind = "none" BY <3>3, EmptySeq DEF Stream!Last
    <3> QED BY <3>2, <3>3
  <2> HIDE DEF kind, nil
  <2>4. (<<>> \o <<>>) \o Stream!Last(kind) = Stream!Last(kind)
    BY <2>3, ConcatEmptySeq, EmptySeq
  <2> QED BY <2>1, <2>2, <2>4 DEF Stream!Sealed
<1> HIDE DEF kind, nil
<1>6. Drain(cursor, native \o Stream!Sealed(nil, nil, kind), failed) BY <1>1, <1>5
<1>7. closed' = (closed \/ kind = "close") BY <1>1
<1>10. /\ Stream!Produce
       /\ cursor' \in Seq(U) /\ native' \in Seq(U)
       /\ gone' \in 0..CursorCap /\ gone' + Len(cursor') <= CursorCap
       /\ failed' \in BOOLEAN
       /\ \E d \in Seq(U) : cursor' = cursor \o d
  BY <1>3, <1>4, <1>6, <1>7, DrainProduces
<1>11. /\ closed' \in BOOLEAN /\ open' \in BOOLEAN /\ accepted' \in Nat
       /\ offer' \in 0..MaxOffer /\ call' \in {"none", "encrypt"}
       /\ wire' \in Seq(U) /\ flight' = flight
  BY <1>1, <1>2
<1>13. TypeOK' BY <1>10, <1>11, DrainedTypes
<1> QED BY <1>10, <1>13 DEF Implements, Stream!Next

\* The loop of encrypt ends without a change to the stream.
LEMMA EncryptEndsStep == TypeOK /\ EncryptEnds => Implements
<1> SUFFICES ASSUME TypeOK, EncryptEnds PROVE Implements
  OBVIOUS
<1>1. /\ call' = "none"
      /\ UNCHANGED <<open, offer, accepted, native, cursor, gone, flight, wire, closed, failed>>
  BY DEF EncryptEnds
<1>2. TypeOK' BY <1>1 DEF TypeOK
<1> QED BY <1>1, <1>2 DEF Implements, Stream!stream, Produced

\* A submission leaves the stream alone.
LEMMA SubmitStep == TypeOK /\ Submit => Implements
<1> SUFFICES ASSUME TypeOK, Submit PROVE Implements
  OBVIOUS
<1>1. /\ flight' = cursor
      /\ UNCHANGED <<open, call, offer, accepted, native, cursor, gone, wire, closed, failed>>
  BY DEF Submit
<1>2. cursor \in Seq(U) BY DEF TypeOK, U
<1>3. Len(cursor) \in Nat /\ cursor = SubSeq(cursor, 1, Len(cursor))
  BY <1>2, LenProperties, SubSeqFull
<1>4. TypeOK' BY <1>1, <1>2, <1>3 DEF TypeOK, U
<1> QED BY <1>1, <1>4 DEF Implements, Stream!stream, Produced

\* Nothing is the front of any cursor.
LEMMA NoFlight ==
    \A c \in Seq(U) : Len(<<>>) <= Len(c) /\ <<>> = SubSeq(c, 1, Len(<<>>))
<1> TAKE c \in Seq(U)
<1>1. Len(<<>>) = 0 /\ Len(c) \in Nat BY LenProperties
<1>2. SubSeq(c, 1, 0) = <<>> BY SubSeqEmpty
<1> QED BY <1>1, <1>2

\* A completion that ends the submission keeps the types.
LEMMA CompletedTypes ==
    ASSUME TypeOK, NEW k \in 1..CursorCap, Completes(k),
           wire' \in Seq(U), cursor' \in Seq(U), native' \in Seq(U),
           gone' \in 0..CursorCap, gone' + Len(cursor') <= CursorCap,
           failed' \in BOOLEAN
    PROVE  TypeOK'
<1>1. flight' = <<>> /\ UNCHANGED <<open, call, offer, accepted, closed>>
  BY DEF Completes
<1>2. Len(flight') <= Len(cursor') /\ flight' = SubSeq(cursor', 1, Len(flight'))
  <2> DEFINE c == cursor'
  <2>1. c \in Seq(U) OBVIOUS
  <2> HIDE DEF c
  <2>2. Len(<<>>) <= Len(c) /\ <<>> = SubSeq(c, 1, Len(<<>>)) BY <2>1, NoFlight
  <2> QED BY <2>2, <1>1 DEF c
<1>3. flight' \in Seq(U) BY <1>1, EmptySeq
<1> QED BY <1>1, <1>2, <1>3 DEF TypeOK, U

\* A part taken by the kernel moves from the cursor's front to the wire.
LEMMA SentPartStep == TypeOK /\ SentPart => Implements
<1> SUFFICES ASSUME TypeOK, SentPart PROVE Implements
  OBVIOUS
<1>1. PICK k \in 1..CursorCap :
        /\ Completes(k) /\ k < Len(cursor)
        /\ cursor' = Rest(k) /\ gone' = gone + k
        /\ UNCHANGED <<native, failed>>
  BY DEF SentPart
<1>2. /\ cursor \in Seq(U) /\ native \in Seq(U) /\ flight \in Seq(U)
      /\ gone \in 0..CursorCap /\ gone + Len(cursor) <= CursorCap /\ failed \in BOOLEAN
  BY DEF TypeOK, U
<1>3. /\ k <= Len(flight) /\ wire' = wire \o SubSeq(flight, 1, k)
      /\ accepted' = accepted /\ closed' = closed
  BY <1>1 DEF Completes
<1>4. Len(flight) \in Nat /\ Len(cursor) \in Nat BY <1>2, LenProperties
<1>5. k \in 1..Len(flight) /\ k \in 0..Len(cursor) /\ CursorCap \in Nat
  BY <1>1, <1>3, <1>4, CapAssumption
<1>6. Rest(k) \in Seq(U) /\ Len(Rest(k)) = Len(cursor) - k
  BY <1>2, <1>5, Cut DEF Rest
<1>7. cursor' \o native' = Rest(k) \o native BY <1>1
<1>8. cursor' \in Seq(U) /\ native' \in Seq(U) /\ failed' \in {failed, TRUE}
  BY <1>1, <1>2, <1>6
<1>9. Stream!Transmit /\ wire' \in Seq(U) BY <1>3, <1>5, <1>7, <1>8, Transmits
<1>10. gone' \in 0..CursorCap /\ gone' + Len(cursor') <= CursorCap
  BY <1>1, <1>2, <1>4, <1>5, <1>6
<1>11. failed' \in BOOLEAN BY <1>1, <1>2
<1>12. TypeOK' BY <1>1, <1>8, <1>9, <1>10, <1>11, CompletedTypes
<1> QED BY <1>9, <1>12 DEF Implements, Stream!Next

\* A cursor taken whole moves to the wire, and what refills it is the front of
\* the native output.
LEMMA SentAllStep == TypeOK /\ SentAll => Implements
<1> SUFFICES ASSUME TypeOK, SentAll PROVE Implements
  OBVIOUS
<1>1. PICK k \in 1..CursorCap :
        /\ Completes(k) /\ k = Len(cursor)
        /\ \/ Drain(<<>>, native, failed)
           \/ /\ failed
              /\ cursor' = <<>> /\ gone' = 0
              /\ UNCHANGED <<native, failed>>
  BY DEF SentAll
<1>2. /\ cursor \in Seq(U) /\ native \in Seq(U) /\ flight \in Seq(U)
      /\ gone \in 0..CursorCap /\ failed \in BOOLEAN /\ Len(flight) <= Len(cursor)
  BY DEF TypeOK, U
<1>3. /\ k <= Len(flight) /\ wire' = wire \o SubSeq(flight, 1, k)
      /\ accepted' = accepted /\ closed' = closed
  BY <1>1 DEF Completes
<1>4. Len(flight) \in Nat /\ Len(cursor) \in Nat /\ CursorCap \in Nat
  BY <1>2, LenProperties, CapAssumption
<1>5. k \in 1..Len(flight) /\ k \in 0..Len(cursor) BY <1>1, <1>3, <1>4
<1>6. <<>> \in Seq(U) /\ Len(<<>>) = 0 BY EmptySeq
<1>7. Rest(k) = <<>>
  <2>1. Rest(k) \in Seq(U) /\ Len(Rest(k)) = Len(cursor) - k
    BY <1>2, <1>5, Cut DEF Rest
  <2>2. Len(Rest(k)) = 0 BY <2>1, <1>1, <1>4
  <2> QED BY <2>1, <2>2, EmptySeq
<1>8. /\ cursor' \in Seq(U) /\ native' \in Seq(U)
      /\ cursor' \o native' = <<>> \o native
      /\ gone' \in 0..CursorCap /\ gone' + Len(cursor') <= CursorCap
      /\ failed' \in BOOLEAN /\ (failed => failed')
  <2>1. CASE Drain(<<>>, native, failed)
    <3>1. Start(<<>>) + Len(<<>>) <= CursorCap BY <1>4, <1>6 DEF Start
    <3> DEFINE cur == <<>>
    <3>2. /\ cur \in Seq(U) /\ Start(cur) + Len(cur) <= CursorCap
          /\ Drain(cur, native, failed)
      BY <2>1, <3>1, <1>6
    <3> HIDE DEF cur
    <3>3. /\ cursor' \in Seq(U) /\ native' \in Seq(U)
          /\ cursor' \o native' = cur \o native
          /\ gone' \in 0..CursorCap /\ gone' + Len(cursor') <= CursorCap
          /\ failed' \in BOOLEAN /\ (failed => failed')
      BY <3>2, <1>2, Drained
    <3> QED BY <3>3 DEF cur
  <2>2. CASE failed /\ cursor' = <<>> /\ gone' = 0 /\ UNCHANGED <<native, failed>>
    BY <2>2, <1>2, <1>4, <1>6
  <2> QED BY <2>1, <2>2, <1>1
<1>9. cursor' \o native' = Rest(k) \o native BY <1>7, <1>8
<1>10. failed' \in {failed, TRUE} BY <1>2, <1>8
<1>11. Stream!Transmit /\ wire' \in Seq(U)
  BY <1>3, <1>5, <1>8, <1>9, <1>10, Transmits
<1>12. TypeOK' BY <1>1, <1>8, <1>11, CompletedTypes
<1> QED BY <1>11, <1>12 DEF Implements, Stream!Next

-----------------------------------------------------------------------------
(* The theorems *)

\* The first flight is cut where the slot of the opening ends.
LEMMA InitImplements == Init => TypeOK /\ Stream!Init
<1> SUFFICES ASSUME Init PROVE TypeOK /\ Stream!Init
  OBVIOUS
<1>1. PICK m \in 0..MaxControl :
        /\ cursor = SubSeq(Stream!Controls(m), 1, Least(CursorCap, m))
        /\ native = SubSeq(Stream!Controls(m), Least(CursorCap, m) + 1, m)
  BY Zenon DEF Init
<1>2. /\ open = FALSE /\ call = "none" /\ offer = 0 /\ accepted = 0
      /\ gone = 0 /\ flight = <<>> /\ wire = <<>> /\ closed = FALSE /\ failed = FALSE
  BY DEF Init
<1> DEFINE s == Stream!Controls(m)
           k == Least(CursorCap, m)
<1>3. s \in Seq(U) /\ Len(s) = m
  <2>1. [kind |-> "control", at |-> 0] \in U BY DEF U, Stream!Unit
  <2>2. s = [i \in 1..m |-> [kind |-> "control", at |-> 0]] BY DEF Stream!Controls
  <2>3. m \in Nat BY OfferAssumption
  <2> HIDE DEF s
  <2> QED BY <2>1, <2>2, <2>3
<1>4. k \in 0..m /\ k <= CursorCap /\ CursorCap \in Nat
  BY CapAssumption, OfferAssumption DEF Least
<1>5. /\ cursor \in Seq(U) /\ Len(cursor) = k /\ native \in Seq(U)
      /\ cursor \o native = s
  <2>1. cursor = SubSeq(s, 1, k) /\ native = SubSeq(s, k + 1, Len(s)) BY <1>1, <1>3
  <2> HIDE DEF s, k
  <2> QED BY <2>1, <1>3, <1>4, Cut
<1> HIDE DEF s, k
<1>6. TypeOK
  <2>1. Len(flight) <= Len(cursor) /\ flight = SubSeq(cursor, 1, Len(flight))
    BY <1>2, <1>5, NoFlight
  <2>2. wire \in Seq(U) /\ flight \in Seq(U) BY <1>2, EmptySeq
  <2>3. gone \in 0..CursorCap /\ gone + Len(cursor) <= CursorCap
    BY <1>2, <1>4, <1>5, OfferAssumption
  <2>4. /\ open \in BOOLEAN /\ closed \in BOOLEAN /\ failed \in BOOLEAN
        /\ call \in {"none", "encrypt"} /\ accepted \in Nat
    BY <1>2
  <2>5. offer \in 0..MaxOffer BY <1>2, OfferAssumption
  <2> QED BY <2>1, <2>2, <2>3, <2>4, <2>5, <1>5 DEF TypeOK, U
<1>7. Produced = s
  <2>1. wire \o cursor = cursor BY <1>2, <1>5, ConcatEmptySeq
  <2> QED BY <2>1, <1>5 DEF Produced
<1>8. Stream!Init BY <1>2, <1>7 DEF Stream!Init, s
<1> QED BY <1>6, <1>8

\* One step of the send path.
LEMMA NextImplements == TypeOK /\ [Next]_vars => Implements
<1> SUFFICES ASSUME TypeOK, [Next]_vars PROVE Implements
  OBVIOUS
<1>1. CASE Receive BY <1>1, ReceiveStep
<1>2. CASE Prepare BY <1>2, PrepareStep
<1>3. CASE Seal BY <1>3, SealStep
<1>4. CASE SealFails BY <1>4, SealFailsStep
<1>5. CASE EncryptEnds BY <1>5, EncryptEndsStep
<1>6. CASE Flush BY <1>6, FlushStep
<1>7. CASE SealClose BY <1>7, SealCloseStep
<1>8. CASE Submit BY <1>8, SubmitStep
<1>9. CASE SentPart BY <1>9, SentPartStep
<1>10. CASE SentAll BY <1>10, SentAllStep
<1>12. CASE PeerEof BY <1>12, PeerEofStep
<1>11. CASE UNCHANGED vars
  BY <1>11 DEF vars, Implements, TypeOK, Stream!stream, Produced
<1> QED BY <1>1, <1>2, <1>3, <1>4, <1>5, <1>6, <1>7, <1>8, <1>9, <1>10, <1>11, <1>12 DEF Next

\* What is in the kernel is the front of the cursor, and slots do not overflow.
THEOREM TypeCorrect == Spec => []TypeOK
<1>1. TypeOK /\ [Next]_vars => TypeOK' BY NextImplements DEF Implements
<1> QED BY <1>1, InitImplements, PTL DEF Spec

\* The send path of a connection implements the abstract stream.
THEOREM Refines == Spec => StreamSpec
<1>1. TypeOK /\ [Next]_vars => [Stream!Next]_(Stream!stream)
  BY NextImplements DEF Implements
<1> QED BY <1>1, InitImplements, TypeCorrect, PTL DEF Spec, StreamSpec, Stream!Spec

\* The stream of the send path is the stream those theorems are about.
LEMMA SameStream == StreamSpec => SP!Spec
<1>1. Stream!Init => SP!Init
  BY DEF Stream!Init, SP!Init, Stream!Controls, SP!Controls
<1>2. [Stream!Next]_(Stream!stream) => [SP!Next]_(SP!stream)
  BY DEF Stream!Next, SP!Next, Stream!Produce, SP!Produce, Stream!Transmit, SP!Transmit,
         Stream!Sealed, SP!Sealed, Stream!Data, SP!Data, Stream!DataUnit, SP!DataUnit,
         Stream!Controls, SP!Controls, Stream!Last, SP!Last, Stream!stream, SP!stream
<1> QED BY <1>1, <1>2, PTL DEF StreamSpec, Stream!Spec, SP!Spec

\* So it inherits what every such stream has: consumed plaintext is sealed once
\* and in the order it was offered.
THEOREM InOrder == Spec => []DataInOrder
<1>1. SP!Spec => []SP!DataInOrder BY SP!InOrder
<1>2. SP!DataInOrder => DataInOrder
  BY DEF DataInOrder, SP!DataInOrder, Stream!DataInOrder, SP!IsData, Stream!IsData,
         SP!DataUnit, Stream!DataUnit
<1> QED BY <1>1, <1>2, Refines, SameStream, PTL

\* close_notify is sealed once, and no plaintext follows the end.
THEOREM EndIsLast == Spec => []NothingAfterEnd
<1>1. SP!Spec => []SP!NothingAfterEnd BY SP!EndIsLast
<1>2. SP!NothingAfterEnd => NothingAfterEnd
  BY DEF NothingAfterEnd, SP!NothingAfterEnd, Stream!NothingAfterEnd
<1> QED BY <1>1, <1>2, Refines, SameStream, PTL

-----------------------------------------------------------------------------
(* End to end: the send path is the writer of a session.  A session's stream *)
(* is bounded, so the bound of the send path's is part of the argument.      *)

\* What is produced, by its length.
Total == Len(wire) + Len(cursor) + Len(native)

\* The bound on the whole connection holds of it.
Bounded == Total <= MaxUnits

\* The length of the whole is that of its parts.
LEMMA WholeLength == TypeOK => Len(Produced) = Total /\ Total \in Nat
<1> SUFFICES ASSUME TypeOK PROVE Len(Produced) = Total /\ Total \in Nat
  OBVIOUS
<1>1. wire \in Seq(U) /\ cursor \in Seq(U) /\ native \in Seq(U) BY DEF TypeOK, U
<1> DEFINE wc == wire \o cursor
<1>2. wc \in Seq(U) /\ Len(wc) = Len(wire) + Len(cursor) BY <1>1, ConcatProperties
<1>3. Len(wc \o native) = Len(wc) + Len(native)
  <2> HIDE DEF wc
  <2> QED BY <1>1, <1>2, ConcatProperties
<1>4. Len(wire) \in Nat /\ Len(cursor) \in Nat /\ Len(native) \in Nat BY <1>1, LenProperties
<1> QED BY <1>2, <1>3, <1>4 DEF Produced, Total

\* The length of what a step appends.
LEMMA SealedLength ==
    accepted \in Nat =>
        \A n \in Nat, m \in Nat, kind \in {"none", "close", "alert"} :
            /\ Len(Stream!Sealed(n, m, kind)) = n + m + Len(Stream!Last(kind))
            /\ Len(Stream!Last(kind)) \in Nat
<1> SUFFICES ASSUME accepted \in Nat, NEW n \in Nat, NEW m \in Nat,
                    NEW kind \in {"none", "close", "alert"}
             PROVE  /\ Len(Stream!Sealed(n, m, kind)) = n + m + Len(Stream!Last(kind))
                    /\ Len(Stream!Last(kind)) \in Nat
  OBVIOUS
<1>1. kind \in SP!Kind BY DEF SP!Kind
<1>2. Len(SP!Sealed(n, m, kind)) = n + m + SP!Ends(kind)
  BY <1>1, SP!SealedShape DEF SP!Shape
<1>3. SP!Sealed(n, m, kind) = Stream!Sealed(n, m, kind)
  BY DEF SP!Sealed, Stream!Sealed, SP!Data, Stream!Data, SP!Controls, Stream!Controls,
         SP!Last, Stream!Last, SP!DataUnit, Stream!DataUnit
<1>4. Len(Stream!Last(kind)) = SP!Ends(kind)
  <2>1. CASE kind = "none"
    <3>1. Stream!Last(kind) = <<>> BY <2>1 DEF Stream!Last
    <3> QED BY <3>1, <2>1 DEF SP!Ends
  <2>2. CASE kind # "none"
    <3>1. Stream!Last(kind) = <<[kind |-> kind, at |-> 0]>> BY <2>2 DEF Stream!Last
    <3> QED BY <3>1, <2>2 DEF SP!Ends
  <2> QED BY <2>1, <2>2
<1>5. SP!Ends(kind) \in Nat BY DEF SP!Ends
<1> QED BY <1>2, <1>3, <1>4, <1>5

\* A drain keeps the units it moves.
LEMMA DrainLength ==
    ASSUME TypeOK, NEW cur \in Seq(U), NEW out \in Seq(U), NEW over \in BOOLEAN,
           Start(cur) + Len(cur) <= CursorCap, Drain(cur, out, over)
    PROVE  Len(cursor') + Len(native') = Len(cur) + Len(out)
<1>1. gone \in 0..CursorCap BY DEF TypeOK
<1>2. /\ cursor' \in Seq(U) /\ native' \in Seq(U)
      /\ cursor' \o native' = cur \o out
  BY <1>1, Drained
<1>3. Len(cursor' \o native') = Len(cursor') + Len(native')
  BY <1>2, ConcatProperties
<1>4. Len(cur \o out) = Len(cur) + Len(out) BY ConcatProperties
<1> QED BY <1>2, <1>3, <1>4

\* The usual drain, into the cursor as it is.
LEMMA DrainsOn ==
    ASSUME TypeOK, NEW out \in Seq(U), NEW over \in BOOLEAN, Drain(cursor, out, over),
           wire' = wire, TypeOK'
    PROVE  Total' = Len(wire) + Len(cursor) + Len(out)
<1>1. cursor \in Seq(U) /\ wire \in Seq(U) /\ cursor' \in Seq(U) /\ native' \in Seq(U)
  BY DEF TypeOK, U
<1>2. Start(cursor) + Len(cursor) <= CursorCap
  <2>1. gone \in 0..CursorCap /\ gone + Len(cursor) <= CursorCap BY DEF TypeOK
  <2>2. Len(<<>>) = 0 /\ CursorCap \in Nat BY EmptySeq, CapAssumption
  <2> QED BY <2>1, <2>2 DEF Start
<1>3. Len(cursor') + Len(native') = Len(cursor) + Len(out) BY <1>1, <1>2, DrainLength
<1>4. /\ Len(wire) \in Nat /\ Len(cursor) \in Nat /\ Len(out) \in Nat
      /\ Len(cursor') \in Nat /\ Len(native') \in Nat
  BY <1>1, LenProperties
<1>5. Total' = Len(wire) + Len(cursor') + Len(native') BY DEF Total
<1> QED BY <1>3, <1>4, <1>5

\* What is sealed is within the bound that its guard asks of it.
LEMMA SealsBounded ==
    ASSUME TypeOK, TypeOK', NEW n \in 0..MaxPart, NEW m \in 0..MaxControl,
           NEW kind \in {"none", "close", "alert"}, NEW over \in BOOLEAN,
           Room(n + m + Len(Stream!Last(kind))), wire' = wire,
           \/ Drain(cursor, native \o Stream!Sealed(n, m, kind), over)
           \/ native' = native \o Stream!Sealed(n, m, kind) /\ cursor' = cursor
    PROVE  Bounded'
<1> DEFINE s == Stream!Sealed(n, m, kind)
           out == native \o s
<1>1. n \in Nat /\ m \in Nat /\ accepted \in Nat BY OfferAssumption DEF TypeOK
<1>2. s \in Seq(U) BY <1>1, SealedUnits
<1>3. Len(s) = n + m + Len(Stream!Last(kind)) /\ Len(Stream!Last(kind)) \in Nat
  BY <1>1, SealedLength
<1>4. native \in Seq(U) /\ cursor \in Seq(U) /\ wire \in Seq(U) BY DEF TypeOK, U
<1> HIDE DEF s
<1>5. out \in Seq(U) /\ Len(out) = Len(native) + Len(s) BY <1>2, <1>4, ConcatProperties
<1>6. Total' = Len(wire) + Len(cursor) + Len(out)
  <2> HIDE DEF out
  <2>1. CASE Drain(cursor, out, over) BY <2>1, <1>5, DrainsOn
  <2>2. CASE native' = out /\ cursor' = cursor BY <2>2 DEF Total
  <2> QED BY <2>1, <2>2 DEF out, s
<1>7. Len(wire) \in Nat /\ Len(cursor) \in Nat /\ Len(native) \in Nat BY <1>4, LenProperties
<1>8. Total + (n + m + Len(Stream!Last(kind))) <= MaxUnits BY WholeLength DEF Room
<1> HIDE DEF out
<1>9. Total' <= MaxUnits BY <1>1, <1>3, <1>5, <1>6, <1>7, <1>8 DEF Total
<1> QED BY <1>9 DEF Bounded

\* A completion moves units to the wire.
LEMMA CompletionLength ==
    ASSUME TypeOK, TypeOK', NEW k \in 1..CursorCap, Completes(k), k <= Len(cursor),
           Len(cursor') + Len(native') = (Len(cursor) - k) + Len(native)
    PROVE  Total' = Total
<1>1. /\ wire \in Seq(U) /\ cursor \in Seq(U) /\ native \in Seq(U) /\ flight \in Seq(U)
      /\ cursor' \in Seq(U) /\ native' \in Seq(U)
  BY DEF TypeOK, U
<1>2. /\ Len(wire) \in Nat /\ Len(cursor) \in Nat /\ Len(native) \in Nat
      /\ Len(cursor') \in Nat /\ Len(native') \in Nat /\ Len(flight) \in Nat
  BY <1>1, LenProperties
<1>3. k <= Len(flight) /\ wire' = wire \o SubSeq(flight, 1, k) BY DEF Completes
<1>4. k \in 0..Len(flight) BY <1>2, <1>3
<1> DEFINE f == SubSeq(flight, 1, k)
<1>5. f \in Seq(U) /\ Len(f) = k BY <1>1, <1>4, Cut
<1>6. Len(wire \o f) = Len(wire) + k
  <2> HIDE DEF f
  <2> QED BY <1>1, <1>5, ConcatProperties
<1>7. Len(wire') = Len(wire) + k BY <1>3, <1>6
<1>8. k \in Nat OBVIOUS
<1>9. Total' = Len(wire') + Len(cursor') + Len(native') BY DEF Total
<1> QED BY <1>2, <1>7, <1>8, <1>9 DEF Total

\* No step produces more than the bound.
LEMMA NextBounded == TypeOK /\ Bounded /\ [Next]_vars => Bounded'
<1> SUFFICES ASSUME TypeOK, Bounded, [Next]_vars PROVE Bounded'
  OBVIOUS
<1>0. TypeOK' BY NextImplements DEF Implements
<1>1. failed \in BOOLEAN /\ native \in Seq(U) /\ cursor \in Seq(U) /\ accepted \in Nat
  BY DEF TypeOK, U
<1>2. 0 \in 0..MaxPart /\ 0 \in 0..MaxControl BY OfferAssumption
<1>3. CASE Receive
  <2>1. wire' = wire BY <1>3 DEF Receive
  <2>2. PICK m \in 0..MaxControl, kind \in {"none", "alert"}, over \in BOOLEAN :
          /\ Room(m + Len(Stream!Last(kind)))
          /\ \/ Drain(cursor, native \o Stream!Sealed(0, m, kind), over)
             \/ native' = native \o Stream!Sealed(0, m, kind) /\ cursor' = cursor
    BY <1>3, Zenon DEF Receive
  <2>3. Room(0 + m + Len(Stream!Last(kind)))
    <3>1. m \in Nat BY OfferAssumption
    <3>2. 0 + m = m BY <3>1
    <3> QED BY <2>2, <3>2
  <2>4. kind \in {"none", "close", "alert"} OBVIOUS
  <2> QED BY <1>0, <1>2, <2>1, <2>2, <2>3, <2>4, SealsBounded
<1>4. CASE Seal
  <2>1. wire' = wire /\ native = <<>> BY <1>4 DEF Seal, Seals
  <2>2. PICK n \in 0..Least(offer, MaxPart), m \in 0..MaxControl :
          Room(n + m) /\ Drain(cursor, Stream!Sealed(n, m, "none"), failed)
    BY <1>4 DEF Seal
  <2>3. n \in 0..MaxPart /\ n \in Nat /\ m \in Nat
    <3>1. offer \in Nat BY OfferAssumption DEF TypeOK
    <3> QED BY <3>1, OfferAssumption DEF Least
  <2>4. Stream!Last("none") = <<>> /\ Len(<<>>) = 0 BY EmptySeq DEF Stream!Last
  <2>5. Room(n + m + Len(Stream!Last("none")))
    <3>1. n + m + Len(Stream!Last("none")) = n + m BY <2>3, <2>4
    <3> QED BY <2>2, <3>1
  <2>6. native \o Stream!Sealed(n, m, "none") = Stream!Sealed(n, m, "none")
    <3>1. Stream!Sealed(n, m, "none") \in Seq(U) BY <1>1, <2>3, SealedUnits
    <3> QED BY <2>1, <3>1, ConcatEmptySeq
  <2>7. Drain(cursor, native \o Stream!Sealed(n, m, "none"), failed) BY <2>2, <2>6
  <2> QED BY <1>0, <1>1, <2>1, <2>3, <2>5, <2>7, SealsBounded
<1>5. CASE SealClose
  <2>1. wire' = wire BY <1>5 DEF SealClose
  <2>2. PICK kind \in {"none", "close", "alert"} :
          Room(Len(Stream!Last(kind))) /\ Drain(cursor, native \o Stream!Last(kind), failed)
    BY <1>5 DEF SealClose
  <2>3. Stream!Sealed(0, 0, kind) = Stream!Last(kind)
    <3>1. Stream!Data(accepted, 0) = <<>> BY <1>1 DEF Stream!Data
    <3>2. Stream!Controls(0) = <<>> BY DEF Stream!Controls
    <3>3. Stream!Last(kind) \in Seq(U)
      <4>1. CASE kind = "none" BY <4>1, EmptySeq DEF Stream!Last
      <4>2. CASE kind # "none"
        <5>1. [kind |-> kind, at |-> 0] \in U BY <4>2 DEF U, Stream!Unit
        <5>2. Stream!Last(kind) = <<[kind |-> kind, at |-> 0]>> BY <4>2 DEF Stream!Last
        <5> QED BY <5>1, <5>2
      <4> QED BY <4>1, <4>2
    <3>4. <<>> \o <<>> = <<>> BY EmptySeq, ConcatEmptySeq
    <3> QED BY <3>1, <3>2, <3>3, <3>4, ConcatEmptySeq DEF Stream!Sealed
  <2>4. Drain(cursor, native \o Stream!Sealed(0, 0, kind), failed) BY <2>2, <2>3
  <2>5. Room(0 + 0 + Len(Stream!Last(kind)))
    <3>1. Len(Stream!Last(kind)) \in Nat BY <1>1, SealedLength
    <3>2. 0 + 0 + Len(Stream!Last(kind)) = Len(Stream!Last(kind)) BY <3>1
    <3> QED BY <2>2, <3>2
  <2> QED BY <1>0, <1>1, <1>2, <2>1, <2>4, <2>5, SealsBounded
<1>6. CASE Prepare \/ Flush
  <2>1. wire' = wire /\ Drain(cursor, native, failed) BY <1>6 DEF Prepare, Flush
  <2>2. Total' = Total BY <1>0, <1>1, <2>1, DrainsOn DEF Total
  <2> QED BY <2>2 DEF Bounded
<1>7. CASE SentPart
  <2>1. PICK k \in 1..CursorCap :
          Completes(k) /\ k < Len(cursor) /\ cursor' = Rest(k) /\ native' = native
    BY <1>7 DEF SentPart
  <2>2. Len(cursor) \in Nat BY <1>1, LenProperties
  <2>3. k \in 0..Len(cursor) /\ k <= Len(cursor) BY <2>1, <2>2
  <2>4. Len(Rest(k)) = Len(cursor) - k BY <1>1, <2>3, Cut DEF Rest
  <2>5. Total' = Total BY <1>0, <2>1, <2>3, <2>4, CompletionLength
  <2> QED BY <2>5 DEF Bounded
<1>8. CASE SentAll
  <2>1. PICK k \in 1..CursorCap :
          /\ Completes(k) /\ k = Len(cursor)
          /\ \/ Drain(<<>>, native, failed)
             \/ cursor' = <<>> /\ native' = native
    BY <1>8 DEF SentAll
  <2>2. Len(cursor) \in Nat /\ Len(native) \in Nat /\ Len(cursor) <= Len(cursor)
    BY <1>1, LenProperties
  <2>3. <<>> \in Seq(U) /\ Len(<<>>) = 0 BY EmptySeq
  <2>4. Len(cursor') + Len(native') = Len(<<>>) + Len(native)
    <3>1. CASE Drain(<<>>, native, failed)
      <4>1. Start(<<>>) + Len(<<>>) <= CursorCap BY <2>3, CapAssumption DEF Start
      <4> QED BY <3>1, <4>1, <1>1, <2>3, DrainLength
    <3>2. CASE cursor' = <<>> /\ native' = native BY <3>2
    <3> QED BY <2>1, <3>1, <3>2
  <2>5. Len(cursor') + Len(native') = (Len(cursor) - k) + Len(native)
    BY <2>1, <2>2, <2>3, <2>4
  <2>6. Total' = Total BY <1>0, <2>1, <2>2, <2>5, CompletionLength
  <2> QED BY <2>6 DEF Bounded
<1>9. CASE PeerEof \/ SealFails \/ EncryptEnds \/ Submit \/ UNCHANGED vars
  BY <1>9 DEF PeerEof, SealFails, EncryptEnds, Submit, vars, Bounded, Total
<1> QED BY <1>3, <1>4, <1>5, <1>6, <1>7, <1>8, <1>9 DEF Next

\* The first flight of an opening is within the bound.
LEMMA InitBounded == Init => Bounded
<1> SUFFICES ASSUME Init PROVE Bounded
  OBVIOUS
<1>1. TypeOK BY InitImplements
<1>2. PICK m \in 0..MaxControl :
        /\ cursor = SubSeq(Stream!Controls(m), 1, Least(CursorCap, m))
        /\ native = SubSeq(Stream!Controls(m), Least(CursorCap, m) + 1, m)
  BY Zenon DEF Init
<1>3. wire = <<>> /\ Len(wire) = 0 BY EmptySeq DEF Init
<1> DEFINE s == Stream!Controls(m)
           k == Least(CursorCap, m)
<1>4. m \in Nat /\ s \in Seq(U) /\ Len(s) = m
  <2>1. [kind |-> "control", at |-> 0] \in U BY DEF U, Stream!Unit
  <2>2. s = [i \in 1..m |-> [kind |-> "control", at |-> 0]] BY DEF Stream!Controls
  <2>3. m \in Nat BY OfferAssumption
  <2> HIDE DEF s
  <2> QED BY <2>1, <2>2, <2>3
<1>5. k \in 0..m BY CapAssumption, OfferAssumption DEF Least
<1>6. Len(cursor) = k /\ Len(native) = m - k
  <2>1. cursor = SubSeq(s, 1, k) /\ native = SubSeq(s, k + 1, Len(s)) BY <1>2, <1>4
  <2> HIDE DEF s, k
  <2> QED BY <2>1, <1>4, <1>5, Cut
<1> HIDE DEF s, k
<1>7. Total = m BY <1>3, <1>4, <1>5, <1>6 DEF Total
<1>8. m <= MaxUnits BY <1>4, FlightAssumption, OfferAssumption
<1> QED BY <1>7, <1>8 DEF Bounded

\* The reader's steps leave the send path alone; the writer's are steps of a
\* session's writer.
LEMMA EndsStep ==
    TypeOK /\ Bounded /\ [EndsNext]_ends =>
        TypeOK' /\ Bounded' /\ [Peer!SessionNext]_(Peer!session)
<1> SUFFICES ASSUME TypeOK, Bounded, [EndsNext]_ends
             PROVE  TypeOK' /\ Bounded' /\ [Peer!SessionNext]_(Peer!session)
  OBVIOUS
<1>1. [Next]_vars BY DEF EndsNext, ends
<1>2. TypeOK' /\ Bounded' /\ [Stream!Next]_(Stream!stream)
  BY <1>1, NextImplements, NextBounded DEF Implements
<1>3. CASE UNCHANGED reader
  <2>1. UNCHANGED Peer!reader BY <1>3 DEF reader, Peer!reader
  <2>2. Len(Produced)' <= MaxUnits
    <3>1. (TypeOK => Len(Produced) = Total)' BY WholeLength, PTL
    <3> QED BY <1>2, <3>1 DEF Bounded
  <2>3. CASE Stream!Next
    <3>1. Peer!Produce \/ Peer!Transmit
      BY <2>3 DEF Stream!Next, Peer!Produce, Stream!Produce, Peer!Transmit, Stream!Transmit,
           Stream!Sealed, Peer!Sealed, Stream!Data, Peer!Data, Stream!DataUnit,
           Peer!DataUnit, Stream!Controls, Peer!Controls, Stream!Last, Peer!Last
    <3> QED BY <1>2, <2>1, <2>2, <3>1 DEF Peer!SessionNext, Peer!Write
  <2>4. CASE UNCHANGED Stream!stream
    BY <1>2, <2>1, <2>4 DEF Stream!stream, Peer!stream, Peer!session
  <2> QED BY <1>2, <2>3, <2>4
<1>4. CASE Peer!Read \/ Peer!Eof
  BY <1>2, <1>4 DEF Peer!SessionNext
<1> QED BY <1>3, <1>4 DEF EndsNext, ends

\* To the reader the send path is the writer of a session, whatever its sizes.
THEOREM WritesSession == EndsSpec => SessionSpec
<1>1. EndsInit => TypeOK /\ Bounded /\ Peer!SessionInit
  <2>1. Stream!Init => Peer!Init
    BY DEF Stream!Init, Peer!Init, Stream!Controls, Peer!Controls
  <2> QED BY <2>1, InitImplements, InitBounded DEF EndsInit, Peer!SessionInit
<1> QED BY <1>1, EndsStep, PTL DEF EndsSpec, SessionSpec, Peer!SessionSpec

\* The session of this send path is the session those theorems are about.
LEMMA SameSession == SessionSpec => SSP!SessionSpec
<1>1. Peer!SessionInit => SSP!SessionInit
  BY DEF Peer!SessionInit, SSP!SessionInit, Peer!Init, SSP!Init, Peer!ReaderInit,
         SSP!ReaderInit, Peer!Controls, SSP!Controls
<1>2. [Peer!SessionNext]_(Peer!session) => [SSP!SessionNext]_(SSP!session)
  <2>1. Peer!Write => SSP!Write
    BY DEF Peer!Write, SSP!Write, Peer!Produce, SSP!Produce, Peer!Transmit, SSP!Transmit,
           Peer!Sealed, SSP!Sealed, Peer!Data, SSP!Data, Peer!DataUnit, SSP!DataUnit,
           Peer!Controls, SSP!Controls, Peer!Last, SSP!Last, Peer!reader, SSP!reader
  <2>2. Peer!Read \/ Peer!Eof => SSP!Read \/ SSP!Eof
    BY DEF Peer!Read, SSP!Read, Peer!Eof, SSP!Eof, Peer!Reads, SSP!Reads, Peer!Decodes,
           SSP!Decodes, Peer!Outcome, SSP!Outcome, Peer!End, SSP!End, Peer!stream,
           SSP!stream
  <2>3. Peer!SessionNext => SSP!SessionNext
    BY <2>1, <2>2 DEF Peer!SessionNext, SSP!SessionNext
  <2>4. UNCHANGED Peer!session => UNCHANGED SSP!session
    BY DEF Peer!session, SSP!session, Peer!stream, SSP!stream, Peer!reader, SSP!reader
  <2> QED BY <2>3, <2>4
<1> QED BY <1>1, <1>2, PTL DEF SessionSpec, Peer!SessionSpec, SSP!SessionSpec

\* What the session promises, its readers have of this send path: an application
\* told of the end has all the plaintext that was ever reported as consumed.
THEOREM NothingCutOff == EndsSpec => []NoTruncation
<1>1. SSP!SessionSpec => []SSP!NoTruncation BY OfferAssumption, SSP!WholeStream
<1>2. SSP!NoTruncation => NoTruncation
  BY DEF NoTruncation, SSP!NoTruncation, Peer!NoTruncation, SSP!Published,
         Peer!Published, SSP!DataUnit, Peer!DataUnit
<1> QED BY <1>1, <1>2, WritesSession, SameSession, PTL

\* No reader ever sees a byte before all those consumed in front of it.
THEOREM NothingLeftOut == EndsSpec => []NoGaps
<1>1. SSP!SessionSpec => []SSP!NoGaps BY OfferAssumption, SSP!GapFree
<1>2. SSP!NoGaps => NoGaps
  BY DEF NoGaps, SSP!NoGaps, Peer!NoGaps, SSP!Published,
         Peer!Published, SSP!DataUnit, Peer!DataUnit
<1> QED BY <1>1, <1>2, WritesSession, SameSession, PTL
=============================================================================
