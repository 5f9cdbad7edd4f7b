----------------------------- MODULE RetainedProofs -----------------------------
(***************************************************************************)
(* Retained reads one stream.  The invariant says where each byte of the   *)
(* current read lies: the parts' buffers hold consecutive bytes, the       *)
(* input's part is not begun before the chunk is finished, and a buffer    *)
(* anybody still looks at is not written.                                  *)
(***************************************************************************)
EXTENDS Retained, SequenceTheorems, TLAPS

AllNothing == [p \in Part |-> Nothing]

\* The number of the byte in front of part p's buffer.
Base(p) ==
    published - part["plain"].end - (IF p = "staged" THEN part["staged"].end ELSE 0)

\* A part is where the stream says, in a buffer, or nowhere.
Holds(p) ==
    /\ part[p].len <= part[p].end
    /\ part[p].end = 0 => part[p] = Nothing
    /\ part[p].end > 0 =>
          /\ part[p].buf \in Buffers
          /\ part[p].end <= Len(memory[part[p].buf])
          /\ \A k \in 1..part[p].end : memory[part[p].buf][k] = Base(p) + k

Parts == \A p \in Part : Holds(p)

\* What the kinds of reads keep.
Modes ==
    /\ part["staged"].end + part["plain"].end <= published
    /\ mode = "none" => part = AllNothing
    /\ mode # "cursor" => remaining = 0 /\ head = "none"
    /\ mode = "batch" => part # AllNothing /\ \A p \in Part : part[p].len = part[p].end
    /\ mode = "cursor" =>
          /\ remaining = part["staged"].len + part["plain"].len
          /\ part["plain"].len < part["plain"].end => part["staged"].len = 0
    /\ head # "none" => head = Front /\ part[head].len > 0 /\ left <= part[head].len

Shares ==
    \A s \in shares :
        /\ s.from >= 1 /\ s.from <= s.to /\ s.to <= Len(memory[s.buf]) /\ s.at >= 1
        /\ \A k \in s.from..s.to : memory[s.buf][k] = (s.at - 1) + (k - (s.from - 1))

IInv == TypeOK /\ Parts /\ Modes /\ Shares

-----------------------------------------------------------------------------
(* Slices *)

\* A slice of consecutive bytes is a run.
LEMMA SliceIsRun ==
    ASSUME NEW m \in Seq(Nat), NEW a \in Nat, NEW b \in Nat, a <= b, b <= Len(m),
           NEW x \in Int, \A k \in (a + 1)..b : m[k] = x + (k - a)
    PROVE  /\ SubSeq(m, a + 1, b) = Stream!Run(x, b - a)
           /\ SubSeq(m, a + 1, b) \in Seq(Nat)
<1>1. SubSeq(m, a + 1, b) = [i \in 1..(b - a) |-> m[i + a]]
  <2>1. SubSeq(m, a + 1, b) = [i \in 1..(1 + b - (a + 1)) |-> m[i + (a + 1) - 1]]
    OBVIOUS
  <2>2. 1 + b - (a + 1) = b - a OBVIOUS
  <2>3. \A i \in 1..(b - a) : i + (a + 1) - 1 = i + a OBVIOUS
  <2> QED BY <2>1, <2>2, <2>3
<1>2. \A i \in 1..(b - a) : m[i + a] = x + i /\ m[i + a] \in Nat
  <2> TAKE i \in 1..(b - a)
  <2>1. i + a \in (a + 1)..b /\ i + a \in 1..Len(m) /\ (i + a) - a = i OBVIOUS
  <2> QED BY <2>1
<1>3. [i \in 1..(b - a) |-> m[i + a]] = [i \in 1..(b - a) |-> x + i] BY <1>2
<1>4. b - a \in Nat OBVIOUS
<1> QED BY <1>1, <1>2, <1>3, <1>4 DEF Stream!Run

\* The buffer has the n bytes behind byte x, and something behind them.
Fills(m, x, n) ==
    /\ m \in Seq(Nat) /\ Len(m) = n + 1
    /\ \A k \in 1..n : m[k] = x + k

\* A buffer that was just filled.
LEMMA Filled ==
    ASSUME NEW x \in Nat, NEW n \in Nat
    PROVE  Fills(Append(Stream!Run(x, n), 0), x, n)
<1> DEFINE r == Stream!Run(x, n)
<1>1. r \in Seq(Nat) /\ Len(r) = n /\ \A k \in 1..n : r[k] = x + k
  BY DEF Stream!Run
<1> HIDE DEF r
<1>2. /\ Append(r, 0) \in Seq(Nat) /\ Len(Append(r, 0)) = n + 1
      /\ \A k \in 1..n : Append(r, 0)[k] = r[k]
  BY <1>1, AppendProperties
<1> QED BY <1>1, <1>2 DEF r, Fills

-----------------------------------------------------------------------------
(* Where the reader is *)

\* The current head begins at the first byte that is not consumed.
LEMMA FrontPosition ==
    ASSUME IInv, mode = "cursor"
    PROVE  /\ Front \in Part /\ part[Front].len \in Nat /\ part[Front].end \in Nat
           /\ Base(Front) \in Int
           /\ Base(Front) + (part[Front].end - part[Front].len) = published - remaining
           /\ part[Front].len <= remaining /\ remaining <= published
           /\ remaining - part[Front].len \in Nat
<1> DEFINE st == part["staged"]
           pl == part["plain"]
<1>1. /\ st.len \in Nat /\ st.end \in Nat /\ pl.len \in Nat /\ pl.end \in Nat
      /\ published \in Nat /\ remaining \in Nat
  BY DEF IInv, TypeOK, Part
<1>2. /\ remaining = st.len + pl.len /\ st.end + pl.end <= published
      /\ pl.len < pl.end => st.len = 0
  BY DEF IInv, Modes
<1>3. st.len <= st.end /\ pl.len <= pl.end BY DEF IInv, Parts, Holds, Part
<1>4. CASE st.len > 0
  <2>1. Front = "staged" /\ Base("staged") = published - pl.end - st.end
    BY <1>4 DEF Front, Base
  <2>2. pl.len = pl.end BY <1>1, <1>2, <1>3, <1>4
  <2> HIDE DEF st, pl
  <2>3. st.len <= remaining /\ remaining <= published /\ remaining - st.len \in Nat
    BY <1>1, <1>2, <1>3
  <2>4. (published - pl.end - st.end) + (st.end - st.len) = published - remaining
    BY <1>1, <1>2, <2>2
  <2> QED BY <2>1, <2>3, <2>4, <1>1 DEF st, pl, Part
<1>5. CASE ~(st.len > 0)
  <2>1. Front = "plain" /\ Base("plain") = published - pl.end - 0
    BY <1>5 DEF Front, Base
  <2> HIDE DEF st, pl
  <2>3. pl.len <= remaining /\ remaining <= published /\ remaining - pl.len \in Nat
    BY <1>1, <1>2, <1>3
  <2>4. (published - pl.end - 0) + (pl.end - pl.len) = published - remaining
    BY <1>1, <1>2, <1>5
  <2> QED BY <2>1, <2>3, <2>4, <1>1 DEF st, pl, Part
<1> QED BY <1>4, <1>5

-----------------------------------------------------------------------------
(* Steps that leave the buffers, the shares and the published count alone *)

\* Parts whose end and buffer stay hold what they held.
LEMMA PartsKept ==
    ASSUME IInv, UNCHANGED <<memory, published>>, NEW q \in Part, NEW n \in Nat,
           n <= part[q].len, part' = [part EXCEPT ![q].len = n]
    PROVE  /\ part' \in [Part -> [buf : Buffers \cup {NoBuffer}, end : Nat, len : Nat]]
           /\ Parts'
           /\ \A p \in Part : /\ part'[p].end = part[p].end
                              /\ part'[p].len = IF p = q THEN n ELSE part[p].len
<1>1. part \in [Part -> [buf : Buffers \cup {NoBuffer}, end : Nat, len : Nat]]
  BY DEF IInv, TypeOK
<1>2. \A p \in Part : /\ part'[p].end = part[p].end /\ part'[p].buf = part[p].buf
                      /\ part'[p].len = IF p = q THEN n ELSE part[p].len
  BY <1>1
<1>3. \A p \in Part : Base(p)' = Base(p)
  BY <1>2 DEF Base, Part
<1>4. ASSUME NEW p \in Part PROVE Holds(p)'
  <2>1. Holds(p) BY DEF IInv, Parts
  <2>2. part'[p].len <= part'[p].end
    <3>1. part[p].len <= part[p].end BY <2>1 DEF Holds
    <3>2. part'[p].len <= part[p].len BY <1>1, <1>2
    <3>3. part[p].len \in Nat /\ part[p].end \in Nat /\ part'[p].len \in Nat BY <1>1, <1>2
    <3> QED BY <3>1, <3>2, <3>3, <1>2
  <2>3. part'[p].end = 0 => part'[p] = Nothing
    <3> SUFFICES ASSUME part'[p].end = 0 PROVE part'[p] = Nothing
      OBVIOUS
    <3>1. part[p] = Nothing BY <2>1, <1>2 DEF Holds
    <3>2. p = q => n = part[p].len BY <3>1 DEF Nothing
    <3>3. part'[p] = part[p] BY <1>1, <3>2
    <3> QED BY <3>1, <3>3
  <2> QED BY <2>1, <2>2, <2>3, <1>2, <1>3 DEF Holds
<1>5. part' \in [Part -> [buf : Buffers \cup {NoBuffer}, end : Nat, len : Nat]]
  BY <1>1
<1> QED BY <1>2, <1>4, <1>5 DEF Parts

\* Consuming from the current head moves the reader over as many bytes.
LEMMA AdvanceStep ==
    ASSUME IInv, mode = "cursor", NEW n \in Nat, n <= part[Front].len,
           Advance(Front, n), UNCHANGED <<mode, memory, shares, published, failed>>
    PROVE  /\ Parts' /\ Shares'
           /\ part' \in [Part -> [buf : Buffers \cup {NoBuffer}, end : Nat, len : Nat]]
           /\ remaining' \in Nat /\ got' \in Seq(Nat)
           /\ part'["staged"].end + part'["plain"].end <= published
           /\ remaining' = part'["staged"].len + part'["plain"].len
           /\ part'["plain"].len < part'["plain"].end => part'["staged"].len = 0
           /\ got' = got \o Stream!Run(published - remaining, part[Front].len - n)
           /\ remaining' = remaining - (part[Front].len - n)
<1> DEFINE q == Front
           m == memory[part[q].buf]
           a == part[q].end - part[q].len
           b == part[q].end - n
<1>1. /\ q \in Part /\ part[q].len \in Nat /\ part[q].end \in Nat /\ Base(q) \in Int
      /\ Base(q) + (part[q].end - part[q].len) = published - remaining
      /\ remaining - part[q].len \in Nat
  BY FrontPosition
<1>2. /\ part' = [part EXCEPT ![q].len = n]
      /\ remaining' = remaining - (part[q].len - n)
      /\ got' = got \o SubSeq(m, a + 1, b)
  BY DEF Advance, Start
<1>3. Holds(q) BY <1>1 DEF IInv, Parts
<1>4. /\ remaining \in Nat /\ published \in Nat /\ got \in Seq(Nat)
      /\ memory \in [Buffers -> Seq(Nat)]
  BY DEF IInv, TypeOK
<1> HIDE DEF q
<1>5. SubSeq(m, a + 1, b) = Stream!Run(published - remaining, b - a)
      /\ SubSeq(m, a + 1, b) \in Seq(Nat)
  <2>1. CASE part[q].end = 0
    <3>1. a = 0 /\ b = 0 /\ part[q].len = 0 /\ n = 0
      BY <2>1, <1>1, <1>3 DEF Holds, q
    <3>2. SubSeq(m, a + 1, b) = <<>> BY <3>1, SubSeqEmpty
    <3>3. Stream!Run(published - remaining, b - a) = <<>> BY <3>1 DEF Stream!Run
    <3> QED BY <3>2, <3>3, EmptySeq
  <2>2. CASE part[q].end # 0
    <3>1. /\ part[q].buf \in Buffers /\ part[q].end <= Len(m) /\ part[q].len <= part[q].end
          /\ \A k \in 1..part[q].end : m[k] = Base(q) + k
      BY <2>2, <1>1, <1>3 DEF Holds
    <3>2. m \in Seq(Nat) BY <3>1, <1>4
    <3> HIDE DEF m
    <3>3. a \in Nat /\ b \in Nat /\ a <= b /\ b <= Len(m) BY <3>1, <3>2, <1>1, SMTT(60) DEF q
    <3>4. \A k \in (a + 1)..b : m[k] = (published - remaining) + (k - a)
      <4> TAKE k \in (a + 1)..b
      <4>1. k \in 1..part[q].end BY <3>1, <1>1, SMTT(60)
      <4>2. m[k] = Base(q) + k BY <4>1, <3>1
      <4> QED BY <4>2, <1>1, <1>4, SMTT(60)
    <3>5. published - remaining \in Int BY <1>4
    <3> HIDE DEF a, b
    <3> QED BY <3>2, <3>3, <3>4, <3>5, SliceIsRun
  <2> QED BY <2>1, <2>2
<1>6. got' \in Seq(Nat) BY <1>2, <1>4, <1>5
<1>7. b - a = part[q].len - n BY <1>1
<1>8. n <= part[q].len BY DEF q
<1>9. /\ part' \in [Part -> [buf : Buffers \cup {NoBuffer}, end : Nat, len : Nat]]
      /\ Parts'
      /\ \A p \in Part : /\ part'[p].end = part[p].end
                         /\ part'[p].len = IF p = q THEN n ELSE part[p].len
  BY <1>1, <1>2, <1>8, PartsKept
<1>10. Shares' BY DEF IInv, Shares
<1>11. /\ part'["staged"].end + part'["plain"].end <= published
       /\ remaining' = part'["staged"].len + part'["plain"].len
       /\ part'["plain"].len < part'["plain"].end => part'["staged"].len = 0
  <2>1. /\ remaining = part["staged"].len + part["plain"].len
        /\ part["staged"].end + part["plain"].end <= published
        /\ part["plain"].len < part["plain"].end => part["staged"].len = 0
    BY DEF IInv, Modes
  <2>2. "staged" \in Part /\ "plain" \in Part BY DEF Part
  <2>3. part["staged"].len \in Nat /\ part["plain"].len \in Nat
    BY <2>2 DEF IInv, TypeOK
  <2>4. CASE q = "staged" BY <2>1, <2>2, <2>3, <2>4, <1>2, <1>4, <1>8, <1>9
  <2>5. CASE q = "plain"
    <3>1. part["staged"].len = 0 BY <2>5, <2>3 DEF q, Front
    <3> QED BY <2>1, <2>2, <2>3, <2>5, <3>1, <1>2, <1>4, <1>8, <1>9
  <2> QED BY <2>4, <2>5, <1>1 DEF Part
<1>12. remaining' \in Nat
  <2>1. /\ remaining' = remaining - (part[q].len - n) /\ part[q].len \in Nat
        /\ remaining - part[q].len \in Nat /\ remaining \in Nat
    BY <1>1, <1>2, <1>4
  <2> DEFINE l == part[q].len
  <2> HIDE DEF l
  <2>2. remaining' = (remaining - l) + n BY <2>1 DEF l
  <2> QED BY <2>1, <2>2 DEF l
<1> QED BY <1>2, <1>5, <1>6, <1>7, <1>9, <1>10, <1>11, <1>12 DEF q

-----------------------------------------------------------------------------
(* Reads *)

\* What a read leaves in two free buffers is where the stream says.
LEMMA Decrypted ==
    ASSUME IInv, NEW s \in Buffers, NEW i \in Buffers, NEW n \in Nat, NEW m \in Nat,
           Decrypts(s, n, i, m)
    PROVE  /\ memory' \in [Buffers -> Seq(Nat)]
           /\ published' \in Nat /\ published' = published + n + m
           /\ part = AllNothing /\ remaining = 0 /\ head = "none"
           /\ Fills(memory'[s], published, n)
           /\ Fills(memory'[i], published + n, m)
           /\ Shares'
<1>1. /\ mode = "none" /\ Free(s) /\ Free(i) /\ s # i
      /\ memory' = [memory EXCEPT ![s] = Append(Stream!Run(published, n), 0),
                                  ![i] = Append(Stream!Run(published + n, m), 0)]
      /\ published' = published + n + m
      /\ UNCHANGED <<loan, shares, got>>
  BY DEF Decrypts
<1>2. memory \in [Buffers -> Seq(Nat)] /\ published \in Nat BY DEF IInv, TypeOK
<1>3. /\ memory'[s] = Append(Stream!Run(published, n), 0)
      /\ memory'[i] = Append(Stream!Run(published + n, m), 0)
      /\ \A b \in Buffers : b # s /\ b # i => memory'[b] = memory[b]
  BY <1>1, <1>2
<1>4. published + n \in Nat /\ published + n + m \in Nat BY <1>2
<1>5. Fills(memory'[s], published, n) BY <1>2, <1>3, Filled
<1>6. Fills(memory'[i], published + n, m) BY <1>3, <1>4, Filled
<1>7. memory' \in [Buffers -> Seq(Nat)]
  <2>1. \A b \in Buffers : memory'[b] \in Seq(Nat) BY <1>2, <1>3, <1>5, <1>6 DEF Fills
  <2>2. memory' = [b \in Buffers |-> memory'[b]] BY <1>1, <1>2
  <2> HIDE DEF Decrypts
  <2> QED BY <2>1, <2>2
<1>8. Shares'
  <2>1. \A t \in shares : t.buf \in Buffers /\ t.buf # s /\ t.buf # i
    BY <1>1 DEF Free, IInv, TypeOK
  <2>2. \A t \in shares : memory'[t.buf] = memory[t.buf] BY <2>1, <1>3
  <2>3. Shares BY DEF IInv
  <2>4. shares' = shares BY <1>1
  <2> QED BY <2>2, <2>3, <2>4 DEF Shares
<1>9. part = AllNothing /\ remaining = 0 /\ head = "none"
  BY <1>1 DEF IInv, Modes
<1> QED BY <1>1, <1>4, <1>5, <1>6, <1>7, <1>8, <1>9

\* The parts a read hands over.
LEMMA Handed ==
    ASSUME IInv, NEW s \in Buffers, NEW i \in Buffers, NEW n \in Nat, NEW m \in Nat,
           Decrypts(s, n, i, m),
           part' = [p \in Part |-> IF p = "staged" THEN Given(s, n) ELSE Given(i, m)]
    PROVE  /\ part' \in [Part -> [buf : Buffers \cup {NoBuffer}, end : Nat, len : Nat]]
           /\ Parts'
           /\ part'["staged"].end = n /\ part'["staged"].len = n
           /\ part'["plain"].end = m /\ part'["plain"].len = m
<1>1. /\ published' = published + n + m
      /\ Fills(memory'[s], published, n)
      /\ Fills(memory'[i], published + n, m)
  BY Decrypted
<1>0. published \in Nat BY DEF IInv, TypeOK
<1>2. \A b \in Buffers, l \in Nat :
        /\ Given(b, l) \in [buf : Buffers \cup {NoBuffer}, end : Nat, len : Nat]
        /\ Given(b, l).end = l /\ Given(b, l).len = l
        /\ l = 0 => Given(b, l) = Nothing
        /\ l > 0 => Given(b, l).buf = b
  BY DEF Given, Nothing
<1>3. part'["staged"] = Given(s, n) /\ part'["plain"] = Given(i, m) BY DEF Part
<1>4. /\ part'["staged"].end = n /\ part'["staged"].len = n
      /\ part'["plain"].end = m /\ part'["plain"].len = m
  BY <1>2, <1>3
<1>5. Base("staged")' = published /\ Base("plain")' = published + n
  BY <1>0, <1>1, <1>4 DEF Base
<1>6. Holds("staged")'
  <2>1. /\ part'["staged"].len <= part'["staged"].end
        /\ part'["staged"].end = 0 => part'["staged"] = Nothing
        /\ part'["staged"].end > 0 => part'["staged"].buf = s
    BY <1>2, <1>3, <1>4
  <2>2. n <= Len(memory'[s]) /\ \A k \in 1..n : memory'[s][k] = published + k
    BY <1>1 DEF Fills
  <2> QED BY <2>1, <2>2, <1>4, <1>5 DEF Holds
<1>7. Holds("plain")'
  <2>1. /\ part'["plain"].len <= part'["plain"].end
        /\ part'["plain"].end = 0 => part'["plain"] = Nothing
        /\ part'["plain"].end > 0 => part'["plain"].buf = i
    BY <1>2, <1>3, <1>4
  <2>2. m <= Len(memory'[i]) /\ \A k \in 1..m : memory'[i][k] = (published + n) + k
    BY <1>1, SMTT(60) DEF Fills
  <2> QED BY <2>1, <2>2, <1>4, <1>5 DEF Holds
<1>8. part' \in [Part -> [buf : Buffers \cup {NoBuffer}, end : Nat, len : Nat]]
  BY <1>2
<1> QED BY <1>4, <1>6, <1>7, <1>8 DEF Parts, Part

\* The abstract state between reads.
LEMMA BetweenReads ==
    ASSUME IInv, mode = "none"
    PROVE  Unread = 0
<1>1. part = AllNothing BY DEF IInv, Modes
<1> QED BY <1>1 DEF Unread, AllNothing, Nothing, Part

LEMMA NothingHolds ==
    ASSUME part' = AllNothing
    PROVE  /\ part' \in [Part -> [buf : Buffers \cup {NoBuffer}, end : Nat, len : Nat]]
           /\ Parts'
           /\ part'["staged"].end = 0 /\ part'["plain"].end = 0
           /\ part'["staged"].len = 0 /\ part'["plain"].len = 0
<1>1. \A p \in Part : part'[p] = Nothing BY DEF AllNothing
<1>2. /\ Nothing \in [buf : Buffers \cup {NoBuffer}, end : Nat, len : Nat]
      /\ Nothing.end = 0 /\ Nothing.len = 0
  BY DEF Nothing
<1>3. part' \in [Part -> [buf : Buffers \cup {NoBuffer}, end : Nat, len : Nat]]
  BY <1>2 DEF AllNothing
<1> QED BY <1>1, <1>2, <1>3 DEF Parts, Holds, Part

\* A cursor is published, or nothing is, or the read is lost.
LEMMA ReadLeaseStep == IInv /\ ReadLease => IInv' /\ [Stream!Next]_Stream!stream
<1> SUFFICES ASSUME IInv, ReadLease PROVE IInv' /\ Stream!Next
  OBVIOUS
<1>1. PICK s \in Buffers, i \in Buffers, n \in 0..SlotCap, m \in 0..MaxInput :
        /\ Decrypts(s, n, i, m)
        /\ failed' = (n + m > MaxBytes)
        /\ IF n + m = 0 \/ failed'
           THEN UNCHANGED cursor
           ELSE /\ mode' = "cursor"
                /\ part' = [p \in Part |-> IF p = "staged" THEN Given(s, n) ELSE Given(i, m)]
                /\ remaining' = n + m
  BY Zenon DEF ReadLease
<1>2. n \in Nat /\ m \in Nat OBVIOUS
<1>3. /\ memory' \in [Buffers -> Seq(Nat)]
      /\ published' \in Nat /\ published' = published + n + m
      /\ part = AllNothing /\ remaining = 0 /\ head = "none"
      /\ Shares'
  BY <1>1, <1>2, Decrypted
<1>4. mode = "none" /\ UNCHANGED <<loan, shares, got>> BY <1>1 DEF Decrypts
<1>5. Unread = 0 BY <1>4, BetweenReads
<1>6. /\ head' = "none" /\ left' \in Nat /\ got' \in Seq(Nat) /\ published \in Nat
      /\ shares' \subseteq [buf : Buffers, from : Nat, to : Nat, at : Nat]
      /\ failed' \in BOOLEAN
  BY <1>1, <1>3, <1>4 DEF loan, IInv, TypeOK
<1>7. CASE n + m = 0 \/ failed'
  <2>1. mode' = "none" /\ part' = AllNothing /\ remaining' = 0
    BY <1>1, <1>3, <1>4, <1>7 DEF cursor
  <2>2. /\ part' \in [Part -> [buf : Buffers \cup {NoBuffer}, end : Nat, len : Nat]]
        /\ Parts'
        /\ part'["staged"].end = 0 /\ part'["plain"].end = 0
        /\ part'["staged"].len = 0 /\ part'["plain"].len = 0
    BY <2>1, NothingHolds
  <2>3. TypeOK' BY <1>3, <1>6, <2>1, <2>2 DEF TypeOK
  <2>4. Modes' BY <1>3, <1>6, <2>1, <2>2 DEF Modes
  <2>5. Unread' = 0 BY <2>1, <2>2 DEF Unread
  <2>6. published' - Unread' \in Nat /\ published' - Unread' >= (published - Unread) + Unread
    BY <1>2, <1>3, <1>5, <1>6, <2>5
  <2>7. Stream!GiveUp BY <1>4, <2>5, <2>6 DEF Stream!GiveUp
  <2> QED BY <1>3, <2>2, <2>3, <2>4, <2>7 DEF IInv, Stream!Next
<1>8. CASE ~(n + m = 0 \/ failed')
  <2>1. /\ mode' = "cursor" /\ remaining' = n + m
        /\ part' = [p \in Part |-> IF p = "staged" THEN Given(s, n) ELSE Given(i, m)]
    BY <1>1, <1>8
  <2>2. /\ part' \in [Part -> [buf : Buffers \cup {NoBuffer}, end : Nat, len : Nat]]
        /\ Parts'
        /\ part'["staged"].end = n /\ part'["staged"].len = n
        /\ part'["plain"].end = m /\ part'["plain"].len = m
    BY <1>1, <1>2, <2>1, Handed
  <2>3. remaining' \in Nat BY <2>1, <1>2
  <2>4. TypeOK' BY <1>3, <1>6, <2>1, <2>2, <2>3 DEF TypeOK
  <2>5. Modes'
    <3>1. part'["staged"].end + part'["plain"].end <= published'
      BY <1>2, <1>3, <1>6, <2>2
    <3>2. remaining' = part'["staged"].len + part'["plain"].len BY <2>1, <2>2
    <3>3. ~(part'["plain"].len < part'["plain"].end) BY <1>2, <2>2
    <3> QED BY <3>1, <3>2, <3>3, <1>6, <2>1 DEF Modes
  <2>6. Unread' = n + m BY <2>1 DEF Unread
  <2>7. Unread' \in Nat /\ published' - Unread' = published - Unread
    BY <1>2, <1>3, <1>5, <1>6, <2>6
  <2>8. Stream!Publish BY <1>4, <1>5, <2>7 DEF Stream!Publish
  <2> QED BY <1>3, <2>2, <2>4, <2>5, <2>8 DEF IInv, Stream!Next
<1> QED BY <1>7, <1>8

\* A batch is published.
LEMMA ProcessStep == IInv /\ Process => IInv' /\ [Stream!Next]_Stream!stream
<1> SUFFICES ASSUME IInv, Process PROVE IInv' /\ Stream!Next
  OBVIOUS
<1>1. PICK s \in Buffers, i \in Buffers, n \in 0..SlotCap, m \in 0..MaxInput :
        /\ Decrypts(s, n, i, m)
        /\ mode' = IF n + m = 0 THEN "none" ELSE "batch"
        /\ part' = [p \in Part |-> IF p = "staged" THEN Given(s, n) ELSE Given(i, m)]
        /\ UNCHANGED <<remaining, failed>>
  BY Zenon DEF Process
<1>2. n \in Nat /\ m \in Nat OBVIOUS
<1>3. /\ memory' \in [Buffers -> Seq(Nat)]
      /\ published' \in Nat /\ published' = published + n + m
      /\ remaining = 0 /\ head = "none"
      /\ Shares'
  BY <1>1, <1>2, Decrypted
<1>4. mode = "none" /\ UNCHANGED <<loan, shares, got>> BY <1>1 DEF Decrypts
<1>5. Unread = 0 BY <1>4, BetweenReads
<1>6. /\ head' = "none" /\ left' \in Nat /\ got' \in Seq(Nat) /\ published \in Nat
      /\ shares' \subseteq [buf : Buffers, from : Nat, to : Nat, at : Nat]
      /\ failed' \in BOOLEAN /\ remaining' = 0
  BY <1>1, <1>3, <1>4 DEF loan, IInv, TypeOK
<1>7. /\ part' \in [Part -> [buf : Buffers \cup {NoBuffer}, end : Nat, len : Nat]]
      /\ Parts'
      /\ part'["staged"].end = n /\ part'["staged"].len = n
      /\ part'["plain"].end = m /\ part'["plain"].len = m
  BY <1>1, <1>2, Handed
<1>8. mode' \in {"none", "batch"} /\ (mode' = "none" => n = 0 /\ m = 0) BY <1>1, <1>2
<1>9. mode' = "none" <=> part' = AllNothing
  <2>1. mode' = "none" => part' = AllNothing
    BY <1>1, <1>8 DEF AllNothing, Given
  <2>2. part' = AllNothing => n = 0 /\ m = 0
    BY <1>7 DEF AllNothing, Nothing, Part
  <2> QED BY <2>1, <2>2, <1>1
<1>10. TypeOK' BY <1>3, <1>6, <1>7, <1>8 DEF TypeOK
<1>11. Modes' BY <1>2, <1>3, <1>6, <1>7, <1>8, <1>9 DEF Modes, Part
<1>12. Unread' = n + m BY <1>7, <1>8 DEF Unread
<1>13. Unread' \in Nat /\ published' - Unread' = published - Unread
  BY <1>2, <1>3, <1>5, <1>6, <1>12
<1>14. Stream!Publish BY <1>4, <1>5, <1>13 DEF Stream!Publish
<1> QED BY <1>3, <1>7, <1>10, <1>11, <1>14 DEF IInv, Stream!Next

-----------------------------------------------------------------------------
(* Taking bytes *)

\* What the abstract reader takes.
LEMMA Taken ==
    ASSUME NEW n \in 1..Unread, published' = published,
           got' = got \o Stream!Run(published - Unread, n),
           Unread \in Nat, published \in Nat, Unread' = Unread - n
    PROVE  Stream!Take
<1>1. published' - Unread' = (published - Unread) + n
  <2> DEFINE u == Unread
             v == Unread'
  <2> HIDE DEF u, v
  <2>1. u \in Nat /\ v = u - n /\ n \in Int BY DEF u, v
  <2>2. published' - v = (published - u) + n BY <2>1
  <2> QED BY <2>2 DEF u, v
<1> QED BY <1>1 DEF Stream!Take

\* An item of a batch is all that is left of its part.
LEMMA BatchNextStep == IInv /\ BatchNext => IInv' /\ [Stream!Next]_Stream!stream
<1> SUFFICES ASSUME IInv, BatchNext PROVE IInv' /\ Stream!Next
  OBVIOUS
<1> DEFINE q == Item
           st == part["staged"]
           pl == part["plain"]
           m == memory[part[q].buf]
<1>1. /\ mode = "batch"
      /\ got' = got \o SubSeq(m, part[q].end - part[q].len + 1, part[q].end)
      /\ part' = [part EXCEPT ![q] = Nothing]
      /\ mode' = IF part' = AllNothing THEN "none" ELSE "batch"
      /\ UNCHANGED <<remaining, loan, memory, shares, published, failed>>
  BY DEF BatchNext, AllNothing
<1>2. /\ part \in [Part -> [buf : Buffers \cup {NoBuffer}, end : Nat, len : Nat]]
      /\ memory \in [Buffers -> Seq(Nat)] /\ published \in Nat /\ got \in Seq(Nat)
  BY DEF IInv, TypeOK
<1>3. /\ remaining = 0 /\ head = "none" /\ st.end + pl.end <= published
      /\ st.len = st.end /\ pl.len = pl.end
  BY <1>1 DEF IInv, Modes, Part
<1>4. q \in Part /\ "staged" \in Part /\ "plain" \in Part BY DEF Item, Part
<1>5. Holds(q) /\ Holds("staged") /\ Holds("plain") BY <1>4 DEF IInv, Parts
<1>6. /\ st.end \in Nat /\ pl.end \in Nat /\ part[q].end \in Nat
      /\ part[q].len = part[q].end
  BY <1>2, <1>3, <1>4 DEF Item
<1>7. q = "plain" => st.end = 0 /\ st.len = 0 BY <1>3 DEF Item, Nothing
<1>8. q = "staged" => Base(q) = published - (st.len + pl.len)
  BY <1>2, <1>3, <1>6 DEF Base
<1>9. q = "plain" => Base(q) = published - (st.len + pl.len)
  BY <1>2, <1>3, <1>6, <1>7 DEF Base
<1>10. Base(q) = published - Unread /\ Unread = st.len + pl.len
  BY <1>1, <1>4, <1>8, <1>9 DEF Unread, Part
<1>11. /\ \A p \in Part : part'[p] = IF p = q THEN Nothing ELSE part[p]
       /\ part' \in [Part -> [buf : Buffers \cup {NoBuffer}, end : Nat, len : Nat]]
  <2>1. Nothing \in [buf : Buffers \cup {NoBuffer}, end : Nat, len : Nat] BY DEF Nothing
  <2> QED BY <2>1, <1>1, <1>2, <1>4
<1> HIDE DEF q
<1>12. part[q] # Nothing
  <2> SUFFICES ASSUME part[q] = Nothing PROVE FALSE
    OBVIOUS
  <2>1. st = Nothing /\ pl = Nothing BY DEF q, Item
  <2>2. part = AllNothing BY <2>1, <1>2 DEF AllNothing, Part
  <2> QED BY <2>2, <1>1 DEF IInv, Modes
<1>13. /\ part[q].end > 0 /\ part[q].buf \in Buffers /\ part[q].end <= Len(m)
       /\ \A k \in 1..part[q].end : m[k] = Base(q) + k
  BY <1>5, <1>6, <1>12 DEF Holds
<1>14. m \in Seq(Nat) BY <1>2, <1>13
<1>15. /\ SubSeq(m, 0 + 1, part[q].end) = Stream!Run(published - Unread, part[q].end - 0)
       /\ SubSeq(m, 0 + 1, part[q].end) \in Seq(Nat)
  <2> DEFINE x == published - Unread
             e == part[q].end
  <2> HIDE DEF m
  <2>1. x \in Int /\ Base(q) = x BY <1>2, <1>3, <1>6, <1>10
  <2>2. e \in Nat /\ e <= Len(m) /\ \A k \in 1..e : m[k] = x + k
    BY <1>6, <1>13, <2>1
  <2> HIDE DEF x, e
  <2>3. 0 \in Nat /\ 0 <= e /\ \A k \in (0 + 1)..e : m[k] = x + (k - 0) BY <2>1, <2>2
  <2>4. /\ SubSeq(m, 0 + 1, e) = Stream!Run(x, e - 0)
        /\ SubSeq(m, 0 + 1, e) \in Seq(Nat)
    BY <1>14, <2>1, <2>2, <2>3, SliceIsRun
  <2> QED BY <2>4 DEF x, e
<1>16. /\ got' = got \o Stream!Run(published - Unread, part[q].end)
       /\ got' \in Seq(Nat)
  <2>1. part[q].end - part[q].len + 1 = 0 + 1 /\ part[q].end - 0 = part[q].end BY <1>6
  <2> DEFINE r == SubSeq(m, 0 + 1, part[q].end)
  <2>2. got' = got \o r BY <2>1, <1>1
  <2>3. r = Stream!Run(published - Unread, part[q].end) /\ r \in Seq(Nat) BY <2>1, <1>15
  <2> HIDE DEF r
  <2>4. got \o r \in Seq(Nat) BY <2>3, <1>2
  <2> QED BY <2>2, <2>3, <2>4
<1>17. /\ part'["staged"].len = IF q = "staged" THEN 0 ELSE st.len
       /\ part'["plain"].len = IF q = "plain" THEN 0 ELSE pl.len
       /\ part'["staged"].end = IF q = "staged" THEN 0 ELSE st.end
       /\ part'["plain"].end = IF q = "plain" THEN 0 ELSE pl.end
  BY <1>4, <1>11 DEF Nothing
<1>18. mode' \in {"none", "batch"} /\ (mode' = "none" <=> part' = AllNothing) BY <1>1
<1>19. Unread' = Unread - part[q].end /\ part[q].end \in 1..Unread /\ Unread \in Nat
  <2>1. Unread' = part'["staged"].len + part'["plain"].len BY <1>18 DEF Unread
  <2>2. CASE q = "staged"
    <3>1. Unread' = 0 + pl.len /\ part[q].end = st.len BY <2>1, <2>2, <1>3, <1>17
    <3> HIDE DEF st, pl
    <3> QED BY <3>1, <1>3, <1>6, <1>10, <1>13
  <2>3. CASE q = "plain"
    <3>1. Unread' = 0 /\ part[q].end = pl.len BY <2>1, <2>3, <1>3, <1>7, <1>17
    <3> HIDE DEF st, pl
    <3> QED BY <2>3, <3>1, <1>3, <1>6, <1>7, <1>10, <1>13
  <2> QED BY <2>2, <2>3, <1>4 DEF Part
<1>20. Stream!Take BY <1>1, <1>2, <1>16, <1>19, Taken
<1>21. Parts'
  <2>1. ASSUME NEW p \in Part PROVE Holds(p)'
    <3>1. CASE p = q
      <4>1. part'[p] = Nothing BY <3>1, <1>11
      <4> QED BY <4>1 DEF Holds, Nothing
    <3>2. CASE p # q
      <4>1. part'[p] = part[p] /\ Holds(p) BY <3>2, <1>11 DEF IInv, Parts
      <4>2. part[p].end > 0 => Base(p)' = Base(p)
        <5>1. p = "plain" => Base(p)' = Base(p)
          BY <3>2, <1>1, <1>4, <1>17 DEF Base, Part
        <5>2. p = "staged" => part[p].end = 0 BY <3>2, <1>4, <1>7 DEF Part
        <5> QED BY <5>1, <5>2 DEF Part
      <4> QED BY <4>1, <4>2, <1>1 DEF Holds
    <3> QED BY <3>1, <3>2
  <2> QED BY <2>1 DEF Parts
<1>22. Shares' BY <1>1 DEF IInv, Shares
<1>23. TypeOK' BY <1>1, <1>11, <1>16, <1>18 DEF IInv, TypeOK, loan
<1>24. Modes'
  <2>1. part'["staged"].end + part'["plain"].end <= published'
    BY <1>1, <1>2, <1>3, <1>6, <1>17
  <2>2. \A p \in Part : part'[p].len = part'[p].end BY <1>3, <1>17 DEF Part
  <2>3. remaining' = 0 /\ head' = "none" BY <1>1, <1>3 DEF loan
  <2> QED BY <2>1, <2>2, <2>3, <1>18 DEF Modes
<1> QED BY <1>20, <1>21, <1>22, <1>23, <1>24 DEF IInv, Stream!Next

\* Committing a head, or consuming through the cursor.
LEMMA AdvanceInv ==
    ASSUME IInv, mode = "cursor", NEW n \in Nat, n <= part[Front].len,
           Advance(Front, n), UNCHANGED <<mode, memory, shares, published, failed>>,
           head' = "none", left' \in Nat
    PROVE  IInv' /\ [Stream!Next]_Stream!stream
<1>1. /\ Parts' /\ Shares'
      /\ part' \in [Part -> [buf : Buffers \cup {NoBuffer}, end : Nat, len : Nat]]
      /\ remaining' \in Nat /\ got' \in Seq(Nat)
      /\ part'["staged"].end + part'["plain"].end <= published
      /\ remaining' = part'["staged"].len + part'["plain"].len
      /\ part'["plain"].len < part'["plain"].end => part'["staged"].len = 0
      /\ got' = got \o Stream!Run(published - remaining, part[Front].len - n)
      /\ remaining' = remaining - (part[Front].len - n)
  BY AdvanceStep
<1>2. TypeOK' BY <1>1 DEF IInv, TypeOK
<1>3. Modes' BY <1>1 DEF Modes
<1>4. Unread = remaining /\ Unread' = remaining' BY DEF Unread
<1>5. part[Front].len \in Nat /\ part[Front].len <= remaining BY FrontPosition
<1>6. remaining \in Nat /\ published \in Nat /\ got \in Seq(Nat) BY DEF IInv, TypeOK
<1>7. CASE n = part[Front].len
  <2>1. Stream!Run(published - remaining, part[Front].len - n) = <<>>
    BY <1>5, <1>7 DEF Stream!Run
  <2>2. got' = got BY <2>1, <1>1, <1>6, ConcatEmptySeq
  <2>3. remaining' = remaining BY <1>1, <1>5, <1>6, <1>7
  <2>4. UNCHANGED Stream!stream BY <2>2, <2>3, <1>4 DEF Stream!stream
  <2> QED BY <2>4, <1>1, <1>2, <1>3 DEF IInv
<1>8. CASE n # part[Front].len
  <2> DEFINE k == part[Front].len - n
  <2>1. k \in 1..remaining BY <1>5, <1>6, <1>8
  <2>2. /\ k \in 1..Unread /\ got' = got \o Stream!Run(published - Unread, k)
        /\ Unread' = Unread - k /\ Unread \in Nat
    BY <2>1, <1>1, <1>4, <1>6
  <2> HIDE DEF k
  <2>3. Stream!Take BY <2>2, <1>6, Taken
  <2> QED BY <2>3, <1>1, <1>2, <1>3 DEF IInv, Stream!Next
<1> QED BY <1>7, <1>8

LEMMA HeadCommitStep == IInv /\ HeadCommit => IInv' /\ [Stream!Next]_Stream!stream
<1> SUFFICES ASSUME IInv, HeadCommit PROVE IInv' /\ [Stream!Next]_Stream!stream
  OBVIOUS
<1>1. /\ head # "none" /\ Advance(head, left) /\ head' = "none" /\ left' = 0
      /\ UNCHANGED <<mode, memory, shares, published, failed>>
  BY DEF HeadCommit
<1>2. mode = "cursor" /\ head = Front /\ left <= part[Front].len
  BY <1>1 DEF IInv, Modes
<1>3. left \in Nat BY DEF IInv, TypeOK
<1> QED BY <1>1, <1>2, <1>3, AdvanceInv

LEMMA ConsumeStep == IInv /\ Consume => IInv' /\ [Stream!Next]_Stream!stream
<1> SUFFICES ASSUME IInv, Consume PROVE IInv' /\ [Stream!Next]_Stream!stream
  OBVIOUS
<1>1. mode = "cursor" /\ head = "none" /\ UNCHANGED <<mode, loan, memory, shares, published, failed>>
  BY DEF Consume
<1>2. PICK n \in 0..(part[Front].len - 1) : Advance(Front, n) BY DEF Consume
<1>3. part[Front].len \in Nat BY <1>1, FrontPosition
<1>4. n \in Nat /\ n <= part[Front].len BY <1>3
<1>5. head' = "none" /\ left' \in Nat BY <1>1 DEF loan, IInv, TypeOK
<1> QED BY <1>1, <1>2, <1>4, <1>5, AdvanceInv

-----------------------------------------------------------------------------
(* Steps that take nothing *)

\* A step that leaves the buffers, the parts and the stream alone.
LEMMA StillStep ==
    ASSUME IInv, TypeOK', Modes', Shares',
           UNCHANGED <<cursor, memory, published, got>>
    PROVE  IInv' /\ UNCHANGED Stream!stream
<1>1. Parts' BY DEF IInv, Parts, Holds, Base, cursor
<1>2. Unread' = Unread BY DEF Unread, cursor
<1> QED BY <1>1, <1>2 DEF IInv, Stream!stream

\* Lending, consuming from and dropping a head.
LEMMA HeadStep ==
    IInv /\ (NextHead \/ HeadConsume \/ HeadDrop) => IInv' /\ UNCHANGED Stream!stream
<1> SUFFICES ASSUME IInv, NextHead \/ HeadConsume \/ HeadDrop
             PROVE  IInv' /\ UNCHANGED Stream!stream
  OBVIOUS
<1>1. UNCHANGED <<cursor, memory, shares, published, got, failed>>
  BY DEF NextHead, HeadConsume, HeadDrop
<1>2. Shares' BY <1>1 DEF IInv, Shares
<1>3. /\ head' \in {"none"} \cup Part /\ left' \in Nat
      /\ head' # "none" => mode = "cursor" /\ head' = Front /\ part[head'].len > 0
                           /\ left' <= part[head'].len
  <2>1. CASE NextHead
    <3>1. mode = "cursor" /\ part[Front].len > 0 /\ head' = Front /\ left' = part[Front].len
      BY <2>1 DEF NextHead
    <3>2. Front \in Part /\ part[Front].len \in Nat BY <3>1, FrontPosition
    <3> QED BY <3>1, <3>2
  <2>2. CASE HeadConsume
    <3>1. PICK n \in 1..left : left' = left - n BY <2>2 DEF HeadConsume
    <3>2. head # "none" /\ head' = head BY <2>2 DEF HeadConsume
    <3>3. left \in Nat /\ head \in Part BY <3>2 DEF IInv, TypeOK
    <3>4. left' \in Nat /\ left' <= left BY <3>1, <3>3
    <3>5. mode = "cursor" /\ head = Front /\ part[head].len > 0 /\ left <= part[head].len
      BY <3>2 DEF IInv, Modes
    <3>6. part[head].len \in Nat BY <3>3 DEF IInv, TypeOK
    <3>7. left' <= part[head].len BY <3>3, <3>4, <3>5, <3>6
    <3> QED BY <3>2, <3>3, <3>4, <3>5, <3>7
  <2>3. CASE HeadDrop BY <2>3 DEF HeadDrop
  <2> QED BY <2>1, <2>2, <2>3
<1>4. TypeOK' BY <1>1, <1>3 DEF IInv, TypeOK, cursor
<1>5. Modes'
  <2>1. Front' = Front /\ part' = part /\ mode' = mode /\ remaining' = remaining
    BY <1>1 DEF Front, cursor
  <2> QED BY <2>1, <1>1, <1>3 DEF IInv, Modes
<1> QED BY <1>1, <1>2, <1>4, <1>5, StillStep

LEMMA DropStep == IInv /\ Drop => IInv' /\ [Stream!Next]_Stream!stream
<1> SUFFICES ASSUME IInv, Drop PROVE IInv' /\ Stream!Next
  OBVIOUS
<1>1. /\ head = "none" /\ mode' = "none" /\ part' = AllNothing /\ remaining' = 0
      /\ UNCHANGED <<loan, memory, shares, published, got, failed>>
  BY DEF Drop, AllNothing
<1>2. /\ part' \in [Part -> [buf : Buffers \cup {NoBuffer}, end : Nat, len : Nat]]
      /\ Parts'
      /\ part'["staged"].end = 0 /\ part'["plain"].end = 0
      /\ part'["staged"].len = 0 /\ part'["plain"].len = 0
  BY <1>1, NothingHolds
<1>3. published \in Nat /\ remaining \in Nat BY DEF IInv, TypeOK
<1>4. TypeOK' BY <1>1, <1>2 DEF IInv, TypeOK, loan
<1>5. Modes' BY <1>1, <1>2, <1>3 DEF Modes, loan
<1>6. Shares' BY <1>1 DEF IInv, Shares
<1>7. Unread' = 0 BY <1>1, <1>2 DEF Unread
<1>8. Unread \in Nat
  <2>1. part["staged"].len \in Nat /\ part["plain"].len \in Nat
    BY DEF IInv, TypeOK, Part
  <2> QED BY <2>1, <1>3 DEF Unread
<1>9. published' - Unread' \in Nat /\ published' - Unread' >= (published - Unread) + Unread
  BY <1>1, <1>3, <1>7, <1>8
<1>10. Stream!GiveUp BY <1>1, <1>7, <1>9 DEF Stream!GiveUp
<1> QED BY <1>2, <1>4, <1>5, <1>6, <1>10 DEF IInv, Stream!Next

\* What the reader sees begins behind the bytes it has consumed.
LEMMA ShareStep == IInv /\ Share => IInv' /\ UNCHANGED Stream!stream
<1> SUFFICES ASSUME IInv, Share PROVE IInv' /\ UNCHANGED Stream!stream
  OBVIOUS
<1> DEFINE c == Current
           n == Shown
           x == published - remaining + Uncommitted
           b == part[c].buf
<1>1. mode = "cursor" /\ UNCHANGED <<cursor, loan, memory, published, got, failed>>
  BY DEF Share
<1>2. PICK i \in 1..n : \E j \in i..n :
        shares' = shares \cup {[buf |-> b, from |-> Start(c, n) + i, to |-> Start(c, n) + j,
                                at |-> x + i]}
  BY DEF Share
<1>3. PICK j \in i..n :
        shares' = shares \cup {[buf |-> b, from |-> Start(c, n) + i, to |-> Start(c, n) + j,
                                at |-> x + i]}
  BY <1>2
<1>4. /\ Front \in Part /\ part[Front].len \in Nat /\ part[Front].end \in Nat
      /\ Base(Front) \in Int
      /\ Base(Front) + (part[Front].end - part[Front].len) = published - remaining
      /\ remaining <= published
  BY <1>1, FrontPosition
<1>5. c = Front /\ n \in Nat /\ n <= part[c].len /\ Uncommitted = part[c].len - n
  <2>1. CASE head = "none" BY <2>1, <1>4 DEF Current, Shown, Uncommitted
  <2>2. CASE head # "none"
    <3>1. head = Front /\ left <= part[head].len /\ left \in Nat
      BY <2>2 DEF IInv, Modes, TypeOK
    <3> QED BY <2>2, <3>1 DEF Current, Shown, Uncommitted
  <2> QED BY <2>1, <2>2
<1>6. i \in Nat /\ j \in Nat /\ 1 <= i /\ i <= j /\ j <= n BY <1>5
<1>7. /\ part[c].len <= part[c].end /\ b \in Buffers /\ part[c].end <= Len(memory[b])
      /\ \A k \in 1..part[c].end : memory[b][k] = Base(c) + k
  <2>1. Holds(c) BY <1>4, <1>5 DEF IInv, Parts
  <2>2. part[c].end > 0
    <3>1. part[c].len <= part[c].end BY <2>1 DEF Holds
    <3> QED BY <3>1, <1>4, <1>5, <1>6
  <2> QED BY <2>1, <2>2 DEF Holds
<1> DEFINE e == part[c].end
           l == part[c].len
           y == Base(c)
<1>8. /\ e \in Nat /\ l \in Nat /\ y \in Int /\ l <= e /\ n <= l
      /\ y + (e - l) = published - remaining /\ x = published - remaining + (l - n)
      /\ published \in Nat /\ remaining \in Nat /\ remaining <= published
      /\ Start(c, n) = e - n
  BY <1>4, <1>5, <1>7 DEF IInv, TypeOK, Start
<1>9. e <= Len(memory[b]) /\ \A k \in 1..e : memory[b][k] = y + k BY <1>7
<1> HIDE DEF c, n, x, b, e, l, y
<1> DEFINE t == [buf |-> b, from |-> (e - n) + i, to |-> (e - n) + j, at |-> x + i]
<1>10. shares' = shares \cup {t} BY <1>3, <1>8
<1>11. /\ t.buf = b /\ t.from = (e - n) + i /\ t.to = (e - n) + j /\ t.at = x + i
       /\ t.from \in Nat /\ t.to \in Nat /\ t.at \in Nat
       /\ t.from >= 1 /\ t.from <= t.to /\ t.to <= e /\ t.at >= 1
  BY <1>5, <1>6, <1>8
<1>12. \A k \in t.from..t.to : memory[t.buf][k] = (t.at - 1) + (k - (t.from - 1))
  <2> TAKE k \in t.from..t.to
  <2>1. k \in 1..e BY <1>8, <1>11
  <2>2. memory[t.buf][k] = y + k BY <2>1, <1>9, <1>11
  <2>3. x = y + (e - n) BY <1>5, <1>8
  <2> HIDE DEF t
  <2> QED BY <2>1, <2>2, <2>3, <1>5, <1>6, <1>8, <1>11
<1>13. t \in [buf : Buffers, from : Nat, to : Nat, at : Nat]
  <2>1. b \in Buffers BY <1>7
  <2> QED BY <2>1, <1>11
<1>14. t.to <= Len(memory[t.buf]) 
  <2>1. e \in Nat /\ t.to <= e /\ t.to \in Nat /\ t.buf = b BY <1>8, <1>11
  <2>2. Len(memory[b]) \in Nat BY <1>7 DEF IInv, TypeOK
  <2> HIDE DEF t
  <2> QED BY <2>1, <2>2, <1>9
<1> HIDE DEF t
<1>15. Shares' BY <1>1, <1>10, <1>11, <1>12, <1>14 DEF IInv, Shares
<1>16. TypeOK' BY <1>1, <1>10, <1>13 DEF IInv, TypeOK, cursor, loan
<1>17. Modes' BY <1>1 DEF IInv, Modes, Front, cursor, loan
<1> QED BY <1>1, <1>15, <1>16, <1>17, StillStep

LEMMA ForgetStep == IInv /\ Forget => IInv' /\ UNCHANGED Stream!stream
<1> SUFFICES ASSUME IInv, Forget PROVE IInv' /\ UNCHANGED Stream!stream
  OBVIOUS
<1>1. shares' \subseteq shares /\ UNCHANGED <<cursor, loan, memory, published, got, failed>>
  BY DEF Forget
<1>2. Shares' BY <1>1 DEF IInv, Shares
<1>3. TypeOK' BY <1>1 DEF IInv, TypeOK, cursor, loan
<1>4. Modes' BY <1>1 DEF IInv, Modes, Front, cursor, loan
<1> QED BY <1>1, <1>2, <1>3, <1>4, StillStep

-----------------------------------------------------------------------------
(* The theorems *)

LEMMA InitInv == Init => IInv /\ Stream!Init
<1> SUFFICES ASSUME Init PROVE IInv /\ Stream!Init
  OBVIOUS
<1>1. part = AllNothing /\ \A p \in Part : part[p] = Nothing BY DEF Init, AllNothing
<1>2. /\ Nothing \in [buf : Buffers \cup {NoBuffer}, end : Nat, len : Nat]
      /\ Nothing.end = 0 /\ Nothing.len = 0
  BY DEF Nothing
<1>3. part \in [Part -> [buf : Buffers \cup {NoBuffer}, end : Nat, len : Nat]]
  BY <1>1, <1>2 DEF AllNothing
<1>4. memory \in [Buffers -> Seq(Nat)] /\ got \in Seq(Nat) BY EmptySeq DEF Init
<1>5. TypeOK BY <1>3, <1>4 DEF Init, TypeOK
<1>6. Parts BY <1>1, <1>2 DEF Parts, Holds
<1>7. Modes BY <1>1, <1>2 DEF Init, Modes, Part
<1>8. Shares BY DEF Init, Shares
<1>9. Unread = 0 BY <1>1, <1>2 DEF Init, Unread, Part
<1>10. Stream!Init BY <1>9 DEF Init, Stream!Init
<1> QED BY <1>5, <1>6, <1>7, <1>8, <1>10 DEF IInv

LEMMA StutterStep == IInv /\ UNCHANGED vars => IInv' /\ UNCHANGED Stream!stream
<1> SUFFICES ASSUME IInv, UNCHANGED vars PROVE IInv' /\ UNCHANGED Stream!stream
  OBVIOUS
<1>1. UNCHANGED <<cursor, loan, memory, shares, published, got, failed>> BY DEF vars
<1>2. Shares' BY <1>1 DEF IInv, Shares
<1>3. TypeOK' BY <1>1 DEF IInv, TypeOK, cursor, loan
<1>4. Modes' BY <1>1 DEF IInv, Modes, Front, cursor, loan
<1> QED BY <1>1, <1>2, <1>3, <1>4, StillStep

\* Every step keeps the invariant and is a step of the stream or none.
LEMMA NextStep == IInv /\ [Next]_vars => IInv' /\ [Stream!Next]_Stream!stream
<1> USE DEF Next
<1> QED BY ReadLeaseStep, ProcessStep, BatchNextStep, HeadCommitStep, ConsumeStep,
           HeadStep, DropStep, ShareStep, ForgetStep, StutterStep

\* Every buffer, part and share is where the stream says.
THEOREM Invariance == Spec => []IInv
<1>1. Init => IInv BY InitInv
<1>2. IInv /\ [Next]_vars => IInv' BY NextStep
<1> QED BY <1>1, <1>2, PTL DEF Spec

\* Types.
THEOREM TypeCorrect == Spec => []TypeOK
<1>1. IInv => TypeOK BY DEF IInv
<1> QED BY <1>1, Invariance, PTL

\* However it is read, the application reads one stream of bytes, and the
\* cursor's count is what is left of it.
THEOREM Refinement == Spec => StreamSpec
<1>1. Init => Stream!Init BY InitInv
<1>2. IInv /\ [Next]_vars => [Stream!Next]_Stream!stream BY NextStep
<1>3. Spec => Stream!Spec BY <1>1, <1>2, Invariance, PTL DEF Spec, Stream!Spec
<1> QED BY <1>3 DEF StreamSpec

\* The counts of the cursor and of its parts agree, whatever heads were
\* committed or dropped.
THEOREM CountsExact == Spec => []CountsAgree
<1>1. IInv => CountsAgree
  <2> SUFFICES ASSUME IInv, mode = "cursor"
               PROVE  /\ remaining = part["staged"].len + part["plain"].len
                      /\ remaining > 0 => part[Front].len > 0
                      /\ head # "none" => head = Front /\ left <= part[head].len
    BY DEF CountsAgree
  <2>1. remaining = part["staged"].len + part["plain"].len BY DEF IInv, Modes
  <2>2. part["staged"].len \in Nat /\ part["plain"].len \in Nat
    BY DEF IInv, TypeOK, Part
  <2>3. remaining > 0 => part[Front].len > 0 BY <2>1, <2>2 DEF Front
  <2>4. head # "none" => head = Front /\ left <= part[head].len BY DEF IInv, Modes
  <2> QED BY <2>1, <2>3, <2>4
<1> QED BY <1>1, Invariance, PTL

\* Shared slices show what was asked for, as long as they are held.
THEOREM SharesHold == Spec => []SharesIntact
<1>1. IInv => SharesIntact
  <2> SUFFICES ASSUME IInv, NEW s \in shares
               PROVE  SubSeq(memory[s.buf], s.from, s.to)
                        = Stream!Run(s.at - 1, s.to - s.from + 1)
    BY DEF SharesIntact
  <2> DEFINE m == memory[s.buf]
             a == s.from - 1
             b == s.to
             x == s.at - 1
  <2>1. /\ s.buf \in Buffers /\ s.from \in Nat /\ s.to \in Nat /\ s.at \in Nat
        /\ m \in Seq(Nat)
    BY DEF IInv, TypeOK
  <2>2. /\ s.from >= 1 /\ s.from <= s.to /\ b <= Len(m) /\ s.at >= 1
        /\ \A k \in s.from..b : m[k] = x + (k - a)
    BY DEF IInv, Shares
  <2>3. a \in Nat /\ b \in Nat /\ a <= b /\ x \in Int /\ a + 1 = s.from
        /\ b - a = s.to - s.from + 1
    BY <2>1, <2>2, SMTT(60)
  <2>4. b <= Len(m) /\ m \in Seq(Nat) /\ \A k \in (a + 1)..b : m[k] = x + (k - a)
    BY <2>1, <2>2, <2>3
  <2>5. x = s.at - 1 OBVIOUS
  <2> HIDE DEF m, a, b, x
  <2>6. SubSeq(m, a + 1, b) = Stream!Run(x, b - a) BY <2>3, <2>4, SliceIsRun
  <2> QED BY <2>3, <2>5, <2>6 DEF m, b
<1> QED BY <1>1, Invariance, PTL

\* What is behind the reader is a number.
LEMMA PassedIsNat == IInv => published - Unread \in Nat /\ Unread \in Nat /\ got \in Seq(Nat)
<1> SUFFICES ASSUME IInv
             PROVE  published - Unread \in Nat /\ Unread \in Nat /\ got \in Seq(Nat)
  OBVIOUS
<1> DEFINE st == part["staged"]
           pl == part["plain"]
<1>1. /\ st.len \in Nat /\ pl.len \in Nat /\ st.end \in Nat /\ pl.end \in Nat
      /\ remaining \in Nat /\ published \in Nat /\ got \in Seq(Nat)
  BY DEF IInv, TypeOK, Part
<1>2. st.len <= st.end /\ pl.len <= pl.end /\ st.end + pl.end <= published
  BY DEF IInv, Parts, Holds, Modes, Part
<1>3. mode = "cursor" => remaining = st.len + pl.len BY DEF IInv, Modes
<1>4. Unread = st.len + pl.len BY <1>3 DEF Unread
<1> HIDE DEF st, pl
<1> QED BY <1>1, <1>2, <1>4, SMTT(60)

\* A step of the stream keeps its order.
LEMMA OrderKept ==
    ASSUME got \in Seq(Nat), published - Unread \in Nat, Unread \in Nat,
           Stream!InOrder, [Stream!Next]_Stream!stream
    PROVE  Stream!InOrder'
<1> DEFINE P == published - Unread
           L == Len(got)
<1>1. /\ \A i, j \in 1..L : i < j => got[i] < got[j]
      /\ \A i \in 1..L : got[i] \in 1..P
  BY DEF Stream!InOrder
<1>2. CASE Stream!Take
  <2>1. PICK n \in 1..Unread : /\ got' = got \o Stream!Run(P, n)
                               /\ published' - Unread' = P + n
    BY <1>2 DEF Stream!Take
  <2> DEFINE r == Stream!Run(P, n)
             Q == published' - Unread'
  <2>2. n \in Nat /\ P \in Nat /\ L \in Nat /\ Q = P + n BY <2>1
  <2>3. r \in Seq(Nat) /\ Len(r) = n /\ \A k \in 1..n : r[k] = P + k
    BY <2>2 DEF Stream!Run
  <2> HIDE DEF r, P
  <2>4. /\ Len(got') = L + n
        /\ \A k \in 1..L : got'[k] = got[k]
        /\ \A k \in (L + 1)..(L + n) : got'[k] = P + (k - L)
    <3>1. got' = got \o r BY <2>1 DEF r, P
    <3>2. Len(got \o r) = L + n BY <2>3, SMTT(60)
    <3>3. \A k \in 1..L : (got \o r)[k] = got[k] BY <2>2, <2>3
    <3>4. ASSUME NEW k \in (L + 1)..(L + n) PROVE (got \o r)[k] = P + (k - L)
      <4>1. k - L \in 1..n /\ k \in 1..(L + n) /\ ~(k <= L) BY <2>2
      <4>2. (got \o r)[k] = r[k - L] BY <4>1, <2>2, <2>3
      <4> QED BY <4>1, <4>2, <2>3
    <3> QED BY <3>1, <3>2, <3>3, <3>4
  <2> HIDE DEF L, Q
  <2>5. ASSUME NEW k \in 1..Len(got')
        PROVE  /\ got'[k] \in 1..Q
               /\ k <= L => k \in 1..L /\ got'[k] = got[k] /\ got[k] \in 1..P
               /\ ~(k <= L) => got'[k] = P + (k - L)
    <3>1. CASE k <= L
      <4>1. k \in 1..L /\ got'[k] = got[k] /\ got[k] \in 1..P BY <3>1, <2>2, <2>4, <1>1
      <4> QED BY <3>1, <4>1, <2>2
    <3>2. CASE ~(k <= L)
      <4>1. k \in (L + 1)..(L + n) BY <3>2, <2>2, <2>4
      <4>2. got'[k] = P + (k - L) BY <4>1, <2>4
      <4> QED BY <3>2, <4>1, <4>2, <2>2
    <3> QED BY <3>1, <3>2
  <2>6. ASSUME NEW i \in 1..Len(got'), NEW j \in 1..Len(got'), i < j
        PROVE  got'[i] < got'[j]
    <3>1. CASE j <= L
      <4>1. i <= L BY <2>6, <3>1, <2>2, <2>4
      <4> QED BY <4>1, <3>1, <2>5, <2>6, <1>1
    <3>2. CASE ~(j <= L) /\ i <= L
      <4>1. got'[i] \in 1..P /\ got'[j] = P + (j - L) BY <3>2, <2>5
      <4> QED BY <4>1, <3>2, <2>2, <2>4
    <3>3. CASE ~(j <= L) /\ ~(i <= L)
      <4>1. got'[i] = P + (i - L) /\ got'[j] = P + (j - L) BY <3>3, <2>5
      <4> QED BY <4>1, <2>2, <2>4, <2>6
    <3> QED BY <3>1, <3>2, <3>3
  <2> QED BY <2>5, <2>6 DEF Stream!InOrder, Q
<1>3. ASSUME got' = got, published' - Unread' \in Nat, published' - Unread' >= P
      PROVE  Stream!InOrder'
  <2> HIDE DEF P
  <2> DEFINE Q == published' - Unread'
  <2>1. Q \in Nat /\ Q >= P BY <1>3
  <2> HIDE DEF Q
  <2>2. P \in Nat BY DEF P
  <2>3. \A x \in 1..P : x \in 1..Q BY <2>1, <2>2
  <2> QED BY <2>3, <1>1, <1>3 DEF Stream!InOrder, Q
<1>4. CASE Stream!Publish BY <1>3, <1>4 DEF Stream!Publish
<1>5. CASE Stream!GiveUp
  <2>1. got' = got /\ published' - Unread' \in Nat /\ published' - Unread' >= P + Unread
    BY <1>5 DEF Stream!GiveUp
  <2> HIDE DEF P
  <2>2. P \in Nat BY DEF P
  <2> DEFINE Q == published' - Unread'
  <2>3. Q \in Nat /\ Q >= P + Unread BY <2>1
  <2> HIDE DEF Q
  <2>4. Q >= P BY <2>2, <2>3
  <2> QED BY <2>1, <2>4, <1>3 DEF Q
<1>6. CASE UNCHANGED Stream!stream BY <1>3, <1>6 DEF Stream!stream
<1> QED BY <1>2, <1>4, <1>5, <1>6 DEF Stream!Next

\* No byte is consumed twice, out of order or before it was published.
THEOREM InOrder == Spec => []Stream!InOrder
<1>1. Init => Stream!InOrder
  <2> SUFFICES ASSUME Init PROVE Stream!InOrder
    OBVIOUS
  <2>1. got = <<>> /\ Len(got) = 0 BY DEF Init
  <2> QED BY <2>1 DEF Stream!InOrder
<1>2. IInv /\ Stream!InOrder /\ [Next]_vars => Stream!InOrder'
  <2> SUFFICES ASSUME IInv, Stream!InOrder, [Next]_vars PROVE Stream!InOrder'
    OBVIOUS
  <2>1. [Stream!Next]_Stream!stream BY NextStep
  <2> QED BY <2>1, PassedIsNat, OrderKept
<1> QED BY <1>1, <1>2, Invariance, PTL DEF Spec
===============================================================================
