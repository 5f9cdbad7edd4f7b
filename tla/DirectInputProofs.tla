-------------------------- MODULE DirectInputProofs --------------------------
(***************************************************************************)
(* Decrypting in place is safe for every record size, input size and       *)
(* receive slot that holds one record.                                     *)
(*                                                                         *)
(* A record is never longer in plaintext than on the wire, so plaintext    *)
(* can exceed the ciphertext consumed in this call only by the call's      *)
(* first record, part of which may have come with an earlier input: that   *)
(* is Budget.  Once the staged slot has taken at least that first record,  *)
(* Slot, everything else fits behind what is still in the input.           *)
(***************************************************************************)
EXTENDS DirectInput, TLAPS

\* Ends e of the records after byte t, the last of which is byte d.
Records(t, e, d) ==
    /\ e \in Seq((t + 1)..d)
    /\ \A i, j \in 1..Len(e) : i < j => e[i] < e[j]
    /\ \A i, j \in 1..Len(e) : j = i + 1 => e[j] <= e[i] + MaxPlain
    /\ e # <<>> => e[1] <= t + MaxPlain /\ e[Len(e)] = d
    /\ e = <<>> => t = d

\* Only the first record may have more plaintext than this call consumed.
Budget ==
    /\ head = -1 => decoded = 0 /\ buffered - short <= used
    /\ head # -1 =>
        /\ head <= decoded /\ (decoded - head) + buffered <= used
        /\ \A i \in 1..Len(ends) : head <= ends[i]
        /\ taken > 0 => head <= taken

\* What the slot and the input hold of the plaintext the reader has had.
Slot ==
    /\ staged # "released"
    /\ staged = "ready" => chunk = <<>>
    /\ staged = "retained" => head <= Len(chunk) /\ chunk # <<>>
    /\ Len(chunk) + len = taken
    /\ \A i \in 1..Len(chunk) : chunk[i] = i
    /\ \A i \in 1..len : cells[i] = Len(chunk) + i

Control ==
    /\ phase # "process" => short = buffered
    /\ phase \notin {"process", "copy"} => ends = <<>>
    /\ phase = "finish" => result # "ok"

IInv ==
    /\ TypeOK
    /\ Records(taken, ends, decoded)
    /\ Budget
    /\ Slot
    /\ Control
    /\ NeverRefused
    /\ UnreadIntact
    /\ InputExhausted

-----------------------------------------------------------------------------
(* The reader's records *)

\* A sequence is one over whatever set its elements are in.
LEMMA SeqRetype ==
    ASSUME NEW S, NEW T, NEW s \in Seq(S), \A i \in 1..Len(s) : s[i] \in T
    PROVE  s \in Seq(T)
OBVIOUS

\* A further record with plaintext goes behind the others.
LEMMA RecordsAppend ==
    ASSUME NEW t \in Nat, NEW d \in Nat, t <= d,
           NEW p \in 1..MaxPlain, NEW e, Records(t, e, d)
    PROVE  Records(t, Append(e, d + p), d + p)
<1> USE RecordAssumption
<1> DEFINE f == Append(e, d + p)
<1>1. e \in Seq((t + 1)..d) BY DEF Records
<1>2. \A i \in 1..Len(e) : e[i] \in (t + 1)..d BY <1>1
<1>3. /\ Len(f) = Len(e) + 1 /\ Len(e) \in Nat
      /\ f[Len(f)] = d + p
      /\ \A i \in 1..Len(e) : f[i] = e[i]
  BY <1>1
<1>4. f \in Seq((t + 1)..(d + p))
  <2>1. e \in Seq((t + 1)..(d + p)) BY <1>1, <1>2
  <2> QED BY <2>1
<1>5. ASSUME NEW i \in 1..Len(f), NEW j \in 1..Len(f), i < j PROVE f[i] < f[j]
  <2>1. CASE j = Len(f) BY <2>1, <1>2, <1>3, <1>5
  <2>2. CASE j # Len(f)
    <3>1. i \in 1..Len(e) /\ j \in 1..Len(e) BY <2>2, <1>3, <1>5
    <3> QED BY <3>1, <1>3, <1>5 DEF Records
  <2> QED BY <2>1, <2>2
<1>6. ASSUME NEW i \in 1..Len(f), NEW j \in 1..Len(f), j = i + 1
      PROVE  f[j] <= f[i] + MaxPlain
  <2>1. CASE j = Len(f)
    <3>1. e # <<>> /\ i = Len(e) BY <2>1, <1>1, <1>3, <1>6
    <3>2. f[i] = d /\ f[j] = d + p BY <3>1, <2>1, <1>1, <1>3, <1>6 DEF Records
    <3> QED BY <3>2
  <2>2. CASE j # Len(f)
    <3>1. i \in 1..Len(e) /\ j \in 1..Len(e) BY <2>2, <1>3, <1>6
    <3> QED BY <3>1, <1>3, <1>6 DEF Records
  <2> QED BY <2>1, <2>2
<1>7. f[1] <= t + MaxPlain
  <2>1. CASE e = <<>> BY <2>1, <1>3 DEF Records
  <2>2. CASE e # <<>>
    <3>1. Len(e) \in Nat \ {0} BY <2>2, <1>1
    <3>2. 1 \in 1..Len(e) /\ f[1] = e[1] BY <3>1, <1>3
    <3>3. e[1] <= t + MaxPlain BY <2>2, <1>1 DEF Records
    <3> QED BY <3>2, <3>3
  <2> QED BY <2>1, <2>2
<1>8. f # <<>> BY <1>1, SMTT(60)
<1> HIDE DEF f
<1>9. Records(t, f, d + p) BY <1>3, <1>4, <1>5, <1>6, <1>7, <1>8 DEF Records
<1> QED BY <1>9 DEF f

\* The reader takes the first record that is left.
LEMMA RecordsTail ==
    ASSUME NEW t \in Nat, NEW d \in Nat, NEW e, Records(t, e, d), e # <<>>
    PROVE  /\ Head(e) \in (t + 1)..d
           /\ Head(e) - t \in 1..MaxPlain
           /\ Records(Head(e), Tail(e), d)
<1> USE RecordAssumption
<1> DEFINE f == Tail(e)
<1>1. e \in Seq((t + 1)..d) /\ e # <<>> BY DEF Records
<1>2. /\ Len(e) \in Nat \ {0} /\ Len(f) = Len(e) - 1
      /\ Head(e) = e[1] /\ e[1] \in (t + 1)..d
      /\ \A i \in 1..Len(f) : f[i] = e[i + 1]
      /\ \A i \in 1..Len(e) : e[i] \in (t + 1)..d
  BY <1>1
<1>3. e[1] <= t + MaxPlain /\ e[Len(e)] = d BY <1>1 DEF Records
<1>4. f \in Seq((e[1] + 1)..d)
  <2>1. f \in Seq((t + 1)..d) BY <1>1
  <2>2. \A i \in 1..Len(f) : f[i] \in (e[1] + 1)..d BY <1>2 DEF Records
  <2> HIDE DEF f
  <2> QED BY <2>1, <2>2, SeqRetype
<1>5. \A i, j \in 1..Len(f) : i < j => f[i] < f[j] BY <1>2 DEF Records
<1>6. \A i, j \in 1..Len(f) : j = i + 1 => f[j] <= f[i] + MaxPlain
  BY <1>2 DEF Records
<1>7. f # <<>> => f[1] <= e[1] + MaxPlain /\ f[Len(f)] = d
  <2> SUFFICES ASSUME f # <<>> PROVE f[1] <= e[1] + MaxPlain /\ f[Len(f)] = d
    OBVIOUS
  <2>1. Len(f) \in Nat \ {0} BY <1>4
  <2> QED BY <2>1, <1>2, <1>3 DEF Records
<1>8. f = <<>> => e[1] = d
  <2> SUFFICES ASSUME f = <<>> PROVE e[1] = d OBVIOUS
  <2> HIDE DEF f
  <2>1. Len(f) = 0 OBVIOUS
  <2> QED BY <2>1, <1>2, <1>3
<1> HIDE DEF f
<1>9. Records(e[1], f, d) BY <1>4, <1>5, <1>6, <1>7, <1>8 DEF Records
<1> QED BY <1>9, <1>2, <1>3 DEF f

-----------------------------------------------------------------------------
(* One turn of copy_plain *)

\* Everything that does not concern where the plaintext goes.
LEMMA ReaderConsumes ==
    ASSUME IInv, phase = "copy", ends # <<>>, Concludes("ok")
    PROVE  /\ taken' = Head(ends) /\ taken' \in (taken + 1)..decoded
           /\ Records(taken, ends, decoded)' /\ Budget' /\ Control'
           /\ NeverRefused' /\ InputExhausted'
<1>1. /\ taken' = Head(ends) /\ ends' = Tail(ends) /\ decoded' = decoded
      /\ head' = head /\ buffered' = buffered /\ short' = short /\ used' = used
      /\ phase' = "copy" /\ result' = result
  BY DEF Concludes
<1>2. /\ decoded \in Nat /\ taken \in Nat /\ Records(taken, ends, decoded)
      /\ head \in {-1} \cup 0..MaxPlain
  BY DEF IInv, TypeOK
<1>3. /\ Head(ends) \in (taken + 1)..decoded
      /\ Records(Head(ends), Tail(ends), decoded)
  BY <1>2, RecordsTail
<1>4. Budget'
  <2>1. ends \in Seq((taken + 1)..decoded) BY <1>2 DEF Records
  <2>2. /\ 1 \in 1..Len(ends) /\ Head(ends) = ends[1]
        /\ \A i \in 1..Len(Tail(ends)) :
              i + 1 \in 1..Len(ends) /\ Tail(ends)[i] = ends[i + 1]
    BY <2>1
  <2>3. CASE head = -1 BY <2>3, <1>1, <1>3, <1>2 DEF IInv, Budget
  <2>4. CASE head # -1
    <3>1. \A i \in 1..Len(ends) : head <= ends[i] BY <2>4 DEF IInv, Budget
    <3>2. \A i \in 1..Len(Tail(ends)) : head <= Tail(ends)[i] BY <3>1, <2>2
    <3>3. head <= Head(ends) BY <3>1, <2>2
    <3> QED BY <3>2, <3>3, <2>4, <1>1 DEF IInv, Budget
  <2> QED BY <2>3, <2>4
<1>5. Records(taken, ends, decoded)' BY <1>1, <1>3 DEF Records
<1>6. Control' /\ NeverRefused' /\ InputExhausted'
  BY <1>1 DEF IInv, Control, NeverRefused, InputExhausted
<1> QED BY <1>1, <1>3, <1>4, <1>5, <1>6

\* A chunk that does not fit was preceded by nothing but what the slot, still
\* unused, is for: at most one record beyond what this call consumed.
LEMMA Overflow ==
    ASSUME IInv, phase = "copy", ends # <<>>, ~Fits(Plain, len)
    PROVE  /\ staged = "ready" /\ chunk = <<>> /\ len = taken
           /\ head \in 0..MaxPlain /\ (taken > 0 => head <= taken)
           /\ Plain \in 1..MaxPlain /\ Plain + taken = Head(ends)
           /\ head <= Plain + taken /\ Plain + taken <= used + head
<1> USE RecordAssumption
<1>1. /\ decoded \in Nat /\ taken \in Nat /\ used \in Nat /\ len \in 0..used
      /\ buffered \in Nat /\ Records(taken, ends, decoded)
      /\ head \in {-1} \cup 0..MaxPlain /\ chunk \in Seq(Nat)
      /\ staged \in {"ready", "retained", "released"}
  BY DEF IInv, TypeOK
<1>2. /\ Head(ends) \in (taken + 1)..decoded
      /\ Head(ends) - taken \in 1..MaxPlain
  BY <1>1, RecordsTail
<1>3. head # -1 BY <1>1, <1>2 DEF IInv, Budget
<1>4. /\ decoded - head + buffered <= used
      /\ \A i \in 1..Len(ends) : head <= ends[i]
      /\ taken > 0 => head <= taken
  BY <1>3 DEF IInv, Budget
<1>5. head <= Head(ends)
  <2>1. ends \in Seq((taken + 1)..decoded) BY <1>1 DEF Records
  <2>2. 1 \in 1..Len(ends) /\ Head(ends) = ends[1] BY <2>1
  <2> QED BY <2>2, <1>4
<1>6. Plain \in 1..MaxPlain /\ Plain + taken = Head(ends) /\ Plain > used - len
  BY <1>1, <1>2, SMTT(60) DEF Plain, Fits
<1>7. Plain + taken <= used + head
  <2>1. /\ Plain + taken = Head(ends) /\ Head(ends) \in Nat /\ Head(ends) <= decoded
        /\ decoded \in Nat /\ buffered \in Nat /\ used \in Nat /\ head \in Int
    BY <1>1, <1>2, <1>6 DEF IInv, TypeOK
  <2> QED BY <2>1, <1>4, SMTT(60)
<1>8. Len(chunk) \in Nat /\ Len(chunk) + len = taken BY <1>1 DEF IInv, Slot
<1>9. staged = "ready"
  <2> SUFFICES ASSUME staged = "retained" PROVE FALSE
    BY <1>1 DEF IInv, Slot
  <2>1. head <= Len(chunk) BY DEF IInv, Slot
  <2> QED BY <2>1, <1>8, <1>7, <1>6, <1>1
<1>10. chunk = <<>> BY <1>9 DEF IInv, Slot
<1>11. len = taken BY <1>10, <1>8, <1>1
<1> QED BY <1>1, <1>3, <1>4, <1>5, <1>6, <1>7, <1>9, <1>10, <1>11

\* The chunk is what the reader has next, and Written puts it behind n cells.
LEMMA WrittenCells ==
    ASSUME NEW b \in [1..extent -> Nat], NEW n \in Nat,
           taken \in Nat, extent \in Nat, used \in Nat, Plain \in Nat,
           n + Plain <= used, used <= extent
    PROVE  /\ Written(b, n) \in [1..extent -> Nat]
           /\ \A i \in 1..n : Written(b, n)[i] = b[i]
           /\ \A i \in 1..Plain : Written(b, n)[n + i] = taken + i
           /\ \A i \in (used + 1)..extent : Written(b, n)[i] = b[i]
<1>1. Chunk = [i \in 1..Plain |-> taken + i] BY DEF Chunk
<1>2. \A i \in (n + 1)..(n + Plain) : i - n \in 1..Plain OBVIOUS
<1>3. \A i \in (n + 1)..(n + Plain) : Chunk[i - n] = taken + (i - n) BY <1>1, <1>2
<1>4. \A i \in 1..extent :
        Written(b, n)[i] = IF i \in (n + 1)..(n + Plain) THEN taken + (i - n) ELSE b[i]
  BY <1>3 DEF Written
<1>5. Written(b, n) \in [1..extent -> Nat]
  <2>1. \A i \in 1..extent :
          (IF i \in (n + 1)..(n + Plain) THEN Chunk[i - n] ELSE b[i]) \in Nat
    BY <1>3
  <2> QED BY <2>1 DEF Written
<1>6. \A i \in 1..n : Written(b, n)[i] = b[i] BY <1>4
<1>7. \A i \in 1..Plain : Written(b, n)[n + i] = taken + i BY <1>4
<1>8. \A i \in (used + 1)..extent : Written(b, n)[i] = b[i] BY <1>4
<1> QED BY <1>5, <1>6, <1>7, <1>8

\* Behind what the input has.
LEMMA InPlace == IInv /\ CopyInPlace => IInv'
<1> SUFFICES ASSUME IInv, CopyInPlace PROVE IInv'
  OBVIOUS
<1> USE RecordAssumption
<1>1. /\ phase = "copy" /\ ends # <<>> /\ Concludes("ok") /\ UNCHANGED slot
      /\ cells' = Written(cells, len) /\ len' = len + Plain
      /\ Plain <= used - len
  BY DEF CopyInPlace, Fits
<1>2. /\ taken' = Head(ends) /\ taken' \in (taken + 1)..decoded
      /\ Records(taken, ends, decoded)' /\ Budget' /\ Control'
      /\ NeverRefused' /\ InputExhausted'
  BY <1>1, ReaderConsumes
<1>3. /\ UNCHANGED <<extent, used, conn, buffered, short, decoded, head>>
      /\ phase' = "copy" /\ result' = result
  BY <1>1 DEF Concludes
<1>4. /\ extent \in Nat /\ used \in 0..extent /\ len \in 0..used /\ taken \in Nat
      /\ decoded \in Nat /\ cells \in [1..extent -> Nat] /\ Plain \in Nat
      /\ taken' = taken + Plain /\ chunk \in Seq(Nat) /\ Len(chunk) \in Nat
  BY <1>2, SMTT(60) DEF IInv, TypeOK, Plain
<1>5. /\ cells' \in [1..extent -> Nat]
      /\ \A i \in 1..len : cells'[i] = cells[i]
      /\ \A i \in 1..Plain : cells'[len + i] = taken + i
      /\ \A i \in (used + 1)..extent : cells'[i] = cells[i]
  <2>1. len \in Nat /\ used \in Nat /\ used <= extent /\ len + Plain <= used
    BY <1>1, <1>4
  <2>2. /\ Written(cells, len) \in [1..extent -> Nat]
        /\ \A i \in 1..len : Written(cells, len)[i] = cells[i]
        /\ \A i \in 1..Plain : Written(cells, len)[len + i] = taken + i
        /\ \A i \in (used + 1)..extent : Written(cells, len)[i] = cells[i]
    BY <1>4, <2>1, WrittenCells
  <2> QED BY <2>2, <1>1
<1>6. len' \in 0..used /\ taken' \in 0..decoded /\ ends' \in Seq((taken' + 1)..decoded)
  BY <1>1, <1>2, <1>3, <1>4 DEF Records
<1>7. TypeOK'
  BY <1>1, <1>3, <1>5, <1>6 DEF IInv, TypeOK, slot, conn
<1>8. Slot'
  <2>1. Len(chunk) + len = taken BY DEF IInv, Slot
  <2>2. ASSUME NEW i \in 1..len + Plain PROVE cells'[i] = Len(chunk) + i
    <3>1. CASE i \in 1..len BY <3>1, <1>5 DEF IInv, Slot
    <3>2. CASE i \notin 1..len
      <4>1. i - len \in 1..Plain /\ len + (i - len) = i BY <3>2, <2>2, <1>4
      <4>2. cells'[i] = taken + (i - len) BY <4>1, <1>5
      <4> QED BY <4>2, <2>1, <1>4, <2>2
    <3> QED BY <3>1, <3>2
  <2>3. Len(chunk) + (len + Plain) = taken + Plain BY <2>1, <1>4
  <2> QED BY <1>1, <1>3, <1>4, <2>2, <2>3 DEF IInv, Slot, slot
<1>9. UnreadIntact'
  BY <1>5, <1>3, <1>4 DEF IInv, UnreadIntact
<1> QED BY <1>2, <1>7, <1>8, <1>9 DEF IInv

\* To the staged slot, which then has the call's first bytes.
LEMMA Staged == IInv /\ StageRecord => IInv'
<1> SUFFICES ASSUME IInv, StageRecord PROVE IInv'
  OBVIOUS
<1> USE RecordAssumption, SlotAssumption
<1>1. /\ phase = "copy" /\ ends # <<>> /\ ~Fits(Plain, len) /\ len = 0
      /\ UNCHANGED <<cells, len>>
  BY DEF StageRecord
<1>2. /\ staged = "ready" /\ chunk = <<>> /\ taken = 0 /\ head \in 0..MaxPlain
      /\ Plain \in 1..MaxPlain /\ head <= Plain /\ Plain + taken = Head(ends)
  BY <1>1, Overflow DEF IInv, TypeOK
<1>3. /\ Chunk \in Seq(Nat) /\ Len(Chunk) = Plain
      /\ \A i \in 1..Plain : Chunk[i] = i
  BY <1>2 DEF Chunk
<1>4. Copied(Chunk) = [staged |-> "retained", chunk |-> Chunk, error |-> "ok"]
  <2>1. ~(Len(Chunk) > SlotCap) BY <1>2, <1>3
  <2> QED BY <2>1, <1>2 DEF Copied
<1>5. staged' = "retained" /\ chunk' = Chunk /\ Concludes("ok")
  BY <1>4 DEF StageRecord
<1>6. /\ taken' = Head(ends) /\ taken' \in (taken + 1)..decoded
      /\ Records(taken, ends, decoded)' /\ Budget' /\ Control'
      /\ NeverRefused' /\ InputExhausted'
  BY <1>1, <1>5, ReaderConsumes
<1>7. /\ UNCHANGED <<extent, used, conn, buffered, short, decoded, head>>
      /\ phase' = "copy" /\ result' = result
  BY <1>5 DEF Concludes
<1>8. taken' \in 0..decoded /\ ends' \in Seq((taken' + 1)..decoded)
  BY <1>2, <1>6, <1>7 DEF Records, IInv, TypeOK
<1>9. TypeOK'
  BY <1>1, <1>3, <1>5, <1>7, <1>8 DEF IInv, TypeOK, conn
<1>10. Slot'
  <2>1. Len(Chunk) + len = Head(ends) BY <1>1, <1>2, <1>3
  <2> QED BY <1>1, <1>2, <1>3, <1>5, <1>6, <1>7, <2>1 DEF Slot
<1>11. UnreadIntact' BY <1>1, <1>7 DEF IInv, UnreadIntact
<1> QED BY <1>6, <1>9, <1>10, <1>11 DEF IInv

\* The front goes to the slot; the rest and the record fit behind each other.
LEMMA Promoted == IInv /\ StagePrefix => IInv'
<1> SUFFICES ASSUME IInv, StagePrefix PROVE IInv'
  OBVIOUS
<1> USE RecordAssumption, SlotAssumption
<1> DEFINE prior  == SubSeq(cells, 1, len)
           prefix == Prefix(prior)
           front  == SubSeq(prior, 1, prefix)
           moved  == MovedDown(cells, prefix)
           rest   == len - prefix
           error  == IF Copied(front).error = "ok" /\ ~Fits(Plain, rest)
                     THEN "InvalidBufferProgress" ELSE Copied(front).error
<1>0. /\ staged' = Copied(front).staged /\ chunk' = Copied(front).chunk
      /\ cells' = IF Copied(front).error # "ok" THEN cells
                  ELSE IF error # "ok" THEN moved
                  ELSE Written(moved, rest)
      /\ len' = IF Copied(front).error # "ok" THEN len
                ELSE IF error # "ok" THEN rest
                ELSE rest + Plain
      /\ Concludes(error)
  BY DEF StagePrefix
<1>1. /\ phase = "copy" /\ ends # <<>> /\ ~Fits(Plain, len) /\ len > 0
      /\ UNCHANGED <<extent, used, conn, buffered, short, decoded, head>>
  BY DEF StagePrefix, Concludes
<1>2. /\ staged = "ready" /\ chunk = <<>> /\ len = taken /\ head \in 0..MaxPlain
      /\ head <= taken /\ Plain \in 1..MaxPlain /\ Plain + taken = Head(ends)
      /\ Plain + taken <= used + head
  <2>1. taken \in Nat BY DEF IInv, TypeOK
  <2> QED BY <2>1, <1>1, Overflow
<1>3. /\ extent \in Nat /\ used \in 0..extent /\ len \in 1..used
      /\ cells \in [1..extent -> Nat] /\ taken \in Nat /\ decoded \in Nat
  BY <1>1 DEF IInv, TypeOK
<1>4. /\ prior = [i \in 1..len |-> cells[i]] /\ Len(prior) = len
  BY <1>3
<1>5. prefix \in 1..MaxPlain /\ prefix <= len /\ head <= prefix
  BY <1>2, <1>3, <1>4 DEF Prefix
<1>6. /\ front \in Seq(Nat) /\ Len(front) = prefix
      /\ \A i \in 1..prefix : front[i] = i
  <2>1. \A i \in 1..len : cells[i] = i
    BY <1>2, <1>3 DEF IInv, Slot
  <2> HIDE DEF prefix
  <2>2. front = [i \in 1..prefix |-> i]
    BY <2>1, <1>3, <1>4, <1>5
  <2> HIDE DEF front
  <2> QED BY <2>2, <1>5
<1> HIDE DEF prior, prefix, front
<1>7. Copied(front) = [staged |-> "retained", chunk |-> front, error |-> "ok"]
  <2>1. ~(Len(front) > SlotCap) BY <1>5, <1>6
  <2> QED BY <2>1, <1>2 DEF Copied
<1>8. rest \in Nat /\ Fits(Plain, rest) /\ rest + Plain <= used
  BY <1>2, <1>3, <1>5 DEF Fits
<1> HIDE DEF moved, rest
<1>9. /\ staged' = "retained" /\ chunk' = front /\ Concludes("ok")
      /\ cells' = Written(moved, rest) /\ len' = rest + Plain
  BY <1>0, <1>7, <1>8
<1>10. /\ taken' = Head(ends) /\ taken' \in (taken + 1)..decoded
       /\ Records(taken, ends, decoded)' /\ Budget' /\ Control'
       /\ NeverRefused' /\ InputExhausted'
  BY <1>1, <1>9, ReaderConsumes
<1>11. phase' = "copy" /\ result' = result BY <1>9 DEF Concludes
<1>12. /\ moved \in [1..extent -> Nat]
       /\ \A i \in 1..rest : moved[i] = prefix + i
       /\ \A i \in (used + 1)..extent : moved[i] = cells[i]
  <2>1. \A i \in 1..len : cells[i] = i
    BY <1>2, <1>3 DEF IInv, Slot
  <2>2. \A i \in 1..rest : i \in 1..len - prefix /\ i + prefix \in 1..len /\ i \in 1..extent
    BY <1>3, <1>5 DEF rest
  <2>3. moved = [i \in 1..extent |-> IF i <= len - prefix THEN cells[i + prefix] ELSE cells[i]]
    BY DEF moved, MovedDown
  <2>4. \A i \in 1..extent : (IF i <= len - prefix THEN cells[i + prefix] ELSE cells[i]) \in Nat
    BY <1>3, <1>5
  <2>5. moved \in [1..extent -> Nat] BY <2>3, <2>4
  <2>6. \A i \in 1..rest : moved[i] = prefix + i BY <2>1, <2>2, <2>3, <1>5, <1>3
  <2>7. \A i \in (used + 1)..extent : moved[i] = cells[i] BY <2>3, <1>3, <1>5
  <2> QED BY <2>5, <2>6, <2>7
<1>13. /\ cells' \in [1..extent -> Nat]
       /\ \A i \in 1..rest : cells'[i] = moved[i]
       /\ \A i \in 1..Plain : cells'[rest + i] = taken + i
       /\ \A i \in (used + 1)..extent : cells'[i] = moved[i]
  <2>1. used \in Nat /\ used <= extent /\ Plain \in Nat BY <1>2, <1>3
  <2>2. /\ Written(moved, rest) \in [1..extent -> Nat]
        /\ \A i \in 1..rest : Written(moved, rest)[i] = moved[i]
        /\ \A i \in 1..Plain : Written(moved, rest)[rest + i] = taken + i
        /\ \A i \in (used + 1)..extent : Written(moved, rest)[i] = moved[i]
    BY <1>3, <1>8, <1>12, <2>1, WrittenCells
  <2> QED BY <2>2, <1>9
<1>14. /\ len' \in 0..used /\ taken' \in 0..decoded
       /\ ends' \in Seq((taken' + 1)..decoded)
  <2>1. rest + Plain \in 0..used BY <1>2, <1>3, <1>8
  <2> QED BY <2>1, <1>1, <1>3, <1>9, <1>10 DEF Records
<1>15. TypeOK'
  BY <1>1, <1>6, <1>9, <1>11, <1>13, <1>14 DEF IInv, TypeOK, conn
<1>16. Slot'
  <2>1. prefix + (rest + Plain) = Head(ends) /\ prefix + rest = taken
    BY <1>2, <1>3, <1>5 DEF rest
  <2>2. ASSUME NEW i \in 1..rest + Plain PROVE cells'[i] = prefix + i
    <3>1. CASE i \in 1..rest BY <3>1, <1>12, <1>13
    <3>2. CASE i \notin 1..rest
      <4>1. i - rest \in 1..Plain /\ rest + (i - rest) = i BY <3>2, <2>2, <1>2, <1>8
      <4>2. cells'[i] = taken + (i - rest) BY <4>1, <1>13
      <4>3. taken + (i - rest) = prefix + i BY <2>1, <2>2, <1>2, <1>3, <1>5, <1>8
      <4> QED BY <4>2, <4>3
    <3> QED BY <3>1, <3>2
  <2>3. front # <<>> BY <1>5, <1>6
  <2> QED BY <1>1, <1>5, <1>6, <1>9, <1>10, <2>1, <2>2, <2>3 DEF Slot
<1>17. UnreadIntact' BY <1>1, <1>12, <1>13 DEF IInv, UnreadIntact
<1> QED BY <1>10, <1>15, <1>16, <1>17 DEF IInv

-----------------------------------------------------------------------------
(* The call *)

\* The initial state satisfies the inductive invariant.
LEMMA InitInv == Init => IInv
<1> SUFFICES ASSUME Init PROVE IInv OBVIOUS
<1> USE RecordAssumption DEF Init
<1>1. TypeOK
  <2>1. <<>> \in [1..0 -> Nat] OBVIOUS
  <2>2. <<>> \in Seq(1..0) /\ <<>> \in Seq(Nat) OBVIOUS
  <2>3. cells \in [1..extent -> Nat] BY <2>1
  <2>4. ends \in Seq((taken + 1)..decoded)
    <3>1. taken + 1 = 1 /\ decoded = 0 OBVIOUS
    <3> QED BY <3>1, <2>2
  <2>5. chunk \in Seq(Nat) BY <2>2
  <2>6. /\ extent \in Nat /\ used \in 0..extent /\ len \in 0..used
        /\ buffered \in Nat /\ short \in 0..buffered
        /\ decoded \in Nat /\ taken \in 0..decoded /\ head \in {-1} \cup 0..MaxPlain
    OBVIOUS
  <2> QED BY <2>3, <2>4, <2>5, <2>6 DEF TypeOK, Phase, Result
<1>2. Records(taken, ends, decoded) BY DEF Records
<1>3. Budget BY DEF Budget
<1>4. Slot BY DEF Slot
<1>5. Control BY DEF Control
<1>6. NeverRefused /\ UnreadIntact /\ InputExhausted
  BY DEF NeverRefused, UnreadIntact, InputExhausted
<1> QED BY <1>1, <1>2, <1>3, <1>4, <1>5, <1>6 DEF IInv

\* The bytes of the input that a step may write are already plaintext's, and
\* only a first record spends more than it consumed.
LEMMA NextInv == IInv /\ [Next]_vars => IInv'
<1> SUFFICES ASSUME IInv, [Next]_vars PROVE IInv'
  OBVIOUS
<1> USE RecordAssumption
<1>0. /\ TypeOK /\ Records(taken, ends, decoded) /\ Budget /\ Slot /\ Control
      /\ NeverRefused /\ UnreadIntact /\ InputExhausted
  BY DEF IInv
<1>1. CASE Begin
  <2>1. ends = <<>> /\ short = buffered BY <1>0, <1>1 DEF Begin, Control
  <2>2. PICK n \in 0..MaxInput :
          extent' = n /\ cells' = [i \in 1..n |-> 0]
    BY <1>1 DEF Begin
  <2>3. /\ used' = 0 /\ len' = 0 /\ staged' = "ready" /\ chunk' = <<>>
        /\ result' = "ok" /\ decoded' = 0 /\ ends' = <<>> /\ taken' = 0
        /\ head' = -1 /\ phase' = "loop"
        /\ UNCHANGED <<conn, buffered, short>>
    BY <1>1 DEF Begin
  <2>4. TypeOK'
    <3>1. cells' \in [1..extent' -> Nat] BY <2>2
    <3>2. ends' \in Seq((taken' + 1)..decoded') BY <2>3
    <3>3. extent' \in Nat /\ used' \in 0..extent' /\ len' \in 0..used' BY <2>2, <2>3
    <3> QED BY <3>1, <3>2, <3>3, <2>3, <1>0 DEF TypeOK, Phase, Result, conn
  <2>5. Records(taken, ends, decoded)' BY <2>3 DEF Records
  <2>6. Budget' BY <2>1, <2>3, <1>0 DEF Budget, TypeOK
  <2>7. Slot' BY <2>3 DEF Slot
  <2>8. (Control /\ NeverRefused /\ InputExhausted)'
    BY <2>1, <2>3 DEF Control, NeverRefused, InputExhausted
  <2>9. UnreadIntact' BY <2>2, <2>3 DEF UnreadIntact
  <2> QED BY <2>4, <2>5, <2>6, <2>7, <2>8, <2>9 DEF IInv
<1>2. CASE Read
  <2>1. PICK count \in 1..(extent - used) :
          used' = used + count /\ buffered' = buffered + count
    BY <1>2 DEF Read
  <2>2. /\ phase = "loop" /\ phase' = "process"
        /\ UNCHANGED <<extent, cells, len, slot, result, conn, short, decoded,
                       ends, taken, head>>
    BY <1>2 DEF Read
  <2>3. ends = <<>> /\ short = buffered BY <1>0, <2>2 DEF Control
  <2>4. TypeOK' BY <2>1, <2>2, <1>0 DEF TypeOK, Phase, slot, conn
  <2>5. Records(taken, ends, decoded)' BY <2>2, <1>0 DEF Records
  <2>6. Budget' BY <2>1, <2>2, <2>3, <1>0 DEF Budget, TypeOK
  <2>7. Slot' BY <2>2, <1>0 DEF Slot, slot
  <2>8. (Control /\ NeverRefused /\ InputExhausted)'
    BY <2>2, <2>3, <1>0 DEF Control, NeverRefused, InputExhausted
  <2>9. UnreadIntact' BY <2>1, <2>2, <1>0 DEF UnreadIntact, TypeOK
  <2> QED BY <2>4, <2>5, <2>6, <2>7, <2>8, <2>9 DEF IInv
<1>3. CASE ReadFails
  <2>1. /\ phase = "loop" /\ phase' = "finish" /\ result' = "native"
        /\ UNCHANGED <<input, slot, conn, native>>
    BY <1>3 DEF ReadFails
  <2> QED BY <2>1, <1>0 DEF IInv, TypeOK, Records, Budget, Slot, Control,
        NeverRefused, UnreadIntact, InputExhausted, Phase, Result,
        input, slot, conn, native
<1>4. CASE Record
  <2>1. PICK w \in (short + 1)..buffered : \E p \in 0..MaxPlain :
          /\ p <= w /\ w <= MaxWire
          /\ buffered' = buffered - w
          /\ decoded' = decoded + p
          /\ ends' = IF p > 0 THEN Append(ends, decoded + p) ELSE ends
          /\ head' = IF head = -1 THEN p ELSE head
    BY <1>4 DEF Record
  <2>2. PICK p \in 0..MaxPlain :
          /\ p <= w
          /\ buffered' = buffered - w
          /\ decoded' = decoded + p
          /\ ends' = IF p > 0 THEN Append(ends, decoded + p) ELSE ends
          /\ head' = IF head = -1 THEN p ELSE head
    BY <2>1
  <2>3. /\ phase = "process" /\ short' = 0
        /\ UNCHANGED <<phase, input, slot, result, conn, taken>>
    BY <1>4 DEF Record
  <2>4. /\ decoded \in Nat /\ taken \in 0..decoded /\ used \in Nat
        /\ buffered \in Nat /\ short \in 0..buffered /\ head \in {-1} \cup 0..MaxPlain
        /\ ends \in Seq((taken + 1)..decoded)
    BY <1>0 DEF TypeOK
  <2>5. Records(taken, ends', decoded + p)
    <3>1. CASE p = 0
      <4>1. ends' = ends /\ decoded + p = decoded BY <3>1, <2>2, <2>4
      <4> QED BY <4>1, <1>0
    <3>2. CASE p # 0
      <4>1. p \in 1..MaxPlain /\ ends' = Append(ends, decoded + p) BY <3>2, <2>2
      <4>2. taken \in Nat /\ taken <= decoded BY <2>4
      <4> QED BY <4>1, <4>2, <2>4, <1>0, RecordsAppend
    <3> QED BY <3>1, <3>2
  <2>6. Records(taken, ends, decoded)' BY <2>5, <2>2, <2>3 DEF Records
  <2>7. TypeOK'
    <3>1. ends' \in Seq((taken' + 1)..decoded') BY <2>6 DEF Records
    <3>2. /\ buffered' \in Nat /\ short' \in 0..buffered' /\ decoded' \in Nat
          /\ taken' \in 0..decoded' /\ head' \in {-1} \cup 0..MaxPlain
      BY <2>2, <2>3, <2>4
    <3> QED BY <3>1, <3>2, <2>3, <1>0 DEF TypeOK, input, slot, conn
  <2>8. Budget'
    <3>1. used' = used /\ taken' = taken BY <2>3 DEF input
    <3>2. CASE head = -1
      <4>1. decoded = 0 /\ buffered - short <= used /\ taken = 0
        BY <3>2, <1>0, <2>4 DEF Budget
      <4>2. ends = <<>> BY <4>1, <2>4
      <4>3. head' = p /\ decoded' = p BY <3>2, <4>1, <2>2
      <4>4. buffered' <= used BY <4>1, <2>2, <2>4
      <4>5. \A i \in 1..Len(ends') : head' <= ends'[i]
        <5>1. CASE p = 0 BY <5>1, <4>2, <2>2
        <5>2. CASE p # 0
          <6>1. ends' = <<p>> BY <5>2, <4>1, <4>2, <2>2
          <6> QED BY <6>1, <4>3
        <5> QED BY <5>1, <5>2
      <4>6. (decoded' - head') + buffered' <= used'
        BY <4>3, <4>4, <3>1, <2>2, <2>4
      <4>7. head' # -1 /\ head' <= decoded' BY <4>3, <2>2
      <4> QED BY <4>1, <4>5, <4>6, <4>7, <3>1 DEF Budget
    <3>3. CASE head # -1
      <4>1. /\ head <= decoded /\ (decoded - head) + buffered <= used
            /\ \A i \in 1..Len(ends) : head <= ends[i]
            /\ taken > 0 => head <= taken
        BY <3>3, <1>0 DEF Budget
      <4>2. head' = head BY <3>3, <2>2
      <4>3. (decoded + p - head) + (buffered - w) <= used
        BY <4>1, <2>2, <2>4, <3>3
      <4>4. head <= decoded + p BY <4>1, <2>2, <2>4, <3>3
      <4>5. \A i \in 1..Len(ends') : head <= ends'[i]
        <5>1. CASE p = 0 BY <5>1, <4>1, <2>2
        <5>2. CASE p # 0 BY <5>2, <4>1, <4>4, <2>2, <2>4
        <5> QED BY <5>1, <5>2
      <4>6. (decoded' - head') + buffered' <= used'
        BY <4>2, <4>3, <3>1, <2>2, <2>4
      <4>7. head' <= decoded' /\ head' # -1 BY <4>2, <4>4, <2>2, <2>4, <3>3
      <4> QED BY <4>1, <4>2, <4>5, <4>6, <4>7, <3>1 DEF Budget
    <3> QED BY <3>2, <3>3
  <2>9. Slot'
    <3>1. CASE head = -1
      <4>1. taken = 0 BY <3>1, <1>0, <2>4 DEF Budget
      <4>2. chunk \in Seq(Nat) /\ len \in Nat /\ Len(chunk) + len = taken
        BY <1>0, <2>4 DEF TypeOK, Slot
      <4>3. chunk = <<>> BY <4>1, <4>2
      <4>4. staged # "retained" BY <4>3, <1>0 DEF Slot
      <4> QED BY <4>4, <2>3, <1>0 DEF Slot, input, slot
    <3>2. CASE head # -1
      <4>1. head' = head BY <3>2, <2>2
      <4> QED BY <4>1, <2>3, <1>0 DEF Slot, input, slot
    <3> QED BY <3>1, <3>2
  <2>10. (Control /\ NeverRefused /\ UnreadIntact /\ InputExhausted)'
    BY <2>3, <1>0 DEF Control, NeverRefused, UnreadIntact, InputExhausted, input, conn
  <2> QED BY <2>6, <2>7, <2>8, <2>9, <2>10 DEF IInv
<1>5. CASE RecordsEnd
  <2>1. /\ phase = "process" /\ short' = buffered /\ phase' = "copy"
        /\ UNCHANGED <<input, slot, result, conn, buffered, decoded, ends, taken, head>>
    BY <1>5 DEF RecordsEnd
  <2>2. TypeOK' BY <2>1, <1>0 DEF TypeOK, Phase, input, slot, conn
  <2>3. Budget' BY <2>1, <1>0 DEF Budget, TypeOK, input
  <2> QED BY <2>1, <2>2, <2>3, <1>0 DEF IInv, Records, Slot, Control,
        NeverRefused, UnreadIntact, InputExhausted, input, slot, conn
<1>6. CASE PeerCloses
  <2>1. /\ phase = "process" /\ phase' = "copy" /\ peer_closed' = TRUE
        /\ buffered' = 0 /\ short' = 0
        /\ UNCHANGED <<input, slot, result, failed, decoded, ends, taken, head>>
    BY <1>6 DEF PeerCloses
  <2>2. TypeOK' BY <2>1, <1>0 DEF TypeOK, Phase, input, slot
  <2>3. Budget' BY <2>1, <1>0 DEF Budget, TypeOK, input
  <2> QED BY <2>1, <2>2, <2>3, <1>0 DEF IInv, Records, Slot, Control,
        NeverRefused, UnreadIntact, InputExhausted, input, slot
<1>7. CASE BadRecord
  <2>1. /\ phase = "process" /\ phase' = "copy" /\ result' = "native"
        /\ buffered' = 0 /\ short' = 0
        /\ UNCHANGED <<input, slot, conn, decoded, ends, taken, head>>
    BY <1>7 DEF BadRecord
  <2>2. TypeOK' BY <2>1, <1>0 DEF TypeOK, Phase, Result, input, slot, conn
  <2>3. Budget' BY <2>1, <1>0 DEF Budget, TypeOK, input
  <2> QED BY <2>1, <2>2, <2>3, <1>0 DEF IInv, Records, Slot, Control,
        NeverRefused, UnreadIntact, InputExhausted, input, slot, conn
<1>8. CASE CopyInPlace BY <1>8, InPlace
<1>9. CASE StageRecord BY <1>9, Staged
<1>10. CASE StagePrefix BY <1>10, Promoted
<1>11. CASE CopyEnds
  <2>1. /\ phase = "copy" /\ ends = <<>>
        /\ phase' = IF result = "ok" THEN "loop" ELSE "finish"
        /\ UNCHANGED <<input, slot, result, conn, native>>
    BY <1>11 DEF CopyEnds
  <2>2. TypeOK' BY <2>1, <1>0 DEF TypeOK, Phase, input, slot, conn, native
  <2> QED BY <2>1, <2>2, <1>0 DEF IInv, Records, Budget, Slot, Control,
        NeverRefused, UnreadIntact, InputExhausted, input, slot, conn, native
<1>12. CASE Publish
  <2>1. /\ phase = "finish" \/ (phase = "loop" /\ ~Goes)
        /\ failed' = (failed \/ result # "ok") /\ phase' = "idle"
        /\ UNCHANGED <<input, slot, result, peer_closed, native>>
    BY <1>12 DEF Publish
  <2>2. TypeOK'
    <3>1. failed' \in BOOLEAN BY <2>1
    <3> QED BY <3>1, <2>1, <1>0 DEF TypeOK, Phase, input, slot, native
  <2>3. InputExhausted'
    BY <2>1, <1>0 DEF InputExhausted, Control, Goes, input
  <2> QED BY <2>1, <2>2, <2>3, <1>0 DEF IInv, Records, Budget, Slot, Control,
        NeverRefused, UnreadIntact, input, slot, native
<1>13. CASE UNCHANGED vars
  BY <1>13, <1>0 DEF vars, IInv, TypeOK, Records, Budget, Slot, Control,
     NeverRefused, UnreadIntact, InputExhausted, input, slot, conn, native
<1> QED
  BY <1>1, <1>2, <1>3, <1>4, <1>5, <1>6, <1>7, <1>8, <1>9, <1>10, <1>11, <1>12,
     <1>13 DEF Next

\* What is published is 1..taken: the chunk's bytes, then the input's.
LEMMA PublishedShape == IInv => PublishedInOrder
<1> SUFFICES ASSUME IInv PROVE PublishedInOrder OBVIOUS
<1>1. /\ chunk \in Seq(Nat) /\ extent \in Nat /\ used \in 0..extent /\ len \in 0..used
      /\ cells \in [1..extent -> Nat] /\ Len(chunk) + len = taken
      /\ \A i \in 1..Len(chunk) : chunk[i] = i
      /\ \A i \in 1..len : cells[i] = Len(chunk) + i
  BY DEF IInv, TypeOK, Slot
<1> DEFINE prefix == SubSeq(cells, 1, len)
<1>2. prefix = [i \in 1..len |-> cells[i]] BY <1>1
<1>3. /\ prefix \in Seq(Nat) /\ Len(prefix) = len
      /\ \A i \in 1..len : prefix[i] = Len(chunk) + i
  BY <1>1, <1>2
<1> HIDE DEF prefix
<1>4. Published = chunk \o prefix BY DEF Published, prefix
<1>5. Len(Published) = taken
  <2>0. chunk \in Seq(Nat) /\ prefix \in Seq(Nat) BY <1>1, <1>3
  <2>1. Len(chunk \o prefix) = Len(chunk) + Len(prefix) BY <2>0
  <2> QED BY <2>1, <1>1, <1>3, <1>4
<1>6. ASSUME NEW i \in 1..taken PROVE Published[i] = i
  <2>1. CASE i <= Len(chunk) BY <2>1, <1>1, <1>3, <1>4
  <2>2. CASE i > Len(chunk)
    <3>1. i - Len(chunk) \in 1..len BY <2>2, <1>1
    <3>2. Published[i] = prefix[i - Len(chunk)] BY <2>2, <1>1, <1>3, <1>4
    <3> QED BY <3>1, <3>2, <1>1, <1>3
  <2> QED BY <2>1, <2>2, <1>1
<1> QED BY <1>5, <1>6 DEF PublishedInOrder

-----------------------------------------------------------------------------
(* What Input::owned guarantees *)

\* The inductive invariant of one connection's reads, for every record size,
\* every input and every slot that holds a record (input.rs, staged.rs).
THEOREM Invariance == Spec => []IInv
<1>1. Init => IInv BY InitInv
<1>2. IInv /\ [Next]_vars => IInv' BY NextInv
<1> QED BY <1>1, <1>2, PTL DEF Spec

\* The cursor of input.rs stays within what was consumed: 0 <= len <= used <=
\* extent, which its unchecked slicing relies on.
THEOREM TypeCorrect == Spec => []TypeOK
<1>1. IInv => TypeOK BY DEF IInv
<1> QED BY <1>1, Invariance, PTL

\* Neither guard against a second promotion nor the slot's capacity ever ends
\* a healthy connection (input.rs:103-117, staged.rs:21-31).
THEOREM Unrefused == Spec => []NeverRefused
<1>1. IInv => NeverRefused BY DEF IInv
<1> QED BY <1>1, Invariance, PTL

\* Unread ciphertext is never written over (input.rs:87-127).
THEOREM Intact == Spec => []UnreadIntact
<1>1. IInv => UnreadIntact BY DEF IInv
<1> QED BY <1>1, Invariance, PTL

\* The chunk and the prefix of the input together are exactly the plaintext
\* the native connection has handed over, in order (input.rs:54-71, 87-127).
THEOREM InOrder == Spec => []PublishedInOrder
<1> QED BY PublishedShape, Invariance, PTL

\* Nothing decoded stays behind when the call returns, whatever ended it.
THEOREM Complete == Spec => []NothingDecodedIsLost
<1>1. IInv => NothingDecodedIsLost
  BY DEF IInv, Control, Records, NothingDecodedIsLost
<1> QED BY <1>1, Invariance, PTL

\* The call leaves ciphertext unread only on a connection that is over.
THEOREM Exhausted == Spec => []InputExhausted
<1>1. IInv => InputExhausted BY DEF IInv
<1> QED BY <1>1, Invariance, PTL

==============================================================================
