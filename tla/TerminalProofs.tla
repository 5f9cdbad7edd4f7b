---------------------------- MODULE TerminalProofs ----------------------------
(***************************************************************************)
(* Last words leave, for any number of connections and slots and any size  *)
(* of them.  A connection's record is Good between calls and Whole within  *)
(* one: the argument is about one record, since calls of other connections *)
(* only decide whether a slot is found.                                    *)
(***************************************************************************)
EXTENDS Terminal, TLAPS

\* What holds within a call.
Whole(r) ==
    /\ r \in Connection
    /\ r.phase = "alive"
    /\ r.flight <= r.cursor
    /\ r.due <= r.cursor + r.native
    /\ r.terminal = "spent" => r.broken

\* Last words that are due are in the slot.
Carried(r) == r.due > 0 /\ ~r.broken => r.cursor > 0

\* In use, last words that are due are in the slot; a connection that is over
\* and has them elsewhere was not told to close, or is waiting.
Living(r) ==
    /\ Whole(r)
    /\ r.terminal = "no" => ~r.broken /\ ~r.closing
    /\ Carried(r) \/ (r.terminal # "no" /\ (r.closing => r.waiting))

Dead(r) ==
    /\ r \in Connection
    /\ r.phase # "alive"
    /\ r.flight = 0
    /\ r.due = 0 \/ r.broken

Good(r) == Living(r) \/ Dead(r)

IInv == conn \in [Conns -> Connection] /\ \A c \in Conns : Good(conn[c])

-----------------------------------------------------------------------------
(* The steps of a call *)

LEMMA DrainedWhole ==
    ASSUME NEW r, Whole(r), NEW d \in Drained(r)
    PROVE  /\ Whole(d) /\ Carried(d)
           /\ d.cursor >= r.cursor /\ d.closing = r.closing /\ d.flight = r.flight
           /\ ~d.broken => d.terminal = r.terminal
           /\ r.terminal # "no" => d.terminal # "no"
           /\ d.made = r.made /\ d.closed = r.closed
<1> USE CapAssumption
<1>0. /\ r.native \in Nat /\ r.cursor \in Nat /\ r.due \in Nat /\ r.flight \in Nat
      /\ r.due <= r.cursor + r.native /\ r.flight <= r.cursor
  BY DEF Whole, Connection
<1>1. /\ r \in Connection /\ r.native \in Nat /\ r.cursor \in 0..CursorCap
      /\ r.due \in Nat /\ r.flight \in 0..CursorCap /\ r.due <= r.cursor + r.native
      /\ r.flight <= r.cursor /\ r.terminal = "spent" => r.broken
      /\ r.phase = "alive"
  BY DEF Whole, Connection
<1>2. Fit(r) \in Nat /\ Fit(r) <= r.native /\ r.cursor + Fit(r) <= CursorCap
  BY <1>1 DEF Fit, Least
<1>3. r.cursor = 0 /\ r.native > 0 => Fit(r) > 0
  BY <1>1 DEF Fit, Least
<1>4. ASSUME NEW k \in 0..Fit(r)
      PROVE  /\ Moved(r, k) \in Connection
             /\ Moved(r, k).cursor = r.cursor + k /\ Moved(r, k).native = r.native - k
             /\ Moved(r, k).due = r.due /\ Moved(r, k).flight = r.flight
             /\ Moved(r, k).terminal = r.terminal /\ Moved(r, k).broken = r.broken
             /\ Moved(r, k).phase = r.phase /\ Moved(r, k).closing = r.closing
             /\ Moved(r, k).made = r.made /\ Moved(r, k).closed = r.closed
  <2>1. r.cursor + k \in 0..CursorCap /\ r.native - k \in Nat BY <1>1, <1>2
  <2> QED BY <2>1, <1>1 DEF Moved, Connection
<1>5. CASE \E k \in Moves(r) : d = Moved(r, k)
  <2>1. PICK k \in Moves(r) : d = Moved(r, k) BY <1>5
  <2>2. k \in 0..Fit(r) /\ (r.cursor = 0 => k = Fit(r)) BY <1>2, <2>1 DEF Moves
  <2>3. d.cursor = r.cursor + k /\ d.native = r.native - k /\ d.due = r.due
    BY <1>4, <2>1, <2>2
  <2>4. Whole(d) BY <1>1, <1>2, <1>4, <2>1, <2>2 DEF Whole
  <2>5. Carried(d) BY <1>1, <1>2, <1>3, <2>2, <2>3 DEF Carried
  <2>6. d.cursor >= r.cursor BY <1>1, <1>2, <2>2, <2>3
  <2> QED BY <2>1, <2>2, <2>4, <2>5, <2>6, <1>4
<1>6. CASE \E k \in 0..Fit(r) : d = [Moved(r, k) EXCEPT !.broken = TRUE, !.terminal = "spent"]
  <2>1. PICK k \in 0..Fit(r) : d = [Moved(r, k) EXCEPT !.broken = TRUE, !.terminal = "spent"]
    BY <1>6
  <2> DEFINE m == Moved(r, k)
  <2>2. /\ m \in Connection /\ m.cursor = r.cursor + k /\ m.native = r.native - k
        /\ m.due = r.due /\ m.flight = r.flight /\ m.phase = r.phase
        /\ m.closing = r.closing /\ m.made = r.made /\ m.closed = r.closed
    BY <1>4
  <2>3. d = [m EXCEPT !.broken = TRUE, !.terminal = "spent"] BY <2>1
  <2> HIDE DEF m
  <2>4. /\ d \in Connection /\ d.broken /\ d.cursor = m.cursor /\ d.native = m.native
        /\ d.due = m.due /\ d.flight = m.flight /\ d.phase = m.phase
        /\ d.closing = m.closing /\ d.made = m.made /\ d.closed = m.closed
    BY <2>2, <2>3 DEF Connection
  <2>5. /\ r.cursor + k >= r.cursor /\ r.flight <= r.cursor + k
        /\ r.due <= (r.cursor + k) + (r.native - k)
    <3>1. k \in Nat BY <1>2
    <3> QED BY <1>0, <3>1
  <2>6. d.terminal = "spent" BY <2>2, <2>3 DEF Connection
  <2> QED BY <2>2, <2>4, <2>5, <2>6, <1>1 DEF Whole, Carried
<1> QED BY <1>5, <1>6 DEF Drained

LEMMA FreeEmptyShape ==
    ASSUME NEW r, r \in Connection
    PROVE  /\ FreeEmpty(r) \in Connection
           /\ FreeEmpty(r).cursor = r.cursor /\ FreeEmpty(r).native = r.native
           /\ FreeEmpty(r).due = r.due /\ FreeEmpty(r).flight = r.flight
           /\ FreeEmpty(r).terminal = r.terminal /\ FreeEmpty(r).broken = r.broken
           /\ FreeEmpty(r).phase = r.phase /\ FreeEmpty(r).closing = r.closing
<1>1. (r.held /\ r.cursor > 0) \in BOOLEAN OBVIOUS
<1> QED BY <1>1 DEF FreeEmpty, Connection

LEMMA BufferedShape ==
    ASSUME NEW r, r \in Connection
    PROVE  /\ Buffered(r) \in Connection /\ ~Buffered(r).waiting
           /\ Buffered(r).cursor = r.cursor /\ Buffered(r).native = r.native
           /\ Buffered(r).due = r.due /\ Buffered(r).flight = r.flight
           /\ Buffered(r).terminal = r.terminal /\ Buffered(r).broken = r.broken
           /\ Buffered(r).phase = r.phase /\ Buffered(r).closing = r.closing
BY FreeEmptyShape, ZenonT(60) DEF Buffered, Connection

LEMMA BufferedWhole ==
    ASSUME NEW r, Whole(r)
    PROVE  Whole(Buffered(r)) /\ (Carried(r) => Carried(Buffered(r)))
BY BufferedShape DEF Whole, Carried

\* A send call of a connection that was in use.
LEMMA ReadyLiving ==
    ASSUME NEW d, Whole(d), Carried(d), ~d.broken => d.terminal = "no",
           NEW x \in Ready(d)
    PROVE  Living(x)
<1>1. CASE d.broken
  <2>1. PICK t \in {"drain", "spent"} :
            x = [Buffered([d EXCEPT !.terminal = t]) EXCEPT !.closing = [d EXCEPT !.terminal = t].broken]
    BY <1>1 DEF Ready, Offered
  <2> DEFINE e == [d EXCEPT !.terminal = t]
  <2>2. Whole(e) /\ e.broken /\ e.terminal # "no" BY <1>1 DEF Whole, Connection
  <2>3. x = [Buffered(e) EXCEPT !.closing = e.broken] BY <2>1
  <2> HIDE DEF e
  <2>4. Whole(Buffered(e)) BY <2>2, BufferedWhole
  <2>5. Buffered(e).broken /\ Buffered(e).terminal # "no" BY <2>2, BufferedShape DEF Whole
  <2>6. Whole(x) /\ x.broken /\ x.terminal # "no"
    BY <2>2, <2>3, <2>4, <2>5, ZenonT(60) DEF Whole, Connection
  <2> QED BY <2>6 DEF Living, Carried
<1>2. CASE ~d.broken
  <2>1. x = [Buffered(d) EXCEPT !.closing = d.broken] BY <1>2 DEF Ready, Offered
  <2>2. Whole(Buffered(d)) /\ Carried(Buffered(d)) BY BufferedWhole
  <2>3. ~Buffered(d).broken /\ Buffered(d).terminal = "no" BY <1>2, BufferedShape DEF Whole
  <2>4. Whole(x) /\ Carried(x) /\ ~x.broken /\ ~x.closing
    BY <1>2, <2>1, <2>2, <2>3 DEF Whole, Carried, Connection
  <2> QED BY <2>4 DEF Living
<1> QED BY <1>1, <1>2

LEMMA WaitsLiving ==
    ASSUME NEW r, Living(r)
    PROVE  Living(Waits(r))
<1>1. Whole(r) BY DEF Living
<1>2. /\ Waits(r) \in Connection /\ Waits(r).waiting
      /\ Waits(r).cursor = r.cursor /\ Waits(r).native = r.native
      /\ Waits(r).due = r.due /\ Waits(r).flight = r.flight
      /\ Waits(r).terminal = r.terminal /\ Waits(r).broken = r.broken
      /\ Waits(r).phase = r.phase /\ Waits(r).closing = r.closing
  BY <1>1 DEF Waits, Connection, Whole
<1> QED BY <1>1, <1>2 DEF Living, Whole, Carried

LEMMA LastWordWhole ==
    ASSUME NEW r, Whole(r)
    PROVE  /\ Whole(LastWord(r)) /\ LastWord(r).terminal = r.terminal
           /\ LastWord(r).broken = r.broken /\ LastWord(r).closing = r.closing
           /\ LastWord(r).cursor = r.cursor
<1>1. /\ r.native + 1 \in Nat /\ r.cursor + r.native + 1 \in Nat
      /\ r.cursor + r.native + 1 <= r.cursor + (r.native + 1)
  BY DEF Whole, Connection
<1> QED BY <1>1, ZenonT(60) DEF LastWord, Whole, Connection

LEMMA TakenWhole ==
    ASSUME NEW r, Whole(r), NEW n \in 1..r.flight
    PROVE  /\ Whole(Taken(r, n)) /\ Taken(r, n).terminal = r.terminal
           /\ Taken(r, n).broken = r.broken /\ Taken(r, n).closing = r.closing
           /\ Taken(r, n).flight = 0
<1> DEFINE due == IF r.due < n THEN 0 ELSE r.due - n
<1>1. /\ r.cursor - n \in 0..CursorCap /\ due \in Nat /\ 0 \in 0..CursorCap
      /\ due <= (r.cursor - n) + r.native /\ 0 <= r.cursor - n
  BY CapAssumption DEF Whole, Connection
<1>2. Taken(r, n) = [r EXCEPT !.flight = 0, !.cursor = r.cursor - n, !.due = due]
  BY DEF Taken, Whole, Connection
<1> HIDE DEF due
<1> QED BY <1>1, <1>2, ZenonT(60) DEF Whole, Connection

\* A completion that empties the cursor refills it.
LEMMA RefillWhole ==
    ASSUME NEW r, Whole(r), NEW d \in Refill(r)
    PROVE  /\ Whole(d) /\ Carried(d) /\ d.closing = r.closing
           /\ ~d.broken => d.terminal = r.terminal
           /\ r.terminal # "no" => d.terminal # "no"
<1>1. CASE r.cursor = 0
  BY <1>1, DrainedWhole DEF Refill
<1>2. CASE r.cursor # 0
  BY <1>2 DEF Refill, Carried, Whole, Connection
<1> QED BY <1>1, <1>2

LEMMA EndedLiving ==
    ASSUME NEW r, Whole(r), r.terminal # "no", NEW x \in Ended(r)
    PROVE  Living(x)
<1> DEFINE told == [r EXCEPT !.closing = TRUE]
<1>1. /\ Whole(told) /\ told.terminal = r.terminal /\ told.native = r.native
      /\ told.closing
  BY DEF Whole, Connection
<1>2. /\ x \in Ended(r)
      /\ Ended(r) = IF r.terminal = "spent" \/ r.native = 0
                    THEN {Buffered(told)}
                    ELSE IF ~CanBuffer(r) THEN {Waits(told)}
                    ELSE {Buffered(d) : d \in Refill(told)}
  BY DEF Ended
<1> HIDE DEF told
<1>3. ASSUME NEW d, Whole(d), Carried(d), d.terminal # "no"
      PROVE  Living(Buffered(d))
  <2>1. Whole(Buffered(d)) /\ Carried(Buffered(d)) BY <1>3, BufferedWhole
  <2>2. Buffered(d).terminal # "no" BY <1>3, BufferedShape DEF Whole
  <2> QED BY <2>1, <2>2 DEF Living
<1>4. CASE r.terminal = "spent" \/ r.native = 0
  <2>1. Carried(told) BY <1>1, <1>4 DEF Carried, Whole, Connection
  <2> QED BY <1>1, <1>2, <1>3, <1>4, <2>1
<1>5. CASE ~(r.terminal = "spent" \/ r.native = 0) /\ ~CanBuffer(r)
  <2>1. x = Waits(told) BY <1>2, <1>5
  <2>2. Whole(x) /\ x.waiting /\ x.terminal # "no"
    BY <1>1, <2>1 DEF Waits, Whole, Connection
  <2> QED BY <2>2 DEF Living
<1>6. CASE ~(r.terminal = "spent" \/ r.native = 0) /\ CanBuffer(r)
  <2>1. PICK d \in Refill(told) : x = Buffered(d) BY <1>2, <1>6
  <2>2. Whole(d) /\ Carried(d) /\ d.terminal # "no" BY <1>1, RefillWhole
  <2> QED BY <1>3, <2>1, <2>2
<1> QED BY <1>4, <1>5, <1>6
-----------------------------------------------------------------------------
(* Every call *)

LEMMA BecomesGood ==
    ASSUME IInv, NEW c \in Conns, NEW set, Becomes(c, set), \A r \in set : Good(r)
    PROVE  IInv'
<1>1. PICK r \in set : conn' = [conn EXCEPT ![c] = r] BY DEF Becomes
<1>2. r \in Connection BY <1>1 DEF Good, Living, Whole, Dead
<1> QED BY <1>1, <1>2 DEF IInv

LEMMA AliveShape ==
    ASSUME IInv, NEW c \in Conns, Alive(c)
    PROVE  /\ Living(conn[c]) /\ Whole(conn[c]) /\ Carried(conn[c])
           /\ ~conn[c].broken /\ ~conn[c].closing /\ conn[c].terminal = "no"
BY DEF IInv, Good, Living, Dead, Alive

LEMMA EndingShape ==
    ASSUME IInv, NEW c \in Conns, Ending(c)
    PROVE  Living(conn[c]) /\ Whole(conn[c]) /\ conn[c].terminal # "no"
BY DEF IInv, Good, Living, Dead, Ending

LEMMA ProducesWhole ==
    ASSUME NEW r, Whole(r), NEW n \in 0..(MaxUnits - r.made)
    PROVE  /\ Whole(Produces(r, n)) /\ Produces(r, n).cursor = r.cursor
           /\ Produces(r, n).due = r.due /\ Produces(r, n).broken = r.broken
           /\ Produces(r, n).terminal = r.terminal /\ Produces(r, n).closing = r.closing
<1>1. /\ r.native + n \in Nat /\ r.made + n \in 0..MaxUnits
      /\ r.cursor + r.native <= r.cursor + (r.native + n)
  BY BoundAssumption DEF Whole, Connection
<1>2. r.due <= r.cursor + (r.native + n) BY <1>1 DEF Whole, Connection
<1> QED BY <1>1, <1>2 DEF Produces, Whole, Connection

LEMMA ReceiveGood ==
    ASSUME IInv, NEW c \in Conns, Receive(c)
    PROVE  IInv'
<1> DEFINE old == conn[c]
<1>1. PICK n \in 0..(MaxUnits - old.made), fails \in BOOLEAN, alert \in BOOLEAN, done \in BOOLEAN :
        LET out == Produces([old EXCEPT !.open = @ \/ done], n)
            end == IF fails /\ alert THEN LastWord(out) ELSE out
            new == IF fails THEN [end EXCEPT !.terminal = "drain"] ELSE end
        IN IF ~old.open /\ old.flight = 0
           THEN /\ CanBuffer(old)
                /\ \E d \in Drained(new) : Becomes(c, Offered(FreeEmpty(d)))
           ELSE Becomes(c, {new})
  BY DEF Receive
<1> DEFINE up  == [old EXCEPT !.open = @ \/ done]
           out == Produces(up, n)
           end == IF fails /\ alert THEN LastWord(out) ELSE out
           new == IF fails THEN [end EXCEPT !.terminal = "drain"] ELSE end
<1>2. /\ Whole(old) /\ Carried(old) /\ ~old.broken /\ ~old.closing /\ old.terminal = "no"
  BY AliveShape DEF Receive
<1>3. /\ Whole(up) /\ up.made = old.made /\ up.due = old.due /\ up.cursor = old.cursor
      /\ ~up.broken /\ ~up.closing /\ up.terminal = "no"
  <2>1. (old.open \/ done) \in BOOLEAN OBVIOUS
  <2> QED BY <2>1, <1>2 DEF Whole, Connection
<1> HIDE DEF up
<1>4. /\ Whole(out) /\ out.due = old.due /\ out.cursor = old.cursor
      /\ ~out.broken /\ ~out.closing /\ out.terminal = "no"
  BY <1>1, <1>3, ProducesWhole
<1> HIDE DEF out
<1>5. /\ Whole(end) /\ ~end.broken /\ ~end.closing /\ end.terminal = "no"
      /\ ~fails => Carried(end)
  BY <1>2, <1>4, LastWordWhole DEF Carried
<1> HIDE DEF end
<1>6. /\ Whole(new) /\ ~new.broken /\ ~new.closing
      /\ new.terminal = IF fails THEN "drain" ELSE "no"
      /\ ~fails => Carried(new)
  BY <1>5 DEF Whole, Connection
<1>7. IF ~old.open /\ old.flight = 0
      THEN \E d \in Drained(new) : Becomes(c, Offered(FreeEmpty(d)))
      ELSE Becomes(c, {new})
  BY <1>1 DEF up, out, end
<1> HIDE DEF new
<1>8. CASE ~old.open /\ old.flight = 0
  <2>1. PICK d \in Drained(new) : Becomes(c, Offered(FreeEmpty(d))) BY <1>7, <1>8
  <2>2. /\ Whole(d) /\ Carried(d) /\ ~d.closing
        /\ ~d.broken => d.terminal = new.terminal
    BY <1>6, DrainedWhole
  <2>3. ASSUME NEW x \in Offered(FreeEmpty(d)) PROVE Good(x)
    <3> DEFINE f == FreeEmpty(d)
    <3>1. /\ f \in Connection /\ f.cursor = d.cursor /\ f.native = d.native
          /\ f.due = d.due /\ f.flight = d.flight /\ f.terminal = d.terminal
          /\ f.broken = d.broken /\ f.phase = d.phase /\ f.closing = d.closing
      BY <2>2, FreeEmptyShape DEF Whole
    <3> HIDE DEF f
    <3>2. Whole(f) /\ Carried(f) /\ ~f.closing /\ (~f.broken => f.terminal = new.terminal)
      BY <2>2, <3>1 DEF Whole, Carried
    <3>3. x \in Offered(f) BY DEF f
    <3>4. CASE f.broken
      <4>1. PICK t \in {"drain", "spent"} : x = [f EXCEPT !.terminal = t]
        BY <3>3, <3>4 DEF Offered
      <4>2. Whole(x) /\ x.broken /\ x.terminal # "no" BY <3>2, <3>4, <4>1 DEF Whole, Connection
      <4> QED BY <4>2 DEF Good, Living, Carried
    <3>5. CASE ~f.broken
      <4>1. x = f BY <3>3, <3>5 DEF Offered
      <4> QED BY <3>2, <3>5, <4>1 DEF Good, Living
    <3> QED BY <3>4, <3>5
  <2> QED BY <2>1, <2>3, BecomesGood
<1>9. CASE ~(~old.open /\ old.flight = 0)
  <2>1. Becomes(c, {new}) BY <1>7, <1>9
  <2>2. Good(new) BY <1>6 DEF Good, Living
  <2> QED BY <2>1, <2>2, BecomesGood
<1> QED BY <1>8, <1>9

LEMMA SendGood ==
    ASSUME IInv, NEW c \in Conns, Send(c)
    PROVE  IInv'
<1> DEFINE old == conn[c]
<1>1. /\ Living(old) /\ Whole(old) /\ Carried(old)
      /\ ~old.broken /\ ~old.closing /\ old.terminal = "no"
  BY AliveShape DEF Send
<1>2. PICK n \in 0..(MaxUnits - old.made) :
        IF ~CanBuffer(old)
        THEN Becomes(c, {Waits(old)})
        ELSE \E d \in Drained(old) :
                IF n > 0 /\ d.native = 0 /\ d.cursor < CursorCap /\ ~d.broken
                THEN \E s \in Drained(Produces(d, n)) : Becomes(c, Ready(s))
                ELSE Becomes(c, Ready(d))
  BY DEF Send
<1> HIDE DEF old
<1>3. CASE ~CanBuffer(old)
  <2>1. Becomes(c, {Waits(old)}) BY <1>2, <1>3
  <2>2. Good(Waits(old)) BY <1>1, WaitsLiving DEF Good
  <2> QED BY <2>1, <2>2, BecomesGood
<1>4. CASE CanBuffer(old)
  <2>1. PICK d \in Drained(old) :
            IF n > 0 /\ d.native = 0 /\ d.cursor < CursorCap /\ ~d.broken
            THEN \E s \in Drained(Produces(d, n)) : Becomes(c, Ready(s))
            ELSE Becomes(c, Ready(d))
    BY <1>2, <1>4
  <2>2. /\ Whole(d) /\ Carried(d) /\ d.made = old.made
        /\ ~d.broken => d.terminal = "no"
    BY <1>1, <2>1, DrainedWhole
  <2>3. CASE n > 0 /\ d.native = 0 /\ d.cursor < CursorCap /\ ~d.broken
    <3>1. PICK s \in Drained(Produces(d, n)) : Becomes(c, Ready(s)) BY <2>1, <2>3
    <3>2. Whole(Produces(d, n)) /\ Produces(d, n).terminal = "no"
      BY <1>2, <2>2, <2>3, ProducesWhole
    <3>3. Whole(s) /\ Carried(s) /\ (~s.broken => s.terminal = "no")
      BY <3>1, <3>2, DrainedWhole
    <3>4. \A x \in Ready(s) : Good(x) BY <3>3, ReadyLiving DEF Good
    <3> QED BY <3>1, <3>4, BecomesGood
  <2>4. CASE ~(n > 0 /\ d.native = 0 /\ d.cursor < CursorCap /\ ~d.broken)
    <3>1. Becomes(c, Ready(d)) BY <2>1, <2>4
    <3>2. \A x \in Ready(d) : Good(x) BY <2>2, ReadyLiving DEF Good
    <3> QED BY <3>1, <3>2, BecomesGood
  <2> QED BY <2>3, <2>4
<1> QED BY <1>3, <1>4

LEMMA CloseGood ==
    ASSUME IInv, NEW c \in Conns, Close(c)
    PROVE  IInv'
<1> DEFINE old == [conn[c] EXCEPT !.bye = TRUE]
           end == Sealed(old)
<1>1. /\ Living(conn[c]) /\ Whole(conn[c]) /\ Carried(conn[c])
      /\ ~conn[c].broken /\ ~conn[c].closing /\ conn[c].terminal = "no"
  BY AliveShape DEF Close
<1>2. IF ~CanBuffer(old)
      THEN Becomes(c, {Waits(old)})
      ELSE \E d \in Drained(end) : Becomes(c, Ready(d))
  BY DEF Close
<1>3. Whole(old) /\ Carried(old) /\ ~old.broken /\ ~old.closing /\ old.terminal = "no"
  BY <1>1 DEF Whole, Carried, Connection
<1> HIDE DEF old
<1>4. Whole(end) /\ end.terminal = "no"
  <2> DEFINE w == LastWord(old)
  <2>1. Whole(w) /\ w.terminal = "no" BY <1>3, LastWordWhole
  <2>2. end = old \/ end = [w EXCEPT !.closed = TRUE] BY DEF Sealed
  <2> HIDE DEF w, end
  <2> QED BY <1>3, <2>1, <2>2 DEF Whole, Connection
<1> HIDE DEF end
<1>5. CASE ~CanBuffer(old)
  <2>1. Living(old) BY <1>3 DEF Living
  <2>2. Becomes(c, {Waits(old)}) /\ Good(Waits(old))
    BY <1>2, <1>5, <2>1, WaitsLiving DEF Good
  <2> QED BY <2>2, BecomesGood
<1>6. CASE CanBuffer(old)
  <2>1. PICK d \in Drained(end) : Becomes(c, Ready(d)) BY <1>2, <1>6
  <2>2. Whole(d) /\ Carried(d) /\ (~d.broken => d.terminal = "no")
    BY <1>4, <2>1, DrainedWhole
  <2>3. \A x \in Ready(d) : Good(x) BY <2>2, ReadyLiving DEF Good
  <2> QED BY <2>1, <2>3, BecomesGood
<1> QED BY <1>5, <1>6

LEMMA AfterSendGood ==
    ASSUME IInv, NEW c \in Conns, AfterSend(c)
    PROVE  IInv'
<1> DEFINE old == conn[c]
<1>1. Whole(old) /\ old.terminal = "no" BY AliveShape DEF AfterSend
<1>2. PICK n \in 1..old.flight : \E d \in Refill(Taken(old, n)) : Becomes(c, Ready(d))
  BY DEF AfterSend
<1> HIDE DEF old
<1>3. PICK d \in Refill(Taken(old, n)) : Becomes(c, Ready(d)) BY <1>2
<1>4. Whole(Taken(old, n)) /\ Taken(old, n).terminal = "no" BY <1>1, <1>2, TakenWhole
<1>5. Whole(d) /\ Carried(d) /\ (~d.broken => d.terminal = "no")
  BY <1>3, <1>4, RefillWhole
<1>6. \A x \in Ready(d) : Good(x) BY <1>5, ReadyLiving DEF Good
<1> QED BY <1>3, <1>6, BecomesGood

LEMMA SubmitGood ==
    ASSUME IInv, NEW c \in Conns, Submit(c)
    PROVE  IInv'
<1> DEFINE new == [conn[c] EXCEPT !.flight = conn[c].cursor]
<1>1. Living(conn[c]) BY DEF IInv, Good, Dead, Submit
<1>2. Good(new) BY <1>1 DEF Good, Living, Whole, Carried, Connection
<1> QED BY <1>2, BecomesGood DEF Submit

LEMMA EndsGood ==
    ASSUME IInv, NEW c \in Conns, PrepareDrain(c) \/ Settle(c)
    PROVE  IInv'
<1> DEFINE old == conn[c]
<1>1. Whole(old) /\ old.terminal # "no" BY EndingShape DEF PrepareDrain, Settle
<1>2. CASE PrepareDrain(c)
  <2>1. \A x \in Ended(old) : Good(x) BY <1>1, EndedLiving DEF Good
  <2> QED BY <1>2, <2>1, BecomesGood DEF PrepareDrain
<1>3. CASE Settle(c)
  <2>1. PICK n \in 1..old.flight : Becomes(c, Ended(Taken(old, n))) BY <1>3 DEF Settle
  <2> HIDE DEF old
  <2>2. Whole(Taken(old, n)) /\ Taken(old, n).terminal # "no" BY <1>1, <2>1, TakenWhole
  <2>3. \A x \in Ended(Taken(old, n)) : Good(x) BY <2>2, EndedLiving DEF Good
  <2> QED BY <2>1, <2>3, BecomesGood
<1> QED BY <1>2, <1>3

LEMMA FreshIsConnection == Fresh \in Connection
BY CapAssumption, BoundAssumption DEF Fresh, Connection

LEMMA FreshShape ==
    /\ Fresh.phase = "alive" /\ Fresh.flight = 0 /\ Fresh.cursor = 0
    /\ Fresh.due = 0 /\ Fresh.native = 0 /\ Fresh.terminal = "no"
    /\ ~Fresh.broken /\ ~Fresh.closing
BY DEF Fresh

LEMMA OverGood ==
    ASSUME IInv, NEW c \in Conns, WriteShutdown(c) \/ HangUp(c)
    PROVE  IInv'
<1> DEFINE r == conn[c]
<1>1. Living(r) /\ r \in Connection
  BY AliveShape, EndingShape DEF WriteShutdown, HangUp, Living, Whole
<1>2. r.due = 0 \/ r.broken
  <2>1. CASE WriteShutdown(c)
    BY <1>1, <2>1, AliveShape DEF WriteShutdown, NothingLeft, Carried, Connection
  <2>2. CASE HangUp(c)
    BY <1>1, <2>2 DEF HangUp, NothingLeft, Living, Carried, Connection
  <2> QED BY <2>1, <2>2
<1>3. ASSUME NEW phase \in {"shut", "gone"} PROVE Good(Over(r, phase))
  <2>1. /\ Over(r, phase) \in Connection /\ Over(r, phase).phase = phase
        /\ Over(r, phase).flight = 0 /\ Over(r, phase).due = r.due
        /\ Over(r, phase).broken = r.broken
    BY <1>1, FreshIsConnection, FreshShape DEF Over, Connection
  <2> QED BY <1>2, <2>1 DEF Good, Dead
<1> QED BY <1>3, BecomesGood DEF WriteShutdown, HangUp

-----------------------------------------------------------------------------
(* What is promised *)

LEMMA InitInv == Init => IInv
<1> SUFFICES ASSUME Init PROVE IInv OBVIOUS
<1>1. Living(Fresh) BY FreshIsConnection, FreshShape DEF Living, Whole, Carried
<1> QED BY <1>1, FreshIsConnection DEF Init, IInv, Good

LEMMA NextInv == IInv /\ [Next]_conn => IInv'
<1> SUFFICES ASSUME IInv, [Next]_conn PROVE IInv' OBVIOUS
<1>1. CASE Next
  <2>1. PICK c \in Conns :
        \/ Receive(c) \/ Send(c) \/ Close(c) \/ Submit(c) \/ AfterSend(c)
        \/ PrepareDrain(c) \/ Settle(c) \/ WriteShutdown(c) \/ HangUp(c)
    BY <1>1 DEF Next
  <2> QED BY <2>1, ReceiveGood, SendGood, CloseGood, SubmitGood, AfterSendGood, EndsGood,
             OverGood
<1>2. CASE UNCHANGED conn BY <1>2 DEF IInv
<1> QED BY <1>1, <1>2

\* The inductive invariant: every record is Good between calls (senders.rs,
\* protocol.rs).
THEOREM Invariance == Spec => []IInv
<1>1. Init => IInv BY InitInv
<1>2. IInv /\ [Next]_conn => IInv' BY NextInv
<1> QED BY <1>1, <1>2, PTL DEF Spec

\* Counts and flags are what their names say, and what is in the kernel is in
\* the cursor.
THEOREM TypeCorrect == Spec => []TypeOK
<1>1. IInv => TypeOK
  <2> SUFFICES ASSUME IInv, NEW c \in Conns
               PROVE  /\ conn[c].flight <= conn[c].cursor
                      /\ conn[c].phase = "alive" => conn[c].due <= conn[c].cursor + conn[c].native
    BY DEF TypeOK, IInv
  <2>1. Good(conn[c]) /\ conn[c] \in Connection BY DEF IInv
  <2> QED BY <2>1 DEF Good, Living, Whole, Dead, Connection
<1> QED BY <1>1, Invariance, PTL

\* Nobody is hung up on before the alert or close_notify it owes has left,
\* unless draining failed, for any number of connections competing for slots
\* (senders.rs:208-288, protocol.rs:131-153).
THEOREM WordsLeave == Spec => []LastWordsLeave
<1>1. IInv => LastWordsLeave BY DEF IInv, Good, Living, Whole, Dead, LastWordsLeave
<1> QED BY <1>1, Invariance, PTL
=============================================================================
