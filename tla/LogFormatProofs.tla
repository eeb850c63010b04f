--------------------------- MODULE LogFormatProofs ---------------------------
(***************************************************************************)
(* The safety properties of LogFormat, for every size of blocks, headers,  *)
(* regions and records.                                                    *)
(*                                                                         *)
(* NoPhantom, for any number of failed appends, and wherever the file is   *)
(* cut, loses a block or cannot be read.  Two whole fragments of a file    *)
(* do not overlap, because the first cell of a header is in no other place *)
(* of a fragment.  So less than a header before a fragment that is not the *)
(* first of its record only one fragment can end, and there the writer had *)
(* put the one before.  What a crash leaves has no header or payload that  *)
(* was not there.                                                          *)
(*                                                                         *)
(* ReadBack and CleanIsSilent, for files without a failed append or read.  *)
(* Writer and reader agree on where blocks begin: the reader that is       *)
(* behind a fragment finds the one that the writer put next, and where it  *)
(* finds none there is none.                                               *)
(***************************************************************************)
EXTENDS LogFormat, FiniteSetTheorems, SequenceTheorems, TLAPS

-----------------------------------------------------------------------------
(* The inductive invariant.                                                *)

\* The fragment whose header begins after position a of the file is whole, and its end.
Opens(c) == c.kind = "header" /\ c.i = 1
Until(f, a) == a + HeaderSize + f[a + 1].len
Whole(f, a) ==
  /\ a < Len(f) /\ Opens(f[a + 1]) /\ Until(f, a) <= Len(f)
  /\ \A i \in 1..HeaderSize :
       f[a + i] = HeaderCell(f[a + 1].r, i, f[a + 1].type, f[a + 1].at, f[a + 1].len)
  /\ \A i \in 1..f[a + 1].len :
       f[a + HeaderSize + i] = Byte(f[a + 1].r, f[a + 1].at + i)

\* A header is of a record that was passed to AddRecord(), and its type says where in the
\* record the fragment is.
Headers(f) ==
  \A p \in 1..Len(f) : Opens(f[p]) =>
    /\ f[p].r \in DOMAIN records
    /\ f[p].type \in {"full", "first"} => f[p].at = 0
    /\ f[p].type \in {"full", "last"} => f[p].at + f[p].len = records[f[p].r]

\* A fragment that is not the first of its record comes less than a header behind the one
\* before it: whatever whole fragment ends there is that one.
Continues(f, a, p) ==
  f[p + 1].r = f[a + 1].r /\ f[p + 1].at = f[a + 1].at + f[a + 1].len
Chained(f) ==
  \A a, p \in 0..(Len(f) - 1) :
    /\ Whole(f, a) /\ Until(f, a) <= p /\ p < Until(f, a) + HeaderSize
    /\ Opens(f[p + 1]) /\ f[p + 1].type \in {"middle", "last"}
    => Continues(f, a, p)

\* AddRecord() between two fragments: the last one is at the end of the file.
WriterInv ==
  done >= 0 =>
    /\ Len(records) > 0 /\ done <= records[Len(records)]
    /\ begin => done = 0
    /\ phase = "write" /\ ~begin =>
         \E a \in 0..(Len(file) - 1) :
           /\ Whole(file, a) /\ Until(file, a) = Len(file)
           /\ file[a + 1].r = Len(records)
           /\ file[a + 1].at + file[a + 1].len = done

\* Where the reader is in the file.  A record that it has begun consists of what comes up
\* to the fragment behind which it stands, but for a trailer.
Position == next - Len(buffer_)
ReaderInv ==
  /\ Len(buffer_) <= next
  /\ \A i \in 1..Len(buffer_) : buffer_[i] = file[Position + i]
  /\ phase = "write" => next = 0 /\ ~in_fragmented_record
  /\ in_fragmented_record /\ phase = "read" =>
       \E a \in 0..(Len(file) - 1) :
         /\ Whole(file, a)
         /\ scratch = Payload(file[a + 1].r, 0, file[a + 1].at + file[a + 1].len)
         /\ \/ Position = Until(file, a)
            \/ /\ Until(file, a) <= Position /\ Position < Until(file, a) + HeaderSize
               /\ Len(buffer_) >= HeaderSize \/ eof_

LogInv ==
  NoPhantom /\ Headers(file) /\ Chained(file) /\ WriterInv /\ ReaderInv

-----------------------------------------------------------------------------
(* Cells.                                                                  *)

LEMMA Sizing ==
  /\ HeaderSize \in Nat /\ HeaderSize >= 1
  /\ BlockSize \in Nat /\ BlockSize > HeaderSize
  /\ RegionSize \in Nat /\ RegionSize >= 1
  /\ Sizes \subseteq Nat /\ MaxRecords \in Nat /\ MaxFaults \in Nat
BY LogAssumption

LEMMA CellIs ==
  ASSUME NEW c \in Cell
  PROVE  c.r \in Nat /\ c.i \in Nat /\ c.at \in Nat /\ c.len \in Nat
BY DEF Cell

LEMMA ZeroIs == Zero \in Cell /\ Zero.kind = "zero"
BY DEF Zero, Cell

LEMMA ByteIs ==
  ASSUME NEW r \in Nat, NEW i \in Nat
  PROVE  Byte(r, i) \in Cell /\ Byte(r, i).kind = "byte"
BY DEF Byte, Zero, Cell

LEMMA HeaderCellIs ==
  ASSUME NEW r \in Nat, NEW i \in Nat, NEW type \in RecordType \cup {"zero"},
         NEW at \in Nat, NEW len \in Nat
  PROVE  /\ HeaderCell(r, i, type, at, len) \in Cell
         /\ HeaderCell(r, i, type, at, len).kind = "header"
         /\ HeaderCell(r, i, type, at, len).r = r
         /\ HeaderCell(r, i, type, at, len).i = i
         /\ HeaderCell(r, i, type, at, len).type = type
         /\ HeaderCell(r, i, type, at, len).at = at
         /\ HeaderCell(r, i, type, at, len).len = len
BY DEF HeaderCell, Cell

LEMMA FileCell ==
  ASSUME NEW f \in Seq(Cell), NEW p \in 1..Len(f)
  PROVE  /\ f[p] \in Cell /\ f[p].r \in Nat /\ f[p].i \in Nat
         /\ f[p].at \in Nat /\ f[p].len \in Nat
         /\ f[p].type \in RecordType \cup {"zero"}
<1>1. f[p] \in Cell
  OBVIOUS
<1>2. f[p].type \in RecordType \cup {"zero"}
  BY <1>1 DEF Cell
<1> QED
  BY <1>1, <1>2, CellIs

-----------------------------------------------------------------------------
(* Whole fragments.                                                        *)

\* Only the first cell of a fragment opens one, and none is zero.
LEMMA WholeCells ==
  ASSUME NEW f \in Seq(Cell), NEW a \in Nat, Whole(f, a)
  PROVE  /\ f[a + 1].len \in Nat /\ f[a + 1].at \in Nat /\ f[a + 1].r \in Nat
         /\ Until(f, a) \in Nat /\ Until(f, a) = a + HeaderSize + f[a + 1].len
         /\ a < Until(f, a) /\ Until(f, a) <= Len(f)
         /\ \A p \in Nat : a < p /\ p <= Until(f, a) =>
              f[p] # Zero /\ (p # a + 1 => ~Opens(f[p]))
<1> DEFINE c == f[a + 1]
<1>1. /\ c.len \in Nat /\ c.at \in Nat /\ c.r \in Nat
      /\ c.type \in RecordType \cup {"zero"}
  <2>1. a + 1 \in 1..Len(f)
    BY DEF Whole
  <2> QED
    BY <2>1, FileCell
<1>2. /\ Until(f, a) = a + HeaderSize + c.len /\ Until(f, a) <= Len(f)
      /\ Until(f, a) \in Nat /\ a < Until(f, a)
  BY <1>1, Sizing DEF Until, Whole
<1>3. ASSUME NEW i \in 1..HeaderSize
      PROVE  f[a + i].kind = "header" /\ f[a + i].i = i
  <2>1. f[a + i] = HeaderCell(c.r, i, c.type, c.at, c.len)
    BY DEF Whole
  <2> QED
    BY <2>1 DEF HeaderCell
<1>4. ASSUME NEW i \in 1..c.len
      PROVE  f[a + HeaderSize + i].kind = "byte"
  <2>1. f[a + HeaderSize + i] = Byte(c.r, c.at + i)
    BY DEF Whole
  <2>2. c.at + i \in Nat
    BY <1>1
  <2> QED
    BY <1>1, <2>1, <2>2, ByteIs
<1>5. ASSUME NEW p \in Nat, a < p, p <= Until(f, a)
      PROVE  f[p] # Zero /\ (p # a + 1 => ~Opens(f[p]))
  <2>1. CASE p <= a + HeaderSize
    <3>1. PICK i \in 1..HeaderSize : p = a + i
      <4>1. p - a \in 1..HeaderSize /\ p = a + (p - a)
        BY <1>5, <2>1, Sizing
      <4> QED
        BY <4>1
    <3>2. f[p].kind = "header" /\ f[p].i = i
      BY <1>3, <3>1
    <3>3. p # a + 1 => i # 1
      BY <3>1
    <3> QED
      BY <3>2, <3>3, ZeroIs DEF Opens
  <2>2. CASE p > a + HeaderSize
    <3>1. PICK i \in 1..c.len : p = a + HeaderSize + i
      <4>1. p - a - HeaderSize \in 1..c.len /\ p = a + HeaderSize + (p - a - HeaderSize)
        BY <1>1, <1>2, <1>5, <2>2, Sizing
      <4> QED
        BY <4>1
    <3>2. f[p].kind = "byte"
      BY <1>4, <3>1
    <3> QED
      BY <3>2, ZeroIs DEF Opens
  <2> QED
    BY <2>1, <2>2, Sizing
<1> QED
  BY <1>1, <1>2, <1>5

\* A whole fragment that ends inside another one is that one.
LEMMA Overlap ==
  ASSUME NEW f \in Seq(Cell), NEW a \in Nat, NEW s \in Nat, Whole(f, a), Whole(f, s),
         s < Until(f, a), Until(f, a) <= Until(f, s)
  PROVE  a = s
<1>1. /\ Until(f, a) \in Nat /\ a < Until(f, a)
      /\ \A p \in Nat : a < p /\ p <= Until(f, a) => (p # a + 1 => ~Opens(f[p]))
  BY WholeCells
<1>2. /\ Until(f, s) \in Nat /\ s < Until(f, s)
      /\ \A p \in Nat : s < p /\ p <= Until(f, s) => (p # s + 1 => ~Opens(f[p]))
  BY WholeCells
<1>3. Opens(f[a + 1]) /\ Opens(f[s + 1])
  BY DEF Whole
<1>4. ~(a < s)
  <2> SUFFICES ASSUME a < s PROVE FALSE
    OBVIOUS
  <2>1. s + 1 \in Nat /\ a < s + 1 /\ s + 1 <= Until(f, a) /\ s + 1 # a + 1
    BY <1>1
  <2> QED
    BY <1>1, <1>3, <2>1
<1>5. ~(s < a)
  <2> SUFFICES ASSUME s < a PROVE FALSE
    OBVIOUS
  <2>1. a + 1 \in Nat /\ s < a + 1 /\ a + 1 <= Until(f, s) /\ a + 1 # s + 1
    BY <1>1, <1>2
  <2> QED
    BY <1>2, <1>3, <2>1
<1> QED
  BY <1>4, <1>5

\* What is whole in a file that has nothing but cells of f and zeros is whole in f.
LEMMA WholeBefore ==
  ASSUME NEW f \in Seq(Cell), NEW g \in Seq(Cell), NEW a \in Nat, Whole(g, a),
         \A p \in 1..Len(g) : a < p /\ p <= Until(g, a) => p <= Len(f) /\ g[p] = f[p]
  PROVE  Whole(f, a) /\ Until(f, a) = Until(g, a) /\ f[a + 1] = g[a + 1]
<1>1. /\ g[a + 1].len \in Nat
      /\ Until(g, a) \in Nat /\ Until(g, a) = a + HeaderSize + g[a + 1].len
      /\ a < Until(g, a) /\ Until(g, a) <= Len(g)
  BY WholeCells
<1>2. \A p \in Nat : a < p /\ p <= Until(g, a) => p <= Len(f) /\ g[p] = f[p]
  BY <1>1
<1>3. f[a + 1] = g[a + 1] /\ a < Len(f) /\ Until(g, a) <= Len(f)
  <2>1. a + 1 \in Nat /\ a < a + 1 /\ a + 1 <= Until(g, a)
    BY <1>1
  <2> QED
    BY <1>1, <1>2, <2>1
<1>4. Until(f, a) = Until(g, a)
  BY <1>3 DEF Until
<1>5. ASSUME NEW i \in 1..HeaderSize PROVE g[a + i] = f[a + i]
  <2>1. a + i \in Nat /\ a < a + i /\ a + i <= Until(g, a)
    BY <1>1, Sizing
  <2> QED
    BY <1>2, <2>1
<1>6. ASSUME NEW i \in 1..g[a + 1].len PROVE g[a + HeaderSize + i] = f[a + HeaderSize + i]
  <2>1. a + HeaderSize + i \in Nat /\ a < a + HeaderSize + i /\ a + HeaderSize + i <= Until(g, a)
    BY <1>1, Sizing
  <2> QED
    BY <1>2, <2>1
<1> QED
  BY <1>3, <1>4, <1>5, <1>6 DEF Whole

\* And the other way round.
LEMMA WholeAfter ==
  ASSUME NEW f \in Seq(Cell), NEW g \in Seq(Cell), NEW a \in Nat, Whole(f, a),
         Len(f) <= Len(g), \A p \in 1..Len(f) : g[p] = f[p]
  PROVE  Whole(g, a) /\ Until(g, a) = Until(f, a) /\ f[a + 1] = g[a + 1]
<1>1. /\ Until(f, a) \in Nat /\ Until(f, a) <= Len(f)
  BY WholeCells
<1> QED
  BY <1>1, WholeBefore

-----------------------------------------------------------------------------
(* What steps keep of a file.                                              *)

\* A crash: every cell of the file is one of before or zero.
LEMMA Pruned ==
  ASSUME NEW f \in Seq(Cell), NEW g \in Seq(Cell), Headers(f), Chained(f),
         \A p \in 1..Len(g) : g[p] = Zero \/ (p <= Len(f) /\ g[p] = f[p])
  PROVE  Headers(g) /\ Chained(g)
<1>1. \A p \in 1..Len(g) : Opens(g[p]) => p \in 1..Len(f) /\ g[p] = f[p]
  <2>1. ~Opens(Zero)
    BY ZeroIs DEF Opens
  <2> QED
    BY <2>1
<1>2. Headers(g)
  BY <1>1 DEF Headers
<1>3. ASSUME NEW a \in 0..(Len(g) - 1), NEW p \in 0..(Len(g) - 1),
             Whole(g, a), Until(g, a) <= p, p < Until(g, a) + HeaderSize,
             Opens(g[p + 1]), g[p + 1].type \in {"middle", "last"}
      PROVE  Continues(g, a, p)
  <2>1. /\ \A j \in Nat : a < j /\ j <= Until(g, a) => g[j] # Zero
        /\ a \in Nat /\ p \in Nat
    BY <1>3, WholeCells
  <2>2. \A j \in 1..Len(g) : a < j /\ j <= Until(g, a) => j <= Len(f) /\ g[j] = f[j]
    BY <2>1
  <2>3. Whole(f, a) /\ Until(f, a) = Until(g, a) /\ f[a + 1] = g[a + 1]
    BY <1>3, <2>1, <2>2, WholeBefore
  <2>4. p + 1 \in 1..Len(g)
    OBVIOUS
  <2>5. g[p + 1] = f[p + 1] /\ p \in 0..(Len(f) - 1)
    BY <1>1, <1>3, <2>1, <2>4
  <2>6. a \in 0..(Len(f) - 1)
    BY <2>1, <2>3 DEF Whole
  <2>7. Continues(f, a, p)
    BY <1>3, <2>3, <2>5, <2>6 DEF Chained
  <2> QED
    BY <2>3, <2>5, <2>7 DEF Continues
<1> QED
  BY <1>2, <1>3 DEF Chained

\* The next fragment of the running call.
LEMMA PhysicalIs ==
  ASSUME TypeOK, WriterInv, done >= 0
  PROVE  /\ FragmentLength \in Nat /\ FragmentLength <= Left /\ Left \in Nat
         /\ done \in Nat /\ Len(records) \in Nat /\ Len(records) \in DOMAIN records
         /\ records[Len(records)] \in Nat /\ Left = records[Len(records)] - done
         /\ FragmentType \in RecordType
         /\ FragmentType \in {"full", "first"} <=> begin
         /\ FragmentType \in {"full", "last"} <=> Left = FragmentLength
         /\ OffsetInBlock + HeaderSize + FragmentLength \in 0..BlockSize
         /\ Physical \in Seq(Cell) /\ Len(Physical) = HeaderSize + FragmentLength
         /\ \A i \in 1..HeaderSize : Physical[i] =
              HeaderCell(Len(records), i, FragmentType, done, FragmentLength)
         /\ \A i \in 1..FragmentLength :
              Physical[HeaderSize + i] = Byte(Len(records), done + i)
<1> DEFINE n == Len(records)
           L == FragmentLength
           T == FragmentType
<1>1. /\ records \in Seq(Sizes) /\ done \in Nat /\ block_offset_ \in 0..BlockSize
      /\ n > 0 /\ done <= records[n] /\ begin \in BOOLEAN
  BY DEF TypeOK, WriterInv
<1>2. n \in Nat /\ n \in DOMAIN records /\ records[n] \in Nat
  <2>1. n \in Nat /\ n \in 1..n /\ DOMAIN records = 1..n
    BY <1>1
  <2>2. records[n] \in Sizes
    BY <1>1, <2>1
  <2> QED
    BY <2>1, <2>2, Sizing
<1>3. Left \in Nat /\ Left = records[n] - done
  BY <1>1, <1>2 DEF Left
<1>4. /\ OffsetInBlock \in Nat /\ BlockSize - OffsetInBlock - HeaderSize \in Nat
  BY <1>1, Sizing DEF OffsetInBlock, NewBlock, Leftover
<1>5. /\ L \in Nat /\ L <= Left /\ L <= BlockSize - OffsetInBlock - HeaderSize
  BY <1>3, <1>4 DEF FragmentLength
<1>6. OffsetInBlock + HeaderSize + L \in 0..BlockSize
  <2> HIDE DEF L
  <2> QED
    BY <1>4, <1>5, Sizing
<1>7. /\ T \in RecordType
      /\ T \in {"full", "first"} <=> begin
      /\ T \in {"full", "last"} <=> Left = L
  <2> HIDE DEF L
  <2> QED
    BY <1>1 DEF FragmentType, RecordType, L
<1> HIDE DEF n, L, T
<1> DEFINE H == Header(n, T, done, L)
           P == Payload(n, done, L)
<1>8. /\ H \in Seq(Cell) /\ Len(H) = HeaderSize
      /\ \A i \in 1..HeaderSize : H[i] = HeaderCell(n, i, T, done, L)
  <2>1. \A i \in 1..HeaderSize : HeaderCell(n, i, T, done, L) \in Cell
    BY <1>1, <1>2, <1>5, <1>7, HeaderCellIs, Sizing
  <2> QED
    BY <2>1, Sizing DEF Header
<1>9. /\ P \in Seq(Cell) /\ Len(P) = L
      /\ \A i \in 1..L : P[i] = Byte(n, done + i)
  <2>1. \A i \in 1..L : Byte(n, done + i) \in Cell
    BY <1>1, <1>2, <1>5, ByteIs
  <2> QED
    BY <2>1, <1>5 DEF Payload
<1>10. Physical = H \o P
  BY DEF Physical, n, L, T
<1> HIDE DEF H, P
<1>11. Physical \in Seq(Cell) /\ Len(Physical) = HeaderSize + L
  <2>1. H \o P \in Seq(Cell)
    BY <1>8, <1>9
  <2>2. Len(H \o P) = Len(H) + Len(P)
    BY <1>8, <1>9
  <2> QED
    BY <1>8, <1>9, <1>10, <2>1, <2>2
<1>12. \A i \in 1..HeaderSize : Physical[i] = HeaderCell(n, i, T, done, L)
  BY <1>8, <1>9, <1>10, <1>5, Sizing
<1>13. \A i \in 1..L : Physical[HeaderSize + i] = Byte(n, done + i)
  BY <1>8, <1>9, <1>10, <1>5, Sizing
<1> QED
  BY <1>1, <1>2, <1>3, <1>5, <1>6, <1>7, <1>11, <1>12, <1>13 DEF n, L, T

\* AddRecord() appends a trailer of k zeros, and then m cells of the next fragment.
Grown(g, k, m) ==
  /\ g \in Seq(Cell) /\ Len(g) = Len(file) + k + m
  /\ \A p \in 1..Len(file) : g[p] = file[p]
  /\ \A p \in 1..k : g[Len(file) + p] = Zero
  /\ \A p \in 1..m : g[Len(file) + k + p] = Physical[p]

LEMMA Emitted ==
  ASSUME TypeOK, WriterInv, done >= 0, phase = "write", Headers(file), Chained(file),
         NEW g, NEW k \in 0..(HeaderSize - 1), NEW m \in 0..Len(Physical), Grown(g, k, m)
  PROVE  /\ Headers(g) /\ Chained(g)
         /\ m = Len(Physical) =>
              LET s == Len(file) + k
              IN  /\ Whole(g, s) /\ Until(g, s) = Len(g) /\ s \in 0..(Len(g) - 1)
                  /\ g[s + 1].r = Len(records) /\ g[s + 1].at = done
                  /\ g[s + 1].len = FragmentLength
         /\ \A a \in Nat : Whole(g, a) =>
              IF a = Len(file) + k THEN m = Len(Physical)
              ELSE Whole(file, a) /\ Until(file, a) = Until(g, a) /\ file[a + 1] = g[a + 1]
         /\ m > 0 => g[Len(file) + k + 1].type = FragmentType
<1> DEFINE f == file
           n == Len(f)
           s == n + k
           r == Len(records)
           L == FragmentLength
           T == FragmentType
<1>1. /\ L \in Nat /\ r \in Nat /\ r \in DOMAIN records /\ done \in Nat
      /\ T \in RecordType
      /\ T \in {"full", "first"} <=> begin
      /\ T \in {"full", "last"} => done + L = records[r]
      /\ records[r] \in Nat
      /\ Len(Physical) = HeaderSize + L
      /\ \A i \in 1..HeaderSize : Physical[i] = HeaderCell(r, i, T, done, L)
      /\ \A i \in 1..L : Physical[HeaderSize + i] = Byte(r, done + i)
  BY PhysicalIs
<1>2. f \in Seq(Cell) /\ n \in Nat /\ s \in Nat /\ k \in Nat /\ m \in Nat /\ k < HeaderSize
  BY Sizing DEF TypeOK
<1>3. /\ g \in Seq(Cell) /\ Len(g) = s + m
      /\ \A p \in 1..n : g[p] = f[p]
      /\ \A p \in 1..k : g[n + p] = Zero
      /\ \A p \in 1..m : g[s + p] = Physical[p]
  BY <1>2 DEF Grown
<1> HIDE DEF f, n, s, r, L, T
<1>4. ASSUME NEW p \in Nat, n < p, p <= Len(g)
      PROVE  /\ Opens(g[p]) => p = s + 1
             /\ p <= s => g[p] = Zero
             /\ p = s + 1 => g[p] = HeaderCell(r, 1, T, done, L)
  <2>1. CASE p <= s
    <3>1. p - n \in 1..k /\ p = n + (p - n)
      BY <1>2, <1>4, <2>1 DEF s
    <3>2. g[p] = Zero
      BY <1>3, <3>1
    <3> QED
      BY <1>2, <2>1, <3>2, ZeroIs DEF Opens
  <2>2. CASE p > s /\ p <= s + HeaderSize
    <3>1. /\ p - s \in 1..m /\ p - s \in 1..HeaderSize /\ p = s + (p - s)
      BY <1>2, <1>3, <1>4, <2>2, Sizing
    <3>2. g[p] = HeaderCell(r, p - s, T, done, L)
      BY <1>1, <1>3, <3>1
    <3>3. Opens(g[p]) => p - s = 1
      BY <3>2 DEF Opens, HeaderCell
    <3>4. p = s + 1 => p - s = 1
      BY <1>2
    <3> QED
      BY <1>2, <2>2, <3>1, <3>2, <3>3, <3>4
  <2>3. CASE p > s + HeaderSize
    <3>1. /\ p - s \in 1..m /\ p - s - HeaderSize \in 1..L
          /\ p = s + (p - s) /\ p - s = HeaderSize + (p - s - HeaderSize)
      BY <1>1, <1>2, <1>3, <1>4, <2>3, Sizing
    <3>2. g[p] = Byte(r, done + (p - s - HeaderSize))
      <4>1. g[p] = Physical[p - s]
        BY <1>3, <3>1
      <4> DEFINE i == p - s - HeaderSize
      <4>2. Physical[HeaderSize + i] = Byte(r, done + i)
        BY <1>1, <3>1
      <4> QED
        BY <3>1, <4>1, <4>2
    <3>3. done + (p - s - HeaderSize) \in Nat
      BY <1>1, <3>1
    <3>4. g[p].kind = "byte"
      BY <1>1, <3>2, <3>3, ByteIs
    <3>5. p # s + 1 /\ ~(p <= s)
      BY <1>2, <2>3, Sizing
    <3> QED
      BY <3>4, <3>5 DEF Opens
  <2> QED
    BY <1>2, <2>1, <2>2, <2>3, Sizing
<1>5. /\ HeaderCell(r, 1, T, done, L).r = r
      /\ HeaderCell(r, 1, T, done, L).type = T
      /\ HeaderCell(r, 1, T, done, L).at = done
      /\ HeaderCell(r, 1, T, done, L).len = L
      /\ Opens(HeaderCell(r, 1, T, done, L))
  BY DEF HeaderCell, Opens
<1>6. Headers(g)
  <2> SUFFICES ASSUME NEW p \in 1..Len(g), Opens(g[p])
               PROVE  /\ g[p].r \in DOMAIN records
                      /\ g[p].type \in {"full", "first"} => g[p].at = 0
                      /\ g[p].type \in {"full", "last"} =>
                           g[p].at + g[p].len = records[g[p].r]
    BY DEF Headers
  <2>1. CASE p <= n
    <3>1. p \in 1..n
      BY <1>2, <2>1
    <3> QED
      BY <1>3, <3>1 DEF Headers, f, n
  <2>2. CASE p > n
    <3>1. g[p] = HeaderCell(r, 1, T, done, L)
      BY <1>2, <1>3, <1>4, <2>2
    <3>2. begin => done = 0
      BY DEF WriterInv
    <3> QED
      BY <1>1, <1>5, <3>1, <3>2
  <2> QED
    BY <1>2, <2>1, <2>2
\* A whole fragment of g is the new one or was whole before.
<1>7. ASSUME NEW a \in Nat, Whole(g, a), a # s
      PROVE  Whole(f, a) /\ Until(f, a) = Until(g, a) /\ f[a + 1] = g[a + 1]
  <2>1. /\ Until(g, a) \in Nat /\ a < Until(g, a) /\ Until(g, a) <= Len(g)
        /\ \A p \in Nat : a < p /\ p <= Until(g, a) =>
             g[p] # Zero /\ (p # a + 1 => ~Opens(g[p]))
        /\ Opens(g[a + 1])
    BY <1>3, <1>7, WholeCells DEF Whole
  <2>2. a < n
    <3> SUFFICES ASSUME a >= n PROVE FALSE
      BY <1>2
    <3>1. a + 1 \in Nat /\ n < a + 1 /\ a + 1 <= Len(g)
      BY <1>2, <2>1
    <3>2. a + 1 = s + 1
      BY <1>4, <2>1, <3>1
    <3> QED
      BY <1>2, <1>7, <3>2
  <2>3. Until(g, a) <= n
    <3> SUFFICES ASSUME Until(g, a) > n PROVE FALSE
      BY <1>2, <2>1
    <3>1. n + 1 \in Nat /\ n < n + 1 /\ n + 1 <= Until(g, a) /\ n + 1 <= Len(g) /\ a < n + 1
      BY <1>2, <1>3, <2>1, <2>2
    <3>2. CASE k > 0
      <4>1. n + 1 <= s
        BY <1>2, <3>2 DEF s
      <4> QED
        BY <1>4, <2>1, <3>1, <4>1
    <3>3. CASE k = 0
      <4>1. n + 1 = s + 1 /\ n + 1 # a + 1
        BY <1>2, <2>2, <3>3 DEF s
      <4>2. Opens(g[n + 1])
        BY <1>4, <1>5, <3>1, <4>1
      <4> QED
        BY <2>1, <3>1, <4>1, <4>2
    <3> QED
      BY <1>2, <3>2, <3>3
  <2>4. \A p \in 1..Len(g) : a < p /\ p <= Until(g, a) => p <= Len(f) /\ g[p] = f[p]
    BY <1>2, <1>3, <2>1, <2>3 DEF n
  <2> QED
    BY <1>2, <1>3, <1>7, <2>4, WholeBefore
\* Less than a header before the new one ends nothing but the fragment before.
<1>8. ASSUME NEW a \in Nat, Whole(f, a), Until(f, a) <= s, s < Until(f, a) + HeaderSize,
             ~begin
      PROVE  f[a + 1].r = r /\ f[a + 1].at + f[a + 1].len = done
  <2>1. PICK e \in 0..(n - 1) :
          /\ Whole(f, e) /\ Until(f, e) = n
          /\ f[e + 1].r = r /\ f[e + 1].at + f[e + 1].len = done
    BY <1>8 DEF WriterInv, f, n, r
  <2>2. /\ Until(f, a) \in Nat /\ Until(f, a) <= n
        /\ e \in Nat /\ f[e + 1].len \in Nat /\ n = e + HeaderSize + f[e + 1].len
    BY <1>2, <1>8, <2>1, WholeCells DEF n
  <2>3. e < Until(f, a)
    <3>1. n <= s
      BY <1>2 DEF s
    <3>2. \A u, x, y, z, h \in Nat :
            n = x + h + y /\ n <= z /\ z < u + h => x < u
      BY <1>2
    <3> QED
      BY <1>2, <1>8, <2>2, <3>1, <3>2, Sizing
  <2>4. a = e
    BY <1>2, <1>8, <2>1, <2>2, <2>3, Overlap
  <2> QED
    BY <2>1, <2>4
<1>9. Chained(g)
  <2> SUFFICES ASSUME NEW a \in 0..(Len(g) - 1), NEW p \in 0..(Len(g) - 1),
                      Whole(g, a), Until(g, a) <= p, p < Until(g, a) + HeaderSize,
                      Opens(g[p + 1]), g[p + 1].type \in {"middle", "last"}
               PROVE  Continues(g, a, p)
    BY DEF Chained
  <2>1. a \in Nat /\ p \in Nat /\ p + 1 <= Len(g)
    BY <1>3
  <2>2. Until(g, a) \in Nat /\ a < Until(g, a) /\ Until(g, a) <= Len(g)
    BY <1>3, <2>1, WholeCells
  <2>3. a # s
    <3> SUFFICES ASSUME a = s PROVE FALSE
      OBVIOUS
    <3>1. p + 1 \in Nat /\ n < p + 1 /\ p + 1 # s + 1
      BY <1>2, <2>1, <2>2 DEF s
    <3> QED
      BY <1>4, <2>1, <3>1
  <2>4. Whole(f, a) /\ Until(f, a) = Until(g, a) /\ f[a + 1] = g[a + 1]
    BY <1>7, <2>1, <2>3
  <2>5. CASE p + 1 <= n
    <3>1. g[p + 1] = f[p + 1] /\ p \in 0..(n - 1)
      <4>1. p + 1 \in 1..n /\ p \in 0..(n - 1)
        BY <1>2, <2>1, <2>5
      <4> QED
        BY <1>3, <4>1
    <3>2. a \in 0..(n - 1)
      BY <2>1, <2>4 DEF Whole, n
    <3>3. Continues(f, a, p)
      BY <2>4, <3>1, <3>2 DEF Chained, f, n
    <3> QED
      BY <2>4, <3>1, <3>3 DEF Continues
  <2>6. CASE p + 1 > n
    <3>1. p + 1 \in Nat /\ n < p + 1
      BY <1>2, <2>1, <2>6
    <3>2. p + 1 = s + 1
      BY <1>4, <2>1, <3>1
    <3>3. p = s /\ g[p + 1] = HeaderCell(r, 1, T, done, L)
      BY <1>2, <1>4, <2>1, <3>1, <3>2
    <3>4. ~begin
      BY <1>1, <1>5, <3>3
    <3>5. f[a + 1].r = r /\ f[a + 1].at + f[a + 1].len = done
      BY <1>8, <2>1, <2>4, <3>3, <3>4
    <3> QED
      BY <1>5, <2>4, <3>3, <3>5 DEF Continues
  <2> QED
    BY <1>2, <2>1, <2>5, <2>6
<1>10. ASSUME m = Len(Physical)
       PROVE  /\ Whole(g, s) /\ Until(g, s) = Len(g) /\ s \in 0..(Len(g) - 1)
              /\ g[s + 1].r = r /\ g[s + 1].at = done /\ g[s + 1].len = L
  <2>1. m = HeaderSize + L /\ Len(g) = s + HeaderSize + L
    BY <1>1, <1>2, <1>3, <1>10, Sizing
  <2>2. g[s + 1] = HeaderCell(r, 1, T, done, L) /\ s < Len(g)
    <3>1. s + 1 \in Nat /\ n < s + 1 /\ s + 1 <= Len(g) /\ s < Len(g)
      BY <1>1, <1>2, <2>1, Sizing DEF s
    <3> QED
      BY <1>4, <3>1
  <2>3. /\ g[s + 1].r = r /\ g[s + 1].at = done /\ g[s + 1].len = L /\ g[s + 1].type = T
        /\ Opens(g[s + 1])
    BY <1>5, <2>2
  <2>4. ASSUME NEW i \in 1..HeaderSize PROVE g[s + i] = HeaderCell(r, i, T, done, L)
    <3>1. i \in 1..m
      BY <1>1, <2>1, Sizing
    <3> QED
      BY <1>1, <1>3, <3>1
  <2>5. ASSUME NEW i \in 1..L PROVE g[s + HeaderSize + i] = Byte(r, done + i)
    <3>1. HeaderSize + i \in 1..m /\ s + (HeaderSize + i) = s + HeaderSize + i
      BY <1>1, <1>2, <2>1, Sizing
    <3> QED
      BY <1>1, <1>3, <3>1
  <2>6. Until(g, s) = Len(g)
    BY <2>1, <2>3 DEF Until
  <2>7. Until(g, s) <= Len(g) /\ s \in 0..(Len(g) - 1)
    BY <1>2, <1>3, <2>2, <2>6
  <2> QED
    BY <2>2, <2>3, <2>4, <2>5, <2>6, <2>7 DEF Whole
<1>11. m > 0 => g[s + 1] = HeaderCell(r, 1, T, done, L)
  <2> SUFFICES ASSUME m > 0 PROVE g[s + 1] = HeaderCell(r, 1, T, done, L)
    OBVIOUS
  <2>1. s + 1 \in Nat /\ n < s + 1 /\ s + 1 <= Len(g)
    BY <1>2, <1>3 DEF s
  <2> QED
    BY <1>4, <2>1
<1>12. ASSUME Whole(g, s) PROVE m = Len(Physical)
  <2>1. s < Len(g) /\ Until(g, s) <= Len(g)
    BY <1>12 DEF Whole
  <2>2. m > 0
    BY <1>2, <1>3, <2>1
  <2>3. Until(g, s) = s + HeaderSize + L
    BY <1>5, <1>11, <2>2 DEF Until
  <2>4. HeaderSize + L <= m
    BY <1>1, <1>2, <1>3, <2>1, <2>3, Sizing
  <2> QED
    BY <1>1, <1>2, <2>4, Sizing
<1>13. m > 0 => g[s + 1].type = T
  BY <1>5, <1>11
<1>14. \A a \in Nat : Whole(g, a) =>
         IF a = s THEN m = Len(Physical)
         ELSE Whole(f, a) /\ Until(f, a) = Until(g, a) /\ f[a + 1] = g[a + 1]
  BY <1>7, <1>12
<1> QED
  BY <1>6, <1>9, <1>10, <1>13, <1>14 DEF s, n, f, r, L, T

LEMMA TrailerIs ==
  ASSUME TypeOK
  PROVE  /\ Trailer \in Seq(Cell) /\ Len(Trailer) \in 0..(HeaderSize - 1)
         /\ \A i \in 1..Len(Trailer) : Trailer[i] = Zero
<1>1. CASE NewBlock
  <2>1. Leftover \in 0..(HeaderSize - 1)
    BY <1>1, Sizing DEF NewBlock, Leftover, TypeOK
  <2>2. PICK w \in Nat : w = Leftover
    BY <2>1, Sizing
  <2>3. Trailer = [i \in 1..w |-> Zero]
    BY <1>1, <2>2 DEF Trailer, Zeros
  <2>4. Trailer \in Seq(Cell) /\ Len(Trailer) = w /\ \A i \in 1..w : Trailer[i] = Zero
    BY <2>3, ZeroIs
  <2> QED
    BY <2>1, <2>2, <2>4
<1>2. CASE ~NewBlock
  BY <1>2, Sizing DEF Trailer
<1> QED
  BY <1>1, <1>2

\* The first m cells of d behind f.
Behind(g, f, d, m) ==
  /\ g \in Seq(Cell) /\ Len(g) = Len(f) + m
  /\ \A p \in 1..Len(f) : g[p] = f[p]
  /\ \A p \in 1..m : g[Len(f) + p] = d[p]

LEMMA PrefixBehind ==
  ASSUME NEW f \in Seq(Cell), NEW d \in Seq(Cell), NEW m \in 0..Len(d)
  PROVE  Behind(f \o SubSeq(d, 1, m), f, d, m)
<1>1. PICK e : e = SubSeq(d, 1, m)
  OBVIOUS
<1>2. e \in Seq(Cell) /\ Len(e) = m /\ m \in Nat
  BY <1>1
<1>3. \A p \in 1..m : e[p] = d[p]
  BY <1>1
<1>4. f \o e \in Seq(Cell) /\ Len(f \o e) = Len(f) + m
  BY <1>2
<1>5. \A p \in 1..Len(f) : (f \o e)[p] = f[p]
  BY <1>2
<1>6. \A p \in 1..m : (f \o e)[Len(f) + p] = d[p]
  BY <1>2, <1>3
<1> QED
  BY <1>1, <1>4, <1>5, <1>6 DEF Behind

LEMMA AppendsIs ==
  ASSUME NEW f \in Seq(Cell), NEW d \in Seq(Cell), NEW t \in Appends(f, d)
  PROVE  /\ t.ok \in BOOLEAN
         /\ \E m \in 0..Len(d) : Behind(t.file, f, d, m) /\ (t.ok => m = Len(d))
<1>1. CASE t = [file |-> f \o d, ok |-> TRUE]
  <2>1. Len(d) \in 0..Len(d) /\ SubSeq(d, 1, Len(d)) = d
    OBVIOUS
  <2>2. Behind(t.file, f, d, Len(d))
    BY <1>1, <2>1, PrefixBehind
  <2> QED
    BY <1>1, <2>1, <2>2
<1>2. CASE \E k \in 0..(Len(d) - 1) : t = [file |-> f \o SubSeq(d, 1, k), ok |-> FALSE]
  <2>1. PICK k \in 0..(Len(d) - 1) : t = [file |-> f \o SubSeq(d, 1, k), ok |-> FALSE]
    BY <1>2
  <2>2. k \in 0..Len(d) /\ t.file = f \o SubSeq(d, 1, k) /\ t.ok = FALSE
    BY <2>1
  <2> QED
    BY <2>2, PrefixBehind
<1> QED
  BY <1>1, <1>2 DEF Appends

\* What one iteration of the loop, or a part of it, leaves of the file.
LEMMA TwoParts ==
  ASSUME TypeOK, WriterInv, done >= 0, NEW e, NEW g, NEW k \in 0..Len(Trailer),
         NEW m \in 0..Len(Physical), Behind(e, file, Trailer, k), Behind(g, e, Physical, m)
  PROVE  k \in 0..(HeaderSize - 1) /\ Grown(g, k, m)
<1>1. /\ file \in Seq(Cell) /\ Len(file) \in Nat /\ e \in Seq(Cell)
      /\ Len(e) = Len(file) + k /\ k \in Nat /\ m \in Nat
  BY TrailerIs DEF Behind, TypeOK
<1>2. k \in 0..(HeaderSize - 1) /\ \A i \in 1..k : Trailer[i] = Zero
  BY <1>1, TrailerIs, Sizing
<1>3. g \in Seq(Cell) /\ Len(g) = Len(file) + k + m
  BY <1>1 DEF Behind
<1>4. \A p \in 1..Len(file) : g[p] = file[p]
  <2>1. \A p \in 1..Len(file) : p \in 1..Len(e)
    BY <1>1
  <2> QED
    BY <2>1 DEF Behind
<1>5. \A p \in 1..k : g[Len(file) + p] = Zero
  <2>1. \A p \in 1..k : Len(file) + p \in 1..Len(e)
    BY <1>1
  <2> QED
    BY <1>2, <2>1 DEF Behind
<1>6. \A p \in 1..m : g[Len(file) + k + p] = Physical[p]
  BY <1>1 DEF Behind
<1> QED
  BY <1>2, <1>3, <1>4, <1>5, <1>6 DEF Grown

-----------------------------------------------------------------------------
(* The initial states, and the steps of the writer.                        *)

LEMMA InitLog == Init => LogInv
<1> SUFFICES ASSUME Init PROVE LogInv
  OBVIOUS
<1>1. NoPhantom
  <2>1. /\ file \in Seq(Cell) /\ records \in Seq(Sizes) /\ buffer_ \in Seq(Cell)
        /\ scratch \in Seq(Cell) /\ out \in Seq(Seq(Cell))
    BY DEF Init
  <2>2. Len(file) = 0 /\ 1..Len(out) = {} /\ returned \subseteq DOMAIN records
    BY DEF Init
  <2>3. /\ block_offset_ \in 0..BlockSize /\ done \in Nat \cup {-1}
        /\ faults \in 0..MaxFaults /\ next \in 0..Len(file)
    BY <2>2, Sizing DEF Init
  <2>4. /\ begin \in BOOLEAN /\ eof_ \in BOOLEAN /\ in_fragmented_record \in BOOLEAN
        /\ reported \in BOOLEAN /\ phase \in {"write", "read", "eof"}
        /\ ended \in {"none", "close", "kill", "kill_inside", "power"}
    BY DEF Init
  <2> QED
    BY <2>1, <2>2, <2>3, <2>4 DEF NoPhantom, TypeOK
<1>2. Headers(file) /\ Chained(file)
  BY DEF Init, Headers, Chained
<1>3. WriterInv /\ ReaderInv
  BY DEF Init, WriterInv, ReaderInv, Position
<1> QED
  BY <1>1, <1>2, <1>3 DEF LogInv

\* The reader does nothing before the writer has ended.
LEMMA ReaderIdle ==
  ASSUME LogInv, phase = "write", UNCHANGED readerVars, file' \in Seq(Cell)
  PROVE  /\ ReaderInv' /\ next' \in 0..Len(file') /\ buffer_' \in Seq(Cell)
         /\ eof_' \in BOOLEAN /\ in_fragmented_record' \in BOOLEAN /\ reported' \in BOOLEAN
         /\ scratch' \in Seq(Cell) /\ out' \in Seq(Seq(Cell)) /\ out' = out
<1>1. /\ next = 0 /\ ~in_fragmented_record /\ Len(buffer_) <= next /\ TypeOK
  BY DEF LogInv, ReaderInv, NoPhantom
<1>2. /\ buffer_ \in Seq(Cell) /\ eof_ \in BOOLEAN /\ in_fragmented_record \in BOOLEAN
      /\ reported \in BOOLEAN /\ scratch \in Seq(Cell) /\ out \in Seq(Seq(Cell))
  BY <1>1 DEF TypeOK
<1>3. /\ next' = next /\ buffer_' = buffer_ /\ eof_' = eof_ /\ scratch' = scratch
      /\ in_fragmented_record' = in_fragmented_record /\ out' = out /\ reported' = reported
  BY DEF readerVars
<1>4. Len(buffer_) = 0
  BY <1>1, <1>2
<1>5. ReaderInv'
  <2>1. Len(buffer_') <= next' /\ 1..Len(buffer_') = {} /\ next' = 0
        /\ ~in_fragmented_record'
    BY <1>1, <1>3, <1>4
  <2> QED
    BY <2>1 DEF ReaderInv
<1> QED
  BY <1>1, <1>2, <1>3, <1>5

\* The records that were returned stay as they are.
LEMMA OutKept ==
  ASSUME NoPhantom, TypeOK', out' = out,
         \A r \in DOMAIN records : r \in DOMAIN records' /\ records'[r] = records[r]
  PROVE  NoPhantom'
<1>1. ASSUME NEW i \in 1..Len(out')
      PROVE  \E r \in DOMAIN records' : out'[i] = Payload(r, 0, records'[r])
  <2>1. PICK r \in DOMAIN records : out[i] = Record(r)
    BY DEF NoPhantom
  <2> QED
    BY <2>1 DEF Record
<1> QED
  BY <1>1 DEF NoPhantom, Record

LEMMA AddRecordStep ==
  ASSUME LogInv, AddRecord
  PROVE  LogInv'
<1>1. TypeOK /\ NoPhantom /\ Headers(file) /\ Chained(file) /\ WriterInv
  BY DEF LogInv, NoPhantom
<1>2. PICK n \in Sizes : records' = Append(records, n)
  BY DEF AddRecord
<1>3. /\ phase = "write" /\ phase' = phase /\ done' = 0 /\ begin' = TRUE /\ file' = file
      /\ block_offset_' = block_offset_ /\ returned' = returned /\ faults' = faults
      /\ ended' = ended /\ UNCHANGED readerVars
  BY DEF AddRecord
<1>4. /\ records \in Seq(Sizes) /\ records' \in Seq(Sizes)
      /\ Len(records') = Len(records) + 1 /\ Len(records) \in Nat
      /\ records'[Len(records')] = n /\ n \in Nat
      /\ \A r \in DOMAIN records : r \in DOMAIN records' /\ records'[r] = records[r]
  BY <1>1, <1>2, Sizing DEF TypeOK
<1>5. TypeOK'
  <2>1. returned' \subseteq DOMAIN records'
    BY <1>1, <1>3, <1>4 DEF TypeOK
  <2>2. file' \in Seq(Cell)
    BY <1>1, <1>3 DEF TypeOK
  <2>3. block_offset_' \in 0..BlockSize /\ done' \in Nat \cup {-1} /\ begin' \in BOOLEAN
        /\ faults' \in 0..MaxFaults
    BY <1>1, <1>3 DEF TypeOK
  <2>4. phase' \in {"write", "read", "eof"}
        /\ ended' \in {"none", "close", "kill", "kill_inside", "power"}
    BY <1>1, <1>3 DEF TypeOK
  <2> QED
    BY <1>3, <1>4, <2>1, <2>2, <2>3, <2>4, ReaderIdle DEF TypeOK
<1>6. NoPhantom'
  <2>1. out' = out
    BY <1>3 DEF readerVars
  <2> QED
    BY <1>1, <1>4, <1>5, <2>1, OutKept
<1>7. Headers(file)'
  BY <1>1, <1>3, <1>4 DEF Headers
<1>8. Chained(file)'
  BY <1>1, <1>3 DEF Chained
<1>9. WriterInv'
  BY <1>3, <1>4 DEF WriterInv
<1>10. ReaderInv'
  BY <1>3, <1>5, ReaderIdle DEF TypeOK
<1> QED
  BY <1>6, <1>7, <1>8, <1>9, <1>10 DEF LogInv

LEMMA CountIs ==
  ASSUME NEW b \in BOOLEAN
  PROVE  Cardinality({x \in {1} : b}) \in Nat
<1>1. IsFiniteSet({1})
  BY FS_Singleton
<1>2. {x \in {1} : b} \subseteq {1}
  OBVIOUS
<1>3. IsFiniteSet({x \in {1} : b})
  BY <1>1, <1>2, FS_Subset
<1> QED
  BY <1>3, FS_CardinalityType

LEMMA EmitStep ==
  ASSUME LogInv, EmitPhysicalRecord
  PROVE  LogInv'
<1>1. /\ TypeOK /\ NoPhantom /\ Headers(file) /\ Chained(file) /\ WriterInv
      /\ phase = "write" /\ done >= 0
  BY DEF LogInv, NoPhantom, EmitPhysicalRecord
<1> DEFINE Step(t, p) ==
        /\ faults' = faults + Cardinality({x \in {1} : ~t.ok})
                            + Cardinality({x \in {1} : ~p.ok})
        /\ faults' <= MaxFaults
        /\ file' = p.file
        /\ done' = IF ~p.ok \/ FragmentLength = Left THEN -1 ELSE done + FragmentLength
        /\ returned' = IF p.ok /\ (~p.ok \/ FragmentLength = Left)
                       THEN returned \cup {Len(records)} ELSE returned
<1>t. PICK t \in Appends(file, Trailer) : \E p \in Appends(t.file, Physical) : Step(t, p)
  BY DEF EmitPhysicalRecord
<1>2. PICK p \in Appends(t.file, Physical) : Step(t, p)
  BY <1>t
<1>3. /\ begin' = FALSE /\ block_offset_' = OffsetInBlock + HeaderSize + FragmentLength
      /\ records' = records /\ phase' = phase /\ ended' = ended /\ UNCHANGED readerVars
  BY DEF EmitPhysicalRecord
<1>4. /\ FragmentLength \in Nat /\ FragmentLength <= Left /\ Left \in Nat
      /\ done \in Nat /\ Len(records) \in DOMAIN records /\ Len(records) \in Nat
      /\ records[Len(records)] \in Nat /\ Left = records[Len(records)] - done
      /\ OffsetInBlock + HeaderSize + FragmentLength \in 0..BlockSize
      /\ Physical \in Seq(Cell)
  BY <1>1, PhysicalIs
<1>5. file \in Seq(Cell) /\ Trailer \in Seq(Cell)
  BY <1>1, TrailerIs DEF TypeOK
<1>6. t.ok \in BOOLEAN /\ \E k \in 0..Len(Trailer) : Behind(t.file, file, Trailer, k)
  BY <1>t, <1>5, AppendsIs
<1>7. PICK k \in 0..Len(Trailer) : Behind(t.file, file, Trailer, k)
  BY <1>6
<1>8. /\ p.ok \in BOOLEAN
      /\ \E m \in 0..Len(Physical) :
           Behind(p.file, t.file, Physical, m) /\ (p.ok => m = Len(Physical))
  <2>1. t.file \in Seq(Cell) /\ Physical \in Seq(Cell)
    BY <1>4, <1>7 DEF Behind
  <2> QED
    BY <2>1, AppendsIs, Zenon
<1>9. PICK m \in 0..Len(Physical) :
        Behind(p.file, t.file, Physical, m) /\ (p.ok => m = Len(Physical))
  BY <1>8
<1>10. PICK g : g = p.file
  OBVIOUS
<1>11. k \in 0..(HeaderSize - 1) /\ Grown(g, k, m) /\ file' = g
  BY <1>1, <1>2, <1>7, <1>9, <1>10, TwoParts
<1>12. /\ Headers(g) /\ Chained(g)
       /\ m = Len(Physical) =>
            LET s == Len(file) + k
            IN  /\ Whole(g, s) /\ Until(g, s) = Len(g) /\ s \in 0..(Len(g) - 1)
                /\ g[s + 1].r = Len(records) /\ g[s + 1].at = done
                /\ g[s + 1].len = FragmentLength
  BY <1>1, <1>11, Emitted
<1>13. TypeOK'
  <2>1. file' \in Seq(Cell)
    BY <1>11 DEF Grown
  <2>2. faults' \in 0..MaxFaults
    <3>1. PICK x, y : /\ x = Cardinality({z \in {1} : ~t.ok})
                      /\ y = Cardinality({z \in {1} : ~p.ok})
      OBVIOUS
    <3>2. x \in Nat /\ y \in Nat
      BY <1>6, <1>8, <3>1, CountIs
    <3>3. faults' = faults + x + y /\ faults \in Nat
      BY <1>1, <1>2, <3>1, Sizing DEF TypeOK
    <3> QED
      BY <1>2, <3>2, <3>3, Sizing
  <2>3. returned' \subseteq DOMAIN records'
    BY <1>1, <1>2, <1>3, <1>4 DEF TypeOK
  <2>4. done' \in Nat \cup {-1}
    BY <1>2, <1>4
  <2>5. block_offset_' \in 0..BlockSize
    BY <1>3, <1>4
  <2>6. records' \in Seq(Sizes) /\ begin' \in BOOLEAN
        /\ phase' \in {"write", "read", "eof"}
        /\ ended' \in {"none", "close", "kill", "kill_inside", "power"}
    BY <1>1, <1>3 DEF TypeOK
  <2> QED
    BY <1>1, <1>3, <2>1, <2>2, <2>3, <2>4, <2>5, <2>6, ReaderIdle DEF TypeOK
<1>14. NoPhantom'
  <2>1. out' = out
    BY <1>3 DEF readerVars
  <2> QED
    BY <1>1, <1>3, <1>13, <2>1, OutKept
<1>15. Headers(file)' /\ Chained(file)'
  BY <1>3, <1>11, <1>12 DEF Headers, Chained
<1>16. WriterInv'
  <2> SUFFICES ASSUME done' >= 0 PROVE WriterInv'
    BY DEF WriterInv
  <2>1. p.ok /\ done' = done + FragmentLength
    BY <1>2
  <2>2. m = Len(Physical) /\ done' <= records[Len(records)] /\ Len(records) > 0
    BY <1>1, <1>4, <1>9, <2>1 DEF WriterInv
  <2>3. PICK s \in 0..(Len(g) - 1) :
          /\ Whole(g, s) /\ Until(g, s) = Len(g)
          /\ g[s + 1].r = Len(records) /\ g[s + 1].at = done
          /\ g[s + 1].len = FragmentLength
    BY <1>12, <2>2
  <2>4. \E a \in 0..(Len(file') - 1) :
          /\ Whole(file', a) /\ Until(file', a) = Len(file')
          /\ file'[a + 1].r = Len(records')
          /\ file'[a + 1].at + file'[a + 1].len = done'
    BY <1>3, <1>11, <2>1, <2>3
  <2> QED
    BY <1>3, <2>2, <2>4 DEF WriterInv
<1>17. ReaderInv'
  BY <1>1, <1>3, <1>13, ReaderIdle DEF TypeOK
<1> QED
  BY <1>14, <1>15, <1>16, <1>17 DEF LogInv

-----------------------------------------------------------------------------
(* The end of writing.                                                     *)

\* Nothing but zeros is made of a file of which the invariant holds.
LEMMA Ended ==
  ASSUME LogInv, phase = "write", phase' = "read",
         ended' \in {"close", "kill", "kill_inside", "power"},
         UNCHANGED <<block_offset_, records, returned, done, begin, faults, readerVars>>,
         NEW f \in Seq(Cell), Headers(f), Chained(f), file' \in Seq(Cell),
         \A p \in 1..Len(file') : file'[p] = Zero \/ (p <= Len(f) /\ file'[p] = f[p])
  PROVE  LogInv'
<1>1. TypeOK /\ NoPhantom /\ WriterInv
  BY DEF LogInv, NoPhantom
<1>2. /\ block_offset_' = block_offset_ /\ records' = records /\ returned' = returned
      /\ done' = done /\ begin' = begin /\ faults' = faults /\ UNCHANGED readerVars
  OBVIOUS
<1>3. PICK g \in Seq(Cell) : g = file'
  OBVIOUS
<1>4. Headers(g) /\ Chained(g)
  BY <1>3, Pruned
<1>5. Headers(file)' /\ Chained(file)'
  BY <1>2, <1>3, <1>4 DEF Headers, Chained
<1>6. TypeOK'
  <2>1. /\ block_offset_' \in 0..BlockSize /\ records' \in Seq(Sizes)
        /\ returned' \subseteq DOMAIN records' /\ done' \in Nat \cup {-1}
        /\ begin' \in BOOLEAN /\ faults' \in 0..MaxFaults
    BY <1>1, <1>2 DEF TypeOK
  <2> QED
    BY <1>2, <2>1, ReaderIdle DEF TypeOK
<1>7. NoPhantom'
  <2>1. out' = out
    BY <1>2 DEF readerVars
  <2> QED
    BY <1>1, <1>2, <1>6, <2>1, OutKept
<1>8. WriterInv'
  BY <1>1, <1>2 DEF WriterInv
<1>9. ReaderInv'
  BY <1>2, ReaderIdle
<1> QED
  BY <1>5, <1>7, <1>8, <1>9 DEF LogInv

LEMMA PreallocatedIs ==
  ASSUME NEW f \in Seq(Cell)
  PROVE  /\ Preallocated(f) \in Seq(Cell)
         /\ \A p \in 1..Len(Preallocated(f)) :
              Preallocated(f)[p] = Zero \/ (p <= Len(f) /\ Preallocated(f)[p] = f[p])
<1>1. PICK w : w = RegionSize - (Len(f) % RegionSize)
  OBVIOUS
<1>2. w \in Nat
  BY <1>1, Sizing
<1>3. PICK z : z = Zeros(w)
  OBVIOUS
<1>4. z \in Seq(Cell) /\ Len(z) = w /\ \A i \in 1..w : z[i] = Zero
  BY <1>2, <1>3, ZeroIs DEF Zeros
<1>5. Preallocated(f) = f \/ Preallocated(f) = f \o z
  <2>1. CASE Len(f) % RegionSize = 0
    BY <2>1 DEF Preallocated
  <2>2. CASE Len(f) % RegionSize # 0
    <3>1. Preallocated(f) = f \o Zeros(RegionSize - (Len(f) % RegionSize))
      BY <2>2 DEF Preallocated
    <3> QED
      BY <1>1, <1>3, <3>1
  <2> QED
    BY <2>1, <2>2
<1>6. CASE Preallocated(f) = f
  BY <1>6
<1>7. CASE Preallocated(f) = f \o z
  <2>1. f \o z \in Seq(Cell) /\ Len(f \o z) = Len(f) + w
    BY <1>4
  <2>2. ASSUME NEW p \in 1..Len(f \o z)
        PROVE  (f \o z)[p] = Zero \/ (p <= Len(f) /\ (f \o z)[p] = f[p])
    <3>1. CASE p <= Len(f)
      BY <1>4, <3>1
    <3>2. CASE p > Len(f)
      <4>1. p - Len(f) \in 1..w
        BY <1>2, <2>1, <3>2
      <4>2. (f \o z)[p] = z[p - Len(f)]
        BY <1>4, <2>1, <3>2
      <4> QED
        BY <1>4, <4>1, <4>2
    <3> QED
      BY <3>1, <3>2
  <2> QED
    BY <1>7, <2>1, <2>2
<1> QED
  BY <1>5, <1>6, <1>7

\* What a kill inside AddRecord() leaves: some of the trailer, or all of it and some of
\* the fragment, and preallocated zeros.
LEMMA KillInsideIs ==
  ASSUME TypeOK, WriterInv, KillInside
  PROVE  \E g, k, m :
           /\ k \in 0..(HeaderSize - 1) /\ m \in 0..Len(Physical) /\ Grown(g, k, m)
           /\ file' = Preallocated(g) /\ (m = Len(Physical) => k = Len(Trailer))
<1>a. TypeOK /\ WriterInv /\ file \in Seq(Cell)
  BY DEF TypeOK
<1>b. PICK f \in Seq(Cell) : f = file
  BY <1>a
<1>1. PICK j \in 0..Len(Trailer \o Physical) :
        file' = Preallocated(file \o SubSeq(Trailer \o Physical, 1, j))
  BY DEF KillInside
<1>2. phase = "write" /\ done >= 0
  BY DEF KillInside
<1>3. PICK z, y : z = Trailer /\ y = Physical
  OBVIOUS
<1>4. z \in Seq(Cell) /\ y \in Seq(Cell)
  BY <1>a, <1>2, <1>3, TrailerIs, PhysicalIs
<1>5. PICK w, g : w = z \o y /\ g = f \o SubSeq(w, 1, j)
  OBVIOUS
<1>6. /\ w \in Seq(Cell) /\ Len(w) = Len(z) + Len(y) /\ j \in 0..Len(w)
      /\ \A i \in 1..Len(z) : w[i] = z[i]
      /\ \A i \in 1..Len(y) : w[Len(z) + i] = y[i]
  <2>1. w \in Seq(Cell) /\ Len(w) = Len(z) + Len(y)
    BY <1>4, <1>5
  <2>2. \A i \in 1..Len(z) : w[i] = z[i]
    BY <1>4, <1>5
  <2>3. \A i \in 1..Len(y) : w[Len(z) + i] = y[i]
    BY <1>4, <1>5
  <2> QED
    BY <1>1, <1>3, <1>5, <2>1, <2>2, <2>3
<1>7. Behind(g, f, w, j) /\ file' = Preallocated(g)
  BY <1>b, <1>1, <1>3, <1>5, <1>6, PrefixBehind
<1>8. /\ Len(z) \in 0..(HeaderSize - 1) /\ \A i \in 1..Len(z) : z[i] = Zero
  BY <1>a, <1>3, TrailerIs
<1>9. PICK k \in 0..(HeaderSize - 1), m \in 0..Len(y) :
        Grown(g, k, m) /\ (m = Len(y) => k = Len(z))
  <2>1. CASE j <= Len(z)
    <3>1. j \in 0..(HeaderSize - 1) /\ 0 \in 0..Len(y)
      BY <1>4, <1>6, <1>8, <2>1, Sizing
    <3>2. \A p \in 1..j : g[Len(f) + p] = Zero
      <4>1. \A p \in 1..j : p \in 1..Len(z)
        BY <1>4, <1>6, <2>1
      <4> QED
        BY <1>6, <1>7, <1>8, <4>1 DEF Behind
    <3>3. Grown(g, j, 0)
      BY <1>b, <1>7, <3>1, <3>2 DEF Grown, Behind
    <3>4. Len(y) # 0
      BY <1>a, <1>2, <1>3, PhysicalIs, Sizing
    <3> QED
      BY <3>1, <3>3, <3>4
  <2>2. CASE j > Len(z)
    <3>1. PICK m \in 0..Len(y) : j = Len(z) + m
      <4>1. j - Len(z) \in 0..Len(y) /\ j = Len(z) + (j - Len(z))
        BY <1>4, <1>6, <2>2
      <4> QED
        BY <4>1
    <3>2. Len(z) \in Nat /\ m \in Nat /\ Len(f) \in Nat
      BY <1>4
    <3>3. \A p \in 1..Len(z) : g[Len(f) + p] = Zero
      <4>1. \A p \in 1..Len(z) : p \in 1..j
        BY <3>1, <3>2
      <4> QED
        BY <1>6, <1>7, <1>8, <4>1 DEF Behind
    <3>4. \A p \in 1..m : g[Len(f) + Len(z) + p] = y[p]
      <4>1. \A p \in 1..m : /\ Len(z) + p \in 1..j /\ p \in 1..Len(y)
                            /\ Len(f) + (Len(z) + p) = Len(f) + Len(z) + p
        BY <1>4, <3>1, <3>2
      <4> QED
        BY <1>6, <1>7, <4>1 DEF Behind
    <3>5. g \in Seq(Cell) /\ Len(g) = Len(f) + Len(z) + m
          /\ \A p \in 1..Len(f) : g[p] = f[p]
      BY <1>7, <3>1, <3>2 DEF Behind
    <3>6. Grown(g, Len(z), m)
      BY <1>b, <1>3, <3>3, <3>4, <3>5 DEF Grown
    <3> QED
      BY <1>8, <3>1, <3>6
  <2>3. j <= Len(z) \/ j > Len(z)
    BY <1>4, <1>6
  <2> QED
    BY <2>1, <2>2, <2>3, Zenon
<1> QED
  BY <1>3, <1>7, <1>9

LEMMA EndStep ==
  ASSUME LogInv, Close \/ Kill \/ KillInside \/ PowerLoss
  PROVE  LogInv'
<1>1. /\ TypeOK /\ Headers(file) /\ Chained(file) /\ WriterInv /\ file \in Seq(Cell)
  BY DEF LogInv, NoPhantom, TypeOK
<1>2. PICK f \in Seq(Cell) : f = file
  BY <1>1
<1>3. CASE Close
  <2>1. file' = f
    BY <1>2, <1>3 DEF Close, writerVars
  <2> QED
    BY <1>1, <1>2, <1>3, <2>1, Ended DEF Close, writerVars
<1>4. CASE Kill
  <2>1. file' = Preallocated(f)
    BY <1>2, <1>4 DEF Kill
  <2> QED
    BY <1>1, <1>2, <1>4, <2>1, PreallocatedIs, Ended DEF Kill
<1>5. CASE KillInside
  <2>1. PICK g, k, m :
          /\ k \in 0..(HeaderSize - 1) /\ m \in 0..Len(Physical) /\ Grown(g, k, m)
          /\ file' = Preallocated(g)
    BY <1>1, <1>5, KillInsideIs
  <2>2. phase = "write" /\ done >= 0
    BY <1>5 DEF KillInside
  <2>3. Headers(g) /\ Chained(g) /\ g \in Seq(Cell)
    BY <1>1, <2>1, <2>2, Emitted DEF Grown
  <2>4. /\ file' \in Seq(Cell)
        /\ \A p \in 1..Len(file') : file'[p] = Zero \/ (p <= Len(g) /\ file'[p] = g[p])
    BY <2>1, <2>3, PreallocatedIs
  <2>5. /\ phase' = "read" /\ ended' = "kill_inside"
        /\ UNCHANGED <<block_offset_, records, returned, done, begin, faults, readerVars>>
    BY <1>5 DEF KillInside
  <2> QED
    BY <2>2, <2>3, <2>4, <2>5, Ended
<1>6. CASE PowerLoss
  <2>a. PICK k \in 0..Len(file) : \E hole \in SUBSET (0..(k \div BlockSize)) :
          file' = [i \in 1..k |-> IF (i - 1) \div BlockSize \in hole THEN Zero ELSE file[i]]
    BY <1>6, Zenon DEF PowerLoss
  <2>1. PICK hole \in SUBSET (0..(k \div BlockSize)) :
          file' = [i \in 1..k |-> IF (i - 1) \div BlockSize \in hole THEN Zero ELSE file[i]]
    BY <2>a
  <2>2. k \in Nat /\ \A i \in 1..k : i \in 1..Len(f) /\ f[i] \in Cell
    BY <1>2
  <2>3. /\ file' \in Seq(Cell) /\ Len(file') = k
        /\ \A i \in 1..k : file'[i] = Zero \/ file'[i] = f[i]
    <3>1. PICK P : P = [i \in 1..k |-> (i - 1) \div BlockSize \in hole]
      OBVIOUS
    <3>2. file' = [i \in 1..k |-> IF P[i] THEN Zero ELSE file[i]]
      BY <2>1, <3>1
    <3>3. /\ \A i \in 1..k : (IF P[i] THEN Zero ELSE f[i]) \in Cell
      BY <2>2, ZeroIs
    <3> QED
      BY <1>2, <2>2, <3>2, <3>3
  <2>4. \A p \in 1..Len(file') : file'[p] = Zero \/ (p <= Len(f) /\ file'[p] = f[p])
    BY <2>2, <2>3
  <2>5. /\ phase = "write" /\ phase' = "read" /\ ended' = "power"
        /\ UNCHANGED <<block_offset_, records, returned, done, begin, faults, readerVars>>
    BY <1>6 DEF PowerLoss
  <2> QED
    BY <1>1, <1>2, <2>3, <2>4, <2>5, Ended
<1> QED
  BY <1>3, <1>4, <1>5, <1>6

-----------------------------------------------------------------------------
(* The reader.                                                             *)

LEMMA PayloadIs ==
  ASSUME NEW r \in Nat, NEW at \in Nat, NEW len \in Nat
  PROVE  /\ Payload(r, at, len) \in Seq(Cell) /\ Len(Payload(r, at, len)) = len
         /\ \A i \in 1..len : Payload(r, at, len)[i] = Byte(r, at + i)
<1>1. \A i \in 1..len : Byte(r, at + i) \in Cell
  BY ByteIs
<1> QED
  BY <1>1 DEF Payload

LEMMA PayloadConcat ==
  ASSUME NEW r \in Nat, NEW at \in Nat, NEW len \in Nat
  PROVE  Payload(r, 0, at) \o Payload(r, at, len) = Payload(r, 0, at + len)
<1>1. PICK x, y, z : x = Payload(r, 0, at) /\ y = Payload(r, at, len)
                     /\ z = Payload(r, 0, at + len)
  OBVIOUS
<1>a. at + len \in Nat /\ 0 \in Nat /\ \A i \in 1..(at + len) : i <= at \/ i > at
  OBVIOUS
<1>2. /\ x \in Seq(Cell) /\ Len(x) = at /\ \A i \in 1..at : x[i] = Byte(r, 0 + i)
  <2>1. /\ Payload(r, 0, at) \in Seq(Cell) /\ Len(Payload(r, 0, at)) = at
        /\ \A i \in 1..at : Payload(r, 0, at)[i] = Byte(r, 0 + i)
    BY <1>a, PayloadIs
  <2> QED
    BY <1>1, <2>1, Zenon
<1>3. /\ y \in Seq(Cell) /\ Len(y) = len /\ \A i \in 1..len : y[i] = Byte(r, at + i)
  BY <1>1, PayloadIs, Zenon
<1>4. /\ z \in Seq(Cell) /\ Len(z) = at + len
      /\ \A i \in 1..(at + len) : z[i] = Byte(r, 0 + i)
  <2>1. PICK e \in Nat : e = at + len
    BY <1>a
  <2>2. /\ Payload(r, 0, e) \in Seq(Cell) /\ Len(Payload(r, 0, e)) = e
        /\ \A i \in 1..e : Payload(r, 0, e)[i] = Byte(r, 0 + i)
    BY <1>a, PayloadIs, Zenon
  <2>3. z = Payload(r, 0, e)
    BY <1>1, <2>1
  <2> QED
    BY <2>1, <2>2, <2>3, Zenon
<1>5. x \o y \in Seq(Cell) /\ Len(x \o y) = at + len
  BY <1>2, <1>3
<1>6. ASSUME NEW i \in 1..(at + len) PROVE (x \o y)[i] = z[i]
  <2>1. z[i] = Byte(r, i)
    BY <1>4
  <2>2. CASE i <= at
    <3>1. (x \o y)[i] = x[i] /\ i \in 1..at
      BY <1>2, <1>3, <2>2
    <3> QED
      BY <1>2, <2>1, <3>1
  <2>3. CASE i > at
    <3>1. (x \o y)[i] = y[i - at] /\ i - at \in 1..len /\ at + (i - at) = i
      BY <1>2, <1>3, <2>3
    <3>2. y[i - at] = Byte(r, at + (i - at))
      BY <1>3, <3>1
    <3> QED
      BY <2>1, <3>1, <3>2
  <2> QED
    BY <1>a, <2>2, <2>3
<1>7. x \o y = z
  BY <1>4, <1>5, <1>6
<1> QED
  BY <1>1, <1>7

\* What a step of the reader has to show.
LEMMA ReaderKeeps ==
  ASSUME LogInv, UNCHANGED <<writerVars, ended>>, phase = "read", phase' \in {"read", "eof"},
         next' \in 0..Len(file), buffer_' \in Seq(Cell), eof_' \in BOOLEAN,
         in_fragmented_record' \in BOOLEAN, reported' \in BOOLEAN,
         scratch' \in Seq(Cell), out' \in Seq(Seq(Cell)),
         \A i \in 1..Len(out') : \E r \in DOMAIN records : out'[i] = Record(r),
         ReaderInv'
  PROVE  LogInv'
<1>1. TypeOK /\ Headers(file) /\ Chained(file) /\ WriterInv
  BY DEF LogInv, NoPhantom
<1>2. /\ file' = file /\ block_offset_' = block_offset_ /\ records' = records
      /\ returned' = returned /\ done' = done /\ begin' = begin /\ faults' = faults
      /\ ended' = ended
  BY DEF writerVars
<1>3. TypeOK'
  <2>1. /\ file' \in Seq(Cell) /\ block_offset_' \in 0..BlockSize /\ records' \in Seq(Sizes)
        /\ returned' \subseteq DOMAIN records' /\ done' \in Nat \cup {-1}
        /\ begin' \in BOOLEAN /\ faults' \in 0..MaxFaults
        /\ ended' \in {"none", "close", "kill", "kill_inside", "power"}
    BY <1>1, <1>2 DEF TypeOK
  <2> QED
    BY <1>2, <2>1 DEF TypeOK
<1>4. NoPhantom'
  BY <1>2, <1>3 DEF NoPhantom, Record
<1>5. Headers(file)' /\ Chained(file)'
  BY <1>1, <1>2 DEF Headers, Chained
<1>6. WriterInv'
  BY <1>1, <1>2 DEF WriterInv
<1> QED
  BY <1>4, <1>5, <1>6 DEF LogInv

\* The state of the reader between two steps.
LEMMA ReaderIs ==
  ASSUME LogInv
  PROVE  /\ file \in Seq(Cell) /\ Len(file) \in Nat /\ records \in Seq(Sizes)
         /\ next \in 0..Len(file) /\ next \in Nat
         /\ buffer_ \in Seq(Cell) /\ Len(buffer_) \in Nat /\ Len(buffer_) <= next
         /\ eof_ \in BOOLEAN /\ in_fragmented_record \in BOOLEAN /\ reported \in BOOLEAN
         /\ scratch \in Seq(Cell) /\ out \in Seq(Seq(Cell))
         /\ Position \in Nat /\ Position + Len(buffer_) = next
         /\ \A i \in 1..Len(buffer_) : buffer_[i] = file[Position + i]
         /\ \A i \in 1..Len(out) : \E r \in DOMAIN records : out[i] = Record(r)
         /\ Headers(file) /\ Chained(file)
<1>1. TypeOK /\ ReaderInv /\ Headers(file) /\ Chained(file)
  BY DEF LogInv, NoPhantom
<1>2. /\ file \in Seq(Cell) /\ records \in Seq(Sizes)
      /\ next \in 0..Len(file)
      /\ buffer_ \in Seq(Cell)
      /\ eof_ \in BOOLEAN /\ in_fragmented_record \in BOOLEAN /\ reported \in BOOLEAN
      /\ scratch \in Seq(Cell) /\ out \in Seq(Seq(Cell))
  BY <1>1 DEF TypeOK
<1>3. Len(file) \in Nat /\ next \in Nat /\ Len(buffer_) \in Nat
  BY <1>2
<1>4. /\ Len(buffer_) <= next /\ \A i \in 1..Len(buffer_) : buffer_[i] = file[Position + i]
  BY <1>1 DEF ReaderInv
<1>5. Position \in Nat /\ Position + Len(buffer_) = next
  BY <1>3, <1>4 DEF Position
<1>6. \A i \in 1..Len(out) : \E r \in DOMAIN records : out[i] = Record(r)
  BY DEF LogInv, NoPhantom
<1> QED
  BY <1>1, <1>2, <1>3, <1>4, <1>5, <1>6

\* The record that has begun, when the reader is in one.
Begun(a) ==
  /\ Whole(file, a)
  /\ scratch = Payload(file[a + 1].r, 0, file[a + 1].at + file[a + 1].len)
  /\ Until(file, a) <= Position /\ Position < Until(file, a) + HeaderSize
  /\ Position = Until(file, a) \/ Len(buffer_) >= HeaderSize \/ eof_

LEMMA BegunIs ==
  ASSUME LogInv, in_fragmented_record, phase = "read"
  PROVE  \E a \in 0..(Len(file) - 1) : Begun(a)
<1>1. PICK a \in 0..(Len(file) - 1) :
         /\ Whole(file, a)
         /\ scratch = Payload(file[a + 1].r, 0, file[a + 1].at + file[a + 1].len)
         /\ \/ Position = Until(file, a)
            \/ /\ Until(file, a) <= Position /\ Position < Until(file, a) + HeaderSize
               /\ Len(buffer_) >= HeaderSize \/ eof_
  BY DEF LogInv, ReaderInv
<1>2. Until(file, a) \in Nat
  BY <1>1, ReaderIs, WholeCells
<1>3. Until(file, a) <= Position /\ Position < Until(file, a) + HeaderSize
  BY <1>1, <1>2, Sizing
<1> QED
  BY <1>1, <1>3 DEF Begun

LEMMA ReadBlockStep ==
  ASSUME LogInv, ReadBlock
  PROVE  LogInv'
<1> DEFINE last == IF next + BlockSize < Len(file) THEN next + BlockSize ELSE Len(file)
<1>1. /\ phase = "read" /\ Len(buffer_) < HeaderSize /\ ~eof_
      /\ buffer_' = SubSeq(file, next + 1, last) /\ eof_' = ShortRead(last - next)
      /\ next' = last /\ UNCHANGED <<writerVars, ended>> /\ phase' = phase
      /\ in_fragmented_record' = in_fragmented_record /\ scratch' = scratch
      /\ out' = out /\ reported' = reported /\ file' = file
  BY DEF ReadBlock, writerVars
<1>2. PICK to : to = last
  OBVIOUS
<1>a. next \in Nat /\ Len(file) \in Nat /\ next <= Len(file)
  BY ReaderIs
<1>3. to \in next..Len(file) /\ to \in Nat
  <2>1. CASE next + BlockSize < Len(file)
    BY <1>2, <1>a, <2>1, Sizing
  <2>2. CASE ~(next + BlockSize < Len(file))
    BY <1>2, <1>a, <2>2
  <2> QED
    BY <2>1, <2>2
<1> HIDE DEF last
<1>4. /\ buffer_' \in Seq(Cell) /\ Len(buffer_') = to - next
      /\ \A i \in 1..(to - next) : buffer_'[i] = file[next + i]
  <2>1. buffer_' = SubSeq(file, next + 1, to)
    BY <1>1, <1>2
  <2>2. \A i \in (next + 1)..to : file[i] \in Cell
    BY <1>3, ReaderIs
  <2>3. next + 1 \in Int /\ to \in Int
    BY <1>3, ReaderIs
  <2>4. /\ SubSeq(file, next + 1, to) \in Seq(Cell)
        /\ Len(SubSeq(file, next + 1, to)) =
             IF next + 1 <= to THEN to - (next + 1) + 1 ELSE 0
        /\ \A i \in 1..(to - (next + 1) + 1) :
             SubSeq(file, next + 1, to)[i] = file[next + 1 + i - 1]
    BY <2>2, <2>3, SubSeqProperties
  <2>5. /\ (IF next + 1 <= to THEN to - (next + 1) + 1 ELSE 0) = to - next
        /\ to - (next + 1) + 1 = to - next
        /\ \A i \in 1..(to - next) : next + 1 + i - 1 = next + i
    BY <1>3, <1>a
  <2> QED
    BY <2>1, <2>4, <2>5
<1>5. next' = to /\ to \in 0..Len(file) /\ eof_' = (to - next < BlockSize)
  BY <1>1, <1>2, <1>3, ReaderIs DEF ShortRead
<1>6. Position' = next
  BY <1>3, <1>4, <1>5, ReaderIs DEF Position
<1>7. ReaderInv'
  <2>1. Len(buffer_') <= next' /\ \A i \in 1..Len(buffer_') : buffer_'[i] = file'[Position' + i]
    <3>1. to - next <= to
      BY <1>3, <1>a
    <3> QED
      BY <1>1, <1>4, <1>5, <1>6, <3>1
  <2>2. ASSUME in_fragmented_record
        PROVE  \E a \in 0..(Len(file') - 1) :
                 /\ Whole(file', a)
                 /\ scratch' = Payload(file'[a + 1].r, 0, file'[a + 1].at + file'[a + 1].len)
                 /\ Until(file', a) <= Position' /\ Position' < Until(file', a) + HeaderSize
                 /\ Len(buffer_') >= HeaderSize \/ eof_'
    <3>1. PICK a \in 0..(Len(file) - 1) : Begun(a)
      BY <1>1, <2>2, BegunIs
    <3>2. Position = Until(file, a) /\ Whole(file, a)
      BY <1>1, <3>1, ReaderIs, Sizing DEF Begun
    <3>3. Until(file, a) <= next /\ next < Until(file, a) + HeaderSize
      BY <1>1, <3>2, ReaderIs, Sizing
    <3>4. Len(buffer_') >= HeaderSize \/ eof_'
      <4>1. to - next \in Nat /\ (to - next < BlockSize \/ to - next >= HeaderSize)
        BY <1>3, <1>a, Sizing
      <4> QED
        BY <1>4, <1>5, <4>1
    <3> QED
      BY <1>1, <1>6, <3>1, <3>2, <3>3, <3>4 DEF Begun
  <2>3. phase' # "write"
    BY <1>1
  <2> QED
    BY <1>1, <2>1, <2>2, <2>3 DEF ReaderInv
<1>8. eof_' \in BOOLEAN
  BY <1>5
<1> QED
  BY <1>1, <1>4, <1>5, <1>7, <1>8, ReaderIs, ReaderKeeps

LEMMA ReadFailsStep ==
  ASSUME LogInv, ReadFails
  PROVE  LogInv'
<1>1. /\ phase' = "eof" /\ buffer_' = << >> /\ eof_' = TRUE /\ reported' = TRUE
      /\ faults < MaxFaults /\ faults' = faults + 1
      /\ file' = file /\ block_offset_' = block_offset_ /\ records' = records
      /\ returned' = returned /\ done' = done /\ begin' = begin /\ ended' = ended
      /\ next' = next /\ in_fragmented_record' = in_fragmented_record
      /\ scratch' = scratch /\ out' = out
  BY DEF ReadFails
<1>2. TypeOK /\ Headers(file) /\ Chained(file) /\ WriterInv
  BY DEF LogInv, NoPhantom
<1>3. faults' \in 0..MaxFaults
  BY <1>1, <1>2, Sizing DEF TypeOK
<1>4. buffer_' \in Seq(Cell)
  BY <1>1
<1>5. NoPhantom'
  <2>1. TypeOK'
    BY <1>1, <1>2, <1>3, <1>4 DEF TypeOK
  <2> QED
    BY <1>1, <2>1, ReaderIs DEF NoPhantom, Record
<1>6. Headers(file)' /\ Chained(file)'
  BY <1>1, <1>2 DEF Headers, Chained
<1>7. WriterInv'
  BY <1>1, <1>2 DEF WriterInv
<1>8. ReaderInv'
  <2>1. Len(buffer_') = 0 /\ next' \in Nat
    BY <1>1, ReaderIs
  <2>2. Len(buffer_') <= next' /\ 1..Len(buffer_') = {}
    BY <2>1
  <2> QED
    BY <1>1, <2>2 DEF ReaderInv
<1> QED
  BY <1>5, <1>6, <1>7, <1>8 DEF LogInv

LEMMA EndOfFileStep ==
  ASSUME LogInv, EndOfFile
  PROVE  LogInv'
<1>1. /\ phase = "read" /\ phase' = "eof" /\ buffer_' = << >> /\ UNCHANGED <<writerVars, ended>>
      /\ next' = next /\ eof_' = eof_ /\ in_fragmented_record' = in_fragmented_record
      /\ scratch' = scratch /\ out' = out
  BY DEF EndOfFile
<1>2. reported' \in BOOLEAN
  BY ReaderIs DEF EndOfFile, ReportCorruption
<1>3. ReaderInv'
  <2>1. Len(buffer_') = 0 /\ next' \in Nat
    BY <1>1, ReaderIs
  <2>2. Len(buffer_') <= next' /\ 1..Len(buffer_') = {}
    BY <2>1
  <2> QED
    BY <1>1, <2>2 DEF ReaderInv
<1>4. buffer_' \in Seq(Cell)
  BY <1>1
<1> QED
  BY <1>1, <1>2, <1>3, <1>4, ReaderIs, ReaderKeeps

LEMMA BadRecordStep ==
  ASSUME LogInv, BadRecord
  PROVE  LogInv'
<1>1. /\ phase = "read" /\ phase' = phase /\ buffer_' = << >> /\ UNCHANGED <<writerVars, ended>>
      /\ next' = next /\ eof_' = eof_ /\ in_fragmented_record' = FALSE
      /\ scratch' = << >> /\ out' = out
  BY DEF BadRecord, AtHeader, FragmentedAfterBad
<1>2. reported' \in BOOLEAN
  BY ReaderIs DEF BadRecord, ReportCorruption, Blank
<1>3. ReaderInv'
  <2>1. Len(buffer_') = 0 /\ next' \in Nat
    BY <1>1, ReaderIs
  <2>2. Len(buffer_') <= next' /\ 1..Len(buffer_') = {}
    BY <2>1
  <2> QED
    BY <1>1, <2>2 DEF ReaderInv
<1>4. buffer_' \in Seq(Cell) /\ scratch' \in Seq(Cell)
  BY <1>1
<1> QED
  BY <1>1, <1>2, <1>3, <1>4, ReaderIs, ReaderKeeps

\* A header that passes the checks is the one of a whole fragment of the file.
LEMMA IntactIs ==
  ASSUME LogInv, AtHeader, Intact
  PROVE  LET c == file[Position + 1]
         IN  /\ Position \in 0..(Len(file) - 1) /\ Whole(file, Position)
             /\ ShownLength = c.len /\ ShownType = c.type
             /\ c.r \in Nat /\ c.at \in Nat /\ c.len \in Nat
             /\ Fragment = Payload(c.r, c.at, c.len)
             /\ HeaderSize + c.len <= Len(buffer_)
<1>1. PICK b \in Seq(Cell), q \in Nat, n \in Nat :
        b = buffer_ /\ q = Position /\ n = Len(b)
  BY ReaderIs
<1>2. /\ file \in Seq(Cell) /\ q + n <= Len(file) /\ Len(file) \in Nat
      /\ \A i \in 1..n : b[i] = file[q + i]
  BY <1>1, ReaderIs
<1>3. n >= HeaderSize
  BY <1>1 DEF AtHeader
<1>4. PICK h : h = b[1]
  OBVIOUS
<1>5. h = file[q + 1] /\ q \in 0..(Len(file) - 1) /\ q < Len(file)
  BY <1>2, <1>3, <1>4, Sizing
<1>6. h.r \in Nat /\ h.at \in Nat /\ h.len \in Nat /\ h.type \in RecordType \cup {"zero"}
  <2>1. q + 1 \in 1..Len(file)
    BY <1>1, <1>2, <1>5
  <2> QED
    BY <1>2, <1>5, <2>1, FileCell
<1>7. /\ Opens(h) /\ SubSeq(b, 1, HeaderSize) = Header(h.r, h.type, h.at, h.len)
      /\ HeaderSize + h.len <= n
      /\ SubSeq(b, HeaderSize + 1, HeaderSize + h.len) = Payload(h.r, h.at, h.len)
  BY <1>1, <1>4 DEF Intact, Opens
<1>8. ASSUME NEW i \in 1..HeaderSize
      PROVE  b[i] = HeaderCell(h.r, i, h.type, h.at, h.len) /\ file[q + i] = b[i]
  <2>1. SubSeq(b, 1, HeaderSize)[i] = b[i]
    BY <1>1, <1>3, Sizing
  <2>2. Header(h.r, h.type, h.at, h.len)[i] = HeaderCell(h.r, i, h.type, h.at, h.len)
    BY DEF Header
  <2>3. i \in 1..n
    BY <1>1, <1>3, Sizing
  <2> QED
    BY <1>2, <1>7, <2>1, <2>2, <2>3
<1>9. ASSUME NEW i \in 1..h.len
      PROVE  file[q + HeaderSize + i] = Byte(h.r, h.at + i)
  <2>1. /\ HeaderSize + i \in 1..n /\ q + (HeaderSize + i) = q + HeaderSize + i
        /\ HeaderSize + 1 \in 1..(n + 1) /\ HeaderSize + h.len \in 0..n
        /\ i \in 1..((HeaderSize + h.len) - (HeaderSize + 1) + 1)
        /\ (HeaderSize + 1) + i - 1 = HeaderSize + i
    BY <1>1, <1>6, <1>7, Sizing
  <2>2. SubSeq(b, HeaderSize + 1, HeaderSize + h.len)[i] = b[(HeaderSize + 1) + i - 1]
    <3>1. /\ HeaderSize + 1 \in Int /\ HeaderSize + h.len \in Int
          /\ \A j \in (HeaderSize + 1)..(HeaderSize + h.len) : j \in 1..n
      BY <1>1, <1>6, <1>7, Sizing
    <3>2. \A j \in (HeaderSize + 1)..(HeaderSize + h.len) : b[j] \in Cell
      BY <1>1, <3>1
    <3> QED
      BY <2>1, <3>1, <3>2, SubSeqProperties
  <2>3. Payload(h.r, h.at, h.len)[i] = Byte(h.r, h.at + i)
    BY DEF Payload
  <2> QED
    BY <1>2, <1>7, <2>1, <2>2, <2>3
<1>10. Until(file, q) <= Len(file)
  <2>1. q + HeaderSize + h.len <= Len(file)
    BY <1>1, <1>2, <1>6, <1>7, Sizing
  <2> QED
    BY <1>5, <2>1 DEF Until
<1>11. Whole(file, q)
  BY <1>5, <1>7, <1>8, <1>9, <1>10 DEF Whole
<1>12. ShownLength = h.len /\ ShownType = h.type
  <2>1. HeaderSize \in 1..HeaderSize
    BY Sizing
  <2>2. b[HeaderSize] = HeaderCell(h.r, HeaderSize, h.type, h.at, h.len)
    BY <1>8, <2>1
  <2>3. b[HeaderSize].type = h.type
    BY <2>2 DEF HeaderCell
  <2> QED
    BY <1>1, <1>4, <2>3 DEF ShownLength, ShownType
<1>13. Fragment = Payload(h.r, h.at, h.len)
  BY <1>1, <1>7, <1>12 DEF Fragment
<1> QED
  BY <1>1, <1>5, <1>6, <1>7, <1>11, <1>12, <1>13

\* The reader moves behind the fragment.
LEMMA ConsumeIs ==
  ASSUME LogInv, AtHeader, Intact, Consume, next' = next, file' = file
  PROVE  /\ buffer_' \in Seq(Cell) /\ Len(buffer_') <= next'
         /\ \A i \in 1..Len(buffer_') : buffer_'[i] = file'[Position' + i]
         /\ Position' = Until(file, Position)
<1>1. PICK b \in Seq(Cell), q \in Nat, n \in Nat, len \in Nat :
        b = buffer_ /\ q = Position /\ n = Len(b) /\ len = file[Position + 1].len
  BY ReaderIs, IntactIs
<1>2. /\ q + n = next /\ HeaderSize + len <= n /\ ShownLength = len
      /\ \A i \in 1..n : b[i] = file[q + i]
  BY <1>1, ReaderIs, IntactIs
<1>3. PICK e \in Nat : e = HeaderSize + len
  BY <1>1, Sizing
<1>4. buffer_' = SubSeq(b, e + 1, n)
  BY <1>1, <1>2, <1>3 DEF Consume
<1>5. e <= n /\ e + 1 \in Int /\ n \in Int /\ \A j \in (e + 1)..n : j \in 1..n
  BY <1>1, <1>2, <1>3
<1>6. \A j \in (e + 1)..n : b[j] \in Cell
  BY <1>1, <1>5
<1>7. /\ SubSeq(b, e + 1, n) \in Seq(Cell)
      /\ Len(SubSeq(b, e + 1, n)) = IF e + 1 <= n THEN n - (e + 1) + 1 ELSE 0
      /\ \A i \in 1..(n - (e + 1) + 1) : SubSeq(b, e + 1, n)[i] = b[e + 1 + i - 1]
  BY <1>5, <1>6, SubSeqProperties
<1>8. /\ (IF e + 1 <= n THEN n - (e + 1) + 1 ELSE 0) = n - e
      /\ n - (e + 1) + 1 = n - e
      /\ \A i \in 1..(n - e) : e + 1 + i - 1 = e + i /\ e + i \in 1..n
                               /\ q + (e + i) = (q + e) + i
  <2>1. /\ (IF e + 1 <= n THEN n - (e + 1) + 1 ELSE 0) = n - e
        /\ n - (e + 1) + 1 = n - e
    BY <1>5
  <2>2. ASSUME NEW i \in 1..(n - e)
        PROVE  e + 1 + i - 1 = e + i /\ e + i \in 1..n /\ q + (e + i) = (q + e) + i
    BY <1>5
  <2> QED
    BY <2>1, <2>2
<1>9. Len(buffer_') = n - e /\ buffer_' \in Seq(Cell)
  BY <1>4, <1>7, <1>8
<1>10. next' = q + n /\ Len(buffer_') <= next'
  <2>1. n - e <= q + n
    BY <1>1, <1>3
  <2> QED
    BY <1>2, <1>9, <2>1
<1>11. Position' = q + e
  <2>1. q + n - (n - e) = q + e
    BY <1>1, <1>3
  <2> QED
    BY <1>9, <1>10, <2>1 DEF Position
<1>12. \A i \in 1..Len(buffer_') : buffer_'[i] = file'[Position' + i]
  <2>1. ASSUME NEW i \in 1..(n - e) PROVE buffer_'[i] = file[(q + e) + i]
    <3>1. SubSeq(b, e + 1, n)[i] = b[e + i]
      BY <1>7, <1>8
    <3>2. b[e + i] = file[q + (e + i)]
      BY <1>2, <1>8
    <3> QED
      BY <1>4, <1>8, <3>1, <3>2
  <2> QED
    BY <1>9, <1>11, <2>1
<1>13. Until(file, q) = q + e
  BY <1>1, <1>3, Sizing DEF Until
<1> QED
  BY <1>1, <1>9, <1>10, <1>11, <1>12, <1>13

\* A fragment behind one that has begun continues its record.
LEMMA Joined ==
  ASSUME LogInv, AtHeader, Intact, in_fragmented_record, ShownType \in {"middle", "last"}
  PROVE  LET c == file[Position + 1]
         IN  scratch \o Fragment = Payload(c.r, 0, c.at + c.len)
<1> DEFINE c == file[Position + 1]
<1>1. /\ Position \in 0..(Len(file) - 1) /\ Whole(file, Position)
      /\ ShownType = c.type /\ c.r \in Nat /\ c.at \in Nat /\ c.len \in Nat
      /\ Fragment = Payload(c.r, c.at, c.len)
  BY IntactIs
<1>2. PICK a \in 0..(Len(file) - 1) : Begun(a)
  BY BegunIs DEF AtHeader
<1>3. /\ Whole(file, a) /\ Until(file, a) <= Position /\ Position < Until(file, a) + HeaderSize
      /\ scratch = Payload(file[a + 1].r, 0, file[a + 1].at + file[a + 1].len)
  BY <1>2 DEF Begun
<1>4. Opens(c) /\ c.type \in {"middle", "last"}
  BY <1>1 DEF Whole
<1>5. Continues(file, a, Position)
  BY <1>1, <1>3, <1>4, ReaderIs DEF Chained
<1>6. scratch = Payload(c.r, 0, c.at)
  BY <1>3, <1>5 DEF Continues
<1> HIDE DEF c
<1>7. scratch \o Fragment = Payload(c.r, 0, c.at + c.len)
  BY <1>1, <1>6, PayloadConcat
<1> QED
  BY <1>7 DEF c

\* A fragment with which a record ends.
LEMMA Returned ==
  ASSUME LogInv, NEW x \in Seq(Cell), \E r \in DOMAIN records : x = Record(r)
  PROVE  /\ Append(out, x) \in Seq(Seq(Cell))
         /\ \A i \in 1..Len(Append(out, x)) :
              \E r \in DOMAIN records : Append(out, x)[i] = Record(r)
<1>1. out \in Seq(Seq(Cell))
  BY ReaderIs
<1>2. /\ Append(out, x) \in Seq(Seq(Cell)) /\ Len(Append(out, x)) = Len(out) + 1
      /\ Len(out) \in Nat
  BY <1>1
<1>3. ASSUME NEW i \in 1..Len(Append(out, x))
      PROVE  (i \in 1..Len(out) /\ Append(out, x)[i] = out[i]) \/ Append(out, x)[i] = x
  BY <1>1, <1>2
<1> QED
  BY <1>2, <1>3, ReaderIs

LEMMA FragmentStep ==
  ASSUME LogInv, FullRecord \/ FirstFragment \/ MiddleFragment \/ LastFragment
  PROVE  LogInv'
<1> DEFINE c == file[Position + 1]
<1>1. /\ AtHeader /\ Intact /\ Consume /\ UNCHANGED <<writerVars, ended>>
      /\ phase = "read" /\ phase' = phase /\ next' = next /\ eof_' = eof_ /\ file' = file
  BY DEF FullRecord, FirstFragment, MiddleFragment, LastFragment, Start, AtHeader, writerVars
<1>2. reported' \in BOOLEAN
  BY ReaderIs DEF FullRecord, FirstFragment, MiddleFragment, LastFragment, Start,
                  ReportCorruption
<1>3. /\ Position \in 0..(Len(file) - 1) /\ Whole(file, Position)
      /\ ShownType = c.type /\ c.r \in Nat /\ c.at \in Nat /\ c.len \in Nat
      /\ Fragment = Payload(c.r, c.at, c.len)
  BY <1>1, IntactIs
<1>4. /\ buffer_' \in Seq(Cell) /\ Len(buffer_') <= next'
      /\ \A i \in 1..Len(buffer_') : buffer_'[i] = file'[Position' + i]
      /\ Position' = Until(file, Position)
  BY <1>1, ConsumeIs
<1>5. Fragment \in Seq(Cell)
  BY <1>3, PayloadIs
<1>6. /\ c.r \in DOMAIN records
      /\ c.type \in {"full", "first"} => c.at = 0
      /\ c.type \in {"full", "last"} => c.at + c.len = records[c.r]
  <2>1. Position + 1 \in 1..Len(file) /\ Opens(c)
    BY <1>3, ReaderIs DEF Whole
  <2> QED
    BY <2>1, ReaderIs DEF Headers
\* It is enough that the record read so far ends with this fragment.
<1>7. ASSUME in_fragmented_record' \in BOOLEAN, scratch' \in Seq(Cell),
             out' \in Seq(Seq(Cell)),
             \A i \in 1..Len(out') : \E r \in DOMAIN records : out'[i] = Record(r),
             in_fragmented_record' => scratch' = Payload(c.r, 0, c.at + c.len)
      PROVE  LogInv'
  <2>1. PICK q \in 0..(Len(file) - 1) : q = Position
    BY <1>3
  <2>2. in_fragmented_record' =>
          /\ Whole(file', q) /\ Position' = Until(file', q)
          /\ scratch' = Payload(file'[q + 1].r, 0, file'[q + 1].at + file'[q + 1].len)
    BY <1>1, <1>3, <1>4, <1>7, <2>1
  <2>3. q \in 0..(Len(file') - 1) /\ phase' # "write"
    BY <1>1, <2>1
  <2>4. ReaderInv'
    <3>1. in_fragmented_record' =>
            \E a \in 0..(Len(file') - 1) :
              /\ Whole(file', a) /\ Position' = Until(file', a)
              /\ scratch' = Payload(file'[a + 1].r, 0, file'[a + 1].at + file'[a + 1].len)
      BY <2>2, <2>3, Zenon
    <3> QED
      BY <1>4, <2>3, <3>1, Zenon DEF ReaderInv
  <2> QED
    BY <1>1, <1>2, <1>4, <1>7, <2>4, ReaderIs, ReaderKeeps
<1> HIDE DEF c
<1>8. CASE FullRecord
  <2>1. /\ ShownType = "full" /\ out' = Append(out, Fragment)
        /\ in_fragmented_record' = FALSE /\ scratch' = << >>
    BY <1>8 DEF FullRecord, Start
  <2>2. Fragment = Record(c.r)
    BY <1>3, <1>6, <2>1 DEF Record
  <2>3. /\ out' \in Seq(Seq(Cell))
        /\ \A i \in 1..Len(out') : \E r \in DOMAIN records : out'[i] = Record(r)
    BY <1>5, <1>6, <2>1, <2>2, Returned
  <2>4. in_fragmented_record' \in BOOLEAN /\ ~in_fragmented_record'
    BY <2>1, Zenon
  <2>5. scratch' \in Seq(Cell)
    <3>1. scratch' = << >>
      BY <2>1, Zenon
    <3> QED
      BY <3>1
  <2> QED
    BY <1>7, <2>3, <2>4, <2>5
<1>9. CASE FirstFragment
  <2>1. /\ ShownType = "first" /\ out' = out /\ in_fragmented_record' = TRUE
        /\ scratch' = Fragment
    BY <1>9 DEF FirstFragment, Start
  <2>2. c.at = 0 /\ c.at + c.len = c.len
    BY <1>3, <1>6, <2>1
  <2>3. scratch' = Payload(c.r, 0, c.at + c.len)
    BY <1>3, <2>1, <2>2
  <2> QED
    BY <1>5, <1>7, <2>1, <2>3, ReaderIs
<1>10. CASE MiddleFragment
  <2>1. /\ ShownType = "middle" /\ out' = out
        /\ in_fragmented_record' = in_fragmented_record
        /\ scratch' = IF in_fragmented_record THEN scratch \o Fragment ELSE scratch
    BY <1>10 DEF MiddleFragment
  <2>2. scratch' \in Seq(Cell)
    BY <1>5, <2>1, ReaderIs
  <2>3. in_fragmented_record => scratch' = Payload(c.r, 0, c.at + c.len)
    BY <1>1, <2>1, Joined DEF c
  <2> QED
    BY <1>7, <2>1, <2>2, <2>3, ReaderIs
<1>11. CASE LastFragment
  <2>1. /\ ShownType = "last" /\ in_fragmented_record' = FALSE
        /\ out' = IF in_fragmented_record THEN Append(out, scratch \o Fragment) ELSE out
        /\ scratch' = IF in_fragmented_record THEN << >> ELSE scratch
    BY <1>11 DEF LastFragment
  <2>2. scratch' \in Seq(Cell)
    BY <2>1, ReaderIs
  <2>3. CASE in_fragmented_record
    <3>1. scratch \o Fragment = Record(c.r)
      BY <1>1, <1>3, <1>6, <2>1, <2>3, Joined DEF c, Record
    <3>2. scratch \o Fragment \in Seq(Cell)
      BY <1>5, ReaderIs
    <3>3. /\ out' \in Seq(Seq(Cell))
          /\ \A i \in 1..Len(out') : \E r \in DOMAIN records : out'[i] = Record(r)
      BY <1>6, <2>1, <2>3, <3>1, <3>2, Returned
    <3> QED
      BY <1>7, <2>1, <2>2, <3>3
  <2>4. CASE ~in_fragmented_record
    BY <1>7, <2>1, <2>2, <2>4, ReaderIs
  <2> QED
    BY <2>3, <2>4
<1> QED
  BY <1>8, <1>9, <1>10, <1>11

-----------------------------------------------------------------------------
(* Theorems.                                                               *)

\* LogInv is an invariant of writer, crash and reader.
THEOREM LogInvariant == Spec => []LogInv
<1>1. ASSUME LogInv, [Next]_vars PROVE LogInv'
  <2>1. CASE AddRecord
    BY <1>1, <2>1, AddRecordStep
  <2>2. CASE EmitPhysicalRecord
    BY <1>1, <2>2, EmitStep
  <2>3. CASE Close \/ Kill \/ KillInside \/ PowerLoss
    BY <1>1, <2>3, EndStep
  <2>4. CASE ReadBlock
    BY <1>1, <2>4, ReadBlockStep
  <2>5. CASE EndOfFile
    BY <1>1, <2>5, EndOfFileStep
  <2>6. CASE BadRecord
    BY <1>1, <2>6, BadRecordStep
  <2>7. CASE FullRecord \/ FirstFragment \/ MiddleFragment \/ LastFragment
    BY <1>1, <2>7, FragmentStep
  <2>8. CASE ReadFails
    BY <1>1, <2>8, ReadFailsStep
  <2>9. CASE Done \/ UNCHANGED vars
    <3>1. UNCHANGED vars
      BY <2>9 DEF Done
    <3> QED
      BY <1>1, <3>1 DEF vars, writerVars, readerVars, LogInv, NoPhantom, TypeOK, Record,
                        Headers, Chained, WriterInv, ReaderInv, Position
  <2> QED
    BY <1>1, <2>1, <2>2, <2>3, <2>4, <2>5, <2>6, <2>7, <2>8, <2>9 DEF Next, ReaderStep
<1> QED
  BY <1>1, InitLog, PTL DEF Spec

\* A record that log::Reader returns was passed to AddRecord() as it is: no crash, hole,
\* torn write or failed mmap() makes it put parts of two records together.
THEOREM NoPhantomRecord == Spec => []NoPhantom
<1>1. LogInv => NoPhantom
  BY DEF LogInv
<1> QED
  BY <1>1, LogInvariant, PTL

-----------------------------------------------------------------------------
(* Files without a failed append: the inductive invariant of ReadBack and  *)
(* CleanIsSilent.                                                          *)

Aligned(n) == n % BlockSize = 0
\* The beginning of the block that a position is in.
Base(n) == n - (n % BlockSize)

\* Where the fragment behind the one at a begins: there or, when less than a header is
\* left of the block, at the next one.
After(f, a) ==
  IF Base(a) + BlockSize - Until(f, a) < HeaderSize THEN Base(a) + BlockSize ELSE Until(f, a)

\* A fragment ends its record; the records that are complete with it; and what the one
\* behind it is.
Ends(c) == c.type \in {"full", "last"}
Complete(c) == IF Ends(c) THEN c.r ELSE c.r - 1
Follows(c, d) ==
  IF Ends(c) THEN d.r = c.r + 1 /\ d.type \in {"full", "first"}
             ELSE d.r = c.r /\ d.at = c.at + c.len /\ d.type \in {"middle", "last"}

\* Fragments are inside blocks, and each is the one that has to come.
Linked(f) ==
  /\ Whole(f, 0) => f[1].r = 1 /\ f[1].type \in {"full", "first"}
  /\ \A a \in 0..(Len(f) - 1) : Whole(f, a) =>
       /\ Until(f, a) <= Base(a) + BlockSize
       /\ Whole(f, After(f, a)) => Follows(f[a + 1], f[After(f, a) + 1])

Final(f, a) == Whole(f, a) /\ ~Whole(f, After(f, a))

\* The writer: the one final fragment is at the end of the file, and block_offset_ is
\* where it ends in its block.
Resting == done = -1 \/ begin
LastWritten(e) ==
  /\ Whole(file, e) /\ Until(file, e) = Len(file)
  /\ Base(e) = Len(file) - block_offset_
  /\ file[e + 1].r = IF done >= 0 /\ begin THEN Len(records) - 1 ELSE Len(records)
  /\ Ends(file[e + 1]) <=> Resting
  /\ ~Resting => file[e + 1].at + file[e + 1].len = done
WriterEnd ==
  /\ ended = "none" /\ out = << >> /\ ~eof_ /\ ~reported
  /\ block_offset_ <= Len(file) /\ Aligned(Len(file) - block_offset_)
  /\ returned \subseteq 1..(IF done = -1 THEN Len(records) ELSE Len(records) - 1)
  /\ Len(file) = 0 => /\ block_offset_ = 0 /\ Resting
                      /\ Len(records) = IF done = -1 THEN 0 ELSE 1
  /\ Len(file) > 0 => Whole(file, 0) /\ \E e \in 0..(Len(file) - 1) : LastWritten(e)
  /\ \A a \in 0..(Len(file) - 1) : Final(file, a) => Until(file, a) = Len(file)

\* The file that the reader finds: behind the final fragment no block begins with one,
\* every acknowledged record is complete with it, and, unless the writer was killed
\* inside AddRecord(), nothing but zeros comes behind it.
Silent == ended \in {"close", "kill"}
Dead(f, p) == \A q \in 0..(Len(f) - 1) : q > p /\ Aligned(q) => ~Whole(f, q)
Blanks(f, p) ==
  /\ \A x \in (p + 1)..Len(f) : f[x] = Zero
  /\ p = Len(f) \/ Aligned(Len(f))
Finished ==
  /\ ~Whole(file, 0) =>
       Dead(file, 0) /\ returned = {} /\ (Silent => Blanks(file, 0))
  /\ \A a \in 0..(Len(file) - 1) : Final(file, a) =>
       /\ Dead(file, After(file, a)) /\ returned \subseteq 1..Complete(file[a + 1])
       /\ Silent => Ends(file[a + 1]) /\ Blanks(file, Until(file, a))

\* The reader has read the block of x to its end.
InBlock(x) ==
  \/ ~eof_ /\ next = Base(x) + BlockSize
  \/ eof_ /\ next = Len(file) /\ next < Base(x) + BlockSize
\* It has read nothing; or up to a fragment; or beyond the final one.
AtStart ==
  /\ Position = 0 /\ Len(out) = 0 /\ ~in_fragmented_record
  /\ (next = 0 /\ ~eof_) \/ InBlock(0)
AtFragment(a) ==
  /\ Whole(file, a) /\ Len(out) = Complete(file[a + 1])
  /\ in_fragmented_record <=> ~Ends(file[a + 1])
  /\ in_fragmented_record =>
       scratch = Payload(file[a + 1].r, 0, file[a + 1].at + file[a + 1].len)
  /\ \/ Position = Until(file, a) /\ InBlock(a)
     \/ Position = After(file, a) /\ InBlock(After(file, a))
AtTail ==
  /\ ~in_fragmented_record /\ returned \subseteq 1..Len(out)
  /\ Aligned(Position) \/ (eof_ /\ Len(buffer_) = 0)
  /\ \A q \in 0..(Len(file) - 1) : q >= Position /\ Aligned(q) => ~Whole(file, q)
  /\ IF eof_ THEN next = Len(file) ELSE Aligned(next)
  /\ Silent => Aligned(Len(file)) /\ \A x \in (Position + 1)..Len(file) : file[x] = Zero
Reading == AtStart \/ (\E a \in 0..(Len(file) - 1) : AtFragment(a)) \/ AtTail

CleanInv ==
  /\ phase = "write" => ended = "none"
  /\ faults = 0 /\ ended # "power" =>
    /\ ReadBack /\ CleanIsSilent /\ Linked(file)
    /\ phase = "write" => WriterEnd
    /\ phase # "write" => Finished
    /\ phase = "read" => Reading

-----------------------------------------------------------------------------
(* Blocks.                                                                 *)

LEMMA DivMod ==
  ASSUME NEW b \in Nat, b > 0, NEW n \in Nat
  PROVE  n \div b \in Nat /\ n % b \in 0..(b - 1) /\ n = b * (n \div b) + (n % b)
OBVIOUS

LEMMA ModOfSum ==
  ASSUME NEW b \in Nat, b > 0, NEW q \in Nat, NEW r \in 0..(b - 1)
  PROVE  (b * q + r) % b = r
OBVIOUS

LEMMA AlignedNext ==
  ASSUME NEW n \in Nat, Aligned(n)
  PROVE  Aligned(n + BlockSize)
<1>1. PICK q \in Nat : n = BlockSize * q
  BY DivMod, Sizing DEF Aligned
<1>2. n + BlockSize = BlockSize * (q + 1) + 0
  BY <1>1, Sizing
<1>3. (BlockSize * (q + 1) + 0) % BlockSize = 0
  BY ModOfSum, Sizing
<1> QED
  BY <1>2, <1>3 DEF Aligned

LEMMA AlignedZero == Aligned(0)
<1>1. (BlockSize * 0 + 0) % BlockSize = 0
  BY ModOfSum, Sizing
<1>2. BlockSize * 0 + 0 = 0
  BY Sizing
<1> QED
  BY <1>1, <1>2 DEF Aligned

LEMMA AlignedUnique ==
  ASSUME NEW n \in Nat, NEW m \in Nat, n <= m, m < n + BlockSize, Aligned(n), Aligned(m)
  PROVE  n = m
<1> DEFINE b == BlockSize
<1>0. b \in Nat /\ b > 0
  BY Sizing
<1>1. PICK q \in Nat, p \in Nat : n = b * q /\ m = b * p
  <2>1. n = b * (n \div b) /\ m = b * (m \div b) /\ n \div b \in Nat /\ m \div b \in Nat
    BY <1>0, DivMod DEF Aligned
  <2> QED
    BY <2>1
<1> HIDE DEF b
<1>2. ASSUME NEW x \in Nat, NEW y \in Nat, x < y PROVE b * x + b <= b * y
  <2>1. PICK z \in Nat : y = x + 1 + z
    <3>1. y - x - 1 \in Nat /\ y = x + 1 + (y - x - 1)
      BY <1>2
    <3> QED
      BY <3>1
  <2>2. b * y = b * x + b + b * z
    BY <1>0, <2>1
  <2>3. b * z >= 0 /\ b * x \in Nat /\ b * z \in Nat
    BY <1>0
  <2> QED
    BY <1>0, <2>2, <2>3
<1>3. ~(q < p) /\ ~(p < q)
  <2>1. b * q \in Nat /\ b * p \in Nat
    BY <1>0, <1>1
  <2>2. b * p < b * q + b /\ b * q <= b * p
    BY <1>1 DEF b
  <2> QED
    BY <1>0, <1>2, <2>1, <2>2
<1> QED
  BY <1>1, <1>3

LEMMA AlignedRegion ==
  ASSUME NEW n \in Nat, n % RegionSize = 0
  PROVE  Aligned(n)
<1> DEFINE b == BlockSize
           r == RegionSize
<1>0. b \in Nat /\ b > 0 /\ r \in Nat /\ r > 0 /\ r % b = 0
  BY Sizing, LogAssumption
<1>1. PICK q \in Nat, p \in Nat : n = r * q /\ r = b * p
  <2>1. n = r * (n \div r) /\ r = b * (r \div b) /\ n \div r \in Nat /\ r \div b \in Nat
    BY <1>0, DivMod
  <2> QED
    BY <2>1
<1> HIDE DEF b, r
<1>2. n = b * (p * q) + 0 /\ p * q \in Nat
  BY <1>0, <1>1
<1>3. (b * (p * q) + 0) % b = 0
  BY <1>0, <1>2, ModOfSum
<1> QED
  BY <1>2, <1>3 DEF Aligned, b

LEMMA BaseIs ==
  ASSUME NEW n \in Nat
  PROVE  /\ Base(n) \in Nat /\ Aligned(Base(n))
         /\ Base(n) <= n /\ n < Base(n) + BlockSize
<1>1. PICK q \in Nat, r \in 0..(BlockSize - 1) : n = BlockSize * q + r /\ r = n % BlockSize
  <2>1. /\ n \div BlockSize \in Nat /\ n % BlockSize \in 0..(BlockSize - 1)
        /\ n = BlockSize * (n \div BlockSize) + (n % BlockSize)
    BY DivMod, Sizing
  <2> QED
    BY <2>1, Zenon
<1>2. BlockSize * q \in Nat
  BY Sizing
<1>3. Base(n) = BlockSize * q + 0
  BY <1>1, <1>2 DEF Base
<1>4. (BlockSize * q + 0) % BlockSize = 0
  BY ModOfSum, Sizing
<1>5. Aligned(Base(n))
  BY <1>3, <1>4 DEF Aligned
<1>6. Base(n) \in Nat /\ Base(n) <= n /\ n < Base(n) + BlockSize
  BY <1>1, <1>2, <1>3, Sizing
<1> QED
  BY <1>5, <1>6

LEMMA BaseUnique ==
  ASSUME NEW n \in Nat, NEW b \in Nat, Aligned(b), b <= n, n < b + BlockSize
  PROVE  Base(n) = b
<1>1. PICK c \in Nat : c = Base(n) /\ Aligned(c) /\ c <= n /\ n < c + BlockSize
  BY BaseIs
<1>2. CASE c <= b
  <2>1. b < c + BlockSize
    BY <1>1, Sizing
  <2> QED
    BY <1>1, <1>2, <2>1, AlignedUnique
<1>3. CASE b <= c
  <2>1. c < b + BlockSize
    BY <1>1, Sizing
  <2> QED
    BY <1>1, <1>3, <2>1, AlignedUnique
<1> QED
  BY <1>1, <1>2, <1>3

LEMMA AfterIs ==
  ASSUME NEW f \in Seq(Cell), NEW a \in Nat, Whole(f, a), Until(f, a) <= Base(a) + BlockSize
  PROVE  /\ After(f, a) \in Nat /\ Until(f, a) <= After(f, a)
         /\ After(f, a) < Until(f, a) + HeaderSize
         /\ \/ /\ After(f, a) = Until(f, a) /\ Base(After(f, a)) = Base(a)
               /\ Until(f, a) + HeaderSize <= Base(a) + BlockSize
            \/ /\ After(f, a) = Base(a) + BlockSize /\ Base(After(f, a)) = After(f, a)
               /\ Base(a) + BlockSize < Until(f, a) + HeaderSize
<1>1. PICK u \in Nat, b \in Nat :
        u = Until(f, a) /\ b = Base(a) /\ Aligned(b) /\ b <= a /\ a < u
  BY WholeCells, BaseIs
<1>2. u <= b + BlockSize
  BY <1>1
<1>3. CASE b + BlockSize - u < HeaderSize
  <2>1. After(f, a) = b + BlockSize
    BY <1>1, <1>3 DEF After
  <2>2. b + BlockSize \in Nat /\ Aligned(b + BlockSize)
    BY <1>1, AlignedNext, Sizing
  <2>3. Base(b + BlockSize) = b + BlockSize
    BY <2>2, BaseUnique, Sizing
  <2>4. b + BlockSize < u + HeaderSize
    BY <1>1, <1>3, Sizing
  <2> QED
    BY <1>1, <1>2, <2>1, <2>2, <2>3, <2>4
<1>4. CASE ~(b + BlockSize - u < HeaderSize)
  <2>1. After(f, a) = u
    BY <1>1, <1>4 DEF After
  <2>2. u + HeaderSize <= b + BlockSize /\ b <= u /\ u < b + BlockSize /\ u < u + HeaderSize
    BY <1>1, <1>4, Sizing
  <2>3. Base(u) = b
    BY <1>1, <2>2, BaseUnique
  <2> QED
    BY <1>1, <2>1, <2>2, <2>3
<1> QED
  BY <1>3, <1>4

-----------------------------------------------------------------------------
(* Files with the same whole fragments.                                    *)

SameWholes(g, h) ==
  \A a \in Nat :
    /\ Whole(g, a) <=> Whole(h, a)
    /\ Whole(h, a) => Until(g, a) = Until(h, a) /\ g[a + 1] = h[a + 1]

LEMMA SameFinal ==
  ASSUME NEW g \in Seq(Cell), NEW h \in Seq(Cell), SameWholes(g, h), Linked(h),
         NEW a \in Nat, Whole(g, a)
  PROVE  /\ Whole(h, a) /\ a \in 0..(Len(h) - 1) /\ Until(h, a) <= Base(a) + BlockSize
         /\ After(g, a) = After(h, a) /\ After(h, a) \in Nat
         /\ Until(g, a) = Until(h, a) /\ g[a + 1] = h[a + 1]
         /\ Final(g, a) <=> Final(h, a)
<1>1. Whole(h, a) /\ Until(g, a) = Until(h, a) /\ g[a + 1] = h[a + 1]
  BY DEF SameWholes
<1>2. a \in 0..(Len(h) - 1)
  BY <1>1 DEF Whole
<1>3. Until(h, a) <= Base(a) + BlockSize
  BY <1>1, <1>2 DEF Linked
<1>4. After(g, a) = After(h, a) /\ After(h, a) \in Nat
  BY <1>1, <1>3, AfterIs DEF After
<1>5. Final(g, a) <=> Final(h, a)
  BY <1>1, <1>4 DEF SameWholes, Final
<1> QED
  BY <1>1, <1>2, <1>3, <1>4, <1>5

LEMMA SameLinked ==
  ASSUME NEW g \in Seq(Cell), NEW h \in Seq(Cell), SameWholes(g, h), Linked(h)
  PROVE  Linked(g)
<1>1. Whole(g, 0) => g[1].r = 1 /\ g[1].type \in {"full", "first"}
  <2> SUFFICES ASSUME Whole(g, 0) PROVE g[1].r = 1 /\ g[1].type \in {"full", "first"}
    OBVIOUS
  <2>1. Whole(h, 0) /\ g[0 + 1] = h[0 + 1] /\ 0 + 1 = 1
    BY DEF SameWholes
  <2> QED
    BY <2>1 DEF Linked
<1>2. ASSUME NEW a \in 0..(Len(g) - 1), Whole(g, a)
      PROVE  /\ Until(g, a) <= Base(a) + BlockSize
             /\ Whole(g, After(g, a)) => Follows(g[a + 1], g[After(g, a) + 1])
  <2>1. a \in Nat
    OBVIOUS
  <2>2. /\ Whole(h, a) /\ a \in 0..(Len(h) - 1) /\ Until(h, a) <= Base(a) + BlockSize
        /\ After(g, a) = After(h, a) /\ After(h, a) \in Nat
        /\ Until(g, a) = Until(h, a) /\ g[a + 1] = h[a + 1]
    BY <1>2, <2>1, SameFinal
  <2>3. ASSUME Whole(g, After(g, a)) PROVE Follows(g[a + 1], g[After(g, a) + 1])
    <3>1. Whole(h, After(h, a)) /\ g[After(h, a) + 1] = h[After(h, a) + 1]
      BY <2>2, <2>3 DEF SameWholes
    <3>2. Follows(h[a + 1], h[After(h, a) + 1])
      BY <2>2, <3>1 DEF Linked
    <3> QED
      BY <2>2, <3>1, <3>2
  <2> QED
    BY <2>2, <2>3
<1> QED
  BY <1>1, <1>2 DEF Linked

\* A file and the zeros behind it.
Padded(g, h) ==
  /\ g \in Seq(Cell) /\ h \in Seq(Cell) /\ Len(h) <= Len(g)
  /\ \A p \in 1..Len(h) : g[p] = h[p]
  /\ \A p \in 1..Len(g) : p > Len(h) => g[p] = Zero

LEMMA PaddedSame ==
  ASSUME NEW g, NEW h, Padded(g, h)
  PROVE  SameWholes(g, h)
<1>1. g \in Seq(Cell) /\ h \in Seq(Cell) /\ Len(h) \in Nat
  BY DEF Padded
<1>2. ASSUME NEW a \in Nat, Whole(g, a)
      PROVE  Whole(h, a) /\ Until(h, a) = Until(g, a) /\ h[a + 1] = g[a + 1]
  <2>1. \A p \in Nat : a < p /\ p <= Until(g, a) => g[p] # Zero
    BY <1>1, <1>2, WholeCells
  <2>2. ASSUME NEW p \in 1..Len(g), a < p, p <= Until(g, a)
        PROVE  p <= Len(h) /\ g[p] = h[p]
    <3>1. g[p] # Zero
      BY <2>1, <2>2
    <3>2. p <= Len(h)
      BY <1>1, <3>1 DEF Padded
    <3>3. p \in 1..Len(h)
      BY <1>1, <3>2
    <3> QED
      BY <3>2, <3>3 DEF Padded
  <2> QED
    BY <1>1, <1>2, <2>2, WholeBefore
<1>3. ASSUME NEW a \in Nat, Whole(h, a)
      PROVE  Whole(g, a) /\ Until(g, a) = Until(h, a) /\ h[a + 1] = g[a + 1]
  BY <1>1, <1>3, WholeAfter DEF Padded
<1> QED
  BY <1>2, <1>3 DEF SameWholes

LEMMA PreallocatedPadded ==
  ASSUME NEW f \in Seq(Cell)
  PROVE  Padded(Preallocated(f), f) /\ Aligned(Len(Preallocated(f)))
<1>1. PICK n \in Nat, w \in Nat :
        n = Len(f) /\ w = RegionSize - (n % RegionSize)
  <2>1. PICK n \in Nat : n = Len(f)
    OBVIOUS
  <2>2. n % RegionSize \in 0..(RegionSize - 1)
    BY DivMod, Sizing
  <2>3. RegionSize - (n % RegionSize) \in Nat
    BY <2>2, Sizing
  <2> QED
    BY <2>1, <2>3, Zenon
<1>2. CASE n % RegionSize = 0
  <2>1. Preallocated(f) = f
    BY <1>1, <1>2 DEF Preallocated
  <2>2. Padded(f, f)
    BY DEF Padded
  <2> QED
    BY <1>1, <1>2, <2>1, <2>2, AlignedRegion
<1>3. CASE n % RegionSize # 0
  <2>1. PICK z : z = Zeros(w)
    OBVIOUS
  <2>2. z \in Seq(Cell) /\ Len(z) = w /\ \A i \in 1..w : z[i] = Zero
    BY <1>1, <2>1, ZeroIs DEF Zeros
  <2>3. Preallocated(f) = f \o Zeros(RegionSize - (Len(f) % RegionSize))
    BY <1>1, <1>3 DEF Preallocated
  <2>4. PICK g : g = f \o z
    OBVIOUS
  <2>5. Preallocated(f) = g
    BY <1>1, <2>1, <2>3, <2>4
  <2>6. g \in Seq(Cell) /\ Len(g) = n + w /\ \A p \in 1..n : g[p] = f[p]
    <3>1. f \o z \in Seq(Cell) /\ Len(f \o z) = Len(f) + Len(z)
      BY <2>2
    <3>2. \A p \in 1..Len(f) : g[p] = f[p]
      BY <2>2, <2>4
    <3> QED
      BY <1>1, <2>2, <2>4, <3>1, <3>2
  <2>7. ASSUME NEW p \in 1..Len(g), p > Len(f) PROVE g[p] = Zero
    <3>1. p - n \in 1..w
      BY <1>1, <2>6, <2>7
    <3>2. g[p] = z[p - n]
      BY <1>1, <2>2, <2>4, <2>6, <2>7
    <3> QED
      BY <2>2, <3>1, <3>2
  <2>8. Padded(g, f)
    BY <1>1, <2>6, <2>7 DEF Padded
  <2>9. (n + w) % RegionSize = 0
    <3> DEFINE r == RegionSize
    <3>1. r \in Nat /\ r > 0
      BY Sizing
    <3>2. PICK q \in Nat, x \in 0..(r - 1) : n = r * q + x /\ x = n % r
      <4>1. n \div r \in Nat /\ n % r \in 0..(r - 1) /\ n = r * (n \div r) + (n % r)
        BY <3>1, DivMod
      <4> QED
        BY <4>1, Zenon
    <3>3. w = r - x
      BY <1>1, <3>2
    <3> HIDE DEF r
    <3>4. n + w = r * (q + 1) + 0
      BY <3>1, <3>2, <3>3
    <3>5. (r * (q + 1) + 0) % r = 0
      BY <3>1, ModOfSum
    <3> QED
      BY <3>4, <3>5 DEF r
  <2> QED
    BY <2>5, <2>6, <2>8, <2>9, AlignedRegion
<1> QED
  BY <1>2, <1>3

-----------------------------------------------------------------------------
(* The fragment that AddRecord() appends comes where the one before says.  *)

LEMMA NextPlace ==
  ASSUME LogInv, phase = "write", done >= 0, Linked(file), WriterEnd
  PROVE  LET s == Len(file) + Len(Trailer)
         IN  /\ s \in Nat /\ Base(s) = s - OffsetInBlock /\ OffsetInBlock \in Nat
             /\ Len(file) = 0 => s = 0
             /\ \A e \in 0..(Len(file) - 1) : LastWritten(e) => After(file, e) = s
<1>1. TypeOK
  BY DEF LogInv, NoPhantom
<1>2. PICK n \in Nat, o \in Nat, k \in Nat :
        /\ n = Len(file) /\ o = block_offset_ /\ k = Len(Trailer)
        /\ o <= BlockSize /\ o <= n /\ Aligned(n - o)
  BY <1>1, TrailerIs, Sizing DEF TypeOK, WriterEnd
<1>3. /\ BlockSize - o < HeaderSize => k = BlockSize - o /\ OffsetInBlock = 0
      /\ ~(BlockSize - o < HeaderSize) => k = 0 /\ OffsetInBlock = o
  <2>1. CASE BlockSize - o < HeaderSize
    <3>1. PICK w \in Nat : w = BlockSize - o
      BY <1>2, Sizing
    <3>2. Trailer = [i \in 1..w |-> Zero] /\ OffsetInBlock = 0
      BY <1>2, <2>1, <3>1 DEF Trailer, Zeros, NewBlock, Leftover, OffsetInBlock
    <3>3. Len(Trailer) = w
      BY <3>2
    <3> QED
      BY <1>2, <2>1, <3>1, <3>2, <3>3
  <2>2. CASE ~(BlockSize - o < HeaderSize)
    BY <1>2, <2>2 DEF Trailer, NewBlock, Leftover, OffsetInBlock
  <2> QED
    BY <2>1, <2>2
<1>4. PICK b \in Nat : b = n - o /\ Aligned(b)
  BY <1>2
<1>5. /\ n + k \in Nat /\ Base(n + k) = n + k - OffsetInBlock /\ OffsetInBlock \in Nat
      /\ n + k = IF b + BlockSize - n < HeaderSize THEN b + BlockSize ELSE n
  <2>1. CASE BlockSize - o < HeaderSize
    <3>1. n + k = b + BlockSize /\ OffsetInBlock = 0 /\ b + BlockSize - n < HeaderSize
      BY <1>2, <1>3, <1>4, <2>1, Sizing
    <3>2. b + BlockSize \in Nat /\ Aligned(b + BlockSize)
      BY <1>4, AlignedNext, Sizing
    <3>3. Base(b + BlockSize) = b + BlockSize
      BY <3>2, BaseUnique, Sizing
    <3> QED
      BY <3>1, <3>2, <3>3
  <2>2. CASE ~(BlockSize - o < HeaderSize)
    <3>1. n + k = n /\ OffsetInBlock = o /\ ~(b + BlockSize - n < HeaderSize)
      BY <1>2, <1>3, <1>4, <2>2, Sizing
    <3>2. b <= n /\ n < b + BlockSize /\ n - o = b
      BY <1>2, <1>4, <2>2, Sizing
    <3>3. Base(n) = b
      BY <1>4, <3>2, BaseUnique
    <3> QED
      BY <1>2, <3>1, <3>2, <3>3
  <2> QED
    BY <2>1, <2>2
<1>6. n = 0 => n + k = 0
  <2> SUFFICES ASSUME n = 0 PROVE n + k = 0
    OBVIOUS
  <2>1. o = 0
    BY <1>2 DEF WriterEnd
  <2> QED
    BY <1>2, <1>3, <2>1, Sizing
<1>7. ASSUME NEW e \in 0..(Len(file) - 1), LastWritten(e) PROVE After(file, e) = n + k
  <2>1. Until(file, e) = n /\ Base(e) = b
    BY <1>2, <1>4, <1>7 DEF LastWritten
  <2> QED
    BY <1>5, <2>1 DEF After
<1> QED
  BY <1>2, <1>5, <1>6, <1>7

\* The writer knows the one fragment that is final.
LEMMA FinalIsLast ==
  ASSUME file \in Seq(Cell), WriterEnd, NEW a \in 0..(Len(file) - 1), Final(file, a),
         NEW e \in 0..(Len(file) - 1), LastWritten(e)
  PROVE  a = e
<1>1. /\ Whole(file, a) /\ Whole(file, e) /\ a \in Nat /\ e \in Nat
      /\ Until(file, a) = Len(file) /\ Until(file, e) = Len(file)
  BY DEF WriterEnd, Final, LastWritten
<1>2. e < Until(file, e) /\ Until(file, e) \in Nat
  BY <1>1, WholeCells
<1> QED
  BY <1>1, <1>2, Overlap

LEMMA EmittedLinked ==
  ASSUME LogInv, phase = "write", done >= 0, Linked(file), WriterEnd,
         NEW g, Grown(g, Len(Trailer), Len(Physical))
  PROVE  LET s == Len(file) + Len(Trailer)
         IN  /\ Linked(g) /\ Whole(g, 0)
             /\ \A a \in 0..(Len(g) - 1) : Final(g, a) => a = s
             /\ s \in 0..(Len(g) - 1) /\ Whole(g, s) /\ Until(g, s) = Len(g)
             /\ Base(s) = s - OffsetInBlock /\ s \in Nat /\ OffsetInBlock \in Nat
             /\ g[s + 1].r = Len(records) /\ g[s + 1].at = done
             /\ g[s + 1].len = FragmentLength /\ g[s + 1].type = FragmentType
             /\ Len(g) = s + HeaderSize + FragmentLength
<1>1. TypeOK /\ WriterInv /\ Headers(file) /\ Chained(file)
  BY DEF LogInv, NoPhantom
<1>2. PICK f \in Seq(Cell), k \in 0..(HeaderSize - 1), s \in Nat :
        f = file /\ k = Len(Trailer) /\ s = Len(f) + k
  <2>1. file \in Seq(Cell) /\ Len(Trailer) \in 0..(HeaderSize - 1)
        /\ Len(file) + Len(Trailer) \in Nat
    BY <1>1, TrailerIs DEF TypeOK
  <2> QED
    BY <2>1
<1>3. /\ FragmentLength \in Nat /\ Len(Physical) = HeaderSize + FragmentLength
      /\ FragmentLength <= Left /\ Len(records) \in Nat
      /\ FragmentType \in RecordType /\ (FragmentType \in {"full", "first"} <=> begin)
      /\ OffsetInBlock + HeaderSize + FragmentLength \in 0..BlockSize
      /\ Len(Physical) \in 0..Len(Physical) /\ Len(Physical) > 0
  BY <1>1, PhysicalIs, Sizing
<1>4. /\ g \in Seq(Cell) /\ Len(g) = s + HeaderSize + FragmentLength
      /\ \A p \in 1..Len(f) : g[p] = f[p]
  <2>1. g \in Seq(Cell) /\ Len(g) = Len(f) + k + Len(Physical)
        /\ \A p \in 1..Len(f) : g[p] = f[p]
    BY <1>2 DEF Grown
  <2>2. Len(f) + k + Len(Physical) = s + HeaderSize + FragmentLength
    BY <1>2, <1>3, Sizing
  <2> QED
    BY <2>1, <2>2
<1>5. /\ Whole(g, s) /\ Until(g, s) = Len(g) /\ s \in 0..(Len(g) - 1)
      /\ g[s + 1].r = Len(records) /\ g[s + 1].at = done
      /\ g[s + 1].len = FragmentLength /\ g[s + 1].type = FragmentType
      /\ \A a \in Nat : Whole(g, a) /\ a # s =>
           Whole(f, a) /\ Until(f, a) = Until(g, a) /\ f[a + 1] = g[a + 1]
  <2>1. PICK m : m = Len(Physical) /\ m \in 0..Len(Physical) /\ m > 0 /\ Grown(g, k, m)
    BY <1>2, <1>3
  <2>2. /\ LET x == Len(file) + k
           IN  /\ Whole(g, x) /\ Until(g, x) = Len(g) /\ x \in 0..(Len(g) - 1)
               /\ g[x + 1].r = Len(records) /\ g[x + 1].at = done
               /\ g[x + 1].len = FragmentLength
        /\ \A a \in Nat : Whole(g, a) =>
             IF a = Len(file) + k THEN m = Len(Physical)
             ELSE Whole(file, a) /\ Until(file, a) = Until(g, a) /\ file[a + 1] = g[a + 1]
        /\ g[Len(file) + k + 1].type = FragmentType
    BY <1>1, <2>1, Emitted
  <2>3. s = Len(file) + k
    BY <1>2
  <2> QED
    BY <1>2, <2>2, <2>3, Zenon
<1>6. /\ Base(s) = s - OffsetInBlock /\ OffsetInBlock \in Nat
      /\ Len(f) = 0 => s = 0
      /\ \A e \in 0..(Len(f) - 1) : LastWritten(e) => After(f, e) = s
  BY <1>2, NextPlace
<1>7. ASSUME NEW a \in Nat, Whole(f, a)
      PROVE  /\ Whole(g, a) /\ Until(g, a) = Until(f, a) /\ f[a + 1] = g[a + 1]
             /\ a \in 0..(Len(f) - 1) /\ Until(f, a) <= Base(a) + BlockSize
             /\ After(g, a) = After(f, a) /\ After(f, a) \in Nat /\ a # s
  <2>1. Whole(g, a) /\ Until(g, a) = Until(f, a) /\ f[a + 1] = g[a + 1]
    <3>1. Len(f) <= Len(g)
      BY <1>2, <1>3, <1>4, Sizing
    <3> QED
      BY <1>4, <1>7, <3>1, WholeAfter
  <2>2. a \in 0..(Len(f) - 1) /\ a # s
    BY <1>2, <1>7 DEF Whole
  <2>3. Until(f, a) <= Base(a) + BlockSize
    BY <1>2, <1>7, <2>2 DEF Linked
  <2>4. After(g, a) = After(f, a) /\ After(f, a) \in Nat
    BY <1>7, <2>1, <2>3, AfterIs DEF After
  <2> QED
    BY <2>1, <2>2, <2>3, <2>4
\* The fragment behind an old one is old, or the new one behind the last.
<1>8. ASSUME NEW a \in Nat, Whole(f, a)
      PROVE  \/ Whole(f, After(f, a))
             \/ LastWritten(a) /\ After(f, a) = s
  <2>1. CASE Whole(f, After(f, a))
    BY <2>1
  <2>2. CASE ~Whole(f, After(f, a))
    <3>1. Final(f, a) /\ a \in 0..(Len(f) - 1)
      BY <1>7, <1>8, <2>2 DEF Final
    <3>2. PICK e \in 0..(Len(f) - 1) : LastWritten(e)
      BY <1>2, <3>1 DEF WriterEnd
    <3>3. a = e
      BY <1>2, <3>1, <3>2, FinalIsLast
    <3> QED
      BY <1>6, <3>2, <3>3
  <2> QED
    BY <2>1, <2>2
<1>9. Whole(g, 0)
  <2>1. CASE Len(f) = 0
    BY <1>5, <1>6, <2>1
  <2>2. CASE Len(f) > 0
    BY <1>2, <1>7, <2>2 DEF WriterEnd
  <2> QED
    BY <2>1, <2>2
<1>10. g[1].r = 1 /\ g[1].type \in {"full", "first"}
  <2>1. CASE s = 0
    <3>1. Len(file) = 0
      BY <1>2, <2>1
    <3>2. Len(records) = 1 /\ begin
      BY <1>1, <3>1 DEF WriterEnd, Resting
    <3>3. s + 1 = 1
      BY <2>1
    <3> QED
      BY <1>3, <1>5, <3>2, <3>3
  <2>2. CASE s # 0
    <3>1. Whole(f, 0) /\ f[0 + 1] = g[0 + 1] /\ 0 + 1 = 1
      BY <1>5, <1>9, <2>2
    <3> QED
      BY <1>2, <3>1 DEF Linked
  <2> QED
    BY <2>1, <2>2
<1>11. ASSUME NEW a \in 0..(Len(g) - 1), Whole(g, a)
       PROVE  /\ Until(g, a) <= Base(a) + BlockSize
              /\ Whole(g, After(g, a)) => Follows(g[a + 1], g[After(g, a) + 1])
              /\ Final(g, a) => a = s
  <2>0. a \in Nat
    OBVIOUS
  <2>1. CASE a = s
    <3>1. Until(g, a) <= Base(a) + BlockSize
      <4>1. Until(g, a) = s + HeaderSize + FragmentLength /\ Base(a) = s - OffsetInBlock
        BY <1>4, <1>5, <1>6, <2>1
      <4> QED
        BY <1>3, <1>6, <4>1, Sizing
    <3>2. Until(g, a) <= After(g, a) /\ After(g, a) \in Nat
      BY <1>4, <1>11, <2>0, <3>1, AfterIs
    <3>3. ~(After(g, a) < Len(g))
      BY <1>4, <1>5, <2>1, <3>2
    <3>4. ~Whole(g, After(g, a))
      BY <3>3 DEF Whole
    <3> QED
      BY <2>1, <3>1, <3>4
  <2>2. CASE a # s
    <3>1. Whole(f, a)
      BY <1>5, <1>11, <2>0, <2>2
    <3>2. /\ Until(g, a) = Until(f, a) /\ f[a + 1] = g[a + 1] /\ a \in 0..(Len(f) - 1)
          /\ Until(f, a) <= Base(a) + BlockSize
          /\ After(g, a) = After(f, a) /\ After(f, a) \in Nat
      BY <1>7, <2>0, <3>1
    <3>3. CASE Whole(f, After(f, a))
      <4>1. Whole(g, After(f, a)) /\ g[After(f, a) + 1] = f[After(f, a) + 1]
        BY <1>7, <3>2, <3>3
      <4>2. Follows(f[a + 1], f[After(f, a) + 1])
        BY <1>2, <3>1, <3>2, <3>3 DEF Linked
      <4>3. ~Final(g, a)
        BY <3>2, <4>1 DEF Final
      <4> QED
        BY <3>2, <4>1, <4>2, <4>3
    <3>4. CASE LastWritten(a) /\ After(f, a) = s
      <4>1. ~Final(g, a)
        BY <1>5, <3>2, <3>4 DEF Final
      <4>2. /\ f[a + 1].r = IF begin THEN Len(records) - 1 ELSE Len(records)
            /\ Ends(f[a + 1]) <=> begin
            /\ ~begin => f[a + 1].at + f[a + 1].len = done
        <5>1. Resting <=> begin
          BY <1>1 DEF Resting, TypeOK
        <5> QED
          BY <1>2, <3>4, <5>1 DEF LastWritten
      <4>3. Follows(f[a + 1], g[s + 1])
        <5>1. CASE begin
          BY <1>3, <1>5, <4>2, <5>1 DEF Follows
        <5>2. CASE ~begin
          <6>1. g[s + 1].type \in {"middle", "last"}
            BY <1>3, <1>5, <5>2 DEF RecordType
          <6> QED
            BY <1>5, <4>2, <5>2, <6>1 DEF Follows
        <5> QED
          BY <5>1, <5>2
      <4> QED
        BY <3>2, <3>4, <4>1, <4>3
    <3> QED
      BY <1>8, <2>0, <3>1, <3>3, <3>4
  <2> QED
    BY <2>1, <2>2
<1>12. Linked(g)
  BY <1>10, <1>11 DEF Linked
<1>13. \A a \in 0..(Len(g) - 1) : Final(g, a) => a = s
  BY <1>11 DEF Final
<1> QED
  BY <1>2, <1>4, <1>5, <1>6, <1>9, <1>12, <1>13

-----------------------------------------------------------------------------
(* The steps of the writer.                                                *)

LEMMA InitClean == Init => CleanInv
<1> SUFFICES ASSUME Init PROVE CleanInv
  OBVIOUS
<1>1. /\ Len(file) = 0 /\ Len(records) = 0 /\ Len(out) = 0 /\ 1..Len(out) = {}
      /\ returned = {} /\ block_offset_ = 0 /\ done = -1 /\ phase = "write"
      /\ ended = "none" /\ out = << >> /\ ~eof_ /\ ~reported /\ file = << >>
  BY DEF Init
<1>2. ReadBack /\ CleanIsSilent
  BY <1>1 DEF ReadBack, CleanIsSilent
<1>3. \A a : ~Whole(file, a) \/ ~(a \in Nat)
  BY <1>1 DEF Whole
<1>4. Linked(file)
  <2>1. 0..(Len(file) - 1) = {}
    BY <1>1
  <2> QED
    BY <1>3, <2>1 DEF Linked
<1>5. WriterEnd
  <2>1. 0..(Len(file) - 1) = {} /\ Len(file) - block_offset_ = 0 /\ ~(Len(file) > 0)
        /\ block_offset_ <= Len(file)
    BY <1>1
  <2>2. Aligned(Len(file) - block_offset_)
    BY <2>1, AlignedZero
  <2> QED
    BY <1>1, <2>1, <2>2 DEF WriterEnd, Resting
<1> QED
  BY <1>1, <1>2, <1>4, <1>5 DEF CleanInv

\* What a step of the writer has to show.
LEMMA WriterKeeps ==
  ASSUME LogInv', WriterEnd, phase' = "write", UNCHANGED <<ended, readerVars>>, Linked(file)',
         WriterEnd'
  PROVE  CleanInv'
<1>1. out' = << >> /\ Len(out') = 0 /\ 1..Len(out') = {} /\ ~reported' /\ phase' # "eof"
  BY DEF WriterEnd, readerVars
<1>2. ReadBack' /\ CleanIsSilent'
  <2>1. CleanIsSilent'
    BY <1>1 DEF CleanIsSilent
  <2>2. ASSUME Len(records') \in Nat PROVE ReadBack'
    BY <1>1, <2>2 DEF ReadBack
  <2>3. Len(records') \in Nat
    <3>1. records' \in Seq(Sizes)
      BY DEF LogInv, NoPhantom, TypeOK
    <3> QED
      BY <3>1
  <2> QED
    BY <2>1, <2>2, <2>3
<1>3. ended' = "none"
  BY DEF WriterEnd
<1> QED
  BY <1>1, <1>2, <1>3 DEF CleanInv

LEMMA AddRecordClean ==
  ASSUME LogInv, LogInv', CleanInv, AddRecord
  PROVE  CleanInv'
<1> SUFFICES ASSUME faults' = 0, ended' # "power" PROVE CleanInv'
  BY DEF CleanInv, AddRecord
<1>1. /\ phase = "write" /\ phase' = "write" /\ done = -1 /\ done' = 0 /\ begin' = TRUE
      /\ file' = file /\ block_offset_' = block_offset_ /\ returned' = returned
      /\ faults' = faults /\ UNCHANGED <<ended, readerVars>>
      /\ \E n \in Sizes : records' = Append(records, n)
  BY DEF AddRecord
<1>2. Linked(file) /\ WriterEnd
  BY <1>1 DEF CleanInv
<1>3. Linked(file)'
  BY <1>1, <1>2 DEF Linked
<1>4. Len(records') = Len(records) + 1 /\ Len(records) \in Nat
  BY <1>1 DEF LogInv, NoPhantom, TypeOK
<1>5. Resting /\ Resting'
  BY <1>1 DEF Resting
<1>6. ASSUME NEW e \in 0..(Len(file) - 1), LastWritten(e)
      PROVE  LastWritten(e)'
  BY <1>1, <1>4, <1>5, <1>6 DEF LastWritten
<1>7. WriterEnd'
  <2>1. /\ ended' = "none" /\ out' = << >> /\ ~eof_' /\ ~reported'
        /\ block_offset_' <= Len(file') /\ Aligned(Len(file') - block_offset_')
    BY <1>1, <1>2 DEF WriterEnd, readerVars
  <2>2. returned' \subseteq 1..(Len(records') - 1) /\ done' # -1
    BY <1>1, <1>2, <1>4 DEF WriterEnd
  <2>3. Len(file') = 0 => block_offset_' = 0 /\ Len(records') = 1
    BY <1>1, <1>2, <1>4 DEF WriterEnd
  <2>4. Len(file') > 0 =>
          Whole(file', 0) /\ \E e \in 0..(Len(file') - 1) : LastWritten(e)'
    BY <1>1, <1>2, <1>6 DEF WriterEnd
  <2>5. \A a \in 0..(Len(file') - 1) : Final(file', a) => Until(file', a) = Len(file')
    BY <1>1, <1>2 DEF WriterEnd
  <2> QED
    BY <1>5, <2>1, <2>2, <2>3, <2>4, <2>5 DEF WriterEnd
<1> QED
  BY <1>1, <1>2, <1>3, <1>7, WriterKeeps

\* An append without a failure is whole.
LEMMA NoFault ==
  ASSUME LogInv, EmitPhysicalRecord, faults' = 0
  PROVE  /\ faults = 0
         /\ \E g :
              /\ file' = g /\ Grown(g, Len(Trailer), Len(Physical))
              /\ done' = IF FragmentLength = Left THEN -1 ELSE done + FragmentLength
              /\ returned' = IF FragmentLength = Left THEN returned \cup {Len(records)}
                             ELSE returned
<1>1. TypeOK /\ WriterInv /\ done >= 0
  BY DEF LogInv, NoPhantom, EmitPhysicalRecord
<1>2. Physical \in Seq(Cell) /\ Trailer \in Seq(Cell) /\ file \in Seq(Cell)
  BY <1>1, PhysicalIs, TrailerIs DEF TypeOK
<1> DEFINE Step(t, p) ==
        /\ faults' = faults + Cardinality({x \in {1} : ~t.ok})
                            + Cardinality({x \in {1} : ~p.ok})
        /\ file' = p.file
        /\ done' = IF ~p.ok \/ FragmentLength = Left THEN -1 ELSE done + FragmentLength
        /\ returned' = IF p.ok /\ (~p.ok \/ FragmentLength = Left)
                       THEN returned \cup {Len(records)} ELSE returned
<1>3. PICK t \in Appends(file, Trailer) : \E p \in Appends(t.file, Physical) : Step(t, p)
  BY DEF EmitPhysicalRecord
<1>4. PICK p \in Appends(t.file, Physical) : Step(t, p)
  BY <1>3
<1>5. t.ok \in BOOLEAN /\ \E k \in 0..Len(Trailer) :
        Behind(t.file, file, Trailer, k) /\ (t.ok => k = Len(Trailer))
  BY <1>2, AppendsIs, Zenon
<1>6. PICK k \in 0..Len(Trailer) :
        Behind(t.file, file, Trailer, k) /\ (t.ok => k = Len(Trailer))
  BY <1>5
<1>7. t.file \in Seq(Cell)
  BY <1>6 DEF Behind
<1>8. p.ok \in BOOLEAN /\ \E m \in 0..Len(Physical) :
        Behind(p.file, t.file, Physical, m) /\ (p.ok => m = Len(Physical))
  BY <1>2, <1>7, AppendsIs, Zenon
<1>9. PICK m \in 0..Len(Physical) :
        Behind(p.file, t.file, Physical, m) /\ (p.ok => m = Len(Physical))
  BY <1>8
<1>10. faults = 0 /\ t.ok /\ p.ok
  <2>1. PICK x, y : /\ x = Cardinality({z \in {1} : ~t.ok})
                    /\ y = Cardinality({z \in {1} : ~p.ok})
    OBVIOUS
  <2>2. x \in Nat /\ y \in Nat
    BY <1>5, <1>8, <2>1, CountIs
  <2>3. faults' = faults + x + y /\ faults \in Nat
    BY <1>1, <1>4, <2>1, Sizing DEF TypeOK
  <2>4. faults = 0 /\ x = 0 /\ y = 0
    BY <2>2, <2>3
  <2>5. ASSUME NEW b \in BOOLEAN, Cardinality({z \in {1} : ~b}) = 0 PROVE b
    <3> SUFFICES ASSUME ~b PROVE FALSE
      BY <2>5
    <3>1. {z \in {1} : ~b} = {1}
      OBVIOUS
    <3>2. Cardinality({1}) = 1
      BY FS_Singleton
    <3> QED
      BY <2>5, <3>1, <3>2
  <2> QED
    BY <1>5, <1>8, <2>1, <2>4, <2>5
<1>11. Grown(p.file, Len(Trailer), Len(Physical))
  <2>1. k = Len(Trailer) /\ m = Len(Physical)
    BY <1>6, <1>9, <1>10
  <2> QED
    BY <1>1, <1>6, <1>9, <2>1, TwoParts
<1>12. /\ done' = IF FragmentLength = Left THEN -1 ELSE done + FragmentLength
       /\ returned' = IF FragmentLength = Left THEN returned \cup {Len(records)} ELSE returned
       /\ file' = p.file
  BY <1>4, <1>10, Zenon
<1> QED
  BY <1>10, <1>11, <1>12, Zenon

LEMMA EmitClean ==
  ASSUME LogInv, LogInv', CleanInv, EmitPhysicalRecord
  PROVE  CleanInv'
<1> SUFFICES ASSUME faults' = 0, ended' # "power" PROVE CleanInv'
  BY DEF CleanInv, EmitPhysicalRecord
<1>1. PICK g : /\ faults = 0 /\ file' = g /\ Grown(g, Len(Trailer), Len(Physical))
               /\ done' = IF FragmentLength = Left THEN -1 ELSE done + FragmentLength
               /\ returned' = IF FragmentLength = Left THEN returned \cup {Len(records)}
                              ELSE returned
  BY NoFault, Zenon
<1>2. /\ phase = "write" /\ done >= 0 /\ phase' = "write" /\ begin' = FALSE
      /\ block_offset_' = OffsetInBlock + HeaderSize + FragmentLength
      /\ records' = records /\ UNCHANGED <<ended, readerVars>>
  BY DEF EmitPhysicalRecord
<1>3. Linked(file) /\ WriterEnd
  BY <1>1, <1>2 DEF CleanInv
<1>4. PICK s : s = Len(file) + Len(Trailer)
  OBVIOUS
<1>5. /\ Linked(g) /\ Whole(g, 0)
      /\ \A a \in 0..(Len(g) - 1) : Final(g, a) => a = s
      /\ s \in 0..(Len(g) - 1) /\ Whole(g, s) /\ Until(g, s) = Len(g)
      /\ Base(s) = s - OffsetInBlock /\ s \in Nat /\ OffsetInBlock \in Nat
      /\ g[s + 1].r = Len(records) /\ g[s + 1].at = done
      /\ g[s + 1].len = FragmentLength /\ g[s + 1].type = FragmentType
      /\ Len(g) = s + HeaderSize + FragmentLength
  BY <1>1, <1>2, <1>3, <1>4, EmittedLinked
<1>6. /\ FragmentLength \in Nat /\ done \in Nat /\ Len(records) \in Nat
      /\ FragmentType \in {"full", "last"} <=> Left = FragmentLength
      /\ Len(records) \in DOMAIN records
  <2>1. TypeOK /\ WriterInv
    BY DEF LogInv, NoPhantom
  <2> QED
    BY <1>2, <2>1, PhysicalIs
<1>7. Linked(file)'
  BY <1>1, <1>5 DEF Linked
<1>8. Resting' <=> FragmentLength = Left
  BY <1>1, <1>2, <1>6 DEF Resting
<1>9. Base(s) = Len(g) - block_offset_' /\ Base(s) \in Nat /\ Aligned(Base(s))
      /\ block_offset_' <= Len(g)
  <2>1. Base(s) \in Nat /\ Aligned(Base(s))
    BY <1>5, BaseIs
  <2>2. PICK o \in Nat, L \in Nat, S \in Nat : o = OffsetInBlock /\ L = FragmentLength /\ S = s
    BY <1>5, <1>6
  <2>3. S - o = (S + HeaderSize + L) - (o + HeaderSize + L)
    BY Sizing
  <2>4. S - o >= 0
    BY <1>5, <2>1, <2>2
  <2>5. o + HeaderSize + L <= S + HeaderSize + L
    BY <2>4, Sizing
  <2>6. Base(s) = S - o
    BY <1>5, <2>2
  <2>7. Len(g) = S + HeaderSize + L
    BY <1>5, <2>2
  <2>8. block_offset_' = o + HeaderSize + L
    BY <1>2, <2>2
  <2> QED
    BY <2>1, <2>3, <2>5, <2>6, <2>7, <2>8, Zenon
<1>10. LastWritten(s)'
  <2>1. /\ Whole(file', s) /\ Until(file', s) = Len(file')
        /\ Base(s) = Len(file') - block_offset_'
    BY <1>1, <1>5, <1>9
  <2>2. file'[s + 1].r = IF done' >= 0 /\ begin' THEN Len(records') - 1 ELSE Len(records')
    BY <1>1, <1>2, <1>5
  <2>3. Ends(file'[s + 1]) <=> Resting'
    BY <1>1, <1>5, <1>6, <1>8 DEF Ends
  <2>4. ~Resting' => file'[s + 1].at + file'[s + 1].len = done'
    BY <1>1, <1>5, <1>8
  <2> QED
    BY <2>1, <2>2, <2>3, <2>4 DEF LastWritten
<1>11. WriterEnd'
  <2>1. /\ ended' = "none" /\ out' = << >> /\ ~eof_' /\ ~reported'
    BY <1>2, <1>3 DEF WriterEnd, readerVars
  <2>2. returned' \subseteq 1..(IF done' = -1 THEN Len(records') ELSE Len(records') - 1)
    <3>1. returned \subseteq 1..(Len(records) - 1)
      <4>1. done # -1
        BY <1>6
      <4> QED
        BY <1>3, <4>1 DEF WriterEnd
    <3>2. CASE FragmentLength = Left
      <4>1. done' = -1 /\ returned' = returned \cup {Len(records)}
        BY <1>1, <3>2
      <4>2. Len(records) \in 1..Len(records) /\ 1..(Len(records) - 1) \subseteq 1..Len(records)
        <5>1. PICK n \in Nat : n = Len(records)
          BY <1>6
        <5>2. n >= 1
          <6>1. records \in Seq(Sizes)
            BY DEF LogInv, NoPhantom, TypeOK
          <6> QED
            BY <1>6, <5>1, <6>1
        <5>3. n \in 1..n /\ 1..(n - 1) \subseteq 1..n
          BY <5>2
        <5> QED
          BY <5>1, <5>3
      <4> QED
        BY <1>2, <3>1, <4>1, <4>2
    <3>3. CASE FragmentLength # Left
      <4>1. done' # -1 /\ returned' = returned
        BY <1>1, <1>6, <3>3
      <4> QED
        BY <1>2, <3>1, <4>1
    <3> QED
      BY <3>2, <3>3
  <2>3. Len(file') > 0 /\ Whole(file', 0) /\ s \in 0..(Len(file') - 1)
    BY <1>1, <1>5, <1>6, Sizing
  <2>4. \A a \in 0..(Len(file') - 1) : Final(file', a) => Until(file', a) = Len(file')
    BY <1>1, <1>5
  <2>5. block_offset_' <= Len(file') /\ Aligned(Len(file') - block_offset_')
    BY <1>1, <1>9
  <2>6. ~(Len(file') = 0)
    BY <2>3
  <2> QED
    BY <1>10, <2>1, <2>2, <2>3, <2>4, <2>5, <2>6 DEF WriterEnd
<1> QED
  BY <1>2, <1>3, <1>7, <1>11, WriterKeeps

-----------------------------------------------------------------------------
(* The end of writing.                                                     *)

LEMMA FileReady ==
  ASSUME LogInv, WriterEnd
  PROVE  /\ Len(file) = 0 => returned = {}
         /\ \A a \in 0..(Len(file) - 1) : Final(file, a) =>
              /\ Until(file, a) = Len(file) /\ returned \subseteq 1..Complete(file[a + 1])
              /\ done = -1 => Ends(file[a + 1])
<1>1. /\ file \in Seq(Cell) /\ Len(file) \in Nat /\ Len(records) \in Nat /\ begin \in BOOLEAN
      /\ done \in Nat \cup {-1}
  <2>1. TypeOK
    BY DEF LogInv, NoPhantom
  <2>2. records \in Seq(Sizes) /\ file \in Seq(Cell)
    BY <2>1 DEF TypeOK
  <2> QED
    BY <2>1, <2>2 DEF TypeOK
<1>2. PICK n \in Int : /\ n = IF done = -1 THEN Len(records) ELSE Len(records) - 1
                       /\ returned \subseteq 1..n
  <2>1. PICK n : n = IF done = -1 THEN Len(records) ELSE Len(records) - 1
    OBVIOUS
  <2>2. n \in Int
    BY <1>1, <2>1
  <2>3. returned \subseteq 1..n
    BY <2>1 DEF WriterEnd
  <2> QED
    BY <2>1, <2>2, <2>3
<1>3. Len(file) = 0 => returned = {}
  <2> SUFFICES ASSUME Len(file) = 0 PROVE returned = {}
    OBVIOUS
  <2>1. n = 0
    BY <1>1, <1>2 DEF WriterEnd
  <2>2. 1..n = {}
    BY <2>1
  <2> QED
    BY <1>2, <2>2
<1>4. ASSUME NEW a \in 0..(Len(file) - 1), Final(file, a)
      PROVE  /\ Until(file, a) = Len(file) /\ returned \subseteq 1..Complete(file[a + 1])
             /\ done = -1 => Ends(file[a + 1])
  <2>1. Len(file) > 0
    BY <1>1
  <2>2. PICK e \in 0..(Len(file) - 1) : LastWritten(e)
    BY <2>1 DEF WriterEnd
  <2>3. a = e
    BY <1>1, <1>4, <2>2, FinalIsLast
  <2>4. /\ Until(file, a) = Len(file)
        /\ file[a + 1].r = IF done >= 0 /\ begin THEN Len(records) - 1 ELSE Len(records)
        /\ Ends(file[a + 1]) <=> (done = -1 \/ begin)
    BY <2>2, <2>3 DEF LastWritten, Resting
  <2>5. Complete(file[a + 1]) = n
    BY <1>1, <1>2, <2>4 DEF Complete
  <2> QED
    BY <1>2, <2>4, <2>5
<1> QED
  BY <1>3, <1>4

LEMMA EndClean ==
  ASSUME LogInv, LogInv', WriterEnd, phase = "write", phase' = "read",
         UNCHANGED <<records, returned, readerVars>>,
         NEW h \in Seq(Cell), Linked(h), SameWholes(file', h),
         Len(h) > 0 => Whole(h, 0), Len(h) = 0 => returned = {},
         \A a \in 0..(Len(h) - 1) : Final(h, a) =>
           Until(h, a) = Len(h) /\ returned \subseteq 1..Complete(h[a + 1]),
         Silent' => /\ Padded(file', h) /\ (Len(file') = Len(h) \/ Aligned(Len(file')))
                    /\ \A a \in 0..(Len(h) - 1) : Final(h, a) => Ends(h[a + 1])
  PROVE  CleanInv'
<1>1. PICK g \in Seq(Cell) : g = file'
  BY DEF LogInv, NoPhantom, TypeOK
<1>2. Len(h) \in Nat /\ Len(g) \in Nat
  OBVIOUS
<1>3. SameWholes(g, h)
  BY <1>1
<1>4. Linked(g)
  BY <1>3, SameLinked
<1>5. \A q \in Nat : Whole(g, q) => q < Len(h)
  BY <1>3 DEF SameWholes, Whole
<1>6. Silent' => /\ \A p \in Nat : p = Len(h) => Blanks(g, p)
                 /\ \A a \in 0..(Len(h) - 1) : Final(h, a) => Ends(h[a + 1])
  <2> SUFFICES ASSUME Silent' PROVE \A p \in Nat : p = Len(h) => Blanks(g, p)
    BY Zenon
  <2>1. /\ \A x \in 1..Len(g) : x > Len(h) => g[x] = Zero
        /\ Len(h) <= Len(g)
        /\ Len(g) = Len(h) \/ Aligned(Len(g))
    BY <1>1 DEF Padded
  <2>2. \A x \in (Len(h) + 1)..Len(g) : x \in 1..Len(g) /\ x > Len(h)
    BY <1>2
  <2> QED
    BY <2>1, <2>2 DEF Blanks
<1>7. ~Whole(g, 0) => Dead(g, 0) /\ returned = {} /\ (Silent' => Blanks(g, 0))
  <2> SUFFICES ASSUME ~Whole(g, 0)
               PROVE  Dead(g, 0) /\ returned = {} /\ (Silent' => Blanks(g, 0))
    OBVIOUS
  <2>1. Len(h) = 0
    BY <1>2, <1>3 DEF SameWholes
  <2>2. Dead(g, 0)
    BY <1>5, <2>1 DEF Dead
  <2> QED
    BY <1>6, <2>1, <2>2
<1>8. ASSUME NEW a \in 0..(Len(g) - 1), Final(g, a)
      PROVE  /\ Dead(g, After(g, a)) /\ returned \subseteq 1..Complete(g[a + 1])
             /\ Silent' => Ends(g[a + 1]) /\ Blanks(g, Until(g, a))
  <2>1. a \in Nat /\ Whole(g, a)
    BY <1>8 DEF Final
  <2>2. /\ Whole(h, a) /\ a \in 0..(Len(h) - 1) /\ Until(h, a) <= Base(a) + BlockSize
        /\ After(g, a) = After(h, a) /\ After(h, a) \in Nat
        /\ Until(g, a) = Until(h, a) /\ g[a + 1] = h[a + 1] /\ Final(h, a)
    BY <1>3, <1>8, <2>1, SameFinal
  <2>3. Until(h, a) = Len(h) /\ returned \subseteq 1..Complete(h[a + 1])
    BY <2>2
  <2>4. Until(h, a) <= After(h, a)
    BY <2>1, <2>2, AfterIs
  <2>5. Dead(g, After(g, a))
    <3> SUFFICES ASSUME NEW q \in 0..(Len(g) - 1), q > After(g, a), Whole(g, q) PROVE FALSE
      BY DEF Dead
    <3>1. q \in Nat /\ q < Len(h)
      BY <1>5
    <3> QED
      BY <1>2, <2>2, <2>3, <2>4, <3>1
  <2>6. Silent' => Ends(g[a + 1]) /\ Blanks(g, Until(g, a))
    BY <1>2, <1>6, <2>2, <2>3
  <2> QED
    BY <2>2, <2>3, <2>5, <2>6
<1>9. Linked(file)'
  BY <1>1, <1>4 DEF Linked
<1>10. Finished'
  BY <1>1, <1>7, <1>8 DEF Finished
<1>11. /\ next' = 0 /\ Len(buffer_') = 0 /\ Len(out') = 0 /\ 1..Len(out') = {}
       /\ ~in_fragmented_record' /\ ~eof_' /\ ~reported' /\ Len(records') \in Nat
  <2>1. /\ next = 0 /\ ~in_fragmented_record /\ Len(buffer_) <= next
        /\ buffer_ \in Seq(Cell) /\ records \in Seq(Sizes)
    BY DEF LogInv, ReaderInv, NoPhantom, TypeOK
  <2>2. Len(buffer_) = 0 /\ Len(records) \in Nat
    BY <2>1
  <2>3. out = << >> /\ ~eof_ /\ ~reported
    BY DEF WriterEnd
  <2> QED
    BY <2>1, <2>2, <2>3 DEF readerVars
<1>12. Reading'
  <2>1. Position' = 0
    BY <1>11 DEF Position
  <2> QED
    BY <1>11, <2>1 DEF Reading, AtStart
<1>13. ReadBack' /\ CleanIsSilent'
  BY <1>11 DEF ReadBack, CleanIsSilent
<1> QED
  BY <1>9, <1>10, <1>12, <1>13 DEF CleanInv

LEMMA EndStepClean ==
  ASSUME LogInv, LogInv', CleanInv, Close \/ Kill \/ KillInside \/ PowerLoss
  PROVE  CleanInv'
<1>0. phase' = "read"
  BY DEF Close, Kill, KillInside, PowerLoss
<1> SUFFICES ASSUME faults' = 0, ended' # "power" PROVE CleanInv'
  BY <1>0 DEF CleanInv
<1>1. /\ phase = "write" /\ phase' = "read" /\ UNCHANGED <<records, returned, readerVars>>
      /\ faults' = faults
  BY DEF Close, Kill, KillInside, PowerLoss, writerVars
<1>2. TypeOK /\ WriterInv /\ Headers(file) /\ Chained(file)
  BY DEF LogInv, NoPhantom
<1>3. PICK f \in Seq(Cell) : f = file
  BY <1>2 DEF TypeOK
<1>4. Linked(file) /\ WriterEnd
  <2>1. ended = "none" /\ faults = 0
    BY <1>1 DEF CleanInv
  <2> QED
    BY <1>1, <2>1 DEF CleanInv
<1>5. /\ Len(f) > 0 => Whole(f, 0)
      /\ Len(f) = 0 => returned = {}
      /\ \A a \in 0..(Len(f) - 1) : Final(f, a) =>
           /\ Until(f, a) = Len(f) /\ returned \subseteq 1..Complete(f[a + 1])
           /\ done = -1 => Ends(f[a + 1])
  BY <1>3, <1>4, FileReady DEF WriterEnd
<1>6. CASE Close
  <2>1. file' = f /\ done = -1
    BY <1>3, <1>6 DEF Close, writerVars
  <2>2. SameWholes(file', f) /\ Padded(file', f) /\ Len(file') = Len(f)
    BY <2>1 DEF SameWholes, Padded
  <2> QED
    BY <1>1, <1>3, <1>4, <1>5, <2>1, <2>2, EndClean
<1>7. CASE Kill
  <2>1. file' = Preallocated(f) /\ done = -1
    BY <1>3, <1>7 DEF Kill
  <2>2. Padded(file', f) /\ Aligned(Len(file'))
    BY <2>1, PreallocatedPadded
  <2>3. SameWholes(file', f)
    BY <2>2, PaddedSame
  <2> QED
    BY <1>1, <1>3, <1>4, <1>5, <2>1, <2>2, <2>3, EndClean
<1>8. CASE KillInside
  <2>1. PICK g, k, m :
          /\ k \in 0..(HeaderSize - 1) /\ m \in 0..Len(Physical) /\ Grown(g, k, m)
          /\ file' = Preallocated(g) /\ (m = Len(Physical) => k = Len(Trailer))
    BY <1>2, <1>8, KillInsideIs
  <2>2. done >= 0 /\ ended' = "kill_inside" /\ ~Silent'
    BY <1>8 DEF KillInside, Silent
  <2>3. g \in Seq(Cell)
    BY <2>1 DEF Grown
  <2>4. SameWholes(file', g)
    BY <2>1, <2>3, PreallocatedPadded, PaddedSame
  <2>5. CASE m = Len(Physical)
    <3>1. PICK s : s = Len(file) + Len(Trailer)
      OBVIOUS
    <3>2. /\ Linked(g) /\ Whole(g, 0)
          /\ \A a \in 0..(Len(g) - 1) : Final(g, a) => a = s
          /\ Until(g, s) = Len(g) /\ g[s + 1].r = Len(records)
      BY <1>1, <1>4, <2>1, <2>2, <2>5, <3>1, EmittedLinked
    <3>3. Len(records) \in Nat /\ returned \subseteq 1..(Len(records) - 1)
      <4>1. records \in Seq(Sizes) /\ done # -1
        BY <1>2, <2>2 DEF TypeOK
      <4> QED
        BY <1>4, <4>1 DEF WriterEnd
    <3>4. returned \subseteq 1..Complete(g[s + 1])
      <4>1. Complete(g[s + 1]) \in {Len(records), Len(records) - 1}
        BY <3>2 DEF Complete
      <4>2. 1..(Len(records) - 1) \subseteq 1..Len(records)
        BY <3>3
      <4> QED
        BY <3>3, <4>1, <4>2
    <3>5. Len(g) > 0
      BY <2>3, <3>2 DEF Whole
    <3> QED
      BY <1>1, <1>4, <2>2, <2>3, <2>4, <3>2, <3>4, <3>5, EndClean
  <2>6. CASE m # Len(Physical)
    <3>1. \A a \in Nat : Whole(g, a) =>
            Whole(f, a) /\ Until(f, a) = Until(g, a) /\ f[a + 1] = g[a + 1]
      <4>1. \A a \in Nat : Whole(g, a) =>
              IF a = Len(file) + k THEN m = Len(Physical)
              ELSE Whole(file, a) /\ Until(file, a) = Until(g, a) /\ file[a + 1] = g[a + 1]
        BY <1>1, <1>2, <2>1, <2>2, Emitted
      <4> QED
        BY <1>3, <2>6, <4>1, Zenon
    <3>2. Len(f) <= Len(g) /\ \A p \in 1..Len(f) : g[p] = f[p]
      BY <1>3, <2>1 DEF Grown
    <3>3. \A a \in Nat : Whole(f, a) =>
            Whole(g, a) /\ Until(g, a) = Until(f, a) /\ f[a + 1] = g[a + 1]
      BY <2>3, <3>2, WholeAfter
    <3>4. SameWholes(file', f)
      BY <2>4, <3>1, <3>3 DEF SameWholes
    <3> QED
      BY <1>1, <1>3, <1>4, <1>5, <2>2, <3>4, EndClean
  <2> QED
    BY <2>5, <2>6
<1>9. CASE PowerLoss
  BY <1>9 DEF PowerLoss
<1> QED
  BY <1>6, <1>7, <1>8, <1>9

-----------------------------------------------------------------------------
(* The steps of the reader.                                                *)

\* What a step of the reader has to show.
LEMMA ReaderCleanKeeps ==
  ASSUME CleanInv, faults = 0, ended # "power", UNCHANGED <<writerVars, ended>>,
         phase = "read", phase' \in {"read", "eof"},
         ReadBack', CleanIsSilent', phase' = "read" => Reading'
  PROVE  CleanInv'
<1>1. /\ file' = file /\ returned' = returned /\ ended' = ended
  BY DEF writerVars
<1>2. Linked(file) /\ Finished
  BY DEF CleanInv
<1>3. Linked(file)'
  BY <1>1, <1>2 DEF Linked
<1>4. Finished'
  BY <1>1, <1>2 DEF Finished, Silent
<1> QED
  BY <1>3, <1>4 DEF CleanInv

\* The properties do not depend on more than this.
LEMMA SameOutput ==
  ASSUME ReadBack, CleanIsSilent, UNCHANGED <<writerVars, ended>>, out' = out,
         Silent => (reported' <=> reported), phase' = "eof" => returned \subseteq 1..Len(out)
  PROVE  ReadBack' /\ CleanIsSilent'
<1>1. /\ records' = records /\ returned' = returned /\ ended' = ended /\ faults' = faults
  BY DEF writerVars
<1>2. ReadBack'
  BY <1>1 DEF ReadBack, Record
<1>3. CleanIsSilent'
  BY <1>1 DEF CleanIsSilent, Silent
<1> QED
  BY <1>2, <1>3

\* A whole fragment that the reader has read to the end of its block passes the checks.
LEMMA WholeIntact ==
  ASSUME LogInv, AtHeader, Whole(file, Position), InBlock(Position),
         Until(file, Position) <= Base(Position) + BlockSize
  PROVE  Intact
<1>1. PICK b \in Seq(Cell), q \in Nat, n \in Nat :
        b = buffer_ /\ q = Position /\ n = Len(b)
  BY ReaderIs
<1>2. /\ file \in Seq(Cell) /\ q + n = next /\ Len(file) \in Nat
      /\ \A i \in 1..n : b[i] = file[q + i]
  BY <1>1, ReaderIs
<1>3. n >= HeaderSize
  BY <1>1 DEF AtHeader
<1>4. PICK h : h = b[1]
  OBVIOUS
<1>5. h = file[q + 1] /\ q + 1 \in 1..Len(file)
  BY <1>1, <1>2, <1>3, <1>4, Sizing DEF Whole
<1>6. h.r \in Nat /\ h.at \in Nat /\ h.len \in Nat
  BY <1>2, <1>5, FileCell
<1>7. /\ Opens(h) /\ q + HeaderSize + h.len <= Len(file)
      /\ \A i \in 1..HeaderSize : file[q + i] = HeaderCell(h.r, i, h.type, h.at, h.len)
      /\ \A i \in 1..h.len : file[q + HeaderSize + i] = Byte(h.r, h.at + i)
      /\ q + HeaderSize + h.len <= Base(q) + BlockSize
  BY <1>1, <1>5 DEF Whole, Until
<1>8. HeaderSize + h.len <= n
  <2>1. Base(q) \in Nat
    BY <1>1, BaseIs
  <2>2. q + HeaderSize + h.len <= next
    BY <1>1, <1>7 DEF InBlock
  <2> QED
    BY <1>1, <1>2, <1>6, <2>2, Sizing
<1>9. SubSeq(b, 1, HeaderSize) = Header(h.r, h.type, h.at, h.len)
  <2>1. ASSUME NEW i \in 1..HeaderSize
        PROVE  SubSeq(b, 1, HeaderSize)[i] = HeaderCell(h.r, i, h.type, h.at, h.len)
    <3>1. SubSeq(b, 1, HeaderSize)[i] = b[i] /\ i \in 1..n
      BY <1>1, <1>3, Sizing
    <3> QED
      BY <1>2, <1>7, <3>1
  <2>2. SubSeq(b, 1, HeaderSize) = [i \in 1..HeaderSize |-> SubSeq(b, 1, HeaderSize)[i]]
    <3>1. \A i \in 1..HeaderSize : b[i] \in Cell
      BY <1>1, <1>3, Sizing
    <3>2. /\ SubSeq(b, 1, HeaderSize) \in Seq(Cell)
          /\ Len(SubSeq(b, 1, HeaderSize)) = IF 1 <= HeaderSize THEN HeaderSize - 1 + 1 ELSE 0
      BY <3>1, Sizing, SubSeqProperties
    <3>3. Len(SubSeq(b, 1, HeaderSize)) = HeaderSize
      BY <3>2, Sizing
    <3> QED
      BY <3>2, <3>3
  <2> QED
    BY <2>1, <2>2, Zenon DEF Header
<1>10. SubSeq(b, HeaderSize + 1, HeaderSize + h.len) = Payload(h.r, h.at, h.len)
  <2>0. PICK L \in Nat, H \in Nat : L = h.len /\ H = HeaderSize /\ H + L <= n
    BY <1>6, <1>8, Sizing
  <2>1. PICK x, e : x = SubSeq(b, HeaderSize + 1, e) /\ e = HeaderSize + h.len
    OBVIOUS
  <2>2. /\ HeaderSize + 1 \in Int /\ e \in Int
        /\ \A j \in (HeaderSize + 1)..e : j \in 1..n
    <3>1. H + 1 \in Int /\ H + L \in Int /\ \A j \in (H + 1)..(H + L) : j \in 1..n
      BY <1>1, <2>0
    <3> QED
      BY <2>0, <2>1, <3>1
  <2>3. \A j \in (HeaderSize + 1)..e : b[j] \in Cell
    BY <1>1, <2>2
  <2>4. /\ x \in Seq(Cell)
        /\ Len(x) = IF HeaderSize + 1 <= e THEN e - (HeaderSize + 1) + 1 ELSE 0
        /\ \A i \in 1..(e - (HeaderSize + 1) + 1) : x[i] = b[HeaderSize + 1 + i - 1]
    BY <2>1, <2>2, <2>3, SubSeqProperties
  <2>5. /\ (IF HeaderSize + 1 <= e THEN e - (HeaderSize + 1) + 1 ELSE 0) = h.len
        /\ e - (HeaderSize + 1) + 1 = h.len
    <3>1. /\ (IF H + 1 <= H + L THEN H + L - (H + 1) + 1 ELSE 0) = L
          /\ H + L - (H + 1) + 1 = L
      BY <2>0
    <3>2. e = H + L
      BY <2>0, <2>1
    <3>3. /\ (IF H + 1 <= e THEN e - (H + 1) + 1 ELSE 0) = L
          /\ e - (H + 1) + 1 = L
      BY <3>1, <3>2
    <3> QED
      BY <2>0, <3>3
  <2>6. ASSUME NEW i \in 1..h.len PROVE x[i] = Byte(h.r, h.at + i)
    <3>1. /\ HeaderSize + 1 + i - 1 = HeaderSize + i /\ HeaderSize + i \in 1..n
          /\ q + (HeaderSize + i) = q + HeaderSize + i
      BY <1>1, <1>6, <1>8, Sizing
    <3>2. x[i] = b[HeaderSize + i]
      BY <2>4, <2>5, <3>1
    <3> QED
      BY <1>2, <1>7, <3>1, <3>2
  <2>7. x = [i \in 1..h.len |-> x[i]]
    BY <1>6, <2>4, <2>5
  <2> QED
    BY <2>1, <2>6, <2>7, Zenon DEF Payload
<1> QED
  BY <1>1, <1>4, <1>7, <1>8, <1>9, <1>10 DEF Intact, Opens

\* Behind the fragment at a, a header is where the next fragment begins.
LEMMA HeaderPlace ==
  ASSUME LogInv, Linked(file), AtHeader, NEW a \in 0..(Len(file) - 1), AtFragment(a)
  PROVE  /\ Position = After(file, a) /\ InBlock(Position)
         /\ Until(file, a) \in Nat /\ Until(file, a) <= Position
<1>1. /\ a \in Nat /\ Whole(file, a) /\ file \in Seq(Cell)
      /\ Until(file, a) <= Base(a) + BlockSize /\ Position + Len(buffer_) = next
      /\ Position \in Nat /\ next \in Nat /\ Len(buffer_) \in Nat
      /\ Len(buffer_) >= HeaderSize
  <2>1. a \in Nat /\ Whole(file, a)
    BY ReaderIs DEF AtFragment
  <2>2. Until(file, a) <= Base(a) + BlockSize
    BY <2>1 DEF Linked
  <2> QED
    BY <2>1, <2>2, ReaderIs DEF AtHeader
<1>2. /\ After(file, a) \in Nat /\ Until(file, a) <= After(file, a)
      /\ \/ /\ After(file, a) = Until(file, a) /\ Base(After(file, a)) = Base(a)
         \/ Base(a) + BlockSize < Until(file, a) + HeaderSize
  BY <1>1, AfterIs
<1>3. Base(a) \in Nat /\ Until(file, a) \in Nat
  BY <1>1, BaseIs, WholeCells
<1>4. CASE Position = Until(file, a) /\ InBlock(a)
  <2>1. next <= Base(a) + BlockSize
    BY <1>1, <1>3, <1>4, Sizing DEF InBlock
  <2>2. After(file, a) = Until(file, a) /\ Base(After(file, a)) = Base(a)
    BY <1>1, <1>2, <1>3, <1>4, <2>1, Sizing
  <2>3. InBlock(After(file, a))
    BY <1>4, <2>2 DEF InBlock
  <2> QED
    BY <1>2, <1>3, <1>4, <2>2, <2>3
<1>5. CASE Position = After(file, a) /\ InBlock(After(file, a))
  BY <1>2, <1>3, <1>5
<1> QED
  BY <1>4, <1>5 DEF AtFragment

\* The fragment that passes the checks is the one that has to come.
LEMMA Expected ==
  ASSUME LogInv, Linked(file), Reading, AtHeader, Intact
  PROVE  LET c == file[Position + 1]
         IN  /\ InBlock(Position) /\ c.r = Len(out) + 1
             /\ in_fragmented_record => c.type \in {"middle", "last"}
             /\ ~in_fragmented_record => c.type \in {"full", "first"}
<1>0. PICK q \in 0..(Len(file) - 1) : q = Position
  BY IntactIs
<1>1. PICK c : q = Position /\ c = file[q + 1]
  BY <1>0
<1>2. /\ Whole(file, q) /\ c.r \in Nat /\ q \in Nat
  BY <1>1, IntactIs, ReaderIs
<1>3. CASE AtStart
  <2>1. q = 0 /\ Len(out) = 0 /\ ~in_fragmented_record
    BY <1>1, <1>3 DEF AtStart
  <2>2. InBlock(0)
    <3>1. next # 0
      <4>1. Len(buffer_) >= HeaderSize
        BY DEF AtHeader
      <4> QED
        BY <4>1, ReaderIs, Sizing
    <3> QED
      BY <1>3, <3>1 DEF AtStart
  <2>3. c.r = 1 /\ c.type \in {"full", "first"}
    <3>1. c = file[1] /\ Whole(file, 0)
      BY <1>1, <1>2, <2>1
    <3> QED
      BY <3>1 DEF Linked
  <2> QED
    BY <1>1, <2>1, <2>2, <2>3
<1>4. CASE \E a \in 0..(Len(file) - 1) : AtFragment(a)
  <2>1. PICK a \in 0..(Len(file) - 1) : AtFragment(a)
    BY <1>4
  <2>2. q = After(file, a) /\ InBlock(q)
    BY <1>1, <2>1, HeaderPlace
  <2>3. PICK d : d = file[a + 1]
    OBVIOUS
  <2>4. Whole(file, a) /\ d.r \in Nat
    <3>1. Whole(file, a) /\ a + 1 \in 1..Len(file)
      BY <2>1, ReaderIs DEF AtFragment
    <3> QED
      BY <2>3, <3>1, ReaderIs, FileCell
  <2>5. Follows(d, c)
    BY <1>1, <1>2, <2>2, <2>3, <2>4 DEF Linked
  <2>6. Len(out) = Complete(d) /\ (in_fragmented_record <=> ~Ends(d))
    BY <2>1, <2>3 DEF AtFragment
  <2>7. CASE Ends(d)
    <3>1. c.r = Len(out) + 1 /\ c.type \in {"full", "first"}
      BY <2>5, <2>6, <2>7 DEF Follows, Complete
    <3> QED
      BY <1>1, <2>2, <2>6, <2>7, <3>1
  <2>8. CASE ~Ends(d)
    <3>1. c.r = Len(out) + 1 /\ c.type \in {"middle", "last"}
      BY <2>4, <2>5, <2>6, <2>8 DEF Follows, Complete
    <3> QED
      BY <1>1, <2>2, <2>6, <2>8, <3>1
  <2> QED
    BY <2>7, <2>8
<1>5. CASE AtTail
  <2>1. Len(buffer_) # 0
    <3>1. Len(buffer_) >= HeaderSize
      BY DEF AtHeader
    <3> QED
      BY <3>1, Sizing
  <2>2. Aligned(q) /\ q >= Position
    BY <1>1, <1>2, <1>5, <2>1 DEF AtTail
  <2> QED
    BY <1>1, <1>2, <1>5, <2>2 DEF AtTail
<1> QED
  BY <1>3, <1>4, <1>5 DEF Reading

LEMMA FragmentClean ==
  ASSUME LogInv, LogInv', CleanInv,
         FullRecord \/ FirstFragment \/ MiddleFragment \/ LastFragment
  PROVE  CleanInv'
<1>1. /\ AtHeader /\ Intact /\ Consume /\ UNCHANGED <<writerVars, ended>>
      /\ phase = "read" /\ phase' = phase /\ next' = next /\ eof_' = eof_ /\ file' = file
      /\ records' = records /\ faults' = faults /\ returned' = returned /\ ended' = ended
  BY DEF FullRecord, FirstFragment, MiddleFragment, LastFragment, Start, AtHeader, writerVars
<1> SUFFICES ASSUME faults = 0, ended # "power" PROVE CleanInv'
  BY <1>1 DEF CleanInv
<1>2. ReadBack /\ CleanIsSilent /\ Linked(file) /\ Reading
  BY <1>1 DEF CleanInv
<1>a. PICK q \in 0..(Len(file) - 1) : q = Position
  BY <1>1, IntactIs
<1>3. PICK c : q = Position /\ c = file[q + 1]
  BY <1>a
<1>4. /\ Whole(file, q) /\ ShownType = c.type /\ c.r \in Nat /\ c.at \in Nat /\ c.len \in Nat
      /\ Fragment = Payload(c.r, c.at, c.len)
  BY <1>1, <1>3, IntactIs
<1>5. /\ InBlock(q) /\ c.r = Len(out) + 1
      /\ in_fragmented_record => c.type \in {"middle", "last"}
      /\ ~in_fragmented_record => c.type \in {"full", "first"}
  BY <1>1, <1>2, <1>3, Expected
<1>6. Position' = Until(file, q)
  BY <1>1, <1>3, ConsumeIs
<1>7. /\ c.r \in DOMAIN records
      /\ c.type \in {"full", "first"} => c.at = 0
      /\ c.type \in {"full", "last"} => c.at + c.len = records[c.r]
  <2>1. q + 1 \in 1..Len(file) /\ Opens(c)
    BY <1>3, <1>4, ReaderIs DEF Whole
  <2> QED
    BY <1>3, <2>1, ReaderIs DEF Headers
<1>8. /\ out \in Seq(Seq(Cell)) /\ Len(out) \in Nat /\ records \in Seq(Sizes)
      /\ Len(records) \in Nat /\ c.r <= Len(records)
  <2>1. out \in Seq(Seq(Cell)) /\ records \in Seq(Sizes)
    BY ReaderIs
  <2> QED
    BY <1>7, <2>1
\* It is enough that the reader is behind this fragment.
<1>9. ASSUME reported' <=> reported, in_fragmented_record' <=> ~Ends(c),
             in_fragmented_record' => scratch' = Payload(c.r, 0, c.at + c.len),
             out' = IF Ends(c) THEN Append(out, Record(c.r)) ELSE out
      PROVE  CleanInv'
  <2>1. Len(out') = Complete(c) /\ \A i \in 1..Len(out') : out'[i] = Record(i)
    <3>1. \A i \in 1..Len(out) : out[i] = Record(i)
      BY <1>2 DEF ReadBack
    <3>2. CASE Ends(c)
      <4>1. out' = Append(out, Record(c.r)) /\ Complete(c) = Len(out) + 1
        BY <1>5, <1>9, <3>2 DEF Complete
      <4>2. PICK x : x = Record(c.r)
        OBVIOUS
      <4>3. x \in Seq(Cell)
        <5>1. records[c.r] \in Nat
          <6>1. records[c.r] \in Sizes
            BY <1>7, <1>8
          <6> QED
            BY <6>1, LogAssumption
        <5> QED
          BY <1>4, <4>2, <5>1, PayloadIs DEF Record
      <4>4. out' = Append(out, x)
        BY <4>1, <4>2
      <4>5. /\ Len(out') = Len(out) + 1
            /\ \A i \in 1..Len(out') : out'[i] = IF i = Len(out) + 1 THEN x ELSE out[i]
        BY <1>8, <4>3, <4>4
      <4>6. ASSUME NEW i \in 1..Len(out') PROVE out'[i] = Record(i)
        <5>1. CASE i = Len(out) + 1
          BY <1>5, <4>2, <4>5, <5>1
        <5>2. CASE i # Len(out) + 1
          <6>1. i \in 1..Len(out)
            BY <1>8, <4>5, <5>2
          <6> QED
            BY <3>1, <4>5, <5>2, <6>1
        <5> QED
          BY <5>1, <5>2
      <4> QED
        BY <4>1, <4>5, <4>6
    <3>3. CASE ~Ends(c)
      BY <1>5, <1>8, <1>9, <3>1, <3>3 DEF Complete
    <3> QED
      BY <3>2, <3>3
  <2>2. Len(out') <= Len(records')
    BY <1>1, <1>4, <1>8, <2>1 DEF Complete
  <2>3. ReadBack'
    <3>1. \A i \in 1..Len(out') : out'[i] = Record(i)'
      BY <1>1, <2>1 DEF Record
    <3> QED
      BY <1>1, <2>2, <3>1 DEF ReadBack
  <2>4. CleanIsSilent'
    BY <1>1, <1>2, <1>9 DEF CleanIsSilent
  <2>5. InBlock(q)'
    BY <1>1, <1>5 DEF InBlock
  <2>6. AtFragment(q)'
    <3>1. Whole(file', q) /\ file'[q + 1] = c /\ Position' = Until(file', q)
      BY <1>1, <1>3, <1>4, <1>6
    <3> QED
      BY <1>9, <2>1, <2>5, <3>1 DEF AtFragment
  <2>7. Reading'
    BY <1>1, <2>6 DEF Reading
  <2> QED
    BY <1>1, <2>3, <2>4, <2>7, ReaderCleanKeeps
<1>10. CASE FullRecord
  <2>1. /\ c.type = "full" /\ out' = Append(out, Fragment)
        /\ in_fragmented_record' = FALSE
        /\ reported' = (reported \/ (in_fragmented_record /\ scratch # << >>))
    BY <1>4, <1>10 DEF FullRecord, Start, ReportCorruption
  <2>2. Ends(c) /\ ~in_fragmented_record
    BY <1>5, <2>1 DEF Ends
  <2>3. Fragment = Record(c.r)
    BY <1>4, <1>7, <2>1 DEF Record
  <2>4. reported' <=> reported
    BY <2>1, <2>2
  <2> QED
    BY <1>9, <2>1, <2>2, <2>3, <2>4
<1>11. CASE FirstFragment
  <2>1. /\ c.type = "first" /\ out' = out /\ in_fragmented_record' = TRUE
        /\ scratch' = Fragment
        /\ reported' = (reported \/ (in_fragmented_record /\ scratch # << >>))
    BY <1>4, <1>11 DEF FirstFragment, Start, ReportCorruption
  <2>2. ~Ends(c) /\ ~in_fragmented_record
    BY <1>5, <2>1 DEF Ends
  <2>3. scratch' = Payload(c.r, 0, c.at + c.len)
    BY <1>4, <1>7, <2>1
  <2>4. reported' <=> reported
    BY <2>1, <2>2
  <2> QED
    BY <1>9, <2>1, <2>2, <2>3, <2>4
<1>12. CASE MiddleFragment
  <2>1. /\ c.type = "middle" /\ out' = out
        /\ in_fragmented_record' = in_fragmented_record
        /\ scratch' = IF in_fragmented_record THEN scratch \o Fragment ELSE scratch
        /\ reported' = (reported \/ ~in_fragmented_record)
    BY <1>4, <1>12 DEF MiddleFragment, ReportCorruption
  <2>2. ~Ends(c) /\ in_fragmented_record
    BY <1>5, <2>1 DEF Ends
  <2>3. scratch' = Payload(c.r, 0, c.at + c.len)
    BY <1>1, <1>3, <1>4, <2>1, <2>2, Joined
  <2>4. reported' <=> reported
    BY <2>1, <2>2
  <2> QED
    BY <1>9, <2>1, <2>2, <2>3, <2>4
<1>13. CASE LastFragment
  <2>1. /\ c.type = "last" /\ in_fragmented_record' = FALSE
        /\ out' = IF in_fragmented_record THEN Append(out, scratch \o Fragment) ELSE out
        /\ reported' = (reported \/ ~in_fragmented_record)
    BY <1>4, <1>13 DEF LastFragment, ReportCorruption
  <2>2. Ends(c) /\ in_fragmented_record
    BY <1>5, <2>1 DEF Ends
  <2>3. scratch \o Fragment = Record(c.r)
    BY <1>1, <1>3, <1>4, <1>7, <2>1, <2>2, Joined DEF Record
  <2>4. reported' <=> reported
    BY <2>1, <2>2
  <2> QED
    BY <1>9, <2>1, <2>2, <2>3, <2>4
<1> QED
  BY <1>10, <1>11, <1>12, <1>13

\* What file_->Read() returns is what is left of the file, up to a block of it.
LEMMA ReadTo ==
  ASSUME LogInv, ReadBlock
  PROVE  /\ Position' = next
         /\ \/ ~eof_' /\ next' = next + BlockSize
            \/ eof_' /\ next' = Len(file) /\ next' < next + BlockSize
<1> DEFINE last == IF next + BlockSize < Len(file) THEN next + BlockSize ELSE Len(file)
<1>0. PICK to : to = last
  OBVIOUS
<1>1. PICK n \in Nat, L \in Nat : n = next /\ to = last /\ L = Len(file)
  BY <1>0, ReaderIs
<1>2. /\ buffer_' = SubSeq(file, n + 1, to) /\ eof_' = (to - n < BlockSize) /\ next' = to
  BY <1>1 DEF ReadBlock, ShortRead
<1>3. n <= L
  BY <1>1, ReaderIs
<1>4. to = IF n + BlockSize < L THEN n + BlockSize ELSE L
  BY <1>1
<1> HIDE DEF last
<1>5. to \in Nat /\ n <= to /\ to <= L
  BY <1>3, <1>4, Sizing
<1>6. Len(buffer_') = to - n
  <2>1. \A i \in (n + 1)..to : i \in 1..L
    BY <1>5
  <2>2. \A i \in (n + 1)..to : file[i] \in Cell
    BY <1>1, <2>1, ReaderIs
  <2>3. n + 1 \in Int /\ to \in Int
    BY <1>5
  <2>4. Len(SubSeq(file, n + 1, to)) = IF n + 1 <= to THEN to - (n + 1) + 1 ELSE 0
    BY <2>2, <2>3, SubSeqProperties
  <2>5. (IF n + 1 <= to THEN to - (n + 1) + 1 ELSE 0) = to - n
    BY <1>5
  <2> QED
    BY <1>2, <2>4, <2>5
<1>7. Position' = n
  BY <1>2, <1>5, <1>6 DEF Position
<1>8. \/ ~(to - n < BlockSize) /\ to = n + BlockSize
      \/ to - n < BlockSize /\ to = L /\ to < n + BlockSize
  BY <1>3, <1>4, Sizing
<1> QED
  BY <1>1, <1>2, <1>7, <1>8

LEMMA ReadBlockClean ==
  ASSUME LogInv, LogInv', CleanInv, ReadBlock
  PROVE  CleanInv'
<1>1. /\ phase = "read" /\ phase' = phase /\ UNCHANGED <<writerVars, ended>> /\ file' = file
      /\ Len(buffer_) < HeaderSize /\ ~eof_ /\ out' = out /\ reported' = reported
      /\ in_fragmented_record' = in_fragmented_record /\ scratch' = scratch
      /\ returned' = returned /\ faults' = faults /\ ended' = ended
  BY DEF ReadBlock, writerVars
<1> SUFFICES ASSUME faults = 0, ended # "power" PROVE CleanInv'
  BY <1>1 DEF CleanInv
<1>2. ReadBack /\ CleanIsSilent /\ Linked(file) /\ Reading
  BY <1>1 DEF CleanInv
<1>3. /\ Position' = next
      /\ \/ ~eof_' /\ next' = next + BlockSize
         \/ eof_' /\ next' = Len(file) /\ next' < next + BlockSize
  BY ReadTo
<1>4. /\ Position \in Nat /\ next \in Nat /\ Len(buffer_) \in Nat
      /\ Position + Len(buffer_) = next /\ Len(file) \in Nat /\ file \in Seq(Cell)
  BY ReaderIs
<1>5. ASSUME NEW x, x = next, Base(x) = x PROVE InBlock(x)'
  BY <1>1, <1>3, <1>5 DEF InBlock
<1>6. Base(0) = 0
  BY AlignedZero, BaseUnique, Sizing
<1>7. Reading'
  <2>1. CASE AtStart
    <3>1. next = 0
      BY <1>1, <1>4, <1>6, <2>1, Sizing DEF AtStart, InBlock
    <3>2. InBlock(0)'
      BY <1>5, <1>6, <3>1
    <3>3. Position' = 0
      BY <1>3, <3>1
    <3>4. AtStart'
      BY <1>1, <2>1, <3>2, <3>3 DEF AtStart
    <3> QED
      BY <3>4 DEF Reading
  <2>2. CASE \E a \in 0..(Len(file) - 1) : AtFragment(a)
    <3>1. PICK a \in 0..(Len(file) - 1) : AtFragment(a)
      BY <2>2
    <3>2. a \in Nat /\ Whole(file, a) /\ Until(file, a) <= Base(a) + BlockSize
      BY <1>2, <1>4, <3>1 DEF AtFragment, Linked
    <3>3. PICK u \in Nat, b \in Nat, s \in Nat :
            u = Until(file, a) /\ b = Base(a) /\ s = After(file, a)
      BY <1>4, <3>2, AfterIs, BaseIs, WholeCells
    <3>4. \/ s = u /\ Base(s) = b /\ u + HeaderSize <= b + BlockSize
          \/ s = b + BlockSize /\ Base(s) = s /\ b + BlockSize < u + HeaderSize
      BY <1>4, <3>2, <3>3, AfterIs
    <3>5. next = s /\ Base(s) = s
      <4>1. CASE Position = u /\ next = b + BlockSize
        BY <1>1, <1>4, <3>4, <4>1, Sizing
      <4>2. CASE Position = s /\ next = Base(s) + BlockSize
        BY <1>1, <1>4, <3>4, <4>2, Sizing
      <4> QED
        BY <1>1, <3>1, <3>3, <4>1, <4>2 DEF AtFragment, InBlock
    <3>6. /\ Position' = s
          /\ \/ ~eof_' /\ next' = Base(s) + BlockSize
             \/ eof_' /\ next' = Len(file') /\ next' < Base(s) + BlockSize
      <4>1. Base(s) = next
        BY <3>5
      <4> QED
        BY <1>1, <1>3, <3>5, <4>1, Zenon
    <3>7. InBlock(After(file, a))' /\ Position' = After(file', a)
      <4>1. After(file', a) = s
        BY <1>1, <3>3
      <4> QED
        BY <3>6, <4>1, Zenon DEF InBlock
    <3>8. AtFragment(a)'
      BY <1>1, <3>1, <3>7 DEF AtFragment
    <3> QED
      BY <1>1, <3>8 DEF Reading
  <2>3. CASE AtTail
    <3>1. Aligned(next)
      BY <1>1, <2>3 DEF AtTail
    <3>2. Position <= next
      BY <1>4
    <3>3. Aligned(next + BlockSize)
      BY <1>4, <3>1, AlignedNext
    <3>4. IF eof_' THEN next' = Len(file') ELSE Aligned(next')
      BY <1>1, <1>3, <3>3
    <3>5. \A q \in 0..(Len(file') - 1) : q >= Position' /\ Aligned(q) => ~Whole(file', q)
      BY <1>1, <1>3, <1>4, <2>3, <3>2 DEF AtTail
    <3>6. Silent' => Aligned(Len(file')) /\ \A x \in (Position' + 1)..Len(file') : file'[x] = Zero
      <4>1. \A x \in (next + 1)..Len(file) : x \in (Position + 1)..Len(file)
        BY <1>4, <3>2
      <4> QED
        BY <1>1, <1>3, <2>3, <4>1 DEF AtTail, Silent
    <3>7. AtTail'
      BY <1>1, <1>3, <2>3, <3>1, <3>4, <3>5, <3>6 DEF AtTail
    <3> QED
      BY <3>7 DEF Reading
  <2> QED
    BY <1>2, <2>1, <2>2, <2>3 DEF Reading
<1>8. ReadBack' /\ CleanIsSilent'
  BY <1>1, <1>2, SameOutput
<1> QED
  BY <1>1, <1>7, <1>8, ReaderCleanKeeps

\* What the reader knows where no whole fragment is: every acknowledged record has been
\* returned, no later block begins with a fragment, and what is left of a file without a
\* torn record is zeros.
NothingLeft ==
  /\ returned \subseteq 1..Len(out)
  /\ \A q \in 0..(Len(file) - 1) : q > Position /\ Aligned(q) => ~Whole(file, q)
  /\ Silent => /\ ~in_fragmented_record
               /\ Position = Len(file) \/ Aligned(Len(file))
               /\ \A x \in (Position + 1)..Len(file) : file[x] = Zero

LEMMA BehindFinal ==
  ASSUME LogInv, Linked(file), Finished, NEW a \in 0..(Len(file) - 1), AtFragment(a),
         Final(file, a), After(file, a) = Position
  PROVE  NothingLeft
<1>1. a \in Nat /\ Whole(file, a) /\ file \in Seq(Cell) /\ Len(file) \in Nat
      /\ Position \in Nat /\ next <= Len(file) /\ Position <= Len(file)
  BY ReaderIs DEF Final
<1>2. Until(file, a) <= Base(a) + BlockSize
  BY <1>1 DEF Linked
<1>3. PICK u \in Nat : u = Until(file, a) /\ u <= Position
  BY <1>1, <1>2, AfterIs, WholeCells
<1>4. /\ Dead(file, Position) /\ returned \subseteq 1..Complete(file[a + 1])
      /\ Silent => Ends(file[a + 1]) /\ Blanks(file, u)
  BY <1>3 DEF Finished
<1>5. Len(out) = Complete(file[a + 1]) /\ (in_fragmented_record <=> ~Ends(file[a + 1]))
  BY DEF AtFragment
<1>6. Silent => /\ ~in_fragmented_record
                /\ Position = Len(file) \/ Aligned(Len(file))
                /\ \A x \in (Position + 1)..Len(file) : file[x] = Zero
  <2> SUFFICES ASSUME Silent
               PROVE  /\ ~in_fragmented_record
                      /\ Position = Len(file) \/ Aligned(Len(file))
                      /\ \A x \in (Position + 1)..Len(file) : file[x] = Zero
    OBVIOUS
  <2>1. /\ u = Len(file) \/ Aligned(Len(file))
        /\ \A x \in (u + 1)..Len(file) : file[x] = Zero
    BY <1>4, <1>5 DEF Blanks
  <2>2. \A x \in (Position + 1)..Len(file) : x \in (u + 1)..Len(file)
    BY <1>1, <1>3
  <2>3. Position = Len(file) \/ Aligned(Len(file))
    BY <1>1, <1>3, <2>1
  <2>4. ~in_fragmented_record
    BY <1>4, <1>5
  <2> QED
    BY <2>1, <2>2, <2>3, <2>4
<1> QED
  BY <1>4, <1>5, <1>6 DEF NothingLeft, Dead

LEMMA BehindStart ==
  ASSUME LogInv, Finished, AtStart, ~Whole(file, 0)
  PROVE  NothingLeft
<1>1. Dead(file, 0) /\ returned = {} /\ (Silent => Blanks(file, 0))
  BY DEF Finished
<1>2. Position = 0 /\ ~in_fragmented_record
  BY DEF AtStart
<1>3. Silent => /\ Position = Len(file) \/ Aligned(Len(file))
                /\ \A x \in (Position + 1)..Len(file) : file[x] = Zero
  BY <1>1, <1>2 DEF Blanks
<1> QED
  BY <1>1, <1>2, <1>3 DEF NothingLeft, Dead

LEMMA NotIntact ==
  ASSUME LogInv, Linked(file), Finished, Reading, AtHeader, ~Intact
  PROVE  NothingLeft /\ (IF eof_ THEN next = Len(file) ELSE Aligned(next))
<1>1. /\ Position \in Nat /\ next \in Nat /\ Len(buffer_) \in Nat /\ Len(buffer_) >= HeaderSize
      /\ Position + Len(buffer_) = next /\ Len(file) \in Nat /\ next <= Len(file)
      /\ file \in Seq(Cell) /\ eof_ \in BOOLEAN
  BY ReaderIs DEF AtHeader
<1>2. Position < next /\ Position \in 0..(Len(file) - 1) /\ Len(buffer_) # 0
  BY <1>1, Sizing
<1>3. ASSUME InBlock(Position)
      PROVE  /\ ~Whole(file, Position)
             /\ IF eof_ THEN next = Len(file) ELSE Aligned(next)
  <2>1. ~Whole(file, Position)
    <3> SUFFICES ASSUME Whole(file, Position) PROVE FALSE
      OBVIOUS
    <3>1. Until(file, Position) <= Base(Position) + BlockSize
      BY <1>2 DEF Linked
    <3> QED
      BY <1>3, <3>1, WholeIntact
  <2>2. PICK b \in Nat : b = Base(Position) /\ Aligned(b + BlockSize)
    BY <1>1, BaseIs, AlignedNext
  <2>3. IF eof_ THEN next = Len(file) ELSE Aligned(next)
    BY <1>3, <2>2 DEF InBlock
  <2> QED
    BY <2>1, <2>3
<1>4. CASE AtStart
  <2>1. Position = 0 /\ InBlock(0)
    BY <1>1, <1>2, <1>4 DEF AtStart
  <2> QED
    BY <1>3, <1>4, <2>1, BehindStart
<1>5. CASE \E a \in 0..(Len(file) - 1) : AtFragment(a)
  <2>1. PICK a \in 0..(Len(file) - 1) : AtFragment(a)
    BY <1>5
  <2>2. Position = After(file, a) /\ InBlock(Position)
    BY <2>1, HeaderPlace
  <2>3. ~Whole(file, After(file, a)) /\ (IF eof_ THEN next = Len(file) ELSE Aligned(next))
    BY <1>3, <2>2
  <2>4. Final(file, a)
    BY <2>1, <2>3 DEF Final, AtFragment
  <2> QED
    BY <2>1, <2>2, <2>3, <2>4, BehindFinal
<1>6. CASE AtTail
  BY <1>1, <1>6 DEF AtTail, NothingLeft
<1> QED
  BY <1>4, <1>5, <1>6 DEF Reading

LEMMA BadRecordClean ==
  ASSUME LogInv, LogInv', CleanInv, BadRecord
  PROVE  CleanInv'
<1>1. /\ phase = "read" /\ phase' = phase /\ buffer_' = << >> /\ UNCHANGED <<writerVars, ended>>
      /\ next' = next /\ eof_' = eof_ /\ in_fragmented_record' = FALSE /\ out' = out
      /\ AtHeader /\ ~Intact /\ file' = file /\ returned' = returned /\ faults' = faults
      /\ ended' = ended
      /\ reported' = (reported \/ (in_fragmented_record \/ ~Blank))
  BY DEF BadRecord, AtHeader, FragmentedAfterBad, writerVars, ReportCorruption
<1> SUFFICES ASSUME faults = 0, ended # "power" PROVE CleanInv'
  BY <1>1 DEF CleanInv
<1>2. ReadBack /\ CleanIsSilent /\ Linked(file) /\ Reading /\ Finished
  BY <1>1 DEF CleanInv
<1>3. NothingLeft /\ (IF eof_ THEN next = Len(file) ELSE Aligned(next))
  BY <1>1, <1>2, NotIntact
<1>4. /\ Position \in Nat /\ next \in Nat /\ Len(buffer_) \in Nat /\ Len(buffer_) >= HeaderSize
      /\ Position + Len(buffer_) = next /\ Len(file) \in Nat /\ next <= Len(file)
      /\ \A i \in 1..Len(buffer_) : buffer_[i] = file[Position + i]
  BY <1>1, ReaderIs DEF AtHeader
<1>5. Position' = next /\ Position < next /\ Len(buffer_') = 0
  <2>1. Len(buffer_') = 0
    BY <1>1
  <2> QED
    BY <1>1, <1>4, <2>1, Sizing DEF Position
<1>6. Silent => (reported' <=> reported)
  <2> SUFFICES ASSUME Silent PROVE reported' <=> reported
    OBVIOUS
  <2>1. ~in_fragmented_record /\ \A x \in (Position + 1)..Len(file) : file[x] = Zero
    BY <1>3 DEF NothingLeft
  <2>2. ASSUME NEW i \in 1..HeaderSize PROVE buffer_[i] = Zero
    <3>1. i \in 1..Len(buffer_) /\ Position + i \in (Position + 1)..Len(file)
      BY <1>4, Sizing
    <3> QED
      BY <1>4, <2>1, <3>1
  <2>3. Blank
    <3>1. 1 \in 1..HeaderSize /\ HeaderSize \in 1..HeaderSize
      BY Sizing
    <3> QED
      BY <2>2, <3>1 DEF Blank
  <2> QED
    BY <1>1, <2>1, <2>3
<1>7. AtTail'
  <2>1. returned' \subseteq 1..Len(out')
    BY <1>1, <1>3 DEF NothingLeft
  <2>2. Aligned(Position') \/ (eof_' /\ Len(buffer_') = 0)
    BY <1>1, <1>3, <1>5
  <2>3. \A q \in 0..(Len(file') - 1) : q >= Position' /\ Aligned(q) => ~Whole(file', q)
    BY <1>1, <1>3, <1>4, <1>5 DEF NothingLeft
  <2>4. IF eof_' THEN next' = Len(file') ELSE Aligned(next')
    BY <1>1, <1>3
  <2>5. Silent' => Aligned(Len(file')) /\ \A x \in (Position' + 1)..Len(file') : file'[x] = Zero
    <3> SUFFICES ASSUME Silent'
                 PROVE  /\ Aligned(Len(file'))
                        /\ \A x \in (Position' + 1)..Len(file') : file'[x] = Zero
      OBVIOUS
    <3>1. /\ Position = Len(file) \/ Aligned(Len(file))
          /\ \A x \in (Position + 1)..Len(file) : file[x] = Zero
      BY <1>1, <1>3 DEF NothingLeft, Silent
    <3>2. Aligned(Len(file))
      BY <1>4, <1>5, <3>1
    <3>3. \A x \in (next + 1)..Len(file) : x \in (Position + 1)..Len(file)
      BY <1>4, <1>5
    <3> QED
      BY <1>1, <1>5, <3>1, <3>2, <3>3
  <2> QED
    BY <1>1, <2>1, <2>2, <2>3, <2>4, <2>5 DEF AtTail
<1>8. ReadBack' /\ CleanIsSilent'
  <2>1. phase' # "eof"
    BY <1>1
  <2> QED
    BY <1>1, <1>2, <1>6, <2>1, SameOutput
<1> QED
  BY <1>1, <1>7, <1>8, ReaderCleanKeeps DEF Reading

\* At the end of the file nothing is left, and a file without a torn record ends with the
\* last fragment or with a block.
LEMMA AtEnd ==
  ASSUME LogInv, Linked(file), Finished, Reading, Len(buffer_) < HeaderSize, eof_
  PROVE  /\ returned \subseteq 1..Len(out)
         /\ Silent => buffer_ = << >> /\ ~in_fragmented_record
<1>1. /\ Position \in Nat /\ next \in Nat /\ Len(buffer_) \in Nat /\ buffer_ \in Seq(Cell)
      /\ Position + Len(buffer_) = next /\ Len(file) \in Nat /\ file \in Seq(Cell)
  BY ReaderIs
<1>2. ASSUME NEW p \in Nat, Len(file) < p + HeaderSize PROVE ~Whole(file, p)
  <2> SUFFICES ASSUME Whole(file, p) PROVE FALSE
    OBVIOUS
  <2>1. p + 1 \in 1..Len(file)
    BY <1>1 DEF Whole
  <2>2. file[p + 1].len \in Nat
    BY <1>1, <2>1, FileCell
  <2> QED
    BY <1>1, <1>2, <2>2, Sizing DEF Whole, Until
\* A file of whole blocks that ends inside a block ends where the block begins.
<1>3. ASSUME NEW b \in Nat, Aligned(b), b <= Len(file), Len(file) < b + BlockSize,
             Aligned(Len(file))
      PROVE  Len(file) = b
  BY <1>1, <1>3, AlignedUnique
<1>4. ASSUME Len(file) = Position, next = Len(file) PROVE buffer_ = << >>
  <2>1. Len(buffer_) = 0
    BY <1>1, <1>4
  <2> QED
    BY <1>1, <2>1
<1>5. CASE AtStart
  <2>1. /\ Position = 0 /\ ~in_fragmented_record /\ next = Len(file)
    BY <1>5 DEF AtStart, InBlock
  <2>2. Len(file) < 0 + HeaderSize /\ 0 \in Nat
    BY <1>1, <2>1, Sizing
  <2>3. NothingLeft
    BY <1>2, <1>5, <2>2, BehindStart
  <2>4. Aligned(Len(file)) => Len(file) = 0
    <3>1. 0 <= Len(file) /\ Len(file) < 0 + BlockSize
      BY <1>1, <2>2, Sizing
    <3> QED
      BY <1>3, <3>1, AlignedZero
  <2> QED
    BY <1>4, <2>1, <2>3, <2>4 DEF NothingLeft
<1>6. CASE \E a \in 0..(Len(file) - 1) : AtFragment(a)
  <2>1. PICK a \in 0..(Len(file) - 1) : AtFragment(a)
    BY <1>6
  <2>2. a \in Nat /\ Whole(file, a) /\ Until(file, a) <= Base(a) + BlockSize
    BY <1>1, <2>1 DEF AtFragment, Linked
  <2>3. PICK u \in Nat, b \in Nat, s \in Nat :
          /\ u = Until(file, a) /\ b = Base(a) /\ s = After(file, a)
          /\ Aligned(b) /\ b <= a /\ a < u
    BY <1>1, <2>2, AfterIs, BaseIs, WholeCells
  <2>4. /\ u <= s
        /\ \/ s = u /\ Base(s) = b
           \/ s = b + BlockSize /\ Base(s) = s
    BY <1>1, <2>2, <2>3, AfterIs
  <2>5. next = Len(file)
    BY <2>1 DEF AtFragment, InBlock
  <2>6. \/ Position = u /\ Len(file) < b + BlockSize
        \/ Position = s /\ Len(file) < Base(s) + BlockSize
    BY <2>1, <2>3 DEF AtFragment, InBlock
  <2>7. Final(file, a)
    <3>1. Len(file) < s + HeaderSize
      BY <1>1, <2>3, <2>4, <2>5, <2>6, Sizing
    <3> QED
      BY <1>2, <2>2, <2>3, <3>1 DEF Final
  <2>8. /\ returned \subseteq 1..Complete(file[a + 1])
        /\ Silent => Ends(file[a + 1]) /\ Blanks(file, u)
    BY <2>3, <2>7 DEF Finished
  <2>9. /\ Len(out) = Complete(file[a + 1])
        /\ in_fragmented_record <=> ~Ends(file[a + 1])
    BY <2>1 DEF AtFragment
  <2>10. ASSUME Silent PROVE Len(file) = Position
    <3>1. u = Len(file) \/ Aligned(Len(file))
      BY <2>8, <2>10 DEF Blanks
    <3>2. Position <= Len(file)
      BY <1>1, <2>5
    <3>3. CASE u = Len(file)
      BY <1>1, <2>3, <2>4, <2>6, <3>2, <3>3
    <3>4. CASE Aligned(Len(file))
      <4>1. CASE Position = u /\ Len(file) < b + BlockSize
        <5>1. b <= Len(file) /\ b # Len(file)
          BY <1>1, <2>3, <3>2, <4>1
        <5> QED
          BY <1>3, <2>3, <3>4, <4>1, <5>1
      <4>2. CASE Position = s /\ Len(file) < Base(s) + BlockSize
        <5>1. Base(s) \in Nat /\ Aligned(Base(s)) /\ Base(s) <= s
          BY <2>3, BaseIs
        <5>2. Base(s) <= Len(file)
          BY <1>1, <2>3, <3>2, <4>2, <5>1
        <5>3. Len(file) = Base(s)
          BY <1>3, <3>4, <4>2, <5>1, <5>2
        <5> QED
          BY <1>1, <3>2, <4>2, <5>1, <5>3
      <4> QED
        BY <2>6, <4>1, <4>2
    <3> QED
      BY <3>1, <3>3, <3>4
  <2>11. Silent => ~in_fragmented_record
    BY <2>8, <2>9
  <2> QED
    BY <1>4, <2>5, <2>8, <2>9, <2>10, <2>11
<1>7. CASE AtTail
  <2>1. /\ returned \subseteq 1..Len(out) /\ ~in_fragmented_record /\ next = Len(file)
        /\ Aligned(Position) \/ Len(buffer_) = 0
        /\ Silent => Aligned(Len(file))
    BY <1>7 DEF AtTail
  <2>2. Silent => Len(file) = Position
    <3>1. Position <= Len(file) /\ Len(file) < Position + BlockSize
      BY <1>1, <2>1, Sizing
    <3>2. Len(buffer_) = 0 => Len(file) = Position
      BY <1>1, <2>1
    <3> QED
      BY <1>1, <1>3, <2>1, <3>1, <3>2
  <2> QED
    BY <1>4, <2>1, <2>2
<1> QED
  BY <1>5, <1>6, <1>7 DEF Reading

LEMMA EndOfFileClean ==
  ASSUME LogInv, LogInv', CleanInv, EndOfFile
  PROVE  CleanInv'
<1>1. /\ phase = "read" /\ phase' = "eof" /\ UNCHANGED <<writerVars, ended>>
      /\ Len(buffer_) < HeaderSize /\ eof_ /\ out' = out /\ faults' = faults /\ ended' = ended
      /\ reported' = (reported \/ (buffer_ # << >> \/ in_fragmented_record))
  BY DEF EndOfFile, ReportCorruption, writerVars
<1> SUFFICES ASSUME faults = 0, ended # "power" PROVE CleanInv'
  BY <1>1 DEF CleanInv
<1>2. ReadBack /\ CleanIsSilent /\ Linked(file) /\ Reading /\ Finished
  BY <1>1 DEF CleanInv
<1>3. /\ returned \subseteq 1..Len(out)
      /\ Silent => buffer_ = << >> /\ ~in_fragmented_record
  BY <1>1, <1>2, AtEnd
<1>4. Silent => (reported' <=> reported)
  BY <1>1, <1>3
<1>5. ReadBack' /\ CleanIsSilent'
  BY <1>1, <1>2, <1>3, <1>4, SameOutput
<1> QED
  BY <1>1, <1>5, ReaderCleanKeeps

-----------------------------------------------------------------------------
(* Theorems about files without a failed append or read.                   *)

\* CleanInv is an invariant: as long as no append or read failed and the machine has not
\* stopped, every block is a sequence of whole fragments, each the one that has to come,
\* and the reader is behind one of them or beyond the last.
THEOREM CleanInvariant == Spec => []CleanInv
<1>1. ASSUME LogInv, LogInv', CleanInv, [Next]_vars PROVE CleanInv'
  <2>1. CASE AddRecord
    BY <1>1, <2>1, AddRecordClean
  <2>2. CASE EmitPhysicalRecord
    BY <1>1, <2>2, EmitClean
  <2>3. CASE Close \/ Kill \/ KillInside \/ PowerLoss
    BY <1>1, <2>3, EndStepClean
  <2>4. CASE ReadBlock
    BY <1>1, <2>4, ReadBlockClean
  <2>5. CASE EndOfFile
    BY <1>1, <2>5, EndOfFileClean
  <2>6. CASE BadRecord
    BY <1>1, <2>6, BadRecordClean
  <2>7. CASE FullRecord \/ FirstFragment \/ MiddleFragment \/ LastFragment
    BY <1>1, <2>7, FragmentClean
  <2>8. CASE ReadFails
    <3>1. faults' # 0 /\ phase' # "write"
      <4>1. faults \in Nat
        BY <1>1, Sizing DEF LogInv, NoPhantom, TypeOK
      <4> QED
        BY <2>8, <4>1 DEF ReadFails
    <3> QED
      BY <3>1 DEF CleanInv
  <2>9. CASE Done \/ UNCHANGED vars
    <3>1. UNCHANGED vars
      BY <2>9 DEF Done
    <3>2. /\ ReadBack' = ReadBack /\ CleanIsSilent' = CleanIsSilent
          /\ Linked(file)' = Linked(file)
      BY <3>1 DEF vars, writerVars, readerVars, ReadBack, Record, CleanIsSilent, Linked
    <3>3. WriterEnd' = WriterEnd /\ Finished' = Finished
      BY <3>1 DEF vars, writerVars, readerVars, WriterEnd, LastWritten, Resting, Finished, Silent
    <3>4. Reading' = Reading
      BY <3>1 DEF vars, writerVars, readerVars, Reading, AtStart, AtFragment, AtTail, InBlock,
                  Position, Silent
    <3> QED
      BY <1>1, <3>1, <3>2, <3>3, <3>4 DEF vars, writerVars, CleanInv
  <2> QED
    BY <1>1, <2>1, <2>2, <2>3, <2>4, <2>5, <2>6, <2>7, <2>8, <2>9 DEF Next, ReaderStep
<1> QED
  BY <1>1, InitClean, LogInvariant, PTL DEF Spec

\* log::Reader returns the records that were passed to AddRecord(), in order and from the
\* first on, and ends only behind every acknowledged one, wherever the process is killed.
THEOREM RecordsReadBack == Spec => []ReadBack
<1>1. CleanInv => ReadBack
  BY DEF CleanInv, ReadBack
<1> QED
  BY <1>1, CleanInvariant, PTL

\* No corruption is reported for a log that was closed, or whose writer was killed between
\* two records: a MANIFEST that is left like that can be read again.
THEOREM CleanFilesSilent == Spec => []CleanIsSilent
<1>1. CleanInv => CleanIsSilent
  BY DEF CleanInv, CleanIsSilent
<1> QED
  BY <1>1, CleanInvariant, PTL
=============================================================================
