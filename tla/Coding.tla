------------------------------- MODULE Coding -------------------------------
(***************************************************************************)
(* The numbers and keys that table files are made of: varints and fixed    *)
(* width integers (src/util/coding.cpp), the bytewise order of slices      *)
(* (src/leveldb/slice.h) and the two comparators that shorten the keys of  *)
(* an index block (src/util/comparator.cpp, src/db/dbformat.cpp).          *)
(*                                                                         *)
(* A string is a sequence of bytes, 0 .. 255. An offset into one counts    *)
(* from 0, as in the code. An internal key is a user key and eight bytes   *)
(* of which the first is the type and the others the sequence number, the  *)
(* least significant byte first.                                           *)
(***************************************************************************)
EXTENDS Integers, Sequences, SequencesExt, FiniteSetsExt

NULL == -1

\* PutVarint32(), PutVarint64(): seven bits a byte, the low ones first.
PutVarint[v \in Nat] ==
  IF v < 128 THEN <<v>> ELSE <<128 + (v % 128)>> \o PutVarint[v \div 128]

\* GetVarint32Ptr() at offset p of s: the value and the offset behind it, which
\* is NULL when no byte before limit ends the number. (The 64 bit one takes up to
\* ten bytes; the numbers here have at most five.)
GetVarint(s, p, limit) ==
  LET ends == {i \in p .. p + 4 : i < limit /\ s[i + 1] < 128}
      last == Min(ends)
      value[i \in p .. last] ==
        IF i = last THEN s[i + 1] ELSE (s[i + 1] % 128) + 128 * value[i + 1]
  IN  IF ends = {} THEN [value |-> 0, next |-> NULL]
      ELSE [value |-> value[p], next |-> last + 1]

\* PutFixed32(), the least significant byte first.
PutFixed32(v) ==
  <<v % 256, (v \div 256) % 256, (v \div (256 * 256)) % 256,
    (v \div (256 * 256 * 256)) % 256>>

\* The numbers of a sequence, one after the other.
PutAllFixed32(seq) ==
  [i \in 1 .. 4 * Len(seq) |-> PutFixed32(seq[(i + 3) \div 4])[((i - 1) % 4) + 1]]

\* DecodeFixed32() at offset p of s.
DecodeFixed32(s, p) ==
  s[p + 1] + 256 * (s[p + 2] + 256 * (s[p + 3] + 256 * s[p + 4]))

-----------------------------------------------------------------------------

Shorter(a, b) == IF Len(a) < Len(b) THEN Len(a) ELSE Len(b)

\* How many bytes a and b have in common at the front.
SharedLength(a, b) ==
  Max({n \in 0 .. Shorter(a, b) : SubSeq(a, 1, n) = SubSeq(b, 1, n)})

\* Slice::compare() is negative: memcmp(), then the shorter one first.
Less(a, b) ==
  LET n == SharedLength(a, b)
  IN  IF n = Shorter(a, b) THEN Len(a) < Len(b) ELSE a[n + 1] < b[n + 1]

\* BytewiseComparatorImpl.
BytewiseSeparator(start, limit) ==
  LET i == SharedLength(start, limit) + 1
  IN  IF i <= Shorter(start, limit) /\ start[i] < 255 /\ start[i] + 1 < limit[i]
      THEN SubSeq(start, 1, i - 1) \o <<start[i] + 1>>
      ELSE start

BytewiseSuccessor(key) ==
  LET free == {i \in 1 .. Len(key) : key[i] # 255}
      i == Min(free)
  IN  IF free = {} THEN key ELSE SubSeq(key, 1, i - 1) \o <<key[i] + 1>>

-----------------------------------------------------------------------------
(* InternalKeyComparator.                                                  *)

ExtractUserKey(k) == SubSeq(k, 1, Len(k) - 8)
Tag(k) == SubSeq(k, Len(k) - 7, Len(k))

\* PackSequenceAndType(kMaxSequenceNumber, kValueTypeForSeek): sorts first among
\* the entries of its user key.
EarliestTag == <<1, 255, 255, 255, 255, 255, 255, 255>>

\* Compare() is negative: by user key, then the larger number first.
KeyLess(a, b) ==
  \/ Less(ExtractUserKey(a), ExtractUserKey(b))
  \/ /\ ExtractUserKey(a) = ExtractUserKey(b)
     /\ Less(Reverse(Tag(b)), Reverse(Tag(a)))

\* The shortened user key is taken if it is shorter, and larger.
Shortened(key, user) ==
  IF Len(user) < Len(ExtractUserKey(key)) /\ Less(ExtractUserKey(key), user)
  THEN user \o EarliestTag
  ELSE key

FindShortestSeparator(start, limit) ==
  Shortened(start, BytewiseSeparator(ExtractUserKey(start), ExtractUserKey(limit)))

FindShortSuccessor(key) == Shortened(key, BytewiseSuccessor(ExtractUserKey(key)))
=============================================================================
