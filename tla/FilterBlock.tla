----------------------------- MODULE FilterBlock -----------------------------
(***************************************************************************)
(* The filter block of a table: FilterBlockBuilder and FilterBlockReader   *)
(* (src/table/filter_block.cpp) with BloomFilterPolicy (src/util/bloom.cpp)*)
(* on user keys (InternalFilterPolicy, src/db/dbformat.cpp).               *)
(***************************************************************************)
EXTENDS Coding

CONSTANTS FilterBaseLg,   \* kFilterBaseLg, 11 in the code
          BitsPerKey,     \* of NewBloomFilterPolicy()
          BloomHash(_)    \* the hash of a user key, HashWidth bits wide

\* (The last part says nothing new, but the provers know little of powers.)
ASSUME FilterAssumption ==
  BitsPerKey \in Nat /\ FilterBaseLg \in Nat /\ 2 ^ FilterBaseLg \in Nat \ {0}

HashWidth == 30           \* 32 in the code, more than TLC's integers hold

-----------------------------------------------------------------------------
(* BloomFilterPolicy.                                                      *)

k_ == Max({1, Min({30, (BitsPerKey * 69) \div 100})})

\* The bits of an array of so many bits that stand for a key.
BitPositions(key, bits) ==
  LET h == BloomHash(key)
      delta == (h \div 2 ^ 17) + (h % 2 ^ 17) * 2 ^ (HashWidth - 17)
      probe[j \in 1 .. k_] ==
        IF j = 1 THEN h ELSE (probe[j - 1] + delta) % 2 ^ HashWidth
  IN  {probe[j] % bits : j \in 1 .. k_}

\* CreateFilter(): whole bytes, at least eight, and the number of probes.
CreateFilter(keys) ==
  LET bytes == (Max({64, Len(keys) * BitsPerKey}) + 7) \div 8
      set == UNION {BitPositions(keys[i], 8 * bytes) : i \in 1 .. Len(keys)}
      Bit(n, q) == IF 8 * (n - 1) + q \in set THEN 2 ^ q ELSE 0
  IN  [n \in 1 .. bytes |-> Bit(n, 0) + Bit(n, 1) + Bit(n, 2) + Bit(n, 3)
                            + Bit(n, 4) + Bit(n, 5) + Bit(n, 6) + Bit(n, 7)]
      \o <<k_>>

\* BloomFilterPolicy::KeyMayMatch().
BloomMayMatch(key, filter) ==
  /\ Len(filter) >= 2
  /\ \/ filter[Len(filter)] > 30
     \/ \A p \in BitPositions(key, 8 * (Len(filter) - 1)) :
          (filter[p \div 8 + 1] \div 2 ^ (p % 8)) % 2 = 1

-----------------------------------------------------------------------------
(* FilterBlockBuilder: keys waits for the next filter.                     *)

EmptyFilterBlock == [keys |-> <<>>, filter_offsets |-> <<>>, result |-> <<>>]

AddKey(f, key) == [f EXCEPT !.keys = Append(@, ExtractUserKey(key))]

GenerateFilter(f) ==
  [keys           |-> <<>>,
   filter_offsets |-> Append(f.filter_offsets, Len(f.result)),
   result         |-> IF f.keys = <<>> THEN f.result
                      ELSE f.result \o CreateFilter(f.keys)]

\* How many filters there are before the one of a block at block_offset: one for
\* every 2^FilterBaseLg bytes.
FiltersBefore_OneMore(block_offset) == block_offset \div 2 ^ FilterBaseLg + 1
FiltersBefore(block_offset) == block_offset \div 2 ^ FilterBaseLg

StartBlock(f, block_offset) ==
  LET new == FiltersBefore(block_offset) - Len(f.filter_offsets)
      gen[i \in 0 .. new] == IF i = 0 THEN f ELSE GenerateFilter(gen[i - 1])
  IN  IF new > 0 THEN gen[new] ELSE f

FilterFinish(f) ==
  LET g == IF f.keys = <<>> THEN f ELSE GenerateFilter(f)
  IN  g.result \o PutAllFixed32(g.filter_offsets)
        \o PutFixed32(Len(g.result)) \o <<FilterBaseLg>>

-----------------------------------------------------------------------------

\* FilterBlockReader(contents).KeyMayMatch(block_offset, key): the filter ends
\* where the next one begins; behind the last offset is that of the array.
KeyMayMatch(contents, block_offset, key) ==
  LET n == Len(contents)
      last_word == DecodeFixed32(contents, n - 5)
      num == (n - 5 - last_word) \div 4
      index == block_offset \div 2 ^ contents[n]
      start == DecodeFixed32(contents, last_word + 4 * index)
      limit == DecodeFixed32(contents, last_word + 4 * index + 4)
  IN  n >= 5 /\ last_word <= n - 5 /\ index < num =>
        /\ start <= limit /\ limit <= last_word =>
             BloomMayMatch(ExtractUserKey(key), SubSeq(contents, start + 1, limit))
        /\ ~ (start <= limit /\ limit <= last_word) => start # limit
=============================================================================
