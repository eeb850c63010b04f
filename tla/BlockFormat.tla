----------------------------- MODULE BlockFormat -----------------------------
(***************************************************************************)
(* The blocks of a table file: BlockBuilder (src/table/block_builder.cpp)  *)
(* stores a key as what it does not share with the key before it, except   *)
(* at restart points, and ends the block with the offsets of these;        *)
(* DecodeEntry() and ParseNextKey() (src/table/block.cpp) take one entry   *)
(* after the other apart again.                                            *)
(***************************************************************************)
EXTENDS Coding

\* BlockBuilder after the constructor or Reset().
EmptyBlock == [buffer |-> <<>>, restarts |-> <<0>>, counter |-> 0,
               last_key |-> <<>>]

\* How much of key is not stored: nothing of it at a restart point.
SharedWithLast_Always(b, key, interval) == SharedLength(b.last_key, key)
SharedWithLast(b, key, interval) ==
  IF b.counter < interval THEN SharedLength(b.last_key, key) ELSE 0

\* BlockBuilder::Add() with the block_restart_interval of that moment.
BlockAdd(b, key, value, interval) ==
  LET restart == b.counter >= interval
      shared == SharedWithLast(b, key, interval)
      delta == SubSeq(key, shared + 1, Len(key))
  IN  [buffer   |-> b.buffer \o PutVarint[shared] \o PutVarint[Len(delta)]
                      \o PutVarint[Len(value)] \o delta \o value,
       restarts |-> IF restart THEN Append(b.restarts, Len(b.buffer))
                    ELSE b.restarts,
       counter  |-> IF restart THEN 1 ELSE b.counter + 1,
       last_key |-> SubSeq(b.last_key, 1, shared) \o delta]

CurrentSizeEstimate(b) == Len(b.buffer) + 4 * Len(b.restarts) + 4

\* The contents that BlockBuilder::Finish() returns.
BlockFinish(b) ==
  b.buffer \o PutAllFixed32(b.restarts) \o PutFixed32(Len(b.restarts))

-----------------------------------------------------------------------------

\* DecodeEntry(): the header of the entry at offset p; p of the result is where
\* the key's bytes begin, NULL if the entry does not end before limit.
DecodeEntry(s, p, limit) ==
  LET bad == [p |-> NULL, shared |-> 0, non_shared |-> 0, value_length |-> 0]
      a == GetVarint(s, p, limit)
      b == GetVarint(s, a.next, limit)
      c == GetVarint(s, b.next, limit)
  IN  IF \/ limit - p < 3
         \/ a.next = NULL \/ b.next = NULL \/ c.next = NULL
         \/ limit - c.next < b.value + c.value
      THEN bad
      ELSE [p |-> c.next, shared |-> a.value, non_shared |-> b.value,
            value_length |-> c.value]

\* Block::NumRestarts(), and where BlockBuilder::Finish() put the restart array.
\* (Block::Block() computes an offset that is three bytes larger.)
NumRestarts(s) == DecodeFixed32(s, Len(s) - 4)
RestartArray(s) == Len(s) - 4 * (1 + NumRestarts(s))
GetRestartPoint(s, i) == DecodeFixed32(s, RestartArray(s) + 4 * i)

\* Block::Iter at the entry before the one at offset 0, and ParseNextKey():
\* found lists the entries so far, next is NextEntryOffset().
BeforeFirst == [next |-> 0, key |-> <<>>, found |-> <<>>, ok |-> TRUE]

ParseNextKey(s, limit, it) ==
  LET e == DecodeEntry(s, it.next, limit)
      key == SubSeq(it.key, 1, e.shared) \o SubSeq(s, e.p + 1, e.p + e.non_shared)
      end == e.p + e.non_shared + e.value_length
  IN  IF ~ it.ok \/ it.next >= limit THEN it
      ELSE IF e.p = NULL \/ Len(it.key) < e.shared THEN [it EXCEPT !.ok = FALSE]
      ELSE [next |-> end, key |-> key, ok |-> TRUE,
            found |-> Append(it.found,
                             <<key, SubSeq(s, e.p + e.non_shared + 1, end)>>)]

\* Everything a walk from the first entry of the block finds; an entry has at
\* least three bytes.
Entries(s) ==
  LET limit == RestartArray(s)
      walk[n \in 0 .. limit \div 3] ==
        IF n = 0 THEN BeforeFirst ELSE ParseNextKey(s, limit, walk[n - 1])
  IN  walk[limit \div 3].found

\* At a restart point a whole key is stored, which Block::Iter::Seek() needs.
WholeKeyAt(s, p) == LET e == DecodeEntry(s, p, RestartArray(s))
                    IN  e.p # NULL /\ e.shared = 0
=============================================================================
