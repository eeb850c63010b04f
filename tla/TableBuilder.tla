---------------------------- MODULE TableBuilder ----------------------------
(***************************************************************************)
(* TableBuilder (src/table/table_builder.cpp): sorted entries become data  *)
(* blocks, a filter block, a metaindex block, an index block and a footer  *)
(* (src/table/format.cpp) in one file. Any operation on the file may fail. *)
(*                                                                         *)
(* The asserts are compiled out (NDEBUG). With them the second Add() after *)
(* a block was written would end the process: see IndexFindsKeys.          *)
(***************************************************************************)
EXTENDS BlockFormat, FilterBlock

CONSTANTS Keys,          \* internal keys
          Values,
          OptionSets,    \* records: block_size, block_restart_interval, and
                         \* filter_policy, TRUE if there is one
          FilterName,    \* "filter." and the policy's name, as a key
          MaxOps,        \* bound on the file operation that fails
          MaxChanges     \* bound on calls of ChangeOptions()

ASSUME TableAssumption ==
  /\ Keys \subseteq Seq(0 .. 255) /\ Values \subseteq Seq(0 .. 255)
  /\ \A key \in Keys : Len(key) >= 8 /\ BloomHash(ExtractUserKey(key)) \in Nat
  /\ FilterName \in Seq(0 .. 255)
  /\ OptionSets \subseteq [block_size : Nat, block_restart_interval : Nat \ {0},
                           filter_policy : BOOLEAN]
  /\ MaxOps \in Nat /\ MaxChanges \in Nat

kBlockTrailerSize == 5
kTableMagicNumber == <<87, 251, 128, 139, 36, 117, 71, 219>>
kEncodedLength == 48

VARIABLES rep,           \* the fields of Rep, the file, and in handle what the
                         \* last WriteRawBlock() stored there
          changes,       \* how often ChangeOptions() was called
          finish,        \* what Finish() returned: "none", "ok" or "error"
          current,       \* ghost: the entries since the last block was written
          written        \* ghost: the blocks written, with their entries

vars == <<rep, changes, finish, current, written>>

\* The operation fail_at on the file fails; none does if that is 0.
Init ==
  /\ \E options \in OptionSets, fail_at \in 0 .. MaxOps :
       rep = [options |-> options, offset |-> 0, ok |-> TRUE,
              data_block |-> EmptyBlock, index_block |-> EmptyBlock,
              last_key |-> <<>>, num_entries |-> 0, closed |-> FALSE,
              filter_block |-> StartBlock(EmptyFilterBlock, 0),
              pending_index_entry |-> FALSE,
              pending_handle |-> [offset |-> 0, size |-> 0],
              handle |-> [offset |-> 0, size |-> 0],
              file |-> <<>>, ops |-> 0, fail_at |-> fail_at]
  /\ changes = 0
  /\ finish = "none"
  /\ current = <<>>
  /\ written = <<>>

-----------------------------------------------------------------------------
(* Steps of the operations: each takes the Rep and returns it changed.     *)

\* r->status = file->Append(data); a failed one writes nothing.
FileAppend(r, data) ==
  LET ok == r.ops + 1 # r.fail_at
  IN  [r EXCEPT !.ops = @ + 1, !.ok = ok, !.file = IF ok THEN @ \o data ELSE @]

\* r->status = file->Flush()
FileFlush(r) == FileAppend(r, <<>>)

\* A step that is left out once the status is not ok.
IfOk(r, Step(_)) == IF r.ok THEN Step(r) ELSE r

\* BlockHandle.
EncodeHandle(h) == PutVarint[h.offset] \o PutVarint[h.size]
DecodeHandle(s, p) ==
  LET a == GetVarint(s, p, Len(s))
      b == GetVarint(s, a.next, Len(s))
  IN  [offset |-> a.value, size |-> b.value, next |-> b.next]

\* The type, kNoCompression, and the crc, for which the length stands.
Trailer(contents) == <<0>> \o PutFixed32(Len(contents))

\* The contents, then the trailer; handle says where the block is.
WriteRawBlock(r, contents) ==
  LET handle == [offset |-> r.offset, size |-> Len(contents)]
      WriteTrailer(a) == FileAppend(a, Trailer(contents))
      Advance(b) == [b EXCEPT !.offset = @ + Len(contents) + kBlockTrailerSize]
      begun == FileAppend([r EXCEPT !.handle = handle], contents)
  IN  IfOk(IfOk(begun, WriteTrailer), Advance)

\* Flush(): the data block is written by WriteBlock(), which also resets it.
WriteDataBlock(r) ==
  LET Reset(w) == [w EXCEPT !.data_block = EmptyBlock, !.pending_handle = w.handle]
  IN  Reset(WriteRawBlock(r, BlockFinish(r.data_block)))

SetPending(r) == FileFlush([r EXCEPT !.pending_index_entry = TRUE])

StartFilter(r) ==
  [r EXCEPT !.filter_block = IF r.options.filter_policy THEN StartBlock(@, r.offset)
                             ELSE @]

FlushBlock(r) ==
  IF ~ r.ok \/ r.data_block = EmptyBlock THEN r
  ELSE StartFilter(IfOk(WriteDataBlock(r), SetPending))

\* The index entry of the last block, under the key that separates it from what
\* follows. Add() leaves pending_index_entry set.
AddIndexEntry(r, separator) ==
  IF ~ r.pending_index_entry THEN r
  ELSE [r EXCEPT !.last_key = separator,
                 !.index_block = BlockAdd(@, separator,
                                          EncodeHandle(r.pending_handle), 1)]

AddToBlock(r, key, value) ==
  [r EXCEPT !.filter_block = IF r.options.filter_policy THEN AddKey(@, key) ELSE @,
            !.last_key = key,
            !.num_entries = @ + 1,
            !.data_block = BlockAdd(@, key, value,
                                    r.options.block_restart_interval)]

FlushIfFull(r) ==
  IF CurrentSizeEstimate(r.data_block) >= r.options.block_size THEN FlushBlock(r)
  ELSE r

AddEntry(r, key, value) ==
  FlushIfFull(AddToBlock(AddIndexEntry(r, FindShortestSeparator(r.last_key, key)),
                         key, value))

-----------------------------------------------------------------------------
(* Finish(), step by step.                                                 *)

WriteFilter(r) == IF r.options.filter_policy
                  THEN WriteRawBlock(r, FilterFinish(r.filter_block)) ELSE r

\* The metaindex block: the handle is still the filter's.
MetaIndex(r) ==
  BlockFinish(IF ~ r.options.filter_policy THEN EmptyBlock
              ELSE BlockAdd(EmptyBlock, FilterName, EncodeHandle(r.handle),
                            r.options.block_restart_interval))

WriteMetaIndex(r) == WriteRawBlock(r, MetaIndex(r))

\* The index entry of the last block.
IndexOf_Unfinished(r) == r
IndexOf(r) == [AddIndexEntry(r, FindShortSuccessor(r.last_key)) EXCEPT
                 !.pending_index_entry = FALSE]

WriteIndex(r) ==
  [WriteRawBlock(r, BlockFinish(r.index_block)) EXCEPT !.index_block = EmptyBlock]

Footer(metaindex_handle, index_handle) ==
  LET handles == EncodeHandle(metaindex_handle) \o EncodeHandle(index_handle)
  IN  [i \in 1 .. kEncodedLength - 8 |-> IF i <= Len(handles) THEN handles[i] ELSE 0]
        \o kTableMagicNumber

\* The index and the footer: the handle is the metaindex's, then the index's.
WriteFooter(r) ==
  LET Count(a) == [a EXCEPT !.offset = @ + kEncodedLength]
      Append48(i) == IfOk(FileAppend(i, Footer(r.handle, i.handle)), Count)
  IN  IfOk(WriteIndex(IndexOf(r)), Append48)

FinishFile(r) ==
  IfOk(IfOk(IfOk([FlushBlock(r) EXCEPT !.closed = TRUE], WriteFilter),
            WriteMetaIndex), WriteFooter)

-----------------------------------------------------------------------------
(* The calls of the client.                                                *)

\* The ghosts after a call that leaves the Rep r and has added these entries
\* to the block.
Note(r, entries) ==
  IF r.ok /\ r.data_block = EmptyBlock /\ entries # <<>>
  THEN /\ written' = Append(written, [handle  |-> r.pending_handle,
                                      entries |-> entries])
       /\ current' = <<>>
  ELSE current' = entries /\ UNCHANGED written

\* Keys come in order. Add() and Flush() do nothing once the status is not ok.
Add(key, value) ==
  /\ ~ rep.closed /\ rep.ok
  /\ rep.num_entries > 0 => KeyLess(rep.last_key, key)
  /\ rep' = AddEntry(rep, key, value)
  /\ Note(rep', Append(current, <<key, value>>))
  /\ UNCHANGED <<changes, finish>>

Flush ==
  /\ ~ rep.closed /\ rep.ok /\ rep.data_block # EmptyBlock
  /\ rep' = FlushBlock(rep)
  /\ Note(rep', current)
  /\ UNCHANGED <<changes, finish>>

\* Not the comparator, and not whether there is a filter: with filter_policy set
\* to NULL on the way Finish() would ask NULL for its name.
ChangeOptions(options) ==
  /\ ~ rep.closed /\ changes < MaxChanges
  /\ options.filter_policy = rep.options.filter_policy
  /\ rep' = [rep EXCEPT !.options = options]
  /\ changes' = changes + 1
  /\ UNCHANGED <<finish, current, written>>

Finish ==
  /\ ~ rep.closed
  /\ rep' = FinishFile(rep)
  /\ finish' = IF rep'.ok THEN "ok" ELSE "error"
  /\ Note(rep', current)
  /\ UNCHANGED changes

Abandon ==
  /\ ~ rep.closed
  /\ rep' = [rep EXCEPT !.closed = TRUE]
  /\ UNCHANGED <<changes, finish, current, written>>

Next ==
  \/ \E key \in Keys, value \in Values : Add(key, value)
  \/ \E options \in OptionSets : ChangeOptions(options)
  \/ Flush \/ Finish \/ Abandon

Spec == Init /\ [][Next]_vars

-----------------------------------------------------------------------------
(* Properties.                                                             *)

\* What ReadBlock() gets for a handle.
ReadBlock(h) == SubSeq(rep.file, h.offset + 1, h.offset + h.size)

\* The contents hold exactly these entries, and every restart point is one of
\* them with its whole key.
Holds(contents, entries) ==
  /\ Entries(contents) = entries
  /\ \A i \in 0 .. NumRestarts(contents) - 1 :
       entries # <<>> => WholeKeyAt(contents, GetRestartPoint(contents, i))

\* What was added can be read back, from the blocks in the file and from the
\* one being built, whatever keys share, however long the values are, also
\* when the options change inside a block: prefix compression, restart points
\* and varints lose nothing.
EntriesKept ==
  rep.ok =>
    /\ \A i \in 1 .. Len(written) :
         LET h == written[i].handle
         IN  /\ Holds(ReadBlock(h), written[i].entries)
             /\ Trailer(ReadBlock(h)) =
                  ReadBlock([offset |-> h.offset + h.size, size |-> kBlockTrailerSize])
    /\ ~ rep.closed => Holds(BlockFinish(rep.data_block), current)

\* Footer::DecodeFrom() on the last bytes of the file, and what it leads to.
FooterAt == rep.offset - kEncodedLength
MetaIndexHandle == DecodeHandle(rep.file, FooterAt)
IndexHandle == DecodeHandle(rep.file, MetaIndexHandle.next)
Index == Entries(ReadBlock(IndexHandle))
FilterHandle == DecodeHandle(Entries(ReadBlock(MetaIndexHandle))[1][2], 0)

PointsAt(value, block) ==
  LET h == DecodeHandle(value, 0)
  IN  [offset |-> h.offset, size |-> h.size] = block.handle

\* A table that Finish() calls good is one: no file operation failed on the way,
\* FileSize() is the length of the file, the footer is at its end, the keys of
\* the index ascend, and every block is in the index: the first entry for it
\* has a key >= all its keys and < all keys of the blocks after it.
FinishedWhole ==
  finish = "ok" =>
    /\ rep.fail_at \notin 1 .. rep.ops
    /\ rep.offset = Len(rep.file)
    /\ SubSeq(rep.file, rep.offset - 7, rep.offset) = kTableMagicNumber
    /\ \A i \in 1 .. Len(Index) - 1 : KeyLess(Index[i][1], Index[i + 1][1])
    /\ \A b \in 1 .. Len(written) :
         \E i \in 1 .. Len(Index) :
           /\ PointsAt(Index[i][2], written[b])
           /\ \A j \in 1 .. i - 1 : ~ PointsAt(Index[j][2], written[b])
           /\ \A e \in Range(written[b].entries) : ~ KeyLess(Index[i][1], e[1])
           /\ \A c \in b + 1 .. Len(written) :
                \A e \in Range(written[c].entries) : KeyLess(Index[i][1], e[1])

\* No key is filtered out of the block that holds it, wherever the blocks begin
\* and end relative to the ranges of the filters.
FilterCovers ==
  finish = "ok" /\ rep.options.filter_policy =>
    \A b \in 1 .. Len(written) :
      \A e \in Range(written[b].entries) :
        KeyMayMatch(ReadBlock(FilterHandle), written[b].handle.offset, e[1])

\* "We do not emit the index entry for a block until we have seen the first key
\* for the next data block", "since it is >= all entries in the first block and
\* < all entries in subsequent blocks" (table_builder.cpp:28-34): the first index
\* entry that is not less than a key leads to the block of the key.
IndexFindsKeys ==
  finish = "ok" =>
    \A b \in 1 .. Len(written) :
      \A e \in Range(written[b].entries) :
        LET i == Min({j \in 1 .. Len(Index) : ~ KeyLess(Index[j][1], e[1])})
        IN  PointsAt(Index[i][2], written[b])
=============================================================================
