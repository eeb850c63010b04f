----------------------------- MODULE DBIterator -----------------------------
(***************************************************************************)
(* The iterator of a DB: DBIter (db/db_iter.cpp) over MergingIterator      *)
(* (table/merger.cpp) over one child per memtable, level-0 table and       *)
(* level.  One client moves it; meanwhile writes go on into the memtable   *)
(* that is its first child.                                                *)
(*                                                                         *)
(* A step is one iteration of DBIter's loops, which makes one call of the  *)
(* merging iterator.                                                       *)
(*                                                                         *)
(* Data: an entry is [key, seq, type] with a positive key; its value is    *)
(* known by seq.  A child is the set of its entries; it stands at one of   *)
(* them, or at none (not Valid).                                           *)
(***************************************************************************)
EXTENDS Integers, FiniteSets

CONSTANTS
  Keys,       \* the user keys
  Children,   \* n_: how many children there are
  Written,    \* bound: the entries written before the iterator is created
  MaxWrites   \* bound: the entries in all

ASSUME IteratorAssumption ==
  /\ Keys \subseteq Nat \ {0} /\ IsFiniteSet(Keys)
  /\ Children \in Nat \ {0, 1}
  /\ Written \in Nat /\ MaxWrites \in Nat /\ Written <= MaxWrites

Child == 1..Children
Entry == [key : Keys, seq : 1..MaxWrites, type : {"value", "deletion"}]
NoEntry == [key |-> 0, seq |-> 0, type |-> "none"]

VARIABLES
  data,       \* the entries of each child
  sequence_,  \* the snapshot
  merge,      \* MergingIterator: [at, current, direction]
  direction_, valid_, saved_key_, saved_value_, \* DBIter; 0 is the empty string
  skipping,   \* the local of FindNextUserEntry
  value_type, \* the local of FindPrevUserEntry
  pc,         \* where the call is
  call,       \* the call that is running: [op, arg]
  from        \* bookkeeping: what was shown when it began

iterVars == <<direction_, valid_, saved_key_, saved_value_>>
vars == <<data, sequence_, merge, iterVars, skipping, value_type, pc, call, from>>

-----------------------------------------------------------------------------
(* The children: the iterators of memtables and tables.                    *)

\* Internal keys: by user key, then newest first (dbformat.cpp:47-63).
Before(e, f) == e.key < f.key \/ (e.key = f.key /\ e.seq > f.seq)
Smallest(S) ==
  IF S = {} THEN NoEntry ELSE CHOOSE e \in S : \A f \in S : f = e \/ Before(e, f)
Largest(S) ==
  IF S = {} THEN NoEntry ELSE CHOOSE e \in S : \A f \in S : f = e \/ Before(f, e)
After(S, e) == Smallest({f \in S : Before(e, f)})
Ahead(S, e) == Largest({f \in S : Before(f, e)})
From(S, e) == Smallest({f \in S : ~Before(f, e)})

-----------------------------------------------------------------------------
(* MergingIterator: each operator gives the state after the call.          *)

ChildrenAt(at) == {c \in Child : at[c] # NoEntry}
FindSmallest(at) ==
  [at |-> at, direction |-> "forward",
   current |-> IF ChildrenAt(at) = {} THEN 0
               ELSE CHOOSE c \in ChildrenAt(at) :
                      \A d \in ChildrenAt(at) : d = c \/ Before(at[c], at[d])]
FindLargest(at) ==
  [at |-> at, direction |-> "reverse",
   current |-> IF ChildrenAt(at) = {} THEN 0
               ELSE CHOOSE c \in ChildrenAt(at) :
                      \A d \in ChildrenAt(at) : d = c \/ Before(at[d], at[c])]

MergeFirst == FindSmallest([c \in Child |-> Smallest(data[c])])
MergeLast == FindLargest([c \in Child |-> Largest(data[c])])
MergeSeek(target) == FindSmallest([c \in Child |-> From(data[c], target)])

Valid(m) == m.current # 0
At(m) == m.at[m.current]

\* On a change of direction the other children are put behind key().
MergeNext(m) ==
  FindSmallest([c \in Child |->
    IF c # m.current /\ m.direction = "forward" THEN m.at[c]
    ELSE After(data[c], At(m))])

MergePrev_NoStep(m) ==
  FindLargest([c \in Child |->
    CASE c # m.current /\ m.direction = "reverse" -> m.at[c]
      [] c # m.current /\ m.direction = "forward" -> From(data[c], At(m))
      [] OTHER -> Ahead(data[c], At(m))])
\* On a change of direction the other children are put before key(): one step
\* back from the first entry >= key(), or at the last entry.
MergePrev(m) ==
  FindLargest([c \in Child |->
    CASE c # m.current /\ m.direction = "reverse" -> m.at[c]
      [] /\ c # m.current /\ m.direction = "forward"
         /\ From(data[c], At(m)) = NoEntry -> Largest(data[c])
      [] OTHER -> Ahead(data[c], At(m))])

-----------------------------------------------------------------------------
(* The initial states: DBImpl::NewIterator (db_impl.cpp:913-940, 989-997). *)

\* The writes so far are in the children; of a key, newer ones are in earlier
\* children, and those of the memtable, the first child, are the newest of all.
Contents(d) ==
  \A c1, c2 \in Child : c1 < c2 =>
    \A e \in d[c1], f \in d[c2] : c1 = 1 \/ e.key = f.key => e.seq > f.seq

Entries == UNION {data[c] : c \in Child}
Idle == [op |-> "idle", arg |-> 0]

Init ==
  /\ \E written \in [1..Written -> Keys \X {"value", "deletion"}],
        place \in [1..Written -> Child] :
       data = [c \in Child |->
                 {[key |-> written[s][1], seq |-> s, type |-> written[s][2]] :
                    s \in {s \in 1..Written : place[s] = c}}]
  /\ Contents(data)
  /\ sequence_ \in 0..Written
  /\ merge = [at |-> [c \in Child |-> NoEntry], current |-> 0,
              direction |-> "forward"]
  /\ direction_ = "forward" /\ valid_ = FALSE
  /\ saved_key_ = 0 /\ saved_value_ = 0
  /\ skipping = FALSE /\ value_type = "deletion"
  /\ pc = "idle" /\ call = Idle /\ from = {}

Newer == {e \in Entries : e.seq > sequence_}

\* SkipList::Insert(): readers see the list without the entry or with it.
Inserted(S, e) == S \cup {e}

\* A writer adds an entry to the memtable (MemTable::Add).
Insert ==
  /\ Cardinality(Entries) < MaxWrites
  /\ \E k \in Keys, t \in {"value", "deletion"} :
       data' = [data EXCEPT ![1] =
                  Inserted(@, [key |-> k, seq |-> Cardinality(Entries) + 1,
                               type |-> t])]
  /\ UNCHANGED <<sequence_, merge, iterVars, skipping, value_type, pc, call, from>>

-----------------------------------------------------------------------------
(* DBIter.                                                                 *)

\* What key() and value() show (40-48).
Shown ==
  CASE ~valid_ -> {}
    [] valid_ /\ direction_ = "forward" ->
         {[key |-> At(merge).key, value |-> At(merge).seq]}
    [] OTHER -> {[key |-> saved_key_, value |-> saved_value_]}

\* The client calls; Next() and Prev() require Valid().
Begin ==
  /\ pc = "idle"
  /\ call' \in {[op |-> o, arg |-> 0] : o \in {"first", "last"}} \cup
              {[op |-> "seek", arg |-> k] : k \in Keys} \cup
              {[op |-> o, arg |-> 0] : o \in IF valid_ THEN {"next", "prev"}
                                             ELSE {}}
  /\ pc' = call'.op
  /\ from' = Shown
  /\ UNCHANGED <<data, sequence_, merge, iterVars, skipping, value_type>>

Return == pc' = "idle" /\ call' = Idle /\ from' = {}

\* The end of SeekToFirst() and Seek(): FindNextUserEntry(false, ...), if Valid().
StartForward ==
  /\ direction_' = "forward" /\ saved_value_' = 0
  /\ skipping' = FALSE
  /\ IF Valid(merge') THEN pc' = "next_entry" /\ UNCHANGED <<valid_, call, from>>
     ELSE valid_' = FALSE /\ Return

SeekToFirst ==
  /\ pc = "first"
  /\ merge' = MergeFirst
  /\ StartForward
  /\ UNCHANGED <<data, sequence_, saved_key_, value_type>>

SeekTarget(k) == [key |-> k, seq |-> sequence_, type |-> "value"]

\* saved_key_ holds the internal key, here its user key; nothing reads it before
\* FindNextUserEntry() assigns it.
Seek ==
  /\ pc = "seek"
  /\ saved_key_' = call.arg
  /\ merge' = MergeSeek(SeekTarget(call.arg))
  /\ StartForward
  /\ UNCHANGED <<data, sequence_, value_type>>

\* FindPrevUserEntry() begins.
StartReverse ==
  direction_' = "reverse" /\ value_type' = "deletion" /\ pc' = "prev_entry"

SeekToLast ==
  /\ pc = "last"
  /\ saved_value_' = 0
  /\ merge' = MergeLast
  /\ StartReverse
  /\ UNCHANGED <<data, sequence_, valid_, saved_key_, skipping, call, from>>

\* Next(): on a change of direction iter_ is advanced into the entries of key().
MergeForward ==
  CASE direction_ = "forward" -> merge
    [] direction_ = "reverse" /\ ~Valid(merge) -> MergeFirst
    [] OTHER -> MergeNext(merge)

NextCall ==
  /\ pc = "next"
  /\ merge' = MergeForward
  /\ direction_' = "forward"
  /\ IF Valid(merge')
     THEN /\ saved_key_' = At(merge').key
          /\ skipping' = TRUE
          /\ pc' = "next_entry"
          /\ UNCHANGED <<valid_, call, from>>
     ELSE /\ saved_key_' = 0 /\ valid_' = FALSE /\ Return
          /\ UNCHANGED skipping
  /\ UNCHANGED <<data, sequence_, saved_value_, value_type>>

Visible(e) == e.seq <= sequence_
Hidden_Below(e) == skipping /\ e.key < saved_key_
Hidden(e) == skipping /\ e.key <= saved_key_

\* The entries are over.
EndForward == saved_key_' = 0 /\ Return /\ valid_' = FALSE

NextAfter_Visible(m) == IF Visible(At(m)) THEN MergeNext(m) ELSE m
NextAfter(m) == MergeNext(m)

\* FindNextUserEntry(): iter_ is at a value that shows.
FoundNext ==
  /\ pc = "next_entry"
  /\ Visible(At(merge)) /\ At(merge).type = "value" /\ ~Hidden(At(merge))
  /\ valid_' = TRUE /\ saved_key_' = 0
  /\ Return
  /\ UNCHANGED <<data, sequence_, merge, direction_, saved_value_, skipping,
                 value_type>>

\* FindNextUserEntry(): it passes over an entry; a deletion hides those after it.
PassNext ==
  /\ pc = "next_entry"
  /\ ~(Visible(At(merge)) /\ At(merge).type = "value" /\ ~Hidden(At(merge)))
  /\ merge' = NextAfter(merge)
  /\ LET deletion == Visible(At(merge)) /\ At(merge).type = "deletion"
     IN  /\ skipping' = (skipping \/ deletion)
         /\ IF Valid(merge')
            THEN /\ saved_key_' = IF deletion THEN At(merge).key ELSE saved_key_
                 /\ UNCHANGED <<valid_, pc, call, from>>
            ELSE EndForward
  /\ UNCHANGED <<data, sequence_, direction_, saved_value_, value_type>>

\* Prev(): from a forward position iter_ goes back until the user key changes.
PrevCall ==
  /\ pc = "prev"
  /\ IF direction_ = "forward"
     THEN /\ saved_key_' = At(merge).key
          /\ pc' = "back"
          /\ UNCHANGED <<direction_, value_type>>
     ELSE StartReverse /\ UNCHANGED saved_key_
  /\ UNCHANGED <<data, sequence_, merge, valid_, saved_value_, skipping, call,
                 from>>

Back ==
  /\ pc = "back"
  /\ merge' = MergePrev(merge)
  /\ \/ /\ ~Valid(merge')
        /\ valid_' = FALSE /\ saved_key_' = 0 /\ saved_value_' = 0
        /\ Return
        /\ UNCHANGED <<direction_, value_type>>
     \/ /\ Valid(merge') /\ At(merge').key < saved_key_
        /\ StartReverse
        /\ UNCHANGED <<valid_, saved_key_, saved_value_, call, from>>
     \/ /\ Valid(merge') /\ At(merge').key >= saved_key_
        /\ UNCHANGED <<iterVars, value_type, pc, call, from>>
  /\ UNCHANGED <<data, sequence_, skipping>>

\* FindPrevUserEntry() has a value, and iter_ is at an entry of an earlier key.
FoundPrev ==
  /\ value_type = "value"
  /\ Visible(At(merge)) /\ At(merge).key < saved_key_

\* FindPrevUserEntry() takes an entry that shows; iter_->Prev() stands inside
\* the test for such entries, so that any other is met again and again (215).
TakePrev ==
  /\ pc = "prev_entry"
  /\ Valid(merge) /\ ~FoundPrev
  /\ LET e == At(merge)
     IN  IF Visible(e)
         THEN /\ value_type' = e.type
              /\ saved_key_' = IF e.type = "value" THEN e.key ELSE 0
              /\ saved_value_' = IF e.type = "value" THEN e.seq ELSE 0
              /\ merge' = MergePrev(merge)
         ELSE UNCHANGED <<value_type, saved_key_, saved_value_, merge>>
  /\ UNCHANGED <<data, sequence_, direction_, valid_, skipping, pc, call, from>>

EndPrev ==
  /\ pc = "prev_entry"
  /\ Valid(merge) => FoundPrev
  /\ IF value_type = "deletion"
     THEN /\ valid_' = FALSE /\ saved_key_' = 0 /\ saved_value_' = 0
          /\ direction_' = "forward"
     ELSE valid_' = TRUE /\ UNCHANGED <<saved_key_, saved_value_, direction_>>
  /\ Return
  /\ UNCHANGED <<data, sequence_, merge, skipping, value_type>>

Step ==
  \/ SeekToFirst \/ Seek \/ SeekToLast \/ NextCall \/ FoundNext \/ PassNext
  \/ PrevCall \/ Back \/ TakePrev \/ EndPrev

Next == Insert \/ Begin \/ Step

Spec == Init /\ [][Next]_vars

\* The thread of the client runs.
FairSpec == Spec /\ WF_vars(Step)

-----------------------------------------------------------------------------
(* Properties.                                                             *)

\* The types; a valid iterator has something to show: iter_ is at an entry when
\* it moves forward (the assertion at db_iter.cpp:168), saved_key_ is a key when
\* it moves backwards (89).
TypeOK ==
  /\ data \in [Child -> SUBSET Entry]
  /\ sequence_ \in 0..MaxWrites
  /\ merge.at \in [Child -> Entry \cup {NoEntry}]
  /\ merge.current \in {0} \cup ChildrenAt(merge.at)
  /\ merge.direction \in {"forward", "reverse"}
  /\ direction_ \in {"forward", "reverse"}
  /\ valid_ \in BOOLEAN /\ skipping \in BOOLEAN
  /\ saved_key_ \in Keys \cup {0} /\ saved_value_ \in 0..MaxWrites
  /\ value_type \in {"value", "deletion"}
  /\ pc \in {"idle", "first", "seek", "last", "next", "next_entry", "prev", "back",
             "prev_entry"}
  /\ valid_ /\ pc = "idle" => IF direction_ = "forward" THEN Valid(merge)
                              ELSE saved_key_ \in Keys

\* "Ensure that all children are positioned after key()" and "before key()"
\* (merger.cpp:61-65, 87-91): in the direction of the merging iterator the other
\* children stand beyond the current one, and none has left out an entry of the
\* snapshot, whatever was inserted since.  (And the fields have their types.)
NothingSkipped ==
  /\ TypeOK
  /\ Valid(merge) =>
       \A c \in Child \ {merge.current} : \A e \in data[c] :
         Visible(e) =>
           IF merge.direction = "forward"
           THEN Before(At(merge), e) =>
                  merge.at[c] # NoEntry /\ ~Before(e, merge.at[c])
           ELSE Before(e, At(merge)) =>
                  merge.at[c] # NoEntry /\ ~Before(merge.at[c], e)

\* The map of the snapshot: of each key the newest entry up to sequence_, unless
\* it is a deletion.
Newest(k) ==
  {e \in Entries : /\ e.key = k /\ Visible(e)
                   /\ \A f \in Entries : f.key = k /\ Visible(f) => f.seq <= e.seq}
View ==
  LET live == {k \in Keys : \E e \in Newest(k) : e.type = "value"}
  IN  [k \in live |-> (CHOOSE e \in Newest(k) : TRUE).seq]

\* A Next() that turned round took the key to skip from an entry newer than the
\* snapshot, of a key before the one shown: iter_ had been just before the entries
\* of the key shown, until a writer put that entry in between (db_iter.cpp:117, 128).
Slipped ==
  /\ call.op = "next" /\ pc = "next_entry"
  /\ \E r \in from : saved_key_ < r.key
  /\ \E e \in Newer : e.key = saved_key_

Cursor == INSTANCE SnapshotCursor
            WITH Key <- Keys, Value <- 1..MaxWrites, view <- View, call <- call,
                 shown <- IF pc = "idle" THEN Shown ELSE from, slip <- Slipped

\* DBIter implements SnapshotCursor: each call that returns shows the entry of the
\* snapshot that it is about, across changes of direction, deletions, overwritten
\* entries and writes that go on in the memtable (db_iter.cpp:10-14), but for a
\* Next() that slipped, which shows the same entry once more.
IteratesSnapshot == Cursor!Spec

\* FindPrevUserEntry() has met an entry newer than the snapshot: iter_->Prev() stands
\* inside the test for the others (db_iter.cpp:196, 215).
Caught == pc = "prev_entry" /\ Valid(merge) /\ ~Visible(At(merge))

\* Every call returns, unless a backward move meets an entry newer than the snapshot:
\* nothing else, neither writes that go on nor a change of direction, keeps the loops
\* of db_iter.cpp from ending.
CallsReturn == pc # "idle" ~> pc = "idle" \/ Caught
=============================================================================
