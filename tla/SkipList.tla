------------------------------ MODULE SkipList ------------------------------
(***************************************************************************)
(* SkipList (src/db/skiplist.h), the list behind a MemTable: one thread    *)
(* inserts (the leader of the writer queue, see DBWrite), any number of    *)
(* readers walk the list at the same time without a lock. A step makes at  *)
(* most one access to a word that another thread may access too.           *)
(*                                                                         *)
(* A node is the key it holds: a key is inserted once, and nodes are never *)
(* freed while the list lives. MemTable makes keys that are ordered by     *)
(* user key and, newest first, by sequence number; here they are numbers.  *)
(* AtomicPointer (src/port/atomic_pointer.h) keeps the order in which the  *)
(* writer stores, and a reader's loads see a prefix of the stores.         *)
(***************************************************************************)
EXTENDS Integers

CONSTANTS Keys,        \* the keys that may be inserted
          Readers,     \* the threads that hold an iterator
          Writer,      \* the thread that inserts
          kMaxHeight   \* 12 in the code

head_ == 0             \* the node before all keys
NULL == -1             \* sorts after all keys
Junk == -2             \* memory of the arena that nobody has written yet

ASSUME KeysAssumption == Keys \subseteq Nat \ {0}
ASSUME HeightAssumption == kMaxHeight \in Nat \ {0}
ASSUME WriterAssumption == Writer \notin Readers

Level == 0 .. kMaxHeight - 1
Node == Keys \cup {head_}
Thread == Readers \cup {Writer}

VARIABLES next_,        \* next_[n][i]: the link of node n at level i
          max_height_,  \* height of the list
          pc,           \* where each thread is
          key,          \* the key that a thread searches for
          x,            \* the node that its search has reached
          level,        \* the level that its search is in
          prev,         \* Insert(): the nodes to link the new one behind
          height,       \* Insert(): the height of the new node
          node_         \* the position of each reader's iterator

list == <<next_, max_height_>>
search == <<pc, key, x, level>>
vars == <<list, search, prev, height, node_>>

Searches == {"FindGreaterOrEqual", "FindLessThan", "FindLast"}

Init == /\ next_ = [n \in Node |-> [i \in Level |-> IF n = head_ THEN NULL ELSE Junk]]
        /\ max_height_ = 1
        /\ pc = [t \in Thread |-> "idle"]
        /\ key = [t \in Thread |-> head_]
        /\ x = [t \in Thread |-> head_]
        /\ level = [t \in Thread |-> 0]
        /\ prev = [i \in Level |-> Junk]
        /\ height = 0
        /\ node_ = [r \in Readers |-> NULL]

\* The nodes that can be reached at level i: something points at them there.
Linked(i) == {k \in Keys : \E n \in Node : next_[n][i] = k}

-----------------------------------------------------------------------------
(* The three searches. They differ in when a step to the right is taken    *)
(* and in whether the node before or after the end of the walk is wanted.  *)

\* A search that begins where the last one of the iterator ended.
Start_Finger(t, f, k, h) ==
  /\ pc[t] = "idle"
  /\ pc' = [pc EXCEPT ![t] = f]
  /\ key' = [key EXCEPT ![t] = k]
  /\ x' = [x EXCEPT ![t] = IF t \in Readers /\ node_[t] # NULL /\ node_[t] < k
                           THEN node_[t] ELSE head_]
  /\ level' = [level EXCEPT ![t] = h - 1]

\* The search f for k begins at head_, in the level below height h.
Start(t, f, k, h) ==
  /\ pc[t] = "idle"
  /\ pc' = [pc EXCEPT ![t] = f]
  /\ key' = [key EXCEPT ![t] = k]
  /\ x' = [x EXCEPT ![t] = head_]
  /\ level' = [level EXCEPT ![t] = h - 1]

\* What x->Next(level) returns.
Successor(t) == next_[x[t]][level[t]]

KeyIsAfterNode_OrAt(k, n) == n # NULL /\ n <= k
KeyIsAfterNode(k, n) == n # NULL /\ n < k

GoesRight(t) == IF pc[t] = "FindLast" THEN Successor(t) # NULL
                ELSE KeyIsAfterNode(key[t], Successor(t))

\* x = next is forgotten.
Right_Stays(t) ==
  /\ pc[t] \in Searches
  /\ GoesRight(t)
  /\ x' = [x EXCEPT ![t] = x[t]]
  /\ UNCHANGED <<list, pc, key, level, prev, height, node_>>

\* Keep searching in this level.
Right(t) ==
  /\ pc[t] \in Searches
  /\ GoesRight(t)
  /\ x' = [x EXCEPT ![t] = Successor(t)]
  /\ UNCHANGED <<list, pc, key, level, prev, height, node_>>

\* Switch to the level below; an insertion notes where it left this one.
Down(t) ==
  /\ pc[t] \in Searches
  /\ ~ GoesRight(t)
  /\ level[t] > 0
  /\ level' = [level EXCEPT ![t] = @ - 1]
  /\ prev' = IF t = Writer THEN [prev EXCEPT ![level[t]] = x[t]] ELSE prev
  /\ UNCHANGED <<list, pc, key, x, height, node_>>

\* The search ends here.
AtBottom(t) == pc[t] \in Searches /\ ~ GoesRight(t) /\ level[t] = 0

\* The call of the reader r returns with the iterator at n.
Return(r, n) == /\ node_' = [node_ EXCEPT ![r] = n]
                /\ pc' = [pc EXCEPT ![r] = "idle"]
                /\ key' = [key EXCEPT ![r] = head_]
                /\ x' = [x EXCEPT ![r] = head_]
                /\ UNCHANGED <<list, level, prev, height>>

\* Iterator: a node before the walk's end that is head_ means no entry.
Found_Head(r) == IF pc[r] = "FindGreaterOrEqual" THEN Successor(r) ELSE x[r]
Found(r) == IF pc[r] = "FindGreaterOrEqual" THEN Successor(r)
            ELSE IF x[r] = head_ THEN NULL ELSE x[r]

SearchEnds(r) == AtBottom(r) /\ Return(r, Found(r))

-----------------------------------------------------------------------------
(* Iterator.                                                               *)

\* GetMaxHeight() is read without a barrier: readers may see an old value.
GetMaxHeight == 1 .. max_height_

Seek(r, k) == /\ \E h \in GetMaxHeight : Start(r, "FindGreaterOrEqual", k, h)
              /\ UNCHANGED <<list, prev, height, node_>>

SeekToLast(r) == /\ \E h \in GetMaxHeight : Start(r, "FindLast", head_, h)
                 /\ UNCHANGED <<list, prev, height, node_>>

Prev(r) == /\ node_[r] # NULL
           /\ \E h \in GetMaxHeight : Start(r, "FindLessThan", node_[r], h)
           /\ UNCHANGED <<list, prev, height, node_>>

\* SeekToFirst() and Next() load one link, of head_ or of the node.
SeekToFirst(r) == /\ Start(r, "Load", head_, 1)
                  /\ UNCHANGED <<list, prev, height, node_>>

NextCall(r) == /\ node_[r] # NULL
               /\ Start(r, "Load", node_[r], 1)
               /\ UNCHANGED <<list, prev, height, node_>>

Load(r) == /\ pc[r] = "Load"
           /\ Return(r, next_[key[r]][0])

-----------------------------------------------------------------------------
(* Insert(). The writer reads only what it has itself written.             *)

Insert(k) == /\ k \notin Linked(0)
             /\ Start(Writer, "FindGreaterOrEqual", k, max_height_)
             /\ UNCHANGED <<list, prev, height, node_>>

\* Where the new node of height h is linked: the levels above the list's height
\* begin at head_.
PrevFor_FromOne(h) ==
  [i \in Level |-> IF i = 0 THEN x[Writer]
                   ELSE IF h > max_height_ /\ i \in 1 .. h - 1 THEN head_
                   ELSE prev[i]]
PrevFor(h) ==
  [i \in Level |-> IF i = 0 THEN x[Writer]
                   ELSE IF i \in max_height_ .. h - 1 THEN head_
                   ELSE prev[i]]

\* RandomHeight() and the new height of the list.
Grow(h) ==
  /\ AtBottom(Writer)
  /\ height' = h
  /\ prev' = PrevFor(h)
  /\ max_height_' = IF h > max_height_ THEN h ELSE max_height_
  /\ pc' = [pc EXCEPT ![Writer] = "link"]
  /\ level' = [level EXCEPT ![Writer] = 0]
  /\ UNCHANGED <<next_, key, x, node_>>

\* x->NoBarrier_SetNext(i, prev[i]->NoBarrier_Next(i))
Link ==
  /\ pc[Writer] = "link"
  /\ LET i == level[Writer] IN
       next_' = [next_ EXCEPT ![key[Writer]][i] = next_[prev[i]][i]]
  /\ pc' = [pc EXCEPT ![Writer] = "publish"]
  /\ UNCHANGED <<max_height_, key, x, level, prev, height, node_>>

\* prev[i]->SetNext(i, x), and the end of the loop or of Insert().
Publish ==
  /\ pc[Writer] = "publish"
  /\ LET i == level[Writer] IN
       next_' = [next_ EXCEPT ![prev[i]][i] = key[Writer]]
  /\ \/ /\ level[Writer] + 1 < height
        /\ pc' = [pc EXCEPT ![Writer] = "link"]
        /\ level' = [level EXCEPT ![Writer] = @ + 1]
        /\ UNCHANGED <<key, x, prev, height>>
     \/ /\ level[Writer] + 1 = height
        /\ pc' = [pc EXCEPT ![Writer] = "idle"]
        /\ level' = [level EXCEPT ![Writer] = 0]
        /\ key' = [key EXCEPT ![Writer] = head_]
        /\ x' = [x EXCEPT ![Writer] = head_]
        /\ prev' = [i \in Level |-> Junk]
        /\ height' = 0
  /\ UNCHANGED <<max_height_, node_>>

-----------------------------------------------------------------------------

ReaderStep(r) == Right(r) \/ Down(r) \/ SearchEnds(r) \/ Load(r)

ReaderCall(r) == \/ \E k \in Keys : Seek(r, k)
                 \/ SeekToFirst(r) \/ SeekToLast(r) \/ NextCall(r) \/ Prev(r)

WriterStep == \/ Right(Writer) \/ Down(Writer) \/ Link \/ Publish
              \/ \E h \in 1 .. kMaxHeight : Grow(h)

Next == \/ \E k \in Keys : Insert(k)
        \/ WriterStep
        \/ \E r \in Readers : ReaderStep(r) \/ ReaderCall(r)

Spec == Init /\ [][Next]_vars

\* The threads run; nobody has to begin a call.
FairSpec == /\ Spec
            /\ WF_vars(WriterStep)
            /\ \A r \in Readers : WF_vars(ReaderStep(r))

-----------------------------------------------------------------------------
(* Properties.                                                             *)

TypeOK ==
  /\ next_ \in [Node -> [Level -> Keys \cup {NULL, Junk}]]
  /\ max_height_ \in 1 .. kMaxHeight
  /\ pc \in [Thread -> Searches \cup {"idle", "Load", "link", "publish"}]
  /\ key \in [Thread -> Node]
  /\ x \in [Thread -> Node]
  /\ level \in [Thread -> Level]
  /\ prev \in [Level -> Node \cup {Junk}]
  /\ height \in 0 .. kMaxHeight
  /\ node_ \in [Readers -> Keys \cup {NULL}]

\* At every moment of an insertion each level is a sorted list without gaps
\* (a link leads to the next larger node of its level), and everything in a
\* level is in the levels below: a search that goes down misses nothing.
ListsNested ==
  \A i \in Level :
    /\ \A n \in Linked(i) \cup {head_} :
         /\ next_[n][i] \in Linked(i) \cup {NULL}
         /\ next_[n][i] # NULL => n < next_[n][i]
         /\ \A m \in Linked(i) : n < m => /\ next_[n][i] # NULL
                                          /\ next_[n][i] <= m
    /\ i > 0 => Linked(i) \subseteq Linked(i - 1)

\* A thread is never about to load a link that has not been written:
\* NewNode() leaves the links of a node uninitialised, and a reader may reach
\* a node of which only some levels are linked.
ReadsInitialised ==
  /\ \A t \in Thread : pc[t] \in Searches => Successor(t) # Junk
  /\ \A r \in Readers : pc[r] = "Load" => next_[key[r]][0] # Junk

\* The searches of readers implement OrderedSet: a key is in the list when it
\* is linked at level 0, and the last load of a call decides its answer.
Asking == [r \in Readers |->
  IF pc[r] = "FindGreaterOrEqual" THEN <<"Seek", key[r]>>
  ELSE IF pc[r] = "FindLast" THEN <<"SeekToLast">>
  ELSE IF pc[r] = "FindLessThan" THEN <<"Prev">>
  ELSE IF pc[r] # "Load" THEN <<"none">>
  ELSE IF key[r] = head_ THEN <<"SeekToFirst">> ELSE <<"Next">>]

Ordered == INSTANCE OrderedSet WITH contents <- Linked(0), call <- Asking,
                                    position <- node_

\* Whatever the inserting thread does meanwhile, every call of an iterator
\* answers as for the contents of one moment of the call.
AnswersExactly == Ordered!Spec

\* Every call of an iterator returns, and so does Insert(): the stale height
\* and the half linked nodes never keep a search going round.
SearchesReturn == \A t \in Thread : pc[t] # "idle" ~> pc[t] = "idle"
=============================================================================
