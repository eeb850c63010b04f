--------------------------- MODULE SkipListProofs ---------------------------
(***************************************************************************)
(* Theorems about SkipList, for every set of keys, every set of readers    *)
(* and every maximal height.                                               *)
(***************************************************************************)
EXTENDS SkipList, TLAPS

\* A node that can be passed in level i.
InLevel(n, i) == n \in Linked(i) \cup {head_}

\* Level i is sorted and has no gaps, as in ListsNested.
LevelSorted(i) ==
  \A n \in Node : InLevel(n, i) =>
    /\ next_[n][i] \in Linked(i) \cup {NULL}
    /\ next_[n][i] # NULL => n < next_[n][i]
    /\ \A m \in Linked(i) : n < m => /\ next_[n][i] # NULL
                                     /\ next_[n][i] <= m

\* The lists. ListsNested relates neighbouring levels only; an insertion needs
\* to know that a key missing at level 0 is missing everywhere, and that the
\* levels from max_height_ on are empty. Links of nodes that are not linked
\* are junk, but for the one that Link has just set.
ListInv ==
  /\ \A i \in Level : LevelSorted(i)
  /\ \A i, j \in Level : j <= i => Linked(i) \subseteq Linked(j)
  /\ \A i \in Level : max_height_ <= i => Linked(i) = {}
  /\ \A k \in Keys, i \in Level :
       k \notin Linked(i) =>
         \/ next_[k][i] = Junk
         \/ pc[Writer] = "publish" /\ k = key[Writer] /\ i = level[Writer]

\* The new key belongs directly behind prev[i].
PrevRight(i) ==
  /\ InLevel(prev[i], i)
  /\ prev[i] \in Node
  /\ prev[i] < key[Writer]
  /\ next_[prev[i]][i] # NULL => key[Writer] < next_[prev[i]][i]

WriterInv ==
  /\ pc[Writer] \in {"idle", "FindGreaterOrEqual", "link", "publish"}
  /\ pc[Writer] # "idle" => key[Writer] \in Keys
  /\ pc[Writer] = "FindGreaterOrEqual" =>
       /\ key[Writer] \notin Linked(0)
       /\ level[Writer] < max_height_
       /\ \A i \in Level : level[Writer] < i /\ i < max_height_ => PrevRight(i)
  /\ pc[Writer] \in {"link", "publish"} =>
       /\ height <= max_height_
       /\ level[Writer] < height
       /\ \A i \in Level : i < level[Writer] => key[Writer] \in Linked(i)
       /\ \A i \in Level : level[Writer] <= i /\ i < height =>
            PrevRight(i) /\ key[Writer] \notin Linked(i)
  /\ pc[Writer] = "publish" =>
       next_[key[Writer]][level[Writer]] = next_[prev[level[Writer]]][level[Writer]]

SearchInv ==
  /\ \A t \in Thread : pc[t] \in Searches =>
       /\ InLevel(x[t], level[t])
       /\ pc[t] # "FindLast" => x[t] < key[t]
  /\ \A r \in Readers :
       /\ pc[r] \in Searches \cup {"idle", "Load"}
       /\ node_[r] \in Linked(0) \cup {NULL}
       /\ pc[r] = "FindGreaterOrEqual" => key[r] \in Keys
       /\ pc[r] = "FindLessThan" => key[r] = node_[r] /\ node_[r] # NULL
       /\ pc[r] = "Load" => key[r] = head_ \/ (key[r] = node_[r] /\ node_[r] # NULL)

\* The inductive invariant.
IInv == TypeOK /\ ListInv /\ WriterInv /\ SearchInv

-----------------------------------------------------------------------------
(* What the actions do to Linked.                                          *)

LEMMA LinkedKeys == \A i : \A k \in Linked(i) : k \in Keys
BY DEF Linked

LEMMA LinkedSame ==
  ASSUME next_' = next_
  PROVE  \A i : Linked(i)' = Linked(i)
BY DEF Linked

\* Setting the link of a node that is not reachable yet links nothing.
LEMMA LinkLinked ==
  ASSUME IInv, Link
  PROVE  /\ \A i \in Level : Linked(i)' = Linked(i)
         /\ \A n \in Node, i \in Level : InLevel(n, i) => next_'[n][i] = next_[n][i]
<1> DEFINE w == key[Writer]  l == level[Writer]
<1>1. w \in Keys /\ w \in Node /\ l \in Level /\ l < height /\ w \notin Linked(l) /\ PrevRight(l)
  BY HeightAssumption DEF IInv, TypeOK, WriterInv, Link, Node, Thread, Level
<1>2. next_[w][l] = Junk /\ w # head_
  BY <1>1, KeysAssumption DEF IInv, ListInv, Link, head_
<1>3. next_[prev[l]][l] \in Linked(l) \cup {NULL}
  BY <1>1 DEF IInv, ListInv, LevelSorted, PrevRight
<1>4. \A n \in Node, i \in Level :
        next_'[n][i] = IF n = w /\ i = l THEN next_[prev[l]][l] ELSE next_[n][i]
  BY <1>1 DEF Link, IInv, TypeOK
<1>5. Junk \notin Keys /\ NULL \notin Keys
  BY KeysAssumption DEF Junk, NULL
<1>6. ASSUME NEW i \in Level PROVE Linked(i)' = Linked(i)
  BY <1>1, <1>2, <1>3, <1>4, <1>5 DEF Linked
<1>7. ASSUME NEW n \in Node, NEW i \in Level, InLevel(n, i)
      PROVE  next_'[n][i] = next_[n][i]
  BY <1>1, <1>2, <1>4, <1>7 DEF InLevel
<1> QED BY <1>6, <1>7

\* Publishing adds the new key to the level, behind prev.
LEMMA PublishLinked ==
  ASSUME IInv, Publish
  PROVE  /\ key[Writer] \in Keys /\ level[Writer] \in Level
         /\ PrevRight(level[Writer]) /\ key[Writer] \notin Linked(level[Writer])
         /\ \A i \in Level : Linked(i)' = IF i = level[Writer]
                                          THEN Linked(i) \cup {key[Writer]}
                                          ELSE Linked(i)
         /\ \A n \in Node, i \in Level :
              next_'[n][i] = IF n = prev[level[Writer]] /\ i = level[Writer]
                             THEN key[Writer] ELSE next_[n][i]
<1> DEFINE w == key[Writer]  l == level[Writer]
<1>1. w \in Keys /\ w \in Node /\ l \in Level /\ l < height /\ w \notin Linked(l) /\ PrevRight(l)
  BY HeightAssumption DEF IInv, TypeOK, WriterInv, Publish, Node, Thread, Level
<1>2. next_[w][l] = next_[prev[l]][l] /\ w # prev[l]
  BY <1>1, KeysAssumption DEF IInv, WriterInv, Publish, PrevRight
<1>4. \A n \in Node, i \in Level :
        next_'[n][i] = IF n = prev[l] /\ i = l THEN w ELSE next_[n][i]
  BY <1>1 DEF Publish, IInv, TypeOK, PrevRight
<1>5. prev[l] \in Node
  BY <1>1 DEF PrevRight
<1>6. ASSUME NEW i \in Level, i # l PROVE Linked(i)' = Linked(i)
  BY <1>4, <1>6 DEF Linked
<1>7. ASSUME NEW i \in Level, i = l PROVE Linked(i)' = Linked(i) \cup {w}
  BY <1>1, <1>2, <1>4, <1>5, <1>7 DEF Linked
<1> QED BY <1>1, <1>4, <1>6, <1>7

-----------------------------------------------------------------------------
(* Facts that several steps use.                                           *)

\* Constants are not nodes, and nodes are numbers.
LEMMA NodeFacts ==
  /\ \A n \in Node : n \in Nat
  /\ \A k \in Keys : k \in Node /\ k \in Nat /\ 0 < k
  /\ head_ \in Node /\ head_ \notin Keys
  /\ NULL \notin Node /\ NULL \notin Keys
  /\ Junk \notin Node /\ Junk \notin Keys /\ NULL # Junk
  /\ \A i \in Level : i \in Nat /\ 0 <= i
  /\ 0 \in Level
  /\ Writer \in Thread /\ Readers \subseteq Thread /\ Writer \notin Readers
BY KeysAssumption, HeightAssumption, WriterAssumption
   DEF Node, head_, NULL, Junk, Level, Thread

\* What a search sees: a link that is set, in a sorted list.
LEMMA SuccessorFacts ==
  ASSUME IInv, NEW t \in Thread, pc[t] \in Searches
  PROVE  /\ x[t] \in Node /\ level[t] \in Level /\ InLevel(x[t], level[t])
         /\ Successor(t) \in Linked(level[t]) \cup {NULL}
         /\ \A m \in Linked(level[t]) :
              x[t] < m => Successor(t) # NULL /\ Successor(t) <= m
BY DEF IInv, TypeOK, ListInv, LevelSorted, SearchInv, Successor

\* A step that leaves the links and the writer's state alone.
LEMMA ReaderKeeps ==
  ASSUME IInv, list' = list, prev' = prev, height' = height,
         pc'[Writer] = pc[Writer], key'[Writer] = key[Writer],
         level'[Writer] = level[Writer]
  PROVE  ListInv' /\ WriterInv'
<1>1. next_' = next_ /\ max_height_' = max_height_
  BY DEF list
<1>2. \A i : Linked(i)' = Linked(i)
  BY <1>1, LinkedSame
<1>3. ListInv'
  BY <1>1, <1>2 DEF IInv, ListInv, LevelSorted, InLevel
<1>4. \A i \in Level : PrevRight(i)' = PrevRight(i)
  BY <1>1, <1>2 DEF PrevRight, InLevel
<1>5. 0 \in Level
  BY NodeFacts
<1>6. WriterInv'
  BY <1>1, <1>2, <1>4, <1>5 DEF IInv, WriterInv
<1> QED BY <1>3, <1>6

-----------------------------------------------------------------------------
(* The invariant is kept, action by action.                                *)

LEMMA InitInv == Init => IInv
<1> SUFFICES ASSUME Init PROVE IInv
  OBVIOUS
<1>1. \A i \in Level : Linked(i) = {}
  BY NodeFacts DEF Init, Linked
<1>2. TypeOK
  BY NodeFacts, HeightAssumption DEF Init, TypeOK, Searches
<1>3. ListInv
  BY <1>1, NodeFacts DEF Init, ListInv, LevelSorted, InLevel
<1>4. WriterInv
  BY NodeFacts DEF Init, WriterInv
<1>5. SearchInv
  BY NodeFacts DEF Init, SearchInv, Searches
<1> QED BY <1>2, <1>3, <1>4, <1>5 DEF IInv

\* A call begins: the first step of every search is at head_.
LEMMA StartReader ==
  ASSUME IInv, NEW r \in Readers, NEW f \in Searches \cup {"Load"},
         NEW k \in Node, NEW h \in 1 .. max_height_,
         Start(r, f, k, h), UNCHANGED <<list, prev, height, node_>>,
         f = "FindGreaterOrEqual" => k \in Keys,
         f = "FindLessThan" => k = node_[r] /\ node_[r] # NULL,
         f = "Load" => k = head_ \/ (k = node_[r] /\ node_[r] # NULL)
  PROVE  IInv'
<1>1. r \in Thread /\ r # Writer
  BY NodeFacts
<1>2. h - 1 \in Level
  BY HeightAssumption DEF IInv, TypeOK, Level
<1>3. TypeOK'
  BY <1>1, <1>2, NodeFacts DEF IInv, TypeOK, Start, list
<1>4. ListInv' /\ WriterInv'
  BY <1>1, ReaderKeeps DEF Start, IInv, TypeOK
<1>5. \A i : Linked(i)' = Linked(i)
  BY LinkedSame DEF list
<1>6. f # "FindLast" /\ f \in Searches => head_ < k
  BY NodeFacts, LinkedKeys, KeysAssumption DEF IInv, SearchInv, Searches, head_, NULL, TypeOK
<1>7. SearchInv'
  BY <1>1, <1>5, <1>6, NodeFacts DEF IInv, TypeOK, SearchInv, Start, InLevel, Searches
<1> QED BY <1>3, <1>4, <1>7 DEF IInv

LEMMA RightInv ==
  ASSUME IInv, NEW t \in Thread, Right(t)
  PROVE  IInv'
<1>1. Successor(t) \in Linked(level[t]) /\ Successor(t) \in Keys
  BY SuccessorFacts, LinkedKeys DEF Right, GoesRight, KeyIsAfterNode
<1>2. TypeOK'
  BY <1>1, NodeFacts DEF IInv, TypeOK, Right, list
<1>3. ListInv' /\ WriterInv'
  BY ReaderKeeps DEF Right
<1>4. \A i : Linked(i)' = Linked(i)
  BY LinkedSame DEF Right, list
<1>5. pc[t] # "FindLast" => Successor(t) < key[t]
  BY DEF Right, GoesRight, KeyIsAfterNode
<1>6. SearchInv'
  BY <1>1, <1>4, <1>5 DEF IInv, TypeOK, SearchInv, Right, InLevel
<1> QED BY <1>2, <1>3, <1>6 DEF IInv

\* Going down: what is in a level is in the one below. For an insertion, the
\* node it leaves the level at is the one to link the new node behind.
LEMMA DownInv ==
  ASSUME IInv, NEW t \in Thread, Down(t)
  PROVE  IInv'
<1> DEFINE l == level[t]
<1>1. l \in Level /\ l > 0 /\ l - 1 \in Level /\ x[t] \in Node
  BY HeightAssumption DEF IInv, TypeOK, Down, Level
<1>2. TypeOK'
  BY <1>1 DEF IInv, TypeOK, Down, list
<1>3. next_' = next_ /\ max_height_' = max_height_ /\ pc' = pc /\ key' = key /\ x' = x
  BY DEF Down, list
<1>4. \A i : Linked(i)' = Linked(i)
  BY <1>3, LinkedSame
<1>5. ListInv' /\ WriterInv'
  <2>1. CASE t # Writer
    BY <2>1, ReaderKeeps, NodeFacts DEF Down, IInv, TypeOK
  <2>2. CASE t = Writer
    <3>1. pc[Writer] = "FindGreaterOrEqual"
      BY <2>2 DEF IInv, WriterInv, Down, Searches
    <3>2. ListInv'
      BY <3>1, <1>3, <1>4 DEF IInv, ListInv, LevelSorted, InLevel
    <3>3. key[Writer] \in Keys /\ key[Writer] \notin Linked(l)
      BY <3>1, <1>1, NodeFacts DEF IInv, WriterInv, ListInv
    <3>4. /\ Successor(t) \in Linked(l) \cup {NULL}
          /\ InLevel(x[t], l)
      BY SuccessorFacts DEF Down
    <3>5. Successor(t) # NULL => key[Writer] < Successor(t)
      BY <2>2, <3>1, <3>3, <3>4, NodeFacts, LinkedKeys DEF Down, GoesRight, KeyIsAfterNode
    <3>6. x[t] < key[Writer]
      BY <2>2, <3>1 DEF IInv, SearchInv, Down
    <3>7. /\ prev' = [prev EXCEPT ![l] = x[t]] /\ level'[Writer] = l - 1
          /\ prev \in [Level -> Node \cup {Junk}]
      BY <2>2 DEF Down, IInv, TypeOK
    <3>8. ASSUME NEW i \in Level, l - 1 < i, i < max_height_ PROVE PrevRight(i)'
      <4>1. CASE i = l
        BY <4>1, <1>1, <1>3, <1>4, <2>2, <3>4, <3>5, <3>6, <3>7 DEF PrevRight, InLevel, Successor
      <4>2. CASE i # l
        <5>1. level[Writer] < i /\ prev'[i] = prev[i]
          BY <2>2, <1>1, <3>7, <3>8, <4>2, NodeFacts
        <5>2. PrevRight(i)
          BY <5>1, <3>1, <3>8 DEF IInv, WriterInv
        <5> QED BY <5>1, <5>2, <1>3, <1>4 DEF PrevRight, InLevel
      <4> QED BY <4>1, <4>2
    <3>9. level[Writer] < max_height_
      BY <3>1 DEF IInv, WriterInv
    <3>10. WriterInv'
      BY <1>1, <1>3, <1>4, <2>2, <3>1, <3>7, <3>8, <3>9, NodeFacts DEF IInv, TypeOK, WriterInv
    <3> QED BY <3>2, <3>10
  <2> QED BY <2>1, <2>2
<1>6. SearchInv'
  <2>1. InLevel(x[t], l - 1)
    BY <1>1, SuccessorFacts, NodeFacts DEF IInv, ListInv, InLevel, Down
  <2>2. level' = [level EXCEPT ![t] = l - 1] /\ node_' = node_
    BY DEF Down
  <2> QED BY <1>3, <1>4, <2>1, <2>2 DEF IInv, TypeOK, SearchInv, InLevel
<1> QED BY <1>2, <1>5, <1>6 DEF IInv

\* A call returns: the iterator stands at a node of the list, or nowhere.
LEMMA ReturnInv ==
  ASSUME IInv, NEW r \in Readers, NEW n \in Linked(0) \cup {NULL}, Return(r, n)
  PROVE  IInv'
<1>1. r \in Thread /\ r # Writer
  BY NodeFacts
<1>2. TypeOK'
  BY <1>1, NodeFacts, LinkedKeys DEF IInv, TypeOK, Return, list
<1>3. ListInv' /\ WriterInv'
  BY <1>1, ReaderKeeps DEF Return, IInv, TypeOK
<1>4. \A i : Linked(i)' = Linked(i)
  BY LinkedSame DEF Return, list
<1>5. SearchInv'
  BY <1>1, <1>4 DEF IInv, TypeOK, SearchInv, Return, InLevel, Searches
<1> QED BY <1>2, <1>3, <1>5 DEF IInv

LEMMA FoundFacts ==
  ASSUME IInv, NEW r \in Readers, AtBottom(r)
  PROVE  Found(r) \in Linked(0) \cup {NULL}
BY SuccessorFacts, NodeFacts DEF AtBottom, Found, InLevel

LEMMA LoadFacts ==
  ASSUME IInv, NEW r \in Readers, pc[r] = "Load"
  PROVE  /\ key[r] \in Node /\ InLevel(key[r], 0)
         /\ next_[key[r]][0] \in Linked(0) \cup {NULL}
         /\ \A m \in Linked(0) : key[r] < m =>
              next_[key[r]][0] # NULL /\ next_[key[r]][0] <= m
         /\ next_[key[r]][0] # NULL => key[r] < next_[key[r]][0]
BY NodeFacts, LinkedKeys DEF IInv, TypeOK, ListInv, LevelSorted, SearchInv, InLevel

LEMMA InsertInv ==
  ASSUME IInv, NEW k \in Keys, Insert(k)
  PROVE  IInv'
<1>1. max_height_ - 1 \in Level /\ max_height_ \in Nat
  BY HeightAssumption DEF IInv, TypeOK, Level
<1>2. TypeOK'
  BY <1>1, NodeFacts DEF IInv, TypeOK, Insert, Start, list, Searches
<1>3. next_' = next_ /\ max_height_' = max_height_ /\ pc[Writer] = "idle"
  BY DEF Insert, list, Start
<1>4. \A i : Linked(i)' = Linked(i)
  BY <1>3, LinkedSame
<1>5. /\ pc'[Writer] = "FindGreaterOrEqual" /\ key'[Writer] = k
      /\ level'[Writer] = max_height_ - 1 /\ x'[Writer] = head_
      /\ \A t \in Readers : /\ pc'[t] = pc[t] /\ key'[t] = key[t]
                            /\ x'[t] = x[t] /\ level'[t] = level[t]
      /\ node_' = node_
  BY NodeFacts DEF IInv, TypeOK, Insert, Start
<1>6. ListInv'
  BY <1>3, <1>4, <1>5 DEF IInv, ListInv, LevelSorted, InLevel
<1>7. WriterInv'
  BY <1>1, <1>3, <1>4, <1>5, NodeFacts DEF WriterInv, Insert
<1>8. head_ < k
  BY KeysAssumption DEF head_
<1>9. SearchInv'
  BY <1>4, <1>5, <1>8 DEF IInv, SearchInv, InLevel, Thread
<1> QED BY <1>2, <1>6, <1>7, <1>9 DEF IInv

\* The height is chosen: every prev[i] below it is right, those in the new
\* levels because the new levels are empty.
LEMMA GrowInv ==
  ASSUME IInv, NEW h \in 1 .. kMaxHeight, Grow(h)
  PROVE  IInv'
<1> DEFINE w == key[Writer]
<1>1. /\ h \in Nat /\ 0 < h /\ max_height_ \in Nat /\ 0 < max_height_
      /\ height' = h /\ max_height_' \in 1 .. kMaxHeight
      /\ max_height_' = IF h > max_height_ THEN h ELSE max_height_
  BY HeightAssumption DEF IInv, TypeOK, PrevFor, Grow
<1>2. /\ pc[Writer] = "FindGreaterOrEqual" /\ level[Writer] = 0 /\ Writer \in Thread
      /\ ~ GoesRight(Writer)
  BY NodeFacts DEF IInv, WriterInv, PrevFor, Grow, AtBottom, Searches
<1>3. /\ next_' = next_ /\ key' = key /\ x' = x /\ node_' = node_
      /\ pc' = [pc EXCEPT ![Writer] = "link"] /\ level' = [level EXCEPT ![Writer] = 0]
  BY DEF PrevFor, Grow
<1>4. \A i : Linked(i)' = Linked(i)
  BY <1>3, LinkedSame
<1>5. x[Writer] \in Node
  BY <1>2 DEF IInv, TypeOK
<1>6. \A i \in Level : prev'[i] = IF i = 0 THEN x[Writer]
                                  ELSE IF i \in max_height_ .. h - 1 THEN head_ ELSE prev[i]
  BY DEF PrevFor, Grow
<1>7. TypeOK'
  <2>1. prev' \in [Level -> Node \cup {Junk}]
    BY <1>5, NodeFacts DEF PrevFor, Grow, IInv, TypeOK
  <2> QED BY <1>1, <1>2, <1>3, <2>1, NodeFacts, HeightAssumption DEF IInv, TypeOK
<1>8. ListInv'
  <2>1. \A i \in Level : max_height_' <= i => Linked(i)' = {}
    BY <1>1, <1>4, NodeFacts DEF IInv, ListInv
  <2> QED BY <1>2, <1>3, <1>4, <2>1, NodeFacts DEF IInv, ListInv, LevelSorted, InLevel
<1>9. w \in Keys /\ \A i \in Level : w \notin Linked(i)
  BY <1>2, NodeFacts DEF IInv, WriterInv, ListInv
<1>10. ASSUME NEW i \in Level, i < h PROVE PrevRight(i)'
  <2>1. CASE i = 0
    <3>1. /\ Successor(Writer) \in Linked(0) \cup {NULL} /\ InLevel(x[Writer], 0)
          /\ x[Writer] < w
      BY <1>2, SuccessorFacts DEF IInv, SearchInv, Searches
    <3>2. Successor(Writer) # NULL => w < Successor(Writer)
      BY <1>2, <1>9, <3>1, NodeFacts, LinkedKeys DEF GoesRight, KeyIsAfterNode
    <3> QED BY <1>2, <1>3, <1>4, <1>5, <1>6, <2>1, <3>1, <3>2 DEF PrevRight, InLevel, Successor
  <2>2. CASE i # 0 /\ i < max_height_
    <3>1. prev'[i] = prev[i] /\ 0 < i
      BY <1>1, <1>6, <2>2, NodeFacts
    <3>2. PrevRight(i)
      BY <1>2, <2>2, <3>1 DEF IInv, WriterInv
    <3> QED BY <1>3, <1>4, <3>1, <3>2 DEF PrevRight, InLevel
  <2>3. CASE ~ (i < max_height_)
    <3>1. prev'[i] = head_ /\ Linked(i) = {}
      BY <1>1, <1>6, <1>10, <2>3, NodeFacts DEF IInv, ListInv
    <3>2. next_[head_][i] = NULL
      BY <3>1, NodeFacts DEF IInv, ListInv, LevelSorted, InLevel
    <3>3. head_ < w
      BY <1>9, NodeFacts DEF head_
    <3> QED BY <1>3, <1>4, <3>1, <3>2, <3>3, NodeFacts DEF PrevRight, InLevel
  <2> QED BY <2>1, <2>2, <2>3
<1>11. WriterInv'
  <2>1. pc'[Writer] = "link" /\ level'[Writer] = 0 /\ key'[Writer] = w
    BY <1>2, <1>3 DEF IInv, TypeOK
  <2> QED BY <1>1, <1>4, <1>9, <1>10, <2>1, NodeFacts DEF WriterInv
<1>12. SearchInv'
  <2>1. \A r \in Readers : pc'[r] = pc[r] /\ level'[r] = level[r]
    BY <1>3, NodeFacts DEF IInv, TypeOK
  <2>2. pc'[Writer] = "link"
    BY <1>2, <1>3 DEF IInv, TypeOK
  <2> QED BY <1>3, <1>4, <2>1, <2>2 DEF IInv, SearchInv, InLevel, Thread, Searches
<1> QED BY <1>7, <1>8, <1>11, <1>12 DEF IInv

LEMMA LinkInv ==
  ASSUME IInv, Link
  PROVE  IInv'
<1> DEFINE w == key[Writer]  l == level[Writer]
<1>1. /\ pc[Writer] = "link" /\ Writer \in Thread /\ w \in Keys /\ l \in Level
      /\ PrevRight(l) /\ l < height /\ prev[l] \in Node
  BY NodeFacts DEF IInv, TypeOK, WriterInv, Link, PrevRight
<1>2. /\ max_height_' = max_height_ /\ key' = key /\ x' = x /\ level' = level
      /\ prev' = prev /\ height' = height /\ node_' = node_
      /\ pc' = [pc EXCEPT ![Writer] = "publish"]
      /\ next_' = [next_ EXCEPT ![w][l] = next_[prev[l]][l]]
  BY DEF Link
<1>3. /\ \A i \in Level : Linked(i)' = Linked(i)
      /\ \A n \in Node, i \in Level : InLevel(n, i) => next_'[n][i] = next_[n][i]
  BY LinkLinked
<1>4. TypeOK'
  BY <1>1, <1>2, NodeFacts DEF IInv, TypeOK
<1>5. pc'[Writer] = "publish" /\ \A r \in Readers : pc'[r] = pc[r]
  BY <1>1, <1>2, NodeFacts DEF IInv, TypeOK
<1>6. ListInv'
  <2>1. \A i \in Level : LevelSorted(i)'
    BY <1>3 DEF IInv, ListInv, LevelSorted, InLevel
  <2>2. \A k \in Keys, i \in Level :
          (k = w /\ i = l) \/ next_'[k][i] = next_[k][i]
    BY <1>1, <1>2, NodeFacts DEF IInv, TypeOK
  <2> QED BY <1>1, <1>2, <1>3, <1>5, <2>1, <2>2 DEF IInv, ListInv
<1>7. WriterInv'
  <2>1. \A i \in Level : PrevRight(i) => PrevRight(i)'
    BY <1>2, <1>3 DEF PrevRight, InLevel
  <2>2. next_'[w][l] = next_[prev[l]][l] /\ next_'[prev[l]][l] = next_[prev[l]][l]
    BY <1>1, <1>2, <1>3, NodeFacts DEF IInv, TypeOK, PrevRight
  <2> QED BY <1>1, <1>2, <1>3, <1>5, <2>1, <2>2, NodeFacts DEF IInv, WriterInv
<1>8. SearchInv'
  BY <1>2, <1>3, <1>5, NodeFacts DEF IInv, TypeOK, SearchInv, InLevel, Thread, Searches
<1> QED BY <1>4, <1>6, <1>7, <1>8 DEF IInv

\* The new node is linked behind prev[l]: the level stays sorted without gaps,
\* and everything in it is in the levels below, where the node already is.
LEMMA PublishLists ==
  ASSUME IInv, Publish
  PROVE  ListInv'
<1> DEFINE w == key[Writer]  l == level[Writer]  p == prev[l]  y == next_[p][l]
<1>1. /\ w \in Keys /\ w \in Nat /\ w \in Node /\ l \in Level /\ w \notin Linked(l)
      /\ p \in Node /\ p \in Nat /\ InLevel(p, l) /\ p < w
      /\ y # NULL => w < y
  BY PublishLinked, NodeFacts DEF PrevRight
<1>2. \A i \in Level : Linked(i)' = IF i = l THEN Linked(i) \cup {w} ELSE Linked(i)
  BY PublishLinked
<1>3. \A n \in Node, i \in Level :
        next_'[n][i] = IF n = p /\ i = l THEN w ELSE next_[n][i]
  BY PublishLinked
<1>4. /\ pc[Writer] = "publish" /\ next_[w][l] = y /\ max_height_' = max_height_
      /\ l < max_height_ /\ \A i \in Level : i < l => w \in Linked(i)
  BY <1>1, NodeFacts DEF IInv, TypeOK, WriterInv, Publish
<1>5. /\ y \in Linked(l) \cup {NULL}
      /\ \A m \in Linked(l) : p < m => y # NULL /\ y <= m
  BY <1>1 DEF IInv, ListInv, LevelSorted
<1>6. ASSUME NEW i \in Level PROVE LevelSorted(i)'
  <2>1. CASE i # l
    BY <1>2, <1>3, <2>1 DEF IInv, ListInv, LevelSorted, InLevel
  <2>2. CASE i = l
    <3> SUFFICES ASSUME NEW n \in Node, n \in Linked(l) \cup {w, head_}
                 PROVE  /\ next_'[n][i] \in Linked(l) \cup {w, NULL}
                        /\ next_'[n][i] # NULL => n < next_'[n][i]
                        /\ \A m \in Linked(l) \cup {w} :
                             n < m => next_'[n][i] # NULL /\ next_'[n][i] <= m
      BY <1>2, <2>2 DEF LevelSorted, InLevel
    <3>0. n \in Nat /\ \A m \in Linked(l) : m \in Nat
      BY NodeFacts, LinkedKeys
    <3>1. CASE n = p
      <4>1. next_'[n][i] = w
        BY <1>1, <1>3, <2>2, <3>1
      <4>2. ASSUME NEW m \in Linked(l), p < m PROVE w <= m
        <5>1. y # NULL /\ y <= m /\ y \in Linked(l)
          BY <1>5, <4>2
        <5>2. y \in Nat /\ m \in Nat /\ w \in Nat /\ w < y
          BY <1>1, <3>0, <5>1
        <5> HIDE DEF y, w
        <5> QED BY <5>1, <5>2
      <4>3. w # NULL /\ w <= w
        BY <1>1, NodeFacts
      <4> QED BY <1>1, <3>1, <4>1, <4>2, <4>3
    <3>2. CASE n = w
      <4>1. next_'[n][i] = y
        BY <1>1, <1>3, <1>4, <2>2, <3>2
      <4>2. \A m \in Linked(l) : w < m => p < m
        BY <1>1, <3>0
      <4> QED BY <1>1, <1>5, <3>0, <3>2, <4>1, <4>2
    <3>3. CASE n # p /\ n # w
      <4>1. next_'[n][i] = next_[n][i] /\ InLevel(n, l)
        BY <1>1, <1>3, <2>2, <3>3 DEF InLevel
      <4>2. /\ next_[n][l] \in Linked(l) \cup {NULL}
            /\ next_[n][l] # NULL => n < next_[n][l]
            /\ \A m \in Linked(l) : n < m => next_[n][l] # NULL /\ next_[n][l] <= m
        BY <1>1, <4>1 DEF IInv, ListInv, LevelSorted
      <4>3. ASSUME n < w PROVE next_[n][l] # NULL /\ next_[n][l] <= w
        <5>1. CASE n < p
          <6>1. p \in Linked(l)
            BY <1>1, <3>0, <5>1 DEF InLevel, head_
          <6>2. next_[n][l] \in Nat
            BY <4>2, <5>1, <6>1, <3>0
          <6> QED BY <1>1, <4>2, <5>1, <6>1, <6>2
        <5>2. CASE p < n
          <6>1. n \in Linked(l)
            BY <1>1, <3>0, <3>3, <5>2 DEF InLevel, head_
          <6>2. y # NULL /\ y <= n /\ w < y /\ y \in Nat
            BY <1>1, <1>5, <3>0, <5>2, <6>1
          <6> QED BY <1>1, <3>0, <4>3, <6>2
        <5> QED BY <1>1, <3>0, <3>3, <5>1, <5>2
      <4> QED BY <2>2, <4>1, <4>2, <4>3
    <3> QED BY <3>1, <3>2, <3>3
  <2> QED BY <2>1, <2>2
<1>7. \A i, j \in Level : j <= i => Linked(i)' \subseteq Linked(j)'
  <2> SUFFICES ASSUME NEW i \in Level, NEW j \in Level, j <= i,
                      NEW k \in Linked(i)'
               PROVE  k \in Linked(j)'
    OBVIOUS
  <2>1. CASE k \in Linked(i)
    BY <1>2, <2>1 DEF IInv, ListInv
  <2>2. CASE k \notin Linked(i)
    <3>1. i = l /\ k = w
      BY <1>2, <2>2
    <3> QED BY <1>2, <1>4, <3>1, NodeFacts
  <2> QED BY <2>1, <2>2
<1>8. \A i \in Level : max_height_' <= i => Linked(i)' = {}
  <2>1. \A i \in Level : max_height_ <= i => i # l
    BY <1>1, <1>4, NodeFacts, HeightAssumption DEF IInv, TypeOK
  <2> QED BY <1>2, <1>4, <2>1 DEF IInv, ListInv
<1>9. \A k \in Keys, i \in Level : k \notin Linked(i)' => next_'[k][i] = Junk
  <2> SUFFICES ASSUME NEW k \in Keys, NEW i \in Level, k \notin Linked(i)'
               PROVE  next_'[k][i] = Junk
    OBVIOUS
  <2>1. k \notin Linked(i) /\ ~ (k = w /\ i = l)
    BY <1>2
  <2>2. next_[k][i] = Junk
    BY <2>1 DEF IInv, ListInv
  <2>3. ~ (k = p /\ i = l)
    BY <1>1, <2>1, NodeFacts DEF InLevel
  <2> QED BY <1>3, <2>2, <2>3, NodeFacts
<1> QED BY <1>6, <1>7, <1>8, <1>9 DEF ListInv

LEMMA PublishInv ==
  ASSUME IInv, Publish
  PROVE  IInv'
<1> DEFINE w == key[Writer]  l == level[Writer]
<1>1. /\ w \in Keys /\ w \in Node /\ w \in Nat /\ l \in Level /\ l \in Nat
      /\ PrevRight(l) /\ Writer \in Thread /\ height \in Nat
  BY PublishLinked, NodeFacts, HeightAssumption DEF IInv, TypeOK
<1>2. \A i \in Level : Linked(i)' = IF i = l THEN Linked(i) \cup {w} ELSE Linked(i)
  BY PublishLinked
<1>3. \A n \in Node, i \in Level :
        next_'[n][i] = IF n = prev[l] /\ i = l THEN w ELSE next_[n][i]
  BY PublishLinked
<1>4. /\ pc[Writer] = "publish" /\ max_height_' = max_height_ /\ node_' = node_
      /\ next_' = [next_ EXCEPT ![prev[l]][l] = w]
  BY DEF Publish
<1>5. \A r \in Readers : /\ pc'[r] = pc[r] /\ key'[r] = key[r]
                         /\ x'[r] = x[r] /\ level'[r] = level[r]
  BY NodeFacts DEF IInv, TypeOK, Publish
<1>6. /\ l < height /\ height <= max_height_
      /\ \A i \in Level : i < l => w \in Linked(i)
      /\ \A i \in Level : l <= i /\ i < height => PrevRight(i) /\ w \notin Linked(i)
  BY <1>4 DEF IInv, WriterInv
<1>7. next_' \in [Node -> [Level -> Keys \cup {NULL, Junk}]]
  BY <1>1, <1>4 DEF IInv, TypeOK, PrevRight
<1>8. TypeOK' /\ WriterInv'
  <2>1. CASE l + 1 < height
    <3>1. /\ pc' = [pc EXCEPT ![Writer] = "link"] /\ level' = [level EXCEPT ![Writer] = l + 1]
          /\ key' = key /\ x' = x /\ prev' = prev /\ height' = height
      BY <1>1, <2>1 DEF Publish
    <3>2. l + 1 \in Level
      BY <1>1, <2>1, HeightAssumption DEF Level, IInv, TypeOK
    <3>3. TypeOK'
      BY <1>1, <1>4, <1>7, <3>1, <3>2 DEF IInv, TypeOK
    <3>4. pc'[Writer] = "link" /\ level'[Writer] = l + 1
      BY <1>1, <3>1 DEF IInv, TypeOK
    <3>5. ASSUME NEW i \in Level, l + 1 <= i, i < height
          PROVE  PrevRight(i)' /\ w \notin Linked(i)'
      <4>1. i # l /\ l <= i
        BY <1>1, <3>5, NodeFacts
      <4>2. PrevRight(i) /\ w \notin Linked(i)
        BY <1>6, <3>5, <4>1
      <4> QED BY <1>2, <1>3, <3>1, <4>1, <4>2 DEF PrevRight, InLevel
    <3>6. ASSUME NEW i \in Level, i < l + 1 PROVE w \in Linked(i)'
      BY <1>1, <1>2, <1>6, <3>6, NodeFacts
    <3>7. WriterInv'
      BY <1>1, <1>4, <1>6, <2>1, <3>1, <3>4, <3>5, <3>6 DEF WriterInv
    <3> QED BY <3>3, <3>7
  <2>2. CASE ~ (l + 1 < height)
    <3>1. /\ pc' = [pc EXCEPT ![Writer] = "idle"] /\ level' = [level EXCEPT ![Writer] = 0]
          /\ key' = [key EXCEPT ![Writer] = head_] /\ x' = [x EXCEPT ![Writer] = head_]
          /\ prev' = [i \in Level |-> Junk] /\ height' = 0
      BY <2>2 DEF Publish
    <3>2. TypeOK'
      BY <1>1, <1>4, <1>7, <3>1, NodeFacts, HeightAssumption DEF IInv, TypeOK
    <3>3. pc'[Writer] = "idle"
      BY <1>1, <3>1 DEF IInv, TypeOK
    <3> QED BY <3>2, <3>3 DEF WriterInv
  <2> QED BY <2>1, <2>2
<1>9. pc'[Writer] \notin Searches
  BY <1>1 DEF Publish, Searches, IInv, TypeOK
<1>10. SearchInv'
  <2>1. \A t \in Readers : level[t] \in Level /\ t \in Thread
    BY NodeFacts DEF IInv, TypeOK
  <2>2. \A i \in Level : \A n : InLevel(n, i) => InLevel(n, i)'
    BY <1>2 DEF InLevel
  <2>3. \A t \in Thread : t \in Readers \/ t = Writer
    BY DEF Thread
  <2> QED BY <1>2, <1>4, <1>5, <1>9, <2>1, <2>2, <2>3, NodeFacts DEF IInv, SearchInv
<1>11. ListInv'
  BY PublishLists
<1> QED BY <1>8, <1>10, <1>11 DEF IInv

-----------------------------------------------------------------------------

LEMMA ReaderInv ==
  ASSUME IInv, NEW r \in Readers, ReaderStep(r) \/ ReaderCall(r)
  PROVE  IInv'
<1>0. r \in Thread /\ node_[r] \in Keys \cup {NULL}
  BY NodeFacts DEF IInv, TypeOK
<1>1. CASE Right(r)
  BY <1>0, <1>1, RightInv
<1>2. CASE Down(r)
  BY <1>0, <1>2, DownInv
<1>3. CASE SearchEnds(r)
  BY <1>3, FoundFacts, ReturnInv DEF SearchEnds
<1>4. CASE Load(r)
  BY <1>4, LoadFacts, ReturnInv DEF Load
<1>5. ASSUME NEW k \in Keys, Seek(r, k) PROVE IInv'
  <2>1. PICK h \in 1 .. max_height_ : Start(r, "FindGreaterOrEqual", k, h)
    BY <1>5 DEF Seek, GetMaxHeight
  <2> QED BY <1>5, <2>1, StartReader, NodeFacts DEF Seek, Searches
<1>6. CASE SeekToFirst(r)
  <2>1. 1 \in 1 .. max_height_
    BY DEF IInv, TypeOK
  <2> QED BY <1>6, <2>1, StartReader, NodeFacts DEF SeekToFirst, Searches
<1>7. CASE SeekToLast(r)
  <2>1. PICK h \in 1 .. max_height_ : Start(r, "FindLast", head_, h)
    BY <1>7 DEF SeekToLast, GetMaxHeight
  <2> QED BY <1>7, <2>1, StartReader, NodeFacts DEF SeekToLast, Searches
<1>8. CASE NextCall(r)
  <2>1. 1 \in 1 .. max_height_
    BY DEF IInv, TypeOK
  <2> QED BY <1>0, <1>8, <2>1, StartReader, NodeFacts DEF NextCall, Searches
<1>9. CASE Prev(r)
  <2>1. PICK h \in 1 .. max_height_ : Start(r, "FindLessThan", node_[r], h)
    BY <1>9 DEF Prev, GetMaxHeight
  <2> QED BY <1>0, <1>9, <2>1, StartReader, NodeFacts DEF Prev, Searches
<1> QED BY <1>1, <1>2, <1>3, <1>4, <1>5, <1>6, <1>7, <1>8, <1>9 DEF ReaderStep, ReaderCall

LEMMA StutterInv ==
  ASSUME IInv, UNCHANGED vars
  PROVE  IInv'
<1>1. \A i : Linked(i)' = Linked(i)
  BY LinkedSame DEF vars, list
<1>2. ListInv' /\ WriterInv'
  BY ReaderKeeps DEF vars, search
<1>3. TypeOK' /\ SearchInv'
  BY <1>1 DEF IInv, TypeOK, SearchInv, InLevel, vars, list, search
<1> QED BY <1>2, <1>3 DEF IInv

LEMMA NextInv == IInv /\ [Next]_vars => IInv'
<1> SUFFICES ASSUME IInv, [Next]_vars PROVE IInv'
  OBVIOUS
<1>1. ASSUME NEW k \in Keys, Insert(k) PROVE IInv'
  BY <1>1, InsertInv
<1>2. CASE WriterStep
  BY <1>2, RightInv, DownInv, LinkInv, PublishInv, GrowInv, NodeFacts DEF WriterStep
<1>3. ASSUME NEW r \in Readers, ReaderStep(r) \/ ReaderCall(r) PROVE IInv'
  BY <1>3, ReaderInv
<1>4. CASE UNCHANGED vars
  BY <1>4, StutterInv
<1> QED BY <1>1, <1>2, <1>3, <1>4 DEF Next

LEMMA Inductive == Spec => []IInv
BY InitInv, NextInv, PTL DEF Spec

-----------------------------------------------------------------------------
(* The theorems.                                                           *)

\* Every variable keeps its type: no search follows a link into memory that
\* was never written, so that x and node_ are always nodes of the list.
THEOREM TypeCorrect == Spec => []TypeOK
<1>1. IInv => TypeOK
  BY DEF IInv
<1> QED BY <1>1, Inductive, PTL

\* At every moment of Insert() the levels are sorted, without gaps and nested.
THEOREM SortedLevels == Spec => []ListsNested
<1>1. IInv => ListsNested
  <2> SUFFICES ASSUME IInv, NEW i \in Level
               PROVE  /\ \A n \in Linked(i) \cup {head_} :
                           /\ next_[n][i] \in Linked(i) \cup {NULL}
                           /\ next_[n][i] # NULL => n < next_[n][i]
                           /\ \A m \in Linked(i) : n < m => /\ next_[n][i] # NULL
                                                            /\ next_[n][i] <= m
                      /\ i > 0 => Linked(i) \subseteq Linked(i - 1)
    BY DEF ListsNested
  <2>1. LevelSorted(i) /\ \A n \in Linked(i) \cup {head_} : n \in Node
    BY NodeFacts, LinkedKeys DEF IInv, ListInv
  <2>2. i > 0 => i - 1 \in Level /\ i - 1 <= i
    BY HeightAssumption DEF Level
  <2>3. i > 0 => Linked(i) \subseteq Linked(i - 1)
    BY <2>2 DEF IInv, ListInv
  <2> QED BY <2>1, <2>3 DEF LevelSorted, InLevel
<1> QED BY <1>1, Inductive, PTL

\* No thread is ever about to load an uninitialised link.
THEOREM NoJunkRead == Spec => []ReadsInitialised
<1>1. IInv => ReadsInitialised
  <2> SUFFICES ASSUME IInv PROVE ReadsInitialised
    OBVIOUS
  <2>1. \A t \in Thread : pc[t] \in Searches => Successor(t) # Junk
    BY SuccessorFacts, LinkedKeys, NodeFacts
  <2>2. \A r \in Readers : pc[r] = "Load" => next_[key[r]][0] # Junk
    BY LoadFacts, LinkedKeys, NodeFacts
  <2> QED BY <2>1, <2>2 DEF ReadsInitialised
<1> QED BY <1>1, Inductive, PTL

-----------------------------------------------------------------------------
(* The refinement: a call is answered by its last load, a key is added when *)
(* it is published at level 0.                                             *)

LEMMA AskingSame ==
  ASSUME \A r \in Readers : pc'[r] = pc[r] /\ key'[r] = key[r]
  PROVE  Asking' = Asking
BY DEF Asking

LEMMA WriterRefines ==
  ASSUME IInv, WriterStep \/ \E k \in Keys : Insert(k)
  PROVE  [Ordered!Next]_(Ordered!asvars)
<1>1. \A r \in Readers : pc'[r] = pc[r] /\ key'[r] = key[r]
  BY NodeFacts DEF WriterStep, Insert, Start, Right, Down, Link, Publish, PrevFor, Grow, IInv, TypeOK
<1>2. Asking' = Asking /\ node_' = node_
  BY <1>1, AskingSame DEF WriterStep, Insert, Right, Down, Link, Publish, PrevFor, Grow
<1>3. CASE Publish /\ level[Writer] = 0
  <2>1. /\ key[Writer] \in Keys /\ key[Writer] \notin Linked(0)
        /\ Linked(0)' = Linked(0) \cup {key[Writer]}
    BY <1>3, PublishLinked, NodeFacts
  <2> QED BY <1>2, <2>1 DEF Ordered!Next, Ordered!Add
<1>4. CASE ~ (Publish /\ level[Writer] = 0)
  <2>1. CASE Publish
    <3>1. Linked(0)' = Linked(0)
      BY <1>4, <2>1, PublishLinked, NodeFacts
    <3> QED BY <1>2, <3>1 DEF Ordered!asvars
  <2>2. CASE Link
    <3>1. Linked(0)' = Linked(0)
      BY <2>2, LinkLinked, NodeFacts
    <3> QED BY <1>2, <3>1 DEF Ordered!asvars
  <2>3. CASE next_' = next_
    <3>1. Linked(0)' = Linked(0)
      BY <2>3, LinkedSame
    <3> QED BY <1>2, <3>1 DEF Ordered!asvars
  <2> QED BY <2>1, <2>2, <2>3 DEF WriterStep, Insert, Right, Down, PrevFor, Grow, list
<1> QED BY <1>3, <1>4

\* Every call is a question of OrderedSet.
LEMMA CallRefines ==
  ASSUME IInv, NEW r \in Readers, ReaderCall(r)
  PROVE  Ordered!Ask(r)
<1>1. next_' = next_ /\ node_' = node_ /\ Linked(0)' = Linked(0)
  BY LinkedSame DEF ReaderCall, Seek, SeekToFirst, SeekToLast, NextCall, Prev, list
<1>2. pc[r] = "idle" /\ Asking[r] = Ordered!NoCall
  BY DEF ReaderCall, Seek, SeekToFirst, SeekToLast, NextCall, Prev, Start, Asking, Ordered!NoCall
<1>3. \A s \in Readers : s # r => Asking'[s] = Asking[s]
  BY NodeFacts DEF ReaderCall, Seek, SeekToFirst, SeekToLast, NextCall, Prev, Start, Asking,
                   IInv, TypeOK
<1>4. /\ Asking = [s \in Readers |-> Asking[s]]
      /\ Asking' = [s \in Readers |-> Asking'[s]]
  BY DEF Asking
<1>5. Asking'[r] \in Ordered!Calls(node_[r])
  <2>0. r \in Thread /\ node_[r] \in Keys \cup {NULL}
    BY NodeFacts DEF IInv, TypeOK
  <2>1. CASE \E k \in Keys : Seek(r, k)
    BY <2>0, <2>1 DEF Seek, Start, Asking, Ordered!Calls, IInv, TypeOK
  <2>2. CASE SeekToFirst(r)
    BY <2>0, <2>2 DEF SeekToFirst, Start, Asking, Ordered!Calls, IInv, TypeOK
  <2>3. CASE SeekToLast(r)
    BY <2>0, <2>3 DEF SeekToLast, Start, Asking, Ordered!Calls, IInv, TypeOK
  <2>4. CASE NextCall(r)
    BY <2>0, <2>4, NodeFacts DEF NextCall, Start, Asking, Ordered!Calls, IInv, TypeOK
  <2>5. CASE Prev(r)
    BY <2>0, <2>5 DEF Prev, Start, Asking, Ordered!Calls, IInv, TypeOK
  <2> QED BY <2>1, <2>2, <2>3, <2>4, <2>5 DEF ReaderCall
<1>6. Asking' = [Asking EXCEPT ![r] = Asking'[r]]
  BY <1>3, <1>4
<1> QED BY <1>1, <1>2, <1>5, <1>6 DEF Ordered!Ask

\* Every return is an exact answer for the list at the moment of the load.
LEMMA ReturnRefines ==
  ASSUME IInv, NEW r \in Readers, NEW n, Return(r, n), pc[r] # "idle",
         n \in Linked(0) \cup {NULL},
         Ordered!Answers(n, Asking[r], node_[r])
  PROVE  Ordered!Answer(r)
<1>1. Linked(0)' = Linked(0)
  BY LinkedSame DEF Return, list
<1>2. r \in Thread /\ pc[r] \in Searches \cup {"Load"}
  BY NodeFacts DEF IInv, SearchInv
<1>3. Asking[r] # Ordered!NoCall
  BY <1>2 DEF Asking, Ordered!NoCall, Searches
<1>4. /\ Asking = [s \in Readers |-> Asking[s]]
      /\ Asking' = [s \in Readers |-> Asking'[s]]
  BY DEF Asking
<1>5. \A s \in Readers : Asking'[s] = IF s = r THEN Ordered!NoCall ELSE Asking[s]
  BY <1>2, NodeFacts DEF Return, Asking, Ordered!NoCall, IInv, TypeOK
<1>6. Asking' = [Asking EXCEPT ![r] = Ordered!NoCall]
  BY <1>4, <1>5
<1>7. n \in Keys \cup {NULL} /\ node_' = [node_ EXCEPT ![r] = n]
  BY LinkedKeys DEF Return
<1> QED BY <1>1, <1>3, <1>6, <1>7 DEF Ordered!Answer

LEMMA SearchAnswers ==
  ASSUME IInv, NEW r \in Readers, AtBottom(r)
  PROVE  Ordered!Answers(Found(r), Asking[r], node_[r])
<1>1. /\ r \in Thread /\ pc[r] \in Searches /\ level[r] = 0 /\ ~ GoesRight(r)
  BY NodeFacts DEF AtBottom
<1>2. /\ x[r] \in Nat /\ x[r] \in Linked(0) \cup {head_}
      /\ Successor(r) \in Linked(0) \cup {NULL}
      /\ \A m \in Linked(0) : x[r] < m => Successor(r) # NULL /\ Successor(r) <= m
  BY <1>1, SuccessorFacts, NodeFacts DEF InLevel
<1>3. \A m \in Linked(0) : m \in Nat /\ 0 < m /\ m \in Keys /\ m # NULL
  BY LinkedKeys, NodeFacts
<1>4. CASE pc[r] = "FindGreaterOrEqual"
  <2>1. /\ Asking[r] = <<"Seek", key[r]>> /\ Found(r) = Successor(r)
        /\ key[r] \in Nat /\ x[r] < key[r]
    BY <1>1, <1>4, NodeFacts DEF Asking, Found, IInv, SearchInv
  <2>2. Successor(r) # NULL => key[r] <= Successor(r)
    BY <1>1, <1>2, <1>3, <1>4, <2>1 DEF GoesRight, KeyIsAfterNode
  <2>3. Ordered!Smallest(Successor(r), {m \in Linked(0) : key[r] <= m})
    <3>1. \A m \in Linked(0) : key[r] <= m => Successor(r) # NULL /\ Successor(r) <= m
      BY <1>2, <1>3, <2>1
    <3> QED BY <1>2, <2>2, <3>1 DEF Ordered!Smallest
  <2> QED BY <2>1, <2>3 DEF Ordered!Answers
<1>5. CASE pc[r] = "FindLessThan"
  <2>1. /\ Asking[r] = <<"Prev">> /\ key[r] = node_[r] /\ x[r] < key[r]
        /\ Found(r) = IF x[r] = head_ THEN NULL ELSE x[r]
        /\ key[r] \in Nat
    BY <1>1, <1>5, NodeFacts DEF Asking, Found, IInv, SearchInv, TypeOK
  <2>2. Successor(r) # NULL => key[r] <= Successor(r)
    BY <1>1, <1>2, <1>3, <1>5, <2>1 DEF GoesRight, KeyIsAfterNode
  <2>3. \A m \in Linked(0) : m < key[r] => m <= x[r]
    BY <1>2, <1>3, <2>1, <2>2
  <2>4. Ordered!Greatest(Found(r), {m \in Linked(0) : m < node_[r]})
    <3>1. CASE x[r] = head_
      <4>1. {m \in Linked(0) : m < node_[r]} = {}
        BY <1>3, <2>1, <2>3, <3>1 DEF head_
      <4> QED BY <2>1, <3>1, <4>1 DEF Ordered!Greatest
    <3>2. CASE x[r] # head_
      BY <1>2, <2>1, <2>3, <3>2 DEF Ordered!Greatest
    <3> QED BY <3>1, <3>2
  <2> QED BY <2>1, <2>4 DEF Ordered!Answers
<1>6. CASE pc[r] = "FindLast"
  <2>1. /\ Asking[r] = <<"SeekToLast">> /\ Successor(r) = NULL
        /\ Found(r) = IF x[r] = head_ THEN NULL ELSE x[r]
    BY <1>1, <1>6 DEF Asking, Found, GoesRight
  <2>2. \A m \in Linked(0) : m <= x[r]
    BY <1>2, <1>3, <2>1
  <2>3. Ordered!Greatest(Found(r), Linked(0))
    <3>1. CASE x[r] = head_
      <4>1. Linked(0) = {}
        BY <1>3, <2>2, <3>1 DEF head_
      <4> QED BY <2>1, <3>1, <4>1 DEF Ordered!Greatest
    <3>2. CASE x[r] # head_
      BY <1>2, <2>1, <2>2, <3>2 DEF Ordered!Greatest
    <3> QED BY <3>1, <3>2
  <2> QED BY <2>1, <2>3 DEF Ordered!Answers
<1> QED BY <1>1, <1>4, <1>5, <1>6 DEF Searches

LEMMA LoadAnswers ==
  ASSUME IInv, NEW r \in Readers, pc[r] = "Load"
  PROVE  Ordered!Answers(next_[key[r]][0], Asking[r], node_[r])
<1> DEFINE n == next_[key[r]][0]
<1>1. /\ key[r] \in Nat /\ n \in Linked(0) \cup {NULL}
      /\ \A m \in Linked(0) : key[r] < m => n # NULL /\ n <= m
      /\ n # NULL => key[r] < n
  BY LoadFacts, NodeFacts
<1>2. CASE key[r] = head_
  <2>1. Asking[r] = <<"SeekToFirst">>
    BY <1>2 DEF Asking
  <2>2. \A m \in Linked(0) : key[r] < m
    BY <1>2, LinkedKeys, NodeFacts DEF head_
  <2>3. Ordered!Smallest(n, Linked(0))
    BY <1>1, <2>2 DEF Ordered!Smallest
  <2> QED BY <2>1, <2>3 DEF Ordered!Answers
<1>3. CASE key[r] # head_
  <2>1. Asking[r] = <<"Next">> /\ key[r] = node_[r]
    BY <1>3 DEF Asking, IInv, SearchInv
  <2>2. Ordered!Smallest(n, {m \in Linked(0) : node_[r] < m})
    BY <1>1, <2>1 DEF Ordered!Smallest
  <2> QED BY <2>1, <2>2 DEF Ordered!Answers
<1> QED BY <1>2, <1>3

LEMMA ReaderRefines ==
  ASSUME IInv, NEW r \in Readers, ReaderStep(r)
  PROVE  [Ordered!Next]_(Ordered!asvars)
<1>1. CASE Right(r) \/ Down(r)
  <2>1. pc' = pc /\ key' = key /\ next_' = next_ /\ node_' = node_
    BY <1>1 DEF Right, Down, list
  <2>2. Linked(0)' = Linked(0) /\ Asking' = Asking
    BY <2>1, LinkedSame, AskingSame
  <2> QED BY <2>1, <2>2 DEF Ordered!asvars
<1>2. CASE SearchEnds(r)
  <2>1. AtBottom(r) /\ Return(r, Found(r)) /\ pc[r] # "idle"
    BY <1>2 DEF SearchEnds, AtBottom, Searches
  <2>2. Ordered!Answer(r)
    BY <2>1, FoundFacts, SearchAnswers, ReturnRefines
  <2> QED BY <2>2 DEF Ordered!Next
<1>3. CASE Load(r)
  <2>1. pc[r] = "Load" /\ Return(r, next_[key[r]][0]) /\ pc[r] # "idle"
    BY <1>3 DEF Load
  <2>2. Ordered!Answer(r)
    BY <2>1, LoadFacts, LoadAnswers, ReturnRefines
  <2> QED BY <2>2 DEF Ordered!Next
<1> QED BY <1>1, <1>2, <1>3 DEF ReaderStep

LEMMA NextRefines == IInv /\ [Next]_vars => [Ordered!Next]_(Ordered!asvars)
<1> SUFFICES ASSUME IInv, [Next]_vars PROVE [Ordered!Next]_(Ordered!asvars)
  OBVIOUS
<1>1. CASE WriterStep \/ \E k \in Keys : Insert(k)
  BY <1>1, WriterRefines
<1>2. ASSUME NEW r \in Readers, ReaderStep(r) PROVE [Ordered!Next]_(Ordered!asvars)
  BY <1>2, ReaderRefines
<1>3. ASSUME NEW r \in Readers, ReaderCall(r) PROVE [Ordered!Next]_(Ordered!asvars)
  BY <1>3, CallRefines DEF Ordered!Next
<1>4. CASE UNCHANGED vars
  <2>1. pc' = pc /\ key' = key /\ next_' = next_ /\ node_' = node_
    BY <1>4 DEF vars, list, search
  <2>2. Linked(0)' = Linked(0) /\ Asking' = Asking
    BY <2>1, LinkedSame, AskingSame
  <2> QED BY <2>1, <2>2 DEF Ordered!asvars
<1> QED BY <1>1, <1>2, <1>3, <1>4 DEF Next

LEMMA InitRefines == Init => Ordered!Init
<1> SUFFICES ASSUME Init PROVE Ordered!Init
  OBVIOUS
<1>1. Linked(0) = {}
  BY NodeFacts DEF Init, Linked
<1>2. Asking = [r \in Readers |-> Ordered!NoCall]
  BY NodeFacts DEF Init, Asking, Ordered!NoCall
<1> QED BY <1>1, <1>2 DEF Init, Ordered!Init

\* Readers beside an insertion are linearizable: every call of an iterator
\* answers exactly for the contents of the list at one moment of the call.
THEOREM Linearizable == Spec => AnswersExactly
<1>1. Spec => Ordered!Spec
  BY InitRefines, NextRefines, Inductive, PTL DEF Spec, Ordered!Spec
<1> QED BY <1>1 DEF AnswersExactly
=============================================================================
