--------------------------- MODULE MCTableBuilder ---------------------------
(* Instances of TableBuilder for TLC.                                      *)
EXTENDS TableBuilder

InternalKey(user, seq) == user \o <<1, seq, 0, 0, 0, 0, 0, 0>>

\* One user key twice, one that cannot be increased, and one that extends that.
SmallKeys == {InternalKey(<<1, 3, 7>>, 2), InternalKey(<<1, 3, 7>>, 1),
              InternalKey(<<255>>, 3), InternalKey(<<255, 255>>, 1)}

\* The length of the long one takes two bytes.
SmallValues == {<<>>, [i \in 1 .. 130 |-> i]}

\* Blocks of one entry and of several; restarts at every and at every second key.
SmallOptions ==
  {[block_size |-> 30, block_restart_interval |-> 1, filter_policy |-> TRUE],
   [block_size |-> 60, block_restart_interval |-> 2, filter_policy |-> TRUE],
   [block_size |-> 60, block_restart_interval |-> 2, filter_policy |-> FALSE]}

MetaKey == <<102>>

\* Stands for Hash(): some number of less than 30 bits for every key.
SomeHash(key) == FoldLeft(LAMBDA v, b : (v % 2 ^ 14) * 40503 + b, 0, key)
=============================================================================
