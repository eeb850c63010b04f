--------------------------- MODULE SnapshotCursor ---------------------------
(***************************************************************************)
(* What an Iterator of a DB promises: a cursor over the sorted map that    *)
(* the snapshot shows.  The map does not change while the iterator lives;  *)
(* a call takes some time and then shows the entry it is about, or none.   *)
(* One thing may go wrong, and no more: a Next() may slip, and then it     *)
(* shows the entry that was shown before it.                               *)
(***************************************************************************)
EXTENDS Integers

CONSTANTS
  Key,    \* the user keys: positive numbers
  Value   \* the values

VARIABLES
  view,   \* the map: a function from some of the keys to values
  call,   \* the call that is running: [op, arg]; op is "idle" between calls
  shown,  \* the key and the value shown: a set of at most one [key, value]
  slip    \* the Next() that is running has slipped

vars == <<view, call, shown, slip>>

Idle == [op |-> "idle", arg |-> 0]
\* Next() and Prev() require Valid().
Calls ==
  {[op |-> o, arg |-> 0] : o \in {"first", "last"}} \cup
  {[op |-> "seek", arg |-> k] : k \in Key} \cup
  {[op |-> o, arg |-> 0] : o \in IF shown = {} THEN {} ELSE {"next", "prev"}}

Init ==
  /\ view \in UNION {[K -> Value] : K \in SUBSET Key}
  /\ call = Idle
  /\ shown = {}
  /\ slip = FALSE

Begin ==
  /\ call = Idle
  /\ call' \in Calls
  /\ UNCHANGED <<view, shown, slip>>

Slip ==
  /\ call.op = "next"
  /\ slip' = TRUE
  /\ UNCHANGED <<view, call, shown>>

\* The keys among which the call chooses the least or the largest.
Above(k) == {x \in DOMAIN view : x > k}
Below(k) == {x \in DOMAIN view : x < k}
Least(S) == {x \in S : \A y \in S : x <= y}
Largest(S) == {x \in S : \A y \in S : x >= y}
Target ==
  CASE call.op = "first" -> Least(DOMAIN view)
    [] call.op = "last" -> Largest(DOMAIN view)
    [] call.op = "seek" -> Least(Above(call.arg - 1))
    [] call.op = "next" -> UNION {Least(Above(s.key)) : s \in shown}
    [] OTHER -> UNION {Largest(Below(s.key)) : s \in shown}

Return ==
  /\ call # Idle
  /\ call' = Idle
  /\ shown' = IF slip THEN shown
              ELSE {[key |-> k, value |-> view[k]] : k \in Target}
  /\ slip' = FALSE
  /\ UNCHANGED view

Next == Begin \/ Slip \/ Return

Spec == Init /\ [][Next]_vars
=============================================================================
