---------------------------- MODULE AtomicWrites ----------------------------
(***************************************************************************)
(* What DB::Write promises to callers that run concurrently, without queue, *)
(* log, memtables or background work: a batch becomes visible to readers   *)
(* all at once, at some moment between call and return, with sequence      *)
(* numbers above those of every write that was visible before; a call that *)
(* returns OK is visible, a call that returns an error is not; nothing     *)
(* that is visible ever disappears.                                        *)
(***************************************************************************)
EXTENDS Integers, FiniteSets

CONSTANTS
  Call,     \* the Write() calls
  Batches   \* the batches they may pass: a number of operations, or -1 for NULL

VARIABLES
  phase,    \* each call: "new", "open", "ok" or "error"
  size,     \* its batch
  visible   \* the entries [seq, w, i] a reader that starts now can see

vars == <<phase, size, visible>>

Init ==
  /\ phase = [c \in Call |-> "new"]
  /\ size = [c \in Call |-> -1]
  /\ visible = {}

Begin(c) ==
  /\ phase[c] = "new"
  /\ phase' = [phase EXCEPT ![c] = "open"]
  /\ \E b \in Batches : size' = [size EXCEPT ![c] = b]
  /\ UNCHANGED visible

\* The operations of call c among a set of entries.
OpsOf(entries, c) == {e.i : e \in {x \in entries : x.w = c}}

\* Some open calls become visible together, each whole and for the first time.
Commit ==
  /\ visible \subseteq visible'
  /\ LET new == visible' \ visible
         calls == {e.w : e \in new}
     IN  /\ new # {}
         /\ \A c \in calls :
              /\ phase[c] = "open"
              /\ OpsOf(visible, c) = {}
              /\ OpsOf(new, c) = 1..size[c]
         /\ \A e, f \in new :
              /\ e.seq = f.seq => e = f
              /\ e.w = f.w => e.seq - f.seq = e.i - f.i
         /\ \A e \in visible, f \in new : e.seq < f.seq
  /\ UNCHANGED <<phase, size>>

Return(c) ==
  /\ phase[c] = "open"
  /\ \/ /\ OpsOf(visible, c) = 1..size[c]
        /\ phase' = [phase EXCEPT ![c] = "ok"]
     \/ /\ OpsOf(visible, c) = {}
        /\ phase' = [phase EXCEPT ![c] = "error"]
  /\ UNCHANGED <<size, visible>>

Next ==
  \/ \E c \in Call : Begin(c) \/ Return(c)
  \/ Commit

Spec == Init /\ [][Next]_vars
=============================================================================
