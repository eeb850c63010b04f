----------------------------- MODULE OrderedSet -----------------------------
(***************************************************************************)
(* What SkipList<Key>::Iterator promises to a reader that runs beside the  *)
(* one inserting thread (src/db/skiplist.h:59-96): each call positions the *)
(* iterator exactly, for the contents that the list has at one moment      *)
(* between the beginning and the return of the call.                       *)
(***************************************************************************)
EXTENDS Integers

CONSTANTS Keys,      \* what can be inserted: a set of positive numbers
          Readers,   \* threads that iterate
          NULL       \* the position of an iterator that is not Valid()

VARIABLES contents,  \* the keys that have been inserted
          call,      \* what each reader is asking for
          position   \* where each reader's iterator stands

asvars == <<contents, call, position>>

NoCall == <<"none">>

\* The questions a reader may ask when its iterator stands at p.
Calls(p) == { <<"Seek", k>> : k \in Keys }
              \cup { <<"SeekToFirst">>, <<"SeekToLast">> }
              \cup { <<"Next">> : k \in {p} \ {NULL} }
              \cup { <<"Prev">> : k \in {p} \ {NULL} }

Smallest(a, S) == \/ S = {} /\ a = NULL
                  \/ a \in S /\ \A b \in S : a <= b

Greatest(a, S) == \/ S = {} /\ a = NULL
                  \/ a \in S /\ \A b \in S : b <= a

\* a answers the question c of an iterator that stands at p.
Answers(a, c, p) ==
  \/ /\ c[1] = "Seek"
     /\ Smallest(a, {k \in contents : c[2] <= k})
  \/ /\ c[1] = "SeekToFirst"
     /\ Smallest(a, contents)
  \/ /\ c[1] = "SeekToLast"
     /\ Greatest(a, contents)
  \/ /\ c[1] = "Next"
     /\ Smallest(a, {k \in contents : p < k})
  \/ /\ c[1] = "Prev"
     /\ Greatest(a, {k \in contents : k < p})

Init == /\ contents = {}
        /\ call = [r \in Readers |-> NoCall]
        /\ position = [r \in Readers |-> NULL]

Add(k) == /\ k \notin contents
          /\ contents' = contents \cup {k}
          /\ UNCHANGED <<call, position>>

Ask(r) == /\ call[r] = NoCall
          /\ \E c \in Calls(position[r]) : call' = [call EXCEPT ![r] = c]
          /\ UNCHANGED <<contents, position>>

Answer(r) == /\ call[r] # NoCall
             /\ \E a \in Keys \cup {NULL} :
                  /\ Answers(a, call[r], position[r])
                  /\ position' = [position EXCEPT ![r] = a]
             /\ call' = [call EXCEPT ![r] = NoCall]
             /\ UNCHANGED contents

Next == \/ \E k \in Keys : Add(k)
        \/ \E r \in Readers : Ask(r) \/ Answer(r)

Spec == Init /\ [][Next]_asvars
=============================================================================
