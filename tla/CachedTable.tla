---------------------------- MODULE CachedTable ----------------------------
(***************************************************************************)
(* What a cached copy of a table promises its readers, with any number of  *)
(* threads filling and reading it: an entry holds a value that was once    *)
(* committed to its row or is missing, and an answer is what one entry     *)
(* held at one moment.  It does not promise that the entry is recent, nor  *)
(* that two entries are of one age.                                        *)
(***************************************************************************)
CONSTANTS
  Threads,      \* who asks
  Items,        \* the rows, by key
  Values,       \* what a row may hold
  Missing       \* no entry

VARIABLES
  had,          \* the values each row has had
  cache,        \* the entry of each row
  answer        \* the last answer to each thread, or NoAnswer

NoAnswer == [item |-> Missing, value |-> Missing]

Init ==
  /\ \E table \in [Items -> Values] : had = [i \in Items |-> {table[i]}]
  /\ cache = [i \in Items |-> Missing]
  /\ answer = [t \in Threads |-> NoAnswer]

Commit(i, v) ==
  /\ had' = [had EXCEPT ![i] = @ \cup {v}]
  /\ UNCHANGED <<cache, answer>>

(* The cache starts anew.                                                  *)
Clear ==
  /\ cache' = [i \in Items |-> Missing]
  /\ UNCHANGED <<had, answer>>

(* One entry is filled; entries may be lost.                               *)
Fill(i, lost) ==
  /\ \E v \in had[i] :
       cache' = [j \in Items |-> IF j \in lost THEN Missing
                                ELSE IF j = i THEN v ELSE cache[j]]
  /\ UNCHANGED <<had, answer>>

Answer(t, i) ==
  /\ answer' = [answer EXCEPT ![t] = [item |-> i, value |-> cache[i]]]
  /\ UNCHANGED <<had, cache>>

Forget(t) ==
  /\ answer' = [answer EXCEPT ![t] = NoAnswer]
  /\ UNCHANGED <<had, cache>>

Next ==
  \/ \E i \in Items, v \in Values : Commit(i, v)
  \/ Clear
  \/ \E i \in Items, lost \in SUBSET Items : Fill(i, lost)
  \/ \E t \in Threads, i \in Items : Answer(t, i)
  \/ \E t \in Threads : Forget(t)

Spec == Init /\ [][Next]_<<had, cache, answer>>
=============================================================================
