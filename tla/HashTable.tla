------------------------------- MODULE HashTable -------------------------------
(***************************************************************************)
(* The hash table of jshashtable-2.1_src.js: buckets in a list and, by     *)
(* their hash, in an object.  Two tables, as putAll and clone need them.   *)
(*                                                                         *)
(* One hash, "__proto__", is no name that an object can forget: delete     *)
(* leaves the bucket where it is found, while the list has lost it.        *)
(***************************************************************************)
EXTENDS Naturals, Sequences, FiniteSets, SequencesExt

CONSTANTS
  HashKeys,           \* the objects used as keys
  ClassOf, HashOf,    \* what equals compares, and the hash, of a key
  ProtoHash,          \* "__proto__"
  HashValues, Falsy,  \* values, and the one that is false in a condition
  NoValue,            \* null
  MaxHashSteps        \* bound: calls

ASSUME HashContract == \A k, l \in HashKeys : ClassOf[k] = ClassOf[l] => HashOf[k] = HashOf[l]

VARIABLE tables
tableVars == <<tables>>

HashNames == Range(HashOf)
KeyClasses == Range(ClassOf)
Tables == {1, 2}

NewTable == [listed |-> <<>>, known |-> {}, bucket |-> [h \in HashNames |-> <<>>],
             lost |-> FALSE,                          \* history: see HashTruthful
             put |-> [c \in KeyClasses |-> NoValue]]  \* history: a map

HashInit == tables = [t |-> [i \in Tables |-> NewTable], steps |-> 0]

-----------------------------------------------------------------------------
EntryAt(t, k) ==
  IF HashOf[k] \notin t.known THEN 0
  ELSE SelectLastInSeq(t.bucket[HashOf[k]], LAMBDA e : ClassOf[e.key] = ClassOf[k])

HashGet(t, k) == IF EntryAt(t, k) = 0 THEN NoValue ELSE t.bucket[HashOf[k]][EntryAt(t, k)].value
HasKey(t, k) == EntryAt(t, k) # 0

(* entries, keys and values: the last bucket first.                        *)
HashEntries(t) == FlattenSeq([i \in DOMAIN t.listed |-> t.bucket[t.listed[Len(t.listed) + 1 - i]]])
HasValue(t, v) == \E i \in DOMAIN HashEntries(t) : HashEntries(t)[i].value = v
HashSize(t) == FoldLeft(LAMBDA n, h : n + Len(t.bucket[h]), 0, t.listed)
HashIsEmpty(t) == t.listed = <<>>

HashPut(t, k, v) ==
  LET h == HashOf[k]
      i == EntryAt(t, k)
      d == [t EXCEPT !.put[ClassOf[k]] = v]
  IN IF h \notin t.known
       THEN [d EXCEPT !.listed = Append(@, h), !.known = @ \cup {h},
                      !.bucket[h] = <<[key |-> k, value |-> v]>>]
     ELSE IF i # 0 THEN [d EXCEPT !.bucket[h][i].value = v]
     ELSE [d EXCEPT !.bucket[h] = Append(@, [key |-> k, value |-> v])]

(* A bucket that the list does not have is looked for in vain, and         *)
(* splice(null, 1) takes the first of the list.                            *)
HashRemove(t, k) ==
  LET h == HashOf[k]
      rest == RemoveAt(t.bucket[h], EntryAt(t, k))
      d == [t EXCEPT !.put[ClassOf[k]] = NoValue, !.bucket[h] = rest]
  IN IF EntryAt(t, k) = 0 THEN t
     ELSE IF rest # <<>> THEN d
     ELSE [d EXCEPT !.listed = IF h \in Range(@) THEN SelectSeq(@, LAMBDA g : g # h)
                               ELSE SubSeq(@, 2, Len(@)),
                    !.known = IF h = ProtoHash THEN @ ELSE @ \ {h},
                    !.lost = @ \/ h = ProtoHash]

(* The callback for conflicts, where there is one, keeps the old value.    *)
HashPutAll(t, from, keeps) ==
  FoldLeft(LAMBDA d, e : HashPut(d, e.key, IF keeps /\ HashGet(d, e.key) \notin {NoValue, Falsy}
                                             THEN HashGet(d, e.key) ELSE e.value),
           t, Reverse(HashEntries(from)))

-----------------------------------------------------------------------------
(* What a map would hold after all of another was put into it.             *)
Merged(t, from, keeps) ==
  [c \in KeyClasses |->
     IF from.put[c] = NoValue \/ (keeps /\ t.put[c] \notin {NoValue, Falsy}) THEN t.put[c]
     ELSE from.put[c]]
PutAllOf(t, from, keeps) ==
  LET d == HashPutAll(t, from, keeps)
  IN IF from.lost THEN d ELSE [d EXCEPT !.put = Merged(t, from, keeps)]

HashStep(i, t) ==
  /\ tables.steps < MaxHashSteps
  /\ tables' = [tables EXCEPT !.t[i] = t, !.steps = @ + 1]

PutsKey(i, k, v) == HashStep(i, HashPut(tables.t[i], k, v))
RemovesKey(i, k) == HashStep(i, HashRemove(tables.t[i], k))
ClearsTable(i) == HashStep(i, NewTable)
PutsAll(i, j, keeps) == HashStep(i, PutAllOf(tables.t[i], tables.t[j], keeps))
ClonesTable == HashStep(2, PutAllOf(NewTable, tables.t[1], FALSE))

HashNext ==
  \/ \E i \in Tables, k \in HashKeys : RemovesKey(i, k) \/ \E v \in HashValues : PutsKey(i, k, v)
  \/ \E i, j \in Tables, keeps \in BOOLEAN : PutsAll(i, j, keeps)
  \/ \E i \in Tables : ClearsTable(i)
  \/ ClonesTable

-----------------------------------------------------------------------------
(* A table finds the value last put under a key, by itself or with all of  *)
(* another table.  Its size, its entries and whether it is empty agree     *)
(* with that, unless the bucket of "__proto__" was once emptied: from then *)
(* on entries can be found that are not listed, and removing one of them   *)
(* unlists another.                                                        *)
HashTruthful ==
  \A i \in Tables :
    LET t == tables.t[i]
        keys == {k \in HashKeys : t.put[ClassOf[k]] # NoValue}
        have == {ClassOf[k] : k \in keys}
        lines == HashEntries(t)
    IN /\ \A k \in HashKeys : HashGet(t, k) = t.put[ClassOf[k]] /\ (HasKey(t, k) <=> k \in keys)
       /\ ~t.lost =>
            /\ HashSize(t) = Cardinality(have) /\ Len(lines) = HashSize(t)
            /\ {ClassOf[lines[j].key] : j \in DOMAIN lines} = have
            /\ HashIsEmpty(t) <=> have = {}
            /\ \A v \in HashValues : HasValue(t, v) <=> \E c \in KeyClasses : t.put[c] = v
=============================================================================
