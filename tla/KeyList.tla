------------------------------ MODULE KeyList ------------------------------
(***************************************************************************)
(* The list kept in order of its keys (keylist.c): an array that grows and  *)
(* shrinks by chunks, searched by halving.  Its nodes are <<key, data>>.    *)
(***************************************************************************)
EXTENDS Integers, Sequences, SequencesExt

CONSTANTS
  Keys,       \* the keys, numbers
  MaxCount,   \* bound: nodes in the list
  CHUNK       \* what the array grows and shrinks by, 8 in the code
ASSUME KeyListAssumption == Keys \subseteq Int /\ MaxCount \in Nat /\ CHUNK \in Nat \ {0}

VARIABLES
  nodes,      \* the nodes in their order
  size        \* what the array has room for
keyVars == <<nodes, size>>

\* A full array grows by a chunk, one with more than a chunk to spare shrinks by one.
CheckArraySize(count, room) ==
  IF count = room THEN room + CHUNK
  ELSE IF room > CHUNK /\ count < room - CHUNK THEN room - CHUNK ELSE room

\* Mutant: the upper half is searched from the middle on, and the place found is before it.
FindIndex_before(list, key) ==
  LET count == Len(SelectSeq(list, LAMBDA node : node[1] < key))
  IN  [found |-> \E n \in DOMAIN list : list[n][1] = key,
       index |-> IF count = 0 THEN 0 ELSE count - 1]

\* One round of the search: <<left, right, index, done>>, places counted from 0.
Halved(list, key, at) ==
  LET index == (at[1] + at[2]) \div 2
      here  == list[index + 1][1]
      left  == IF key < here THEN at[1] ELSE index + 1
      right == IF key < here THEN index - 1 ELSE at[2]
  IN  IF at[4] THEN at ELSE <<left, right, index, key = here \/ left > right>>

\* The rounds: there are never more of them than nodes.
Search(list, key) ==
  LET after[n \in 0 .. Len(list)] ==
        IF n = 0 THEN <<0, Len(list) - 1, 0, FALSE>> ELSE Halved(list, key, after[n - 1])
  IN  after[Len(list)]

FindIndex(list, key) ==
  LET index == Search(list, key)[3]
      here  == list[index + 1][1]
  IN  IF list = << >> THEN [found |-> FALSE, index |-> 0]
      ELSE [found |-> key = here, index |-> IF key > here THEN index + 1 ELSE index]

KeyInit == nodes = << >> /\ size = CHUNK

\* A key that is there already is put before the one that was found.
Keylist_Data_Add(key) ==
  LET index == FindIndex(nodes, key).index
  IN  /\ Len(nodes) < MaxCount
      /\ size' = CheckArraySize(Len(nodes), size)
      /\ nodes' = InsertAt(nodes, index + 1, <<key, Len(nodes)>>)

\* Places are counted from 0; the array is looked at again once the node is gone.
Keylist_Data_Delete_By_Index(index) ==
  /\ index + 1 \in DOMAIN nodes
  /\ nodes' = RemoveAt(nodes, index + 1)
  /\ size' = CheckArraySize(Len(nodes) - 1, size)

Keylist_Data_Delete(key) ==
  /\ FindIndex(nodes, key).found
  /\ Keylist_Data_Delete_By_Index(FindIndex(nodes, key).index)

Keylist_Data_Pop == Keylist_Data_Delete_By_Index(Len(nodes) - 1)

Keylist_Data(key)  == IF FindIndex(nodes, key).found THEN nodes[FindIndex(nodes, key).index + 1][2]
                      ELSE -1
Keylist_Index(key) == IF FindIndex(nodes, key).found THEN FindIndex(nodes, key).index ELSE -1
Keylist_Data_Index(index) == IF index + 1 \in DOMAIN nodes THEN nodes[index + 1][2] ELSE -1
Keylist_Key(index)        == IF index + 1 \in DOMAIN nodes THEN nodes[index + 1][1] ELSE 0

\* The last key of a type is never recognised: masked, a key is never as large as its limit.
Keylist_Next_Empty_Key(key) ==
  CHOOSE free \in key..(key + Len(nodes)) :
    /\ ~FindIndex(nodes, free).found
    /\ \A below \in key..(free - 1) : FindIndex(nodes, below).found

KeyNext ==
  \/ \E key \in Keys : Keylist_Data_Add(key) \/ Keylist_Data_Delete(key)
  \/ \E index \in 0..MaxCount : Keylist_Data_Delete_By_Index(index)
  \/ Keylist_Data_Pop

KeySpec == KeyInit /\ [][KeyNext]_keyVars

-----------------------------------------------------------------------------
(***************************************************************************)
(* Whatever is added and taken away, with keys that come twice: the search  *)
(* by halving finds exactly the keys that are there, at a node that has     *)
(* them, and all of the list fits into its array.  It relies on an order    *)
(* that only the place the search itself gave keeps up.                    *)
(***************************************************************************)
FoundWhereItIs ==
  /\ Len(nodes) <= size
  /\ \A key \in Keys :
       /\ Keylist_Index(key) # -1 <=> \E n \in DOMAIN nodes : nodes[n][1] = key
       /\ Keylist_Index(key) # -1 =>
            /\ Keylist_Key(Keylist_Index(key)) = key
            /\ Keylist_Data(key) = Keylist_Data_Index(Keylist_Index(key))
       /\ Keylist_Index(Keylist_Next_Empty_Key(key)) = -1
=============================================================================
