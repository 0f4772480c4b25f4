------------------------------- MODULE HashMap -------------------------------
(***************************************************************************)
(* The maps from strings to integers of the virtual machine                *)
(* (aivm_vm_map.c): open addressing with linear probing.  A map is         *)
(* [slots, count, frozen]; a slot is <<>> when free, else <<key, value>>.  *)
(* The hash of a key is a parameter.                                       *)
(***************************************************************************)
EXTENDS Integers, SequencesExt, FiniteSetsExt

CONSTANTS MapSlots,     \* slots of a new map
          MapCapacity,  \* AIVM_VM_MAP_CAPACITY
          Hash(_)       \* map_hash_string

ASSUME MapSizes == MapSlots \in Nat \ {0} /\ MapCapacity \in Nat \ {0}

Free(capacity) == [i \in 1..capacity |-> <<>>]

\* the first slot, from the key's own on, that is free or holds the key
map_slot_for(slots, key) ==
    LET capacity == Len(slots)
        At(k) == ((Hash(key) + k) % capacity) + 1
        found == {k \in 0..(capacity - 1) : slots[At(k)] = <<>> \/ slots[At(k)][1] = key}
    IN  At(Min(found))

Move(slots, entry) ==
    IF entry = <<>> THEN slots ELSE [slots EXCEPT ![map_slot_for(slots, entry[1])] = entry]

\* every entry goes to its place among the new slots
map_resize(map, capacity) ==
    [map EXCEPT !.slots = FoldLeft(Move, Free(capacity), map.slots)]

NewMap == [slots |-> Free(MapSlots), count |-> 0, frozen |-> FALSE]

\* whether one more entry would fill seven tenths of the slots
Crowding(map) == (map.count + 1) * 10 >= Len(map.slots) * 7

Put(map, key, value) ==
    LET slot == map_slot_for(map.slots, key)
    IN  [map EXCEPT !.slots[slot] = <<key, value>>,
                    !.count = IF map.slots[slot] = <<>> THEN @ + 1 ELSE @]

\* <<value>>, or <<>> when the key is not there
Get(map, key) ==
    LET entry == map.slots[map_slot_for(map.slots, key)] IN IF entry = <<>> THEN <<>> ELSE <<entry[2]>>

Entries(map) == {map.slots[i] : i \in 1..Len(map.slots)} \ {<<>>}

=============================================================================
