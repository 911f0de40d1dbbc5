---------------------------- MODULE TreeLeaves ----------------------------
(***************************************************************************)
(* The reference meaning of a hash tree: the data handles found by walking *)
(* key block r of a metadata store from left to right.  The recursion is   *)
(* well founded because a key block only points to earlier ones            *)
(* (HashTree!TreeLinks).                                                   *)
(***************************************************************************)
EXTENDS Naturals, SequencesExt

Leaves(store, r) ==
    LET L[i \in 1..Len(store)] ==
            IF store[i].depth = 0
              THEN store[i].keys
              ELSE FlattenSeq([j \in 1..Len(store[i].keys) |->
                                 L[store[i].keys[j]]])
    IN L[r]
=============================================================================
