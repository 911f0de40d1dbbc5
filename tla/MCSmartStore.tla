---------------------------- MODULE MCSmartStore ----------------------------
(***************************************************************************)
(* Instances of SmartStore: keys of one sub-directory, and the sizes and   *)
(* contents the runs use.                                                  *)
(***************************************************************************)
EXTENDS SmartStore

CONSTANTS k1, v1, v2

OneDir == [k \in Key |-> "dd"]

(* Each key has its own content. *)
OwnContent == [k \in Key |-> IF k = k1 THEN {v1} ELSE {v2}]

(* Any content may be written under any key. *)
AnyContent == [k \in Key |-> Value]

TwoUnitsOrOne == [v \in Value |-> IF v = v1 THEN 2 ELSE 1]
=============================================================================
