----------------------------- MODULE BlockStore -----------------------------
(***************************************************************************)
(* What a block store promises (include/chop/stores.h), whatever lies      *)
(* between the caller and the medium: a partial function from keys to      *)
(* blocks, and one operation on it at a time.  A write that returns 0 has  *)
(* put the block it was given under its key, one that fails has changed    *)
(* nothing, and a read that returns 0 returns what its key maps to.        *)
(* Between operations a block may go: deleted, or spoilt by the medium.    *)
(***************************************************************************)
CONSTANTS Key, Block, None

VARIABLES
    blocks,     \* blocks[k]: the block stored under k, or None
    op,         \* the operation under way: its name, its key, and its block
    ret         \* the operation that returned last, and whether it returned 0

vars == <<blocks, op, ret>>

NoOp == [name |-> "none", key |-> None, block |-> None]
Writing(k, b) == [name |-> "write", key |-> k, block |-> b]
Reading(k) == [name |-> "read", key |-> k, block |-> None]

Init ==
    /\ blocks = [k \in Key |-> None]
    /\ op = NoOp
    /\ ret = [op |-> NoOp, ok |-> TRUE]

Begins(o) ==
    /\ op = NoOp /\ op' = o
    /\ UNCHANGED <<blocks, ret>>

Returns(o, ok) ==
    /\ op' = NoOp
    /\ ret' = [op |-> o, ok |-> ok]

(* The block of the write's caller, and no other, is now under its key. *)
Write ==
    /\ op.name = "write"
    /\ blocks' = [blocks EXCEPT ![op.key] = op.block]
    /\ Returns(op, TRUE)

Read ==
    /\ op.name = "read" /\ blocks[op.key] # None
    /\ Returns([op EXCEPT !.block = blocks[op.key]], TRUE)
    /\ UNCHANGED blocks

Fails ==
    /\ op # NoOp
    /\ Returns(op, FALSE)
    /\ UNCHANGED blocks

(* A read fails before it has begun. *)
Refuses(k) ==
    /\ op = NoOp
    /\ Returns(Reading(k), FALSE)
    /\ UNCHANGED blocks

Remove(k) ==
    /\ op = NoOp
    /\ blocks' = [blocks EXCEPT ![k] = None]
    /\ UNCHANGED <<op, ret>>

Next ==
    \/ \E k \in Key : \/ Begins(Reading(k)) \/ Refuses(k) \/ Remove(k)
                      \/ \E b \in Block : Begins(Writing(k, b))
    \/ Write \/ Read \/ Fails

Spec == Init /\ [][Next]_vars
=============================================================================
