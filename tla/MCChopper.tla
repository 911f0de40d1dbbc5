----------------------------- MODULE MCChopper -----------------------------
EXTENDS Chopper

(* Every input of up to seven bytes over an alphabet with a zero byte: with *)
(* windows of two bytes it holds up to three reloads and every placement of *)
(* anchors. *)
Alphabet == {0, 1, 3}
AllInputs == UNION {[1..n -> Alphabet] : n \in 0..7}
=============================================================================
