----------------------------- MODULE MCFilters -----------------------------
EXTENDS FilterClients

Text(s) == [i \in 1..Len(s) |-> Letter(s[i])]

(* Shorter than, as long as and longer than the input buffer, and empty.   *)
SomeBlocks == {Text(<<>>), Text(<<1>>), Text(<<2, 3, 4, 5>>)}
SomeSources == {Text(<<>>), Text(<<1, 2, 3>>), Text(<<1, 2, 3, 4, 5, 6, 7>>)}
=============================================================================
