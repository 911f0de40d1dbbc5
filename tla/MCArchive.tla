----------------------------- MODULE MCArchive -----------------------------
(***************************************************************************)
(* Two default GDBM files, for data and meta-data; and a Berkeley DB file  *)
(* and a QDBM file for both.  The converter copies GDBM data to Berkeley   *)
(* DB, and from there to QDBM.                                             *)
(***************************************************************************)
EXTENDS ArchiveTools

CONSTANTS a, b, g1, g2, b1, q1

MCClassOf ==
  [f \in File |-> IF f = b1 THEN "bdb" ELSE IF f = q1 THEN "qdbm" ELSE "gdbm"]

TwoFiles == [role \in Role |-> IF role = "data" THEN g1 ELSE g2]
OneFile(f) == [role \in Role |-> f]

MCDocument == {<<a, a>>, <<b>>}

\* Proxies, for each of which closing reaches the file in another way.
Proxies ==
  {[smart |-> TRUE, stats |-> TRUE, verbose |-> FALSE],
   [smart |-> FALSE, stats |-> TRUE, verbose |-> FALSE],
   [smart |-> FALSE, stats |-> FALSE, verbose |-> TRUE]}

\* The integer indexer starts where its numbers wrap around.
MCOpts(place, x, zip, indexer) ==
  [place |-> place, smart |-> x.smart, stats |-> x.stats, verbose |-> x.verbose,
   zip |-> zip, indexer |-> indexer,
   first |-> IF indexer = "integer" THEN IdSpace - 2 ELSE 0]

MCArchiveOpts ==
  {MCOpts(TwoFiles, x, TRUE, "hash") : x \in {y \in Proxies : y.smart \/ y.verbose}}
    \cup {MCOpts(TwoFiles, x, TRUE, indexer) :
           x \in {y \in Proxies : y.verbose}, indexer \in {"integer", "uuid", "unknown"}}
    \cup {MCOpts(TwoFiles, x, FALSE, indexer) :
           x \in {y \in Proxies : y.smart}, indexer \in {"hash", "chk"}}
    \cup {MCOpts(OneFile(b1), x, FALSE, "hash") : x \in {y \in Proxies : y.stats}}
    \cup {MCOpts(OneFile(q1), x, FALSE, "hash") : x \in {y \in Proxies : y.smart}}

MCRestoreOpts ==
  {MCOpts(TwoFiles, x, TRUE, "hash") : x \in {y \in Proxies : y.verbose}}

MCConvertPair == {<<g1, b1>>, <<b1, q1>>}
=============================================================================
