------------------------------ MODULE MCRemote ------------------------------
(* RemoteStore with one key and two blocks, one of them empty.  Only the   *)
(* other one hashes to the key.  A server checks for collisions before it  *)
(* writes to a Berkeley DB file, or checks nothing before it writes to a   *)
(* QDBM file, or checks both collisions and hashes, with a GDBM file.      *)
EXTENDS RemoteStore, TLC

CONSTANTS k1, empty, full

HashKeys == (empty :> None) @@ (full :> k1)

ServerOptions == {[collision |-> TRUE, hash |-> FALSE, class |-> "bdb"],
                  [collision |-> FALSE, hash |-> FALSE, class |-> "qdbm"],
                  [collision |-> TRUE, hash |-> TRUE, class |-> "gdbm"]}
=============================================================================
