---------------------------- MODULE StoreConvert ----------------------------
(***************************************************************************)
(* The chop-store-convert tool: it iterates over the keys of one data base *)
(* file, reads each block and writes it to another file, which may be of   *)
(* another class and may hold blocks already.                              *)
(***************************************************************************)
EXTENDS Archiver

CONSTANT ConvertPair   \* pairs <<source, destination>> of files

ASSUME ConvertAssumption == ConvertPair \subseteq File \X File

VARIABLE
  keys   \* the keys the iterator has still to visit

toolVars == <<archiverVars, keys>>

source == opts.place["data"]
dest == opts.place["metadata"]

StartConvert(pair) ==
  /\ Start([NoOpts EXCEPT !.place = [role \in Role |->
                IF role = "data" THEN pair[1] ELSE pair[2]]], {pair[1], pair[2]})
  /\ job' = [NoProcess EXCEPT !.cmd = "convert", !.pc = "copy"]
  /\ keys' = DOMAIN disk[pair[1]]
  /\ damaged' = IF pair[1] \in damaged THEN damaged \cup {pair[2]} ELSE damaged
  /\ forms' = [forms EXCEPT ![pair[2]] = @ \cup forms[pair[1]]]
  /\ archived' = IF HasIntegers(pair[1]) THEN Disturbed({pair[2]}) ELSE archived

ConvertStep == UNCHANGED <<opts, stats, archived, damaged, forms, fresh, sessions>>

\* The library's order of the keys is arbitrary, but always the same.
NextKey == CHOOSE k \in keys : TRUE

FaultyVisited == {k \in keys : FALSE}

Visited == keys \ {NextKey}

CopyBlock ==
  /\ job.pc = "copy" /\ keys # {}
  /\ NoFault
  /\ LET read == ReadBlock(source, NextKey)
     IN IF read.ok
        THEN /\ WriteBlock(dest, NextKey, read.block)
             /\ keys' = Visited
             /\ UNCHANGED job
        ELSE /\ Fails
             /\ UNCHANGED <<disk, cache, keys>>
  /\ ConvertStep

\* A read or a write fails.
CopyFails ==
  /\ job.pc = "copy" /\ keys # {}
  /\ Fault
  /\ Fails
  /\ UNCHANGED <<disk, cache, keys>>
  /\ ConvertStep

\* The library fails to find the next key.  Berkeley DB says so; with the
\* others this is how the iteration ends.  lost is history.
IteratorFails ==
  /\ job.pc = "copy" /\ keys # {}
  /\ Fault
  /\ IF ClassOf[source] = "bdb"
     THEN Fails /\ UNCHANGED keys
     ELSE job' = [job EXCEPT !.lost = TRUE] /\ keys' = {}
  /\ UNCHANGED <<disk, cache>>
  /\ ConvertStep

EndOfStore ==
  /\ job.pc = "copy" /\ keys = {}
  /\ job' = [job EXCEPT !.pc = "leave"]
  /\ NoFault
  /\ UNCHANGED <<disk, cache, keys>>
  /\ ConvertStep

\* Both stores are closed, and what that returns is not looked at.
ConvertLeave ==
  /\ job.cmd = "convert" /\ job.pc = "leave"
  /\ job' = [job EXCEPT !.pc = "close",
               !.ends = <<Closing(source, FALSE, FALSE), Closing(dest, FALSE, FALSE)>>]
  /\ keys' = {}
  /\ UNCHANGED dbVars
  /\ ConvertStep

ConvertNext ==
  \/ \E pair \in ConvertPair : StartConvert(pair)
  \/ CopyBlock \/ CopyFails \/ IteratorFails \/ EndOfStore \/ ConvertLeave
=============================================================================
