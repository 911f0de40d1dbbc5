----------------------------- MODULE StoreStack -----------------------------
(***************************************************************************)
(* The stores chop-archiver.c stacks on its data base files, for data and  *)
(* for meta-data: from the top a dummy proxy that logs (--verbose), a      *)
(* statistics store (--show-stats), a smart store (when archiving), and a  *)
(* filtered store (--zip-blocks), which has only the data unless both      *)
(* kinds of blocks share one file.                                         *)
(*                                                                         *)
(* What the proxies do to a block is in FilteredStore and SmartStore; here *)
(* is what they do together, and what closing and destroying the top store *)
(* of a stack reaches.                                                     *)
(***************************************************************************)
EXTENDS DataBase

VARIABLES
  opts,     \* the options of the running tool
  stats     \* [role -> blocks written, those counted as new, and (history) the
            \*  existing ones among these]

Role == {"data", "metadata"}

\* opts.place says which file has the data and which the meta-data.
OneStore == opts.place["data"] = opts.place["metadata"]

\* Whether a role's blocks pass through the filter.
Filtered(place, zip, role) ==
  zip /\ (role = "data" \/ place["data"] = place["metadata"])

Below(proxy, wanted) == IF wanted THEN <<proxy>> ELSE << >>

Layers(role) ==
  Below("dummy", opts.verbose) \o Below("stat", opts.stats)
    \o Below("smart", opts.smart)
    \o Below("filtered", Filtered(opts.place, opts.zip, role))

Has(role, proxy) == \E i \in DOMAIN Layers(role) : Layers(role)[i] = proxy

\* The two roles share one store object unless they have their own files or
\* statistics.
SameStore == OneStore /\ ~opts.stats

\* The second statistics store on a shared store leaves it alone
\* (CHOP_PROXY_LEAVE_AS_IS); the other proxies own what they proxy
\* (CHOP_PROXY_EVENTUALLY_DESTROY).
LeavesAsIs(role) == opts.stats /\ OneStore /\ role = "metadata"

-----------------------------------------------------------------------------
\* Compression, as the filtered store applies it.
Zip(c) == <<"zip", c[2], c>>

StoredForm(role, c) == IF Has(role, "filtered") THEN Zip(c) ELSE c

Unzip(read) ==
  IF read.ok /\ read.block[1] = "zip"
  THEN [ok |-> TRUE, block |-> read.block[3]] ELSE Unavailable

\* read_block through the stack.
StackRead(role, k) ==
  LET read == ReadBlock(opts.place[role], k)
  IN IF Has(role, "filtered") THEN Unzip(read) ELSE read

NoStats == [role \in Role |-> [written |-> 0, virgin |-> 0, misread |-> 0]]

\* chop_block_store_stats_update, for a block said to exist or not.
Counted(role, said, exists) ==
  [stats EXCEPT ![role] =
     [written |-> @.written + 1, virgin |-> @.virgin + IF said THEN 0 ELSE 1,
      misread |-> @.misread + IF said = exists THEN 0 ELSE 1]]

(***************************************************************************)
(* write_block through the stack.  The statistics store asks whether the   *)
(* block exists before it passes the write on, and counts it if the write  *)
(* succeeded; the smart store asks again, and writes only a block that     *)
(* does not exist.  Either may be told that a block does not exist because *)
(* the look-up failed: the one then counts it as new, the other writes it  *)
(* again.                                                                  *)
(***************************************************************************)
Asks(role) == Has(role, "stat") \/ Has(role, "smart")

\* What a proxy may be told about block k: the truth, or that it is absent.
Told(role, proxy, k) ==
  {Exists(opts.place[role], k)} \cup
    (IF Has(role, proxy) /\ ~ExistsMayFail(opts.place[role]) THEN {FALSE} ELSE {})

FaultyStackWrites(role, k, c) ==
  LET f == opts.place[role]
      exists == Exists(f, k)
  IN /\ IF exists /\ Has(role, "smart")
        THEN UNCHANGED <<disk, cache>>
        ELSE WriteBlock(f, k, StoredForm(role, c))
     /\ stats' = IF Has(role, "stat")
                 THEN Counted(role, k \in DOMAIN cache'[f], TRUE) ELSE stats
     /\ NoFault

StackWrites(role, k, c) ==
  LET f == opts.place[role]
      exists == Exists(f, k)
  IN \E said \in Told(role, "stat", k), saidAgain \in Told(role, "smart", k) :
     /\ IF saidAgain /\ Has(role, "smart")
        THEN UNCHANGED <<disk, cache>>
        ELSE WriteBlock(f, k, StoredForm(role, c))
     /\ stats' = IF Has(role, "stat") THEN Counted(role, said, exists) ELSE stats
     /\ IF said = exists /\ saidAgain = exists THEN NoFault ELSE Fault

\* The library fails: while looking the block up, or while writing it.
StackWriteFails(role, k) ==
  /\ \/ Asks(role) /\ ExistsMayFail(opts.place[role])
     \/ \E said \in Told(role, "smart", k) : ~(said /\ Has(role, "smart"))
  /\ Fault
  /\ UNCHANGED <<disk, cache, stats>>

-----------------------------------------------------------------------------
(***************************************************************************)
(* chop_store_close on a role's store: whether it reaches the file.  The   *)
(* smart store closes its back end only under CHOP_PROXY_EVENTUALLY_CLOSE, *)
(* which nobody asks for.                                                  *)
(***************************************************************************)
CloseReaches(role) == ~LeavesAsIs(role) /\ ~Has(role, "smart")

(***************************************************************************)
(* chop_object_destroy on a role's store.  Proxies destroy what they own,  *)
(* except the filtered store, which has no destructor but is closed, with  *)
(* its back end, by store_dtor.                                            *)
(***************************************************************************)
DestroyReaches(role) == ~LeavesAsIs(role)

DestroyForgets(role) ==
  ~Has(role, "filtered") /\ ForgetsHandle(opts.place[role])

\* One close of a file: whether its error is looked at, and whether the
\* handle is forgotten instead.
Closing(f, looks, forgets) == [file |-> f, looks |-> looks, forgets |-> forgets]

CloseDummy(role) ==
  Below(Closing(opts.place[role], FALSE, FALSE), CloseReaches(role))

CloseStore(role) ==
  Below(Closing(opts.place[role], TRUE, FALSE), CloseReaches(role))

DestroyStore(role) ==
  Below(Closing(opts.place[role], FALSE, DestroyForgets(role)), DestroyReaches(role))

(***************************************************************************)
(* How the archiver ends: process_command closes the dummy proxies, which  *)
(* ignore their back end's error; main closes and destroys the store, then *)
(* the meta-data store if it is another object.                            *)
(***************************************************************************)
Closings ==
  (IF opts.verbose THEN CloseDummy("data") \o CloseDummy("metadata") ELSE << >>)
    \o CloseStore("data") \o DestroyStore("data")
    \o IF SameStore THEN << >>
       ELSE CloseStore("metadata") \o DestroyStore("metadata")
=============================================================================
