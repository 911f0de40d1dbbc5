---------------------------- MODULE BlockIndexer ----------------------------
(***************************************************************************)
(* The four block indexers and their fetchers: block-indexer-hash.c (the   *)
(* key is the hash of the block), block-indexer-chk.c (the block is        *)
(* encrypted under its own hash, the key is the hash of the ciphertext),   *)
(* block-indexer-integer.c (consecutive 32-bit numbers) and                *)
(* block-indexer-uuid.c (a new UUID per block), and the text of an index   *)
(* tuple (indexers.c), all that a user keeps of an archive.                *)
(*                                                                         *)
(* A content is a tuple <<kind, size in bytes, what it is made of>>.  Hash *)
(* functions are taken to be injective and ciphers to need their key.      *)
(***************************************************************************)
EXTENDS Integers, Sequences

CONSTANTS
  IdSpace,      \* number of integer block identifiers, 2^32 in the code
  CipherBlock,  \* block size of the cipher, in bytes
  WeakText      \* data whose hash the cipher rejects as a weak key

ASSUME IndexerAssumption ==
  IdSpace \in Nat \ {0} /\ CipherBlock \in Nat \ {0}

DataSize == 3
HandleSize == 4

Size(c) == c[2]
Text(d) == <<"data", DataSize, d>>

\* A key block of the tree indexer: the binary forms of its children.
Node(handles) == <<"node", HandleSize * Len(handles), handles>>

\* What damage makes of a block: fewer bytes, or other bytes.
Cut(c) == <<"cut", Size(c) - 1, c>>
Alter(c) == <<"altered", Size(c), c>>

Hash(c) == <<"hash", c>>

Padded(n) == ((n + CipherBlock - 1) \div CipherBlock) * CipherBlock
Encrypt(key, c) == <<"cipher", Padded(Size(c)), key, c>>

\* The first size bytes of what the cipher makes of x under key.
Decrypt(key, x, size) ==
  IF x[1] = "cipher" /\ x[3] = key /\ Size(x[4]) = size
  THEN x[4] ELSE <<"noise", size, x>>

-----------------------------------------------------------------------------
(***************************************************************************)
(* Indexing.  An indexer is its class and, for integers, the next          *)
(* identifier; fresh numbers what must not repeat (UUIDs and random keys). *)
(* The result is the key and the content written to the store, the handle  *)
(* returned and the indexer afterwards: the integer indexer moves on       *)
(* before it writes, so also when the write fails.                         *)
(***************************************************************************)
\* Indexers as made from their text on the command line, which names the hash
\* method of the keys, or the integer indexer's first identifier (0 if it is
\* empty).
HbiDeserialize == [class |-> "hash", id |-> 0, hash |-> "sha1"]
CbiDeserialize == [class |-> "chk", id |-> 0, hash |-> "sha1"]
IbiDeserialize(first) == [class |-> "integer", id |-> first, hash |-> "none"]
UbiDeserialize == [class |-> "uuid", id |-> 0, hash |-> "none"]

IndexerClass == {"hash", "chk", "integer", "uuid"}

NewIndexer(class, first) ==
  CASE class = "hash"    -> HbiDeserialize
    [] class = "chk"     -> CbiDeserialize
    [] class = "integer" -> IbiDeserialize(first)
    [] class = "uuid"    -> UbiDeserialize

HashIndex(ix, c) ==
  [key |-> Hash(c), block |-> c, handle |-> <<"hash", Hash(c), Size(c)>>,
   indexer |-> ix]

CipherKey(c, fresh) ==
  IF c[1] = "data" /\ c[3] \in WeakText THEN <<"random", fresh>> ELSE Hash(c)

ChkIndex(ix, c, fresh) ==
  LET key == CipherKey(c, fresh)
      x == Encrypt(key, c)
  IN [key |-> Hash(x), block |-> x,
      handle |-> <<"chk", Hash(x), key, Size(c)>>, indexer |-> ix]

IntegerIndex(ix, c) ==
  [key |-> <<"id", ix.id>>, block |-> c, handle |-> <<"integer", <<"id", ix.id>>>>,
   indexer |-> [ix EXCEPT !.id = IF @ + 1 = IdSpace THEN 0 ELSE @ + 1]]

UuidIndex(ix, c, fresh) ==
  [key |-> <<"uuid", fresh>>, block |-> c,
   handle |-> <<"uuid", <<"uuid", fresh>>>>, indexer |-> ix]

Index(ix, c, fresh) ==
  CASE ix.class = "hash"    -> HashIndex(ix, c)
    [] ix.class = "chk"     -> ChkIndex(ix, c, fresh)
    [] ix.class = "integer" -> IntegerIndex(ix, c)
    [] ix.class = "uuid"    -> UuidIndex(ix, c, fresh)

-----------------------------------------------------------------------------
(***************************************************************************)
(* Fetching.  A fetcher is its class and the hash method it has to check   *)
(* blocks with, if its indexer told it.  read is what the store returned,  *)
(* ok and the content.                                                     *)
(***************************************************************************)
Unfaithful == [ok |-> FALSE]
Fetched(c) == [ok |-> TRUE, block |-> c]

FaultyInitFetcher(ix) == [class |-> ix.class, hash |-> "none"]

InitFetcher(ix) == [class |-> ix.class, hash |-> ix.hash]

Genuine(fetcher, handle, x) == fetcher.hash # "none" => Hash(x) = handle[2]

HashFetch(fetcher, handle, x) ==
  IF Size(x) = handle[3] /\ Genuine(fetcher, handle, x)
  THEN Fetched(x) ELSE Unfaithful

ChkFetch(fetcher, handle, x) ==
  IF Size(x) >= handle[4] /\ Genuine(fetcher, handle, x)
  THEN Fetched(Decrypt(handle[3], x, handle[4])) ELSE Unfaithful

\* The integer and UUID fetchers return whatever the store holds.
IntegerFetch(x) == Fetched(x)
UuidFetch(x) == Fetched(x)

Fetch(fetcher, handle, read) ==
  IF ~read.ok THEN Unfaithful
  ELSE CASE fetcher.class = "hash"    -> HashFetch(fetcher, handle, read.block)
         [] fetcher.class = "chk"     -> ChkFetch(fetcher, handle, read.block)
         [] fetcher.class = "integer" -> IntegerFetch(read.block)
         [] fetcher.class = "uuid"    -> UuidFetch(read.block)

-----------------------------------------------------------------------------
(***************************************************************************)
(* Serial forms, as sequences of fields.  They do not name the class, which*)
(* the reader takes from elsewhere, and each class has its own order.      *)
(***************************************************************************)
HihSerialize(handle) == <<handle[2], handle[3]>>
HihDeserialize(form) == <<"hash", form[1], form[2]>>

\* Key, block identifier, size.
ChkSerialize(handle) == <<handle[3], handle[2], handle[4]>>
ChkDeserialize(form) == <<"chk", form[2], form[1], form[3]>>

\* The number, and the UUID, of which the store's keys are made.
IihSerialize(handle) == <<handle[2][2]>>
IihDeserialize(form) == <<"integer", <<"id", form[1]>>>>

UihSerialize(handle) == <<handle[2][2]>>
UihDeserialize(form) == <<"uuid", <<"uuid", form[1]>>>>

SerialHandle(handle) ==
  CASE handle[1] = "hash"    -> HihSerialize(handle)
    [] handle[1] = "chk"     -> ChkSerialize(handle)
    [] handle[1] = "integer" -> IihSerialize(handle)
    [] handle[1] = "uuid"    -> UihSerialize(handle)

DeserialHandle(class, form) ==
  CASE class = "hash"    -> HihDeserialize(form)
    [] class = "chk"     -> ChkDeserialize(form)
    [] class = "integer" -> IihDeserialize(form)
    [] class = "uuid"    -> UihDeserialize(form)

\* The CHK fetcher's form has the cipher and its mode before the hash.
HbfSerialize(fetcher) == IF fetcher.hash = "none" THEN << >> ELSE <<fetcher.hash>>
HbfDeserialize(form) ==
  [class |-> "hash", hash |-> IF form = << >> THEN "none" ELSE form[1]]

CbfSerialize(fetcher) ==
  <<"blowfish", "cbc">> \o IF fetcher.hash = "none" THEN << >> ELSE <<fetcher.hash>>
CbfDeserialize(form) ==
  [class |-> "chk", hash |-> IF Len(form) = 2 THEN "none" ELSE form[3]]

(***************************************************************************)
(* The index tuple names the classes of the fetcher and of the handle and  *)
(* has the forms of both; the state of the block indexer itself is not     *)
(* part of it.  (The tree indexer's own form is left out.)                 *)
(***************************************************************************)
SerializeIndexTuple(handle, ix) ==
  LET fetcher == InitFetcher(ix)
  IN <<fetcher.class, handle[1],
       CASE fetcher.class = "hash" -> HbfSerialize(fetcher)
         [] fetcher.class = "chk"  -> CbfSerialize(fetcher)
         [] OTHER                  -> << >>,
       SerialHandle(handle)>>

TupleFetcher(tuple) ==
  CASE tuple[1] = "hash" -> HbfDeserialize(tuple[3])
    [] tuple[1] = "chk"  -> CbfDeserialize(tuple[3])
    [] OTHER             -> [class |-> tuple[1], hash |-> "none"]

TupleHandle(tuple) == DeserialHandle(tuple[2], tuple[4])
=============================================================================
