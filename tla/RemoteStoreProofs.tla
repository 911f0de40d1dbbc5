------------------------- MODULE RemoteStoreProofs -------------------------
(***************************************************************************)
(* Clients that call one block server over TLS or UDP: a reply is taken    *)
(* for the call that caused it, collision checks protect what is stored,   *)
(* and a sync that returned 0 makes what was written before it survive.    *)
(***************************************************************************)
EXTENDS RemoteStore, FiniteSetTheorems, TLAPS

Args == Operations \cup {Hello}

ResultRecord ==
    [status : {"ok", "error", "undecoded"}, block : Block \cup {None}, len : Nat,
     yes : SUBSET Key]

(* A collision check keeps write w from being replaced. *)
Protected(w) ==
    options.collision /\ ~unchecked /\ (options.class = "bdb" => w[2] # Empty)

(* Write w is in f, as far as collision checks protect it. *)
Has(f, w) == f[w[1]] # None /\ (Protected(w) => f[w[1]] = w[2])

(* Message m belongs to the call its client waits in. *)
Current(m) == call[m.client] # NoCall /\ m.xid = xid[m.client]

(* Result r is one that the call of c may take. *)
Answers(c, r) ==
    LET args == call[c].args IN
    /\ r.status # "undecoded" => Founded(Outcome(args, r), seen[c])
    /\ proto = "tls" /\ r.status = "ok" =>
         /\ args.proc = "write" /\ xprt[c] # "none" => Has(local, <<args.key, args.block>>)
         /\ args.proc \in {"sync", "close"} /\ ~hidden => \A w \in acked[c] : Has(disk, w)

Justified(m) == m.result \in ResultRecord /\ (Current(m) => Answers(m.client, m.result))

-----------------------------------------------------------------------------
BaseInv ==
    /\ options \in Options /\ proto \in {"tls", "udp"}
    /\ unchecked \in BOOLEAN /\ hidden \in BOOLEAN
    /\ xid \in [Client -> Nat]
    /\ call \in [Client -> {NoCall} \cup [args : Args, refreshes : 0..MaxRefreshes]]
    /\ acked \in [Client -> SUBSET (Key \X Block)] /\ synced \in SUBSET (Key \X Block)
    /\ \A c, d \in Client : xprt[c] = "handshaking" /\ xprt[d] = "handshaking" => c = d

(* Requests and replies of the current call are about it. *)
NetInv ==
    \A m \in net :
        /\ m.client \in Client /\ m.xid \in Nat /\ m.xid <= xid[m.client]
        /\ m.dir = "request" =>
              m.args \in Args /\ (Current(m) => m.args = call[m.client].args)
        /\ m.dir = "reply" => Justified(m)

ServingInv ==
    serving # NoRequest =>
        /\ serving.client \in Client /\ serving.xid \in Nat
        /\ serving.xid <= xid[serving.client]
        /\ Justified(serving)

(* What is on the medium is in the store. *)
DiskInv ==
    \A k \in Key : disk[k] # None =>
        local[k] # None /\ (Protected(<<k, disk[k]>>) => local[k] = disk[k])

(* What was acknowledged on a connection is in the store while it lasts. *)
AckedInv ==
    \A c \in Client : proto = "tls" /\ xprt[c] # "none" =>
        \A w \in acked[c] : Has(local, w)

(* What was synchronised is on the medium. *)
SyncedInv == ~hidden => \A w \in synced : Has(disk, w)

RemoteInv ==
    /\ TypeOK /\ BaseInv /\ NetInv /\ ServingInv /\ DiskInv /\ AckedInv /\ SyncedInv
    /\ CallsTakeEffect

-----------------------------------------------------------------------------
USE BlockServerAssumption, RefreshAssumption, MaxCallsAssumption

(* The arguments of each procedure. *)
LEMMA ArgsFields ==
  ASSUME NEW a \in Args
  PROVE  /\ a.proc \in {"hello", "write", "read", "exists", "sync", "close"}
         /\ a.proc \in {"write", "read"} => a.key \in Key
         /\ a.proc = "write" => a.block \in Block
         /\ a.proc = "exists" => a.keys \in SUBSET Key
  BY DEF Args, Operations, Hello

(* A call is not NoCall. *)
LEMMA CallFields ==
  ASSUME BaseInv, NEW c \in Client, call[c] # NoCall
  PROVE  call[c].args \in Args /\ call[c].refreshes \in 0..MaxRefreshes
  BY DEF BaseInv

(* The results a handler leaves. *)
LEMMA ResultFields ==
  ASSUME NEW status \in {"ok", "error", "undecoded"}
  PROVE  /\ Result(status) \in ResultRecord
         /\ Result(status).status = status /\ Result(status).block = None
         /\ Result(status).len = 0 /\ Result(status).yes = {}
  BY DEF Result, ResultRecord

-----------------------------------------------------------------------------
(* What steps do to the store and the medium. *)

SameData == UNCHANGED <<local, disk, unchecked>>

StoresBlock ==
    \E k \in Key, b \in Block :
        /\ local' = [local EXCEPT ![k] = b] /\ disk' \in {disk, [disk EXCEPT ![k] = b]}
        /\ options.collision /\ ~unchecked' => Found(k) \in {None, b}
        /\ unchecked' \in {unchecked, TRUE}

Synchronises == disk' = local /\ UNCHANGED <<local, unchecked>>

Reverts == local' = disk /\ UNCHANGED <<disk, unchecked>>

WritesOne == \E k \in Key : disk' = [disk EXCEPT ![k] = local[k]] /\ UNCHANGED <<local, unchecked>>

(* A handler stores a block, synchronises or changes nothing. *)
LEMMA HandlerData ==
  ASSUME NEW m, m.args \in Args, ProcessRequest(m)
  PROVE  /\ SameData \/ StoresBlock \/ Synchronises
         /\ options' = options /\ server' = "up"
<1>1. options' = options /\ server' = "up"
  BY DEF ProcessRequest
<1>2. CASE m.args.proc = "write" /\ HandleWriteBlock(m)
  <2>1. m.args.key \in Key /\ m.args.block \in Block
    BY <1>2, ArgsFields
  <2>2. CASE ~IsValidHashKey(m.args.key, m.args.block)
    BY <1>1, <1>2, <2>2 DEF HandleWriteBlock, SameData
  <2>3. CASE /\ ~options.collision \/ Found(m.args.key) = None
             /\ StoreWrite(m) /\ UNCHANGED unchecked
    BY <1>1, <2>1, <2>3 DEF StoreWrite, Put, SameData, StoresBlock
  <2>4. CASE UNCHANGED <<local, disk, unchecked>>
    BY <1>1, <2>4 DEF SameData
  <2>5. CASE Put(m.args.key, m.args.block) /\ unchecked' = TRUE
    BY <1>1, <2>1, <2>5 DEF Put, StoresBlock
  <2> QED
    BY <1>1, <1>2, <2>2, <2>3, <2>4, <2>5 DEF HandleWriteBlock
<1>3. CASE HandleSync(m)
  BY <1>1, <1>3 DEF HandleSync, Synchronises, SameData
<1>4. CASE \/ HandleSayHello(m) \/ HandleBlocksExist(m) \/ HandleReadBlock(m)
           \/ Undecodable(m)
  BY <1>1, <1>4 DEF HandleSayHello, HandleBlocksExist, HandleReadBlock, Undecodable, SameData
<1> QED
  BY <1>1, <1>2, <1>3, <1>4 DEF ProcessRequest

(* The server process ends: its connections end, too. *)
LEMMA EndData ==
  ASSUME ServerEnds
  PROVE  /\ Synchronises \/ Reverts
         /\ options' = options /\ server' = "down" /\ proto' = proto
         /\ \A c \in Client : xprt'[c] = "none"
  BY DEF ServerEnds, Signal, Crash, EncodeCrash, Stopped, Synchronises, Reverts

ClientMoves(c) ==
    \/ Open(c) \/ Operation(c) \/ Handshake(c) \/ GivesUp(c) \/ HandshakeFails(c)
    \/ ByeReturns(c) \/ ReceiveReply(c) \/ SkipReply(c) \/ SendAgain(c) \/ CallFails(c)

(* No step of a client reaches the data of the server. *)
LEMMA ClientData ==
  ASSUME NEW c \in Client, ClientMoves(c)
  PROVE  SameData /\ UNCHANGED <<options, server, statics, serving, hidden, proto>>
  BY DEF ClientMoves, Open, Operation, Handshake, GivesUp, HandshakeFails, ByeReturns,
         ReceiveReply, SkipReply, SendAgain, CallFails, SameData, serverVars

Moves ==
    \/ \E c \in Client : ClientMoves(c)
    \/ SendReply
    \/ \E c \in Client : Accept(c) \/ ServerHandshakeFails(c) \/ ServeRequest(c) \/ Reap(c)
    \/ ServerEnds
    \/ (Restart \/ \E k \in Key : WriteBack(k)) /\ UNCHANGED transportVars
    \/ \E c \in Client : Lose(c) \/ Retransmit(c) \/ ClientExits(c)

(* Every step is one of these, and only those of clients change what the   *)
(* clients keep.                                                           *)
LEMMA NextMoves ==
  ASSUME Next
  PROVE  /\ Moves /\ Watch
         /\ (\E c \in Client : ClientMoves(c)) \/ UNCHANGED <<store, unfounded, acked, synced, calls>>
  BY DEF Next, ServerStep, Environment, ClientStep, Moves, ClientMoves

(* Every step keeps the options, and does one thing to the data. *)
LEMMA DataKinds ==
  ASSUME NetInv, Moves
  PROVE  /\ UNCHANGED <<options, proto>>
         /\ \/ SameData \/ StoresBlock \/ Synchronises \/ WritesOne
            \/ Reverts /\ server' = "down" /\ \A c \in Client : xprt'[c] = "none"
<1>1. CASE \E c \in Client : ClientMoves(c)
  BY <1>1, ClientData
<1>2. CASE SendReply
  BY <1>2 DEF SendReply, SameData
<1>3. ASSUME NEW c \in Client, Accept(c) \/ ServerHandshakeFails(c) \/ Reap(c)
      PROVE  UNCHANGED <<options, proto>> /\ SameData
  BY <1>3 DEF Accept, ServerHandshakeFails, Reap, serverVars, SameData
<1>4. ASSUME NEW c \in Client, ServeRequest(c)
      PROVE  UNCHANGED <<options, proto>> /\ (SameData \/ StoresBlock \/ Synchronises)
  BY <1>4, HandlerData DEF ServeRequest, Request, NetInv
<1>5. CASE ServerEnds
  BY <1>5, EndData
<1>6. CASE (Restart \/ \E k \in Key : WriteBack(k)) /\ UNCHANGED transportVars
  BY <1>6 DEF Restart, WriteBack, transportVars, SameData, WritesOne
<1>7. ASSUME NEW c \in Client, Lose(c) \/ Retransmit(c) \/ ClientExits(c)
      PROVE  UNCHANGED <<options, proto>> /\ SameData
  BY <1>7 DEF Lose, Retransmit, ClientExits, serverVars, SameData
<1> QED
  BY <1>1, <1>2, <1>3, <1>4, <1>5, <1>6, <1>7 DEF Moves

(* A sync that was answered with success and wrote nothing is not undone. *)
LEMMA HiddenStays ==
  ASSUME BaseInv, NetInv, Moves
  PROVE  hidden' \in BOOLEAN /\ (hidden => hidden')
<1>0. hidden \in BOOLEAN
  BY DEF BaseInv
<1> DEFINE Keeps == hidden' = hidden
           Sets == hidden' = (hidden \/ disk # local)
<1>1. ASSUME NEW m, ProcessRequest(m) PROVE Keeps \/ Sets
  BY <1>1, Zenon DEF ProcessRequest, HandleSayHello, HandleBlocksExist, HandleWriteBlock,
              HandleReadBlock, HandleSync, Undecodable
<1>2. ASSUME NEW c \in Client, ServeRequest(c) PROVE Keeps \/ Sets
  BY <1>1, <1>2, Zenon DEF ServeRequest
<1>3. ASSUME NEW c \in Client, ClientMoves(c) PROVE Keeps
  BY <1>3, ClientData
<1>4. ASSUME SendReply \/ ServerEnds \/ Restart \/ \E k \in Key : WriteBack(k)
      PROVE  Keeps
  BY <1>4 DEF SendReply, ServerEnds, Signal, Crash, EncodeCrash, Stopped, Restart, WriteBack
<1>5. ASSUME NEW c \in Client, Accept(c) \/ ServerHandshakeFails(c) \/ Reap(c)
      PROVE  Keeps
  BY <1>5 DEF Accept, ServerHandshakeFails, Reap, serverVars
<1>6. ASSUME NEW c \in Client, Lose(c) \/ Retransmit(c) \/ ClientExits(c)
      PROVE  Keeps
  BY <1>6 DEF Lose, Retransmit, ClientExits, serverVars
<1>7. CASE Keeps
  BY <1>0, <1>7
<1>8. CASE Sets
  BY <1>0, <1>8
<1> QED
  BY <1>2, <1>3, <1>4, <1>5, <1>6, <1>7, <1>8, Zenon DEF Moves

(* The store and the medium stay in step; what is on the medium stays, and *)
(* what is in the store does while the server runs.                        *)
LEMMA DataStep ==
  ASSUME TypeOK, BaseInv, NetInv, DiskInv, Moves
  PROVE  /\ local' \in [Key -> Block \cup {None}] /\ disk' \in [Key -> Block \cup {None}]
         /\ options' = options /\ proto' = proto /\ unchecked' \in BOOLEAN
         /\ DiskInv'
         /\ \A w \in Key \X Block : Has(disk, w) => Has(disk, w)'
         /\ \/ \A w \in Key \X Block : Has(local, w) => Has(local, w)'
            \/ \A c \in Client : xprt'[c] = "none"
<1>0. /\ local \in [Key -> Block \cup {None}] /\ disk \in [Key -> Block \cup {None}]
      /\ unchecked \in BOOLEAN
  BY DEF TypeOK, BaseInv
<1>1. options' = options /\ proto' = proto
  BY DataKinds
<1>2. \A w \in Key \X Block : w[1] \in Key
  OBVIOUS
<1>3. CASE SameData
  BY <1>0, <1>1, <1>3 DEF SameData, DiskInv, Has, Protected
<1>4. CASE StoresBlock
  <2>1. PICK k \in Key, b \in Block :
             /\ local' = [local EXCEPT ![k] = b] /\ disk' \in {disk, [disk EXCEPT ![k] = b]}
             /\ options.collision /\ ~unchecked' => Found(k) \in {None, b}
             /\ unchecked' \in {unchecked, TRUE}
    BY <1>4 DEF StoresBlock
  <2>2. /\ local' \in [Key -> Block \cup {None}] /\ disk' \in [Key -> Block \cup {None}]
        /\ unchecked' \in BOOLEAN /\ (~unchecked' => ~unchecked)
    <3>1. local' \in [Key -> Block \cup {None}] /\ disk' \in [Key -> Block \cup {None}]
      BY <1>0, <2>1
    <3>2. CASE unchecked' = unchecked
      BY <1>0, <3>1, <3>2
    <3>3. CASE unchecked' = TRUE
      BY <1>0, <3>1, <3>3
    <3> QED
      BY <2>1, <3>2, <3>3
  <2>3. /\ \A l \in Key : local'[l] = IF l = k THEN b ELSE local[l]
        /\ \A l \in Key : disk'[l] = disk[l] \/ (l = k /\ disk'[l] = b)
    BY <1>0, <2>1
  <2>4. \A w : Protected(w)' => Protected(w) /\ options.collision /\ ~unchecked'
    BY <1>1, <2>2 DEF Protected
  <2>5. \A w \in Key \X Block : Protected(w) /\ w[1] = k /\ local[k] = w[2] /\ ~unchecked'
                                  => w[2] = b
    BY <2>1 DEF Protected, Found
  <2>6. \A w \in Key \X Block : Has(local, w) => Has(local, w)'
    <3> SUFFICES ASSUME NEW w \in Key \X Block, Has(local, w) PROVE Has(local, w)'
      OBVIOUS
    <3>1. local'[w[1]] # None
      BY <1>2, <2>3 DEF Has
    <3>2. ASSUME Protected(w)' PROVE local'[w[1]] = w[2]
      BY <1>2, <2>3, <2>4, <2>5, <3>2 DEF Has
    <3> QED
      BY <3>1, <3>2 DEF Has
  <2>7. \A w \in Key \X Block : Has(disk, w) => Has(disk, w)'
    <3> SUFFICES ASSUME NEW w \in Key \X Block, Has(disk, w) PROVE Has(disk, w)'
      OBVIOUS
    <3>1. disk'[w[1]] # None
      BY <1>2, <2>3 DEF Has
    <3>2. ASSUME Protected(w)' PROVE disk'[w[1]] = w[2]
      <4>1. disk[w[1]] = w[2] /\ Protected(w) /\ ~unchecked'
        BY <2>4, <3>2 DEF Has
      <4>2. Protected(<<w[1], disk[w[1]]>>)
        BY <4>1 DEF Protected
      <4>3. local[w[1]] = w[2]
        BY <1>2, <4>1, <4>2 DEF DiskInv, Has
      <4> QED
        BY <1>2, <2>3, <2>5, <4>1, <4>3
    <3> QED
      BY <3>1, <3>2 DEF Has
  <2>8. DiskInv'
    <3> SUFFICES ASSUME NEW l \in Key, disk'[l] # None
                 PROVE  /\ local'[l] # None
                        /\ Protected(<<l, disk[l]>>)' => local'[l] = disk'[l]
      BY DEF DiskInv
    <3>1. CASE disk'[l] = b /\ l = k
      BY <2>3, <3>1
    <3>2. CASE disk'[l] = disk[l]
      <4>1. /\ local[l] # None
            /\ Protected(<<l, disk[l]>>) => local[l] = disk[l]
        BY <3>2 DEF DiskInv
      <4>2. Protected(<<l, disk[l]>>)' => Protected(<<l, disk[l]>>) /\ ~unchecked'
        BY <1>1, <2>2, <3>2 DEF Protected
      <4>3. <<l, disk[l]>> \in Key \X Block
        BY <1>0, <3>2
      <4>4. Protected(<<l, disk[l]>>)' /\ l = k => disk[l] = b
        BY <2>5, <4>1, <4>2, <4>3
      <4> QED
        BY <2>3, <3>2, <4>1, <4>2, <4>4
    <3> QED
      BY <2>3, <3>1, <3>2
  <2> QED
    BY <1>1, <2>2, <2>6, <2>7, <2>8
<1>5. CASE Synchronises
  <2>1. disk' = local /\ local' = local /\ unchecked' = unchecked
    BY <1>5 DEF Synchronises
  <2>2. \A w \in Key \X Block : Has(disk, w) => Has(disk, w)'
    <3> SUFFICES ASSUME NEW w \in Key \X Block, Has(disk, w) PROVE Has(disk, w)'
      OBVIOUS
    <3>1. Protected(w)' = Protected(w) /\ (Protected(w) => Protected(<<w[1], disk[w[1]]>>))
      BY <1>1, <2>1 DEF Protected, Has
    <3> QED
      BY <1>2, <2>1, <3>1 DEF DiskInv, Has
  <2> QED
    BY <1>0, <1>1, <1>2, <2>1, <2>2 DEF DiskInv, Has, Protected
<1>6. CASE WritesOne
  <2>1. PICK k \in Key : disk' = [disk EXCEPT ![k] = local[k]] /\ UNCHANGED <<local, unchecked>>
    BY <1>6 DEF WritesOne
  <2>2. \A l \in Key : disk'[l] = IF l = k THEN local[l] ELSE disk[l]
    BY <1>0, <2>1
  <2>3. disk' \in [Key -> Block \cup {None}]
    BY <1>0, <2>1
  <2>4. \A w \in Key \X Block : Has(disk, w) => Has(disk, w)'
    <3> SUFFICES ASSUME NEW w \in Key \X Block, Has(disk, w) PROVE Has(disk, w)'
      OBVIOUS
    <3>1. Protected(w)' = Protected(w) /\ (Protected(w) => Protected(<<w[1], disk[w[1]]>>))
      BY <1>1, <2>1 DEF Protected, Has
    <3> QED
      BY <1>2, <2>1, <2>2, <3>1 DEF DiskInv, Has
  <2>5. DiskInv'
    BY <1>0, <1>1, <2>1, <2>2 DEF DiskInv, Protected
  <2> QED
    BY <1>0, <1>1, <1>2, <2>1, <2>3, <2>4, <2>5 DEF Has, Protected
<1>7. CASE Reverts /\ \A c \in Client : xprt'[c] = "none"
  BY <1>0, <1>1, <1>2, <1>7 DEF Reverts, DiskInv, Has, Protected
<1> QED
  BY <1>3, <1>4, <1>5, <1>6, <1>7, DataKinds

-----------------------------------------------------------------------------
(* What a step does to the calls. *)

CallRecord == {NoCall} \cup [args : Args, refreshes : 0..MaxRefreshes]

OthersWait(c) ==
    \A d \in Client : d # c => call'[d] = call[d] /\ xid'[d] = xid[d]

(* Client c waits in the same call before and after the step. *)
SameCall(c) == call'[c] = call[c] /\ xid'[c] = xid[c]

(* A request is sent under a new transaction id. *)
LEMMA SentFacts ==
  ASSUME BaseInv, NEW c \in Client, NEW args, NEW messages, Sent(c, args, messages)
  PROVE  /\ xid' \in [Client -> Nat] /\ xid'[c] = xid[c] + 1
         /\ \A d \in Client : d # c => xid'[d] = xid[d]
         /\ net' \subseteq messages \cup {Packet(c, args, xid'[c])}
  BY DEF BaseInv, Sent

(* A call begins. *)
LEMMA CallFacts ==
  ASSUME BaseInv, NEW c \in Client, NEW args \in Args, Call(c, args)
  PROVE  /\ call' \in [Client -> CallRecord] /\ call[c] = NoCall
         /\ call'[c].args = args
         /\ xid' \in [Client -> Nat] /\ xid'[c] = xid[c] + 1
         /\ OthersWait(c)
         /\ net' \subseteq net \cup {Packet(c, args, xid'[c])}
<1>1. call \in [Client -> CallRecord] /\ xid \in [Client -> Nat]
  BY DEF BaseInv, CallRecord
<1>2. call[c] = NoCall /\ call' = [call EXCEPT ![c] = [args |-> args, refreshes |-> MaxRefreshes]]
  BY DEF Call
<1>3. [args |-> args, refreshes |-> MaxRefreshes] \in CallRecord
  BY DEF CallRecord
<1>4. /\ call' \in [Client -> CallRecord] /\ call'[c].args = args
      /\ \A d \in Client : d # c => call'[d] = call[d]
  BY <1>1, <1>2, <1>3
<1>5. Sent(c, args, net)
  BY DEF Call
<1> QED
  BY <1>2, <1>4, <1>5, SentFacts DEF OthersWait

(* A call returns. *)
LEMMA ReturnFacts ==
  ASSUME TypeOK, BaseInv, NEW c \in Client, NEW out, Return(c, out)
  PROVE  /\ call' \in [Client -> CallRecord] /\ call'[c] = NoCall
         /\ \A d \in Client : d # c => call'[d] = call[d] /\ acked'[d] = acked[d]
         /\ store' \in [Client -> {"closed", "connecting", "open", "closing"}]
         /\ link' \in [Client -> {"none", "connected", "silent", "bye", "lost"}]
         /\ \A d \in Client : d # c => store'[d] = store[d]
<1>1. call \in [Client -> CallRecord] /\ NoCall \in CallRecord
  BY DEF BaseInv, CallRecord
<1>2. /\ call' \in [Client -> CallRecord] /\ call'[c] = NoCall
      /\ \A d \in Client : d # c => call'[d] = call[d]
  BY <1>1 DEF Return
<1>3. \A d \in Client : d # c => acked'[d] = acked[d]
  BY DEF Return, BaseInv
<1>4. /\ store' \in [Client -> {"closed", "connecting", "open", "closing"}]
      /\ \A d \in Client : d # c => store'[d] = store[d]
  <2>1. PICK s : store' = [store EXCEPT ![c] = s] /\ s \in {"closed", "open", "closing", store[c]}
    BY DEF Return
  <2> QED
    BY <2>1 DEF TypeOK
<1>5. link' \in [Client -> {"none", "connected", "silent", "bye", "lost"}]
  <2>1. PICK l : link' = [link EXCEPT ![c] = l] /\ l \in {"none", "bye", link[c]}
    BY DEF Return
  <2> QED
    BY <2>1 DEF TypeOK
<1> QED
  BY <1>2, <1>3, <1>4, <1>5

(* A call that the server did not execute is sent again, or returns. *)
LEMMA AgainFacts ==
  ASSUME TypeOK, BaseInv, NEW c \in Client, SendAgain(c)
  PROVE  \/ /\ call' \in [Client -> CallRecord] /\ xid' \in [Client -> Nat]
            /\ call'[c].args = call[c].args /\ call[c] # NoCall
            /\ xid'[c] = xid[c] + 1 /\ OthersWait(c)
            /\ net' \subseteq net \cup {Packet(c, call[c].args, xid'[c])}
            /\ UNCHANGED <<link, store, unfounded, acked, synced>>
         \/ Return(c, Failure(call[c].args)) /\ net' \subseteq net /\ xid' = xid
<1>1. PICK m \in net :
          IF MaySendAgain(c)
          THEN /\ call' = [call EXCEPT ![c].refreshes = @ - 1]
               /\ Sent(c, call[c].args, net \ {m})
               /\ UNCHANGED <<link, store, unfounded, acked, synced>>
          ELSE Return(c, Failure(call[c].args)) /\ net' = net \ {m} /\ UNCHANGED xid
  BY DEF SendAgain
<1>2. CASE ~MaySendAgain(c)
  BY <1>1, <1>2
<1>3. CASE MaySendAgain(c)
  <2>1. call[c] # NoCall /\ call[c].refreshes > 0
    BY <1>3 DEF SendAgain, MaySendAgain
  <2>2. call[c] \in [args : Args, refreshes : 0..MaxRefreshes]
    BY <2>1 DEF BaseInv
  <2>3. call' = [call EXCEPT ![c] = [call[c] EXCEPT !.refreshes = @ - 1]]
    BY <1>1, <1>3
  <2>4. [call[c] EXCEPT !.refreshes = @ - 1] \in [args : Args, refreshes : 0..MaxRefreshes]
    BY <2>1, <2>2
  <2>5. call' \in [Client -> CallRecord] /\ \A d \in Client : d # c => call'[d] = call[d]
    BY <2>3, <2>4 DEF BaseInv, CallRecord
  <2>6. call'[c].args = call[c].args
    BY <2>2, <2>3 DEF BaseInv
  <2>7. Sent(c, call[c].args, net \ {m})
    BY <1>1, <1>3
  <2>8. UNCHANGED <<link, store, unfounded, acked, synced>>
    BY <1>1, <1>3
  <2> QED
    BY <2>1, <2>5, <2>6, <2>7, <2>8, SentFacts DEF OthersWait
<1> QED
  BY <1>2, <1>3

(* The calls after a client's move. *)
LEMMA ClientCalls ==
  ASSUME TypeOK, BaseInv, NEW c \in Client, ClientMoves(c)
  PROVE  /\ call' \in [Client -> CallRecord] /\ xid' \in [Client -> Nat]
         /\ OthersWait(c)
         /\ \/ call'[c] = NoCall /\ xid'[c] >= xid[c]
            \/ xid'[c] = xid[c] + 1
            \/ SkipReply(c) /\ call' = call /\ xid' = xid
<1>0. /\ call \in [Client -> CallRecord] /\ xid \in [Client -> Nat]
      /\ Hello \in Args /\ Operations \subseteq Args
  BY DEF BaseInv, CallRecord, Args
<1>1. CASE Open(c) /\ proto = "tls"
  BY <1>0, <1>1 DEF Open, OthersWait
<1>2. CASE Call(c, Hello) \/ \E args \in Operations : Call(c, args)
  BY <1>0, <1>2, CallFacts
<1>3. CASE GivesUp(c) \/ HandshakeFails(c) \/ ByeReturns(c)
  <2>1. call[c] = NoCall /\ call' = call /\ xid' = xid
    BY <1>3 DEF GivesUp, HandshakeFails, ByeReturns, TypeOK
  <2> QED
    BY <1>0, <2>1 DEF OthersWait
<1>4. ASSUME NEW out, Return(c, out), xid' = xid
      PROVE  /\ call' \in [Client -> CallRecord] /\ xid' \in [Client -> Nat]
             /\ OthersWait(c) /\ call'[c] = NoCall /\ xid'[c] >= xid[c]
  BY <1>0, <1>4, ReturnFacts DEF OthersWait
<1>5. CASE SkipReply(c)
  BY <1>0, <1>5 DEF SkipReply, OthersWait
<1>6. CASE SendAgain(c)
  BY <1>4, <1>6, AgainFacts
<1> QED
  BY <1>1, <1>2, <1>3, <1>4, <1>5, <1>6
     DEF ClientMoves, Open, Operation, Handshake, ReceiveReply, CallFails

(* What the reply that c receives makes of its acknowledged writes. *)
Acknowledges(c) ==
    \E m \in net :
        /\ Reply(c, m) /\ m.xid = xid[c] /\ call[c] # NoCall
        /\ m.result.status = "ok"
        /\ \/ /\ call[c].args.proc = "write" /\ synced' = synced
              /\ acked'[c] = acked[c] \cup {<<call[c].args.key, call[c].args.block>>}
           \/ /\ call[c].args.proc \in {"sync", "close"} /\ acked'[c] = acked[c]
              /\ proto = "tls" /\ synced' = synced \cup acked[c]

(* A failure acknowledges nothing, and neither do the other results. *)
LEMMA ReturnAcked ==
  ASSUME BaseInv, NEW c \in Client, NEW out, Return(c, out), out.ok \in BOOLEAN
  PROVE  /\ ~out.ok \/ out.proc \notin {"write", "sync", "close"}
                => acked'[c] = acked[c] /\ synced' = synced
         /\ out.ok /\ out.proc = "write"
                => synced' = synced
                   /\ acked'[c] = acked[c] \cup {<<out.args.key, out.args.block>>}
         /\ out.proc \in {"sync", "close"}
                => /\ acked'[c] = acked[c]
                   /\ synced' = synced \/ (proto = "tls" /\ synced' = synced \cup acked[c])
  BY DEF BaseInv, Return

(* The fields of what an operation makes of a result. *)
LEMMA OutcomeFields ==
  ASSUME NEW args \in Args, NEW r \in ResultRecord
  PROVE  /\ Outcome(args, r).proc = args.proc /\ Outcome(args, r).args = args
         /\ Outcome(args, r).ok \in BOOLEAN
         /\ Outcome(args, r).block = r.block /\ Outcome(args, r).yes = r.yes
         /\ args.proc # "exists" => Outcome(args, r).ok = (r.status = "ok")
         /\ Failure(args).proc = args.proc /\ Failure(args).ok = FALSE
         /\ Failure(args).args = args /\ Failure(args).yes = {}
<1>1. /\ Outcome(args, r).proc = args.proc /\ Outcome(args, r).args = args
      /\ Outcome(args, r).block = r.block /\ Outcome(args, r).yes = r.yes
  BY DEF Outcome
<1>2. /\ Outcome(args, r).ok \in BOOLEAN
      /\ args.proc # "exists" => Outcome(args, r).ok = (r.status = "ok")
  BY DEF Outcome
<1>3. /\ Failure(args).proc = args.proc /\ Failure(args).ok = FALSE
      /\ Failure(args).args = args /\ Failure(args).yes = {}
  BY DEF Failure
<1> QED
  BY <1>1, <1>2, <1>3

(* The acknowledged writes after a client's move. *)
LEMMA ClientAcked ==
  ASSUME TypeOK, BaseInv, NetInv, NEW c \in Client, ClientMoves(c)
  PROVE  /\ \A d \in Client : d # c => acked'[d] = acked[d]
         /\ \/ acked'[c] = acked[c] /\ synced' = synced
            \/ Open(c) /\ acked'[c] = {} /\ synced' = synced
            \/ ReceiveReply(c) /\ Acknowledges(c)
<1>1. CASE Open(c)
  BY <1>1 DEF Open, BaseInv
<1>2. CASE \/ Operation(c) \/ Handshake(c) \/ GivesUp(c) \/ HandshakeFails(c)
           \/ ByeReturns(c) \/ SkipReply(c)
  BY <1>2 DEF Operation, Handshake, GivesUp, HandshakeFails, ByeReturns, SkipReply
<1>3. ASSUME Return(c, Failure(call[c].args)), call[c] # NoCall
      PROVE  acked'[c] = acked[c] /\ synced' = synced /\ \A d \in Client : d # c => acked'[d] = acked[d]
  <2>1. Failure(call[c].args).ok = FALSE
    BY DEF Failure
  <2> QED
    BY <1>3, <2>1, ReturnFacts, ReturnAcked
<1>4. CASE SendAgain(c)
  BY <1>3, <1>4, AgainFacts DEF SendAgain
<1>5. CASE CallFails(c)
  BY <1>3, <1>5 DEF CallFails
<1>6. CASE ReceiveReply(c)
  <2>1. PICK m \in net : /\ Reply(c, m) /\ Matches(c, m) /\ m.result.status # "undecoded"
                         /\ Return(c, Outcome(call[c].args, m.result))
    BY <1>6 DEF ReceiveReply
  <2>2. m.result \in ResultRecord /\ call[c] # NoCall /\ call[c].args \in Args
    BY <1>6, <2>1, CallFields DEF NetInv, Justified, Reply, ReceiveReply
  <2> DEFINE out == Outcome(call[c].args, m.result)
  <2>3. /\ out.ok \in BOOLEAN /\ out.proc = call[c].args.proc /\ out.args = call[c].args
        /\ call[c].args.proc # "exists" => out.ok = (m.result.status = "ok")
    BY <2>2, OutcomeFields, ZenonT(30)
  <2>4. \A d \in Client : d # c => acked'[d] = acked[d]
    BY <2>1, ReturnFacts
  <2>5. Return(c, out)
    BY <2>1
  <2> HIDE DEF out
  <2>6. m.xid = xid[c]
    BY <2>1 DEF Matches
  <2>7. CASE out.ok = FALSE \/ out.proc \notin {"write", "sync", "close"}
    BY <2>3, <2>4, <2>5, <2>7, ReturnAcked
  <2>8. CASE out.ok = TRUE /\ out.proc = "write"
    BY <1>6, <2>1, <2>2, <2>3, <2>4, <2>5, <2>6, <2>8, ReturnAcked DEF Acknowledges
  <2>9. CASE out.ok = TRUE /\ out.proc \in {"sync", "close"}
    BY <1>6, <2>1, <2>2, <2>3, <2>4, <2>5, <2>6, <2>9, ReturnAcked DEF Acknowledges
  <2> QED
    BY <2>3, <2>7, <2>8, <2>9
<1> QED
  BY <1>1, <1>2, <1>4, <1>5, <1>6 DEF ClientMoves

(* The ends of the connections after a client's move. *)
LEMMA ClientTransport ==
  ASSUME TypeOK, BaseInv, NEW c \in Client, ClientMoves(c)
  PROVE  /\ store' \in [Client -> {"closed", "connecting", "open", "closing"}]
         /\ link' \in [Client -> {"none", "connected", "silent", "bye", "lost"}]
         /\ xprt' \in [Client -> {"none", "queued", "handshaking", "idle"}]
         /\ \A d \in Client : d # c => xprt'[d] = xprt[d] /\ store'[d] = store[d]
         /\ \/ xprt' = xprt
            \/ Open(c) /\ proto = "tls" /\ xprt[c] = "none" /\ xprt'[c] = "queued"
               /\ server = "up"
            \/ xprt[c] = "handshaking" /\ xprt'[c] \in {"none", "idle"}
<1>0. /\ store \in [Client -> {"closed", "connecting", "open", "closing"}]
      /\ link \in [Client -> {"none", "connected", "silent", "bye", "lost"}]
      /\ xprt \in [Client -> {"none", "queued", "handshaking", "idle"}]
  BY DEF TypeOK
<1>1. CASE Open(c)
  BY <1>0, <1>1 DEF Open, Connect
<1>2. CASE Operation(c) \/ SkipReply(c)
  BY <1>0, <1>2 DEF Operation, SkipReply
<1>3. CASE Handshake(c)
  BY <1>0, <1>3 DEF Handshake, Authorize
<1>4. CASE GivesUp(c) \/ HandshakeFails(c) \/ ByeReturns(c)
  BY <1>0, <1>4 DEF GivesUp, HandshakeFails, ByeReturns
<1>5. CASE ReceiveReply(c) \/ CallFails(c)
  <2>1. PICK out : Return(c, out)
    BY <1>5 DEF ReceiveReply, CallFails
  <2>2. xprt' = xprt
    BY <1>5 DEF ReceiveReply, CallFails
  <2> QED
    BY <1>0, <2>1, <2>2, ReturnFacts
<1>6. CASE SendAgain(c)
  <2>1. xprt' = xprt
    BY <1>6 DEF SendAgain
  <2> QED
    BY <1>0, <1>6, <2>1, AgainFacts, ReturnFacts
<1> QED
  BY <1>1, <1>2, <1>3, <1>4, <1>5, <1>6 DEF ClientMoves

-----------------------------------------------------------------------------
(* A call that goes on is the same one, on the same connection. *)
GoesOn(c) ==
    /\ xid'[c] >= xid[c]
    /\ call'[c] # NoCall /\ xid'[c] = xid[c] =>
          /\ call'[c] = call[c] /\ acked'[c] = acked[c]
          /\ xprt'[c] # "none" => xprt[c] # "none"

Unmoved == UNCHANGED <<store, unfounded, acked, synced, calls>>

(* The server and the environment touch no call and make no connection. *)
LEMMA ServerFrame ==
  ASSUME TypeOK, Moves
  PROVE  \/ \E c \in Client : ClientMoves(c)
         \/ /\ UNCHANGED <<call, xid>>
            /\ \A c \in Client : xprt'[c] # "none" => xprt[c] # "none"
<1>1. xprt \in [Client -> {"none", "queued", "handshaking", "idle"}]
  BY DEF TypeOK
<1>2. CASE SendReply \/ ServerEnds \/ UNCHANGED transportVars
  BY <1>2 DEF SendReply, ServerEnds, transportVars
<1>3. ASSUME NEW c \in Client, Accept(c) \/ ServerHandshakeFails(c) \/ Reap(c)
      PROVE  /\ UNCHANGED <<call, xid>>
             /\ \A d \in Client : xprt'[d] # "none" => xprt[d] # "none"
  BY <1>1, <1>3 DEF Accept, ServerHandshakeFails, Reap
<1>4. ASSUME NEW c \in Client, ServeRequest(c) \/ Lose(c) \/ Retransmit(c) \/ ClientExits(c)
      PROVE  UNCHANGED <<call, xid, xprt>>
  BY <1>4 DEF ServeRequest, Lose, Retransmit, ClientExits
<1> QED
  BY <1>2, <1>3, <1>4 DEF Moves

(* So every call goes on or gets another transaction id. *)
LEMMA CallFrame ==
  ASSUME TypeOK, BaseInv, NetInv, Moves, (\E c \in Client : ClientMoves(c)) \/ Unmoved
  PROVE  /\ call' \in [Client -> CallRecord] /\ xid' \in [Client -> Nat]
         /\ \A d \in Client : GoesOn(d)
<1>0. call \in [Client -> CallRecord] /\ xid \in [Client -> Nat]
  BY DEF BaseInv, CallRecord
<1>1. ASSUME NEW c \in Client, ClientMoves(c)
      PROVE  /\ call' \in [Client -> CallRecord] /\ xid' \in [Client -> Nat]
             /\ \A d \in Client : GoesOn(d)
  <2>1. call' \in [Client -> CallRecord] /\ xid' \in [Client -> Nat]
    BY <1>1, ClientCalls
  <2>2. ASSUME NEW d \in Client, d # c PROVE GoesOn(d)
    <3>1. /\ call'[d] = call[d] /\ xid'[d] = xid[d] /\ xprt'[d] = xprt[d]
          /\ acked'[d] = acked[d]
      BY <1>1, <2>2, ClientCalls, ClientTransport, ClientAcked DEF OthersWait
    <3> QED
      BY <1>0, <3>1 DEF GoesOn
  <2>3. GoesOn(c)
    <3>1. CASE call'[c] = NoCall /\ xid'[c] >= xid[c]
      BY <3>1 DEF GoesOn
    <3>2. CASE xid'[c] = xid[c] + 1
      BY <1>0, <3>2 DEF GoesOn
    <3>3. CASE SkipReply(c)
      BY <1>0, <3>3 DEF GoesOn, SkipReply
    <3> QED
      BY <1>1, <3>1, <3>2, <3>3, ClientCalls
  <2> QED
    BY <2>1, <2>2, <2>3
<1>2. CASE ~\E c \in Client : ClientMoves(c)
  <2>1. UNCHANGED <<call, xid, acked>> /\ \A c \in Client : xprt'[c] # "none" => xprt[c] # "none"
    BY <1>2, ServerFrame DEF Unmoved
  <2> QED
    BY <1>0, <2>1 DEF GoesOn
<1> QED
  BY <1>1, <1>2

(* What is stored under the keys of a call is seen while it lasts. *)
LEMMA WatchFacts ==
  ASSUME Watch, NEW c \in Client, call'[c] # NoCall
  PROVE  seen[c] \subseteq seen'[c] /\ Stored(call'[c].args) \subseteq seen'[c]
  BY DEF Watch

(* A result that is founded stays so. *)
LEMMA FoundedGrows ==
  ASSUME NEW out, NEW stored, NEW more, stored \subseteq more, Founded(out, stored)
  PROVE  Founded(out, more)
  BY DEF Founded

(* A reply that is justified stays so. *)
LEMMA JustifiedStays ==
  ASSUME TypeOK, BaseInv, NetInv, DiskInv, Moves, Watch,
         (\E c \in Client : ClientMoves(c)) \/ Unmoved,
         NEW m, m.client \in Client, m.xid \in Nat, m.xid <= xid[m.client], Justified(m)
  PROVE  Justified(m)' /\ m.xid <= xid'[m.client]
<1> DEFINE c == m.client
<1>1. xid[c] \in Nat /\ xid'[c] \in Nat /\ GoesOn(c) /\ m.result \in ResultRecord
  BY CallFrame DEF BaseInv, Justified
<1>2. m.xid <= xid'[c]
  BY <1>1 DEF GoesOn
<1>3. ASSUME Current(m)' PROVE Answers(c, m.result)'
  <2>1. call'[c] # NoCall /\ m.xid = xid'[c]
    BY <1>3 DEF Current
  <2>2. xid'[c] = xid[c]
    BY <1>1, <2>1 DEF GoesOn
  <2>3. /\ call'[c] = call[c] /\ acked'[c] = acked[c]
        /\ xprt'[c] # "none" => xprt[c] # "none"
    BY <1>1, <2>1, <2>2 DEF GoesOn
  <2>4. Answers(c, m.result)
    BY <2>1, <2>2, <2>3 DEF Justified, Current
  <2>5. m.result.status # "undecoded" => Founded(Outcome(call'[c].args, m.result), seen'[c])
    BY <2>1, <2>3, <2>4, WatchFacts, FoundedGrows DEF Answers
  <2>6. proto' = proto /\ call[c].args \in Args /\ acked[c] \subseteq Key \X Block
    BY <2>1, <2>3, DataStep, CallFields DEF BaseInv
  <2>7. ASSUME proto = "tls", m.result.status = "ok", call[c].args.proc = "write",
               xprt'[c] # "none"
        PROVE  Has(local, <<call[c].args.key, call[c].args.block>>)'
    <3>1. <<call[c].args.key, call[c].args.block>> \in Key \X Block
      BY <2>6, <2>7, ArgsFields
    <3>2. Has(local, <<call[c].args.key, call[c].args.block>>)
      BY <2>3, <2>4, <2>7 DEF Answers
    <3>3. \A w \in Key \X Block : Has(local, w) => Has(local, w)'
      BY <2>7, DataStep
    <3> QED
      BY <2>3, <3>1, <3>2, <3>3
  <2>8. ASSUME proto = "tls", m.result.status = "ok", call[c].args.proc \in {"sync", "close"},
               ~hidden', NEW w \in acked[c]
        PROVE  Has(disk, w)'
    <3>1. Has(disk, w) /\ w \in Key \X Block
      BY <2>4, <2>6, <2>8, HiddenStays DEF Answers
    <3> QED
      BY <3>1, DataStep
  <2> QED
    BY <2>3, <2>5, <2>6, <2>7, <2>8 DEF Answers
<1> QED
  BY <1>1, <1>2, <1>3 DEF Justified

-----------------------------------------------------------------------------
(* What a result says is so when the handler returns it. *)
Holds(args, r) ==
    /\ r \in ResultRecord
    /\ args.proc # "exists" => r.yes = {}
    /\ args.proc = "exists" => r.yes \subseteq {k \in args.keys : local'[k] # None}
    /\ args.proc = "write" /\ r.status = "ok" => local'[args.key] = args.block
    /\ args.proc = "read" /\ r.status = "ok"
           => r.block \in Block /\ r.block = local'[args.key]
    /\ args.proc \in {"sync", "close"} /\ r.status = "ok" => hidden' \/ disk' = local

StaticsType == [exists : 0..Cardinality(Key), read : 0..1]

(* The record that svc_sendreply will find. *)
LEMMA DoneFields ==
  ASSUME NEW m, NEW r, Done(m, r)
  PROVE  /\ serving'.client = m.client /\ serving'.xid = m.xid /\ serving'.result = r
  BY DEF Done

(* No procedure is asked for more keys than there are. *)
LEMMA KeysBound ==
  ASSUME NEW ks \in SUBSET Key
  PROVE  Cardinality(ks) \in 0..Cardinality(Key) /\ Cardinality(ks) \in Nat
  BY FS_Subset, FS_CardinalityType

(* Each handler leaves a result that holds. *)
LEMMA HandlerResult ==
  ASSUME TypeOK, NEW m, m.args \in Args, ProcessRequest(m)
  PROVE  /\ serving'.client = m.client /\ serving'.xid = m.xid
         /\ Holds(m.args, serving'.result)
         /\ statics' \in StaticsType
<1> DEFINE args == m.args
<1>0. /\ local \in [Key -> Block \cup {None}] /\ statics \in StaticsType
      /\ statics.exists \in Nat /\ statics.read \in Nat
  BY FS_CardinalityType DEF TypeOK, StaticsType
<1>1. CASE args.proc = "hello" /\ HandleSayHello(m)
  BY <1>0, <1>1, DoneFields, ResultFields DEF HandleSayHello, Holds
<1>2. CASE args.proc = "exists" /\ HandleBlocksExist(m)
  <2>1. args.keys \in SUBSET Key
    BY <1>2, ArgsFields
  <2>2. Cardinality(args.keys) \in 0..Cardinality(Key) /\ Cardinality(args.keys) \in Nat
    BY <2>1, KeysBound
  <2>3. CASE /\ statics' = [statics EXCEPT !.exists = Cardinality(args.keys)]
             /\ Done(m, [Result("ok") EXCEPT !.len = Cardinality(args.keys),
                                          !.yes = {k \in args.keys : local[k] # None}])
    <3>1. /\ serving'.client = m.client /\ serving'.xid = m.xid
          /\ serving'.result = [Result("ok") EXCEPT !.len = Cardinality(args.keys),
                                               !.yes = {k \in args.keys : local[k] # None}]
      BY <2>3, DoneFields
    <3>2. serving'.result \in ResultRecord /\ serving'.result.yes = {k \in args.keys : local[k] # None}
      BY <2>1, <2>2, <3>1 DEF Result, ResultRecord
    <3>3. statics' \in StaticsType
      BY <1>0, <2>2, <2>3 DEF StaticsType
    <3> QED
      BY <1>2, <3>1, <3>2, <3>3 DEF HandleBlocksExist, Holds
  <2>4. CASE statics' = statics /\ Done(m, [Result("ok") EXCEPT !.len = statics.exists])
    <3>1. /\ serving'.client = m.client /\ serving'.xid = m.xid
          /\ serving'.result = [Result("ok") EXCEPT !.len = statics.exists]
      BY <2>4, DoneFields
    <3>2. serving'.result \in ResultRecord /\ serving'.result.yes = {}
      BY <1>0, <3>1 DEF Result, ResultRecord
    <3> QED
      BY <1>0, <1>2, <2>4, <3>1, <3>2 DEF Holds
  <2>5. CASE /\ statics' = [statics EXCEPT !.exists = Cardinality(args.keys)]
             /\ Done(m, [Result("ok") EXCEPT !.len = Cardinality(args.keys)])
    <3>1. /\ serving'.client = m.client /\ serving'.xid = m.xid
          /\ serving'.result = [Result("ok") EXCEPT !.len = Cardinality(args.keys)]
      BY <2>5, DoneFields
    <3>2. serving'.result \in ResultRecord /\ serving'.result.yes = {}
      BY <2>2, <3>1 DEF Result, ResultRecord
    <3>3. statics' \in StaticsType
      BY <1>0, <2>2, <2>5 DEF StaticsType
    <3> QED
      BY <1>2, <3>1, <3>2, <3>3 DEF Holds
  <2> QED
    BY <1>2, <2>3, <2>4, <2>5 DEF HandleBlocksExist
<1>3. CASE args.proc = "write" /\ HandleWriteBlock(m)
  <2>0. args.key \in Key /\ args.block \in Block /\ statics' = statics
    BY <1>3, ArgsFields DEF HandleWriteBlock
  <2>1. PICK status \in {"ok", "error"} :
             /\ Done(m, Result(status))
             /\ status = "ok" => local'[args.key] = args.block
    <3>1. CASE Done(m, Result("error"))
      BY <3>1
    <3>2. CASE /\ local' = [local EXCEPT ![args.key] = args.block]
               /\ Done(m, Result("ok"))
      BY <1>0, <2>0, <3>2
    <3>3. CASE /\ UNCHANGED local
               /\ Done(m, Result(IF Found(args.key) = args.block THEN "ok" ELSE "error"))
      <4>1. CASE Found(args.key) = args.block
        BY <2>0, <3>3, <4>1 DEF Found
      <4>2. CASE Found(args.key) # args.block
        BY <3>3, <4>2
      <4> QED
        BY <4>1, <4>2
    <3> QED
      BY <1>3, <3>1, <3>2, <3>3 DEF HandleWriteBlock, StoreWrite, Put
  <2> QED
    BY <1>0, <1>3, <2>0, <2>1, DoneFields, ResultFields DEF Holds
<1>4. CASE args.proc = "read" /\ HandleReadBlock(m)
  <2>0. /\ args.key \in Key /\ local' = local
        /\ Found(args.key) # None => Found(args.key) = local[args.key]
    BY <1>4, ArgsFields DEF HandleReadBlock, Found
  <2>1. CASE statics' = [statics EXCEPT !.read = 0] /\ Done(m, Result("error"))
    <3>1. statics' \in StaticsType
      BY <1>0, <2>1 DEF StaticsType
    <3> QED
      BY <1>4, <2>1, <3>1, DoneFields, ResultFields DEF Holds
  <2>2. ASSUME NEW b \in Block, b = local[args.key], NEW n \in Nat,
               NEW r, r = [Result("ok") EXCEPT !.block = b, !.len = n], Done(m, r),
               statics' \in StaticsType
        PROVE  /\ serving'.client = m.client /\ serving'.xid = m.xid
               /\ Holds(args, serving'.result) /\ statics' \in StaticsType
    <3>1. serving'.client = m.client /\ serving'.xid = m.xid /\ serving'.result = r
      BY <2>2, DoneFields
    <3>2. r = [status |-> "ok", block |-> b, len |-> n, yes |-> {}]
      BY <2>2 DEF Result
    <3>3. r \in ResultRecord /\ r.block = b /\ r.yes = {}
      BY <3>2 DEF ResultRecord
    <3> QED
      BY <1>4, <2>0, <2>2, <3>1, <3>3 DEF Holds
  <2>3. CASE /\ Found(args.key) \notin {None, Empty}
             /\ statics' = [statics EXCEPT !.read = 1]
             /\ Done(m, [Result("ok") EXCEPT !.block = Found(args.key), !.len = 1])
    <3>1. statics' \in StaticsType
      BY <1>0, <2>3 DEF StaticsType
    <3>2. PICK b \in Block : b = local[args.key]
      BY <1>0, <2>0, <2>3
    <3>3. PICK r : r = [Result("ok") EXCEPT !.block = b, !.len = 1] /\ Done(m, r)
      BY <2>0, <2>3, <3>2
    <3> QED
      BY <2>2, <3>1, <3>2, <3>3
  <2>4. CASE /\ Found(args.key) = Empty
             /\ Done(m, [Result("ok") EXCEPT !.block = Empty, !.len = statics.read])
             /\ UNCHANGED statics
    <3>1. PICK b \in Block, n \in Nat : b = local[args.key] /\ b = Empty /\ n = statics.read
      BY <1>0, <2>0, <2>4
    <3>2. PICK r : r = [Result("ok") EXCEPT !.block = b, !.len = n] /\ Done(m, r)
      BY <2>4, <3>1
    <3> QED
      BY <1>0, <2>2, <2>4, <3>1, <3>2
  <2> QED
    BY <1>4, <2>1, <2>3, <2>4 DEF HandleReadBlock
<1>5. CASE args.proc \in {"sync", "close"} /\ HandleSync(m)
  <2>1. PICK status \in {"ok", "error"} :
             Done(m, Result(status)) /\ (status = "ok" => hidden' \/ disk' = local)
    BY <1>5 DEF HandleSync
  <2>2. statics' = statics
    BY <1>5 DEF HandleSync
  <2> QED
    BY <1>0, <1>5, <2>1, <2>2, DoneFields, ResultFields DEF Holds
<1>6. CASE args.proc \notin {"sync", "close"} /\ Undecodable(m)
  BY <1>0, <1>6, DoneFields, ResultFields DEF Undecodable, Holds
<1> QED
  BY <1>1, <1>2, <1>3, <1>4, <1>5, <1>6 DEF ProcessRequest

(* A result that holds is founded on what is stored. *)
LEMMA HoldsFounded ==
  ASSUME NEW args \in Args, NEW r, Holds(args, r), NEW stored,
         Stored(args) \subseteq stored, local' \in [Key -> Block \cup {None}]
  PROVE  Founded(Outcome(args, r), stored)
<1> DEFINE out == Outcome(args, r)
<1>1. /\ out.proc = args.proc /\ out.args = args /\ out.block = r.block /\ out.yes = r.yes
      /\ args.proc # "exists" => out.ok = (r.status = "ok")
  BY OutcomeFields, ZenonT(30) DEF Holds
<1> HIDE DEF out
<1>2. ASSUME out.ok, out.proc = "write"
      PROVE  <<out.args.key, out.args.block>> \in stored
  <2>1. args.proc = "write" /\ local'[args.key] = args.block /\ args.block # None
    BY <1>1, <1>2, ArgsFields DEF Holds
  <2>2. <<args.key, args.block>> \in Stored(args)
    BY <2>1 DEF Stored
  <2> QED
    BY <1>1, <2>2
<1>3. ASSUME out.ok, out.proc = "read"
      PROVE  <<out.args.key, out.block>> \in stored
  <2>1. args.proc = "read" /\ r.block = local'[args.key] /\ r.block # None
    BY <1>1, <1>3 DEF Holds
  <2>2. <<args.key, r.block>> \in Stored(args)
    BY <2>1 DEF Stored
  <2> QED
    BY <1>1, <2>2
<1>4. ASSUME NEW k \in out.yes
      PROVE  \E b \in Block : <<k, b>> \in stored
  <2>1. args.proc = "exists" /\ k \in args.keys /\ local'[k] # None
    BY <1>1 DEF Holds
  <2>2. k \in Key
    BY <2>1, ArgsFields
  <2>3. <<k, local'[k]>> \in Stored(args)
    BY <2>1 DEF Stored
  <2> QED
    BY <2>1, <2>2, <2>3
<1> QED
  BY <1>2, <1>3, <1>4 DEF Founded, out

(* The request that is served is answered for the call it is from. *)
LEMMA ServeJustified ==
  ASSUME TypeOK, BaseInv, NetInv, DiskInv, AckedInv, Watch, Unmoved,
         NEW c \in Client, ServeRequest(c)
  PROVE  /\ serving'.client = c /\ serving'.xid \in Nat /\ serving'.xid <= xid'[c]
         /\ Justified(serving)' /\ statics' \in StaticsType
<1>1. PICK m \in net : Request(c, m) /\ ProcessRequest(m)
  BY DEF ServeRequest
<1>2. /\ m.args \in Args /\ m.xid \in Nat /\ m.xid <= xid[c] /\ m.client = c
      /\ call[c] # NoCall /\ m.xid = xid[c] => m.args = call[c].args
  BY <1>1 DEF NetInv, Request, Current
<1>3. UNCHANGED <<proto, xprt, xid, call, acked>> /\ (proto = "tls" => xprt[c] = "idle")
  BY DEF ServeRequest, Unmoved
<1>4. /\ serving'.client = c /\ serving'.xid = m.xid /\ Holds(m.args, serving'.result)
      /\ statics' \in StaticsType
  BY <1>1, <1>2, HandlerResult
<1>5. Moves
  BY DEF Moves
<1>6. local' \in [Key -> Block \cup {None}]
  BY <1>5, DataStep
<1>7. ASSUME Current(serving)'
      PROVE  Answers(c, serving.result)'
  <2> DEFINE args == m.args
             r == serving'.result
  <2>1. call[c] # NoCall /\ call'[c] = call[c] /\ call[c].args = args
    BY <1>2, <1>3, <1>4, <1>7 DEF Current
  <2>2. Stored(args) \subseteq seen'[c]
    BY <2>1, WatchFacts
  <2>3. Founded(Outcome(args, r), seen'[c])
    BY <1>2, <1>4, <1>6, <2>2, HoldsFounded
  <2>4. ASSUME r.status = "ok", args.proc = "write"
        PROVE  Has(local, <<args.key, args.block>>)'
    <3>1. local'[args.key] = args.block /\ args.block # None
      BY <1>2, <1>4, <2>4, ArgsFields DEF Holds
    <3> QED
      BY <3>1 DEF Has
  <2>5. ASSUME proto = "tls", r.status = "ok", args.proc \in {"sync", "close"},
               ~hidden', NEW w \in acked[c]
        PROVE  Has(disk, w)'
    <3>1. disk' = local
      BY <1>4, <2>5 DEF Holds
    <3>2. Has(local, w) /\ w \in Key \X Block
      BY <1>3, <2>5 DEF AckedInv, BaseInv
    <3>3. args.proc \in {"sync", "close"} => UNCHANGED <<unchecked, options>>
      BY <1>1, <2>5 DEF ProcessRequest, HandleSync
    <3> QED
      BY <2>5, <3>1, <3>2, <3>3 DEF Has, Protected
  <2> QED
    BY <1>3, <2>1, <2>3, <2>4, <2>5 DEF Answers
<1>8. Justified(serving)'
  BY <1>4, <1>7 DEF Justified, Holds
<1> QED
  BY <1>2, <1>3, <1>4, <1>8

-----------------------------------------------------------------------------
(* Where the messages come from. *)
LEMMA NewMessages ==
  ASSUME TypeOK, BaseInv, Moves, NEW m \in net'
  PROVE  \/ m \in net
         \/ \E c \in Client, a \in Args : m = Packet(c, a, xid'[c]) /\ call'[c].args = a
         \/ /\ serving # NoRequest
            /\ m = [dir |-> "reply", client |-> serving.client,
                    xid |-> serving.xid, result |-> serving.result]
<1>1. ASSUME NEW c \in Client, ClientMoves(c)
      PROVE  \/ m \in net
             \/ \E a \in Args : m = Packet(c, a, xid'[c]) /\ call'[c].args = a
  <2>0. Hello \in Args /\ Operations \subseteq Args
    BY DEF Args
  <2>1. CASE Call(c, Hello) \/ \E args \in Operations : Call(c, args)
    BY <2>0, <2>1, CallFacts
  <2>2. CASE SendAgain(c)
    <3>1. CASE net' \subseteq net
      BY <3>1
    <3>2. CASE /\ call'[c].args = call[c].args /\ call[c] # NoCall
               /\ net' \subseteq net \cup {Packet(c, call[c].args, xid'[c])}
      BY <3>2, CallFields
    <3> QED
      BY <2>2, <3>1, <3>2, AgainFacts
  <2>3. CASE net' \subseteq net
    BY <2>3
  <2> QED
    BY <1>1, <2>1, <2>2, <2>3
       DEF ClientMoves, Open, Operation, Handshake, GivesUp, HandshakeFails, ByeReturns,
           ReceiveReply, SkipReply, CallFails
<1>2. CASE SendReply
  BY <1>2 DEF SendReply
<1>3. ASSUME NEW c \in Client,
             \/ Accept(c) \/ ServerHandshakeFails(c) \/ ServeRequest(c) \/ Reap(c)
             \/ Lose(c) \/ ClientExits(c)
      PROVE  m \in net
  BY <1>3 DEF Accept, ServerHandshakeFails, ServeRequest, Reap, Lose, ClientExits
<1>4. CASE ServerEnds
  BY <1>4 DEF ServerEnds
<1>5. CASE UNCHANGED transportVars
  BY <1>5 DEF transportVars
<1>6. ASSUME NEW c \in Client, Retransmit(c)
      PROVE  \/ m \in net
             \/ \E a \in Args : m = Packet(c, a, xid'[c]) /\ call'[c].args = a
  BY <1>6, CallFields DEF Retransmit
<1> QED
  BY <1>1, <1>2, <1>3, <1>4, <1>5, <1>6 DEF Moves

(* The messages after a step. *)
LEMMA NetStep ==
  ASSUME TypeOK, BaseInv, NetInv, ServingInv, DiskInv, Moves, Watch,
         (\E c \in Client : ClientMoves(c)) \/ Unmoved
  PROVE  NetInv'
<1> SUFFICES ASSUME NEW m \in net'
             PROVE  /\ m.client \in Client /\ m.xid \in Nat /\ m.xid <= xid'[m.client]
                    /\ m.dir = "request" =>
                          m.args \in Args /\ (Current(m)' => m.args = call'[m.client].args)
                    /\ m.dir = "reply" => Justified(m)'
  BY DEF NetInv
<1>1. CASE m \in net
  <2>1. m.client \in Client /\ m.xid \in Nat /\ m.xid <= xid[m.client]
    BY <1>1 DEF NetInv
  <2>2. /\ xid[m.client] \in Nat /\ xid'[m.client] \in Nat /\ GoesOn(m.client)
    BY <2>1, CallFrame DEF BaseInv
  <2>3. m.xid <= xid'[m.client]
    BY <2>1, <2>2 DEF GoesOn
  <2>4. ASSUME m.dir = "request", Current(m)' PROVE m.args = call'[m.client].args
    <3>1. call'[m.client] # NoCall /\ m.xid = xid'[m.client]
      BY <2>4 DEF Current
    <3>2. xid'[m.client] = xid[m.client]
      BY <2>1, <2>2, <3>1 DEF GoesOn
    <3>3. call'[m.client] = call[m.client]
      BY <2>2, <3>1, <3>2 DEF GoesOn
    <3> QED
      BY <1>1, <2>4, <3>1, <3>2, <3>3 DEF NetInv, Current
  <2>5. m.dir = "reply" => Justified(m)'
    BY <1>1, <2>1, JustifiedStays DEF NetInv
  <2> QED
    BY <1>1, <2>1, <2>3, <2>4, <2>5 DEF NetInv
<1>2. ASSUME NEW c \in Client, NEW a \in Args, m = Packet(c, a, xid'[c]), call'[c].args = a
      PROVE  /\ m.client \in Client /\ m.xid \in Nat /\ m.xid <= xid'[m.client]
             /\ m.dir = "request" =>
                   m.args \in Args /\ (Current(m)' => m.args = call'[m.client].args)
             /\ m.dir = "reply" => Justified(m)'
  <2>1. /\ m.dir = "request" /\ m.client = c /\ m.xid = xid'[c] /\ m.args = a
    BY <1>2 DEF Packet
  <2>2. xid'[c] \in Nat
    BY CallFrame
  <2> QED
    BY <1>2, <2>1, <2>2
<1>3. CASE /\ serving # NoRequest
           /\ m = [dir |-> "reply", client |-> serving.client,
                   xid |-> serving.xid, result |-> serving.result]
  <2>1. /\ m.dir = "reply" /\ m.client = serving.client /\ m.xid = serving.xid
        /\ m.result = serving.result
    BY <1>3
  <2>2. /\ m.client \in Client /\ m.xid \in Nat /\ m.xid <= xid[m.client] /\ Justified(m)
    BY <1>3, <2>1 DEF ServingInv, Justified, Current
  <2> QED
    BY <2>1, <2>2, JustifiedStays
<1> QED
  BY <1>1, <1>2, <1>3, NewMessages

(* The request being served after a step. *)
LEMMA ServingStep ==
  ASSUME TypeOK, BaseInv, NetInv, ServingInv, DiskInv, AckedInv, Moves, Watch,
         (\E c \in Client : ClientMoves(c)) \/ Unmoved
  PROVE  ServingInv'
<1>1. CASE serving' = serving
  BY <1>1, JustifiedStays DEF ServingInv, Justified, Current
<1>2. CASE serving' = NoRequest
  BY <1>2 DEF ServingInv, NoRequest
<1>3. ASSUME NEW c \in Client, ServeRequest(c), Unmoved
      PROVE  ServingInv'
  BY <1>3, ServeJustified DEF ServingInv
<1>4. ASSUME NEW c \in Client, ServeRequest(c), NEW d \in Client, ClientMoves(d)
      PROVE  FALSE
  <2>1. serving = NoRequest /\ serving' = serving
    BY <1>4, ClientData DEF ServeRequest, Idle
  <2>2. serving'.client \in Client
    BY <1>4, HandlerResult DEF ServeRequest, NetInv, Request
  <2> QED
    BY <2>1, <2>2 DEF NoRequest
<1>5. CASE SendReply \/ ServerEnds
  BY <1>2, <1>5 DEF SendReply, ServerEnds, Signal, Crash, EncodeCrash, Stopped
<1>6. ASSUME NEW c \in Client, ClientMoves(c)
      PROVE  ServingInv'
  BY <1>1, <1>6, ClientData
<1>7. ASSUME NEW c \in Client,
             \/ Accept(c) \/ ServerHandshakeFails(c) \/ Reap(c)
             \/ Lose(c) \/ Retransmit(c) \/ ClientExits(c)
      PROVE  ServingInv'
  BY <1>1, <1>7 DEF Accept, ServerHandshakeFails, Reap, Lose, Retransmit, ClientExits, serverVars
<1>8. CASE Restart \/ \E k \in Key : WriteBack(k)
  BY <1>1, <1>8 DEF Restart, WriteBack
<1> QED
  BY <1>3, <1>4, <1>5, <1>6, <1>7, <1>8 DEF Moves

-----------------------------------------------------------------------------
(* The states of the server and of the connections. *)
Control ==
    /\ server \in {"up", "down"} /\ statics \in StaticsType
    /\ store \in [Client -> {"closed", "connecting", "open", "closing"}]
    /\ link \in [Client -> {"none", "connected", "silent", "bye", "lost"}]
    /\ xprt \in [Client -> {"none", "queued", "handshaking", "idle"}]
    /\ \A c \in Client : store[c] \in {"connecting", "closing"} => call[c] = NoCall
    /\ server = "down" => serving = NoRequest /\ \A c \in Client : xprt[c] = "none"
    /\ \A c, d \in Client : xprt[c] = "handshaking" /\ xprt[d] = "handshaking" => c = d

(* A client's move keeps them. *)
LEMMA ClientControl ==
  ASSUME TypeOK, BaseInv, Control, NEW c \in Client, ClientMoves(c)
  PROVE  Control'
<1>1. /\ server' = server /\ statics' = statics /\ serving' = serving
      /\ store' \in [Client -> {"closed", "connecting", "open", "closing"}]
      /\ link' \in [Client -> {"none", "connected", "silent", "bye", "lost"}]
      /\ xprt' \in [Client -> {"none", "queued", "handshaking", "idle"}]
  BY ClientData, ClientTransport
<1>2. ASSUME NEW d \in Client, store'[d] \in {"connecting", "closing"}
      PROVE  call'[d] = NoCall
  <2>1. CASE d # c
    <3>1. store'[d] = store[d] /\ call'[d] = call[d]
      BY <2>1, ClientTransport, ClientCalls DEF OthersWait
    <3> QED
      BY <1>2, <3>1 DEF Control
  <2>2. CASE d = c
    <3>1. CASE Open(c)
      BY <1>2, <2>2, <3>1 DEF Open, TypeOK
    <3>2. CASE Operation(c)
      BY <1>2, <2>2, <3>2 DEF Operation
    <3>3. CASE Handshake(c) \/ GivesUp(c) \/ HandshakeFails(c) \/ ByeReturns(c)
      BY <1>2, <2>2, <3>3 DEF Handshake, GivesUp, HandshakeFails, ByeReturns, TypeOK
    <3>4. CASE ReceiveReply(c) \/ CallFails(c)
      BY <2>2, <3>4, ReturnFacts DEF ReceiveReply, CallFails
    <3>5. CASE SkipReply(c)
      BY <1>2, <2>2, <3>5 DEF SkipReply, Control
    <3>6. CASE SendAgain(c)
      <4>1. CASE call'[c] = NoCall
        BY <2>2, <4>1
      <4>2. CASE store' = store
        BY <1>2, <2>2, <3>6, <4>2 DEF SendAgain, Control
      <4> QED
        BY <3>6, <4>1, <4>2, AgainFacts, ReturnFacts
    <3> QED
      BY <3>1, <3>2, <3>3, <3>4, <3>5, <3>6 DEF ClientMoves
  <2> QED
    BY <2>1, <2>2
<1>3. ASSUME NEW d \in Client
      PROVE  /\ xprt'[d] = "handshaking" => xprt[d] = "handshaking"
             /\ xprt'[d] # "none" => xprt[d] # "none" \/ server = "up"
  <2>1. CASE d # c
    BY <2>1, ClientTransport
  <2>2. CASE d = c
    BY <2>2, ClientTransport
  <2> QED
    BY <2>1, <2>2
<1>4. server' = "down" => serving' = NoRequest /\ \A d \in Client : xprt'[d] = "none"
  BY <1>1, <1>3 DEF Control
<1>5. \A d, e \in Client : xprt'[d] = "handshaking" /\ xprt'[e] = "handshaking" => d = e
  BY <1>3 DEF Control
<1>6. server' \in {"up", "down"} /\ statics' \in StaticsType
  BY <1>1 DEF Control
<1> QED
  BY <1>1, <1>2, <1>4, <1>5, <1>6 DEF Control

(* And so do the server and the environment. *)
LEMMA ServerControl ==
  ASSUME TypeOK, BaseInv, NetInv, Control, Moves, Unmoved
  PROVE  Control' \/ \E c \in Client : ClientMoves(c)
<1> SUFFICES ASSUME ~\E c \in Client : ClientMoves(c) PROVE Control'
  OBVIOUS
<1>1. UNCHANGED <<call, store>>
  BY ServerFrame DEF Unmoved
<1>2. /\ store' \in [Client -> {"closed", "connecting", "open", "closing"}]
      /\ \A c \in Client : store'[c] \in {"connecting", "closing"} => call'[c] = NoCall
      /\ server \in {"up", "down"} /\ statics \in StaticsType
      /\ link \in [Client -> {"none", "connected", "silent", "bye", "lost"}]
      /\ xprt \in [Client -> {"none", "queued", "handshaking", "idle"}]
  BY <1>1 DEF Control
<1>3. CASE SendReply
  BY <1>2, <1>3 DEF SendReply, Control
<1>4. ASSUME NEW c \in Client, Accept(c)
      PROVE  Control'
  <2>1. /\ server = "up" /\ server' = server /\ statics' = statics /\ link' = link
        /\ xprt' = [xprt EXCEPT ![c] = "handshaking"]
        /\ \A d \in Client : xprt[d] # "handshaking"
    BY <1>4 DEF Accept, Idle, serverVars
  <2>2. \A d, e \in Client : xprt'[d] = "handshaking" /\ xprt'[e] = "handshaking" => d = e
    BY <1>2, <2>1
  <2>3. xprt' \in [Client -> {"none", "queued", "handshaking", "idle"}]
    BY <1>2, <2>1
  <2> QED
    BY <1>2, <2>1, <2>2, <2>3 DEF Control
<1>5. ASSUME NEW c \in Client, ServeRequest(c)
      PROVE  Control'
  <2>1. server' = "up" /\ link' = link /\ xprt' = xprt /\ statics' \in StaticsType
    BY <1>5, HandlerResult DEF ServeRequest, ProcessRequest, NetInv, Request
  <2> QED
    BY <1>2, <2>1 DEF Control
<1>6. ASSUME NEW c \in Client, Reap(c)
      PROVE  Control'
  <2>1. /\ server = "up" /\ server' = server /\ statics' = statics /\ link' = link
        /\ xprt' = [xprt EXCEPT ![c] = "none"]
    BY <1>6 DEF Reap, Idle, serverVars
  <2>2. /\ xprt' \in [Client -> {"none", "queued", "handshaking", "idle"}]
        /\ \A d \in Client : xprt'[d] = "handshaking" => xprt[d] = "handshaking"
    BY <1>2, <2>1
  <2> QED
    BY <1>2, <2>1, <2>2 DEF Control
<1>10. ASSUME NEW c \in Client, ServerHandshakeFails(c)
      PROVE  Control'
  <2>1. /\ server = "up" /\ server' = server /\ statics' = statics
        /\ xprt' = [xprt EXCEPT ![c] = "none"]
        /\ \E l \in {"lost", "none", link[c]} : link' = [link EXCEPT ![c] = l]
    BY <1>10 DEF ServerHandshakeFails
  <2>2. /\ xprt' \in [Client -> {"none", "queued", "handshaking", "idle"}]
        /\ \A d \in Client : xprt'[d] = "handshaking" => xprt[d] = "handshaking"
    BY <1>2, <2>1
  <2>3. link' \in [Client -> {"none", "connected", "silent", "bye", "lost"}]
    BY <1>2, <2>1
  <2> QED
    BY <1>2, <2>1, <2>2, <2>3 DEF Control
<1>7. CASE ServerEnds
  <2>1. /\ server' = "down" /\ serving' = NoRequest /\ statics' = FreshStatics
        /\ xprt' = [c \in Client |-> "none"]
        /\ link' = [c \in Client |-> CASE link[c] \in {"connected", "bye"} -> "lost"
                                       [] link[c] = "silent" -> "none"
                                       [] OTHER -> link[c]]
    BY <1>7 DEF ServerEnds, Signal, Crash, EncodeCrash, Stopped
  <2>2. statics' \in StaticsType
    BY <2>1, FS_CardinalityType DEF FreshStatics, StaticsType
  <2>3. link' \in [Client -> {"none", "connected", "silent", "bye", "lost"}]
    BY <1>2, <2>1
  <2> QED
    BY <1>2, <2>1, <2>2, <2>3 DEF Control
<1>8. CASE (Restart \/ \E k \in Key : WriteBack(k)) /\ UNCHANGED transportVars
  BY <1>2, <1>8 DEF Restart, WriteBack, transportVars, Control
<1>9. ASSUME NEW c \in Client, Lose(c) \/ Retransmit(c) \/ ClientExits(c)
      PROVE  Control'
  <2>1. link' \in [Client -> {"none", "connected", "silent", "bye", "lost"}]
    BY <1>2, <1>9 DEF Lose, Retransmit, ClientExits
  <2> QED
    BY <1>2, <1>9, <2>1 DEF Lose, Retransmit, ClientExits, Control, serverVars
<1> QED
  BY <1>3, <1>4, <1>5, <1>6, <1>7, <1>8, <1>9, <1>10 DEF Moves

(* A server that shakes hands with one client at a time. *)
LEMMA AtMostOne ==
  ASSUME NEW f,
         \A c, d \in Client : f[c] = "handshaking" /\ f[d] = "handshaking" => c = d
  PROVE  Cardinality({c \in Client : f[c] = "handshaking"}) <= 1
<1> DEFINE S == {c \in Client : f[c] = "handshaking"}
<1>1. S = {} \/ \E d : S = {d}
  <2>1. ASSUME NEW d \in S PROVE S = {d}
    OBVIOUS
  <2> QED
    BY <2>1
<1> HIDE DEF S
<1>2. Cardinality(S) = 0 \/ Cardinality(S) = 1
  BY <1>1, FS_EmptySet, FS_Singleton
<1>3. Cardinality(S) <= 1
  BY <1>2
<1> QED
  BY <1>3 DEF S

(* The part of the type invariant that is about control. *)
LEMMA ControlFromType ==
  ASSUME TypeOK, BaseInv
  PROVE  Control
  BY DEF TypeOK, BaseInv, Control, StaticsType

(* Type correctness after a step. *)
LEMMA TypeStep ==
  ASSUME TypeOK, BaseInv, NetInv, DiskInv, Moves,
         (\E c \in Client : ClientMoves(c)) \/ Unmoved
  PROVE  TypeOK' /\ Control'
<1>1. Control'
  BY ControlFromType, ClientControl, ServerControl
<1>2. call' \in [Client -> CallRecord]
  BY CallFrame
<1>3. local' \in [Key -> Block \cup {None}] /\ disk' \in [Key -> Block \cup {None}]
  BY DataStep
<1>4. Cardinality({c \in Client : xprt'[c] = "handshaking"}) <= 1
  BY <1>1, AtMostOne DEF Control
<1>5. \A c \in Client : call'[c] # NoCall => call'[c].refreshes \in 0..MaxRefreshes
  BY <1>2 DEF CallRecord
<1>6. TypeOK'
  BY <1>1, <1>3, <1>4, <1>5 DEF Control, TypeOK, StaticsType
<1> QED
  BY <1>1, <1>6

-----------------------------------------------------------------------------
(* A reply that is received is one that the call may take. *)
LEMMA ReceivedAnswers ==
  ASSUME NetInv, NEW c \in Client, call[c] # NoCall, NEW m \in net, Reply(c, m), m.xid = xid[c]
  PROVE  m.result \in ResultRecord /\ Answers(c, m.result)
  BY DEF NetInv, Reply, Justified, Current

(* Only the client that moves changes what it was told. *)
LEMMA AckedDomain ==
  ASSUME TypeOK, BaseInv, NEW c \in Client, ClientMoves(c)
  PROVE  acked' = [acked EXCEPT ![c] = acked'[c]]
<1>0. acked = [acked EXCEPT ![c] = acked[c]]
  BY DEF BaseInv
<1>1. ASSUME NEW s, acked' = [acked EXCEPT ![c] = s]
      PROVE  acked' = [acked EXCEPT ![c] = acked'[c]]
  BY <1>1 DEF BaseInv
<1>2. ASSUME NEW out, Return(c, out)
      PROVE  acked' = [acked EXCEPT ![c] = acked'[c]]
  BY <1>1, <1>2 DEF Return
<1>3. CASE SendAgain(c)
  BY <1>0, <1>2, <1>3, AgainFacts
<1> QED
  BY <1>0, <1>1, <1>2, <1>3
     DEF ClientMoves, Open, Operation, Handshake, GivesUp, HandshakeFails, ByeReturns,
         ReceiveReply, SkipReply, CallFails

(* The types of calls and acknowledged writes. *)
LEMMA BaseStep ==
  ASSUME TypeOK, BaseInv, NetInv, DiskInv, Moves,
         (\E c \in Client : ClientMoves(c)) \/ Unmoved
  PROVE  BaseInv'
<1>1. /\ options' \in Options /\ proto' \in {"tls", "udp"}
      /\ unchecked' \in BOOLEAN /\ hidden' \in BOOLEAN
  BY DataStep, HiddenStays DEF BaseInv
<1>2. xid' \in [Client -> Nat] /\ call' \in [Client -> CallRecord]
  BY CallFrame
<1>3. acked' \in [Client -> SUBSET (Key \X Block)] /\ synced' \in SUBSET (Key \X Block)
  <2>0. acked \in [Client -> SUBSET (Key \X Block)] /\ synced \in SUBSET (Key \X Block)
    BY DEF BaseInv
  <2>1. ASSUME NEW c \in Client, ClientMoves(c)
        PROVE  acked' \in [Client -> SUBSET (Key \X Block)] /\ synced' \in SUBSET (Key \X Block)
    <3>1. acked'[c] \in SUBSET (Key \X Block) /\ synced' \in SUBSET (Key \X Block)
      <4>1. CASE Acknowledges(c)
        <5>1. call[c] # NoCall => call[c].args \in Args
          BY CallFields
        <5> QED
          BY <2>0, <4>1, <5>1, ArgsFields DEF Acknowledges
      <4> QED
        BY <2>0, <2>1, <4>1, ClientAcked
    <3> QED
      BY <2>0, <2>1, <3>1, AckedDomain
  <2> QED
    BY <2>0, <2>1 DEF Unmoved
<1>4. \A c, d \in Client : xprt'[c] = "handshaking" /\ xprt'[d] = "handshaking" => c = d
  BY TypeStep DEF Control
<1> QED
  BY <1>1, <1>2, <1>3, <1>4 DEF BaseInv, CallRecord

(* Acknowledged writes stay in the store while the connection lasts. *)
LEMMA AckedStep ==
  ASSUME TypeOK, BaseInv, NetInv, DiskInv, AckedInv, Moves,
         (\E c \in Client : ClientMoves(c)) \/ Unmoved
  PROVE  AckedInv'
<1> SUFFICES ASSUME proto = "tls", NEW d \in Client, xprt'[d] # "none", NEW w \in acked'[d]
             PROVE  Has(local, w)'
  BY DataStep DEF AckedInv
<1>1. \A v \in Key \X Block : Has(local, v) => Has(local, v)'
  BY DataStep
<1>2. CASE w \in acked[d] /\ xprt[d] # "none"
  BY <1>1, <1>2 DEF AckedInv, BaseInv
<1>3. ASSUME NEW c \in Client, ClientMoves(c), d # c
      PROVE  w \in acked[d] /\ xprt[d] # "none"
  BY <1>3, ClientAcked, ClientTransport
<1>4. ASSUME ClientMoves(d), ~(w \in acked[d] /\ xprt[d] # "none")
      PROVE  Has(local, w)'
  <2>1. ~Open(d)
    BY DEF Open, BaseInv
  <2>2. xprt[d] # "none"
    BY <1>4, <2>1, ClientTransport
  <2>3. Acknowledges(d)
    BY <1>4, <2>1, <2>2, ClientAcked
  <2>4. PICK m \in net :
             /\ Reply(d, m) /\ m.xid = xid[d] /\ call[d] # NoCall /\ m.result.status = "ok"
             /\ call[d].args.proc = "write" /\ w = <<call[d].args.key, call[d].args.block>>
    BY <1>4, <2>2, <2>3 DEF Acknowledges
  <2>5. Answers(d, m.result) /\ call[d].args \in Args
    BY <2>4, ReceivedAnswers, CallFields
  <2>6. Has(local, w) /\ w \in Key \X Block
    BY <2>2, <2>4, <2>5, ArgsFields DEF Answers
  <2> QED
    BY <1>1, <2>6
<1>5. CASE ~\E c \in Client : ClientMoves(c)
  BY <1>2, <1>5, ServerFrame DEF Unmoved
<1> QED
  BY <1>2, <1>3, <1>4, <1>5

(* What was synchronised stays on the medium. *)
LEMMA SyncedStep ==
  ASSUME TypeOK, BaseInv, NetInv, DiskInv, SyncedInv, Moves,
         (\E c \in Client : ClientMoves(c)) \/ Unmoved
  PROVE  SyncedInv'
<1> SUFFICES ASSUME ~hidden', NEW w \in synced' PROVE Has(disk, w)'
  BY DEF SyncedInv
<1>0. ~hidden
  BY HiddenStays
<1>1. \A v \in Key \X Block : Has(disk, v) => Has(disk, v)'
  BY DataStep
<1>2. CASE w \in synced
  BY <1>0, <1>1, <1>2 DEF SyncedInv, BaseInv
<1>3. CASE w \notin synced
  <2>1. PICK c \in Client : ClientMoves(c)
    BY <1>3 DEF Unmoved
  <2>2. Acknowledges(c)
    BY <1>3, <2>1, ClientAcked
  <2>3. PICK m \in net :
             /\ Reply(c, m) /\ m.xid = xid[c] /\ call[c] # NoCall /\ m.result.status = "ok"
             /\ call[c].args.proc \in {"sync", "close"} /\ proto = "tls" /\ w \in acked[c]
    BY <1>3, <2>2 DEF Acknowledges
  <2>4. Answers(c, m.result)
    BY <2>3, ReceivedAnswers
  <2>5. Has(disk, w) /\ w \in Key \X Block
    BY <1>0, <2>3, <2>4 DEF Answers, BaseInv
  <2> QED
    BY <1>1, <2>5
<1> QED
  BY <1>2, <1>3

(* No result without a cause. *)
LEMMA EffectStep ==
  ASSUME TypeOK, BaseInv, NetInv, CallsTakeEffect, Moves,
         (\E c \in Client : ClientMoves(c)) \/ Unmoved
  PROVE  CallsTakeEffect'
<1>1. ASSUME NEW c \in Client, Return(c, Failure(call[c].args)) PROVE unfounded' = unfounded
  <2>1. Founded(Failure(call[c].args), seen[c])
    BY DEF Founded, Failure
  <2> QED
    BY <1>1, <2>1 DEF Return
<1>2. ASSUME NEW c \in Client, ReceiveReply(c) PROVE unfounded' = unfounded
  <2>1. PICK m \in net : /\ Reply(c, m) /\ m.xid = xid[c] /\ m.result.status # "undecoded"
                         /\ Return(c, Outcome(call[c].args, m.result))
    BY <1>2 DEF ReceiveReply, Matches
  <2>2. Founded(Outcome(call[c].args, m.result), seen[c])
    BY <1>2, <2>1, ReceivedAnswers DEF ReceiveReply, Answers
  <2> QED
    BY <2>1, <2>2 DEF Return
<1>3. ASSUME NEW c \in Client, ClientMoves(c) PROVE unfounded' = unfounded
  BY <1>1, <1>2, <1>3, AgainFacts
     DEF ClientMoves, Open, Operation, Handshake, GivesUp, HandshakeFails, ByeReturns,
         SkipReply, CallFails
<1> QED
  BY <1>3 DEF Unmoved, CallsTakeEffect

-----------------------------------------------------------------------------
(* The invariant is inductive. *)
LEMMA RemoteStep ==
  ASSUME RemoteInv, Next
  PROVE  RemoteInv'
<1>1. /\ TypeOK /\ BaseInv /\ NetInv /\ ServingInv /\ DiskInv /\ AckedInv /\ SyncedInv
      /\ CallsTakeEffect
  BY DEF RemoteInv
<1>2. Moves /\ Watch /\ ((\E c \in Client : ClientMoves(c)) \/ Unmoved)
  BY NextMoves DEF Unmoved
<1>3. TypeOK' /\ BaseInv'
  BY <1>1, <1>2, TypeStep, BaseStep
<1>4. NetInv' /\ ServingInv'
  BY <1>1, <1>2, NetStep, ServingStep
<1>5. DiskInv'
  BY <1>1, <1>2, DataStep
<1>6. AckedInv' /\ SyncedInv' /\ CallsTakeEffect'
  BY <1>1, <1>2, AckedStep, SyncedStep, EffectStep
<1> QED
  BY <1>3, <1>4, <1>5, <1>6 DEF RemoteInv

(* It holds at the start. *)
LEMMA RemoteInit ==
  ASSUME Init
  PROVE  RemoteInv
<1>1. Control
  BY FS_CardinalityType
     DEF Init, ServerInit, TransportInit, FreshStatics, StaticsType, Control
<1>2. Cardinality({c \in Client : xprt[c] = "handshaking"}) <= 1
  BY <1>1, AtMostOne DEF Control
<1>3. BaseInv
  BY DEF Init, ServerInit, TransportInit, BaseInv
<1>4. local \in [Key -> Block \cup {None}] /\ disk \in [Key -> Block \cup {None}] /\ DiskInv
  BY DEF Init, ServerInit, DiskInv
<1>5. TypeOK
  BY <1>1, <1>2, <1>4 DEF Control, TypeOK, StaticsType, Init, TransportInit
<1>6. NetInv /\ ServingInv /\ SyncedInv /\ CallsTakeEffect
  BY DEF Init, ServerInit, TransportInit, NetInv, ServingInv, SyncedInv, CallsTakeEffect
<1>7. AckedInv
  BY DEF Init, AckedInv
<1> QED
  BY <1>3, <1>4, <1>5, <1>6, <1>7 DEF RemoteInv

(* A step that changes nothing. *)
LEMMA RemoteStutter ==
  ASSUME RemoteInv, UNCHANGED vars
  PROVE  RemoteInv'
<1> USE DEF vars, serverVars, transportVars, clientVars
<1>1. TypeOK' /\ BaseInv' /\ DiskInv' /\ CallsTakeEffect'
  BY DEF RemoteInv, TypeOK, BaseInv, DiskInv, CallsTakeEffect, Protected
<1>2. AckedInv' /\ SyncedInv'
  BY DEF RemoteInv, AckedInv, SyncedInv, Has, Protected
<1>3. \A m : Current(m)' <=> Current(m)
  BY DEF Current
<1>4. \A c, r : Answers(c, r)' <=> Answers(c, r)
  BY DEF Answers, Has, Protected
<1>5. \A m : Justified(m)' <=> Justified(m)
  BY <1>3, <1>4 DEF Justified
<1>6. NetInv' /\ ServingInv'
  BY <1>3, <1>5, SMTT(30) DEF RemoteInv, NetInv, ServingInv, Justified, Current, Answers, Has, Protected
<1> QED
  BY <1>1, <1>2, <1>6 DEF RemoteInv

(* RemoteInv holds in every state of the system. *)
LEMMA RemoteInvariant == Spec => []RemoteInv
  BY RemoteInit, RemoteStep, RemoteStutter, PTL DEF Spec

(***************************************************************************)
(* The variables have their types, for any clients, keys, blocks and       *)
(* options: a store that is being opened waits in no call, a server that   *)
(* is down serves nobody, and one client at a time is in the handshake.    *)
(***************************************************************************)
THEOREM RemoteTypeCorrect == Spec => []TypeOK
<1>1. RemoteInv => TypeOK
  BY DEF RemoteInv
<1> QED
  BY <1>1, RemoteInvariant, PTL

(***************************************************************************)
(* Whatever the network repeats, delays or loses and whenever the server   *)
(* dies, a write that returns 0 stored its block during the call, and a    *)
(* read or a query for existence returns what was stored during the call.  *)
(***************************************************************************)
THEOREM RepliesFounded == Spec => []CallsTakeEffect
<1>1. RemoteInv => CallsTakeEffect
  BY DEF RemoteInv
<1> QED
  BY <1>1, RemoteInvariant, PTL

(***************************************************************************)
(* What a client wrote on a connection before a sync or close that         *)
(* returned 0 is on the medium from then on, in every crash and restart,   *)
(* unless a store that buffers and drops the library's result (QDBM) has   *)
(* answered a failed sync with success.  It is the same block there as far *)
(* as collision checks are made, which an empty block in a Berkeley DB     *)
(* store escapes.                                                          *)
(***************************************************************************)
THEOREM SyncedOutlivesServer == Spec => []SyncedSurvive
<1>1. ASSUME RemoteInv PROVE SyncedSurvive
  <2> SUFFICES ASSUME ~hidden, NEW w \in synced
               PROVE  /\ disk[w[1]] # None
                      /\ Protected(w) => disk[w[1]] = w[2] /\ local[w[1]] = w[2]
    BY DEF SyncedSurvive, Protected
  <2>1. w[1] \in Key
    BY <1>1 DEF RemoteInv, BaseInv
  <2>2. Has(disk, w)
    BY <1>1 DEF RemoteInv, SyncedInv
  <2>3. Protected(w) => Protected(<<w[1], disk[w[1]]>>)
    BY <2>2 DEF Has, Protected
  <2> QED
    BY <1>1, <2>1, <2>2, <2>3 DEF RemoteInv, DiskInv, Has
<1> QED
  BY <1>1, RemoteInvariant, PTL

(* A step replaces no stored block while the collision checks are made,    *)
(* and only the end of the server takes one back to what is on the medium. *)
LEMMA ReplacesNothing ==
  ASSUME RemoteInv, Next, NEW k \in Key, options.collision, ~unchecked', Found(k) # None
  PROVE  local'[k] \in {local[k], disk[k]} /\ (server' = "up" => local'[k] = local[k])
<1>1. /\ NetInv /\ Moves /\ local \in [Key -> Block \cup {None}]
  BY NextMoves DEF RemoteInv, TypeOK
<1>2. CASE SameData \/ Synchronises \/ WritesOne
  BY <1>2 DEF SameData, Synchronises, WritesOne
<1>3. CASE StoresBlock
  BY <1>1, <1>3 DEF StoresBlock, Found
<1>4. CASE Reverts /\ server' = "down"
  BY <1>4 DEF Reverts
<1> QED
  BY <1>1, <1>2, <1>3, <1>4, DataKinds

(***************************************************************************)
(* With collision checks on, no request replaces a stored block, neither   *)
(* one delivered late or twice nor one that was sent again, unless the     *)
(* check itself could not be made, or does not find the block because it   *)
(* is an empty one in a Berkeley DB store.                                 *)
(***************************************************************************)
THEOREM NoReplacement == Spec => NeverReplaced
<1>1. ASSUME RemoteInv, [Next]_vars
      PROVE  [\A k \in Key : options.collision /\ ~unchecked' /\ Found(k) # None =>
                 local'[k] \in {local[k], disk[k]} /\ (server' = "up" => local'[k] = local[k])]_vars
  BY <1>1, ReplacesNothing
<1> QED
  BY <1>1, RemoteInvariant, PTL DEF Spec, NeverReplaced
=============================================================================
