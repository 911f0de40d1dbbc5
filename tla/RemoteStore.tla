---------------------------- MODULE RemoteStore ----------------------------
(***************************************************************************)
(* The Sun RPC block store (store-sunrpc.c): clients whose store           *)
(* operations are remote procedure calls to one block server.  Each client *)
(* is sequential; it waits for the reply of its call, or for the sign that *)
(* there will be none.                                                     *)
(***************************************************************************)
EXTENDS RpcTransport

CONSTANT MaxCalls       \* bound: calls made by all clients together

ASSUME MaxCallsAssumption == MaxCalls \in Nat

VARIABLES
    store,      \* store[c]: "closed", "connecting" (a handshake), "open" or
                \* "closing" (gnutls_bye)
    seen,       \* seen[c]: blocks stored at some time during c's call
    unfounded,  \* operations whose result nothing during the call justifies
    acked,      \* acked[c]: writes that returned 0 since c opened its store
    synced,     \* writes that a sync which returned 0 came after
    calls

clientVars == <<store, seen, unfounded, acked, synced, calls>>
vars == <<serverVars, transportVars, clientVars>>

Init ==
    /\ ServerInit /\ TransportInit
    /\ store = [c \in Client |-> "closed"]
    /\ unfounded = {}
    /\ seen = [c \in Client |-> {}] /\ acked = [c \in Client |-> {}]
    /\ synced = {} /\ calls = 0

Hello == [proc |-> "hello"]

(* The arguments of the operations on an open store. *)
Operations ==
    [proc : {"write"}, key : Key, block : Block] \cup [proc : {"read"}, key : Key]
    \cup [proc : {"exists"}, keys : SUBSET Key \ {{}}] \cup [proc : {"sync", "close"}]

(* History: what is stored during each call, under the keys it is about,   *)
(* and whether that justifies what the operation returns.                  *)
Stored(args) ==
    LET ks == CASE args.proc \in {"write", "read"} -> {args.key}
                [] args.proc = "exists"            -> args.keys
                [] OTHER                           -> {}
    IN {<<k, local'[k]>> : k \in {j \in ks : local'[j] # None}}

Watch ==
    seen' = [c \in Client |-> IF call'[c] = NoCall THEN {}
                              ELSE seen[c] \cup Stored(call'[c].args)]

Founded(out, stored) ==
    out.ok => /\ out.proc = "write" => <<out.args.key, out.args.block>> \in stored
              /\ out.proc = "read" => <<out.args.key, out.block>> \in stored
              /\ \A k \in out.yes : \E b \in Block : <<k, b>> \in stored

-----------------------------------------------------------------------------
(* connect_to_host: the connection waits to be accepted. *)
Connect(c) ==
    /\ server = "up" /\ xprt[c] = "none"
    /\ link' = [link EXCEPT ![c] = "connected"]
    /\ xprt' = [xprt EXCEPT ![c] = "queued"]

(* sunrpc_block_store_open.  Over TLS, the client connects and then waits  *)
(* in the handshake; over UDP it says hello at once.  A store whose        *)
(* connection was lost can only be replaced by a new one.                  *)
Open(c) ==
    /\ calls < MaxCalls /\ calls' = calls + 1
    /\ call[c] = NoCall
    /\ store[c] = "closed" \/ (store[c] = "open" /\ link[c] = "lost")
    /\ acked' = [acked EXCEPT ![c] = {}]
    /\ \/ /\ proto = "tls" /\ Connect(c)
          /\ store' = [store EXCEPT ![c] = "connecting"]
          /\ UNCHANGED <<net, xid, call>>
       \/ /\ proto = "udp"
          /\ Call(c, Hello)
          /\ UNCHANGED <<store, link, xprt>>
    /\ UNCHANGED <<serverVars, proto, unfounded, synced>>

(* tls_authorizer looks for the client's key among the authorized ones; if *)
(* it says no, the server destroys the transport.                          *)
Authorize(c) ==
    \/ xprt' = [xprt EXCEPT ![c] = "idle"] /\ NoFault /\ UNCHANGED link
    \/ /\ Fault
       /\ xprt' = [xprt EXCEPT ![c] = "none"]
       /\ link' = [link EXCEPT ![c] = "lost"]

(* gnutls_handshake returned 0 on both ends, and the client says hello     *)
(* without knowing of the authorizer (clnttls_create, say_hello_1).        *)
Handshake(c) ==
    /\ store[c] = "connecting" /\ link[c] = "connected" /\ xprt[c] = "handshaking"
    /\ store' = [store EXCEPT ![c] = "closed"]
    /\ Call(c, Hello)
    /\ Authorize(c)
    /\ UNCHANGED <<options, server, local, disk, statics, serving, unchecked, hidden,
                   proto, unfounded, acked, synced, calls>>

(* The connection was lost before the end of the handshake, and the client *)
(* returns CHOP_INVALID_ARG.                                               *)
HandshakeFails(c) ==
    /\ store[c] = "connecting" /\ link[c] = "lost"
    /\ store' = [store EXCEPT ![c] = "closed"]
    /\ link' = [link EXCEPT ![c] = "none"]
    /\ UNCHANGED <<serverVars, proto, net, xprt, xid, call, unfounded, acked, synced,
                   calls>>

(* The client refuses the server, or cannot go on.  It returns without     *)
(* closing the socket: the server keeps waiting in its handshake.          *)
GivesUp(c) ==
    /\ store[c] = "connecting" /\ link[c] = "connected" /\ xprt[c] = "handshaking"
    /\ Fault
    /\ store' = [store EXCEPT ![c] = "closed"]
    /\ link' = [link EXCEPT ![c] = "silent"]
    /\ UNCHANGED <<options, server, local, disk, statics, serving, unchecked, hidden,
                   proto, net, xprt, xid, call, unfounded, acked, synced, calls>>

(* chop_sunrpc_blocks_exist, read_block, write_block, sync and close. *)
Operation(c) ==
    /\ store[c] = "open" /\ calls < MaxCalls /\ calls' = calls + 1
    /\ \E args \in Operations : Call(c, args)
    /\ UNCHANGED <<serverVars, proto, link, xprt, store, unfounded, acked, synced>>

-----------------------------------------------------------------------------
(* What the operations make of the result: "ok" or CHOP_STORE_ERROR, and   *)
(* the block read or the keys said to exist.                               *)
Outcome(args, result) ==
    LET ok == CASE args.proc = "exists" -> result.len = Cardinality(args.keys)
                [] OTHER                -> result.status = "ok"
    IN [proc |-> args.proc, args |-> args, ok |-> ok,
        block |-> result.block, yes |-> result.yes]

Failure(args) ==
    [proc |-> args.proc, args |-> args, ok |-> FALSE, block |-> None, yes |-> {}]

(* A refused hello destroys the RPC client, and so does a successful       *)
(* close.  clnttls_destroy then says bye, and waits for the server's bye.  *)
Destroys(out) == (out.proc = "hello" /\ ~out.ok) \/ (out.proc = "close" /\ out.ok)

(* The call returns to the operation, and the operation to its caller,     *)
(* unless it has to wait for the server's bye.                             *)
Return(c, out) ==
    /\ call' = [call EXCEPT ![c] = NoCall]
    /\ unfounded' = unfounded \cup {o \in {out} : ~Founded(out, seen[c])}
    /\ store' = [store EXCEPT ![c] =
                   IF Destroys(out)
                   THEN IF link[c] = "connected" THEN "closing" ELSE "closed"
                   ELSE IF out.proc = "hello" THEN "open" ELSE @]
    /\ link' = [link EXCEPT ![c] =
                  IF ~Destroys(out) THEN @
                  ELSE IF @ = "connected" THEN "bye" ELSE "none"]
    /\ acked' = [acked EXCEPT ![c] =
                   IF out.ok /\ out.proc = "write"
                   THEN @ \cup {<<out.args.key, out.args.block>>} ELSE @]
    /\ synced' = IF out.ok /\ out.proc \in {"sync", "close"} /\ proto = "tls"
                 THEN synced \cup acked[c] ELSE synced

FaultyMatches(c, m) == m.result.status = "ok"

(* Keep receiving until we get a valid transaction id. *)
Matches(c, m) == m.xid = xid[c]

SkipReply(c) ==
    /\ call[c] # NoCall
    /\ \E m \in net : Reply(c, m) /\ ~Matches(c, m) /\ net' = net \ {m}
    /\ UNCHANGED <<serverVars, proto, link, xprt, xid, call, store, unfounded, acked,
                   synced, calls>>

ReceiveReply(c) ==
    /\ call[c] # NoCall
    /\ \E m \in net :
          /\ Reply(c, m) /\ Matches(c, m) /\ m.result.status # "undecoded"
          /\ Return(c, Outcome(call[c].args, m.result))
          /\ net' = net \ {m}
    /\ UNCHANGED <<serverVars, proto, xprt, xid, calls>>

MaySendAgain(c) == proto = "tls" /\ call[c].refreshes > 0

(* The server did not execute the call: clnttls_call sends it again with   *)
(* another transaction id, twice at most; the UDP client returns.          *)
SendAgain(c) ==
    /\ call[c] # NoCall
    /\ \E m \in net :
          /\ Reply(c, m) /\ Matches(c, m) /\ m.result.status = "undecoded"
          /\ IF MaySendAgain(c)
             THEN /\ call' = [call EXCEPT ![c].refreshes = @ - 1]
                  /\ Sent(c, call[c].args, net \ {m})
                  /\ UNCHANGED <<link, store, unfounded, acked, synced>>
             ELSE Return(c, Failure(call[c].args)) /\ net' = net \ {m} /\ UNCHANGED xid
    /\ UNCHANGED <<serverVars, proto, xprt, calls>>

(* RPC_CANTSEND or RPC_CANTRECV on a lost connection; over UDP, the total  *)
(* timeout of the stub, because no answer will come or because it is late. *)
(* There is no timeout over TLS.                                           *)
Underway(c) == \/ server = "up" /\ \E m \in net : m.client = c /\ m.xid = xid[c]
               \/ serving.client = c /\ serving.xid = xid[c]

CallFails(c) ==
    /\ call[c] # NoCall
    /\ \/ proto = "tls" /\ link[c] = "lost" /\ NoFault
       \/ proto = "udp" /\ ~Underway(c) /\ NoFault
       \/ proto = "udp" /\ Underway(c) /\ Fault
    /\ Return(c, Failure(call[c].args))
    /\ net' = IF proto = "tls" THEN {m \in net : ~Reply(c, m)} ELSE net
    /\ UNCHANGED <<options, server, local, disk, statics, serving, unchecked, hidden,
                   proto, xprt, xid, calls>>

(* gnutls_bye (GNUTLS_SHUT_RDWR) returns when the server has closed its    *)
(* end; whether that was with a bye of its own does not matter.            *)
ByeReturns(c) ==
    /\ store[c] = "closing" /\ (link[c] = "lost" \/ xprt[c] = "none")
    /\ store' = [store EXCEPT ![c] = "closed"]
    /\ link' = [link EXCEPT ![c] = "none"]
    /\ UNCHANGED <<serverVars, proto, net, xprt, xid, call, unfounded, acked, synced,
                   calls>>

-----------------------------------------------------------------------------
ClientStep(c) ==
    \/ HandshakeFails(c) \/ ByeReturns(c)
    \/ ReceiveReply(c) \/ SkipReply(c) \/ SendAgain(c) \/ CallFails(c)

ServerStep ==
    /\ \/ SendReply
       \/ \E c \in Client : \/ Accept(c) \/ ServerHandshakeFails(c)
                           \/ ServeRequest(c) \/ Reap(c)
    /\ UNCHANGED <<store, unfounded, acked, synced, calls>>

Environment ==
    /\ \/ ServerEnds
       \/ /\ Restart \/ \E k \in Key : WriteBack(k)
          /\ UNCHANGED transportVars
       \/ \E c \in Client : Lose(c) \/ Retransmit(c) \/ ClientExits(c)
    /\ UNCHANGED <<store, unfounded, acked, synced, calls>>

Next ==
    /\ \/ ServerStep
       \/ \E c \in Client : \/ Open(c) \/ Handshake(c) \/ GivesUp(c)
                           \/ Operation(c) \/ ClientStep(c)
       \/ Environment
    /\ Watch

Spec == Init /\ [][Next]_vars

(* The server goes on serving while it runs, and a client goes on with the *)
(* call it is in.  The server may stay down for ever, and nothing makes    *)
(* the two ends of a handshake go on: either may be a peer that says       *)
(* nothing more.                                                           *)
Fairness ==
    /\ WF_vars(ServerStep /\ Watch)
    /\ WF_vars(EncodeCrash /\ ServerEnds /\ Watch
               /\ UNCHANGED <<store, unfounded, acked, synced, calls>>)
    /\ \A c \in Client : WF_vars(ClientStep(c) /\ Watch)

FairSpec == Spec /\ Fairness

-----------------------------------------------------------------------------
(***************************************************************************)
(* The variables have their types; a store being opened waits in no call,  *)
(* a server that is down serves nobody, and the one that is up shakes      *)
(* hands with one client at a time.                                        *)
(***************************************************************************)
TypeOK ==
    /\ server \in {"up", "down"}
    /\ local \in [Key -> Block \cup {None}] /\ disk \in [Key -> Block \cup {None}]
    /\ statics \in [exists : 0..Cardinality(Key), read : 0..1]
    /\ store \in [Client -> {"closed", "connecting", "open", "closing"}]
    /\ link \in [Client -> {"none", "connected", "silent", "bye", "lost"}]
    /\ xprt \in [Client -> {"none", "queued", "handshaking", "idle"}]
    /\ \A c \in Client : /\ call[c] # NoCall => call[c].refreshes \in 0..MaxRefreshes
                         /\ store[c] \in {"connecting", "closing"} => call[c] = NoCall
    /\ server = "down" => serving = NoRequest /\ \A c \in Client : xprt[c] = "none"
    /\ Cardinality({c \in Client : xprt[c] = "handshaking"}) <= 1

(***************************************************************************)
(* A reply is taken for the call that caused it, whatever replies to       *)
(* earlier calls, repeated requests and other clients do in between: when  *)
(* a write returns 0, its block was stored under its key at some time      *)
(* during the call; the block that a read returns was; and a key said to   *)
(* exist had a block.                                                      *)
(***************************************************************************)
CallsTakeEffect == unfounded = {}

(***************************************************************************)
(* With collision checks on, no write replaces a stored block by another   *)
(* one, not even a request that the network delivers late or twice, or one *)
(* that is sent again -- unless the check itself could not be made.  An    *)
(* empty block in a Berkeley DB store is no block to the check, and may be *)
(* replaced.                                                               *)
(***************************************************************************)
NeverReplaced ==
    [][\A k \in Key : options.collision /\ ~unchecked' /\ Found(k) # None =>
           local'[k] \in {local[k], disk[k]} /\ (server' = "up" => local'[k] = local[k])]_vars

(***************************************************************************)
(* Once a sync or a close on a connection has returned 0, what the client  *)
(* had written on it before survives whatever happens to the server: no    *)
(* restart between the write and the sync goes unnoticed, because it costs *)
(* the connection, and with a Berkeley DB store no failure of the sync     *)
(* does.  The other stores answer a sync that failed with success; that    *)
(* loses something only with QDBM, which alone of them had buffered it     *)
(* (hidden).  Only another write can replace the block: without collision  *)
(* checks, after a check that could not be made, or over an empty block    *)
(* that a Berkeley DB store does not find.                                 *)
(***************************************************************************)
SyncedSurvive ==
    ~hidden => \A w \in synced :
        /\ disk[w[1]] # None
        /\ options.collision /\ ~unchecked /\ (options.class = "bdb" => w[2] # Empty)
              => disk[w[1]] = w[2] /\ local[w[1]] = w[2]

Waits(c) == call[c] # NoCall \/ store[c] \in {"connecting", "closing"}

(* The server waits in a handshake that the client does not go on with. *)
Stalls(c) == xprt[c] = "handshaking" /\ link[c] \in {"connected", "silent"}

(***************************************************************************)
(* Every operation returns -- the server's death, a lost connection and a  *)
(* handshake that the server gives up reach the client that waits, and the *)
(* blocking bye of a close is answered -- unless some client falls silent  *)
(* for ever in the middle of its handshake: the server has one thread and  *)
(* no timeout, and nobody else is served then.                             *)
(***************************************************************************)
CallsReturn ==
    (\A c \in Client : Waits(c) ~> ~Waits(c)) \/ \E d \in Client : <>[]Stalls(d)
=============================================================================
