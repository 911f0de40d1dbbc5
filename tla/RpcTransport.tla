---------------------------- MODULE RpcTransport ----------------------------
(***************************************************************************)
(* How calls and replies travel between the clients and the block server:  *)
(* over TLS connections (sunrpc-tls.c) or in datagrams (the C library's    *)
(* UDP client and server, external).  A connection delivers in order until *)
(* it is lost; a datagram may be lost or late, and the client sends it     *)
(* again while it waits, so that the server may execute a call again after *)
(* it has returned.                                                        *)
(* The server is one thread: it accepts a connection only between two      *)
(* requests, and the TLS handshake with one client keeps it from all the   *)
(* others.                                                                 *)
(* The client's end of a connection is "connected", "silent" after the     *)
(* client gave up its handshake without closing the socket, "bye" while it *)
(* waits for the server to close too, and "lost" when the network or the   *)
(* server ended it.                                                        *)
(***************************************************************************)
EXTENDS BlockServer

CONSTANT MaxRefreshes   \* `refreshes' in clnttls_call: 2

ASSUME RefreshAssumption == MaxRefreshes \in Nat

VARIABLES
    proto,      \* "tls" or "udp"
    net,        \* messages on their way
    link,       \* link[c]: the client's end of its connection
    xprt,       \* xprt[c]: the server's transport for c
    xid,        \* xid[c]: the transaction id of c's last call
    call        \* call[c]: the call c waits in, or NoCall

transportVars == <<proto, net, link, xprt, xid, call>>

NoCall == [args |-> [proc |-> "none"], refreshes |-> 0]

TransportInit ==
    /\ proto \in {"tls", "udp"}
    /\ net = {}
    /\ link = [c \in Client |-> "none"] /\ xprt = [c \in Client |-> "none"]
    /\ xid = [c \in Client |-> 0]
    /\ call = [c \in Client |-> NoCall]

Request(c, m) == m.client = c /\ m.dir = "request"
Reply(c, m) == m.client = c /\ m.dir = "reply"

Packet(c, args, x) == [dir |-> "request", client |-> c, xid |-> x, args |-> args]

(* clnttls_call up to its loop: a new transaction id, and the request is   *)
(* written if the connection still takes it.                               *)
Sent(c, args, messages) ==
    /\ xid' = [xid EXCEPT ![c] = @ + 1]
    /\ net' = IF proto = "tls" /\ link[c] # "connected" THEN messages
              ELSE messages \cup {Packet(c, args, xid'[c])}

Call(c, args) ==
    /\ call[c] = NoCall
    /\ call' = [call EXCEPT ![c] = [args |-> args, refreshes |-> MaxRefreshes]]
    /\ Sent(c, args, net)

(* clntudp_call sends the same datagram again every wait_time. *)
Retransmit(c) ==
    /\ proto = "udp" /\ call[c] # NoCall /\ Fault
    /\ net' = net \cup {Packet(c, call[c].args, xid[c])}
    /\ UNCHANGED <<options, server, local, disk, statics, serving, unchecked, hidden,
                   proto, link, xprt, xid, call>>

-----------------------------------------------------------------------------
(* The server's side of a connection. *)

FaultyIdle == server = "up" /\ serving = NoRequest

(* svc_run is in select. *)
Idle == server = "up" /\ serving = NoRequest
        /\ \A c \in Client : xprt[c] # "handshaking"

(* rendezvous_request and makefd_xprt up to gnutls_handshake. *)
Accept(c) ==
    /\ Idle /\ xprt[c] = "queued"
    /\ xprt' = [xprt EXCEPT ![c] = "handshaking"]
    /\ UNCHANGED <<serverVars, proto, net, link, xid, call>>

(* The server's gnutls_handshake failed, on its own or because the client  *)
(* is gone: makefd_xprt closes the connection.  It has no timeout: a       *)
(* client that keeps its socket and says nothing keeps it waiting.         *)
ServerHandshakeFails(c) ==
    /\ server = "up" /\ xprt[c] = "handshaking"
    /\ \/ link[c] \notin {"connected", "silent"} /\ NoFault
       \/ link[c] \in {"connected", "silent"} /\ Fault
    /\ xprt' = [xprt EXCEPT ![c] = "none"]
    /\ link' = [link EXCEPT ![c] = CASE @ = "connected" -> "lost"
                                     [] @ = "silent" -> "none"
                                     [] OTHER -> @]
    /\ UNCHANGED <<options, server, local, disk, statics, serving, unchecked, hidden,
                   proto, net, xid, call>>

(* svctls_recv got a call, and the program's dispatcher runs; TLS requests *)
(* that were received are read even if the connection is lost meanwhile.   *)
ServeRequest(c) ==
    /\ Idle /\ (proto = "tls" => xprt[c] = "idle")
    /\ \E m \in net : /\ Request(c, m)
                      /\ ProcessRequest(m)
                      /\ net' = net \ {m}
    /\ UNCHANGED <<proto, link, xprt, xid, call>>

(* svctls_reply: the reply carries the transaction id of the request that  *)
(* was received last.                                                      *)
SendReply ==
    /\ serving # NoRequest /\ Encodes(serving.result)
    /\ net' = IF proto = "tls" /\ link[serving.client] # "connected" THEN net
              ELSE net \cup {[dir |-> "reply", client |-> serving.client,
                              xid |-> serving.xid, result |-> serving.result]}
    /\ serving' = NoRequest
    /\ UNCHANGED <<options, server, local, disk, statics, unchecked, hidden, faults,
                   proto, link, xprt, xid, call>>

FaultyReap(c) ==
    /\ Idle /\ xprt[c] = "idle" /\ link[c] \in {"none", "lost"}
    /\ xprt' = [xprt EXCEPT ![c] = "none"]
    /\ net' = {m \in net : ~Request(c, m)}
    /\ UNCHANGED <<serverVars, proto, link, xid, call>>

(* readtls found the connection closed: svctls_recv marks the transport as *)
(* dead, and svc_run destroys it (svctls_destroy).                         *)
Reap(c) ==
    /\ Idle /\ xprt[c] = "idle" /\ link[c] # "connected"
    /\ xprt' = [xprt EXCEPT ![c] = "none"]
    /\ net' = {m \in net : ~Request(c, m)}
    /\ UNCHANGED <<serverVars, proto, link, xid, call>>

-----------------------------------------------------------------------------
(* The connection is lost; both ends will notice when they use it.  Or a   *)
(* datagram is.                                                            *)
Lose(c) ==
    /\ Fault
    /\ \/ /\ link[c] \in {"connected", "bye"} /\ link' = [link EXCEPT ![c] = "lost"]
          /\ UNCHANGED net
       \/ /\ proto = "udp" /\ \E m \in net : m.client = c /\ net' = net \ {m}
          /\ UNCHANGED link
    /\ UNCHANGED <<options, server, local, disk, statics, serving, unchecked, hidden,
                   proto, xprt, xid, call>>

(* The process of a client that failed its handshake exits, and with it    *)
(* the socket is closed.                                                   *)
ClientExits(c) ==
    /\ link[c] = "silent" /\ link' = [link EXCEPT ![c] = "none"]
    /\ UNCHANGED <<serverVars, proto, net, xprt, xid, call>>

(* The end of the server process is the end of its connections, and of     *)
(* what was sent to it over them.                                          *)
ServerEnds ==
    /\ Signal \/ Crash \/ EncodeCrash
    /\ link' = [c \in Client |-> CASE link[c] \in {"connected", "bye"} -> "lost"
                                   [] link[c] = "silent" -> "none"
                                   [] OTHER -> link[c]]
    /\ xprt' = [c \in Client |-> "none"]
    /\ net' = IF proto = "tls" THEN {m \in net : m.dir = "reply"} ELSE net
    /\ UNCHANGED <<proto, xid, call>>
=============================================================================
