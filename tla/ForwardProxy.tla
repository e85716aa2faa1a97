---------------------------- MODULE ForwardProxy ----------------------------
(***************************************************************************)
(* ProxyHarness (e2e-tests/src/proxy.rs): a TCP proxy between client and   *)
(* server, with which a test cuts connections.  A connection is accepted,  *)
(* decodes a CONNECT, connects to the server, and relays each way until    *)
(* that way's end; the test may have all connections dropped at any time.  *)
(* Of the bytes only how many there are matters; the statistics of them    *)
(* are left out.                                                           *)
(***************************************************************************)
EXTENDS Naturals, FiniteSets

CONSTANTS Links,    \* connections through the proxy
          BytesEach \* bound: bytes each side sends

ASSUME ProxyAssumption == IsFiniteSet(Links) /\ BytesEach \in Nat

VARIABLES link,       \* [Links -> where handle_proxy_connection is]
          up,         \* [Links -> downstream to upstream: "open", "ended"]
          down,       \* [Links -> upstream to downstream: "open", "ended"]
          client,     \* [Links -> [sent, taken: read by the proxy, at: the socket]]
          server,     \* [Links -> the same of the server]
          eof,        \* [Links -> who has been sent the end of the stream by the proxy]
          shutdown,   \* drop_connections was called, or the harness is dropped
          accepting,  \* accept_task runs
          active      \* active_connection_count

proxyVars == <<link, up, down, client, server, eof, shutdown, accepting, active>>

LinkPlaces == {"none", "decoding", "connecting", "relaying", "done"}
Relays == {"open", "ended"}
Sockets == [sent : 0..BytesEach, taken : 0..BytesEach, at : {"open", "ended", "reset"}]

ProxyTypeOK ==
  /\ link \in [Links -> LinkPlaces]
  /\ up \in [Links -> Relays] /\ down \in [Links -> Relays]
  /\ client \in [Links -> Sockets] /\ server \in [Links -> Sockets]
  /\ eof \in [Links -> SUBSET {"client", "server"}]
  /\ shutdown \in BOOLEAN /\ accepting \in BOOLEAN
  /\ active \in 0..Cardinality(Links)

Unused == [sent |-> 0, taken |-> 0, at |-> "open"]

ProxyInit ==
  /\ link = [l \in Links |-> "none"]
  /\ up = [l \in Links |-> "open"] /\ down = [l \in Links |-> "open"]
  /\ client = [l \in Links |-> Unused] /\ server = [l \in Links |-> Unused]
  /\ eof = [l \in Links |-> {}]
  /\ shutdown = FALSE /\ accepting = TRUE
  /\ active = 0

Socket(side) == IF side = "client" THEN client ELSE server

\* A read finds no more bytes.
AtEnd(side, l) ==
  LET socket == Socket(side)[l]
  IN  \/ socket.at = "reset"
      \/ socket.at = "ended" /\ socket.taken = socket.sent

-----------------------------------------------------------------------------
(* The two ends                                                            *)

\* Bytes are sent while the socket is open and, for the client, once it is connected.
Send(l, side) ==
  /\ link[l] = "relaying" /\ Socket(side)[l].at = "open" /\ Socket(side)[l].sent < BytesEach
  /\ IF side = "client" THEN client' = [client EXCEPT ![l].sent = @ + 1] /\ UNCHANGED server
     ELSE server' = [server EXCEPT ![l].sent = @ + 1] /\ UNCHANGED client
  /\ UNCHANGED <<link, up, down, eof, shutdown, accepting, active>>

\* A side ends its stream, or resets its connection, as one that is closed does when more
\* is sent to it.
Ends(l, side, how) ==
  /\ link[l] \in {"decoding", "connecting", "relaying"}
  /\ \/ Socket(side)[l].at = "open" /\ how \in {"ended", "reset"}
     \/ Socket(side)[l].at = "ended" /\ how = "reset"
  /\ IF side = "client" THEN client' = [client EXCEPT ![l].at = how] /\ UNCHANGED server
     ELSE server' = [server EXCEPT ![l].at = how] /\ UNCHANGED client
  /\ UNCHANGED <<link, up, down, eof, shutdown, accepting, active>>

\* A client that has got the end of the stream ends its own: run() returns.
ClientFollows(l) == "client" \in eof[l] /\ Ends(l, "client", "ended")
ServerFollows(l) == "server" \in eof[l] /\ Ends(l, "server", "ended")

-----------------------------------------------------------------------------
(* A connection                                                            *)

Accept(l) ==
  /\ accepting /\ link[l] = "none"
  /\ link' = [link EXCEPT ![l] = "decoding"]
  /\ active' = active + 1
  /\ UNCHANGED <<up, down, client, server, eof, shutdown, accepting>>

\* The task of a connection is over: its sockets are closed, and it is not counted any more.
Over(l) ==
  /\ link' = [link EXCEPT ![l] = "done"]
  /\ active' = active - 1
  /\ UNCHANGED <<up, down, client, server, eof, shutdown, accepting>>

\* decode_connect_request
DecodeConnectRequest(l) ==
  /\ link[l] = "decoding" /\ client[l].at = "open"
  /\ link' = [link EXCEPT ![l] = "connecting"]
  /\ UNCHANGED <<up, down, client, server, eof, shutdown, accepting, active>>

Connect(l) ==
  /\ link[l] = "connecting"
  /\ link' = [link EXCEPT ![l] = "relaying"]
  /\ UNCHANGED <<up, down, client, server, eof, shutdown, accepting, active>>

\* The request is none or ends early; the server cannot be reached, or the 200 not written.
ConnectFails(l) ==
  /\ link[l] \in {"decoding", "connecting"}
  /\ Over(l)

\* relay_proxy_traffic, both ways: a read and the write of what was read.
RelayUp(l) ==
  /\ link[l] = "relaying" /\ up[l] = "open"
  /\ client[l].taken < client[l].sent /\ client[l].at # "reset" /\ server[l].at # "reset"
  /\ client' = [client EXCEPT ![l].taken = @ + 1]
  /\ UNCHANGED <<link, up, down, server, eof, shutdown, accepting, active>>

RelayDown(l) ==
  /\ link[l] = "relaying" /\ down[l] = "open"
  /\ server[l].taken < server[l].sent /\ server[l].at # "reset" /\ client[l].at # "reset"
  /\ server' = [server EXCEPT ![l].taken = @ + 1]
  /\ UNCHANGED <<link, up, down, client, eof, shutdown, accepting, active>>

\* The end of what is read, or a reset, is passed on; a write to a side that is gone ends
\* the relay.
RelayUpEnds(l) ==
  /\ link[l] = "relaying" /\ up[l] = "open"
  /\ up' = [up EXCEPT ![l] = "ended"]
  /\ \/ /\ AtEnd("client", l)
        /\ eof' = [eof EXCEPT ![l] = @ \cup {"server"}]
        /\ UNCHANGED client
     \/ /\ server[l].at = "reset" /\ client[l].taken < client[l].sent
        /\ client' = [client EXCEPT ![l].taken = @ + 1]
        /\ UNCHANGED eof
  /\ UNCHANGED <<link, down, server, shutdown, accepting, active>>

RelayDownEnds(l) ==
  /\ link[l] = "relaying" /\ down[l] = "open"
  /\ down' = [down EXCEPT ![l] = "ended"]
  /\ \/ /\ AtEnd("server", l)
        /\ eof' = [eof EXCEPT ![l] = @ \cup {"client"}]
        /\ UNCHANGED server
     \/ /\ client[l].at = "reset" /\ server[l].taken < server[l].sent
        /\ server' = [server EXCEPT ![l].taken = @ + 1]
        /\ UNCHANGED eof
  /\ UNCHANGED <<link, up, client, shutdown, accepting, active>>

\* Mutated: both ways are cut.
CutBoth(l) ==
  /\ link[l] = "relaying" /\ down[l] = "open" /\ shutdown
  /\ up' = [up EXCEPT ![l] = "ended"] /\ down' = [down EXCEPT ![l] = "ended"]
  /\ eof' = [eof EXCEPT ![l] = @ \cup {"client"}]
  /\ UNCHANGED <<link, client, server, shutdown, accepting, active>>

\* wait_for_shutdown: only what goes to the client is cut.
Cut(l) ==
  /\ link[l] = "relaying" /\ down[l] = "open" /\ shutdown
  /\ down' = [down EXCEPT ![l] = "ended"]
  /\ eof' = [eof EXCEPT ![l] = @ \cup {"client"}]
  /\ UNCHANGED <<link, up, client, server, shutdown, accepting, active>>

\* join!: both ways have ended.
RelayEnds(l) ==
  /\ link[l] = "relaying" /\ up[l] = "ended" /\ down[l] = "ended"
  /\ Over(l)

-----------------------------------------------------------------------------
(* The test                                                                *)

\* A watch channel keeps what is sent only if it has a receiver, and each connection that is
\* handled has one.
DropConnections ==
  /\ ~shutdown
  /\ \E l \in Links : link[l] \in {"decoding", "connecting", "relaying"}
  /\ shutdown' = TRUE
  /\ UNCHANGED <<link, up, down, client, server, eof, accepting, active>>

\* Drop aborts the accept loop; its sender and the harness's are gone, which is a shutdown.
DropHarness ==
  /\ accepting
  /\ accepting' = FALSE /\ shutdown' = TRUE
  /\ UNCHANGED <<link, up, down, client, server, eof, active>>

LinkNext(l) ==
  \/ \E side \in {"client", "server"} :
       Send(l, side) \/ \E how \in {"ended", "reset"} : Ends(l, side, how)
  \/ Accept(l) \/ DecodeConnectRequest(l) \/ Connect(l) \/ ConnectFails(l)
  \/ RelayUp(l) \/ RelayDown(l) \/ RelayUpEnds(l) \/ RelayDownEnds(l)
  \/ Cut(l) \/ RelayEnds(l)

ProxyNext == DropConnections \/ DropHarness \/ \E l \in Links : LinkNext(l)

\* The tasks of the proxy go on, and an end that is told that the stream has ended ends its
\* own.  Who has connected sends its CONNECT or ends: decode_connect_request waits for that
\* whatever shuts down meanwhile.  Nothing else is assumed of clients and servers.
ProxyFairness ==
  \A l \in Links :
    /\ WF_proxyVars(DecodeConnectRequest(l) \/ ConnectFails(l) \/ Connect(l))
    /\ WF_proxyVars(RelayUp(l)) /\ WF_proxyVars(RelayUpEnds(l))
    /\ WF_proxyVars(Cut(l)) /\ WF_proxyVars(RelayEnds(l))
    /\ WF_proxyVars(ClientFollows(l)) /\ WF_proxyVars(ServerFollows(l))

ProxySpec == ProxyInit /\ [][ProxyNext]_proxyVars /\ ProxyFairness

-----------------------------------------------------------------------------
(* Properties                                                              *)

\* A cut is a clean end to the client, not a reset: the proxy closes the client's socket only
\* when it has read all that the client sent and its end, unless one of the ends was reset.
CutIsClean ==
  \A l \in Links :
    link[l] = "done" /\ "client" \in eof[l] /\ client[l].at # "reset" /\ server[l].at # "reset" =>
      client[l].at = "ended" /\ client[l].taken = client[l].sent

\* Once the connections are dropped all of them close, and the counter is back at zero.
DropEndsAll ==
  []<>(shutdown /\ (\A l \in Links : link[l] # "none") => active = 0)
=============================================================================
