----------------------------- MODULE Connecting -----------------------------
(***************************************************************************)
(* How run() of src/connection.rs opens its stream: one task per signaling *)
(* URL, DNS, TCP, the CONNECT of an HTTP proxy and TLS under one deadline  *)
(* per task, the first success taken and the other tasks aborted.  A       *)
(* redirect runs connect_websocket alone, for its one URL.                 *)
(*                                                                         *)
(* Bytes are numbered in the order the peer sends them: the first HeadSize *)
(* are the response of the proxy, the others follow it.                    *)
(***************************************************************************)
EXTENDS Naturals, Sequences, FiniteSets

CONSTANTS
  Attempts,   \* the signaling URLs, one task each
  HeadSize,   \* bytes of the response to CONNECT
  BytesMax,   \* bound: bytes a peer sends, the response included
  NoOutcome   \* connect_signaling_urls has not returned

ASSUME ConnectingAssumption ==
  /\ Attempts # {}
  /\ HeadSize \in Nat \ {0}
  /\ BytesMax \in Nat /\ HeadSize <= BytesMax
  /\ NoOutcome \notin Attempts \cup {"failed", "abandoned"}
  /\ {"failed", "abandoned"} \cap Attempts = {}

VARIABLES
  targets,    \* per attempt: parse_signaling_url's result, "invalid", "ws" or "wss"
  viaProxy,   \* a proxy is configured
  attempts,   \* per attempt: where its task is; its socket; whether it is late
  wires,      \* per attempt: bytes sent to its socket and not yet read
  produced,   \* per attempt: the number of bytes its peer has sent
  pendings,   \* per attempt: ClientStream.pending_read
  errors,     \* the errors collected, as the attempts they are of
  outcome,    \* NoOutcome, "failed", "abandoned" or the attempt that won
  delivered   \* history: bytes that the stream of the winner has given to run()

taskVars == <<attempts, pendings>>
peerVars == <<wires, produced>>
callerVars == <<errors, outcome, delivered>>

connectingVars == <<targets, viaProxy, taskVars, peerVars, callerVars>>

Finished == {"connected", "refused"}
Gone == {"joined", "aborted"}

Working(a) == attempts[a].at \notin Finished \cup Gone

ConnectingInit ==
  /\ targets \in [Attempts -> {"invalid", "ws", "wss"}]
  /\ viaProxy \in BOOLEAN
  /\ attempts = [a \in Attempts |-> [at |-> "spawned", socket |-> FALSE, late |-> FALSE]]
  /\ wires = [a \in Attempts |-> <<>>]
  /\ produced = [a \in Attempts |-> IF viaProxy THEN 0 ELSE HeadSize]
  /\ pendings = [a \in Attempts |-> <<>>]
  /\ errors = <<>>
  /\ outcome = NoOutcome
  /\ delivered = <<>>

-----------------------------------------------------------------------------
(* The task of attempt a                                                   *)

\* It goes on at `at`, with its socket.
Proceeding(a, at) == [attempts EXCEPT ![a].at = at, ![a].socket = TRUE]

\* It returns an error and drops its socket.
Refused(a) == [attempts EXCEPT ![a].at = "refused", ![a].socket = FALSE]

\* The task starts: parse_signaling_url, then lookup_host of connect_tcp.
StartAttempt(a) ==
  /\ attempts[a].at = "spawned"
  /\ attempts' = IF targets[a] = "invalid" THEN Refused(a)
                 ELSE [attempts EXCEPT ![a].at = "resolving"]
  /\ UNCHANGED <<targets, viaProxy, peerVars, pendings, callerVars>>

\* lookup_host, which no deadline covers; it fails, or gives no address at all.
Resolve(a) ==
  /\ attempts[a].at = "resolving"
  /\ attempts' \in {Refused(a), [attempts EXCEPT ![a].at = "connecting"]}
  /\ UNCHANGED <<targets, viaProxy, peerVars, pendings, callerVars>>

\* What follows the socket, or the tunnel of the proxy.
AfterTunnel(a) == IF targets[a] = "wss" THEN "securing" ELSE "connected"

ConnectTcp(a) ==
  /\ attempts[a].at = "connecting"
  /\ attempts' \in
       {Refused(a), Proceeding(a, IF viaProxy THEN "requesting" ELSE AfterTunnel(a))}
  /\ UNCHANGED <<targets, viaProxy, peerVars, pendings, callerVars>>

\* write_all of the CONNECT request, which no deadline covers.
RequestTunnel(a) ==
  /\ attempts[a].at = "requesting"
  /\ attempts' \in {Refused(a), Proceeding(a, "awaiting")}
  /\ UNCHANGED <<targets, viaProxy, peerVars, pendings, callerVars>>

\* Mutated: the rest of the read that completes the response is lost.
ReadResponseLosing(a) ==
  /\ attempts[a].at = "awaiting"
  /\ \E n \in 1..Len(wires[a]) :
       /\ wires' = [wires EXCEPT ![a] = SubSeq(@, n + 1, Len(@))]
       /\ attempts' \in {Refused(a)} \cup
            IF wires[a][n] < HeadSize THEN {attempts} ELSE {Proceeding(a, AfterTunnel(a))}
       /\ UNCHANGED pendings
  /\ UNCHANGED <<targets, viaProxy, produced, callerVars>>

\* The proxy's response is read; the rest of a read that completes it is kept.
\* TLS is not begun on top of such a rest.
ReadResponse(a) ==
  /\ attempts[a].at = "awaiting"
  /\ \E n \in 1..Len(wires[a]) :
       LET rest == SubSeq(wires[a], HeadSize + 2 - wires[a][1], n)
       IN  /\ wires' = [wires EXCEPT ![a] = SubSeq(@, n + 1, Len(@))]
           /\ \/ attempts' = Refused(a) /\ UNCHANGED pendings
              \/ wires[a][n] < HeadSize /\ UNCHANGED taskVars
              \/ /\ wires[a][n] >= HeadSize
                 /\ rest = <<>> \/ targets[a] = "ws"
                 /\ attempts' = Proceeding(a, AfterTunnel(a))
                 /\ pendings' = [pendings EXCEPT ![a] = rest]
  /\ UNCHANGED <<targets, viaProxy, produced, callerVars>>

\* The proxy closes the connection, or reading fails.
ResponseEnds(a) ==
  /\ attempts[a].at = "awaiting"
  /\ attempts' = Refused(a)
  /\ UNCHANGED <<targets, viaProxy, peerVars, pendings, callerVars>>

\* build_tls_client_config, the server name and the handshake.
Secure(a) ==
  /\ attempts[a].at = "securing"
  /\ attempts' \in {Refused(a), Proceeding(a, "connected")}
  /\ UNCHANGED <<targets, viaProxy, peerVars, pendings, callerVars>>

\* The time that connect_websocket allows itself is over.
DeadlinePasses(a) ==
  /\ Working(a)
  /\ attempts[a].at # "spawned"
  /\ ~attempts[a].late
  /\ attempts' = [attempts EXCEPT ![a].late = TRUE]
  /\ UNCHANGED <<targets, viaProxy, peerVars, pendings, callerVars>>

\* Mutated: the response of the proxy is read without the deadline.
TimeoutUnread(a) ==
  /\ attempts[a].at \in {"connecting", "securing"}
  /\ attempts[a].late
  /\ attempts' = Refused(a)
  /\ UNCHANGED <<targets, viaProxy, peerVars, pendings, callerVars>>

\* timeout_at around TcpStream::connect, the read of the response and the handshake.
Timeout(a) ==
  /\ attempts[a].at \in {"connecting", "awaiting", "securing"}
  /\ attempts[a].late
  /\ attempts' = Refused(a)
  /\ UNCHANGED <<targets, viaProxy, peerVars, pendings, callerVars>>

\* Mutated: the stream of a task that has ended already is kept.
AbortTakesWorking(a) ==
  /\ outcome # NoOutcome
  /\ outcome # a
  /\ Working(a)
  /\ attempts' = [attempts EXCEPT ![a].at = "aborted", ![a].socket = FALSE]
  /\ UNCHANGED <<targets, viaProxy, peerVars, pendings, callerVars>>

\* A task that was aborted ends at its next await, and what it returned is dropped.
AbortTakes(a) ==
  /\ outcome # NoOutcome
  /\ outcome # a
  /\ attempts[a].at \notin Gone
  /\ attempts' = [attempts EXCEPT ![a].at = "aborted", ![a].socket = FALSE]
  /\ UNCHANGED <<targets, viaProxy, peerVars, pendings, callerVars>>

-----------------------------------------------------------------------------
(* connect_signaling_urls and its caller                                   *)

\* join_next gives a stream: it is returned, and the JoinSet is aborted.
JoinStream(a) ==
  /\ outcome = NoOutcome
  /\ attempts[a].at = "connected"
  /\ attempts' = [attempts EXCEPT ![a].at = "joined"]
  /\ outcome' = a
  /\ UNCHANGED <<targets, viaProxy, pendings, peerVars, errors, delivered>>

\* Mutated: the first error is returned while other attempts go on.
JoinErrorEarly(a) ==
  /\ outcome = NoOutcome
  /\ attempts[a].at = "refused"
  /\ attempts' = [attempts EXCEPT ![a].at = "joined"]
  /\ errors' = Append(errors, a)
  /\ outcome' = "failed"
  /\ UNCHANGED <<targets, viaProxy, pendings, peerVars, delivered>>

\* join_next gives an error: it is kept, and after the last task all are returned.
JoinError(a) ==
  /\ outcome = NoOutcome
  /\ attempts[a].at = "refused"
  /\ attempts' = [attempts EXCEPT ![a].at = "joined"]
  /\ errors' = Append(errors, a)
  /\ outcome' = IF \A b \in Attempts \ {a} : attempts[b].at = "joined" THEN "failed"
                ELSE NoOutcome
  /\ UNCHANGED <<targets, viaProxy, pendings, peerVars, delivered>>

\* The application drops run() while it connects, and the JoinSet with it.
Abandon ==
  /\ outcome = NoOutcome
  /\ outcome' = "abandoned"
  /\ UNCHANGED <<targets, viaProxy, taskVars, peerVars, errors, delivered>>

\* ClientStream::read: what is pending first, then the socket.
ReadStream ==
  /\ outcome \in Attempts
  /\ targets[outcome] = "ws"
  /\ LET from == IF pendings[outcome] # <<>> THEN pendings ELSE wires
     IN  \E n \in 1..Len(from[outcome]) :
           LET left == [from EXCEPT ![outcome] = SubSeq(@, n + 1, Len(@))]
           IN  /\ delivered' = delivered \o SubSeq(from[outcome], 1, n)
               /\ IF pendings[outcome] # <<>> THEN pendings' = left /\ UNCHANGED wires
                  ELSE wires' = left /\ UNCHANGED pendings
  /\ UNCHANGED <<targets, viaProxy, attempts, produced, errors, outcome>>

\* The proxy sends from the request on, a server once run() has the stream.
PeerSends(a) ==
  /\ \/ viaProxy /\ attempts[a].at \in {"awaiting", "connected"}
     \/ outcome = a
  /\ targets[a] = "wss" => attempts[a].at = "awaiting"
  /\ produced[a] < BytesMax
  /\ produced' = [produced EXCEPT ![a] = @ + 1]
  /\ wires' = [wires EXCEPT ![a] = Append(@, produced[a] + 1)]
  /\ UNCHANGED <<targets, viaProxy, taskVars, callerVars>>

-----------------------------------------------------------------------------
AttemptNext(a) ==
  \/ StartAttempt(a) \/ Resolve(a) \/ ConnectTcp(a) \/ RequestTunnel(a)
  \/ ReadResponse(a) \/ ResponseEnds(a) \/ Secure(a)
  \/ DeadlinePasses(a) \/ Timeout(a) \/ AbortTakes(a)

ConnectingNext ==
  \/ \E a \in Attempts :
       AttemptNext(a) \/ JoinStream(a) \/ JoinError(a) \/ PeerSends(a)
  \/ Abandon
  \/ ReadStream

ConnectingSpec == ConnectingInit /\ [][ConnectingNext]_connectingVars

\* Tasks are polled and time passes; of the network and of DNS nothing is asked.
ConnectingFairness ==
  \A a \in Attempts :
    /\ WF_connectingVars(StartAttempt(a))
    /\ WF_connectingVars(DeadlinePasses(a))
    /\ WF_connectingVars(Timeout(a))
    /\ WF_connectingVars(AbortTakes(a))
    /\ WF_connectingVars(JoinStream(a) \/ JoinError(a))

-----------------------------------------------------------------------------
(* Properties                                                              *)

\* Each variable holds a value of its type.
ConnectingTypeOK ==
  /\ targets \in [Attempts -> {"invalid", "ws", "wss"}]
  /\ viaProxy \in BOOLEAN
  /\ attempts \in [Attempts ->
       [at : {"spawned", "resolving", "connecting", "requesting", "awaiting", "securing"}
               \cup Finished \cup Gone,
        socket : BOOLEAN, late : BOOLEAN]]
  /\ wires \in [Attempts -> Seq(1..BytesMax)]
  /\ produced \in [Attempts -> 0..BytesMax]
  /\ pendings \in [Attempts -> Seq(1..BytesMax)]
  /\ errors \in Seq(Attempts)
  /\ outcome \in {NoOutcome, "failed", "abandoned"} \cup Attempts
  /\ delivered \in Seq(1..BytesMax)

\* AllSignalingUrlsFailed comes only after every URL has failed, and tells the error
\* of each of them once.
FailureIsComplete ==
  /\ \A i, j \in DOMAIN errors : errors[i] = errors[j] => i = j
  /\ \A i \in DOMAIN errors : attempts[errors[i]].at = "joined" /\ outcome # errors[i]
  /\ outcome = "failed" => \A a \in Attempts : \E i \in DOMAIN errors : errors[i] = a

\* What a peer sends after the response of the proxy is read once and in order, at
\* whichever byte the reads divide it: first by the tunnel, then by the stream.
NothingReadIsLost ==
  \A a \in Attempts :
    LET read == IF outcome = a THEN delivered ELSE <<>>
        bytes == read \o pendings[a] \o wires[a]
        first == produced[a] - Len(bytes) + 1
    IN  attempts[a].socket =>
          /\ \A i \in DOMAIN bytes : bytes[i] = first + i - 1
          /\ attempts[a].at \in {"securing", "connected", "joined"} => first = HeadSize + 1

\* While nothing has been returned, only DNS and the write of a request to the
\* proxy can hold connect_signaling_urls: all the rest ends by the deadline.
OnlyDnsAndWriteHold ==
  []<>(outcome # NoOutcome
       \/ \E a \in Attempts : attempts[a].at \in {"resolving", "requesting"})

\* Once it has returned, or run() is dropped, no other attempt keeps its socket.
LosersEnd ==
  []<>(\A a \in Attempts :
         outcome \notin {NoOutcome, a} => attempts[a].at \in Gone /\ ~attempts[a].socket)
=============================================================================
