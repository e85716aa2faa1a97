--------------------------- MODULE Pipelines_proofs ---------------------------
(***************************************************************************)
(* Proofs about the parts around the connection: a WebSocket's opening and *)
(* its timers, the replies of RPC, the frames of a video device, and then  *)
(* all of these and the codecs and MP4 files in one.                       *)
(*                                                                         *)
(* The opening of the stream, for any URLs, any length of the proxy's      *)
(* response and any number of bytes.  That no byte is lost rests on what   *)
(* the deadline does not touch: what has been read, what is pending and    *)
(* what is still on the wire are three runs of numbers, each beginning     *)
(* where the one before it ends, and the last ending with the last byte    *)
(* sent.                                                                   *)
(*                                                                         *)
(* The timers, for every set of ids, every capacity and any number of      *)
(* timers and connections.  TimersAreHeld is inductive together with the   *)
(* types: what set_timer and Drop abort is found by the number in the      *)
(* handle, and every task that is not aborted is in its id's handle.       *)
(*                                                                         *)
(* The replies, for any members and any number of them: what the loop over *)
(* the members has seen is what the object has once, twice or not at all.  *)
(*                                                                         *)
(* That libyuv reads within the buffers of a video device is arithmetic of *)
(* any layout.  A behaviour of MCPipelines is, for the part that runs, one *)
(* of that part's own specification, and the others rest: so what is       *)
(* proved of each part holds of the whole.                                 *)
(***************************************************************************)
EXTENDS Codecs_proofs, Mp4Playback_proofs, MCPipelines

States == {"spawned", "resolving", "connecting", "requesting", "awaiting", "securing"}
            \cup Finished \cup Gone
Attempt == [at : States, socket : BOOLEAN, late : BOOLEAN]
WireBytes == 1..BytesMax

\* The bytes after lo, up to hi.
Run(s, lo, hi) == hi = lo + Len(s) /\ \A i \in 1..Len(s) : s[i] = lo + i

\* What has been given to run() of attempt a.
ReadOf(a) == IF outcome = a THEN delivered ELSE <<>>

\* Before, in and after the tunnel of attempt a.
InOrder(a) ==
  /\ attempts[a].at \in {"spawned", "resolving", "connecting", "refused", "aborted"} => ~attempts[a].socket
  /\ attempts[a].at \in {"spawned", "resolving", "connecting", "requesting"} =>
       /\ pendings[a] = <<>> /\ wires[a] = <<>>
       /\ produced[a] = IF viaProxy THEN 0 ELSE HeadSize
  /\ attempts[a].at = "requesting" => viaProxy
  /\ attempts[a].at \in {"securing", "connected"} => attempts[a].socket
  /\ attempts[a].at = "awaiting" =>
       /\ pendings[a] = <<>>
       /\ \E lo \in 0..(HeadSize - 1) : Run(wires[a], lo, produced[a])
  /\ attempts[a].at \in {"securing", "connected", "joined"} /\ attempts[a].socket =>
       \E m, k \in Nat :
         Run(ReadOf(a), HeadSize, m) /\ Run(pendings[a], m, k) /\ Run(wires[a], k, produced[a])

Collected ==
  /\ FailureIsComplete
  /\ outcome = NoOutcome =>
       \A a \in Attempts : attempts[a].at = "joined" => \E i \in DOMAIN errors : errors[i] = a
  /\ outcome \in Attempts => attempts[outcome].at = "joined"
  /\ outcome \notin Attempts => delivered = <<>>

ConnectingInv == ConnectingTypeOK /\ Collected /\ \A a \in Attempts : InOrder(a)

LEMMA Bounds ==
  /\ HeadSize \in Nat \ {0} /\ BytesMax \in Nat /\ HeadSize <= BytesMax
  /\ NoOutcome \notin Attempts /\ NoOutcome \notin {"failed", "abandoned"}
  /\ "failed" \notin Attempts /\ "abandoned" \notin Attempts
<1>1. /\ HeadSize \in Nat \ {0} /\ BytesMax \in Nat /\ HeadSize <= BytesMax
      /\ NoOutcome \notin Attempts \cup {"failed", "abandoned"}
      /\ {"failed", "abandoned"} \cap Attempts = {}
  BY Zenon, ConnectingAssumption DEF ConnectingAssumption
<1>2. \A x \in {"failed", "abandoned"} : x \notin Attempts
  BY <1>1, Zenon
<1> QED BY <1>1, <1>2

-----------------------------------------------------------------------------
(* Runs of bytes                                                           *)

LEMMA SubSeqFacts ==
  ASSUME NEW S, NEW s \in Seq(S), NEW m \in Nat \ {0}, NEW n \in 0..Len(s)
  PROVE  /\ SubSeq(s, m, n) \in Seq(S)
         /\ Len(SubSeq(s, m, n)) = IF m <= n THEN n - m + 1 ELSE 0
         /\ \A i \in 1..Len(SubSeq(s, m, n)) : SubSeq(s, m, n)[i] = s[m + i - 1]
  OBVIOUS

LEMMA ConcatFacts ==
  ASSUME NEW S, NEW s \in Seq(S), NEW t \in Seq(S)
  PROVE  /\ s \o t \in Seq(S)
         /\ Len(s \o t) = Len(s) + Len(t)
         /\ \A i \in 1..Len(s) : (s \o t)[i] = s[i]
         /\ \A i \in 1..Len(t) : (s \o t)[Len(s) + i] = t[i]
  OBVIOUS

LEMMA RunEmpty ==
  ASSUME NEW lo \in Nat
  PROVE  Run(<<>>, lo, lo)
  BY DEF Run

\* The part of a run from its m-th byte to its n-th.
LEMMA RunPart ==
  ASSUME NEW s \in Seq(WireBytes), NEW lo \in Nat, NEW hi, Run(s, lo, hi),
         NEW m \in Nat \ {0}, NEW n \in 0..Len(s), m <= n + 1
  PROVE  /\ SubSeq(s, m, n) \in Seq(WireBytes)
         /\ Run(SubSeq(s, m, n), lo + m - 1, lo + n)
<1>1. /\ SubSeq(s, m, n) \in Seq(WireBytes)
      /\ Len(SubSeq(s, m, n)) = n - m + 1
      /\ \A i \in 1..Len(SubSeq(s, m, n)) : SubSeq(s, m, n)[i] = s[m + i - 1]
  BY SubSeqFacts
<1>2. ASSUME NEW i \in 1..Len(SubSeq(s, m, n)) PROVE SubSeq(s, m, n)[i] = (lo + m - 1) + i
  <2>1. m + i - 1 \in 1..Len(s)
    BY <1>1, <1>2
  <2>2. s[m + i - 1] = lo + (m + i - 1)
    BY <2>1 DEF Run
  <2> QED BY <1>1, <1>2, <2>2
<1>3. lo + n = (lo + m - 1) + (n - m + 1)
  OBVIOUS
<1> QED BY <1>1, <1>2, <1>3 DEF Run

LEMMA RunConcat ==
  ASSUME NEW s \in Seq(WireBytes), NEW t \in Seq(WireBytes), NEW lo \in Nat, NEW mid, NEW hi,
         Run(s, lo, mid), Run(t, mid, hi)
  PROVE  s \o t \in Seq(WireBytes) /\ Run(s \o t, lo, hi)
<1>1. /\ s \o t \in Seq(WireBytes) /\ Len(s) \in Nat /\ Len(t) \in Nat
      /\ Len(s \o t) = Len(s) + Len(t)
      /\ \A i \in 1..Len(s) : (s \o t)[i] = s[i]
      /\ \A i \in 1..Len(t) : (s \o t)[Len(s) + i] = t[i]
  BY ConcatFacts
<1>2. mid = lo + Len(s) /\ hi = mid + Len(t)
  BY DEF Run
<1>3. ASSUME NEW i \in 1..Len(s \o t) PROVE (s \o t)[i] = lo + i
  <2>1. CASE i \in 1..Len(s)
    BY <1>1, <2>1 DEF Run
  <2>2. CASE i \notin 1..Len(s)
    <3>1. i - Len(s) \in 1..Len(t)
      BY <1>1, <1>3, <2>2
    <3>2. (s \o t)[Len(s) + (i - Len(s))] = t[i - Len(s)] /\ t[i - Len(s)] = mid + (i - Len(s))
      BY <1>1, <3>1 DEF Run
    <3>3. Len(s) + (i - Len(s)) = i /\ mid + (i - Len(s)) = lo + i
      BY <1>1, <1>2
    <3> QED BY <3>2, <3>3
  <2> QED BY <2>1, <2>2
<1> QED BY <1>1, <1>2, <1>3 DEF Run

LEMMA RunAppend ==
  ASSUME NEW s \in Seq(WireBytes), NEW lo \in Nat, NEW hi, Run(s, lo, hi), hi < BytesMax
  PROVE  Append(s, hi + 1) \in Seq(WireBytes) /\ Run(Append(s, hi + 1), lo, hi + 1)
<1>1. Len(s) \in Nat /\ hi = lo + Len(s)
  BY DEF Run
<1>2. hi + 1 \in WireBytes
  BY <1>1, Bounds DEF WireBytes
<1>3. Append(s, hi + 1) \in Seq(WireBytes) /\ Len(Append(s, hi + 1)) = Len(s) + 1
  BY <1>2
<1>4. ASSUME NEW i \in 1..Len(Append(s, hi + 1)) PROVE Append(s, hi + 1)[i] = lo + i
  BY <1>1, <1>3, <1>4 DEF Run
<1> QED BY <1>1, <1>3, <1>4 DEF Run

-----------------------------------------------------------------------------
(* One attempt changes                                                     *)

\* Attempt a goes to `at`, the others stay where they are.
Moved(a, at, socket) ==
  /\ attempts' \in [Attempts -> Attempt]
  /\ attempts'[a].at = at /\ attempts'[a].socket = socket
  /\ \A b \in Attempts \ {a} : attempts'[b] = attempts[b]

LEMMA ConnectingTypes ==
  ASSUME ConnectingTypeOK
  PROVE  /\ attempts \in [Attempts -> Attempt]
         /\ wires \in [Attempts -> Seq(WireBytes)] /\ pendings \in [Attempts -> Seq(WireBytes)]
         /\ produced \in [Attempts -> 0..BytesMax] /\ delivered \in Seq(WireBytes)
         /\ errors \in Seq(Attempts)
  BY DEF ConnectingTypeOK, Attempt, States, WireBytes

LEMMA MovedFacts ==
  ASSUME ConnectingTypeOK, NEW a \in Attempts
  PROVE  /\ attempts' = Refused(a) => Moved(a, "refused", FALSE)
         /\ \A at \in States : attempts' = Proceeding(a, at) => Moved(a, at, TRUE)
         /\ \A at \in States :
              attempts' = [attempts EXCEPT ![a].at = at] => Moved(a, at, attempts[a].socket)
         /\ attempts' = [attempts EXCEPT ![a].at = "aborted", ![a].socket = FALSE] =>
              Moved(a, "aborted", FALSE)
         /\ attempts' = [attempts EXCEPT ![a].late = TRUE] =>
              Moved(a, attempts[a].at, attempts[a].socket)
<1>1. attempts \in [Attempts -> Attempt]
  BY ConnectingTypes
<1>2. "refused" \in States /\ "aborted" \in States
  BY DEF States, Finished, Gone
<1>3. ASSUME NEW at \in States, NEW socket \in BOOLEAN,
             attempts' = [attempts EXCEPT ![a].at = at, ![a].socket = socket]
      PROVE  Moved(a, at, socket)
  BY <1>1, <1>3 DEF Moved, Attempt
<1>4. ASSUME NEW at \in States, attempts' = [attempts EXCEPT ![a].at = at]
      PROVE  Moved(a, at, attempts[a].socket)
  BY <1>1, <1>4 DEF Moved, Attempt
<1>5. ASSUME attempts' = [attempts EXCEPT ![a].late = TRUE]
      PROVE  Moved(a, attempts[a].at, attempts[a].socket)
  BY <1>1, <1>5 DEF Moved, Attempt
<1> QED BY <1>2, <1>3, <1>4, <1>5, Zenon DEF Refused, Proceeding

\* Nothing that InOrder(a) speaks of has changed.
LEMMA WireOrderKept ==
  ASSUME NEW a \in Attempts, InOrder(a),
         attempts'[a] = attempts[a], pendings'[a] = pendings[a], wires'[a] = wires[a],
         produced'[a] = produced[a], viaProxy' = viaProxy, ReadOf(a)' = ReadOf(a)
  PROVE  InOrder(a)'
  BY Zenon DEF InOrder

\* A step of the tasks leaves what was collected as it is.
LEMMA CollectedKept ==
  ASSUME ConnectingTypeOK, Collected, UNCHANGED <<errors, outcome, delivered>>,
         \A b \in Attempts : (attempts'[b].at = "joined") = (attempts[b].at = "joined")
  PROVE  Collected'
<1>1. \A i \in DOMAIN errors : errors[i] \in Attempts
  BY ConnectingTypes
<1>2. FailureIsComplete'
  BY <1>1, Zenon DEF Collected, FailureIsComplete
<1> QED BY <1>2, Zenon DEF Collected

\* A step of the task of attempt a, which changes its state and what it has read.
LEMMA TaskStep ==
  ASSUME ConnectingInv, NEW a \in Attempts, NEW at \in States, NEW socket,
         Moved(a, at, socket), attempts[a].at # "joined", at # "joined",
         UNCHANGED <<targets, viaProxy, produced, errors, outcome, delivered>>,
         wires' \in [Attempts -> Seq(WireBytes)], pendings' \in [Attempts -> Seq(WireBytes)],
         \A b \in Attempts \ {a} : wires'[b] = wires[b] /\ pendings'[b] = pendings[b],
         InOrder(a)'
  PROVE  ConnectingInv'
<1>1. ConnectingTypeOK /\ Collected /\ \A b \in Attempts : InOrder(b)
  BY Zenon DEF ConnectingInv
<1>2. ConnectingTypeOK'
  BY <1>1 DEF ConnectingTypeOK, Moved, Attempt, States, WireBytes
<1>3. \A b \in Attempts : (attempts'[b].at = "joined") = (attempts[b].at = "joined")
  BY Zenon DEF Moved
<1>4. Collected'
  BY <1>1, <1>3, CollectedKept
<1>5. ASSUME NEW b \in Attempts \ {a} PROVE InOrder(b)'
  <2>1. attempts'[b] = attempts[b] /\ ReadOf(b)' = ReadOf(b)
    BY <1>5, Zenon DEF Moved, ReadOf
  <2> QED BY <1>1, <1>5, <2>1, WireOrderKept
<1> QED BY <1>2, <1>4, <1>5, Zenon DEF ConnectingInv

\* Where nothing has been read, the bytes of an attempt begin after the proxy's response.
LEMMA NothingRead ==
  ASSUME ConnectingInv, NEW a \in Attempts, attempts[a].at # "joined"
  PROVE  ReadOf(a) = <<>>
<1>1. outcome = a => FALSE
  BY Zenon DEF ConnectingInv, Collected
<1> QED BY <1>1, Zenon DEF ReadOf

-----------------------------------------------------------------------------
(* The task of attempt a                                                   *)

\* A task that only moves on, or fails.
QuietAttempt(a) ==
  UNCHANGED <<targets, viaProxy, wires, produced, pendings, errors, outcome, delivered>>

LEMMA RefusedStep ==
  ASSUME ConnectingInv, NEW a \in Attempts, attempts[a].at # "joined", QuietAttempt(a),
         Moved(a, "refused", FALSE) \/ Moved(a, "aborted", FALSE)
  PROVE  ConnectingInv'
<1>1. PICK at \in {"refused", "aborted"} : Moved(a, at, FALSE)
  BY Zenon
<1>2. at \in States /\ at # "joined"
  BY DEF States, Finished, Gone
<1>3. ~attempts'[a].socket /\ attempts'[a].at = at
  BY <1>1, Zenon DEF Moved
<1>4. at \notin {"spawned", "resolving", "connecting", "requesting", "awaiting", "securing",
                "connected", "joined"}
  OBVIOUS
<1>5. InOrder(a)'
  BY <1>3, <1>4, Zenon DEF InOrder
<1>6. wires' \in [Attempts -> Seq(WireBytes)] /\ pendings' \in [Attempts -> Seq(WireBytes)]
  BY ConnectingTypes DEF QuietAttempt, ConnectingInv
<1> QED BY <1>1, <1>2, <1>5, <1>6, TaskStep, Zenon DEF QuietAttempt

\* A task moves on, with nothing read.
LEMMA MovesOnStep ==
  ASSUME ConnectingInv, NEW a \in Attempts, attempts[a].at # "joined", QuietAttempt(a),
         NEW at \in States, NEW socket, at # "joined", Moved(a, at, socket), InOrder(a)'
  PROVE  ConnectingInv'
<1>1. wires' \in [Attempts -> Seq(WireBytes)] /\ pendings' \in [Attempts -> Seq(WireBytes)]
  BY ConnectingTypes DEF QuietAttempt, ConnectingInv
<1> QED BY <1>1, TaskStep, Zenon DEF QuietAttempt

LEMMA EarlyStep ==
  ASSUME ConnectingInv, NEW a \in Attempts, StartAttempt(a) \/ Resolve(a)
  PROVE  ConnectingInv'
<1>1. ConnectingTypeOK /\ InOrder(a)
  BY Zenon DEF ConnectingInv
<1>2. QuietAttempt(a) /\ attempts[a].at \in {"spawned", "resolving"}
  BY DEF StartAttempt, Resolve, QuietAttempt, peerVars, callerVars
<1>3. CASE attempts' = Refused(a)
  BY <1>1, <1>2, <1>3, MovedFacts, RefusedStep
<1>4. ASSUME NEW at \in {"resolving", "connecting"}, attempts' = [attempts EXCEPT ![a].at = at]
      PROVE  ConnectingInv'
  <2>1. at \in States /\ at # "joined"
    BY DEF States
  <2>2. Moved(a, at, attempts[a].socket)
    BY <1>1, <1>4, <2>1, MovedFacts
  <2>3. /\ ~attempts[a].socket /\ pendings[a] = <<>> /\ wires[a] = <<>>
        /\ produced[a] = IF viaProxy THEN 0 ELSE HeadSize
    BY <1>1, <1>2, Zenon DEF InOrder
  <2>4. /\ attempts'[a].at = at /\ ~attempts'[a].socket
        /\ at \notin {"requesting", "awaiting", "securing", "connected", "joined"}
    BY <2>2, <2>3, Zenon DEF Moved
  <2>5. InOrder(a)'
    BY <1>2, <2>3, <2>4, Zenon DEF InOrder, QuietAttempt
  <2> QED BY <1>2, <2>1, <2>2, <2>5, MovesOnStep
<1>5. attempts' = Refused(a) \/ \E at \in {"resolving", "connecting"} : attempts' = [attempts EXCEPT ![a].at = at]
  BY Zenon DEF StartAttempt, Resolve
<1> QED BY <1>3, <1>4, <1>5, Zenon

\* What InOrder asks of an attempt that has a socket and no response to wait for.
LEMMA TunnelOrder ==
  ASSUME ConnectingInv, NEW a \in Attempts, attempts[a].at = "connecting",
         ~viaProxy, QuietAttempt(a), NEW at \in {"securing", "connected"}, Moved(a, at, TRUE)
  PROVE  InOrder(a)'
<1>1. InOrder(a) /\ ReadOf(a) = <<>>
  BY NothingRead DEF ConnectingInv
<1>2. pendings[a] = <<>> /\ wires[a] = <<>> /\ produced[a] = HeadSize
  BY <1>1, Zenon DEF InOrder
<1>3. ReadOf(a)' = <<>> /\ pendings'[a] = <<>> /\ wires'[a] = <<>> /\ produced'[a] = HeadSize
  BY <1>1, <1>2, Zenon DEF QuietAttempt, ReadOf
<1>4. Run(<<>>, HeadSize, HeadSize) /\ HeadSize \in Nat
  BY RunEmpty, Bounds
<1>5. \E m, k \in Nat :
        Run(ReadOf(a)', HeadSize, m) /\ Run(pendings'[a], m, k) /\ Run(wires'[a], k, produced'[a])
  BY <1>3, <1>4, Zenon
<1>6. /\ attempts'[a].at = at /\ attempts'[a].socket
      /\ at \notin {"spawned", "resolving", "connecting", "refused", "aborted", "requesting", "awaiting"}
  BY Zenon DEF Moved
<1> QED BY <1>5, <1>6, Zenon DEF InOrder

LEMMA ConnectTcpStep ==
  ASSUME ConnectingInv, NEW a \in Attempts, ConnectTcp(a)
  PROVE  ConnectingInv'
<1>1. ConnectingTypeOK /\ InOrder(a)
  BY Zenon DEF ConnectingInv
<1>2. QuietAttempt(a) /\ attempts[a].at = "connecting"
  BY DEF ConnectTcp, QuietAttempt, peerVars, callerVars
<1>3. CASE attempts' = Refused(a)
  BY <1>1, <1>2, <1>3, MovedFacts, RefusedStep
<1>4. CASE viaProxy /\ attempts' = Proceeding(a, "requesting")
  <2>1. "requesting" \in States
    BY DEF States
  <2>2. Moved(a, "requesting", TRUE)
    BY <1>1, <1>4, <2>1, MovedFacts
  <2>3. /\ pendings[a] = <<>> /\ wires[a] = <<>>
        /\ produced[a] = IF viaProxy THEN 0 ELSE HeadSize
    BY <1>1, <1>2, Zenon DEF InOrder
  <2>4. attempts'[a].at = "requesting"
    BY <2>2, Zenon DEF Moved
  <2>5. InOrder(a)'
    BY <1>2, <1>4, <2>3, <2>4 DEF InOrder, QuietAttempt
  <2> QED BY <1>2, <2>1, <2>2, <2>5, MovesOnStep
<1>5. CASE ~viaProxy /\ attempts' = Proceeding(a, AfterTunnel(a))
  <2>1. AfterTunnel(a) \in {"securing", "connected"}
    BY DEF AfterTunnel
  <2>2. AfterTunnel(a) \in States /\ AfterTunnel(a) # "joined"
    BY <2>1 DEF States, Finished
  <2>3. Moved(a, AfterTunnel(a), TRUE)
    BY <1>1, <1>5, <2>2, MovedFacts
  <2>4. InOrder(a)'
    BY <1>2, <1>5, <2>1, <2>3, TunnelOrder
  <2> QED BY <1>2, <2>2, <2>3, <2>4, MovesOnStep
<1>6. attempts' \in {Refused(a), Proceeding(a, IF viaProxy THEN "requesting" ELSE AfterTunnel(a))}
  BY Zenon DEF ConnectTcp
<1> QED BY <1>3, <1>4, <1>5, <1>6, Zenon

LEMMA RequestTunnelStep ==
  ASSUME ConnectingInv, NEW a \in Attempts, RequestTunnel(a)
  PROVE  ConnectingInv'
<1>1. ConnectingTypeOK /\ InOrder(a)
  BY Zenon DEF ConnectingInv
<1>2. QuietAttempt(a) /\ attempts[a].at = "requesting"
  BY DEF RequestTunnel, QuietAttempt, peerVars, callerVars
<1>3. CASE attempts' = Refused(a)
  BY <1>1, <1>2, <1>3, MovedFacts, RefusedStep
<1>4. CASE attempts' = Proceeding(a, "awaiting")
  <2>1. "awaiting" \in States
    BY DEF States
  <2>2. Moved(a, "awaiting", TRUE)
    BY <1>1, <1>4, <2>1, MovedFacts
  <2>3. pendings'[a] = <<>> /\ wires'[a] = <<>> /\ produced'[a] = 0
    BY <1>1, <1>2, Zenon DEF InOrder, QuietAttempt
  <2>4. attempts'[a].at = "awaiting"
    BY <2>2, Zenon DEF Moved
  <2>5. 0 \in 0..(HeadSize - 1) /\ Run(<<>>, 0, 0)
    BY RunEmpty, Bounds
  <2>6. \E lo \in 0..(HeadSize - 1) : Run(wires'[a], lo, produced'[a])
    BY <2>3, <2>5, Zenon
  <2>7. InOrder(a)'
    BY <2>3, <2>4, <2>6, Zenon DEF InOrder
  <2> QED BY <1>2, <2>1, <2>2, <2>7, MovesOnStep
<1> QED BY <1>3, <1>4, Zenon DEF RequestTunnel

\* The task fails, at its deadline or before, or it is aborted.
LEMMA FailStep ==
  ASSUME ConnectingInv, NEW a \in Attempts,
         ResponseEnds(a) \/ Timeout(a) \/ AbortTakes(a)
  PROVE  ConnectingInv'
<1>1. ConnectingTypeOK
  BY Zenon DEF ConnectingInv
<1>2. QuietAttempt(a) /\ attempts[a].at # "joined"
  BY DEF ResponseEnds, Timeout, AbortTakes, QuietAttempt, peerVars, callerVars, Gone
<1>3. CASE attempts' = Refused(a)
  BY <1>1, <1>2, <1>3, MovedFacts, RefusedStep
<1>4. CASE attempts' = [attempts EXCEPT ![a].at = "aborted", ![a].socket = FALSE]
  BY <1>1, <1>2, <1>4, MovedFacts, RefusedStep
<1> QED BY <1>3, <1>4, Zenon DEF ResponseEnds, Timeout, AbortTakes

LEMMA SecureStep ==
  ASSUME ConnectingInv, NEW a \in Attempts, Secure(a)
  PROVE  ConnectingInv'
<1>1. ConnectingTypeOK /\ InOrder(a)
  BY Zenon DEF ConnectingInv
<1>2. QuietAttempt(a) /\ attempts[a].at = "securing"
  BY DEF Secure, QuietAttempt, peerVars, callerVars
<1>3. CASE attempts' = Refused(a)
  BY <1>1, <1>2, <1>3, MovedFacts, RefusedStep
<1>4. CASE attempts' = Proceeding(a, "connected")
  <2>1. "connected" \in States
    BY DEF States, Finished
  <2>2. Moved(a, "connected", TRUE)
    BY <1>1, <1>4, <2>1, MovedFacts
  <2>3. attempts'[a].at = "connected" /\ attempts'[a].socket
    BY <2>2, Zenon DEF Moved
  <2>4. \E m, k \in Nat :
          Run(ReadOf(a), HeadSize, m) /\ Run(pendings[a], m, k) /\ Run(wires[a], k, produced[a])
    BY <1>1, <1>2, Zenon DEF InOrder
  <2>5. ReadOf(a)' = ReadOf(a) /\ pendings' = pendings /\ wires' = wires /\ produced' = produced
    BY <1>2, Zenon DEF QuietAttempt, ReadOf
  <2>6. InOrder(a)'
    BY <2>3, <2>4, <2>5, Zenon DEF InOrder
  <2> QED BY <1>2, <2>1, <2>2, <2>6, MovesOnStep
<1> QED BY <1>3, <1>4, Zenon DEF Secure

LEMMA DeadlinePassesStep ==
  ASSUME ConnectingInv, NEW a \in Attempts, DeadlinePasses(a)
  PROVE  ConnectingInv'
<1>1. ConnectingTypeOK /\ InOrder(a)
  BY Zenon DEF ConnectingInv
<1>2. /\ QuietAttempt(a) /\ attempts[a].at # "joined"
      /\ attempts' = [attempts EXCEPT ![a].late = TRUE]
  BY DEF DeadlinePasses, QuietAttempt, peerVars, callerVars, Working, Gone
<1>3. attempts[a].at \in States
  BY <1>1, ConnectingTypes DEF Attempt
<1>4. Moved(a, attempts[a].at, attempts[a].socket)
  BY <1>1, <1>2, MovedFacts, Zenon
<1>5. attempts'[a].at = attempts[a].at /\ attempts'[a].socket = attempts[a].socket
  BY <1>4, Zenon DEF Moved
<1>6. ReadOf(a)' = ReadOf(a) /\ pendings' = pendings /\ wires' = wires /\ produced' = produced
      /\ viaProxy' = viaProxy
  BY <1>2, Zenon DEF QuietAttempt, ReadOf
<1>7. InOrder(a)'
  BY <1>1, <1>5, <1>6, Zenon DEF InOrder
<1> QED BY <1>2, <1>3, <1>4, <1>7, MovesOnStep

\* A read takes n bytes: those of the response are dropped, the rest is pending.
LEMMA ReadResponseStep ==
  ASSUME ConnectingInv, NEW a \in Attempts, ReadResponse(a)
  PROVE  ConnectingInv'
<1>1. ConnectingTypeOK /\ InOrder(a) /\ attempts[a].at = "awaiting"
  BY Zenon DEF ConnectingInv, ReadResponse
<1>2. UNCHANGED <<targets, viaProxy, produced, errors, outcome, delivered>>
  BY Zenon DEF ReadResponse, callerVars
<1> DEFINE rest(n) == SubSeq(wires[a], HeadSize + 2 - wires[a][1], n)
<1>3. PICK n \in 1..Len(wires[a]) :
        /\ wires' = [wires EXCEPT ![a] = SubSeq(@, n + 1, Len(@))]
        /\ \/ attempts' = Refused(a) /\ UNCHANGED pendings
           \/ wires[a][n] < HeadSize /\ UNCHANGED taskVars
           \/ /\ wires[a][n] >= HeadSize
              /\ rest(n) = <<>> \/ targets[a] = "ws"
              /\ attempts' = Proceeding(a, AfterTunnel(a))
              /\ pendings' = [pendings EXCEPT ![a] = rest(n)]
  BY Zenon DEF ReadResponse
<1>4. wires[a] \in Seq(WireBytes) /\ pendings[a] = <<>> /\ produced[a] \in 0..BytesMax /\ ReadOf(a)' = <<>>
  <2>1. ReadOf(a) = <<>>
    BY <1>1, NothingRead
  <2> QED BY <1>1, <1>2, <2>1, ConnectingTypes DEF InOrder, ReadOf
<1>5. PICK lo \in 0..(HeadSize - 1) : Run(wires[a], lo, produced[a])
  BY <1>1, Zenon DEF InOrder
<1>6. lo \in Nat /\ lo < HeadSize /\ n \in 0..Len(wires[a]) /\ n >= 1 /\ Len(wires[a]) \in Nat
  BY <1>4, Bounds
<1>7. wires[a][1] = lo + 1 /\ wires[a][n] = lo + n /\ produced[a] = lo + Len(wires[a])
  BY <1>4, <1>5, <1>6 DEF Run
<1> HIDE DEF rest
<1>8. /\ wires'[a] = SubSeq(wires[a], n + 1, Len(wires[a]))
      /\ wires' \in [Attempts -> Seq(WireBytes)]
      /\ \A b \in Attempts \ {a} : wires'[b] = wires[b]
      /\ Run(wires'[a], lo + n, produced[a])
  <2>1. /\ SubSeq(wires[a], n + 1, Len(wires[a])) \in Seq(WireBytes)
        /\ Run(SubSeq(wires[a], n + 1, Len(wires[a])), lo + (n + 1) - 1, lo + Len(wires[a]))
    <3>1. n + 1 \in Nat \ {0} /\ Len(wires[a]) \in 0..Len(wires[a]) /\ n + 1 <= Len(wires[a]) + 1
      BY <1>6
    <3> QED BY <1>4, <1>5, <1>6, <3>1, RunPart
  <2>2. lo + (n + 1) - 1 = lo + n
    BY <1>6
  <2>3. wires \in [Attempts -> Seq(WireBytes)]
    BY <1>1, ConnectingTypes
  <2> QED BY <1>3, <1>7, <2>1, <2>2, <2>3
<1>9. CASE attempts' = Refused(a) /\ UNCHANGED pendings
  <2>1. Moved(a, "refused", FALSE)
    BY <1>1, <1>9, MovedFacts
  <2>2. attempts'[a].at = "refused" /\ ~attempts'[a].socket /\ "refused" \in States
    BY <2>1, Zenon DEF Moved, States, Finished
  <2>3. InOrder(a)'
    BY <2>2 DEF InOrder
  <2>4. pendings' \in [Attempts -> Seq(WireBytes)]
    BY <1>1, <1>9, ConnectingTypes
  <2> QED BY <1>1, <1>2, <1>8, <1>9, <2>1, <2>2, <2>3, <2>4, TaskStep
<1>10. CASE wires[a][n] < HeadSize /\ UNCHANGED taskVars
  <2>1. attempts' = attempts /\ pendings' = pendings
    BY <1>10 DEF taskVars
  <2>2. lo + n \in 0..(HeadSize - 1)
    BY <1>6, <1>7, <1>10, Bounds
  <2>3. InOrder(a)'
    BY <1>1, <1>2, <1>4, <1>8, <2>1, <2>2 DEF InOrder
  <2>4. Moved(a, "awaiting", attempts[a].socket) /\ "awaiting" \in States
    BY <1>1, <2>1, ConnectingTypes DEF Moved, States
  <2>5. pendings' \in [Attempts -> Seq(WireBytes)]
    BY <1>1, <2>1, ConnectingTypes
  <2> QED BY <1>1, <1>2, <1>8, <2>1, <2>3, <2>4, <2>5, TaskStep
<1>11. CASE /\ wires[a][n] >= HeadSize
            /\ attempts' = Proceeding(a, AfterTunnel(a))
            /\ pendings' = [pendings EXCEPT ![a] = rest(n)]
  <2>1. AfterTunnel(a) \in {"securing", "connected"}
    BY DEF AfterTunnel
  <2>2. AfterTunnel(a) \in States /\ AfterTunnel(a) # "joined"
    BY <2>1 DEF States, Finished
  <2>3. Moved(a, AfterTunnel(a), TRUE)
    BY <1>1, <1>11, <2>2, MovedFacts
  <2>4. rest(n) \in Seq(WireBytes) /\ Run(rest(n), HeadSize, lo + n)
    <3> DEFINE m == HeadSize + 2 - wires[a][1]
    <3>1. m \in Nat \ {0} /\ m <= n + 1 /\ lo + m - 1 = HeadSize
      <4>1. wires[a][1] = lo + 1 /\ wires[a][n] = lo + n /\ wires[a][n] >= HeadSize
        BY <1>7, <1>11
      <4>2. m = HeadSize + 2 - (lo + 1) /\ lo + n >= HeadSize
        BY <4>1
      <4>3. HeadSize \in Nat /\ lo \in Nat /\ lo < HeadSize /\ n \in Nat
        BY <1>6, Bounds
      <4> HIDE DEF m
      <4> QED BY <4>2, <4>3
    <3> HIDE DEF m
    <3>2. SubSeq(wires[a], m, n) \in Seq(WireBytes) /\ Run(SubSeq(wires[a], m, n), lo + m - 1, lo + n)
      BY <1>4, <1>5, <1>6, <3>1, RunPart
    <3> QED BY <3>1, <3>2 DEF rest, m
  <2>5. /\ pendings'[a] = rest(n) /\ pendings' \in [Attempts -> Seq(WireBytes)]
        /\ \A b \in Attempts \ {a} : pendings'[b] = pendings[b]
    BY <1>1, <1>11, <2>4, ConnectingTypes
  <2>6. Run(<<>>, HeadSize, HeadSize) /\ HeadSize \in Nat /\ lo + n \in Nat
    BY <1>6, RunEmpty, Bounds
  <2>7. \E m, k \in Nat :
          Run(ReadOf(a)', HeadSize, m) /\ Run(pendings'[a], m, k) /\ Run(wires'[a], k, produced'[a])
    BY <1>2, <1>4, <1>8, <2>4, <2>5, <2>6, Zenon
  <2>8. /\ attempts'[a].at = AfterTunnel(a) /\ attempts'[a].socket
        /\ AfterTunnel(a) \notin {"spawned", "resolving", "connecting", "refused", "aborted",
                                  "requesting", "awaiting"}
    BY <2>1, <2>3, Zenon DEF Moved
  <2>9. InOrder(a)'
    BY <2>7, <2>8, Zenon DEF InOrder
  <2> QED BY <1>1, <1>2, <1>8, <2>2, <2>3, <2>5, <2>9, TaskStep
<1> QED BY <1>3, <1>9, <1>10, <1>11, Zenon

-----------------------------------------------------------------------------
(* The caller, the stream and the peers                                    *)

LEMMA JoinStreamStep ==
  ASSUME ConnectingInv, NEW a \in Attempts, JoinStream(a)
  PROVE  ConnectingInv'
<1>1. ConnectingTypeOK /\ Collected /\ \A b \in Attempts : InOrder(b)
  BY Zenon DEF ConnectingInv
<1>2. /\ outcome = NoOutcome /\ outcome' = a /\ attempts[a].at = "connected"
      /\ attempts' = [attempts EXCEPT ![a].at = "joined"]
      /\ UNCHANGED <<targets, viaProxy, pendings, wires, produced, errors, delivered>>
  BY DEF JoinStream, peerVars
<1>3. "joined" \in States
  BY DEF States, Gone
<1>4. Moved(a, "joined", attempts[a].socket)
  BY <1>1, <1>2, <1>3, MovedFacts
<1>5. /\ attempts'[a].at = "joined" /\ attempts'[a].socket = attempts[a].socket
      /\ \A b \in Attempts \ {a} : attempts'[b] = attempts[b]
      /\ attempts' \in [Attempts -> Attempt]
  BY <1>4, Zenon DEF Moved
<1>6. delivered = <<>>
  BY <1>1, <1>2, Bounds DEF Collected
<1>7. \A b \in Attempts : ReadOf(b)' = ReadOf(b)
  BY <1>2, <1>6, Zenon DEF ReadOf
<1>8. ConnectingTypeOK'
  BY <1>1, <1>2, <1>5 DEF ConnectingTypeOK, Attempt, States
<1>9. \A i \in DOMAIN errors : errors[i] \in Attempts
  BY <1>1, ConnectingTypes
<1>10. \A i \in DOMAIN errors : errors[i] # a /\ attempts'[errors[i]].at = "joined"
  BY <1>1, <1>2, <1>5, <1>9, Zenon DEF Collected, FailureIsComplete
<1>11. outcome' # "failed" /\ outcome' # NoOutcome /\ outcome' \in Attempts
  BY <1>2, Bounds
<1>12. FailureIsComplete'
  BY <1>1, <1>2, <1>10, <1>11, Zenon DEF Collected, FailureIsComplete
<1>13. Collected'
  BY <1>2, <1>5, <1>11, <1>12, Zenon DEF Collected
<1>14. InOrder(a)'
  <2>1. \E m, k \in Nat :
          Run(ReadOf(a), HeadSize, m) /\ Run(pendings[a], m, k) /\ Run(wires[a], k, produced[a])
    BY <1>1, <1>2, Zenon DEF InOrder
  <2> QED BY <1>2, <1>5, <1>7, <2>1, Zenon DEF InOrder
<1>15. \A b \in Attempts \ {a} : InOrder(b)'
  BY <1>1, <1>2, <1>5, <1>7, WireOrderKept
<1> QED BY <1>8, <1>13, <1>14, <1>15, Zenon DEF ConnectingInv

LEMMA JoinErrorStep ==
  ASSUME ConnectingInv, NEW a \in Attempts, JoinError(a)
  PROVE  ConnectingInv'
<1>1. ConnectingTypeOK /\ Collected /\ \A b \in Attempts : InOrder(b)
  BY Zenon DEF ConnectingInv
<1>2. /\ outcome = NoOutcome /\ attempts[a].at = "refused"
      /\ attempts' = [attempts EXCEPT ![a].at = "joined"]
      /\ errors' = Append(errors, a)
      /\ outcome' = IF \A b \in Attempts \ {a} : attempts[b].at = "joined" THEN "failed"
                    ELSE NoOutcome
      /\ UNCHANGED <<targets, viaProxy, pendings, wires, produced, delivered>>
  BY Zenon DEF JoinError, peerVars
<1>3. "joined" \in States
  BY DEF States, Gone
<1>4. Moved(a, "joined", attempts[a].socket)
  BY <1>1, <1>2, <1>3, MovedFacts
<1>5. /\ attempts'[a].at = "joined" /\ ~attempts'[a].socket
      /\ \A b \in Attempts \ {a} : attempts'[b] = attempts[b]
      /\ attempts' \in [Attempts -> Attempt]
  BY <1>1, <1>2, <1>4, Zenon DEF Moved, InOrder
<1>6. outcome' \in {"failed", NoOutcome} /\ outcome' \notin Attempts /\ outcome \notin Attempts
  BY <1>2, Bounds
<1>7. errors \in Seq(Attempts)
  BY <1>1, ConnectingTypes
<1>8. /\ DOMAIN errors' = DOMAIN errors \cup {Len(errors) + 1}
      /\ Len(errors) + 1 \notin DOMAIN errors
      /\ errors'[Len(errors) + 1] = a
      /\ \A i \in DOMAIN errors : errors'[i] = errors[i] /\ errors[i] \in Attempts
      /\ errors' \in Seq(Attempts)
  BY <1>2, <1>7
<1>9. ConnectingTypeOK'
  BY <1>1, <1>2, <1>5, <1>6, <1>8 DEF ConnectingTypeOK, Attempt, States
<1>10. \A i \in DOMAIN errors : errors[i] # a
  BY <1>1, <1>2, Zenon DEF Collected, FailureIsComplete
<1>11. \A i \in DOMAIN errors' : attempts'[errors'[i]].at = "joined" /\ errors'[i] \in Attempts
  <2>1. \A i \in DOMAIN errors : attempts[errors[i]].at = "joined"
    BY <1>1, Zenon DEF Collected, FailureIsComplete
  <2>2. ASSUME NEW i \in DOMAIN errors
        PROVE  attempts'[errors'[i]].at = "joined" /\ errors'[i] \in Attempts
    <3>1. errors'[i] = errors[i] /\ errors[i] \in Attempts \ {a} /\ attempts[errors[i]].at = "joined"
      BY <1>8, <1>10, <2>1, <2>2, Zenon
    <3>2. attempts'[errors[i]] = attempts[errors[i]]
      BY <1>5, <3>1, Zenon
    <3> QED BY <3>1, <3>2, Zenon
  <2>3. attempts'[errors'[Len(errors) + 1]].at = "joined" /\ errors'[Len(errors) + 1] \in Attempts
    BY <1>5, <1>8, Zenon
  <2> QED BY <1>8, <2>2, <2>3, Zenon
<1>12. \A i, j \in DOMAIN errors' : errors'[i] = errors'[j] => i = j
  BY <1>1, <1>8, <1>10, Zenon DEF Collected, FailureIsComplete
<1>13. \A b \in Attempts : attempts'[b].at = "joined" => \E i \in DOMAIN errors' : errors'[i] = b
  <2>1. \A b \in Attempts : attempts[b].at = "joined" => \E i \in DOMAIN errors : errors[i] = b
    BY <1>1, <1>2, Zenon DEF Collected
  <2>2. ASSUME NEW b \in Attempts \ {a}, attempts'[b].at = "joined"
        PROVE  \E i \in DOMAIN errors' : errors'[i] = b
    <3>1. attempts[b].at = "joined"
      BY <1>5, <2>2, Zenon
    <3>2. PICK i \in DOMAIN errors : errors[i] = b
      BY <2>1, <2>2, <3>1, Zenon
    <3>3. i \in DOMAIN errors' /\ errors'[i] = b
      BY <1>8, <3>2, Zenon
    <3> QED BY <3>3, Zenon
  <2>3. \E i \in DOMAIN errors' : errors'[i] = a
    BY <1>8, Zenon
  <2> QED BY <2>2, <2>3, Zenon
<1>14. outcome' = "failed" => \A b \in Attempts : attempts'[b].at = "joined"
  BY <1>2, <1>5, Bounds, Zenon
<1>15. FailureIsComplete'
  <2>1. \A i \in DOMAIN errors' : attempts'[errors'[i]].at = "joined" /\ outcome' # errors'[i]
    BY <1>6, <1>11, Zenon
  <2>2. outcome' = "failed" => \A b \in Attempts : \E i \in DOMAIN errors' : errors'[i] = b
    BY <1>13, <1>14, Zenon
  <2> QED BY <1>12, <2>1, <2>2, Zenon DEF FailureIsComplete
<1>16. Collected'
  BY <1>1, <1>2, <1>6, <1>13, <1>15, Zenon DEF Collected
<1>17. InOrder(a)'
  BY <1>5, Zenon DEF InOrder
<1>18. \A b \in Attempts : ReadOf(b)' = ReadOf(b)
  BY <1>6, Zenon DEF ReadOf
<1>19. \A b \in Attempts \ {a} : InOrder(b)'
  BY <1>1, <1>2, <1>5, <1>18, WireOrderKept
<1> QED BY <1>9, <1>16, <1>17, <1>19, Zenon DEF ConnectingInv

LEMMA AbandonStep ==
  ASSUME ConnectingInv, Abandon
  PROVE  ConnectingInv'
<1>1. ConnectingTypeOK /\ Collected /\ \A b \in Attempts : InOrder(b)
  BY Zenon DEF ConnectingInv
<1>2. /\ outcome = NoOutcome /\ outcome' = "abandoned"
      /\ UNCHANGED <<targets, viaProxy, attempts, pendings, wires, produced, errors, delivered>>
  BY DEF Abandon, taskVars, peerVars
<1>3. outcome \notin Attempts /\ outcome' \notin Attempts /\ outcome' # NoOutcome /\ outcome' # "failed"
  BY <1>2, Bounds
<1>4. ConnectingTypeOK'
  BY <1>1, <1>2 DEF ConnectingTypeOK
<1>5. \A i \in DOMAIN errors : errors[i] \in Attempts
  BY <1>1, ConnectingTypes
<1>6. FailureIsComplete'
  <2>1. errors' = errors /\ attempts' = attempts
    BY <1>2, Zenon
  <2>2. \A i \in DOMAIN errors : attempts[errors[i]].at = "joined" /\ outcome' # errors[i]
    <3>1. \A i \in DOMAIN errors : attempts[errors[i]].at = "joined"
      BY <1>1, Zenon DEF Collected, FailureIsComplete
    <3>2. ASSUME NEW i \in DOMAIN errors PROVE outcome' # errors[i]
      BY <1>3, <1>5
    <3> QED BY <3>1, <3>2, Zenon
  <2>3. \A i, j \in DOMAIN errors : errors[i] = errors[j] => i = j
    BY <1>1, Zenon DEF Collected, FailureIsComplete
  <2> QED BY <1>3, <2>1, <2>2, <2>3, Zenon DEF FailureIsComplete
<1>7. Collected'
  BY <1>1, <1>2, <1>3, <1>6, Zenon DEF Collected
<1>8. \A b \in Attempts : ReadOf(b)' = ReadOf(b)
  BY <1>3, Zenon DEF ReadOf
<1>9. \A b \in Attempts : InOrder(b)'
  BY <1>1, <1>2, <1>8, WireOrderKept
<1> QED BY <1>4, <1>7, <1>9, Zenon DEF ConnectingInv

\* The stream gives what is pending, then what is on the wire: n bytes of it.
LEMMA ReadStreamStep ==
  ASSUME ConnectingInv, ReadStream
  PROVE  ConnectingInv'
<1>1. ConnectingTypeOK /\ Collected /\ \A b \in Attempts : InOrder(b)
  BY Zenon DEF ConnectingInv
<1> DEFINE a == outcome
           from == IF pendings[a] # <<>> THEN pendings ELSE wires
           left(n) == [from EXCEPT ![a] = SubSeq(@, n + 1, Len(@))]
<1>2. /\ a \in Attempts
      /\ UNCHANGED <<targets, viaProxy, attempts, produced, errors, outcome>>
  BY Zenon DEF ReadStream
<1>3. PICK n \in 1..Len(from[a]) :
        /\ delivered' = delivered \o SubSeq(from[a], 1, n)
        /\ IF pendings[a] # <<>> THEN pendings' = left(n) /\ UNCHANGED wires
           ELSE wires' = left(n) /\ UNCHANGED pendings
  BY Zenon DEF ReadStream
<1> HIDE DEF a
<1>4. /\ delivered \in Seq(WireBytes) /\ pendings \in [Attempts -> Seq(WireBytes)]
      /\ wires \in [Attempts -> Seq(WireBytes)] /\ produced[a] \in 0..BytesMax
  BY <1>1, <1>2, ConnectingTypes
<1>5. from \in [Attempts -> Seq(WireBytes)] /\ from[a] \in Seq(WireBytes)
  BY <1>2, <1>4
<1>6. /\ SubSeq(from[a], 1, n) \in Seq(WireBytes)
      /\ SubSeq(from[a], n + 1, Len(from[a])) \in Seq(WireBytes)
      /\ 1 \in Nat \ {0} /\ n \in 0..Len(from[a]) /\ 1 <= n + 1
      /\ n + 1 \in Nat \ {0} /\ Len(from[a]) \in 0..Len(from[a]) /\ n + 1 <= Len(from[a]) + 1
  <2>1. Len(from[a]) \in Nat
    BY <1>5
  <2> HIDE DEF from
  <2> QED BY <1>5, <2>1, SubSeqFacts
<1>7. \A lo \in Nat : \A hi : Run(from[a], lo, hi) =>
        /\ Run(SubSeq(from[a], 1, n), lo, lo + n)
        /\ Run(SubSeq(from[a], n + 1, Len(from[a])), lo + n, hi)
        /\ lo + n \in Nat
  <2> HIDE DEF from
  <2> TAKE lo \in Nat
  <2> TAKE hi
  <2> HAVE Run(from[a], lo, hi)
  <2>1. Run(SubSeq(from[a], 1, n), lo + 1 - 1, lo + n)
    BY <1>5, <1>6, RunPart
  <2>2. Run(SubSeq(from[a], n + 1, Len(from[a])), lo + (n + 1) - 1, lo + Len(from[a]))
    BY <1>5, <1>6, RunPart
  <2>3. lo + 1 - 1 = lo /\ lo + (n + 1) - 1 = lo + n /\ lo + n \in Nat /\ hi = lo + Len(from[a])
    BY <1>6 DEF Run
  <2> QED BY <2>1, <2>2, <2>3
<1>8. /\ delivered' \in Seq(WireBytes)
      /\ pendings' \in [Attempts -> Seq(WireBytes)] /\ wires' \in [Attempts -> Seq(WireBytes)]
      /\ \A b \in Attempts \ {a} : pendings'[b] = pendings[b] /\ wires'[b] = wires[b]
  <2>1. delivered' \in Seq(WireBytes)
    BY <1>3, <1>4, <1>6, ConcatFacts
  <2>2. /\ left(n) \in [Attempts -> Seq(WireBytes)]
        /\ \A b \in Attempts \ {a} : left(n)[b] = from[b]
    BY <1>2, <1>5, <1>6
  <2>3. CASE pendings[a] # <<>>
    BY <1>3, <1>4, <2>1, <2>2, <2>3
  <2>4. CASE pendings[a] = <<>>
    BY <1>3, <1>4, <2>1, <2>2, <2>4
  <2> QED BY <2>3, <2>4
<1>9. ConnectingTypeOK'
  BY <1>1, <1>2, <1>8 DEF ConnectingTypeOK, WireBytes
<1>10. attempts[a].at = "joined"
  BY <1>1, <1>2, Zenon DEF Collected, a
<1>11. \A i \in DOMAIN errors : errors[i] \in Attempts
  BY <1>1, ConnectingTypes
<1>12. Collected'
  <2>1. FailureIsComplete'
    BY <1>1, <1>2, <1>11, Zenon DEF Collected, FailureIsComplete
  <2> QED BY <1>1, <1>2, <2>1, Zenon DEF Collected, a
<1>13. ASSUME attempts[a].socket
       PROVE  \E m, k \in Nat : /\ Run(delivered', HeadSize, m) /\ Run(pendings'[a], m, k)
                                /\ Run(wires'[a], k, produced[a])
  <2>1. PICK m, k \in Nat : /\ Run(delivered, HeadSize, m) /\ Run(pendings[a], m, k)
                            /\ Run(wires[a], k, produced[a])
    BY <1>1, <1>2, <1>10, <1>13, Zenon DEF InOrder, ReadOf, a
  <2>2. HeadSize \in Nat
    BY Bounds
  <2>3. left(n)[a] = SubSeq(from[a], n + 1, Len(from[a]))
    BY <1>2, <1>5
  <2>4. CASE pendings[a] # <<>>
    <3>1. from[a] = pendings[a] /\ pendings'[a] = left(n)[a] /\ wires' = wires
      BY <1>3, <2>4
    <3>2. /\ Run(SubSeq(from[a], 1, n), m, m + n) /\ Run(pendings'[a], m + n, k) /\ m + n \in Nat
      BY <1>7, <2>1, <2>3, <3>1
    <3>3. Run(delivered', HeadSize, m + n)
      BY <1>3, <1>4, <1>6, <2>1, <2>2, <3>2, RunConcat
    <3> QED BY <2>1, <3>1, <3>2, <3>3, Zenon
  <2>5. CASE pendings[a] = <<>>
    <3>1. from[a] = wires[a] /\ wires'[a] = left(n)[a] /\ pendings' = pendings
      BY <1>3, <2>5
    <3>2. m = k
      BY <2>1, <2>5 DEF Run
    <3>3. /\ Run(SubSeq(from[a], 1, n), k, k + n) /\ Run(wires'[a], k + n, produced[a]) /\ k + n \in Nat
      BY <1>7, <2>1, <2>3, <3>1
    <3>4. Run(delivered', HeadSize, k + n)
      BY <1>3, <1>4, <1>6, <2>1, <2>2, <3>2, <3>3, RunConcat
    <3>5. Run(pendings'[a], k + n, k + n)
      BY <2>5, <3>1, <3>3, RunEmpty
    <3> QED BY <3>3, <3>4, <3>5, Zenon
  <2> QED BY <2>4, <2>5
<1>14. InOrder(a)'
  <2>1. /\ attempts' = attempts /\ produced' = produced /\ viaProxy' = viaProxy
        /\ (outcome = a)' /\ a' = a
    BY <1>2, Zenon DEF a
  <2>2. attempts[a].at \notin {"spawned", "resolving", "connecting", "requesting", "awaiting",
                              "refused", "aborted", "securing", "connected"}
    BY <1>10
  <2>3. outcome' = a
    BY <2>1, Zenon
  <2>4. attempts[outcome].socket =>
          \E m, k \in Nat : /\ Run(delivered', HeadSize, m) /\ Run(pendings'[outcome], m, k)
                            /\ Run(wires'[outcome], k, produced[outcome])
    BY <1>13, Zenon DEF a
  <2>5. attempts[outcome].at = "joined" /\ outcome' = outcome
    BY <1>2, <1>10, Zenon DEF a
  <2> QED BY <2>1, <2>4, <2>5, Zenon DEF InOrder, ReadOf, a
<1>15. ASSUME NEW b \in Attempts, b # outcome PROVE InOrder(b)'
  <2>1. ReadOf(b)' = ReadOf(b)
    BY <1>2, <1>15, Zenon DEF ReadOf
  <2>2. pendings'[b] = pendings[b] /\ wires'[b] = wires[b]
    BY <1>8, <1>15, Zenon DEF a
  <2> QED BY <1>1, <1>2, <2>1, <2>2, WireOrderKept
<1>16. InOrder(outcome)'
  BY <1>14, Zenon DEF a
<1> QED BY <1>2, <1>9, <1>12, <1>15, <1>16, Zenon DEF ConnectingInv

LEMMA PeerSendsStep ==
  ASSUME ConnectingInv, NEW a \in Attempts, PeerSends(a)
  PROVE  ConnectingInv'
<1>1. ConnectingTypeOK /\ Collected /\ \A b \in Attempts : InOrder(b)
  BY Zenon DEF ConnectingInv
<1>2. /\ produced[a] < BytesMax
      /\ produced' = [produced EXCEPT ![a] = @ + 1]
      /\ wires' = [wires EXCEPT ![a] = Append(@, produced[a] + 1)]
      /\ UNCHANGED <<targets, viaProxy, attempts, pendings, errors, outcome, delivered>>
  BY DEF PeerSends, taskVars, callerVars
<1>3. attempts[a].at \in {"awaiting", "connected", "joined"}
  BY <1>1 DEF PeerSends, Collected
<1>4. /\ wires \in [Attempts -> Seq(WireBytes)] /\ produced \in [Attempts -> 0..BytesMax]
      /\ BytesMax \in Nat
  BY <1>1, ConnectingTypes, Bounds
<1>5. /\ wires'[a] = Append(wires[a], produced[a] + 1) /\ produced'[a] = produced[a] + 1
      /\ produced[a] \in Nat /\ wires[a] \in Seq(WireBytes)
      /\ \A b \in Attempts \ {a} : wires'[b] = wires[b] /\ produced'[b] = produced[b]
  BY <1>2, <1>4
<1>6. /\ wires' \in [Attempts -> Seq(WireBytes)] /\ produced' \in [Attempts -> 0..BytesMax]
  <2>1. produced[a] + 1 \in WireBytes /\ produced[a] + 1 \in 0..BytesMax
    BY <1>2, <1>4, <1>5 DEF WireBytes
  <2>2. Append(wires[a], produced[a] + 1) \in Seq(WireBytes)
    BY <1>5, <2>1
  <2> QED BY <1>2, <1>4, <2>1, <2>2
<1>7. ConnectingTypeOK'
  BY <1>1, <1>2, <1>6 DEF ConnectingTypeOK, WireBytes
<1>8. \A b \in Attempts : ReadOf(b)' = ReadOf(b)
  BY <1>2, Zenon DEF ReadOf
<1>9. Collected'
  BY <1>1, <1>2, CollectedKept
<1>10. \A lo \in Nat : Run(wires[a], lo, produced[a]) => Run(wires'[a], lo, produced'[a])
  BY <1>2, <1>5, RunAppend
<1>11. InOrder(a)'
  <2>1. attempts'[a] = attempts[a] /\ pendings'[a] = pendings[a] /\ ReadOf(a)' = ReadOf(a)
    BY <1>2, <1>8, Zenon
  <2>2. CASE attempts[a].at = "awaiting"
    <3>1. pendings[a] = <<>> /\ \E lo \in 0..(HeadSize - 1) : Run(wires[a], lo, produced[a])
      BY <1>1, <2>2, Zenon DEF InOrder
    <3>2. \A lo \in 0..(HeadSize - 1) : lo \in Nat
      BY Bounds
    <3>3. \E lo \in 0..(HeadSize - 1) : Run(wires'[a], lo, produced'[a])
      BY <1>10, <3>1, <3>2, Zenon
    <3>4. attempts'[a].at \notin {"spawned", "resolving", "connecting", "refused", "aborted",
                                 "requesting", "securing", "connected", "joined"}
      BY <2>1, <2>2
    <3> QED BY <2>1, <3>1, <3>3, <3>4, Zenon DEF InOrder
  <2>3. CASE attempts[a].at \in {"connected", "joined"}
    <3>1. attempts[a].socket =>
            \E m, k \in Nat : /\ Run(ReadOf(a), HeadSize, m) /\ Run(pendings[a], m, k)
                              /\ Run(wires[a], k, produced[a])
      BY <1>1, <2>3, Zenon DEF InOrder
    <3>2. attempts'[a].socket =>
            \E m, k \in Nat : /\ Run(ReadOf(a)', HeadSize, m) /\ Run(pendings'[a], m, k)
                              /\ Run(wires'[a], k, produced'[a])
      BY <1>10, <2>1, <3>1, Zenon
    <3>3. attempts'[a].at = "connected" => attempts'[a].socket
      BY <1>1, <2>1, Zenon DEF InOrder
    <3>4. attempts'[a].at \notin {"spawned", "resolving", "connecting", "refused", "aborted",
                                 "requesting", "awaiting", "securing"}
      BY <2>1, <2>3
    <3> QED BY <3>2, <3>3, <3>4, Zenon DEF InOrder
  <2> QED BY <1>3, <2>2, <2>3, Zenon
<1>12. ASSUME NEW b \in Attempts \ {a} PROVE InOrder(b)'
  <2>1. /\ attempts'[b] = attempts[b] /\ pendings'[b] = pendings[b] /\ wires'[b] = wires[b]
        /\ produced'[b] = produced[b] /\ viaProxy' = viaProxy /\ ReadOf(b)' = ReadOf(b)
    BY <1>2, <1>5, <1>8, Zenon
  <2> QED BY <1>1, <2>1, WireOrderKept
<1> QED BY <1>7, <1>9, <1>11, <1>12, Zenon DEF ConnectingInv

-----------------------------------------------------------------------------
(* The invariant and what follows from it                                  *)

LEMMA ConnectingInitially ==
  ASSUME ConnectingInit
  PROVE  ConnectingInv
<1>1. HeadSize \in 0..BytesMax /\ 0 \in 0..BytesMax
  BY Bounds
<1>2. ConnectingTypeOK
  BY <1>1 DEF ConnectingInit, ConnectingTypeOK
<1>3. DOMAIN errors = {} /\ outcome = NoOutcome /\ outcome \notin Attempts /\ outcome # "failed"
  BY Bounds DEF ConnectingInit
<1>4. ASSUME NEW a \in Attempts
      PROVE  /\ attempts[a].at = "spawned" /\ ~attempts[a].socket
             /\ pendings[a] = <<>> /\ wires[a] = <<>>
             /\ produced[a] = IF viaProxy THEN 0 ELSE HeadSize
  BY <1>4 DEF ConnectingInit
<1>5. FailureIsComplete
  BY <1>3, Zenon DEF FailureIsComplete
<1>6. \A a \in Attempts : attempts[a].at # "joined"
  BY <1>4
<1>7. Collected
  BY <1>3, <1>5, <1>6, Zenon DEF Collected, ConnectingInit
<1>8. ASSUME NEW a \in Attempts PROVE InOrder(a)
  BY <1>4, Zenon DEF InOrder
<1> QED BY <1>2, <1>7, <1>8, Zenon DEF ConnectingInv

LEMMA ConnectingInductive ==
  ASSUME ConnectingInv, [ConnectingNext]_connectingVars
  PROVE  ConnectingInv'
<1>1. CASE UNCHANGED connectingVars
  <2>1. /\ UNCHANGED <<targets, viaProxy, attempts, pendings, wires, produced, errors, outcome, delivered>>
    BY <1>1 DEF connectingVars, taskVars, peerVars, callerVars
  <2>2. ConnectingTypeOK'
    BY <2>1 DEF ConnectingTypeOK, ConnectingInv
  <2>3. Collected'
    BY <2>1, CollectedKept, Zenon DEF ConnectingInv
  <2>4. ASSUME NEW a \in Attempts PROVE InOrder(a)'
    <3>1. ReadOf(a)' = ReadOf(a) /\ InOrder(a)
      BY <2>1, Zenon DEF ReadOf, ConnectingInv
    <3> QED BY <2>1, <3>1, WireOrderKept, Zenon
  <2> QED BY <2>2, <2>3, <2>4, Zenon DEF ConnectingInv
<1>2. ASSUME NEW a \in Attempts, AttemptNext(a) PROVE ConnectingInv'
  BY <1>2, EarlyStep, ConnectTcpStep, RequestTunnelStep, ReadResponseStep, FailStep, SecureStep,
     DeadlinePassesStep, Zenon DEF AttemptNext
<1>3. ASSUME NEW a \in Attempts, JoinStream(a) \/ JoinError(a) \/ PeerSends(a) PROVE ConnectingInv'
  BY <1>3, JoinStreamStep, JoinErrorStep, PeerSendsStep, Zenon
<1>4. CASE Abandon
  BY <1>4, AbandonStep, Zenon
<1>5. CASE ReadStream
  BY <1>5, ReadStreamStep, Zenon
<1> QED BY <1>1, <1>2, <1>3, <1>4, <1>5, Zenon DEF ConnectingNext

\* What the runs together are: the bytes of the peer, from one number on.
LEMMA RunsInOrder ==
  ASSUME ConnectingInv
  PROVE  NothingReadIsLost
<1> SUFFICES ASSUME NEW a \in Attempts, attempts[a].socket
             PROVE  LET bytes == ReadOf(a) \o pendings[a] \o wires[a]
                        first == produced[a] - Len(bytes) + 1
                    IN  /\ \A i \in DOMAIN bytes : bytes[i] = first + i - 1
                        /\ attempts[a].at \in {"securing", "connected", "joined"} =>
                             first = HeadSize + 1
  BY Zenon DEF NothingReadIsLost, ReadOf
<1> DEFINE bytes == ReadOf(a) \o pendings[a] \o wires[a]
<1>1. ConnectingTypeOK /\ InOrder(a)
  BY Zenon DEF ConnectingInv
<1>2. /\ pendings[a] \in Seq(WireBytes) /\ wires[a] \in Seq(WireBytes) /\ delivered \in Seq(WireBytes)
      /\ produced[a] \in Nat /\ HeadSize \in Nat \ {0}
  BY <1>1, ConnectingTypes, Bounds
<1>3. ReadOf(a) \in Seq(WireBytes)
  BY <1>2 DEF ReadOf
<1>4. \E lo \in Nat : /\ Run(bytes, lo, produced[a]) /\ bytes \in Seq(WireBytes)
                      /\ attempts[a].at \in {"securing", "connected", "joined"} => lo = HeadSize
  <2>1. CASE attempts[a].at \in {"securing", "connected", "joined"}
    <3>1. PICK m, k \in Nat : /\ Run(ReadOf(a), HeadSize, m) /\ Run(pendings[a], m, k)
                              /\ Run(wires[a], k, produced[a])
      BY <1>1, <2>1, Zenon DEF InOrder
    <3>2. /\ ReadOf(a) \o pendings[a] \in Seq(WireBytes)
          /\ Run(ReadOf(a) \o pendings[a], HeadSize, k)
      BY <1>2, <1>3, <3>1, RunConcat
    <3>3. bytes \in Seq(WireBytes) /\ Run(bytes, HeadSize, produced[a])
      BY <1>2, <3>1, <3>2, RunConcat
    <3> HIDE DEF bytes
    <3> QED BY <1>2, <3>3
  <2>2. CASE attempts[a].at \in {"requesting", "awaiting"}
    <3>1. ReadOf(a) = <<>> /\ pendings[a] = <<>>
      BY <1>1, <2>2, NothingRead, Zenon DEF InOrder
    <3>2. PICK lo \in Nat : Run(wires[a], lo, produced[a])
      <4>1. CASE attempts[a].at = "awaiting"
        <5>1. \E lo \in 0..(HeadSize - 1) : Run(wires[a], lo, produced[a])
          BY <1>1, <4>1, Zenon DEF InOrder
        <5> QED BY <1>2, <5>1
      <4>2. CASE attempts[a].at = "requesting"
        <5>1. wires[a] = <<>> /\ produced[a] = IF viaProxy THEN 0 ELSE HeadSize
          BY <1>1, <4>2, Zenon DEF InOrder
        <5> QED BY <1>2, <5>1, RunEmpty
      <4> QED BY <2>2, <4>1, <4>2
    <3>3. bytes = wires[a]
      BY <1>2, <3>1
    <3>4. attempts[a].at \notin {"securing", "connected", "joined"}
      BY <2>2
    <3> HIDE DEF bytes
    <3> QED BY <1>2, <3>2, <3>3, <3>4
  <2>3. attempts[a].at \notin {"spawned", "resolving", "connecting", "refused", "aborted"}
    BY <1>1, Zenon DEF InOrder
  <2>4. attempts[a].at \in States
    BY <1>1, ConnectingTypes DEF Attempt
  <2>5. attempts[a].at \in {"securing", "connected", "joined", "requesting", "awaiting"}
    BY <2>3, <2>4 DEF States, Finished, Gone
  <2> HIDE DEF bytes
  <2> QED BY <2>1, <2>2, <2>5
<1> HIDE DEF bytes
<1>5. PICK lo \in Nat : /\ Run(bytes, lo, produced[a]) /\ bytes \in Seq(WireBytes)
                        /\ attempts[a].at \in {"securing", "connected", "joined"} => lo = HeadSize
  BY <1>4
<1>6. /\ DOMAIN bytes = 1..Len(bytes) /\ Len(bytes) \in Nat
      /\ produced[a] = lo + Len(bytes)
      /\ \A i \in 1..Len(bytes) : bytes[i] = lo + i
  <2>1. bytes \in Seq(WireBytes) /\ Run(bytes, lo, produced[a])
    BY <1>5, Zenon
  <2>2. DOMAIN bytes = 1..Len(bytes) /\ Len(bytes) \in Nat
    BY <2>1
  <2> QED BY <2>1, <2>2, Zenon DEF Run
<1>7. produced[a] - Len(bytes) + 1 = lo + 1
  BY <1>6
<1>8. \A i \in DOMAIN bytes : bytes[i] = (produced[a] - Len(bytes) + 1) + i - 1
  <2> SUFFICES ASSUME NEW i \in DOMAIN bytes
               PROVE  bytes[i] = (produced[a] - Len(bytes) + 1) + i - 1
    OBVIOUS
  <2>1. i \in 1..Len(bytes) /\ i \in Nat /\ bytes[i] = lo + i
    BY <1>6
  <2>2. (produced[a] - Len(bytes) + 1) + i - 1 = lo + i
    BY <1>6, <2>1
  <2> QED BY <2>1, <2>2
<1>9. attempts[a].at \in {"securing", "connected", "joined"} =>
        produced[a] - Len(bytes) + 1 = HeadSize + 1
  <2>1. attempts[a].at \in {"securing", "connected", "joined"} => lo = HeadSize
    BY <1>5, Zenon
  <2> QED BY <1>7, <2>1, Zenon
<1> QED BY <1>8, <1>9, Zenon DEF bytes

LEMMA ConnectingInvariant == ConnectingSpec => []ConnectingInv
<1>1. ConnectingInit => ConnectingInv
  BY ConnectingInitially
<1>2. ConnectingInv /\ [ConnectingNext]_connectingVars => ConnectingInv'
  BY ConnectingInductive
<1> QED BY <1>1, <1>2, PTL DEF ConnectingSpec

\* The variables hold values of their types, for any URLs and any bytes.
THEOREM ConnectingTypeCorrect == ConnectingSpec => []ConnectingTypeOK
<1>1. ConnectingInv => ConnectingTypeOK
  BY Zenon DEF ConnectingInv
<1> QED BY <1>1, ConnectingInvariant, PTL

\* AllSignalingUrlsFailed of connect_signaling_urls is returned only when each URL has
\* failed, with the error of each of them once.
THEOREM FailuresAreComplete == ConnectingSpec => []FailureIsComplete
<1>1. ConnectingInv => FailureIsComplete
  BY Zenon DEF ConnectingInv, Collected
<1> QED BY <1>1, ConnectingInvariant, PTL

\* read_http_connect_response and ClientStream together give run() every byte the peer
\* sent after the proxy's response, once and in order, however the reads divide them.
THEOREM NothingIsLost == ConnectingSpec => []NothingReadIsLost
<1>1. ConnectingInv => NothingReadIsLost
  BY RunsInOrder
<1> QED BY <1>1, ConnectingInvariant, PTL

-----------------------------------------------------------------------------
(* The timers                                                              *)

TimersInv ==
  /\ TimersTypeOK /\ TimersAreHeld
  /\ phase = "reconnecting" => connection < ConnectionsMax

Expiries == [id : TimerIds, connection : 1..ConnectionsMax]

\* An expiry comes last.
LEMMA ExpiryAppended ==
  ASSUME NEW s \in Seq(Expiries), NEW e \in Expiries
  PROVE  /\ Append(s, e) \in Seq(Expiries)
         /\ Len(Append(s, e)) = Len(s) + 1
         /\ \A i \in DOMAIN Append(s, e) : Append(s, e)[i] = e \/ (i \in DOMAIN s /\ Append(s, e)[i] = s[i])
  OBVIOUS

\* The first expiry is taken, the others keep their order.
LEMMA ExpiryTaken ==
  ASSUME NEW s \in Seq(Expiries), s # <<>>
  PROVE  /\ Tail(s) \in Seq(Expiries)
         /\ Len(Tail(s)) = Len(s) - 1 /\ Len(s) \in Nat
         /\ \A i \in DOMAIN Tail(s) : Tail(s)[i] = s[i + 1] /\ i + 1 \in DOMAIN s
  OBVIOUS

\* The bounds are numbers.
LEMMA TimerBounds == Capacity \in Nat /\ SettingsMax \in Nat /\ ConnectionsMax \in Nat \ {0}
  BY Zenon, TimersAssumption DEF TimersAssumption

-----------------------------------------------------------------------------
(* What abort leaves                                                       *)

\* A task that is left was not aborted by number, or it is marked.
LEMMA AbortLeaves ==
  ASSUME TimersTypeOK, NEW numbers, NEW rest \in AfterAbort(numbers), NEW t \in rest
  PROVE  /\ t \in Tasks
         /\ \/ t \in tasks /\ t.number \notin numbers
            \/ t.aborted
<1>1. PICK r \in SUBSET {[u EXCEPT !.aborted = TRUE] :
                           u \in {u \in tasks : u.number \in numbers /\ u.at = "sending"}} :
        rest = (tasks \ {u \in tasks : u.number \in numbers}) \cup r
  BY Zenon DEF AfterAbort
<1>2. CASE t \in r
  <2>1. PICK u \in tasks : t = [u EXCEPT !.aborted = TRUE]
    BY <1>2, Zenon
  <2>2. u \in Tasks
    BY Zenon DEF TimersTypeOK
  <2> QED BY <2>1, <2>2 DEF Tasks
<1>3. CASE t \notin r
  BY <1>1, <1>3, Zenon DEF TimersTypeOK
<1> QED BY <1>2, <1>3, Zenon

\* A new timer is a task that is not aborted, under the next number.
LEMMA NewTaskFacts ==
  ASSUME TimersTypeOK, NEW id \in TimerIds, settings < SettingsMax
  PROVE  /\ NewTask(id) \in Tasks
         /\ NewTask(id).id = id
         /\ NewTask(id).number = settings + 1
         /\ NewTask(id).connection = connection
  BY TimersAssumption DEF NewTask, Tasks, TimersTypeOK

-----------------------------------------------------------------------------
(* The steps                                                               *)

LEMMA SetTimerStep ==
  ASSUME TimersInv, NEW id \in TimerIds, SetTimer(id)
  PROVE  TimersInv'
<1> USE DEF TimersInv
<1>1. settings < SettingsMax /\ settings' = settings + 1 /\ phase # "returned"
  BY DEF SetTimer
<1>2. handles' = [handles EXCEPT ![id] = settings + 1]
  BY Zenon DEF SetTimer
<1>3. PICK rest \in AfterAbort({handles[id]}) : tasks' = rest \cup {NewTask(id)}
  BY Zenon DEF SetTimer
<1>4. phase' = phase /\ connection' = connection /\ timerRx' = timerRx
  BY Zenon DEF SetTimer
<1>5. \A t \in rest : t \in Tasks /\ (t.aborted \/ (t \in tasks /\ t.number # handles[id]))
  BY <1>3, AbortLeaves, Zenon
<1>6. tasks' \subseteq Tasks
  BY <1>1, <1>3, <1>5, NewTaskFacts, Zenon
<1>7. TimersTypeOK'
  <2>1. handles' \in [TimerIds -> 0..SettingsMax]
    BY <1>1, <1>2, TimersAssumption DEF TimersTypeOK
  <2>2. settings' \in 0..SettingsMax
    BY <1>1, TimersAssumption DEF TimersTypeOK
  <2> QED BY <1>4, <1>6, <2>1, <2>2, Zenon DEF TimersTypeOK
<1>8. ASSUME NEW t \in tasks'
      PROVE  t.aborted \/ (handles'[t.id] = t.number /\ t.connection = connection')
  <2>1. CASE t = NewTask(id)
    BY <1>1, <1>2, <1>4, <2>1, NewTaskFacts DEF TimersTypeOK
  <2>2. CASE t # NewTask(id)
    <3>1. t.aborted \/ (t \in tasks /\ t.number # handles[id])
      BY <1>3, <1>5, <1>8, <2>2, Zenon
    <3>2. CASE t \in tasks /\ t.number # handles[id] /\ ~t.aborted
      <4>1. handles[t.id] = t.number /\ t.connection = connection
        BY <3>2, Zenon DEF TimersAreHeld
      <4>2. t.id # id /\ t.id \in TimerIds
        BY <3>2, <4>1 DEF TimersTypeOK, Tasks
      <4> QED BY <1>2, <1>4, <4>1, <4>2, Zenon DEF TimersTypeOK
    <3> QED BY <3>1, <3>2, Zenon
  <2> QED BY <2>1, <2>2, Zenon
<1> QED BY <1>1, <1>4, <1>7, <1>8, Zenon DEF TimersAreHeld

LEMMA ClearTimerStep ==
  ASSUME TimersInv, NEW id \in TimerIds, ClearTimer(id)
  PROVE  TimersInv'
<1> USE DEF TimersInv
<1>1. handles' = [handles EXCEPT ![id] = 0] /\ tasks' \in AfterAbort({handles[id]})
  BY Zenon DEF ClearTimer
<1>2. phase' = phase /\ connection' = connection /\ timerRx' = timerRx /\ settings' = settings
  BY Zenon DEF ClearTimer
<1>3. phase # "returned"
  BY DEF ClearTimer
<1>4. \A t \in tasks' : t \in Tasks /\ (t.aborted \/ (t \in tasks /\ t.number # handles[id]))
  BY <1>1, AbortLeaves, Zenon
<1>5. TimersTypeOK'
  <2>1. handles' \in [TimerIds -> 0..SettingsMax]
    BY <1>1, TimersAssumption DEF TimersTypeOK
  <2> QED BY <1>2, <1>4, <2>1, Zenon DEF TimersTypeOK
<1>6. ASSUME NEW t \in tasks', ~t.aborted
      PROVE  handles'[t.id] = t.number /\ t.connection = connection'
  <2>1. t \in tasks /\ t.number # handles[id]
    BY <1>4, <1>6, Zenon
  <2>2. handles[t.id] = t.number /\ t.connection = connection
    BY <1>6, <2>1, Zenon DEF TimersAreHeld
  <2>3. t.id # id /\ t.id \in TimerIds
    BY <2>1, <2>2 DEF TimersTypeOK, Tasks
  <2> QED BY <1>1, <1>2, <2>2, <2>3, Zenon DEF TimersTypeOK
<1> QED BY <1>2, <1>3, <1>5, <1>6, Zenon DEF TimersAreHeld

LEMMA WakeStep ==
  ASSUME TimersInv, NEW t \in tasks, Wake(t)
  PROVE  TimersInv'
<1> USE DEF TimersInv
<1> DEFINE woken == [t EXCEPT !.at = "sending"]
<1>1. tasks' = (tasks \ {t}) \cup {woken}
  BY Zenon DEF Wake
<1>2. UNCHANGED <<phase, connection, settings, handles, timerRx>>
  BY Zenon DEF Wake
<1>3. t \in Tasks
  BY Zenon DEF TimersTypeOK
<1>4. /\ woken \in Tasks
      /\ woken.id = t.id /\ woken.number = t.number
      /\ woken.connection = t.connection /\ woken.aborted = t.aborted
  BY <1>3 DEF Tasks
<1> HIDE DEF woken
<1>5. TimersTypeOK'
  BY <1>1, <1>2, <1>4, Zenon DEF TimersTypeOK
<1> QED BY <1>1, <1>2, <1>4, <1>5, Zenon DEF TimersAreHeld

LEMMA ExpireStep ==
  ASSUME TimersInv, NEW t \in tasks, Expire(t)
  PROVE  TimersInv'
<1> USE DEF TimersInv
<1> DEFINE expiry == [id |-> t.id, connection |-> t.connection]
<1>1. tasks' = tasks \ {t} /\ UNCHANGED <<phase, connection, settings, handles>>
  BY Zenon DEF Expire
<1>2. \/ /\ t.connection = connection /\ phase # "returned"
         /\ Len(timerRx) < Capacity
         /\ timerRx' = Append(timerRx, expiry)
      \/ timerRx' = timerRx
  BY Zenon DEF Expire
<1>3. expiry \in Expiries
  BY DEF TimersTypeOK, Tasks, Expiries
<1>4. expiry.connection = t.connection
  OBVIOUS
<1> HIDE DEF expiry
<1>5. timerRx \in Seq(Expiries) /\ Len(timerRx) <= Capacity
  BY Zenon DEF TimersTypeOK, Expiries
<1>6. /\ timerRx' \in Seq(Expiries)
      /\ Len(timerRx') <= Capacity
      /\ phase = "returned" => timerRx' = timerRx
      /\ \A i \in DOMAIN timerRx' : timerRx'[i].connection = connection
  <2>1. CASE timerRx' = timerRx
    BY <1>5, <2>1, Zenon DEF TimersAreHeld
  <2>2. CASE /\ t.connection = connection /\ phase # "returned"
             /\ Len(timerRx) < Capacity
             /\ timerRx' = Append(timerRx, expiry)
    <3>1. Len(timerRx) + 1 <= Capacity
      BY <1>5, <2>2, TimerBounds
    <3>2. ASSUME NEW i \in DOMAIN timerRx' PROVE timerRx'[i].connection = connection
      <4>1. timerRx'[i] = expiry \/ (i \in DOMAIN timerRx /\ timerRx'[i] = timerRx[i])
        BY <1>3, <1>5, <2>2, <3>2, ExpiryAppended
      <4>2. CASE timerRx'[i] = expiry
        BY <1>4, <2>2, <4>2
      <4> QED BY <4>1, <4>2, Zenon DEF TimersAreHeld
    <3> QED BY <1>3, <1>5, <2>2, <3>1, <3>2, ExpiryAppended
  <2> QED BY <1>2, <2>1, <2>2, Zenon
<1>7. TimersTypeOK'
  BY <1>1, <1>6, Zenon DEF TimersTypeOK, Expiries
<1> QED BY <1>1, <1>6, <1>7, Zenon DEF TimersAreHeld

LEMMA HandleTimerStep ==
  ASSUME TimersInv, HandleTimer
  PROVE  TimersInv'
<1> USE DEF TimersInv
<1>1. phase # "returned" /\ timerRx # <<>> /\ timerRx' = Tail(timerRx)
  BY DEF HandleTimer
<1>2. UNCHANGED <<phase, connection, settings, handles, tasks>>
  BY Zenon DEF HandleTimer
<1>3. /\ timerRx' \in Seq(Expiries)
      /\ Len(timerRx') <= Capacity
      /\ \A i \in DOMAIN timerRx' : timerRx'[i] = timerRx[i + 1] /\ i + 1 \in DOMAIN timerRx
  <2>1. timerRx \in Seq(Expiries) /\ Len(timerRx) <= Capacity
    BY Zenon DEF TimersTypeOK, Expiries
  <2> QED BY <1>1, <2>1, ExpiryTaken, TimerBounds
<1>4. TimersTypeOK'
  BY <1>2, <1>3, Zenon DEF TimersTypeOK, Expiries
<1>5. \A i \in DOMAIN timerRx' : timerRx'[i].connection = connection'
  BY <1>2, <1>3, Zenon DEF TimersAreHeld
<1> QED BY <1>1, <1>2, <1>4, <1>5, Zenon DEF TimersAreHeld

\* The drop of the manager marks every task that is left.
LEMMA DropManagerFacts ==
  ASSUME TimersInv, DropManager
  PROVE  /\ handles' \in [TimerIds -> 0..SettingsMax]
         /\ tasks' \subseteq Tasks
         /\ \A t \in tasks' : t.aborted
         /\ timerRx' = <<>>
         /\ settings' = settings
<1> USE DEF TimersInv
<1>1. tasks' \in AfterAbort({handles[id] : id \in TimerIds})
  BY Zenon DEF DropManager
<1>2. handles' \in [TimerIds -> 0..SettingsMax]
  BY TimersAssumption DEF DropManager
<1>3. ASSUME NEW t \in tasks' PROVE t \in Tasks /\ t.aborted
  <2>1. /\ t \in Tasks
        /\ t.aborted \/ (t \in tasks /\ t.number \notin {handles[id] : id \in TimerIds})
    BY <1>1, <1>3, AbortLeaves, Zenon
  <2>2. t.id \in TimerIds
    BY <2>1 DEF Tasks
  <2> QED BY <2>1, <2>2, Zenon DEF TimersAreHeld
<1> QED BY <1>2, <1>3, Zenon DEF DropManager

LEMMA DroppedStep ==
  ASSUME TimersInv, Redirected \/ Return
  PROVE  TimersInv'
<1> USE DEF TimersInv
<1>1. DropManager
  BY Zenon DEF Redirected, Return
<1>2. phase' \in {"loop", "returned"} /\ connection' \in 1..ConnectionsMax
  <2>1. connection \in 1..ConnectionsMax
    BY Zenon DEF TimersTypeOK
  <2>2. CASE Return
    BY <2>1, <2>2 DEF Return
  <2>3. CASE Redirected
    BY <2>1, <2>3, TimerBounds DEF Redirected
  <2> QED BY <2>2, <2>3
<1>3. TimersTypeOK'
  <2>1. /\ handles' \in [TimerIds -> 0..SettingsMax] /\ tasks' \subseteq Tasks
        /\ timerRx' = <<>> /\ settings' = settings
    BY <1>1, DropManagerFacts, Zenon
  <2>2. timerRx' \in Seq(Expiries) /\ Len(timerRx') <= Capacity
    BY <2>1, TimerBounds
  <2> QED BY <1>2, <2>1, <2>2 DEF TimersTypeOK, Expiries
<1>4. timerRx' = <<>> /\ \A t \in tasks' : t.aborted
  BY <1>1, DropManagerFacts, Zenon
<1>5. DOMAIN timerRx' = {}
  BY <1>4
<1> QED BY <1>2, <1>3, <1>4, <1>5, Zenon DEF TimersAreHeld

-----------------------------------------------------------------------------
(* The theorems                                                            *)

LEMMA TimersInitially == TimersInit => TimersInv
  BY TimersAssumption DEF TimersInit, TimersInv, TimersTypeOK, TimersAreHeld

LEMMA TimersStep == TimersInv /\ [TimersNext]_timerVars => TimersInv'
<1> SUFFICES ASSUME TimersInv, [TimersNext]_timerVars PROVE TimersInv'
  OBVIOUS
<1>1. CASE \E id \in TimerIds : SetTimer(id) \/ ClearTimer(id)
  BY <1>1, SetTimerStep, ClearTimerStep, Zenon
<1>2. CASE \E t \in tasks : Wake(t) \/ Expire(t)
  BY <1>2, WakeStep, ExpireStep, Zenon
<1>3. CASE HandleTimer
  BY <1>3, HandleTimerStep
<1>4. CASE BeginRedirect \/ LeaveLoop
  BY <1>4 DEF BeginRedirect, LeaveLoop, TimersInv, TimersTypeOK, TimersAreHeld
<1>5. CASE Redirected \/ Return
  BY <1>5, DroppedStep
<1>6. CASE UNCHANGED timerVars
  BY <1>6 DEF timerVars, TimersInv, TimersTypeOK, TimersAreHeld
<1> QED BY <1>1, <1>2, <1>3, <1>4, <1>5, <1>6, Zenon DEF TimersNext

\* TimerManager's invariant: a task that is not being aborted is the one that the handle
\* of its id aborts and belongs to the connection, and no expiry of an earlier connection
\* or after the return of run() is heard, for any ids, capacity and number of timers.
THEOREM TimersHeld == TimersSpec => [](TimersTypeOK /\ TimersAreHeld)
<1>1. TimersInv => TimersTypeOK /\ TimersAreHeld
  BY DEF TimersInv
<1> QED BY <1>1, TimersInitially, TimersStep, PTL DEF TimersSpec

-----------------------------------------------------------------------------
(* The replies of RPC                                                      *)

Scanning == INSTANCE Folding
  WITH Op <- LAMBDA scanned, m :
               [seen |-> scanned.seen \cup {m.name},
                duplicated |-> scanned.duplicated \cup (scanned.seen \cap {m.name})]

\* The loop over the members has seen their names, and twice those that are there twice.
LEMMA ScanTells ==
  ASSUME NEW s, NEW n \in Nat, DOMAIN s = 1..n
  PROVE  \A name :
           /\ name \in Scan(s).seen <=> \E i \in 1..n : s[i].name = name
           /\ name \in Scan(s).duplicated <=>
                \E i, j \in 1..n : i < j /\ s[i].name = name /\ s[j].name = name
<1> DEFINE base == [seen |-> {}, duplicated |-> {}]
           Seen(x, m) == [seen |-> x.seen \cup {m.name},
                          duplicated |-> x.duplicated \cup (x.seen \cap {m.name})]
<1>1. Scan(s) = Scanning!Folded(s, base)
  BY DEF Scan, Scanning!Folded, Scanning!FoldLeft, Scanning!MapThenFoldSet, Scanning!Max,
         FoldLeft, MapThenFoldSet, Max
<1> HIDE DEF base
<1>6. PICK f : Scanning!Runs(f, s, base, n) /\ Scanning!Folded(s, base) = f[n]
  BY Scanning!FoldRuns
<1>2. /\ f[0] = base
      /\ \A k \in 1..n : f[k] = Seen(f[k - 1], s[k])
      /\ Scanning!Folded(s, base) = f[n]
  BY <1>6 DEF Scanning!Runs
<1> DEFINE Tells(k) ==
      \A name :
        /\ name \in f[k].seen <=> \E i \in 1..k : s[i].name = name
        /\ name \in f[k].duplicated <=>
             \E i, j \in 1..k : i < j /\ s[i].name = name /\ s[j].name = name
           S == {k \in Nat : k <= n => Tells(k)}
<1>3. 0 \in S
  BY <1>2 DEF base
<1>4. ASSUME NEW k \in Nat, k \in S PROVE k + 1 \in S
  <2> SUFFICES ASSUME k + 1 <= n PROVE Tells(k + 1)
    OBVIOUS
  <2>1. Tells(k) /\ k + 1 \in 1..n /\ (k + 1) - 1 = k
    BY <1>4
  <2>2. f[k + 1] = Seen(f[k], s[k + 1])
    BY <1>2, <2>1
  <2>3. f[k + 1].seen = f[k].seen \cup {s[k + 1].name}
    BY <2>2
  <2>4. f[k + 1].duplicated = f[k].duplicated \cup (f[k].seen \cap {s[k + 1].name})
    BY <2>2
  <2>5. \A i : i \in 1..k + 1 <=> i \in 1..k \/ i = k + 1
    OBVIOUS
  <2>6. ASSUME NEW name PROVE name \in f[k + 1].seen <=> \E i \in 1..k + 1 : s[i].name = name
    BY <2>1, <2>3, <2>5
  <2>7. ASSUME NEW name
        PROVE  name \in f[k + 1].duplicated <=>
                 \E i, j \in 1..k + 1 : i < j /\ s[i].name = name /\ s[j].name = name
    <3>1. \A i, j \in 1..k + 1 : i < j <=> \/ i \in 1..k /\ j \in 1..k /\ i < j
                                           \/ i \in 1..k /\ j = k + 1
      OBVIOUS
    <3>2. k + 1 \in 1..k + 1 /\ \A i \in 1..k : i \in 1..k + 1
      OBVIOUS
    <3> HIDE <1>4
    <3> QED BY <2>1, <2>4, <3>1, <3>2
  <2> QED BY <2>6, <2>7
<1> HIDE DEF S
<1>5. n \in S
  BY <1>3, <1>4, Scanning!Induction
<1> QED BY <1>1, <1>2, <1>5 DEF S

\* to_member finds the first of a name.
LEMMA HasMemberTells ==
  ASSUME NEW s, NEW n \in Nat, DOMAIN s = 1..n, Len(s) = n, NEW name, NEW value
  PROVE  HasMember(s, name, value) <=>
           \E i \in 1..n : /\ s[i].name = name /\ s[i].value = value
                           /\ \A j \in 1..n : j < i => s[j].name # name
<1> DEFINE I == {i \in 1..n : s[i].name = name}
           first == IF I # {} THEN Min(I) ELSE 0
<1>1. HasMember(s, name, value) <=> first # 0 /\ s[first].value = value
  BY DEF HasMember, SelectInSeq
<1>2. CASE I = {}
  BY <1>1, <1>2
<1>3. CASE I # {}
  <2>1. Min(I) \in I /\ \A x \in I : Min(I) <= x
    <3>1. PICK m \in I : \A x \in I : m <= x
      BY <1>3, I \in SUBSET Nat, Scanning!LeastNumber
    <3> QED BY <3>1 DEF Min
  <2> QED BY <1>1, <1>3, <2>1
<1> QED BY <1>2, <1>3

-----------------------------------------------------------------------------
(* A reply against JSON-RPC 2.0                                            *)

\* The member of a name that is unique, and the parts of RepliesAreJudged.
The(members, name) == members[CHOOSE i \in DOMAIN members : members[i].name = name]
Holds(members, name, value) == Unique(members, name) /\ The(members, name).value = value
IsErrorObject(m) ==
  /\ m.value = "object"
  /\ Holds(m.members, "code", "i32") /\ Holds(m.members, "message", "string")
  /\ Unique(m.members, "data") \/ Lacks(m.members, "data")
IsResponse(members) ==
  /\ Holds(members, "jsonrpc", "2.0")
  /\ \/ Unique(members, "result") /\ Lacks(members, "error")
     \/ /\ Unique(members, "error") /\ Lacks(members, "result")
        /\ IsErrorObject(The(members, "error"))

\* Names of members, as the loop and as JSON-RPC tell them.
LEMMA NamesTell ==
  ASSUME NEW T, NEW s \in Seq(T), NEW name
  PROVE  /\ Lacks(s, name) <=> name \notin Scan(s).seen
         /\ Unique(s, name) <=> name \in Scan(s).seen /\ name \notin Scan(s).duplicated
         /\ name \in Scan(s).duplicated => name \in Scan(s).seen
<1>1. PICK n \in Nat : n = Len(s) /\ DOMAIN s = 1..n
  OBVIOUS
<1>2. /\ name \in Scan(s).seen <=> \E i \in 1..n : s[i].name = name
      /\ name \in Scan(s).duplicated <=>
           \E i, j \in 1..n : i < j /\ s[i].name = name /\ s[j].name = name
  BY <1>1, ScanTells
<1>3. \A i, j \in 1..n : i < j \/ j < i \/ i = j
  OBVIOUS
<1>4. \A i \in 1..n : ~(i < i)
  OBVIOUS
<1>5. Unique(s, name) <=> \E i \in 1..n : \A j \in 1..n : s[j].name = name <=> i = j
  BY <1>1 DEF Unique
<1>6. Unique(s, name) <=> name \in Scan(s).seen /\ name \notin Scan(s).duplicated
  BY <1>2, <1>3, <1>4, <1>5
<1>7. Lacks(s, name) <=> name \notin Scan(s).seen
  BY <1>1, <1>2 DEF Lacks
<1> QED BY <1>2, <1>6, <1>7

\* A member that is there once is found, and it is the one that is meant.
LEMMA UniqueIsFound ==
  ASSUME NEW T, NEW s \in Seq(T), NEW name, Unique(s, name)
  PROVE  /\ \A value : HasMember(s, name, value) <=> The(s, name).value = value
         /\ s[SelectInSeq(s, LAMBDA m : m.name = name)] = The(s, name)
         /\ The(s, name) \in T
<1>1. PICK n \in Nat : n = Len(s) /\ DOMAIN s = 1..n
  OBVIOUS
<1>2. PICK i \in 1..n : \A j \in 1..n : s[j].name = name <=> i = j
  <2>1. \E i \in DOMAIN s : \A j \in DOMAIN s : s[j].name = name <=> i = j
    BY DEF Unique
  <2> QED BY <1>1, <2>1
<1>3. (CHOOSE k \in DOMAIN s : s[k].name = name) = i
  BY <1>1, <1>2
<1>4. The(s, name) = s[i]
  BY <1>3 DEF The
<1>5. ASSUME NEW value PROVE HasMember(s, name, value) <=> The(s, name).value = value
  <2>1. HasMember(s, name, value) <=>
          \E k \in 1..n : /\ s[k].name = name /\ s[k].value = value
                          /\ \A j \in 1..n : j < k => s[j].name # name
    BY <1>1, HasMemberTells
  <2>2. \A j \in 1..n : j < i => j # i
    OBVIOUS
  <2> QED BY <1>2, <1>4, <2>1, <2>2
<1> DEFINE I == {k \in 1..n : s[k].name = name}
<1>6. I = {i}
  BY <1>2
<1>7. Min({i}) = i
  BY DEF Min
<1>8. SelectInSeq(s, LAMBDA m : m.name = name) = i
  <2>1. SelectInSeq(s, LAMBDA m : m.name = name) = IF I # {} THEN Min(I) ELSE 0
    BY <1>1 DEF SelectInSeq
  <2> QED BY <1>6, <1>7, <2>1
<1> QED BY <1>1, <1>4, <1>5, <1>8

\* What has the value of a name is found alone by the code as it is by JSON-RPC.
LEMMA IsFound ==
  ASSUME NEW T, NEW s \in Seq(T), NEW name, NEW value
  PROVE  Holds(s, name, value) <=>
           name \notin Scan(s).duplicated /\ HasMember(s, name, value)
<1>1. CASE Unique(s, name)
  BY <1>1, NamesTell, UniqueIsFound DEF Holds
<1>2. CASE ~Unique(s, name)
  <2> SUFFICES ASSUME HasMember(s, name, value) PROVE name \in Scan(s).seen
    BY <1>2, NamesTell DEF Holds
  <2>1. PICK n \in Nat : n = Len(s) /\ DOMAIN s = 1..n
    OBVIOUS
  <2>2. \E i \in 1..n : s[i].name = name
    BY <2>1, HasMemberTells
  <2> QED BY <2>1, <2>2, ScanTells
<1> QED BY <1>1, <1>2

\* An error object is parsed if and only if it is one.
LEMMA ErrorObjectParsed ==
  ASSUME NEW m \in Members
  PROVE  ParseErrorObject(m) <=> IsErrorObject(m)
<1> DEFINE T == ToSet(m.members)
           s == m.members
<1>1. s \in Seq(T)
  BY RpcResponseAssumption
<1> HIDE DEF T, s
<1>2. /\ Holds(s, "code", "i32") <=>
           "code" \notin Scan(s).duplicated /\ HasMember(s, "code", "i32")
      /\ Holds(s, "message", "string") <=>
           "message" \notin Scan(s).duplicated /\ HasMember(s, "message", "string")
  BY <1>1, IsFound
<1>3. Unique(s, "data") \/ Lacks(s, "data") <=> "data" \notin Scan(s).duplicated
  BY <1>1, NamesTell
<1>4. {"code", "message", "data"} \cap Scan(s).duplicated = {} <=>
        /\ "code" \notin Scan(s).duplicated /\ "message" \notin Scan(s).duplicated
        /\ "data" \notin Scan(s).duplicated
  BY Zenon
<1>5. ParseErrorObject(m) <=>
        /\ m.value = "object" /\ {"code", "message", "data"} \cap Scan(s).duplicated = {}
        /\ HasMember(s, "code", "i32") /\ HasMember(s, "message", "string")
  BY DEF ParseErrorObject, s
<1>6. IsErrorObject(m) <=>
        /\ m.value = "object" /\ Holds(s, "code", "i32") /\ Holds(s, "message", "string")
        /\ Unique(s, "data") \/ Lacks(s, "data")
  BY DEF IsErrorObject, s
<1> QED BY <1>2, <1>3, <1>4, <1>5, <1>6

\* A reply is parsed if and only if it is a response of JSON-RPC 2.0.
LEMMA ResponseParsed ==
  ASSUME NEW s \in Seq(Members)
  PROVE  ParsesAsResponse(s) <=> IsResponse(s)
<1> DEFINE dup == Scan(s).duplicated
           error == s[SelectInSeq(s, LAMBDA m : m.name = "error")]
<1>1. ParsesAsResponse(s) <=>
        /\ {"jsonrpc", "result", "error"} \cap dup = {}
        /\ HasMember(s, "jsonrpc", "2.0")
        /\ \/ "result" \in Scan(s).seen /\ "error" \notin Scan(s).seen
           \/ /\ "error" \in Scan(s).seen /\ "result" \notin Scan(s).seen
              /\ ParseErrorObject(error)
  BY DEF ParsesAsResponse
<1>2. {"jsonrpc", "result", "error"} \cap dup = {} <=>
        "jsonrpc" \notin dup /\ "result" \notin dup /\ "error" \notin dup
  BY Zenon
<1>3. Holds(s, "jsonrpc", "2.0") <=> "jsonrpc" \notin dup /\ HasMember(s, "jsonrpc", "2.0")
  BY IsFound
<1>4. \A name \in {"result", "error"} :
        /\ Lacks(s, name) <=> name \notin Scan(s).seen
        /\ Unique(s, name) <=> name \in Scan(s).seen /\ name \notin dup
        /\ name \in dup => name \in Scan(s).seen
  BY NamesTell
<1>5. ASSUME Unique(s, "error")
      PROVE  ParseErrorObject(error) <=> IsErrorObject(The(s, "error"))
  <2>1. error = The(s, "error") /\ The(s, "error") \in Members
    BY <1>5, UniqueIsFound
  <2> QED BY <2>1, ErrorObjectParsed
<1> HIDE DEF dup, error
<1> QED BY <1>1, <1>2, <1>3, <1>4, <1>5 DEF IsResponse

-----------------------------------------------------------------------------
(* The judgement                                                           *)

\* What JSON-RPC makes of a text.
VerdictOn(kind, members) ==
  IF kind # "object" \/ ~Holds(members, "id", "ours") THEN "nothing"
  ELSE IF IsResponse(members) THEN "response"
  ELSE "violation"

\* What the caller learns is that.
ResponseInv == ResponseTypeOK /\ (settled # "unread" => settled = VerdictOn(form, written))

\* The code comes to the same verdict.
LEMMA JudgedByCode ==
  ASSUME NEW s \in Seq(Members), NEW kind
  PROVE  VerdictOn(kind, s) = IF kind # "object" \/ ~TrustedIsOurs(s) THEN "nothing"
                              ELSE IF ParsesAsResponse(s) THEN "response"
                              ELSE "violation"
<1>1. TrustedIsOurs(s) <=> Holds(s, "id", "ours")
  BY IsFound DEF TrustedIsOurs
<1>2. ParsesAsResponse(s) <=> IsResponse(s)
  BY ResponseParsed
<1> QED BY <1>1, <1>2 DEF VerdictOn

\* No step unsettles a request or writes on once it is settled.
LEMMA ResponseInductive ==
  /\ ResponseInit => ResponseInv
  /\ ResponseInv /\ [ResponseNext]_responseVars => ResponseInv'
<1>1. ASSUME ResponseInit PROVE ResponseInv
  BY <1>1 DEF ResponseInit, ResponseInv, ResponseTypeOK
<1>2. ASSUME ResponseInv, [ResponseNext]_responseVars PROVE ResponseInv'
  <2>1. CASE WriteMember
    BY <1>2, <2>1 DEF WriteMember, ResponseInv, ResponseTypeOK
  <2>2. CASE HandleRpcMessage
    <3>1. written \in Seq(Members) /\ form \in {"object", "malformed", "array"}
      BY <1>2 DEF ResponseInv, ResponseTypeOK
    <3>2. settled' = VerdictOn(form, written) /\ form' = form /\ written' = written
      BY <2>2, <3>1, JudgedByCode DEF HandleRpcMessage
    <3>3. VerdictOn(form, written) \in {"nothing", "response", "violation"}
      BY DEF VerdictOn
    <3> QED BY <3>1, <3>2, <3>3 DEF ResponseInv, ResponseTypeOK
  <2>3. CASE UNCHANGED responseVars
    BY <1>2, <2>3 DEF responseVars, ResponseInv, ResponseTypeOK
  <2> QED BY <1>2, <2>1, <2>2, <2>3 DEF ResponseNext
<1> QED BY <1>1, <1>2

\* ResponseInv holds in every reachable state.
LEMMA ResponseInvariant == ResponseSpec => []ResponseInv
BY ResponseInductive, PTL DEF ResponseSpec

\* A reply settles the request that it is for, and no other, and with a response only if it
\* is one: whatever a server writes.
THEOREM RepliesJudged == ResponseSpec => [](ResponseTypeOK /\ RepliesAreJudged)
<1>1. ResponseInv => ResponseTypeOK /\ RepliesAreJudged
  BY DEF ResponseInv, VerdictOn, RepliesAreJudged, Holds, IsResponse, IsErrorObject, The
<1> QED BY <1>1, ResponseInvariant, PTL
-----------------------------------------------------------------------------
(* The frames of a video device                                            *)

\* The fate of the last frame is the one that its conversion gave.
FateIsOfConversion ==
  fate # "none" =>
    IF ConvertFrame(layout, buffers) = "converted" THEN fate \in {"dropped", "delivered"}
    ELSE fate = ConvertFrame(layout, buffers)

DeviceInv == DeviceTypeOK /\ FateIsOfConversion

\* A product grows with its factor.
LEMMA RowsGrow ==
  ASSUME NEW stride \in Nat, NEW r \in Int, NEW rows \in Int, r <= rows - 1
  PROVE  r * stride <= stride * (rows - 1)
<1>1. PICK k \in Nat : rows - 1 = r + k
  <2>1. (rows - 1) - r \in Nat /\ rows - 1 = r + ((rows - 1) - r)
    OBVIOUS
  <2> QED BY <2>1
<1>2. stride * (r + k) = r * stride + k * stride /\ k * stride \in Nat
  OBVIOUS
<1>3. r * stride \in Int
  OBVIOUS
<1> QED BY <1>1, <1>2, <1>3

\* What has the length required holds each byte of each row.
LEMMA RequiredIsWithin ==
  ASSUME NEW len \in Int, NEW offset \in Nat, NEW stride \in Nat, NEW rows \in Nat,
         NEW rowBytes \in Nat,
         len - offset >= RequiredPlaneLen(stride, rows, rowBytes)
  PROVE  Within(len, offset, stride, rows, rowBytes)
<1> SUFFICES ASSUME NEW r \in 0..rows - 1, NEW n \in 0..rowBytes - 1
             PROVE  offset + r * stride + n < len
  BY DEF Within
<1>1. r * stride <= stride * (rows - 1)
  BY RowsGrow
<1>2. r * stride \in Int /\ stride * (rows - 1) \in Int
  OBVIOUS
<1>3. len - offset >= stride * (rows - 1) + rowBytes
  BY DEF RequiredPlaneLen
<1> QED BY <1>1, <1>2, <1>3

\* A plane of whole rows has the length required.
LEMMA WholeIsRequired ==
  ASSUME NEW len \in Int, NEW stride \in Nat, NEW rows \in Nat, NEW rowBytes \in Nat,
         stride >= rowBytes, len >= stride * rows
  PROVE  len >= RequiredPlaneLen(stride, rows, rowBytes)
<1>1. stride * rows = stride * (rows - 1) + stride
  OBVIOUS
<1>2. stride * rows \in Int /\ stride * (rows - 1) \in Int
  OBVIOUS
<1> QED BY <1>1, <1>2 DEF RequiredPlaneLen

\* The numbers of a layout and of the buffers.
LayoutOfNumbers(l) == l.width \in Int /\ l.height \in Int /\ l.stride \in Int /\ l.strideUv \in Int
BuffersOfNumbers(b) == b.data \in Nat /\ b.uvData \in Nat \cup {NoBuffer}

\* Half of a side, rounded up.
LEMMA ChromaIsHalf ==
  ASSUME NEW n \in Nat \ {0}
  PROVE  /\ ChromaDimension(n) \in Nat \ {0}
         /\ ChromaDimension(n) = (n + 1) \div 2
  BY DEF ChromaDimension

\* A length that is required is a number.
LEMMA RequiredIsNumber ==
  ASSUME NEW stride \in Int, NEW rows \in Int, NEW rowBytes \in Int
  PROVE  RequiredPlaneLen(stride, rows, rowBytes) \in Int
  BY DEF RequiredPlaneLen

\* NV12: a plane of Y, and one of U and V.
LEMMA Nv12IsJudged ==
  ASSUME NEW l, NEW b, LayoutOfNumbers(l), BuffersOfNumbers(b)
  PROVE  /\ ConvertNv12(l, b) # "LibyuvFailed"
         /\ ConvertNv12(l, b) = "converted" =>
              /\ Within(b.data, 0, l.stride, l.height, l.width)
              /\ Within(b.uvData, 0, l.strideUv, (l.height + 1) \div 2,
                        2 * ((l.width + 1) \div 2))
         /\ /\ l.width > 0 /\ l.height > 0 /\ l.width < I32Max /\ l.height < I32Max
            /\ b.uvData # NoBuffer
            /\ l.stride >= l.width /\ b.data >= l.stride * l.height
            /\ l.strideUv >= 2 * ((l.width + 1) \div 2)
            /\ b.uvData >= l.strideUv * ((l.height + 1) \div 2)
            => ConvertNv12(l, b) = "converted"
<1> DEFINE rows == ChromaDimension(l.height)
           rowBytes == 2 * ChromaDimension(l.width)
           y == RequiredPlaneLen(l.stride, l.height, l.width)
           uv == RequiredPlaneLen(l.strideUv, rows, rowBytes)
<1>1. CASE \E n \in {l.width, l.height, l.stride, l.strideUv} : n <= 0
  <2>1. ConvertNv12(l, b) = "InvalidDimension"
    BY <1>1 DEF ConvertNv12
  <2>2. l.width > 0 /\ l.stride >= l.width => l.stride > 0
    BY DEF LayoutOfNumbers
  <2>3. l.width > 0 /\ l.strideUv >= 2 * ((l.width + 1) \div 2) => l.strideUv > 0
    BY DEF LayoutOfNumbers
  <2> QED BY <1>1, <2>1, <2>2, <2>3 DEF LayoutOfNumbers
<1>2. CASE ~\E n \in {l.width, l.height, l.stride, l.strideUv} : n <= 0
  <2>1. /\ l.width \in Nat \ {0} /\ l.height \in Nat \ {0}
        /\ l.stride \in Nat \ {0} /\ l.strideUv \in Nat \ {0}
    BY <1>2 DEF LayoutOfNumbers
  <2>2. /\ rows \in Nat \ {0} /\ rows = (l.height + 1) \div 2
        /\ rowBytes \in Nat \ {0} /\ rowBytes = 2 * ((l.width + 1) \div 2)
    BY <2>1, ChromaIsHalf
  <2> HIDE DEF rows, rowBytes
  <2>3. y \in Int /\ uv \in Int
    <3>1. rows \in Int /\ rowBytes \in Int
      BY <2>2
    <3> QED BY <3>1, RequiredIsNumber DEF LayoutOfNumbers
  <2>4. ConvertNv12(l, b) =
          IF b.uvData = NoBuffer THEN "UvDataMissing"
          ELSE IF b.data < y THEN "BufferTooShort"
          ELSE IF l.width = I32Max \/ l.height = I32Max THEN "Overflow"
          ELSE IF b.uvData < uv THEN "BufferTooShort"
          ELSE IF ~(b.data >= y /\ b.uvData >= uv) THEN "LibyuvFailed"
          ELSE "converted"
    BY <1>2, <2>1, <2>2 DEF ConvertNv12, LibyuvTakes, rows, rowBytes
  <2>5. ConvertNv12(l, b) = "converted" => b.data >= y /\ b.uvData # NoBuffer /\ b.uvData >= uv
    BY <2>4
  <2>6. b.data >= y => Within(b.data, 0, l.stride, l.height, l.width)
    <3>1. b.data - 0 = b.data /\ b.data \in Int
      BY DEF BuffersOfNumbers
    <3> QED BY <2>1, <3>1, RequiredIsWithin
  <2>7. b.uvData # NoBuffer /\ b.uvData >= uv =>
          Within(b.uvData, 0, l.strideUv, rows, rowBytes)
    <3> SUFFICES ASSUME b.uvData # NoBuffer, b.uvData >= uv
                 PROVE  Within(b.uvData, 0, l.strideUv, rows, rowBytes)
      OBVIOUS
    <3>1. b.uvData - 0 = b.uvData /\ b.uvData \in Int
      BY DEF BuffersOfNumbers
    <3> QED BY <2>1, <2>2, <3>1, RequiredIsWithin
  <2>8. l.stride >= l.width /\ b.data >= l.stride * l.height => b.data >= y
    BY <2>1, WholeIsRequired DEF BuffersOfNumbers
  <2>9. b.uvData # NoBuffer /\ l.strideUv >= rowBytes /\ b.uvData >= l.strideUv * rows
          => b.uvData >= uv
    BY <2>1, <2>2, WholeIsRequired DEF BuffersOfNumbers
  <2>10. ConvertNv12(l, b) # "LibyuvFailed"
    <3>1. b.uvData # NoBuffer => b.uvData \in Int
      BY DEF BuffersOfNumbers
    <3>2. b.data \in Int
      BY DEF BuffersOfNumbers
    <3> HIDE DEF y, uv
    <3> QED BY <2>3, <2>4, <3>1, <3>2
  <2>11. /\ b.uvData # NoBuffer /\ b.data >= y /\ b.uvData >= uv
         /\ l.width < I32Max /\ l.height < I32Max
         => ConvertNv12(l, b) = "converted"
    <3>1. b.uvData # NoBuffer => b.uvData \in Int
      BY DEF BuffersOfNumbers
    <3>2. b.data \in Int /\ I32Max \in Int
      BY VideoDeviceAssumption DEF BuffersOfNumbers, VideoDeviceAssumption
    <3> HIDE DEF y, uv
    <3> QED BY <2>1, <2>3, <2>4, <3>1, <3>2
  <2> HIDE DEF y, uv
  <2> QED BY <2>2, <2>5, <2>6, <2>7, <2>8, <2>9, <2>10, <2>11
<1> QED BY <1>1, <1>2

\* YUY2: one plane.
LEMMA Yuy2IsJudged ==
  ASSUME NEW l, NEW b, LayoutOfNumbers(l), BuffersOfNumbers(b)
  PROVE  /\ ConvertYuy2(l, b) # "LibyuvFailed"
         /\ ConvertYuy2(l, b) = "converted" =>
              Within(b.data, 0, l.stride, l.height, 2 * l.width)
         /\ /\ l.width > 0 /\ l.height > 0 /\ 2 * l.width < I32Max
            /\ l.stride >= 2 * l.width /\ b.data >= l.stride * l.height
            => ConvertYuy2(l, b) = "converted"
<1> DEFINE y == RequiredPlaneLen(l.stride, l.height, 2 * l.width)
<1>1. CASE \E n \in {l.width, l.height, l.stride} : n <= 0
  <2>1. ConvertYuy2(l, b) = "InvalidDimension"
    BY <1>1 DEF ConvertYuy2
  <2>2. l.width > 0 /\ l.stride >= 2 * l.width => l.stride > 0
    BY DEF LayoutOfNumbers
  <2> QED BY <1>1, <2>1, <2>2 DEF LayoutOfNumbers
<1>2. CASE ~\E n \in {l.width, l.height, l.stride} : n <= 0
  <2>1. /\ l.width \in Nat \ {0} /\ l.height \in Nat \ {0} /\ l.stride \in Nat \ {0}
        /\ 2 * l.width \in Nat \ {0}
    BY <1>2 DEF LayoutOfNumbers
  <2>2. y \in Int
    <3>1. 2 * l.width \in Int
      BY <2>1
    <3> QED BY <3>1, RequiredIsNumber DEF LayoutOfNumbers
  <2>3. ConvertYuy2(l, b) =
          IF 2 * l.width > I32Max THEN "Overflow"
          ELSE IF b.data < y THEN "BufferTooShort"
          ELSE IF ~(b.data >= y) THEN "LibyuvFailed"
          ELSE "converted"
    BY <1>2, <2>1 DEF ConvertYuy2, LibyuvTakes
  <2>4. b.data >= y => Within(b.data, 0, l.stride, l.height, 2 * l.width)
    <3>1. b.data - 0 = b.data /\ b.data \in Int
      BY DEF BuffersOfNumbers
    <3> QED BY <2>1, <3>1, RequiredIsWithin
  <2>5. l.stride >= 2 * l.width /\ b.data >= l.stride * l.height => b.data >= y
    BY <2>1, WholeIsRequired DEF BuffersOfNumbers
  <2>6. b.data \in Int /\ I32Max \in Int
    BY VideoDeviceAssumption DEF BuffersOfNumbers, VideoDeviceAssumption
  <2> HIDE DEF y
  <2>7. /\ ConvertYuy2(l, b) # "LibyuvFailed"
        /\ ConvertYuy2(l, b) = "converted" => b.data >= y
        /\ b.data >= y /\ 2 * l.width < I32Max => ConvertYuy2(l, b) = "converted"
    BY <2>1, <2>2, <2>3, <2>6
  <2> QED BY <2>4, <2>5, <2>7
<1> QED BY <1>1, <1>2

\* I420: a plane of Y, and two that are one after the other.
LEMMA I420IsJudged ==
  ASSUME NEW l, NEW b, LayoutOfNumbers(l), BuffersOfNumbers(b)
  PROVE  /\ ConvertI420(l, b) # "LibyuvFailed"
         /\ ConvertI420(l, b) = "converted" =>
              /\ Within(b.data, 0, l.stride, l.height, l.width)
              /\ Within(UvPlaneLen(l), 0, l.strideUv, (l.height + 1) \div 2,
                        (l.width + 1) \div 2)
              /\ Within(b.uvData, UvPlaneLen(l), l.strideUv, (l.height + 1) \div 2,
                        (l.width + 1) \div 2)
         /\ /\ l.width > 0 /\ l.height > 0 /\ l.width < I32Max /\ l.height < I32Max
            /\ b.uvData # NoBuffer
            /\ l.stride >= l.width /\ b.data >= l.stride * l.height
            /\ l.strideUv >= (l.width + 1) \div 2
            /\ b.uvData >= l.strideUv * (2 * ((l.height + 1) \div 2))
            => ConvertI420(l, b) = "converted"
<1> DEFINE rows == ChromaDimension(l.height)
           rowBytes == ChromaDimension(l.width)
           y == RequiredPlaneLen(l.stride, l.height, l.width)
           uv == RequiredPlaneLen(l.strideUv, rows, rowBytes)
           split == UvPlaneLen(l)
<1>1. CASE \E n \in {l.width, l.height, l.stride, l.strideUv} : n <= 0
  <2>1. ConvertI420(l, b) = "InvalidDimension"
    BY <1>1 DEF ConvertI420
  <2>2. l.width > 0 /\ l.stride >= l.width => l.stride > 0
    BY DEF LayoutOfNumbers
  <2>3. l.width > 0 /\ l.strideUv >= (l.width + 1) \div 2 => l.strideUv > 0
    BY DEF LayoutOfNumbers
  <2> QED BY <1>1, <2>1, <2>2, <2>3 DEF LayoutOfNumbers
<1>2. CASE ~\E n \in {l.width, l.height, l.stride, l.strideUv} : n <= 0
  <2>1. /\ l.width \in Nat \ {0} /\ l.height \in Nat \ {0}
        /\ l.stride \in Nat \ {0} /\ l.strideUv \in Nat \ {0}
    BY <1>2 DEF LayoutOfNumbers
  <2>2. /\ rows \in Nat \ {0} /\ rows = (l.height + 1) \div 2
        /\ rowBytes \in Nat \ {0} /\ rowBytes = (l.width + 1) \div 2
    BY <2>1, ChromaIsHalf
  <2>3. split = l.strideUv * rows
    BY <2>2 DEF UvPlaneLen
  <2> HIDE DEF rows, rowBytes, split
  <2>4. y \in Int /\ uv \in Int /\ split \in Nat
    <3>1. rows \in Int /\ rowBytes \in Int
      BY <2>2
    <3>2. split \in Nat
      BY <2>1, <2>2, <2>3
    <3> QED BY <3>1, <3>2, RequiredIsNumber DEF LayoutOfNumbers
  <2>5. ConvertI420(l, b) =
          IF b.uvData = NoBuffer THEN "UvDataMissing"
          ELSE IF b.data < y THEN "BufferTooShort"
          ELSE IF b.uvData < 2 * split THEN "BufferTooShort"
          ELSE IF l.width = I32Max \/ l.height = I32Max THEN "Overflow"
          ELSE IF split < uv THEN "BufferTooShort"
          ELSE IF ~(b.data >= y /\ split >= uv /\ b.uvData - split >= uv) THEN "LibyuvFailed"
          ELSE "converted"
    BY <1>2, <2>1, <2>2 DEF ConvertI420, LibyuvTakes, rows, rowBytes, split
  <2>6. b.data >= y => Within(b.data, 0, l.stride, l.height, l.width)
    <3>1. b.data - 0 = b.data /\ b.data \in Int
      BY DEF BuffersOfNumbers
    <3> QED BY <2>1, <3>1, RequiredIsWithin
  <2>7. split >= uv => Within(split, 0, l.strideUv, rows, rowBytes)
    <3>1. split - 0 = split /\ split \in Int
      BY <2>4
    <3> QED BY <2>1, <2>2, <3>1, RequiredIsWithin
  <2>8. b.uvData # NoBuffer /\ b.uvData - split >= uv =>
          Within(b.uvData, split, l.strideUv, rows, rowBytes)
    <3> SUFFICES ASSUME b.uvData # NoBuffer, b.uvData - split >= uv
                 PROVE  Within(b.uvData, split, l.strideUv, rows, rowBytes)
      OBVIOUS
    <3>1. b.uvData \in Int
      BY DEF BuffersOfNumbers
    <3> QED BY <2>1, <2>2, <2>4, <3>1, RequiredIsWithin
  <2>9. l.stride >= l.width /\ b.data >= l.stride * l.height => b.data >= y
    BY <2>1, WholeIsRequired DEF BuffersOfNumbers
  <2>10. l.strideUv >= rowBytes => split >= uv
    <3>1. split \in Int /\ split >= l.strideUv * rows
      BY <2>3, <2>4
    <3> QED BY <2>1, <2>2, <3>1, WholeIsRequired
  <2>11. b.uvData >= l.strideUv * (2 * rows) => b.uvData >= 2 * split
    <3>1. l.strideUv * (2 * rows) = 2 * split
      BY <2>1, <2>2, <2>3
    <3> QED BY <3>1
  <2>12. (b.uvData # NoBuffer => b.uvData \in Int) /\ b.data \in Int /\ I32Max \in Int
    BY VideoDeviceAssumption DEF BuffersOfNumbers, VideoDeviceAssumption
  <2> HIDE DEF y, uv
  <2>13. /\ ConvertI420(l, b) # "LibyuvFailed"
         /\ ConvertI420(l, b) = "converted" =>
              b.uvData # NoBuffer /\ b.data >= y /\ split >= uv /\ b.uvData - split >= uv
         /\ /\ b.uvData # NoBuffer /\ b.data >= y /\ b.uvData >= 2 * split /\ split >= uv
            /\ l.width < I32Max /\ l.height < I32Max
            => ConvertI420(l, b) = "converted"
    BY <2>1, <2>4, <2>5, <2>12
  <2>14. rows = (l.height + 1) \div 2 /\ rowBytes = (l.width + 1) \div 2 /\ split = UvPlaneLen(l)
    BY <2>2 DEF split
  <2> QED BY <2>6, <2>7, <2>8, <2>9, <2>10, <2>11, <2>13, <2>14
<1> QED BY <1>1, <1>2

-----------------------------------------------------------------------------
\* No frame has been captured to begin with.
LEMMA DeviceStarts == DeviceInit => DeviceInv
<1> SUFFICES ASSUME DeviceInit PROVE DeviceInv
  OBVIOUS
<1>1. 0 \in Lengths
  BY VideoDeviceAssumption DEF VideoDeviceAssumption
<1>2. buffers \in [data : Lengths, uvData : Lengths \cup {NoBuffer}]
  BY <1>1 DEF DeviceInit
<1>3. layout \in Layouts /\ capturing = FALSE /\ fate = "none"
  BY DEF DeviceInit
<1> QED BY <1>2, <1>3 DEF DeviceInv, DeviceTypeOK, FateIsOfConversion

\* A conversion gives an error or a frame.
LEMMA ConversionsAre ==
  ASSUME NEW l, NEW b
  PROVE  ConvertFrame(l, b) \in ConvertErrors \cup {"converted"}
  BY DEF ConvertFrame, ConvertNv12, ConvertYuy2, ConvertI420, ConvertErrors

\* Each frame has the fate that its conversion gives it.
LEMMA DeviceSteps == DeviceInv /\ [DeviceNext]_deviceVars => DeviceInv'
<1> SUFFICES ASSUME DeviceInv, [DeviceNext]_deviceVars PROVE DeviceInv'
  OBVIOUS
<1>1. CASE StartDevice
  BY <1>1 DEF StartDevice, DeviceInv, DeviceTypeOK, FateIsOfConversion
<1>2. CASE OnCapture
  <2>1. PICK data \in Lengths, uvData \in Lengths \cup {NoBuffer} :
          LET b == [data |-> data, uvData |-> uvData]
          IN  /\ buffers' = b
              /\ fate' \in IF ConvertFrame(layout, b) = "converted" THEN {"dropped", "delivered"}
                           ELSE {ConvertFrame(layout, b)}
    BY <1>2, Zenon DEF OnCapture
  <2>2. UNCHANGED <<layout, capturing>>
    BY <1>2 DEF OnCapture
  <2>3. /\ buffers' \in [data : Lengths, uvData : Lengths \cup {NoBuffer}]
        /\ IF ConvertFrame(layout, buffers') = "converted" THEN fate' \in {"dropped", "delivered"}
           ELSE fate' = ConvertFrame(layout, buffers')
    BY <2>1
  <2>4. fate' \in ConvertErrors \cup {"none", "dropped", "delivered"}
    BY <2>3, ConversionsAre
  <2>5. ConvertFrame(layout, buffers)' = ConvertFrame(layout, buffers')
    BY <2>2
  <2> QED BY <2>2, <2>3, <2>4, <2>5 DEF DeviceInv, DeviceTypeOK, FateIsOfConversion
<1>3. CASE UNCHANGED deviceVars
  BY <1>3 DEF deviceVars, DeviceInv, DeviceTypeOK, FateIsOfConversion
<1> QED BY <1>1, <1>2, <1>3 DEF DeviceNext

\* What the conversion gives is what the property says of its fate.
LEMMA FatesAreRight == DeviceInv => DeviceFramesAreWithin
<1> SUFFICES ASSUME DeviceInv PROVE DeviceFramesAreWithin
  OBVIOUS
<1>1. LayoutOfNumbers(layout) /\ BuffersOfNumbers(buffers)
  <2>1. layout \in Layouts /\ buffers \in [data : Lengths, uvData : Lengths \cup {NoBuffer}]
    BY DEF DeviceInv, DeviceTypeOK
  <2>2. \A n \in -I32Max..I32Max : n \in Int
    OBVIOUS
  <2>3. Lengths \subseteq Nat
    BY VideoDeviceAssumption DEF VideoDeviceAssumption
  <2>4. {layout.width, layout.height, layout.stride, layout.strideUv} \subseteq -I32Max..I32Max
    BY <2>1, VideoDeviceAssumption, Zenon DEF VideoDeviceAssumption
  <2> QED BY <2>1, <2>2, <2>3, <2>4 DEF LayoutOfNumbers, BuffersOfNumbers
<1> DEFINE l == layout
           b == buffers
           judged == ConvertFrame(l, b)
<1>2. /\ fate \in {"dropped", "delivered"} => judged = "converted"
      /\ fate \in ConvertErrors => fate = judged
  <2>1. judged \in ConvertErrors \cup {"converted"}
    BY ConversionsAre
  <2> HIDE DEF l, b
  <2> QED BY <2>1 DEF DeviceInv, FateIsOfConversion, ConvertErrors, l, b
<1>3. /\ l.format = "Nv12" => judged = ConvertNv12(l, b)
      /\ l.format = "Yuy2" => judged = ConvertYuy2(l, b)
      /\ l.format = "I420" => judged = ConvertI420(l, b)
      /\ l.format \notin {"Nv12", "Yuy2", "I420"} => judged = "Unsupported"
  BY DEF ConvertFrame
<1> HIDE DEF l, b, judged
<1>4. LayoutOfNumbers(l) /\ BuffersOfNumbers(b)
  BY <1>1 DEF l, b
<1>5. judged # "LibyuvFailed"
  BY <1>3, <1>4, Nv12IsJudged, Yuy2IsJudged, I420IsJudged
<1>6. fate # "LibyuvFailed"
  BY <1>2, <1>5 DEF ConvertErrors
<1>7. ASSUME fate \in {"dropped", "delivered"}
      PROVE  /\ Within(b.data, 0, l.stride, l.height,
                       IF l.format = "Yuy2" THEN 2 * l.width ELSE l.width)
             /\ l.format = "Nv12" =>
                  Within(b.uvData, 0, l.strideUv, (l.height + 1) \div 2,
                         2 * ((l.width + 1) \div 2))
             /\ l.format = "I420" =>
                  /\ Within(UvPlaneLen(l), 0, l.strideUv, (l.height + 1) \div 2,
                            (l.width + 1) \div 2)
                  /\ Within(b.uvData, UvPlaneLen(l), l.strideUv, (l.height + 1) \div 2,
                            (l.width + 1) \div 2)
  <2>1. judged = "converted"
    BY <1>2, <1>7
  <2>2. CASE l.format = "Nv12"
    BY <1>3, <1>4, <2>1, <2>2, Nv12IsJudged
  <2>3. CASE l.format = "Yuy2"
    BY <1>3, <1>4, <2>1, <2>3, Yuy2IsJudged
  <2>4. CASE l.format = "I420"
    BY <1>3, <1>4, <2>1, <2>4, I420IsJudged
  <2> QED BY <1>3, <2>1, <2>2, <2>3, <2>4
<1>8. ASSUME fate \in ConvertErrors, l.width > 0, l.height > 0,
             2 * l.width < I32Max, l.height < I32Max
      PROVE  /\ ~(/\ l.format = "Yuy2"
                  /\ l.stride >= 2 * l.width /\ b.data >= l.stride * l.height)
             /\ ~(/\ l.format = "Nv12" /\ b.uvData # NoBuffer
                  /\ l.stride >= l.width /\ b.data >= l.stride * l.height
                  /\ l.strideUv >= 2 * ((l.width + 1) \div 2)
                  /\ b.uvData >= l.strideUv * ((l.height + 1) \div 2))
             /\ ~(/\ l.format = "I420" /\ b.uvData # NoBuffer
                  /\ l.stride >= l.width /\ b.data >= l.stride * l.height
                  /\ l.strideUv >= (l.width + 1) \div 2
                  /\ b.uvData >= l.strideUv * (2 * ((l.height + 1) \div 2)))
  <2>1. judged # "converted"
    BY <1>2, <1>8 DEF ConvertErrors
  <2>2. l.width < I32Max
    BY <1>4, <1>8, VideoDeviceAssumption DEF LayoutOfNumbers, VideoDeviceAssumption
  <2>3. CASE l.format = "Nv12"
    BY <1>3, <1>4, <1>8, <2>1, <2>2, <2>3, Nv12IsJudged
  <2>4. CASE l.format = "Yuy2"
    BY <1>3, <1>4, <1>8, <2>1, <2>4, Yuy2IsJudged
  <2>5. CASE l.format = "I420"
    BY <1>3, <1>4, <1>8, <2>1, <2>2, <2>5, I420IsJudged
  <2> QED BY <2>3, <2>4, <2>5
<1> HIDE DEF DeviceInv
<1>9. DeviceFramesAreWithin
  BY <1>6, <1>7, <1>8 DEF DeviceFramesAreWithin, l, b
<1> QED BY <1>9

\* The invariant holds of a device.
LEMMA DeviceInvHolds == DeviceSpec => []DeviceInv
  BY DeviceStarts, DeviceSteps, PTL DEF DeviceSpec

\* Of a frame of a device libyuv reads within its buffers, for any layout and lengths, and a
\* frame that is whole is not refused.
THEOREM DeviceFramesWithin == DeviceSpec => []DeviceFramesAreWithin
  BY DeviceInvHolds, FatesAreRight, PTL

-----------------------------------------------------------------------------
(* The parts in one                                                        *)

\* The part p is the one that runs.
Runs(p) == pipeline = p

\* MP4 input runs as it does by itself, or rests.
LEMMA Mp4Runs == Spec => Mp4Spec \/ [](~Runs("mp4") /\ Mp4Rests)
<1>1. Init => (Runs("mp4") /\ Mp4Init) \/ (~Runs("mp4") /\ Mp4Rests)
  BY DEF Runs, Init
<1>2. Runs("mp4") /\ [Next]_allVars => Runs("mp4")' /\ [Mp4Next]_mp4Vars
  BY DEF Runs, Next, allVars, streamVars, inputVars, codecVars
<1>3. ~Runs("mp4") /\ Mp4Rests /\ [Next]_allVars => ~Runs("mp4")' /\ Mp4Rests'
  BY DEF Runs, Next, allVars, streamVars, inputVars, codecVars, mp4Vars, readerVars, ioVars,
       feederVars,
         encoderVars, Mp4Rests
<1> QED BY <1>1, <1>2, <1>3, PTL DEF Spec, Mp4Spec

\* So does the opening of a stream.
LEMMA ConnectingRuns == Spec => ConnectingSpec \/ [](~Runs("connecting") /\ ConnectingRests)
<1>1. Init => (Runs("connecting") /\ ConnectingInit) \/ (~Runs("connecting") /\ ConnectingRests)
  BY DEF Runs, Init
<1>2. Runs("connecting") /\ [Next]_allVars => Runs("connecting")' /\ [ConnectingNext]_connectingVars
  BY DEF Runs, Next, allVars, streamVars, inputVars, codecVars
<1>3. ~Runs("connecting") /\ ConnectingRests /\ [Next]_allVars => ~Runs("connecting")' /\ ConnectingRests'
  BY DEF Runs, Next, allVars, streamVars, inputVars, codecVars, connectingVars, taskVars,
       peerVars,
         callerVars, ConnectingRests
<1> QED BY <1>1, <1>2, <1>3, PTL DEF Spec, ConnectingSpec

\* So do the timers.
LEMMA TimersRun == Spec => TimersSpec \/ [](~Runs("timers") /\ TimersRest)
<1>1. Init => (Runs("timers") /\ TimersInit) \/ (~Runs("timers") /\ TimersRest)
  BY DEF Runs, Init
<1>2. Runs("timers") /\ [Next]_allVars => Runs("timers")' /\ [TimersNext]_timerVars
  BY DEF Runs, Next, allVars, streamVars, inputVars, codecVars
<1>3. ~Runs("timers") /\ TimersRest /\ [Next]_allVars => ~Runs("timers")' /\ TimersRest'
  BY DEF Runs, Next, allVars, streamVars, inputVars, codecVars, timerVars, TimersRest
<1> QED BY <1>1, <1>2, <1>3, PTL DEF Spec, TimersSpec

\* The camera runs as it does by itself, or is not what runs: the encoder may have it.
LEMMA CameraRuns == Spec => CameraSpec \/ [](~Runs("camera"))
<1>1. Init => (Runs("camera") /\ CameraInit) \/ (~Runs("camera"))
  BY DEF Runs, Init
<1>2. Runs("camera") /\ [Next]_allVars => Runs("camera")' /\ [CameraNext]_cameraVars
  BY DEF Runs, Next, allVars, streamVars, inputVars, codecVars, cameraVars, pipelineVars
<1>3. ~Runs("camera") /\ [Next]_allVars => ~Runs("camera")'
  BY DEF Runs, Next, allVars, streamVars, inputVars, codecVars
<1> QED BY <1>1, <1>2, <1>3, PTL DEF Spec, CameraSpec

\* The V4L2 encoder runs, on any camera that keeps the contract, or rests.
LEMMA EncoderRuns == Spec => PipelineSpec \/ [](~Runs("encoder") /\ V4l2Init)
<1>1. Init => (Runs("encoder") /\ PipelineInit) \/ (~Runs("encoder") /\ V4l2Init)
  BY DEF Runs, Init, CameraRests, CameraInit, PipelineInit, V4l2Rests
<1>2. Runs("encoder") /\ [Next]_allVars => Runs("encoder")' /\ [PipelineNext]_pipelineVars
  BY DEF Runs, Next, allVars, streamVars, inputVars, codecVars, cameraVars, pipelineVars
<1>3. ~Runs("encoder") /\ V4l2Init /\ [Next]_allVars => ~Runs("encoder")' /\ V4l2Init'
  BY DEF Runs, Next, allVars, streamVars, inputVars, codecVars, v4l2Vars, configVars,
       sharedVars,
         V4l2Init
<1> QED BY <1>1, <1>2, <1>3, PTL DEF Spec, PipelineSpec

\* The handlers of vendor hardware rest in a state in which they may begin.
LEMMA HardwareRuns == Spec => HardwareSpec
<1>1. Init => HardwareInit
  BY DEF Init, HardwareRests
<1>2. [Next]_allVars => [HardwareNext]_hardwareVars
  BY DEF Next, allVars, streamVars, inputVars, codecVars
<1> QED BY <1>1, <1>2, PTL DEF Spec, HardwareSpec

\* So does OpenH264.
LEMMA Openh264Runs == Spec => Openh264Spec
<1>1. Init => Openh264Init
  BY DEF Init, Openh264Rests
<1>2. [Next]_allVars => [Openh264Next]_openh264Vars
  BY DEF Next, allVars, streamVars, inputVars, codecVars
<1> QED BY <1>1, <1>2, PTL DEF Spec, Openh264Spec

\* So does the wrapper that aligns frames.
LEMMA AlignedRuns == Spec => AlignedSpec
<1>1. Init => AlignedInit
  BY DEF Init
<1>2. [Next]_allVars => [AlignedNext]_alignedVars
  BY DEF Next, allVars, streamVars, inputVars, codecVars
<1> QED BY <1>1, <1>2, PTL DEF Spec, AlignedSpec

\* So does a video device.
LEMMA DeviceRuns == Spec => DeviceSpec
<1>1. Init => DeviceInit
  BY DEF Init, DeviceRests
<1>2. [Next]_allVars => [DeviceNext]_deviceVars
  BY DEF Next, allVars, streamVars, inputVars, codecVars
<1> QED BY <1>1, <1>2, PTL DEF Spec, DeviceSpec

\* So does the parsing of a reply.
LEMMA ResponseRuns == Spec => ResponseSpec
<1>1. Init => ResponseInit
  BY DEF Init, ResponseRests
<1>2. [Next]_allVars => [ResponseNext]_responseVars
  BY DEF Next, allVars, streamVars, inputVars, codecVars
<1> QED BY <1>1, <1>2, PTL DEF Spec, ResponseSpec

\* What is proved of the MP4 input and of the WebSocket holds where they rest.
LEMMA RestsAreSafe ==
  /\ Mp4Rests => AcceptedFilesPlay /\ ReceiverDecodesTrack /\ WaitingIsServed
  /\ ConnectingRests => FailureIsComplete /\ NothingReadIsLost
  /\ TimersRest => TimersAreHeld
  /\ V4l2Init => ConversionsReadTheirFrames /\ DevicesGetTheirFormat /\ ReleasedIsQuiet
<1>1. ASSUME Mp4Rests PROVE AcceptedFilesPlay /\ ReceiverDecodesTrack /\ WaitingIsServed
  <2>1. opened = "refused" /\ clones = {}
    BY <1>1 DEF Mp4Rests
  <2>2. \A c \in Capturers : encoders[c] = NoEncoder /\ feeders[c].at = "none"
    BY <1>1 DEF Mp4Rests
  <2>3. AcceptedFilesPlay
    BY <2>1 DEF AcceptedFilesPlay, KeyFramesStartDecoding, OneHeaderPerSequence, UnitsAreWhole
  <2>4. ReceiverDecodesTrack
    BY <2>2 DEF ReceiverDecodesTrack
  <2>5. WaitingIsServed
    BY <2>1, <2>2 DEF WaitingIsServed
  <2> QED BY <2>3, <2>4, <2>5
<1>2. ASSUME ConnectingRests PROVE FailureIsComplete /\ NothingReadIsLost
  <2>1. errors = <<>> /\ outcome = "abandoned"
    BY <1>2 DEF ConnectingRests
  <2>2. \A a \in Attempts : ~attempts[a].socket
    BY <1>2 DEF ConnectingRests
  <2>3. FailureIsComplete
    BY <2>1 DEF FailureIsComplete
  <2>4. NothingReadIsLost
    BY <2>2 DEF NothingReadIsLost
  <2> QED BY <2>3, <2>4
<1>3. TimersRest => TimersAreHeld
  BY DEF TimersRest, TimersAreHeld
<1>4. ASSUME V4l2Init
      PROVE  ConversionsReadTheirFrames /\ DevicesGetTheirFormat /\ ReleasedIsQuiet
  <2>1. width = Nothing /\ \A d \in Devices : devices[d].jobs = <<>>
    BY <1>4 DEF V4l2Init, Closed
  <2> QED
    BY <2>1 DEF ConversionsReadTheirFrames, DevicesGetTheirFormat, ReleasedIsQuiet, Devices
<1> QED BY <1>1, <1>2, <1>3, <1>4

\* Whichever part runs, each of its variables holds a value of its type.
THEOREM PipelinesTypeCorrect == Spec => []TypeOK
<1>1. Spec => [](Runs("mp4") => Mp4TypeOK)
  BY Mp4Runs, Mp4TypeCorrect, PTL
<1>2. Spec => [](Runs("connecting") => ConnectingTypeOK)
  BY ConnectingRuns, ConnectingTypeCorrect, PTL
<1>3. Spec => [](Runs("timers") => TimersTypeOK)
  BY TimersRun, TimersHeld, PTL
<1>4. Spec => [](Runs("camera") => CameraTypeOK)
  BY CameraRuns, CameraTypeCorrect, PTL
<1>5. Spec => [](Runs("encoder") => V4l2TypeOK)
  BY EncoderRuns, PipelineTypeCorrect, PTL
<1>6. Spec => []HardwareTypeOK
  BY HardwareRuns, HardwareTypeCorrect, PTL
<1>7. Spec => [](Openh264Inv /\ AlignedInv /\ DeviceInv)
  BY Openh264Runs, Openh264InvHolds, AlignedRuns, AlignedInvHolds, DeviceRuns, DeviceInvHolds,
       PTL
<1>8. Openh264Inv /\ AlignedInv /\ DeviceInv => Openh264TypeOK /\ AlignedTypeOK /\ DeviceTypeOK
  BY DEF Openh264Inv, AlignedInv, DeviceInv
<1>9. Spec => []ResponseTypeOK
  BY ResponseRuns, RepliesJudged, PTL
<1>10. /\ Runs("mp4") => Mp4TypeOK
       /\ Runs("connecting") => ConnectingTypeOK
       /\ Runs("timers") => TimersTypeOK
       /\ Runs("camera") => CameraTypeOK
       /\ Runs("encoder") => V4l2TypeOK
       /\ HardwareTypeOK /\ Openh264TypeOK /\ AlignedTypeOK /\ DeviceTypeOK /\ ResponseTypeOK
       => TypeOK
  BY DEF Runs, TypeOK
<1> QED BY <1>1, <1>2, <1>3, <1>4, <1>5, <1>6, <1>7, <1>8, <1>9, <1>10, PTL

\* What comes from outside is taken if and only if it can be used, whatever files, layouts,
\* lengths and members come.
THEOREM InputsJudged == Spec => []InputsAreJudged
<1>1. Spec => []AcceptedFilesPlay
  BY Mp4Runs, AcceptedPlay, RestsAreSafe, PTL
<1>2. Spec => []RepliesAreJudged
  BY ResponseRuns, RepliesJudged, PTL
<1>3. Spec => []DeviceFramesAreWithin
  BY DeviceRuns, DeviceFramesWithin, PTL
<1>4. AcceptedFilesPlay /\ RepliesAreJudged /\ DeviceFramesAreWithin => InputsAreJudged
  BY DEF InputsAreJudged
<1> QED BY <1>1, <1>2, <1>3, <1>4, PTL

\* Whichever part runs, every other safety invariant holds: what is sent can be decoded,
\* who waits is served, no failure and no byte is lost, timers are held, no frame is the
\* camera's to overwrite while it is converted, devices and engines get what they are set up
\* for, a released pipeline is quiet, a callback is registered while it is called, and
\* the first output after a pause gives a key frame or no image.
THEOREM PipelinesAreSafe ==
  Spec => [](/\ ReceiverDecodesTrack /\ WaitingIsServed
             /\ FailureIsComplete /\ NothingReadIsLost /\ TimersAreHeld
             /\ ConversionsReadTheirFrames /\ DevicesGetTheirFormat /\ ReleasedIsQuiet
             /\ FramesFitTheirEncoders /\ CallbackIsRegistered /\ PausesEndWithKeyFrame)
<1>1. Spec => [](ReceiverDecodesTrack /\ WaitingIsServed)
  BY Mp4Runs, ReceiverDecodes, WaitingServed, RestsAreSafe, PTL
<1>2. Spec => [](FailureIsComplete /\ NothingReadIsLost)
  BY ConnectingRuns, FailuresAreComplete, NothingIsLost, RestsAreSafe, PTL
<1>3. Spec => []TimersAreHeld
  BY TimersRun, TimersHeld, RestsAreSafe, PTL
<1>4. Spec => [](ConversionsReadTheirFrames /\ DevicesGetTheirFormat /\ ReleasedIsQuiet)
  BY EncoderRuns, ConversionsReadLentFrames, DevicesHaveFormat, QuietAfterRelease, RestsAreSafe,
     PTL
<1>5. Spec => [](FramesFitTheirEncoders /\ CallbackIsRegistered /\ PausesEndWithKeyFrame)
  BY HardwareRuns, Openh264Runs, AlignedRuns, FramesFit, CallbackInUseIsRegistered,
     PauseEndsWithKey, PTL
<1> QED BY <1>1, <1>2, <1>3, <1>4, <1>5, PTL
===============================================================================
