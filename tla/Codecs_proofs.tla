---------------------------- MODULE Codecs_proofs -----------------------------
(***************************************************************************)
(* Proofs about the encoders and decoders, for any devices, engines, sizes *)
(* and rates, and the camera before them: the libcamera capturer, the V4L2 *)
(* pipeline on any camera that keeps the contract of CameraRequests, the   *)
(* handlers of vendor hardware, OpenH264, and the wrapper that aligns      *)
(* frames.  A request is the camera's, or lent, or in one of the two       *)
(* channels of the capturer, and in one of them only; from this it follows *)
(* that the capturer implements CameraRequests.  Of the others each        *)
(* invariant relates what a handler believes of its device (size, rate,    *)
(* flags) to what the device is set to, at every step of a call at which   *)
(* another thread runs.                                                    *)
(***************************************************************************)
EXTENDS Camera, V4l2Pipeline, Encoders, TLAPS

-----------------------------------------------------------------------------
(* The libcamera capturer                                                  *)

\* What the camera thread hears of a request.
Completion == [cookie : Cookies, ok : BOOLEAN]

\* Each request in one place: with the camera, lent, in a channel.
Round(camera, lent, arriving, returning) ==
  /\ camera \cap lent = {}
  /\ \A i \in DOMAIN arriving :
       /\ arriving[i].cookie \notin camera \cup lent
       /\ \A j \in DOMAIN arriving : arriving[i].cookie = arriving[j].cookie => i = j
       /\ \A j \in DOMAIN returning : arriving[i].cookie # returning[j]
  /\ \A i \in DOMAIN returning :
       /\ returning[i] \notin camera \cup lent
       /\ \A j \in DOMAIN returning : returning[i] = returning[j] => i = j

\* A thread that sets up has a session, to which no frame belongs yet.
CameraInv ==
  /\ CameraTypeOK
  /\ capture \in Looping => Round(queued, Lent, completions, returns)
  /\ \A r \in references : r.session <= session
  /\ (capture = "none") = ~started
  /\ capture # "none" => session > 0
  /\ capture = "setup" => Lent = {}
  /\ capture \notin Looping => queued = {} /\ completions = <<>> /\ returns = <<>>

-----------------------------------------------------------------------------
(* The channels of the capturer                                            *)

\* What is sent comes last.
LEMMA AppendFacts ==
  ASSUME NEW S, NEW s \in Seq(S), NEW e \in S
  PROVE  /\ Append(s, e) \in Seq(S)
         /\ DOMAIN Append(s, e) = DOMAIN s \cup {Len(s) + 1}
         /\ Len(s) + 1 \notin DOMAIN s
         /\ Append(s, e)[Len(s) + 1] = e
         /\ \A i \in DOMAIN s : Append(s, e)[i] = s[i]
  OBVIOUS

\* What is received came first.
LEMMA TailFacts ==
  ASSUME NEW S, NEW s \in Seq(S), s # <<>>
  PROVE  /\ Tail(s) \in Seq(S)
         /\ Head(s) \in S
         /\ 1 \in DOMAIN s /\ Head(s) = s[1]
         /\ \A i \in DOMAIN Tail(s) : i \in Nat /\ i + 1 \in DOMAIN s /\ i + 1 # 1 /\ Tail(s)[i] = s[i + 1]
         /\ \A i, j \in DOMAIN Tail(s) : i + 1 = j + 1 => i = j
  OBVIOUS

\* The thread receives a completion: its request is nowhere else, so it may go anywhere.
LEMMA ReceiveRound ==
  ASSUME NEW camera, NEW lent,
         NEW arriving \in Seq(Completion), NEW returning \in Seq(Cookies),
         Round(camera, lent, arriving, returning), arriving # <<>>
  PROVE  LET cookie == Head(arriving).cookie
         IN  /\ cookie \in Cookies
             /\ cookie \notin camera \cup lent
             /\ Round(camera, lent, Tail(arriving), returning)
             /\ Round(camera \cup {cookie}, lent, Tail(arriving), returning)
             /\ Round(camera, lent \cup {cookie}, Tail(arriving), returning)
             /\ Round(camera, lent, Tail(arriving), Append(returning, cookie))
<1> DEFINE cookie == Head(arriving).cookie
           rest == Tail(arriving)
           more == Append(returning, cookie)
<1>1. /\ 1 \in DOMAIN arriving /\ Head(arriving) = arriving[1] /\ Head(arriving) \in Completion
      /\ \A i \in DOMAIN rest : i + 1 \in DOMAIN arriving /\ i + 1 # 1 /\ rest[i] = arriving[i + 1]
      /\ \A i, j \in DOMAIN rest : i + 1 = j + 1 => i = j
  BY TailFacts, Zenon
<1>2. cookie \in Cookies
  BY <1>1 DEF Completion
<1>3. cookie = arriving[1].cookie
  BY <1>1
<1>4. /\ DOMAIN more = DOMAIN returning \cup {Len(returning) + 1}
      /\ Len(returning) + 1 \notin DOMAIN returning
      /\ more[Len(returning) + 1] = cookie
      /\ \A i \in DOMAIN returning : more[i] = returning[i]
  BY <1>2, AppendFacts
<1> HIDE DEF cookie, rest, more
<1>5. /\ cookie \notin camera \cup lent
      /\ \A j \in DOMAIN returning : returning[j] # cookie
      /\ \A i \in DOMAIN rest : rest[i].cookie # cookie
  BY <1>1, <1>3, Zenon DEF Round
<1>6. Round(camera, lent, rest, returning)
  BY <1>1 DEF Round
<1>7. Round(camera \cup {cookie}, lent, rest, returning)
  BY <1>5, <1>6, Zenon DEF Round
<1>8. Round(camera, lent \cup {cookie}, rest, returning)
  BY <1>5, <1>6, Zenon DEF Round
<1>9. Round(camera, lent, rest, more)
  BY <1>4, <1>5, <1>6, Zenon DEF Round
<1> QED BY <1>2, <1>5, <1>6, <1>7, <1>8, <1>9 DEF cookie, rest, more

\* The thread receives a request whose frame is gone: it may be queued.
LEMMA RequeueRound ==
  ASSUME NEW camera, NEW lent,
         NEW arriving \in Seq(Completion), NEW returning \in Seq(Cookies),
         Round(camera, lent, arriving, returning), returning # <<>>
  PROVE  /\ Head(returning) \in Cookies \ lent
         /\ Round(camera, lent, arriving, Tail(returning))
         /\ Round(camera \cup {Head(returning)}, lent, arriving, Tail(returning))
<1> DEFINE rest == Tail(returning)
           cookie == Head(returning)
<1>1. /\ 1 \in DOMAIN returning /\ cookie = returning[1] /\ cookie \in Cookies
      /\ \A i \in DOMAIN rest : i + 1 \in DOMAIN returning /\ i + 1 # 1 /\ rest[i] = returning[i + 1]
      /\ \A i, j \in DOMAIN rest : i + 1 = j + 1 => i = j
  BY TailFacts, Zenon
<1> HIDE DEF cookie, rest
<1>2. /\ cookie \notin camera \cup lent
      /\ \A j \in DOMAIN arriving : arriving[j].cookie # cookie
      /\ \A i \in DOMAIN rest : rest[i] # cookie
  BY <1>1, Zenon DEF Round
<1>3. Round(camera, lent, arriving, rest)
  BY <1>1, ZenonT(30) DEF Round
<1>4. Round(camera \cup {cookie}, lent, arriving, rest)
  BY <1>2, <1>3, Zenon DEF Round
<1> QED BY <1>1, <1>2, <1>3, <1>4, Zenon DEF cookie, rest

\* The camera gives a request back, reported or not.
LEMMA CompleteRound ==
  ASSUME NEW camera, NEW lent,
         NEW arriving \in Seq(Completion), NEW returning \in Seq(Cookies),
         Round(camera, lent, arriving, returning),
         NEW cookie \in camera, NEW e \in Completion, e.cookie = cookie
  PROVE  /\ Round(camera \ {cookie}, lent, arriving, returning)
         /\ Round(camera \ {cookie}, lent, Append(arriving, e), returning)
<1> DEFINE more == Append(arriving, e)
<1>1. /\ DOMAIN more = DOMAIN arriving \cup {Len(arriving) + 1}
      /\ Len(arriving) + 1 \notin DOMAIN arriving
      /\ more[Len(arriving) + 1] = e
      /\ \A i \in DOMAIN arriving : more[i] = arriving[i]
  BY AppendFacts
<1> HIDE DEF more
<1>2. Round(camera \ {cookie}, lent, arriving, returning)
  BY Zenon DEF Round
<1>3. /\ cookie \notin lent
      /\ \A i \in DOMAIN arriving : arriving[i].cookie # cookie
      /\ \A i \in DOMAIN returning : returning[i] # cookie
  BY Zenon DEF Round
<1>4. Round(camera \ {cookie}, lent, more, returning)
  BY <1>1, <1>2, <1>3, ZenonT(30) DEF Round
<1> QED BY <1>2, <1>4 DEF more

\* The last reference to a frame goes, and its request is sent to the thread.
LEMMA ReturnRound ==
  ASSUME NEW camera, NEW lent, NEW left \in SUBSET lent,
         NEW arriving \in Seq(Completion), NEW returning \in Seq(Cookies),
         Round(camera, lent, arriving, returning)
  PROVE  /\ Round(camera, left, arriving, returning)
         /\ \A cookie \in Cookies \cap (lent \ left) :
              Round(camera, left, arriving, Append(returning, cookie))
<1>1. Round(camera, left, arriving, returning)
  BY Zenon DEF Round
<1>2. ASSUME NEW cookie \in Cookies, cookie \in lent, cookie \notin left
      PROVE  Round(camera, left, arriving, Append(returning, cookie))
  <2> DEFINE more == Append(returning, cookie)
  <2>1. /\ DOMAIN more = DOMAIN returning \cup {Len(returning) + 1}
        /\ Len(returning) + 1 \notin DOMAIN returning
        /\ more[Len(returning) + 1] = cookie
        /\ \A i \in DOMAIN returning : more[i] = returning[i]
    BY AppendFacts
  <2> HIDE DEF more
  <2>2. /\ cookie \notin camera \cup left
        /\ \A i \in DOMAIN arriving : arriving[i].cookie # cookie
        /\ \A i \in DOMAIN returning : returning[i] # cookie
    BY <1>2, Zenon DEF Round
  <2>3. Round(camera, left, arriving, more)
    BY <1>1, <2>1, <2>2, Zenon DEF Round
  <2> QED BY <2>3 DEF more
<1> QED BY <1>1, <1>2, Zenon
-----------------------------------------------------------------------------
(* What is lent                                                            *)

LEMMA LentFacts ==
  ASSUME CameraTypeOK
  PROVE  /\ Lent \subseteq Cookies
         /\ Lent = {c \in Cookies : \E r \in references : r.session = session /\ r.cookie = c}
  BY DEF CameraTypeOK, References, Lent

\* As long as nothing is lent or dropped, the same is lent.
LEMMA LentUnchanged ==
  ASSUME UNCHANGED <<session, references>>
  PROVE  Lent' = Lent
  BY DEF Lent

\* The frame of a request is given to holders.
LEMMA LentLends ==
  ASSUME CameraTypeOK, session' = session, session > 0, NEW cookie \in Cookies,
         NEW holders \in SUBSET Sinks,
         references' = references \cup
           {[session |-> session, cookie |-> cookie, holder |-> h] : h \in holders}
  PROVE  /\ Lent' = IF holders = {} THEN Lent ELSE Lent \cup {cookie}
         /\ references' \subseteq References
         /\ \A r \in references' : r \in references \/ r.session = session
<1> DEFINE new == {[session |-> session, cookie |-> cookie, holder |-> h] : h \in holders}
<1>1. \A r \in new : r.session = session /\ r.cookie = cookie /\ r \in References
  BY RequestsAssumption DEF CameraTypeOK, References
<1>2. holders # {} => new # {}
  BY Zenon
<1>3. holders = {} => new = {}
  BY Zenon
<1> HIDE DEF new
<1>4. references' = references \cup new
  BY DEF new
<1>5. CASE holders = {}
  BY <1>3, <1>4, <1>5, Zenon DEF Lent, CameraTypeOK
<1>6. CASE holders # {}
  <2>1. Lent' = Lent \cup {cookie}
    BY <1>1, <1>2, <1>4, <1>6 DEF Lent
  <2> QED BY <1>1, <1>4, <1>6, <2>1, Zenon DEF CameraTypeOK
<1> QED BY <1>5, <1>6, Zenon

\* Frames are given on and dropped: nothing new is lent.
LEMMA LentShrinks ==
  ASSUME CameraTypeOK, session' = session, NEW r \in references, NEW holders \in SUBSET Holders,
         references' = (references \ {r}) \cup {[r EXCEPT !.holder = h] : h \in holders}
  PROVE  /\ Lent' \subseteq Lent
         /\ references' \subseteq References
         /\ \A q \in references' : q \in references \/ q.session = r.session
         /\ \A q \in references' : \E p \in references, h \in Holders : q = [p EXCEPT !.holder = h]
<1> DEFINE new == {[r EXCEPT !.holder = h] : h \in holders}
<1>1. references \subseteq References
  BY Zenon DEF CameraTypeOK
<1>2. \A q \in new : q.session = r.session /\ q.cookie = r.cookie /\ q \in References
  BY <1>1 DEF References
<1>3. \A q \in new : \E p \in references, h \in Holders : q = [p EXCEPT !.holder = h]
  BY Zenon
<1>4. ASSUME NEW q \in references
      PROVE  \E p \in references, h \in Holders : q = [p EXCEPT !.holder = h]
  <2>1. q = [q EXCEPT !.holder = q.holder] /\ q.holder \in Holders
    BY <1>1, <1>4 DEF References
  <2> QED BY <1>4, <2>1
<1> HIDE DEF new
<1>5. references' = (references \ {r}) \cup new
  BY DEF new
<1>6. Lent' \subseteq Lent
  BY <1>2, <1>5 DEF Lent
<1>7. references' \subseteq References /\ \A q \in references' : q \in references \/ q.session = r.session
  BY <1>1, <1>2, <1>5, Zenon
<1>8. \A q \in references' : \E p \in references, h \in Holders : q = [p EXCEPT !.holder = h]
  BY <1>3, <1>4, <1>5, Zenon
<1> QED BY <1>6, <1>7, <1>8, Zenon

-----------------------------------------------------------------------------
(* The steps.  Each keeps the invariant and is one of the contract, or none *)

Keeps == CameraInv' /\ [RequestsNext]_requestVars

\* Nothing of the contract changes.
LEMMA Stutters ==
  ASSUME UNCHANGED requestVars
  PROVE  Lent' = Lent /\ [RequestsNext]_requestVars
  BY LentUnchanged DEF requestVars

\* The requests that the camera has become fewer.
LEMMA Completes ==
  ASSUME queued' \in SUBSET queued, UNCHANGED <<session, references>>
  PROVE  Lent' = Lent /\ [RequestsNext]_requestVars
<1>1. Complete
  BY Zenon DEF Complete
<1> QED BY <1>1, LentUnchanged, Zenon DEF RequestsNext

\* Requests that are not lent go to the camera.
LEMMA Queues ==
  ASSUME session > 0, NEW new \in SUBSET (Cookies \ Lent), queued' = queued \cup new,
         UNCHANGED <<session, references>>
  PROVE  Lent' = Lent /\ [RequestsNext]_requestVars
<1>1. Queue
  BY Zenon DEF Queue
<1> QED BY <1>1, LentUnchanged, Zenon DEF RequestsNext

LEMMA StartStep ==
  ASSUME CameraInv, Start
  PROVE  Keeps
<1>1. /\ started' = TRUE /\ stopping' = FALSE /\ capture' = "setup"
      /\ session < SessionsMax /\ session' = session + 1
      /\ UNCHANGED <<native, queued, references, completions, returns>>
  BY DEF Start, channelVars
<1>2. capture = "none"
  BY Zenon DEF CameraInv, Start
<1>3. queued = {} /\ completions = <<>> /\ returns = <<>>
  BY <1>2 DEF CameraInv, Looping
<1>4. BeginSession
  BY <1>1, <1>3 DEF BeginSession
<1>5. session \in Nat /\ session' \in 0..SessionsMax /\ session' > 0
  BY <1>1, RequestsAssumption DEF CameraInv, CameraTypeOK
<1>6. \A r \in references : r.session \in Nat /\ r.session <= session
  BY DEF CameraInv, CameraTypeOK, References
<1>7. \A r \in references : r.session <= session' /\ r.session # session'
  BY <1>1, <1>5, <1>6
<1>8. Lent' = {}
  BY <1>1, <1>7, Zenon DEF Lent
<1>9. CameraTypeOK'
  BY <1>1, <1>5 DEF CameraInv, CameraTypeOK
<1>10. CameraInv'
  BY <1>1, <1>3, <1>5, <1>7, <1>8, <1>9 DEF CameraInv, Looping
<1> QED BY <1>4, <1>10, Zenon DEF Keeps, RequestsNext

LEMMA StopStep ==
  ASSUME CameraInv, Stop \/ Stopped
  PROVE  Keeps
<1>1. UNCHANGED <<requestVars, completions, returns, native>>
  BY Zenon DEF Stop, Stopped, channelVars
<1>2. Lent' = Lent /\ [RequestsNext]_requestVars
  BY <1>1, Stutters
<1>3. CameraInv'
  <2>1. CASE Stop
    BY <1>1, <1>2, <2>1 DEF Stop, CameraInv, CameraTypeOK, requestVars
  <2>2. CASE Stopped
    BY <1>1, <1>2, <2>2 DEF Stopped, CameraInv, CameraTypeOK, requestVars, Looping
  <2> QED BY <2>1, <2>2
<1> QED BY <1>2, <1>3 DEF Keeps

\* The thread ends.
LEMMA EndStep ==
  ASSUME CameraInv, EndCapture, capture # "none", UNCHANGED <<session, references, capturerVars>>
  PROVE  Keeps
<1>1. capture' = "ended" /\ queued' = {} /\ completions' = <<>> /\ returns' = <<>>
  BY DEF EndCapture
<1>2. Lent' = Lent /\ [RequestsNext]_requestVars
  BY <1>1, Completes
<1>3. CameraInv'
  BY <1>1, <1>2 DEF CameraInv, CameraTypeOK, capturerVars, Looping
<1> QED BY <1>2, <1>3 DEF Keeps

\* The loop goes on, with each request in one place.
LEMMA LoopGoesOn ==
  ASSUME CameraInv, capture # "none", capture' \in Looping, UNCHANGED <<session, capturerVars>>,
         queued' \subseteq Cookies,
         references' \subseteq References,
         \A r \in references' : r \in references \/ r.session = session,
         completions' \in Seq(Completion),
         returns' \in Seq(Cookies),
         Round(queued, Lent, completions, returns)'
  PROVE  CameraInv'
<1>1. CameraTypeOK'
  BY DEF CameraInv, CameraTypeOK, capturerVars, Completion
<1>2. \A r \in references' : r.session <= session'
  <2>1. session \in Nat /\ session' = session
    BY DEF CameraInv, CameraTypeOK
  <2> QED BY <2>1 DEF CameraInv
<1>3. capture' # "none" /\ capture' # "setup"
  BY DEF Looping
<1>4. started' /\ session' > 0
  <2>1. started \in BOOLEAN /\ started' = started
    BY Zenon DEF CameraInv, CameraTypeOK, capturerVars
  <2> QED BY <2>1, Zenon DEF CameraInv
<1>5. (capture' = "none") = ~started'
  BY <1>3, <1>4, Zenon
<1> QED BY <1>1, <1>2, <1>3, <1>4, <1>5, Zenon DEF CameraInv

LEMMA CameraSetUpStep ==
  ASSUME CameraInv, SetUp
  PROVE  Keeps
<1>1. capture = "setup" /\ UNCHANGED <<session, references, capturerVars>>
  BY Zenon DEF SetUp
<1>2. CASE EndCapture
  BY <1>1, <1>2, EndStep
<1>3. CASE capture' = "top" /\ queued' = Cookies /\ UNCHANGED channelVars
  <2>1. session > 0 /\ Lent = {} /\ queued = {} /\ completions = <<>> /\ returns = <<>>
    BY <1>1 DEF CameraInv, Looping
  <2>2. completions' = <<>> /\ returns' = <<>>
    BY <1>3, <2>1 DEF channelVars
  <2>3. queued' = queued \cup Cookies /\ Cookies \in SUBSET (Cookies \ Lent)
    BY <1>3, <2>1
  <2>4. Lent' = Lent /\ [RequestsNext]_requestVars
    BY <1>1, <2>1, <2>3, Queues
  <2>5. Round(queued, Lent, completions, returns)'
    BY <2>1, <2>2, <2>4 DEF Round
  <2>6. references' \subseteq References /\ references' = references
    BY <1>1 DEF CameraInv, CameraTypeOK
  <2>7. capture' \in Looping /\ queued' \subseteq Cookies /\ capture # "none"
        /\ completions' \in Seq(Completion) /\ returns' \in Seq(Cookies)
    BY <1>1, <1>3, <2>2 DEF Looping
  <2>8. CameraInv'
    BY <1>1, <2>5, <2>6, <2>7, LoopGoesOn
  <2> QED BY <2>4, <2>8 DEF Keeps
<1> QED BY <1>2, <1>3, Zenon DEF SetUp

\* What the steps of the loop have in common.
LEMMA LoopFacts ==
  ASSUME CameraInv, capture \in Looping
  PROVE  /\ capture # "none" /\ session > 0
         /\ Round(queued, Lent, completions, returns)
         /\ completions \in Seq(Completion) /\ returns \in Seq(Cookies)
         /\ queued \subseteq Cookies /\ references \subseteq References
         /\ CameraTypeOK
  BY DEF CameraInv, CameraTypeOK, Completion, Looping

\* The loop looks at the flag, or hears nothing.
LEMMA TurnStep ==
  ASSUME CameraInv, LoopTop \/ ReceiveTimeout
  PROVE  Keeps
<1>1. capture \in Looping /\ UNCHANGED <<session, references, capturerVars>>
  BY DEF LoopTop, ReceiveTimeout, Looping, requestVars
<1>2. CASE EndCapture
  BY <1>1, <1>2, LoopFacts, EndStep
<1>3. CASE capture' \in {"top", "requeue"} /\ UNCHANGED <<queued, channelVars>>
  <2>1. Lent' = Lent /\ [RequestsNext]_requestVars
    BY <1>1, <1>3, Stutters DEF requestVars
  <2>2. capture' \in Looping /\ completions' = completions /\ returns' = returns
    BY <1>3 DEF Looping, channelVars
  <2>3. CameraInv'
    BY <1>1, <1>3, <2>1, <2>2, LoopFacts, LoopGoesOn
  <2> QED BY <2>1, <2>3 DEF Keeps
<1> QED BY <1>2, <1>3 DEF LoopTop, ReceiveTimeout, requestVars

LEMMA RequeueReturnedStep ==
  ASSUME CameraInv, RequeueReturned
  PROVE  Keeps
<1>1. capture = "requeue" /\ UNCHANGED <<session, references, capturerVars, completions>>
  BY Zenon DEF RequeueReturned
<1>2. capture \in Looping
  BY <1>1 DEF Looping
<1>3. CASE returns = <<>>
  <2>1. capture' \in Looping /\ queued' = queued /\ returns' = returns
    BY <1>3 DEF RequeueReturned, Looping
  <2>2. Lent' = Lent /\ [RequestsNext]_requestVars
    BY <1>1, <2>1, Stutters DEF requestVars
  <2>3. CameraInv'
    BY <1>1, <1>2, <2>1, <2>2, LoopFacts, LoopGoesOn
  <2> QED BY <2>2, <2>3 DEF Keeps
<1>4. CASE returns # <<>>
  <2> DEFINE cookie == Head(returns)
  <2>1. capture' = capture /\ returns' = Tail(returns) /\ queued' \in {queued, queued \cup {cookie}}
    BY <1>4, Zenon DEF RequeueReturned, Requeue
  <2>2. /\ cookie \in Cookies \ Lent
        /\ Round(queued, Lent, completions, Tail(returns))
        /\ Round(queued \cup {cookie}, Lent, completions, Tail(returns))
    BY <1>2, <1>4, LoopFacts, RequeueRound
  <2>3. Tail(returns) \in Seq(Cookies)
    BY <1>2, <1>4, LoopFacts
  <2> HIDE DEF cookie
  <2>4. \E new \in SUBSET (Cookies \ Lent) : queued' = queued \cup new
    <3>1. queued' = queued \cup {} \/ queued' = queued \cup {cookie}
      BY <2>1
    <3>2. {} \in SUBSET (Cookies \ Lent) /\ {cookie} \in SUBSET (Cookies \ Lent)
      BY <2>2
    <3> QED BY <3>1, <3>2, Zenon
  <2>5. Lent' = Lent /\ [RequestsNext]_requestVars
    BY <1>1, <1>2, <2>4, Queues, LoopFacts
  <2>6. Round(queued, Lent, completions, returns)'
    BY <1>1, <2>1, <2>2, <2>5
  <2>7. queued' \subseteq Cookies
    BY <1>2, <2>1, <2>2, LoopFacts
  <2>8. CameraInv'
    BY <1>1, <1>2, <2>1, <2>3, <2>6, <2>7, LoopFacts, LoopGoesOn
  <2> QED BY <2>5, <2>8 DEF Keeps
<1> QED BY <1>3, <1>4

LEMMA ReceiveStep ==
  ASSUME CameraInv, Receive
  PROVE  Keeps
<1> DEFINE cookie == Head(completions).cookie
<1>1. /\ capture = "receive" /\ completions # <<>> /\ completions' = Tail(completions)
      /\ capture' = "top" /\ UNCHANGED <<session, capturerVars>>
  BY Zenon DEF Receive
<1>2. capture \in Looping /\ capture' \in Looping
  BY <1>1 DEF Looping
<1>3. /\ cookie \in Cookies
      /\ cookie \notin queued \cup Lent
      /\ Round(queued, Lent, Tail(completions), returns)
      /\ Round(queued \cup {cookie}, Lent, Tail(completions), returns)
      /\ Round(queued, Lent \cup {cookie}, Tail(completions), returns)
      /\ Round(queued, Lent, Tail(completions), Append(returns, cookie))
  BY <1>1, <1>2, LoopFacts, ReceiveRound
<1>4. Tail(completions) \in Seq(Completion) /\ Append(returns, cookie) \in Seq(Cookies)
  BY <1>1, <1>2, <1>3, LoopFacts
<1>5. \/ Requeue(cookie) /\ UNCHANGED <<returns, references>>
      \/ /\ \E holders \in SUBSET Sinks :
              /\ references' = references \cup
                   {[session |-> session, cookie |-> cookie, holder |-> h] : h \in holders}
              /\ returns' = IF holders = {} THEN Append(returns, cookie) ELSE returns
         /\ UNCHANGED queued
  BY Zenon DEF Receive
<1> HIDE DEF cookie
<1>6. CASE Requeue(cookie) /\ UNCHANGED <<returns, references>>
  <2>1. queued' \in {queued, queued \cup {cookie}}
    BY <1>6, Zenon DEF Requeue
  <2>2. \E new \in SUBSET (Cookies \ Lent) : queued' = queued \cup new
    <3>1. queued' = queued \cup {} \/ queued' = queued \cup {cookie}
      BY <2>1
    <3>2. {} \in SUBSET (Cookies \ Lent) /\ {cookie} \in SUBSET (Cookies \ Lent)
      BY <1>3
    <3> QED BY <3>1, <3>2, Zenon
  <2>3. Lent' = Lent /\ [RequestsNext]_requestVars
    BY <1>1, <1>2, <1>6, <2>2, Queues, LoopFacts
  <2>4. Round(queued, Lent, completions, returns)'
    BY <1>1, <1>3, <1>6, <2>1, <2>3
  <2>5. queued' \subseteq Cookies
    BY <1>2, <1>3, <2>1, LoopFacts
  <2>6. CameraInv'
    BY <1>1, <1>2, <1>4, <1>6, <2>4, <2>5, LoopFacts, LoopGoesOn
  <2> QED BY <2>3, <2>6 DEF Keeps
<1>7. ASSUME NEW holders \in SUBSET Sinks,
             references' = references \cup
               {[session |-> session, cookie |-> cookie, holder |-> h] : h \in holders},
             returns' = IF holders = {} THEN Append(returns, cookie) ELSE returns,
             UNCHANGED queued
      PROVE  Keeps
  <2>1. /\ Lent' = IF holders = {} THEN Lent ELSE Lent \cup {cookie}
        /\ references' \subseteq References
        /\ \A r \in references' : r \in references \/ r.session = session
    BY <1>1, <1>2, <1>3, <1>7, LentLends, LoopFacts
  <2>2. Round(queued, Lent, completions, returns)'
    <3>1. CASE holders = {}
      BY <1>1, <1>3, <1>7, <2>1, <3>1
    <3>2. CASE holders # {}
      BY <1>1, <1>3, <1>7, <2>1, <3>2
    <3> QED BY <3>1, <3>2
  <2>3. returns' \in Seq(Cookies)
    BY <1>2, <1>4, <1>7, LoopFacts
  <2>4. CameraInv'
    <3>1. queued' \subseteq Cookies /\ completions' \in Seq(Completion) /\ capture # "none"
      BY <1>1, <1>2, <1>4, <1>7, LoopFacts
    <3> QED BY <1>1, <1>2, <2>1, <2>2, <2>3, <3>1, LoopGoesOn
  <2>5. CASE holders = {}
    <3>1. references' = references
      BY <1>7, <2>5
    <3> QED BY <1>1, <1>7, <2>4, <3>1, Zenon DEF Keeps, requestVars
  <2>6. CASE holders # {}
    <3>1. Lend
      BY <1>1, <1>2, <1>3, <1>7, <2>6, LoopFacts, Zenon DEF Lend
    <3> QED BY <2>4, <3>1, Zenon DEF Keeps, RequestsNext
  <2> QED BY <2>5, <2>6
<1> QED BY <1>5, <1>6, <1>7, Zenon

LEMMA RequestCompletesStep ==
  ASSUME CameraInv, NEW cookie \in Cookies, RequestCompletes(cookie)
  PROVE  Keeps
<1>1. /\ capture \in Looping /\ cookie \in queued /\ queued' = queued \ {cookie}
      /\ UNCHANGED <<session, references, capturerVars, capture, returns>>
  BY Zenon DEF RequestCompletes
<1>2. Lent' = Lent /\ [RequestsNext]_requestVars
  BY <1>1, Completes
<1>3. /\ completions' \in Seq(Completion)
      /\ Round(queued \ {cookie}, Lent, completions', returns)
  <2>1. CASE completions' = completions
    <3>1. [cookie |-> cookie, ok |-> TRUE] \in Completion
      BY DEF Completion
    <3> QED BY <1>1, <2>1, <3>1, LoopFacts, CompleteRound
  <2>2. ASSUME NEW ok \in BOOLEAN, completions' = Append(completions, [cookie |-> cookie, ok |-> ok])
        PROVE  /\ completions' \in Seq(Completion)
               /\ Round(queued \ {cookie}, Lent, completions', returns)
    <3> DEFINE e == [cookie |-> cookie, ok |-> ok]
    <3>1. e \in Completion /\ e.cookie = cookie
      BY DEF Completion
    <3> HIDE DEF e
    <3>2. completions' = Append(completions, e)
      BY <2>2 DEF e
    <3> QED BY <1>1, <3>1, <3>2, LoopFacts, CompleteRound, AppendFacts
  <2> QED BY <2>1, <2>2, Zenon DEF RequestCompletes
<1>4. Round(queued, Lent, completions, returns)'
  BY <1>1, <1>2, <1>3
<1>5. CameraInv'
  BY <1>1, <1>3, <1>4, LoopFacts, LoopGoesOn
<1> QED BY <1>2, <1>5 DEF Keeps

LEMMA GiveOnStep ==
  ASSUME CameraInv, NEW r \in references, GiveOn(r)
  PROVE  Keeps
<1>1. UNCHANGED <<session, queued, capturerVars, capture, completions>>
  BY Zenon DEF GiveOn
<1>2. PICK holders \in SUBSET Holders :
        references' = (references \ {r}) \cup {[r EXCEPT !.holder = h] : h \in holders}
  BY Zenon DEF GiveOn
<1>3. /\ Lent' \subseteq Lent
      /\ references' \subseteq References
      /\ \A q \in references' : q \in references \/ q.session = r.session
      /\ \A q \in references' : \E p \in references, h \in Holders : q = [p EXCEPT !.holder = h]
  BY <1>1, <1>2, LentShrinks, Zenon DEF CameraInv
<1>4. [RequestsNext]_requestVars
  <2>1. PassOn
    BY <1>1, <1>3 DEF PassOn
  <2> QED BY <2>1, Zenon DEF RequestsNext
<1>5. \A q \in references' : q.session <= session
  BY <1>3 DEF CameraInv
<1>6. returns' = IF capture \in Looping /\ r.cookie \in Lent \ Lent' THEN Append(returns, r.cookie)
                 ELSE returns
  BY Zenon DEF GiveOn
<1>7. r.cookie \in Cookies
  BY DEF CameraInv, CameraTypeOK, References
<1>8. returns' \in Seq(Cookies)
  <2>1. returns \in Seq(Cookies)
    BY DEF CameraInv, CameraTypeOK
  <2> QED BY <1>6, <1>7, <2>1, AppendFacts
<1>9. capture \in Looping => Round(queued, Lent', completions, returns')
  <2> SUFFICES ASSUME capture \in Looping PROVE Round(queued, Lent', completions, returns')
    OBVIOUS
  <2>1. Lent' \in SUBSET Lent
    BY <1>3
  <2>2. /\ Round(queued, Lent', completions, returns)
        /\ \A cookie \in Cookies \cap (Lent \ Lent') :
             Round(queued, Lent', completions, Append(returns, cookie))
    BY <2>1, LoopFacts, ReturnRound
  <2>3. CASE r.cookie \in Lent \ Lent'
    BY <1>6, <1>7, <2>2, <2>3
  <2>4. CASE r.cookie \notin Lent \ Lent'
    BY <1>6, <2>2, <2>4
  <2> QED BY <2>3, <2>4
<1>10. CameraTypeOK'
  BY <1>1, <1>3, <1>8 DEF CameraInv, CameraTypeOK, capturerVars
<1>11. /\ capture = "setup" => Lent' = {}
       /\ capture \notin Looping => returns' = returns
  BY <1>3, <1>6 DEF CameraInv
<1>12. CameraInv'
  BY <1>1, <1>5, <1>9, <1>10, <1>11 DEF CameraInv, capturerVars
<1> QED BY <1>4, <1>12 DEF Keeps

-----------------------------------------------------------------------------
(* The theorems                                                            *)

LEMMA CameraInitially == CameraInit => CameraInv /\ RequestsInit
<1> SUFFICES ASSUME CameraInit PROVE CameraInv /\ RequestsInit
  OBVIOUS
<1>1. RequestsInit /\ session = 0 /\ queued = {} /\ references = {}
  BY DEF CameraInit, RequestsInit
<1>2. capture = "none" /\ started = FALSE
  BY DEF CameraInit
<1>3. CameraTypeOK
  <2>1. session \in 0..SessionsMax /\ queued \subseteq Cookies /\ references \subseteq References
    BY <1>1, RequestsAssumption
  <2>2. native \in BOOLEAN /\ started \in BOOLEAN /\ stopping \in BOOLEAN
    BY Zenon DEF CameraInit
  <2>3. /\ capture \in {"none", "setup", "ended"} \cup Looping
        /\ completions \in Seq([cookie : Cookies, ok : BOOLEAN])
        /\ returns \in Seq(Cookies)
    BY DEF CameraInit
  <2> QED BY <2>1, <2>2, <2>3 DEF CameraTypeOK
<1>4. (capture = "none") = ~started
  BY <1>2, Zenon
<1>5. capture \notin Looping /\ capture # "setup"
  BY <1>2 DEF Looping
<1> QED BY <1>1, <1>2, <1>3, <1>4, <1>5, Zenon DEF CameraInit, CameraInv

LEMMA CameraStep ==
  CameraInv /\ [CameraNext]_cameraVars => CameraInv' /\ [RequestsNext]_requestVars
<1> SUFFICES ASSUME CameraInv, [CameraNext]_cameraVars PROVE Keeps
  BY DEF Keeps
<1>1. CASE Start
  BY <1>1, StartStep
<1>2. CASE Stop \/ Stopped
  BY <1>2, StopStep
<1>3. CASE SetUp
  BY <1>3, CameraSetUpStep
<1>4. CASE LoopTop \/ ReceiveTimeout
  BY <1>4, TurnStep
<1>5. CASE RequeueReturned
  BY <1>5, RequeueReturnedStep
<1>6. CASE Receive
  BY <1>6, ReceiveStep
<1>7. CASE \E cookie \in Cookies : RequestCompletes(cookie)
  BY <1>7, RequestCompletesStep, Zenon
<1>8. CASE \E r \in references : GiveOn(r)
  BY <1>8, GiveOnStep, Zenon
<1>9. CASE UNCHANGED cameraVars
  <2>1. UNCHANGED <<requestVars, native, started, stopping, capture, completions, returns>>
    BY <1>9 DEF cameraVars, capturerVars, channelVars
  <2>2. Lent' = Lent /\ [RequestsNext]_requestVars
    BY <2>1, Stutters
  <2>3. UNCHANGED <<session, queued, references>>
    BY <2>1 DEF requestVars
  <2>4. CameraInv'
    BY <2>1, <2>2, <2>3 DEF CameraInv, CameraTypeOK
  <2> QED BY <2>2, <2>4 DEF Keeps
<1> QED
  BY <1>1, <1>2, <1>3, <1>4, <1>5, <1>6, <1>7, <1>8, <1>9, Zenon DEF CameraNext, CaptureNext

\* Each variable of the capturer keeps its type.
THEOREM CameraTypeCorrect == CameraSpec => []CameraTypeOK
<1>1. CameraInv => CameraTypeOK
  BY DEF CameraInv
<1> QED BY <1>1, CameraInitially, CameraStep, PTL DEF CameraSpec

\* A request is in one place at a time, whatever the camera, the holders of frames and
\* the application do, for any requests, holders and number of sessions.
THEOREM CameraRequestsGoRound == CameraSpec => []RequestsGoRound
<1>1. CameraInv => RequestsGoRound
  BY Zenon DEF CameraInv, RequestsGoRound, Round
<1> QED BY <1>1, CameraInitially, CameraStep, PTL DEF CameraSpec

\* The capturer implements the contract of those it lends frames to: no buffer is the
\* camera's to write to while somebody may read it.
THEOREM CameraImplementsRequests == CameraSpec => RequestsSpec
  BY CameraInitially, CameraStep, PTL DEF CameraSpec, RequestsSpec

-----------------------------------------------------------------------------
(* The V4L2 pipeline                                                       *)

CallRecords ==
  [at : {"idle", "build", "take", "leaveEncoder", "leaveConverter", "assign", "submit",
         "putBack"},
   kind : {"none", "init", "encode", "release"},
   frame : NativeFrames \cup {Plain},
   format : Formats \cup {Nothing},
   encoder : Encoders \cup {Nothing},
   converter : Converters \cup {Nothing},
   old : SUBSET Devices]
DeviceRecords ==
  [format : Formats \cup {Nothing}, jobs : Seq(Jobs),
   thread : {"none", "polls", "waits", "forwards", "reports"}]

RequestsTyped ==
  session \in 0..SessionsMax /\ queued \subseteq Cookies /\ references \subseteq References

\* The encoder that the call has built is there, and the one it replaces gone.
Replaced == call.at = "assign" \/ (call.at = "leaveConverter" /\ call.encoder # Nothing)

\* What a call is for and what it keeps, at each of its steps.
CallKeeps ==
  /\ call.at = "idle" => call = Idle
  /\ call.kind = "release" =>
       /\ call.at \in {"leaveConverter", "take", "leaveEncoder"}
       /\ call.encoder = Nothing /\ call.converter = Nothing /\ converter = Nothing
  /\ call.at # "idle" /\ call.kind # "release" =>
       call.kind \in {"init", "encode"} /\ call.format \in Formats
  /\ call.kind = "init" => call.format.mode = "mmap" /\ call.at \notin {"submit", "putBack"}
  /\ call.frame # Plain <=> call.kind = "encode" /\ call.format.mode = "native"
  /\ call.at = "putBack" => call.format.mode = "mmap"

\* The devices that a call has built and has to drop.
CallReplaces ==
  /\ call.at \in {"build", "submit"} => call.encoder = Nothing /\ call.converter = Nothing
  /\ call.at \notin {"leaveEncoder", "leaveConverter"} => call.old = {}
  /\ call.at \in {"take", "leaveEncoder", "assign", "putBack"} /\ call.kind # "release" =>
       call.encoder # Nothing
  /\ call.at = "leaveConverter" /\ call.encoder = Nothing => converter = Nothing
  /\ Replaced => converter = call.converter
  /\ Replaced \/ call.at \in {"leaveEncoder", "putBack"} => shared = Nothing
  /\ call.at \in {"idle", "build", "take"} /\ shared = Nothing => converter = Nothing
  /\ call.at = "submit" => shared # Nothing
  /\ call.at = "leaveEncoder" => call.old \subseteq Encoders /\ call.encoder \notin call.old
  /\ call.at = "leaveConverter" =>
       call.old \subseteq Converters /\ converter \notin call.old
  /\ call.at = "take" /\ call.encoder # Nothing => call.encoder # shared
  /\ call.at \in {"take", "leaveEncoder"} /\ call.converter # Nothing =>
       call.converter # converter
  /\ call.encoder = Nothing => call.converter = Nothing
  /\ call.encoder # Nothing => (call.converter # Nothing <=> call.format.mode = "native")

\* A device is open while somebody keeps it, and then its thread runs.
Used == ({shared, converter, call.encoder, call.converter} \cup call.old) \ {Nothing}
DevicesAreKept ==
  \A d \in Devices :
    /\ d \in Used <=> devices[d].thread # "none"
    /\ devices[d].thread = "none" => devices[d] = Closed
    /\ devices[d].thread # "none" => devices[d].format \in Formats
    /\ devices[d].thread \in {"waits", "forwards", "reports"} => devices[d].jobs # <<>>

\* A device has one job at most; a converter's is a native frame, an encoder's is not.
Busy(d) == devices[d].jobs # <<>>
JobOf(d) == devices[d].jobs[1]
JobsAreOfDevice ==
  \A d \in Devices : Busy(d) =>
    \E job \in Jobs :
      /\ devices[d].jobs = <<job>>
      /\ job.format = devices[d].format
      /\ job.frame # Plain <=> d \in Converters

\* The format of the call is that of what it builds and of what it uses.
InUse == IF call.at = "putBack" THEN call.encoder ELSE shared
CallHasFormat ==
  /\ call.encoder # Nothing => devices[call.encoder].format = call.format
  /\ call.converter # Nothing => devices[call.converter].format = call.format
  /\ call.at = "submit" =>
       /\ ~rebuild
       /\ devices[shared].format = call.format
  /\ call.at = "putBack" => ~rebuild
  /\ call.at \in {"build", "take", "leaveEncoder", "leaveConverter", "assign"}
       /\ call.kind # "release" =>
       /\ rebuild
       /\ call.format.mode = "mmap" => width = call.format.size
       /\ call.format.mode = "native" => nativeConfig = call.format.size

\* Unless another is to be built, the encoder is the one for the settings.
SettingsAreUsed ==
  ~rebuild /\ InUse # Nothing /\ call.kind # "release" =>
    /\ devices[InUse].format.mode = inputMode
    /\ inputMode = "mmap" => width = devices[InUse].format.size /\ converter = Nothing
    /\ inputMode = "native" =>
         /\ converter # Nothing /\ devices[converter].format = devices[InUse].format
         /\ nativeConfig = devices[InUse].format.size

\* What a converter gives on is for the encoder there is.
ConvertersArePaired ==
  shared # Nothing =>
    \A v \in Converters : Busy(v) => devices[v].format = devices[shared].format

\* A frame has one holder: a track, the call, or one conversion.
FrameOf(r) == [session |-> r.session, cookie |-> r.cookie]
FramesAreLentOnce ==
  /\ \A r \in references : r.session <= session
  /\ \A r, q \in references : FrameOf(r) = FrameOf(q) => r = q
  /\ queued \cap Lent = {}
CallHoldsFrame ==
  \A r \in References : r.holder = "encode" =>
    (r \in references <=> call.frame = FrameOf(r))
ConversionsHoldFrames ==
  /\ \A r \in References : r.holder = "convert" =>
       (r \in references <=> \E v \in Converters : Busy(v) /\ JobOf(v).frame = FrameOf(r))
  /\ \A v, w \in Converters :
       Busy(v) /\ Busy(w) /\ JobOf(v).frame = JobOf(w).frame => v = w

PipelineInv ==
  /\ V4l2TypeOK /\ RequestsTyped
  /\ CallKeeps /\ CallReplaces /\ DevicesAreKept /\ JobsAreOfDevice /\ CallHasFormat
  /\ SettingsAreUsed /\ ConvertersArePaired
  /\ FramesAreLentOnce /\ CallHoldsFrame /\ ConversionsHoldFrames

\* The names of devices, formats and frames are apart.
LEMMA Names ==
  /\ Nothing \notin Encoders /\ Nothing \notin Converters /\ Nothing \notin Sizes
  /\ Nothing \notin Formats /\ Nothing \notin NativeFrames
  /\ \A d \in Encoders : d \notin Converters
  /\ Encoders \subseteq Devices /\ Converters \subseteq Devices
  /\ \A d \in Devices : d \in Encoders \/ d \in Converters
  BY V4l2Assumption, Zenon DEF V4l2Assumption, Devices

\* A format is its mode and its size.
LEMMA FormatsAre ==
  /\ \A size \in Sizes :
       /\ Mmap(size) \in Formats /\ Mmap(size).mode = "mmap" /\ Mmap(size).size = size
       /\ Native(size) \in Formats /\ Native(size).mode = "native" /\ Native(size).size = size
  /\ \A f \in Formats : f.mode \in {"mmap", "native"} /\ f.size \in Sizes
  /\ \A f, g \in Formats : f.mode = g.mode /\ f.size = g.size => f = g
  BY DEF Formats, Mmap, Native

\* The type invariant, by the names of its record sets.
LEMMA TypesAre ==
  V4l2TypeOK <=>
    /\ call \in CallRecords
    /\ inputMode \in {"mmap", "native"}
    /\ nativeConfig \in Sizes \cup {Nothing} /\ width \in Sizes \cup {Nothing}
    /\ rebuild \in BOOLEAN
    /\ converter \in Converters \cup {Nothing} /\ lock \in {"free"} \cup Converters
    /\ shared \in Encoders \cup {Nothing} /\ callback \in BOOLEAN
    /\ devices \in [Devices -> DeviceRecords]
  BY DEF V4l2TypeOK, CallRecords, DeviceRecords

\* No call is under way.
LEMMA IdleIs ==
  /\ Idle \in CallRecords /\ Idle.at = "idle" /\ Idle.kind = "none" /\ Idle.frame = Plain
  /\ Idle.format = Nothing /\ Idle.encoder = Nothing /\ Idle.converter = Nothing
  /\ Idle.old = {}
  BY DEF Idle, CallRecords, Plain

\* What a device is when it is closed, and when it has just been opened.
LEMMA ClosedIs ==
  /\ Closed \in DeviceRecords /\ Closed.jobs = <<>> /\ Closed.thread = "none"
  /\ \A f \in Formats : /\ Opened(f) \in DeviceRecords /\ Opened(f).format = f
                        /\ Opened(f).jobs = <<>> /\ Opened(f).thread = "polls"
  BY DEF Closed, Opened, DeviceRecords

\* A reference is to a frame of the camera.
LEMMA FrameIs ==
  ASSUME NEW r \in References
  PROVE  /\ FrameOf(r) \in NativeFrames /\ FrameOf(r) # Plain
         /\ FrameOf(r).session = r.session /\ FrameOf(r).cookie = r.cookie
         /\ r.session \in Nat /\ r.cookie \in Cookies
         /\ r.holder \in {"track", "encode", "convert"}
  BY Names, V4l2Assumption, RequestsAssumption
     DEF FrameOf, NativeFrames, Plain, References, V4l2Assumption

\* The references that a holder has to a frame.
LEMMA HeldIs ==
  ASSUME NEW frame \in NativeFrames \cup {Plain}, NEW holder \in {"track", "encode", "convert"}
  PROVE  /\ Held(frame, holder) \subseteq References
         /\ \A r \in References :
              r \in Held(frame, holder) <=> FrameOf(r) = frame /\ r.holder = holder
         /\ frame # Plain => \E r \in Held(frame, holder) : TRUE
<1>1. CASE frame = Plain
  BY <1>1, FrameIs DEF Held
<1>2. CASE frame \in NativeFrames
  <2> DEFINE h == [session |-> frame.session, cookie |-> frame.cookie, holder |-> holder]
  <2>1. frame # Plain /\ Held(frame, holder) = {h}
    BY <1>2, Names DEF Held, Plain
  <2>2. h \in References /\ FrameOf(h) = frame /\ h.holder = holder
    BY <1>2, V4l2Assumption DEF FrameOf, NativeFrames, References, V4l2Assumption
  <2>3. ASSUME NEW r \in References, FrameOf(r) = frame, r.holder = holder
        PROVE  r = h
    BY <2>3 DEF FrameOf, References
  <2> QED
    BY <2>1, <2>2, <2>3
<1> QED
  BY <1>1, <1>2

\* Nothing is open and nothing is lent to begin with.
LEMMA PipelineStarts == PipelineInit => PipelineInv
<1> SUFFICES ASSUME PipelineInit PROVE PipelineInv
  OBVIOUS
<1> USE DEF PipelineInit, RequestsInit, V4l2Init
<1>1. V4l2TypeOK
  BY TypesAre, IdleIs, ClosedIs
<1>2. RequestsTyped
  BY RequestsAssumption DEF RequestsTyped
<1>3. CallKeeps /\ CallReplaces
  BY IdleIs DEF CallKeeps, CallReplaces, Replaced
<1>4. DevicesAreKept /\ JobsAreOfDevice
  BY IdleIs, ClosedIs DEF DevicesAreKept, JobsAreOfDevice, Used, Busy
<1>5. CallHasFormat /\ SettingsAreUsed /\ ConvertersArePaired
  BY IdleIs DEF CallHasFormat, SettingsAreUsed, ConvertersArePaired, InUse
<1>6. FramesAreLentOnce
  BY DEF FramesAreLentOnce
<1>7. CallHoldsFrame
  BY IdleIs, FrameIs DEF CallHoldsFrame
<1>8. ConversionsHoldFrames
  BY ClosedIs, Names DEF ConversionsHoldFrames, Busy
<1> QED
  BY <1>1, <1>2, <1>3, <1>4, <1>5, <1>6, <1>7, <1>8 DEF PipelineInv

-----------------------------------------------------------------------------

\* What is said of devices holds as long as none changes.
LEMMA DevicesStay ==
  ASSUME PipelineInv, UNCHANGED devices
  PROVE  /\ JobsAreOfDevice'
         /\ \A d : Busy(d)' = Busy(d) /\ JobOf(d)' = JobOf(d)
         /\ Used' = Used => DevicesAreKept'
         /\ UNCHANGED shared => ConvertersArePaired'
         /\ UNCHANGED references => ConversionsHoldFrames'
<1>1. \A d : Busy(d)' = Busy(d) /\ JobOf(d)' = JobOf(d)
  BY DEF Busy, JobOf
<1>2. JobsAreOfDevice'
  BY <1>1 DEF PipelineInv, JobsAreOfDevice
<1>3. Used' = Used => DevicesAreKept'
  BY DEF PipelineInv, DevicesAreKept
<1>4. UNCHANGED shared => ConvertersArePaired'
  BY <1>1 DEF PipelineInv, ConvertersArePaired
<1>5. UNCHANGED references => ConversionsHoldFrames'
  BY <1>1 DEF PipelineInv, ConversionsHoldFrames
<1> QED
  BY <1>1, <1>2, <1>3, <1>4, <1>5

\* What is said of references holds as long as none changes.
LEMMA RequestsStay ==
  ASSUME PipelineInv, UNCHANGED requestVars
  PROVE  /\ RequestsTyped' /\ FramesAreLentOnce' /\ Lent' = Lent
         /\ call'.frame = call.frame => CallHoldsFrame'
  BY DEF PipelineInv, requestVars, RequestsTyped, FramesAreLentOnce, CallHoldsFrame, Lent

\* init_encode
LEMMA InitEncodeKeeps == ASSUME PipelineInv, InitEncode PROVE PipelineInv'
<1>1. PICK size \in Sizes :
        /\ width' = size
        /\ call' = [Idle EXCEPT !.at = "leaveConverter", !.kind = "init",
                                !.format = Mmap(size), !.old = {converter} \ {Nothing}]
  BY DEF InitEncode
<1>2. /\ call = Idle /\ inputMode' = "mmap" /\ nativeConfig' = Nothing /\ rebuild' = TRUE
      /\ converter' = Nothing /\ UNCHANGED requestVars /\ UNCHANGED sharedVars
      /\ UNCHANGED devices /\ UNCHANGED <<lock, shared, callback>>
  BY DEF InitEncode, sharedVars
<1>3. converter \in Converters \cup {Nothing} /\ shared \in Encoders \cup {Nothing}
  BY DEF PipelineInv, V4l2TypeOK
<1>12. {converter} \ {Nothing} \in SUBSET Devices
  BY <1>3, Names
<1>4. /\ call' \in CallRecords /\ call'.at = "leaveConverter" /\ call'.kind = "init"
      /\ call'.format = Mmap(size) /\ call'.old = {converter} \ {Nothing}
      /\ call'.encoder = Nothing /\ call'.converter = Nothing /\ call'.frame = Plain
  BY <1>1, <1>12, IdleIs, FormatsAre DEF CallRecords
<1>5. V4l2TypeOK'
  BY <1>1, <1>2, <1>4 DEF PipelineInv, V4l2TypeOK, CallRecords
<1>6. CallKeeps'
  BY <1>2, <1>4, FormatsAre DEF CallKeeps
<1>7. CallReplaces'
  BY <1>2, <1>3, <1>4, Names DEF PipelineInv, CallReplaces, Replaced
<1>8. Used' = Used
  BY <1>2, <1>4, IdleIs DEF Used
<1>9. CallHasFormat'
  BY <1>1, <1>2, <1>4, FormatsAre DEF CallHasFormat
<1>10. SettingsAreUsed'
  BY <1>2 DEF SettingsAreUsed
<1>11. call'.frame = call.frame
  BY <1>2, <1>4, IdleIs
<1> QED
  BY <1>2, <1>5, <1>6, <1>7, <1>8, <1>9, <1>10, <1>11, DevicesStay, RequestsStay
     DEF PipelineInv, requestVars

\* release
LEMMA ReleaseKeeps == ASSUME PipelineInv, Release PROVE PipelineInv'
<1>1. /\ call = Idle /\ inputMode' = "mmap" /\ nativeConfig' = Nothing /\ rebuild' = FALSE
      /\ call' = [Idle EXCEPT !.at = "leaveConverter", !.kind = "release",
                              !.old = {converter} \ {Nothing}]
      /\ converter' = Nothing /\ UNCHANGED requestVars /\ UNCHANGED width
      /\ UNCHANGED devices /\ UNCHANGED <<lock, shared, callback>>
  BY DEF Release, sharedVars
<1>2. converter \in Converters \cup {Nothing} /\ shared \in Encoders \cup {Nothing}
  BY DEF PipelineInv, V4l2TypeOK
<1>3. /\ call' \in CallRecords /\ call'.at = "leaveConverter" /\ call'.kind = "release"
      /\ call'.old = {converter} \ {Nothing}
      /\ call'.encoder = Nothing /\ call'.converter = Nothing /\ call'.frame = Plain
  BY <1>1, <1>2, IdleIs, Names DEF CallRecords
<1>4. V4l2TypeOK'
  BY <1>1, <1>3 DEF PipelineInv, V4l2TypeOK, CallRecords
<1>5. CallKeeps'
  BY <1>1, <1>3 DEF CallKeeps
<1>6. CallReplaces'
  BY <1>1, <1>2, <1>3, Names DEF PipelineInv, CallReplaces, Replaced
<1>7. Used' = Used
  BY <1>1, <1>3, IdleIs DEF Used
<1>8. (CallHasFormat /\ SettingsAreUsed)'
  BY <1>1, <1>3 DEF CallHasFormat, SettingsAreUsed
<1>9. call'.frame = call.frame
  BY <1>1, <1>3, IdleIs
<1> QED
  BY <1>1, <1>4, <1>5, <1>6, <1>7, <1>8, <1>9, DevicesStay, RequestsStay
     DEF PipelineInv, requestVars

\* encode of a frame in memory
LEMMA EncodeMmapKeeps ==
  ASSUME PipelineInv, NEW size \in Sizes, EncodeMmap(size)
  PROVE  PipelineInv'
<1>1. /\ call = Idle
      /\ rebuild' = (rebuild \/ inputMode # "mmap" \/ width # size \/ shared = Nothing)
      /\ width' = size
      /\ call' = [Idle EXCEPT !.at = IF rebuild' THEN "build" ELSE "submit",
                              !.kind = "encode", !.format = Mmap(size)]
      /\ UNCHANGED requestVars /\ UNCHANGED devices
      /\ UNCHANGED <<inputMode, nativeConfig, converter, lock, shared, callback>>
  BY DEF EncodeMmap, sharedVars
<1>2. /\ converter \in Converters \cup {Nothing} /\ shared \in Encoders \cup {Nothing}
      /\ rebuild' \in BOOLEAN /\ devices \in [Devices -> DeviceRecords]
  BY <1>1, TypesAre DEF PipelineInv
<1>3. /\ call' \in CallRecords /\ call'.at = IF rebuild' THEN "build" ELSE "submit"
      /\ call'.kind = "encode" /\ call'.format = Mmap(size) /\ call'.old = {}
      /\ call'.encoder = Nothing /\ call'.converter = Nothing /\ call'.frame = Plain
  BY <1>1, IdleIs, FormatsAre DEF CallRecords
<1>4. V4l2TypeOK'
  BY <1>1, <1>2, <1>3 DEF PipelineInv, V4l2TypeOK, CallRecords
<1>5. CallKeeps'
  BY <1>1, <1>3, FormatsAre DEF CallKeeps
<1>6. CallReplaces'
  <2>1. ~rebuild' => shared # Nothing
    BY <1>1
  <2>3. call'.at \in {"build", "submit"} /\ (call'.at = "submit" => shared # Nothing)
    BY <1>3, <2>1
  <2>2. shared = Nothing => converter = Nothing
    BY <1>1, IdleIs DEF PipelineInv, CallReplaces
  <2> QED
    BY <1>1, <1>3, <2>2, <2>3 DEF CallReplaces, Replaced
<1>7. Used' = Used
  BY <1>1, <1>3, IdleIs DEF Used
<1>8. SettingsAreUsed'
  BY <1>1, <1>3, IdleIs DEF PipelineInv, SettingsAreUsed, InUse
<1>9. CallHasFormat'
  <2>1. CASE rebuild'
    BY <1>1, <1>3, <2>1, FormatsAre DEF CallHasFormat
  <2>2. CASE ~rebuild'
    <3>1. shared # Nothing /\ inputMode = "mmap" /\ width = size
      BY <1>1, <2>2
    <3>2. devices[shared].format.mode = "mmap" /\ devices[shared].format.size = size
      BY <1>1, <2>2, <3>1, IdleIs DEF PipelineInv, SettingsAreUsed, InUse
    <3>3. devices[shared].format \in Formats
      BY <1>2, <3>1, Names DEF PipelineInv, DevicesAreKept, Used
    <3>4. devices[shared].format = Mmap(size)
      BY <3>2, <3>3, FormatsAre
    <3>5. /\ call'.at = "submit" /\ call'.encoder = Nothing /\ call'.converter = Nothing
          /\ devices'[shared'].format = call'.format
      BY <1>1, <1>3, <2>2, <3>4
    <3> QED
      BY <2>2, <3>5 DEF CallHasFormat
  <2> QED
    BY <2>1, <2>2
<1>10. call'.frame = call.frame
  BY <1>1, <1>3, IdleIs
<1> QED
  BY <1>1, <1>4, <1>5, <1>6, <1>7, <1>8, <1>9, <1>10, DevicesStay, RequestsStay
     DEF PipelineInv, requestVars
-----------------------------------------------------------------------------

\* A reference that goes leaves the others lent once.
LEMMA ReferencesShrink ==
  ASSUME PipelineInv, references' \subseteq references, UNCHANGED <<session, queued>>
  PROVE  RequestsTyped' /\ FramesAreLentOnce'
<1>1. Lent' \subseteq Lent
  BY DEF Lent
<1> QED
  BY <1>1 DEF PipelineInv, RequestsTyped, FramesAreLentOnce

\* A reference that goes from one holder to another stays one of the same frame.
LEMMA FrameGoesOn ==
  ASSUME PipelineInv, NEW r \in references, NEW h \in References, FrameOf(h) = FrameOf(r),
         references' = (references \ {r}) \cup {h}, UNCHANGED <<session, queued>>
  PROVE  RequestsTyped' /\ FramesAreLentOnce'
<1>1. /\ r \in References /\ h.session = r.session /\ h.cookie = r.cookie
      /\ references \subseteq References
  BY FrameIs DEF PipelineInv, RequestsTyped
<1>2. Lent' \subseteq Lent
  BY <1>1 DEF Lent
<1>3. \A q, p \in references' : FrameOf(q) = FrameOf(p) => q = p
  BY DEF PipelineInv, FramesAreLentOnce
<1> QED
  BY <1>1, <1>2, <1>3 DEF PipelineInv, RequestsTyped, FramesAreLentOnce

\* A sink lets go of a frame.
LEMMA DropFrameKeeps == ASSUME PipelineInv, DropFrame PROVE PipelineInv'
<1>1. PICK r \in references : /\ r.holder = "track" /\ references' = references \ {r}
                              /\ UNCHANGED <<session, queued>>
  BY DEF DropFrame, Move
<1>2. /\ UNCHANGED v4l2Vars /\ UNCHANGED devices
      /\ UNCHANGED <<call, inputMode, nativeConfig, width, rebuild, converter, lock, shared,
                     callback>>
  BY DEF DropFrame, v4l2Vars, configVars, sharedVars
<1>3. (CallKeeps /\ CallReplaces /\ CallHasFormat /\ SettingsAreUsed)'
  BY <1>2 DEF PipelineInv, CallKeeps, CallReplaces, Replaced, CallHasFormat, SettingsAreUsed,
     InUse
<1>4. V4l2TypeOK'
  BY <1>2 DEF PipelineInv, V4l2TypeOK
<1>5. Used' = Used
  BY <1>2 DEF Used
<1>6. \A q : q.holder # "track" => (q \in references' <=> q \in references)
  BY <1>1
<1>7. CallHoldsFrame'
  BY <1>2, <1>6 DEF PipelineInv, CallHoldsFrame
<1>8. ConversionsHoldFrames'
  BY <1>2, <1>6, DevicesStay DEF PipelineInv, ConversionsHoldFrames
<1> QED
  BY <1>1, <1>2, <1>3, <1>4, <1>5, <1>7, <1>8, DevicesStay, ReferencesShrink DEF PipelineInv

\* encode of a native frame
LEMMA EncodeNativeKeeps ==
  ASSUME PipelineInv, NEW size \in Sizes, EncodeNative(size)
  PROVE  PipelineInv'
<1>1. PICK r \in references :
        LET frame == FrameOf(r)
        IN  /\ r.holder = "track"
            /\ Move({r}, Held(frame, "encode"))
            /\ rebuild' = \/ rebuild
                          \/ inputMode # "native" \/ nativeConfig # size
                          \/ shared = Nothing \/ converter = Nothing
            /\ call' = [Idle EXCEPT !.at = IF rebuild' THEN "build" ELSE "submit",
                          !.kind = "encode", !.frame = frame, !.format = Native(size)]
  BY DEF EncodeNative, FrameOf
<1>2. /\ call = Idle /\ nativeConfig' = size /\ UNCHANGED devices
      /\ UNCHANGED <<inputMode, width, converter, lock, shared, callback>>
  BY DEF EncodeNative, sharedVars
<1>3. /\ converter \in Converters \cup {Nothing} /\ shared \in Encoders \cup {Nothing}
      /\ rebuild' \in BOOLEAN /\ devices \in [Devices -> DeviceRecords]
  BY <1>1, TypesAre DEF PipelineInv
<1>4. r \in References /\ FrameOf(r) \in NativeFrames /\ FrameOf(r) # Plain
  BY FrameIs DEF PipelineInv, RequestsTyped
<1>5. /\ call' \in CallRecords /\ call'.at = IF rebuild' THEN "build" ELSE "submit"
      /\ call'.kind = "encode" /\ call'.format = Native(size) /\ call'.old = {}
      /\ call'.encoder = Nothing /\ call'.converter = Nothing /\ call'.frame = FrameOf(r)
  BY <1>1, <1>4, IdleIs, FormatsAre DEF CallRecords
<1>6. V4l2TypeOK'
  BY <1>2, <1>3, <1>5 DEF PipelineInv, V4l2TypeOK, CallRecords
<1>7. CallKeeps'
  BY <1>4, <1>5, FormatsAre DEF CallKeeps
<1>8. CallReplaces'
  <2>1. call'.at \in {"build", "submit"} /\ (call'.at = "submit" => shared # Nothing)
    BY <1>1, <1>5
  <2>2. shared = Nothing => converter = Nothing
    BY <1>2, IdleIs DEF PipelineInv, CallReplaces
  <2> QED
    BY <1>2, <1>5, <2>1, <2>2 DEF CallReplaces, Replaced
<1>9. Used' = Used
  BY <1>2, <1>5, IdleIs DEF Used
<1>10. SettingsAreUsed'
  <2>1. ~rebuild' => /\ ~rebuild /\ inputMode = "native" /\ nativeConfig' = nativeConfig
    BY <1>1, <1>2
  <2>2. InUse' = InUse /\ call.kind # "release"
    BY <1>2, <1>5, IdleIs DEF InUse
  <2> QED
    BY <1>2, <2>1, <2>2 DEF PipelineInv, SettingsAreUsed
<1>11. CallHasFormat'
  <2>1. CASE rebuild'
    BY <1>2, <1>5, <2>1, FormatsAre DEF CallHasFormat
  <2>2. CASE ~rebuild'
    <3>1. shared # Nothing /\ inputMode = "native" /\ nativeConfig = size /\ ~rebuild
      BY <1>1, <2>2
    <3>2. devices[shared].format.mode = "native" /\ devices[shared].format.size = size
      BY <1>2, <2>2, <3>1, IdleIs DEF PipelineInv, SettingsAreUsed, InUse
    <3>3. devices[shared].format \in Formats
      BY <1>3, <3>1, Names DEF PipelineInv, DevicesAreKept, Used
    <3>4. devices[shared].format = Native(size)
      BY <3>2, <3>3, FormatsAre
    <3>5. /\ call'.at = "submit" /\ call'.encoder = Nothing /\ call'.converter = Nothing
          /\ devices'[shared'].format = call'.format
      BY <1>2, <1>5, <2>2, <3>4
    <3> QED
      BY <2>2, <3>5 DEF CallHasFormat
  <2> QED
    BY <2>1, <2>2
<1>12. PICK h \in References : Held(FrameOf(r), "encode") = {h} /\ FrameOf(h) = FrameOf(r)
                              /\ h.holder = "encode"
  <2>1. \E h \in Held(FrameOf(r), "encode") : TRUE
    BY <1>4, HeldIs
  <2>2. PICK h : h \in Held(FrameOf(r), "encode")
    BY <2>1
  <2>3. Held(FrameOf(r), "encode") = {h}
    BY <1>4, <2>2 DEF Held
  <2> QED
    BY <1>4, <2>2, <2>3, HeldIs
<1>13. references' = (references \ {r}) \cup {h} /\ UNCHANGED <<session, queued>>
  BY <1>1, <1>12 DEF Move
<1>14. RequestsTyped' /\ FramesAreLentOnce'
  BY <1>12, <1>13, FrameGoesOn
<1>15. CallHoldsFrame'
  <2> SUFFICES ASSUME NEW q \in References, q.holder = "encode"
               PROVE  q \in references' <=> call'.frame = FrameOf(q)
    BY DEF CallHoldsFrame
  <2>1. q \notin references
    BY <1>2, IdleIs, FrameIs DEF PipelineInv, CallHoldsFrame
  <2>2. q = h <=> FrameOf(q) = FrameOf(r)
    BY <1>4, <1>12, HeldIs
  <2> QED
    BY <1>5, <1>13, <2>1, <2>2
<1>16. ConversionsHoldFrames'
  <2>1. \A q : q.holder = "convert" => (q \in references' <=> q \in references)
    BY <1>1, <1>12, <1>13
  <2> QED
    BY <1>2, <2>1, DevicesStay DEF PipelineInv, ConversionsHoldFrames
<1> QED
  BY <1>2, <1>6, <1>7, <1>8, <1>9, <1>10, <1>11, <1>14, <1>15, <1>16, DevicesStay
     DEF PipelineInv

\* register_encode_complete_callback
LEMMA RegisterCallbackKeeps == ASSUME PipelineInv, RegisterCallback PROVE PipelineInv'
<1>1. /\ UNCHANGED requestVars /\ UNCHANGED devices /\ callback' \in BOOLEAN
      /\ UNCHANGED <<call, inputMode, nativeConfig, width, rebuild, converter, lock, shared>>
  BY DEF RegisterCallback, configVars
<1>2. (CallKeeps /\ CallReplaces /\ CallHasFormat /\ SettingsAreUsed)'
  BY <1>1 DEF PipelineInv, CallKeeps, CallReplaces, Replaced, CallHasFormat, SettingsAreUsed,
     InUse
<1>3. V4l2TypeOK' /\ Used' = Used
  BY <1>1 DEF PipelineInv, V4l2TypeOK, Used
<1> QED
  BY <1>1, <1>2, <1>3, DevicesStay, RequestsStay DEF PipelineInv, requestVars

\* set_rates
LEMMA SetRatesKeeps == ASSUME PipelineInv, SetRates PROVE PipelineInv'
<1>1. /\ UNCHANGED requestVars /\ UNCHANGED devices /\ call = Idle
      /\ rebuild' = TRUE \/ rebuild' = rebuild
      /\ UNCHANGED <<call, inputMode, nativeConfig, width, converter, lock, shared, callback>>
  BY DEF SetRates, sharedVars
<1>2. (CallKeeps /\ CallReplaces)'
  BY <1>1 DEF PipelineInv, CallKeeps, CallReplaces, Replaced
<1>3. (CallHasFormat /\ SettingsAreUsed)'
  BY <1>1, IdleIs DEF PipelineInv, CallHasFormat, SettingsAreUsed, InUse
<1>4. rebuild' \in BOOLEAN /\ Used' = Used
  BY <1>1 DEF PipelineInv, V4l2TypeOK, Used
<1>5. V4l2TypeOK'
  BY <1>1, <1>4 DEF PipelineInv, V4l2TypeOK
<1> QED
  BY <1>1, <1>2, <1>3, <1>4, <1>5, DevicesStay, RequestsStay DEF PipelineInv, requestVars

\* A call that ends lets go of its frame.
LEMMA EndCallKeeps ==
  ASSUME PipelineInv, EndCall, call.at \in {"build", "submit"},
         UNCHANGED <<configVars, converter, sharedVars, devices>>
  PROVE  PipelineInv'
<1>1. /\ call' = Idle /\ references' = references \ Held(call.frame, "encode")
      /\ UNCHANGED <<session, queued>> /\ UNCHANGED devices
      /\ UNCHANGED <<inputMode, nativeConfig, width, rebuild, converter, lock, shared, callback>>
  BY DEF EndCall, Move, configVars, sharedVars
<1>2. call \in CallRecords
  BY TypesAre DEF PipelineInv
<1>3. V4l2TypeOK'
  BY <1>1, IdleIs DEF PipelineInv, V4l2TypeOK, CallRecords
<1>4. CallKeeps'
  BY <1>1, IdleIs DEF CallKeeps
<1>5. CallReplaces'
  BY <1>1, IdleIs DEF PipelineInv, CallReplaces, Replaced
<1>6. Used' = Used
  BY <1>1, IdleIs DEF PipelineInv, CallReplaces, Used
<1>7. CallHasFormat'
  BY <1>1, IdleIs DEF CallHasFormat
<1>8. SettingsAreUsed'
  <2>1. call.kind # "release" /\ InUse' = InUse
    BY <1>1, IdleIs DEF PipelineInv, CallKeeps, InUse
  <2> QED
    BY <1>1, <2>1 DEF PipelineInv, SettingsAreUsed
<1>9. call.frame \in NativeFrames \cup {Plain}
  BY <1>2 DEF CallRecords
<1>10. CallHoldsFrame'
  <2> SUFFICES ASSUME NEW q \in References, q.holder = "encode"
               PROVE  q \in references' <=> call'.frame = FrameOf(q)
    BY DEF CallHoldsFrame
  <2>1. q \in references => q \in Held(call.frame, "encode")
    BY <1>9, HeldIs DEF PipelineInv, CallHoldsFrame
  <2> QED
    BY <1>1, <2>1, IdleIs, FrameIs
<1>11. ConversionsHoldFrames'
  <2>1. \A q \in References : q.holder = "convert" => (q \in references' <=> q \in references)
    BY <1>1, <1>9, HeldIs
  <2> QED
    BY <1>1, <2>1, DevicesStay DEF PipelineInv, ConversionsHoldFrames
<1> QED
  BY <1>1, <1>3, <1>4, <1>5, <1>6, <1>7, <1>8, <1>10, <1>11, DevicesStay, ReferencesShrink
     DEF PipelineInv
-----------------------------------------------------------------------------

\* What is used are devices.
LEMMA UsedAre ==
  ASSUME PipelineInv
  PROVE  /\ shared \in Encoders \cup {Nothing} /\ converter \in Converters \cup {Nothing}
         /\ call.encoder \in Encoders \cup {Nothing}
         /\ call.converter \in Converters \cup {Nothing}
         /\ call.old \subseteq Devices /\ Used \subseteq Devices
         /\ call \in CallRecords /\ devices \in [Devices -> DeviceRecords]
         /\ \A d \in Devices : d \notin Used => devices[d] = Closed
         /\ \A d \in Devices : Busy(d) => d \in Used
<1>1. call \in CallRecords /\ devices \in [Devices -> DeviceRecords]
  BY TypesAre DEF PipelineInv
<1>2. /\ shared \in Encoders \cup {Nothing} /\ converter \in Converters \cup {Nothing}
      /\ call.encoder \in Encoders \cup {Nothing}
      /\ call.converter \in Converters \cup {Nothing}
      /\ call.old \subseteq Devices
  BY <1>1, TypesAre DEF PipelineInv, CallRecords
<1>3. Used \subseteq Devices
  BY <1>2, Names DEF Used
<1>4. /\ \A d \in Devices : d \notin Used => devices[d] = Closed
      /\ \A d \in Devices : Busy(d) => d \in Used
  BY ClosedIs DEF PipelineInv, DevicesAreKept, Busy
<1> QED
  BY <1>1, <1>2, <1>3, <1>4

\* The devices that a call needs are opened, or the call ends.
LEMMA BuildKeeps == ASSUME PipelineInv, Build PROVE PipelineInv'
<1>1. /\ call.at = "build" /\ UNCHANGED <<configVars, converter, sharedVars>>
      /\ UNCHANGED <<inputMode, nativeConfig, width, rebuild, converter, lock, shared, callback>>
  BY DEF Build, configVars, sharedVars
<1>2. CASE EndCall /\ UNCHANGED devices
  BY <1>1, <1>2, EndCallKeeps
<1>3. CASE ~(EndCall /\ UNCHANGED devices)
  <2> DEFINE e == Free(Encoders)
             v == IF call.format.mode = "native" THEN Free(Converters) ELSE Nothing
  <2>1. /\ devices' = [d \in Devices |->
             IF d \in {e, v} THEN Opened(call.format) ELSE devices[d]]
        /\ call' = [call EXCEPT !.at = "take", !.encoder = e, !.converter = v]
        /\ UNCHANGED requestVars
    BY <1>3 DEF Build
  <2>2. /\ Used = {shared, converter} \ {Nothing} /\ call.encoder = Nothing
        /\ call.converter = Nothing /\ call.old = {} /\ call.kind # "release"
        /\ call.format \in Formats /\ (shared = Nothing => converter = Nothing)
    BY <1>1 DEF PipelineInv, CallReplaces, CallKeeps, Used
  <2>3. \E d \in Encoders : devices[d] = Closed
    <3>1. PICK d \in Encoders : d # shared
      BY UsedAre, V4l2Assumption DEF V4l2Assumption
    <3>2. d \notin Used /\ d \in Devices
      BY <2>2, <3>1, UsedAre, Names
    <3> QED
      BY <3>2, UsedAre
  <2>4. \E d \in Converters : devices[d] = Closed
    <3>1. PICK d \in Converters : d # converter
      BY UsedAre, V4l2Assumption DEF V4l2Assumption
    <3>2. d \notin Used /\ d \in Devices
      BY <2>2, <3>1, UsedAre, Names
    <3> QED
      BY <3>2, UsedAre
  <2>5. e \in Encoders /\ devices[e] = Closed
    BY <2>3 DEF Free
  <2>6. /\ v \in Converters \cup {Nothing} /\ (v # Nothing => devices[v] = Closed)
        /\ (v # Nothing <=> call.format.mode = "native")
    BY <2>4, Names DEF Free
  <2> HIDE DEF e, v
  <2>7. /\ e \in Devices /\ e \notin Used /\ (v # Nothing => v \in Devices /\ v \notin Used)
        /\ e # Nothing /\ e # shared /\ v # e /\ (v # Nothing => v # converter)
    BY <2>2, <2>5, <2>6, Names, ClosedIs, UsedAre DEF PipelineInv, DevicesAreKept
  <2>8. /\ call' \in CallRecords /\ call'.at = "take" /\ call'.encoder = e
        /\ call'.converter = v /\ call'.kind = call.kind /\ call'.format = call.format
        /\ call'.frame = call.frame /\ call'.old = {}
    BY <2>1, <2>2, <2>5, <2>6, UsedAre DEF CallRecords
  <2>9. /\ \A d \in Devices : d \in {e, v} => devices'[d] = Opened(call.format)
        /\ \A d \in Devices : d \notin {e, v} => devices'[d] = devices[d]
    BY <2>1
  <2>10. devices' \in [Devices -> DeviceRecords]
    BY <2>1, <2>2, ClosedIs, UsedAre
  <2>11. \A d \in Devices : devices'[d].jobs = devices[d].jobs
    BY <2>2, <2>5, <2>6, <2>9, ClosedIs, Names
  <2>12. \A d \in Devices : Busy(d)' = Busy(d) /\ JobOf(d)' = JobOf(d)
    BY <2>11 DEF Busy, JobOf
  <2>13. \A d \in Devices : Busy(d) => d \notin {e, v}
    BY <2>7, UsedAre, Names
  <2>14. V4l2TypeOK'
    BY <1>1, <2>8, <2>10 DEF PipelineInv, V4l2TypeOK, CallRecords, DeviceRecords
  <2>15. CallKeeps'
    BY <1>1, <2>2, <2>8 DEF PipelineInv, CallKeeps
  <2>16. CallReplaces'
    BY <1>1, <2>2, <2>6, <2>7, <2>8 DEF CallReplaces, Replaced
  <2>17. Used' = Used \cup ({e, v} \ {Nothing})
    BY <1>1, <2>2, <2>8 DEF Used
  <2>24. v \in Devices \/ v = Nothing
    BY <2>7
  <2>18. DevicesAreKept'
    <3> SUFFICES ASSUME NEW d \in Devices
                 PROVE  /\ d \in Used' <=> devices'[d].thread # "none"
                        /\ devices'[d].thread = "none" => devices'[d] = Closed
                        /\ devices'[d].thread # "none" => devices'[d].format \in Formats
                        /\ devices'[d].thread \in {"waits", "forwards", "reports"} =>
                             devices'[d].jobs # <<>>
      BY DEF DevicesAreKept
    <3>1. CASE d \in {e, v}
      <4>1. devices'[d] = Opened(call.format) /\ d # Nothing
        BY <2>9, <3>1, Names
      <4>2. d \in Used'
        BY <2>17, <3>1, <4>1
      <4>3. /\ devices'[d].thread = "polls" /\ devices'[d].format \in Formats
        BY <2>2, <4>1, ClosedIs
      <4> QED
        BY <4>2, <4>3
    <3>2. CASE d \notin {e, v}
      BY <2>9, <2>17, <3>2 DEF PipelineInv, DevicesAreKept
    <3> QED
      BY <3>1, <3>2
  <2>19. JobsAreOfDevice'
    BY <2>9, <2>11, <2>12, <2>13 DEF PipelineInv, JobsAreOfDevice
  <2>20. CallHasFormat'
    <3>1. devices'[e].format = call.format /\ (v # Nothing => devices'[v].format = call.format)
      BY <2>2, <2>7, <2>9, ClosedIs
    <3> QED
      BY <1>1, <2>2, <2>8, <3>1 DEF PipelineInv, CallHasFormat
  <2>21. SettingsAreUsed'
    <3>1. rebuild'
      BY <1>1, <2>2 DEF PipelineInv, CallHasFormat
    <3> QED
      BY <3>1 DEF SettingsAreUsed
  <2>22. ConvertersArePaired'
    <3>1. shared # Nothing => devices'[shared] = devices[shared]
      BY <2>2, <2>6, <2>7, <2>9, UsedAre, Names
    <3>2. \A d \in Converters : Busy(d) => devices'[d] = devices[d]
      BY <2>9, <2>13, Names
    <3> QED
      BY <1>1, <2>12, <3>1, <3>2, Names DEF PipelineInv, ConvertersArePaired
  <2>23. ConversionsHoldFrames'
    BY <2>1, <2>12, Names DEF PipelineInv, ConversionsHoldFrames, requestVars
  <2> QED
    BY <2>1, <2>8, <2>14, <2>15, <2>16, <2>18, <2>19, <2>20, <2>21, <2>22, <2>23, RequestsStay
       DEF PipelineInv, requestVars
<1> QED
  BY <1>2, <1>3

\* The encoder that is shared is taken, to be dropped.
LEMMA TakeEncoderKeeps == ASSUME PipelineInv, TakeEncoder PROVE PipelineInv'
<1>1. /\ call.at = "take" /\ shared' = Nothing
      /\ call' = [call EXCEPT !.at = "leaveEncoder", !.old = {shared} \ {Nothing}]
      /\ UNCHANGED requestVars /\ UNCHANGED devices
      /\ UNCHANGED <<inputMode, nativeConfig, width, rebuild, converter, lock>>
  BY DEF TakeEncoder, configVars
<1>2. callback' \in BOOLEAN
  BY DEF TakeEncoder
<1>3. {shared} \ {Nothing} \in SUBSET Devices
  BY UsedAre, Names
<1>4. /\ call' \in CallRecords /\ call'.at = "leaveEncoder" /\ call'.old = {shared} \ {Nothing}
      /\ call'.encoder = call.encoder /\ call'.converter = call.converter
      /\ call'.kind = call.kind /\ call'.format = call.format /\ call'.frame = call.frame
  BY <1>1, <1>3, UsedAre DEF CallRecords
<1>5. V4l2TypeOK'
  BY <1>1, <1>2, <1>4 DEF PipelineInv, V4l2TypeOK, CallRecords
<1>6. CallKeeps'
  BY <1>1, <1>4 DEF PipelineInv, CallKeeps
<1>7. CallReplaces'
  BY <1>1, <1>4, UsedAre, Names DEF PipelineInv, CallReplaces, Replaced
<1>8. Used' = Used
  BY <1>1, <1>4 DEF PipelineInv, CallReplaces, Used
<1>9. CallHasFormat'
  BY <1>1, <1>4 DEF PipelineInv, CallHasFormat
<1>10. (SettingsAreUsed /\ ConvertersArePaired)'
  BY <1>1, <1>4 DEF SettingsAreUsed, InUse, ConvertersArePaired
<1> QED
  BY <1>1, <1>4, <1>5, <1>6, <1>7, <1>8, <1>9, <1>10, DevicesStay, RequestsStay
     DEF PipelineInv, requestVars
-----------------------------------------------------------------------------

\* A device that is busy has one job, of its format, and a converter's has a frame.
LEMMA JobIs ==
  ASSUME PipelineInv, NEW d \in Devices, Busy(d)
  PROVE  /\ devices[d].jobs = <<JobOf(d)>> /\ JobOf(d) \in Jobs
         /\ JobOf(d).format = devices[d].format
         /\ JobOf(d).frame \in NativeFrames \cup {Plain}
         /\ JobOf(d).frame # Plain <=> d \in Converters
         /\ DOMAIN devices[d].jobs = {1} /\ Head(devices[d].jobs) = JobOf(d)
         /\ Tail(devices[d].jobs) = <<>> /\ KeptBy(d) = Held(JobOf(d).frame, "convert")
<1>1. PICK job \in Jobs : /\ devices[d].jobs = <<job>> /\ job.format = devices[d].format
                          /\ job.frame # Plain <=> d \in Converters
  BY DEF PipelineInv, JobsAreOfDevice
<1>2. JobOf(d) = job
  BY <1>1 DEF JobOf
<1>3. /\ DOMAIN devices[d].jobs = {1}
      /\ Head(devices[d].jobs) = job
      /\ Tail(devices[d].jobs) = <<>>
  BY <1>1
<1>4. KeptBy(d) = Held(job.frame, "convert")
  BY <1>1, <1>3 DEF KeptBy
<1>5. job.frame \in NativeFrames \cup {Plain}
  BY DEF Jobs
<1> QED
  BY <1>1, <1>2, <1>3, <1>4, <1>5

\* What is true of the devices and frames when devices are dropped.
LEMMA DropIs ==
  ASSUME PipelineInv, NEW ds \in SUBSET Devices, Drop(ds)
  PROVE  /\ devices' \in [Devices -> DeviceRecords]
         /\ \A d \in Devices : devices'[d] = IF d \in ds THEN Closed ELSE devices[d]
         /\ \A d \in Devices : Busy(d)' => Busy(d) /\ d \notin ds
         /\ UNCHANGED <<session, queued>>
         /\ RequestsTyped' /\ FramesAreLentOnce' /\ JobsAreOfDevice' /\ ConversionsHoldFrames'
         /\ call'.frame = call.frame => CallHoldsFrame'
<1> DEFINE K == UNION {KeptBy(d) : d \in ds}
<1>1. /\ devices' = [d \in Devices |-> IF d \in ds THEN Closed ELSE devices[d]]
      /\ references' = references \ K /\ UNCHANGED <<session, queued>>
  BY DEF Drop, Move
<1>2. devices' \in [Devices -> DeviceRecords]
  BY <1>1, ClosedIs, UsedAre
<1>3. \A d \in Devices : devices'[d] = IF d \in ds THEN Closed ELSE devices[d]
  BY <1>1
<1>4. \A d \in Devices : /\ Busy(d)' <=> Busy(d) /\ d \notin ds
                         /\ Busy(d)' => JobOf(d)' = JobOf(d)
  BY <1>3, ClosedIs DEF Busy, JobOf
<1>5. RequestsTyped' /\ FramesAreLentOnce'
  BY <1>1, ReferencesShrink
<1>6. JobsAreOfDevice'
  BY <1>3, <1>4 DEF PipelineInv, JobsAreOfDevice
<1>7. ASSUME NEW r \in References
      PROVE  r \in K <=> /\ r.holder = "convert"
                         /\ \E d \in ds : Busy(d) /\ JobOf(d).frame = FrameOf(r)
  <2>1. ASSUME NEW d \in ds
        PROVE  r \in KeptBy(d) <=>
                 r.holder = "convert" /\ Busy(d) /\ JobOf(d).frame = FrameOf(r)
    <3>1. CASE Busy(d)
      BY <3>1, JobIs, HeldIs
    <3>2. CASE ~Busy(d)
      BY <3>2 DEF Busy, KeptBy
    <3> QED
      BY <3>1, <3>2
  <2> QED
    BY <2>1
<1> HIDE DEF K
<1>9. call'.frame = call.frame => CallHoldsFrame'
  BY <1>1, <1>7 DEF PipelineInv, CallHoldsFrame
<1>10. ConversionsHoldFrames'
  <2>1. ASSUME NEW r \in References, r.holder = "convert"
        PROVE  r \in references' <=>
                 \E v \in Converters : Busy(v)' /\ JobOf(v)' = JobOf(v) /\ JobOf(v).frame = FrameOf(r)
    <3>1. r \in references <=> \E v \in Converters : Busy(v) /\ JobOf(v).frame = FrameOf(r)
      BY <2>1 DEF PipelineInv, ConversionsHoldFrames
    <3>2. \A d \in ds : Busy(d) /\ JobOf(d).frame = FrameOf(r) => d \in Converters
      BY JobIs, FrameIs
    <3>3. \A v, w \in Converters :
            Busy(v) /\ Busy(w) /\ JobOf(v).frame = JobOf(w).frame => v = w
      BY DEF PipelineInv, ConversionsHoldFrames
    <3>4. \A v \in Converters : Busy(v)' <=> Busy(v) /\ v \notin ds
      BY <1>4, Names
    <3> QED
      BY <1>1, <1>4, <1>7, <2>1, <3>1, <3>2, <3>3, <3>4, Names
  <2>2. \A v, w \in Converters :
          Busy(v)' /\ Busy(w)' /\ JobOf(v)'.frame = JobOf(w)'.frame => v = w
    BY <1>4, Names DEF PipelineInv, ConversionsHoldFrames
  <2>3. \A v \in Converters : Busy(v)' => JobOf(v)' = JobOf(v)
    BY <1>4, Names
  <2> QED
    BY <2>1, <2>2, <2>3 DEF ConversionsHoldFrames
<1> QED
  BY <1>1, <1>2, <1>3, <1>4, <1>5, <1>6, <1>9, <1>10

\* Devices that are used no more and are dropped.
LEMMA DropKeepsDevices ==
  ASSUME PipelineInv, NEW ds \in SUBSET Devices, Drop(ds), Used' = Used \ ds
  PROVE  DevicesAreKept'
<1>1. \A d \in Devices : devices'[d] = IF d \in ds THEN Closed ELSE devices[d]
  BY DropIs
<1> SUFFICES ASSUME NEW d \in Devices
             PROVE  /\ d \in Used' <=> devices'[d].thread # "none"
                    /\ devices'[d].thread = "none" => devices'[d] = Closed
                    /\ devices'[d].thread # "none" => devices'[d].format \in Formats
                    /\ devices'[d].thread \in {"waits", "forwards", "reports"} =>
                         devices'[d].jobs # <<>>
  BY DEF DevicesAreKept
<1>2. CASE d \in ds
  BY <1>1, <1>2, ClosedIs
<1>3. CASE d \notin ds
  BY <1>1, <1>3 DEF PipelineInv, DevicesAreKept
<1> QED
  BY <1>2, <1>3

\* The encoder that was taken is dropped.
LEMMA DropEncoderKeeps == ASSUME PipelineInv, DropEncoder PROVE PipelineInv'
<1>1. /\ call.at = "leaveEncoder" /\ Drop(call.old) /\ shared = Nothing
      /\ call.old \subseteq Encoders /\ call.old \in SUBSET Devices /\ call.encoder \notin call.old
      /\ UNCHANGED <<inputMode, nativeConfig, width, rebuild, lock, shared, callback>>
  BY UsedAre DEF DropEncoder, configVars, sharedVars, PipelineInv, CallReplaces
<1>2. CASE call.kind = "release"
  <2>1. /\ call' = Idle /\ UNCHANGED converter /\ converter = Nothing /\ call.encoder = Nothing
        /\ call.converter = Nothing /\ call.frame = Plain
    BY <1>2 DEF DropEncoder, PipelineInv, CallKeeps
  <2>2. V4l2TypeOK'
    BY <1>1, <2>1, DropIs, IdleIs DEF PipelineInv, V4l2TypeOK, CallRecords, DeviceRecords
  <2>3. (CallKeeps /\ CallReplaces /\ CallHasFormat)'
    BY <1>1, <2>1, IdleIs DEF CallKeeps, CallReplaces, Replaced, CallHasFormat
  <2>4. (SettingsAreUsed /\ ConvertersArePaired)'
    BY <1>1, <2>1, IdleIs DEF SettingsAreUsed, ConvertersArePaired, InUse
  <2>5. Used' = Used \ call.old
    BY <1>1, <2>1, IdleIs DEF Used
  <2>6. DevicesAreKept'
    BY <1>1, <2>5, DropKeepsDevices
  <2>7. call'.frame = call.frame
    BY <2>1, IdleIs
  <2> QED
    BY <1>1, <2>2, <2>3, <2>4, <2>6, <2>7, DropIs DEF PipelineInv
<1>3. CASE call.kind # "release"
  <2>1. /\ call' = [call EXCEPT !.at = "leaveConverter", !.old = {converter} \ {Nothing}]
        /\ converter' = call.converter
    BY <1>3 DEF DropEncoder
  <2>2. {converter} \ {Nothing} \in SUBSET Devices
    BY UsedAre, Names
  <2>3. /\ call' \in CallRecords /\ call'.at = "leaveConverter"
        /\ call'.old = {converter} \ {Nothing}
        /\ call'.encoder = call.encoder /\ call'.converter = call.converter
        /\ call'.kind = call.kind /\ call'.format = call.format /\ call'.frame = call.frame
    BY <2>1, <2>2, UsedAre DEF CallRecords
  <2>4. V4l2TypeOK'
    BY <1>1, <2>1, <2>3, DropIs, UsedAre DEF PipelineInv, V4l2TypeOK, CallRecords, DeviceRecords
  <2>5. CallKeeps'
    BY <1>1, <1>3, <2>3 DEF PipelineInv, CallKeeps
  <2>6. CallReplaces'
    <3>1. /\ call.encoder # Nothing
          /\ call.converter # Nothing => call.converter # converter
          /\ call.converter # Nothing <=> call.format.mode = "native"
      BY <1>1, <1>3 DEF PipelineInv, CallReplaces
    <3> QED
      BY <1>1, <2>1, <2>3, <3>1, UsedAre DEF CallReplaces, Replaced
  <2>7. Used' = Used \ call.old
    <3>1. call.converter \notin call.old /\ converter \notin call.old
      BY <1>1, UsedAre, Names
    <3> QED
      BY <1>1, <2>1, <2>3, <3>1 DEF Used
  <2>8. DevicesAreKept'
    BY <1>1, <2>7, DropKeepsDevices
  <2>9. CallHasFormat'
    <3>1. /\ call.encoder # Nothing => devices'[call.encoder] = devices[call.encoder]
          /\ call.converter # Nothing => devices'[call.converter] = devices[call.converter]
      BY <1>1, DropIs, UsedAre, Names
    <3> QED
      BY <1>1, <1>3, <2>3, <3>1 DEF PipelineInv, CallHasFormat
  <2>10. (SettingsAreUsed /\ ConvertersArePaired)'
    BY <1>1, <2>3 DEF SettingsAreUsed, ConvertersArePaired, InUse
  <2> QED
    BY <1>1, <2>3, <2>4, <2>5, <2>6, <2>8, <2>9, <2>10, DropIs DEF PipelineInv
<1> QED
  BY <1>2, <1>3

\* The converter that was replaced is dropped.
LEMMA DropConverterKeeps == ASSUME PipelineInv, DropConverter PROVE PipelineInv'
<1> DEFINE next == IF call.encoder # Nothing THEN "assign"
                   ELSE IF call.kind = "release" THEN "take" ELSE "build"
<1>1. /\ call.at = "leaveConverter" /\ Drop(call.old)
      /\ call.old \subseteq Converters /\ call.old \in SUBSET Devices /\ converter \notin call.old
      /\ call' = [call EXCEPT !.old = {}, !.at = next]
      /\ UNCHANGED <<inputMode, nativeConfig, width, rebuild, converter, lock, shared, callback>>
  BY UsedAre DEF DropConverter, configVars, sharedVars, PipelineInv, CallReplaces
<1>2. /\ call' \in CallRecords /\ call'.at = next /\ call'.old = {}
      /\ call'.encoder = call.encoder /\ call'.converter = call.converter
      /\ call'.kind = call.kind /\ call'.format = call.format /\ call'.frame = call.frame
  BY <1>1, UsedAre DEF CallRecords
<1>3. /\ call.encoder # Nothing => converter = call.converter /\ shared = Nothing
      /\ call.encoder = Nothing => converter = Nothing /\ call.converter = Nothing
      /\ call.converter # Nothing => call.encoder # Nothing
      /\ call.encoder # Nothing => (call.converter # Nothing <=> call.format.mode = "native")
      /\ call.kind = "release" => call.encoder = Nothing
  BY <1>1 DEF PipelineInv, CallReplaces, CallKeeps, Replaced
<1>4. /\ call.kind = "release" => next = "take"
      /\ call.encoder # Nothing <=> next = "assign"
      /\ next \in {"assign", "take", "build"} /\ (next = "take" => call.kind = "release")
  BY <1>3
<1> HIDE DEF next
<1>5. V4l2TypeOK'
  BY <1>1, <1>2, DropIs DEF PipelineInv, V4l2TypeOK, CallRecords, DeviceRecords
<1>6. CallKeeps'
  BY <1>1, <1>2, <1>3, <1>4 DEF PipelineInv, CallKeeps
<1>7. CallReplaces'
  BY <1>1, <1>2, <1>3, <1>4 DEF CallReplaces, Replaced
<1>8. Used' = Used \ call.old
  <2>1. shared \notin call.old /\ call.encoder \notin call.old /\ call.converter \notin call.old
    BY <1>1, <1>3, UsedAre, Names
  <2> QED
    BY <1>1, <1>2, <2>1 DEF Used
<1>9. DevicesAreKept'
  BY <1>1, <1>8, DropKeepsDevices
<1>10. /\ call.encoder # Nothing => devices'[call.encoder] = devices[call.encoder]
       /\ call.converter # Nothing => devices'[call.converter] = devices[call.converter]
       /\ shared # Nothing => devices'[shared] = devices[shared]
       /\ converter # Nothing => devices'[converter] = devices[converter]
  BY <1>1, <1>3, DropIs, UsedAre, Names
<1>11. CallHasFormat'
  BY <1>1, <1>2, <1>4, <1>10 DEF PipelineInv, CallHasFormat
<1>12. SettingsAreUsed'
  BY <1>1, <1>2, <1>4, <1>10 DEF PipelineInv, SettingsAreUsed, InUse
<1>13. ConvertersArePaired'
  <2>1. \A v \in Converters : Busy(v)' => Busy(v) /\ devices'[v] = devices[v]
    BY <1>1, DropIs, Names
  <2> QED
    BY <1>1, <1>10, <2>1 DEF PipelineInv, ConvertersArePaired
<1> QED
  BY <1>1, <1>2, <1>5, <1>6, <1>7, <1>9, <1>11, <1>12, <1>13, DropIs DEF PipelineInv

\* The encoder that was built is shared, and its settings are in use.
LEMMA AssignEncoderKeeps == ASSUME PipelineInv, AssignEncoder PROVE PipelineInv'
<1>1. /\ call.at = "assign" /\ shared' = call.encoder /\ inputMode' = call.format.mode
      /\ IF inputMode' = "mmap" THEN nativeConfig' = Nothing /\ UNCHANGED width
         ELSE width' = nativeConfig /\ UNCHANGED nativeConfig
      /\ rebuild' = FALSE
      /\ call' = IF call.kind = "init" THEN Idle
                 ELSE [call EXCEPT !.at = "submit", !.encoder = Nothing, !.converter = Nothing]
      /\ UNCHANGED requestVars /\ UNCHANGED devices /\ UNCHANGED <<converter, lock, callback>>
  BY DEF AssignEncoder
<1>2. /\ call.kind \in {"init", "encode"} /\ call.format \in Formats /\ call.encoder # Nothing
      /\ call.encoder \in Encoders
      /\ converter = call.converter /\ shared = Nothing /\ call.old = {} /\ Replaced
      /\ call.converter # Nothing <=> call.format.mode = "native"
      /\ devices[call.encoder].format = call.format
      /\ call.converter # Nothing => devices[call.converter].format = call.format
      /\ call.format.mode = "mmap" => width = call.format.size
      /\ call.format.mode = "native" => nativeConfig = call.format.size
      /\ call.kind = "init" => call.frame = Plain
  BY <1>1, UsedAre DEF PipelineInv, CallKeeps, CallReplaces, CallHasFormat, Replaced
<1>3. /\ call' \in CallRecords /\ call'.frame = call.frame /\ call'.old = {}
      /\ call'.encoder = Nothing /\ call'.converter = Nothing
      /\ \/ call' = Idle /\ call'.at = "idle" /\ call'.kind = "none"
         \/ /\ call'.at = "submit" /\ call'.kind = "encode" /\ call'.kind = call.kind
            /\ call'.format = call.format
  <2>1. CASE call.kind = "init"
    BY <1>1, <1>2, <2>1, IdleIs
  <2>2. CASE call.kind # "init"
    BY <1>1, <1>2, <2>2, UsedAre DEF CallRecords
  <2> QED
    BY <2>1, <2>2
<1>4. inputMode' \in {"mmap", "native"} /\ nativeConfig' \in Sizes \cup {Nothing}
      /\ width' \in Sizes \cup {Nothing}
  BY <1>1, <1>2, FormatsAre DEF PipelineInv, V4l2TypeOK
<1>5. V4l2TypeOK'
  BY <1>1, <1>2, <1>3, <1>4 DEF PipelineInv, V4l2TypeOK, CallRecords
<1>6. CallKeeps'
  BY <1>1, <1>2, <1>3, IdleIs DEF PipelineInv, CallKeeps
<1>7. CallReplaces'
  BY <1>1, <1>2, <1>3 DEF CallReplaces, Replaced
<1>8. Used' = Used
  BY <1>1, <1>2, <1>3 DEF Used
<1>9. CallHasFormat'
  BY <1>1, <1>2, <1>3 DEF CallHasFormat
<1>10. SettingsAreUsed'
  <2>1. InUse' = call.encoder
    BY <1>1, <1>3 DEF InUse
  <2>2. call.format.mode \in {"mmap", "native"}
    BY <1>2, FormatsAre
  <2> QED
    BY <1>1, <1>2, <2>1, <2>2 DEF SettingsAreUsed
<1>11. ConvertersArePaired'
  <2>1. ASSUME NEW v \in Converters, Busy(v) PROVE devices[v].format = call.format
    <3>1. v \in Used /\ v \notin Encoders
      BY <2>1, UsedAre, Names
    <3> QED
      BY <1>2, <3>1, UsedAre, Names DEF Used
  <2> QED
    BY <1>1, <1>2, <2>1, DevicesStay DEF ConvertersArePaired
<1> QED
  BY <1>1, <1>3, <1>5, <1>6, <1>7, <1>8, <1>9, <1>10, <1>11, DevicesStay, RequestsStay
     DEF PipelineInv, requestVars
-----------------------------------------------------------------------------
\* Only jobs and threads change.
LEMMA FormatsStay ==
  ASSUME PipelineInv, \A d \in Devices : devices'[d].format = devices[d].format,
         UNCHANGED <<call, inputMode, nativeConfig, width, rebuild, converter, shared>>
  PROVE  (CallKeeps /\ CallReplaces /\ CallHasFormat /\ SettingsAreUsed)' /\ Used' = Used
<1>1. (CallKeeps /\ CallReplaces)' /\ Used' = Used /\ InUse' = InUse
  BY DEF PipelineInv, CallKeeps, CallReplaces, Replaced, Used, InUse
<1>2. /\ call.encoder # Nothing => devices'[call.encoder].format = devices[call.encoder].format
      /\ call.converter # Nothing => devices'[call.converter].format = devices[call.converter].format
      /\ shared # Nothing => devices'[shared].format = devices[shared].format
      /\ converter # Nothing => devices'[converter].format = devices[converter].format
  BY UsedAre, Names
<1>3. CallHasFormat'
  BY <1>2 DEF PipelineInv, CallHasFormat, CallReplaces
<1>4. SettingsAreUsed'
  BY <1>1, <1>2 DEF PipelineInv, SettingsAreUsed, InUse
<1> QED
  BY <1>1, <1>3, <1>4

\* A device takes a job.
LEMMA SubmitIs ==
  ASSUME PipelineInv, NEW d \in Devices, NEW job \in Jobs, HasBuffer(d), Submit(d, job),
         d \in Used, job.format = devices[d].format, job.frame # Plain <=> d \in Converters
  PROVE  /\ devices' \in [Devices -> DeviceRecords]
         /\ \A x \in Devices : devices'[x].format = devices[x].format
         /\ \A x \in Devices : x # d => devices'[x] = devices[x]
         /\ ~Busy(d) /\ Busy(d)' /\ JobOf(d)' = job
         /\ JobsAreOfDevice' /\ (Used' = Used => DevicesAreKept')
<1> DEFINE after == [devices[d] EXCEPT !.jobs = <<job>>]
<1>1. devices[d] \in DeviceRecords /\ devices[d].jobs = <<>>
  BY UsedAre DEF HasBuffer
<1>2. Append(devices[d].jobs, job) = <<job>> /\ <<job>> \in Seq(Jobs)
  BY <1>1
<1>3. /\ after \in DeviceRecords /\ after.format = devices[d].format
      /\ after.thread = devices[d].thread /\ after.jobs = <<job>>
  BY <1>1, <1>2 DEF DeviceRecords
<1>4. devices' = [devices EXCEPT ![d] = after]
  BY <1>2 DEF Submit
<1> HIDE DEF after
<1>5. /\ devices'[d] = after /\ \A x \in Devices : x # d => devices'[x] = devices[x]
      /\ devices' \in [Devices -> DeviceRecords]
  BY <1>3, <1>4, UsedAre
<1>10. <<job>> # <<>> /\ <<job>>[1] = job
  OBVIOUS
<1>6. ~Busy(d) /\ Busy(d)' /\ JobOf(d)' = job
  BY <1>1, <1>3, <1>5, <1>10 DEF Busy, JobOf
<1>7. JobsAreOfDevice'
  <2> SUFFICES ASSUME NEW x \in Devices, Busy(x)'
               PROVE  \E j \in Jobs : /\ devices'[x].jobs = <<j>>
                                      /\ j.format = devices'[x].format
                                      /\ j.frame # Plain <=> x \in Converters
    BY DEF JobsAreOfDevice
  <2>1. CASE x = d
    BY <1>3, <1>5, <2>1
  <2>2. CASE x # d
    BY <1>5, <2>2 DEF PipelineInv, JobsAreOfDevice, Busy
  <2> QED
    BY <2>1, <2>2
<1>8. Used' = Used => DevicesAreKept'
  <2>1. devices[d].thread # "none" /\ devices[d].format \in Formats
    BY DEF PipelineInv, DevicesAreKept
  <2>2. <<job>> # <<>>
    OBVIOUS
  <2> QED
    BY <1>3, <1>5, <2>1, <2>2 DEF PipelineInv, DevicesAreKept
<1>9. \A x \in Devices : devices'[x].format = devices[x].format
  BY <1>3, <1>5
<1> QED
  BY <1>5, <1>6, <1>7, <1>8, <1>9

\* A holder has one reference to a frame.
LEMMA OneHeld ==
  ASSUME NEW frame \in NativeFrames, NEW holder \in {"track", "encode", "convert"}
  PROVE  \E h \in References : Held(frame, holder) = {h} /\ FrameOf(h) = frame /\ h.holder = holder
<1>1. \E h : h \in Held(frame, holder) /\ frame # Plain
  BY HeldIs, Names DEF Plain
<1>2. PICK h : h \in Held(frame, holder)
  BY <1>1
<1>3. Held(frame, holder) = {h}
  BY <1>1, <1>2 DEF Held
<1> QED
  BY <1>2, <1>3, HeldIs

\* A native frame is given to the converter, which keeps it.
LEMMA ConvertKeeps == ASSUME PipelineInv, Convert PROVE PipelineInv'
<1>1. /\ call.at = "submit" /\ call.format.mode = "native"
      /\ UNCHANGED <<configVars, converter, sharedVars>>
      /\ UNCHANGED <<inputMode, nativeConfig, width, rebuild, converter, lock, shared, callback>>
  BY DEF Convert, configVars, sharedVars
<1>2. CASE EndCall /\ UNCHANGED devices
  BY <1>1, <1>2, EndCallKeeps
<1>3. CASE ~(EndCall /\ UNCHANGED devices)
  <2> DEFINE job == [format |-> call.format, frame |-> call.frame]
  <2>1. /\ HasBuffer(converter) /\ Submit(converter, job)
        /\ Move(Held(call.frame, "encode"), Held(call.frame, "convert")) /\ call' = Idle
    BY <1>3 DEF Convert
  <2>2. /\ call.kind = "encode" /\ call.frame # Plain /\ call.frame \in NativeFrames
        /\ call.format \in Formats
        /\ shared # Nothing /\ devices[shared].format = call.format /\ ~rebuild
        /\ call.encoder = Nothing /\ call.converter = Nothing /\ call.old = {}
    BY <1>1, UsedAre DEF PipelineInv, CallKeeps, CallReplaces, CallHasFormat, CallRecords
  <2>3. converter # Nothing /\ devices[converter].format = devices[shared].format
    BY <1>1, <2>2, FormatsAre DEF PipelineInv, SettingsAreUsed, InUse, V4l2TypeOK
  <2>4. /\ job \in Jobs /\ job.format = call.format /\ job.frame = call.frame
        /\ converter \in Devices /\ converter \in Converters /\ converter \in Used
    BY <2>2, <2>3, UsedAre, Names DEF Jobs, Used
  <2> HIDE DEF job
  <2>22. PICK c \in Converters : c = converter
    BY <2>4
  <2>5. /\ devices' \in [Devices -> DeviceRecords]
        /\ \A x \in Devices : devices'[x].format = devices[x].format
        /\ \A x \in Devices : x # c => devices'[x] = devices[x]
        /\ ~Busy(c) /\ Busy(c)' /\ JobOf(c)' = job
        /\ JobsAreOfDevice' /\ (Used' = Used => DevicesAreKept')
    <3>1. /\ job.format = devices[c].format /\ (job.frame # Plain <=> c \in Converters)
          /\ c \in Devices /\ c \in Used /\ HasBuffer(c) /\ Submit(c, job)
      BY <2>1, <2>2, <2>3, <2>4, <2>22
    <3> QED
      BY <2>4, <3>1, SubmitIs
  <2>6. V4l2TypeOK'
    BY <1>1, <2>1, <2>5, IdleIs DEF PipelineInv, V4l2TypeOK, CallRecords, DeviceRecords
  <2>7. CallKeeps'
    BY <2>1, IdleIs DEF CallKeeps
  <2>8. CallReplaces'
    BY <1>1, <2>1, <2>2, IdleIs DEF CallReplaces, Replaced
  <2>9. Used' = Used
    BY <1>1, <2>1, <2>2, IdleIs DEF Used
  <2>10. CallHasFormat'
    BY <2>1, IdleIs DEF CallHasFormat
  <2>11. SettingsAreUsed'
    <3>1. InUse' = shared /\ InUse = shared
      BY <1>1, <2>1, IdleIs DEF InUse
    <3>2. devices'[shared].format = devices[shared].format
          /\ devices'[converter].format = devices[converter].format
      BY <2>2, <2>4, <2>5, UsedAre, Names
    <3> QED
      BY <1>1, <2>2, <3>1, <3>2 DEF PipelineInv, SettingsAreUsed
  <2>12. ConvertersArePaired'
    <3>1. \A v \in Converters : v # c => Busy(v)' = Busy(v)
      BY <2>5, Names DEF Busy
    <3>2. devices'[shared].format = devices[shared].format
      BY <2>2, <2>5, UsedAre, Names
    <3> QED
      BY <1>1, <2>3, <2>5, <2>22, <3>1, <3>2, Names DEF PipelineInv, ConvertersArePaired
  <2>13. PICK r \in References : Held(call.frame, "encode") = {r} /\ FrameOf(r) = call.frame
                                 /\ r.holder = "encode"
    BY <2>2, OneHeld
  <2>14. PICK h \in References : Held(call.frame, "convert") = {h} /\ FrameOf(h) = call.frame
                                 /\ h.holder = "convert"
    BY <2>2, OneHeld
  <2>15. r \in references
    BY <2>13 DEF PipelineInv, CallHoldsFrame
  <2>16. references' = (references \ {r}) \cup {h} /\ UNCHANGED <<session, queued>>
    BY <2>1, <2>13, <2>14 DEF Move
  <2>17. RequestsTyped' /\ FramesAreLentOnce'
    BY <2>13, <2>14, <2>15, <2>16, FrameGoesOn
  <2>18. CallHoldsFrame'
    <3> SUFFICES ASSUME NEW q \in References, q.holder = "encode"
                 PROVE  q \in references' <=> call'.frame = FrameOf(q)
      BY DEF CallHoldsFrame
    <3>1. q \in references => q = r
      BY <2>13, <2>2, HeldIs DEF PipelineInv, CallHoldsFrame
    <3> QED
      BY <2>1, <2>14, <2>16, <3>1, IdleIs, FrameIs
  <2>19. \A v \in Converters : v # c => (Busy(v)' <=> Busy(v)) /\ JobOf(v)' = JobOf(v)
    BY <2>5, Names DEF Busy, JobOf
  <2>20. \A v \in Converters : Busy(v) => JobOf(v).frame # call.frame
    <3> SUFFICES ASSUME NEW v \in Converters, Busy(v), JobOf(v).frame = call.frame
                 PROVE  FALSE
      OBVIOUS
    <3>1. h \in references
      BY <2>14 DEF PipelineInv, ConversionsHoldFrames
    <3>2. h = r
      BY <2>13, <2>14, <2>15, <3>1 DEF PipelineInv, FramesAreLentOnce
    <3> QED
      BY <2>13, <2>14, <3>2
  <2>21. ConversionsHoldFrames'
    <3>1. ASSUME NEW q \in References, q.holder = "convert"
          PROVE  q \in references' <=>
                   \E v \in Converters : Busy(v)' /\ JobOf(v)'.frame = FrameOf(q)
      <4>1. q = h <=> FrameOf(q) = call.frame
        BY <2>2, <2>14, <3>1, HeldIs
      <4>2. q \in references' <=> q \in references \/ FrameOf(q) = call.frame
        BY <2>13, <2>16, <3>1, <4>1
      <4>3. q \in references <=> \E v \in Converters : Busy(v) /\ JobOf(v).frame = FrameOf(q)
        BY <3>1 DEF PipelineInv, ConversionsHoldFrames
      <4>4. CASE FrameOf(q) = call.frame
        BY <2>4, <2>5, <4>2, <4>4
      <4>5. CASE FrameOf(q) # call.frame
        BY <2>4, <2>5, <2>19, <4>2, <4>3, <4>5
      <4> QED
        BY <4>4, <4>5
    <3>2. \A v, w \in Converters :
            Busy(v)' /\ Busy(w)' /\ JobOf(v)'.frame = JobOf(w)'.frame => v = w
      BY <2>4, <2>5, <2>19, <2>20 DEF PipelineInv, ConversionsHoldFrames
    <3> QED
      BY <3>1, <3>2 DEF ConversionsHoldFrames
  <2> QED
    BY <2>5, <2>6, <2>7, <2>8, <2>9, <2>10, <2>11, <2>12, <2>17, <2>18, <2>21 DEF PipelineInv
<1> QED
  BY <1>2, <1>3

\* The encoder is taken for a frame in memory,
LEMMA TakeToEncodeKeeps == ASSUME PipelineInv, TakeToEncode PROVE PipelineInv'
<1>1. /\ call.at = "submit" /\ call.format.mode = "mmap" /\ shared' = Nothing
      /\ call' = [call EXCEPT !.at = "putBack", !.encoder = shared]
      /\ UNCHANGED requestVars /\ UNCHANGED devices
      /\ UNCHANGED <<inputMode, nativeConfig, width, rebuild, converter, lock, callback>>
  BY DEF TakeToEncode, configVars
<1>2. /\ shared # Nothing /\ devices[shared].format = call.format /\ ~rebuild
      /\ call.encoder = Nothing /\ call.converter = Nothing /\ call.old = {}
      /\ call.kind # "release" /\ call.kind # "init" /\ shared \in Encoders
  BY <1>1, UsedAre DEF PipelineInv, CallKeeps, CallReplaces, CallHasFormat
<1>3. /\ call' \in CallRecords /\ call'.at = "putBack" /\ call'.encoder = shared
      /\ call'.converter = Nothing /\ call'.old = {}
      /\ call'.kind = call.kind /\ call'.format = call.format /\ call'.frame = call.frame
  BY <1>1, <1>2, UsedAre DEF CallRecords
<1>4. V4l2TypeOK'
  BY <1>1, <1>3 DEF PipelineInv, V4l2TypeOK, CallRecords
<1>5. CallKeeps'
  BY <1>1, <1>2, <1>3 DEF PipelineInv, CallKeeps
<1>6. CallReplaces'
  BY <1>1, <1>2, <1>3 DEF CallReplaces, Replaced
<1>7. Used' = Used
  BY <1>1, <1>2, <1>3 DEF Used
<1>8. CallHasFormat'
  BY <1>1, <1>2, <1>3 DEF CallHasFormat
<1>9. SettingsAreUsed'
  <2>1. InUse' = InUse
    BY <1>1, <1>3 DEF InUse
  <2> QED
    BY <1>1, <1>3, <2>1 DEF PipelineInv, SettingsAreUsed
<1>10. ConvertersArePaired'
  BY <1>1 DEF ConvertersArePaired
<1> QED
  BY <1>1, <1>3, <1>4, <1>5, <1>6, <1>7, <1>8, <1>9, <1>10, DevicesStay, RequestsStay
     DEF PipelineInv, requestVars

\* and put back when it has been given the frame.
LEMMA PutBackKeeps == ASSUME PipelineInv, EncodeAndPutBack PROVE PipelineInv'
<1> DEFINE job == [format |-> call.format, frame |-> Plain]
<1>1. /\ call.at = "putBack" /\ shared' = call.encoder /\ call' = Idle
      /\ \/ HasBuffer(call.encoder) /\ Submit(call.encoder, job)
         \/ UNCHANGED devices
      /\ UNCHANGED requestVars
      /\ UNCHANGED <<inputMode, nativeConfig, width, rebuild, converter, lock, callback>>
  BY DEF EncodeAndPutBack, configVars
<1>2. /\ call.encoder # Nothing /\ call.encoder \in Encoders /\ call.format.mode = "mmap"
      /\ devices[call.encoder].format = call.format /\ ~rebuild /\ shared = Nothing
      /\ call.converter = Nothing /\ call.old = {} /\ call.kind = "encode"
      /\ call.format \in Formats /\ call.frame = Plain
  BY <1>1, UsedAre DEF PipelineInv, CallKeeps, CallReplaces, CallHasFormat
<1>3. converter = Nothing
  BY <1>1, <1>2 DEF PipelineInv, SettingsAreUsed, InUse
<1>4. /\ job \in Jobs /\ job.format = call.format /\ job.frame = Plain
      /\ call.encoder \in Devices /\ call.encoder \in Used /\ call.encoder \notin Converters
  BY <1>2, Names DEF Jobs, Used
<1> HIDE DEF job
<1>5. Used' = Used
  BY <1>1, <1>2, IdleIs DEF Used
<1>6. /\ devices' \in [Devices -> DeviceRecords]
      /\ \A x \in Devices : devices'[x].format = devices[x].format
      /\ \A x \in Devices : x # call.encoder => devices'[x] = devices[x]
      /\ JobsAreOfDevice' /\ DevicesAreKept'
  <2>1. CASE UNCHANGED devices
    BY <1>5, <2>1, UsedAre, DevicesStay
  <2>2. CASE HasBuffer(call.encoder) /\ Submit(call.encoder, job)
    BY <1>2, <1>4, <1>5, <2>2, SubmitIs
  <2> QED
    BY <1>1, <2>1, <2>2
<1>7. V4l2TypeOK'
  BY <1>1, <1>2, <1>6, IdleIs DEF PipelineInv, V4l2TypeOK, CallRecords, DeviceRecords
<1>8. CallKeeps'
  BY <1>1, IdleIs DEF CallKeeps
<1>9. CallReplaces'
  BY <1>1, <1>2, IdleIs DEF CallReplaces, Replaced
<1>10. CallHasFormat'
  BY <1>1, IdleIs DEF CallHasFormat
<1>11. SettingsAreUsed'
  <2>1. InUse' = call.encoder /\ InUse = call.encoder
    BY <1>1, IdleIs DEF InUse
  <2> QED
    BY <1>1, <1>2, <1>3, <1>4, <1>6, <2>1 DEF PipelineInv, SettingsAreUsed
<1>12. \A v \in Converters : ~Busy(v)
  <2>1. \A v \in Converters : v \notin Used
    BY <1>2, <1>3, Names DEF Used
  <2> QED
    BY <2>1, UsedAre, Names
<1>13. \A v \in Converters : Busy(v)' = Busy(v) /\ JobOf(v)' = JobOf(v)
  BY <1>4, <1>6, Names DEF Busy, JobOf
<1>14. ConvertersArePaired'
  BY <1>12, <1>13 DEF ConvertersArePaired
<1>15. ConversionsHoldFrames'
  BY <1>1, <1>13 DEF PipelineInv, ConversionsHoldFrames, requestVars
<1>16. call'.frame = call.frame
  BY <1>1, <1>2, IdleIs
<1> QED
  BY <1>1, <1>6, <1>7, <1>8, <1>9, <1>10, <1>11, <1>14, <1>15, <1>16, RequestsStay
     DEF PipelineInv
-----------------------------------------------------------------------------
\* A thread goes on with its job, without a change to the frames.
LEMMA ThreadKeeps ==
  ASSUME PipelineInv, NEW d \in Devices, Busy(d),
         NEW at \in {"polls", "waits", "forwards", "reports"},
         devices' = [devices EXCEPT ![d].thread = at],
         lock' \in {"free"} \cup Converters,
         UNCHANGED <<call, inputMode, nativeConfig, width, rebuild, converter, shared, callback>>,
         UNCHANGED requestVars
  PROVE  PipelineInv'
<1> DEFINE after == [devices[d] EXCEPT !.thread = at]
<1>1. devices[d] \in DeviceRecords /\ devices' = [devices EXCEPT ![d] = after]
  BY UsedAre
<1>2. /\ after \in DeviceRecords /\ after.format = devices[d].format
      /\ after.thread = at /\ after.jobs = devices[d].jobs
  BY <1>1 DEF DeviceRecords
<1> HIDE DEF after
<1>3. /\ devices'[d] = after /\ \A x \in Devices : x # d => devices'[x] = devices[x]
      /\ devices' \in [Devices -> DeviceRecords]
  BY <1>1, <1>2, UsedAre
<1>4. /\ \A x \in Devices : devices'[x].format = devices[x].format
      /\ \A x \in Devices : devices'[x].jobs = devices[x].jobs
  BY <1>2, <1>3
<1>5. \A x \in Devices : (Busy(x)' <=> Busy(x)) /\ JobOf(x)' = JobOf(x)
  BY <1>4 DEF Busy, JobOf
<1>6. (CallKeeps /\ CallReplaces /\ CallHasFormat /\ SettingsAreUsed)' /\ Used' = Used
  BY <1>4, FormatsStay
<1>7. V4l2TypeOK'
  BY <1>3 DEF PipelineInv, V4l2TypeOK, DeviceRecords
<1>8. DevicesAreKept'
  <2>1. d \in Used /\ devices[d].thread # "none" /\ devices[d].format \in Formats
    BY UsedAre DEF PipelineInv, DevicesAreKept
  <2> QED
    BY <1>2, <1>3, <1>6, <2>1 DEF PipelineInv, DevicesAreKept, Busy
<1>9. JobsAreOfDevice'
  BY <1>4, <1>5 DEF PipelineInv, JobsAreOfDevice
<1>10. ConvertersArePaired'
  <2>1. shared # Nothing => devices'[shared].format = devices[shared].format
    BY <1>4, UsedAre, Names
  <2> QED
    BY <1>4, <1>5, <2>1, Names DEF PipelineInv, ConvertersArePaired
<1>11. ConversionsHoldFrames'
  BY <1>5, Names DEF PipelineInv, ConversionsHoldFrames, requestVars
<1> QED
  BY <1>6, <1>7, <1>8, <1>9, <1>10, <1>11, RequestsStay DEF PipelineInv

\* A job is done, and the frame that it kept is dropped; an encoder may get another.
LEMMA JobLeaves ==
  ASSUME PipelineInv, NEW d \in Devices, Busy(d),
         references' = references \ Held(JobOf(d).frame, "convert"),
         UNCHANGED <<session, queued>>,
         lock' \in {"free"} \cup Converters,
         UNCHANGED <<call, inputMode, nativeConfig, width, rebuild, converter, shared, callback>>,
         devices' \in [Devices -> DeviceRecords],
         \A x \in Devices : devices'[x].format = devices[x].format,
         \A x \in Devices : devices'[x].thread # "none" <=> devices[x].thread # "none",
         \A x \in Devices : devices'[x].thread = "none" => devices'[x] = devices[x],
         \A x \in Devices :
           devices'[x].thread \in {"waits", "forwards", "reports"} => Busy(x)',
         JobsAreOfDevice',
         d \in Converters => ~Busy(d)',
         \A x \in Converters : x # d => (Busy(x)' <=> Busy(x)) /\ JobOf(x)' = JobOf(x)
  PROVE  PipelineInv'
<1>6. (CallKeeps /\ CallReplaces /\ CallHasFormat /\ SettingsAreUsed)' /\ Used' = Used
  BY FormatsStay
<1>7. V4l2TypeOK'
  BY DEF PipelineInv, V4l2TypeOK, DeviceRecords
<1>8. DevicesAreKept'
  BY <1>6 DEF PipelineInv, DevicesAreKept, Busy
<1>10. ConvertersArePaired'
  <2>1. shared # Nothing => devices'[shared].format = devices[shared].format
    BY UsedAre, Names
  <2>2. \A x \in Converters : Busy(x)' => Busy(x)
    OBVIOUS
  <2> QED
    BY <2>1, <2>2, Names DEF PipelineInv, ConvertersArePaired
<1>11. RequestsTyped' /\ FramesAreLentOnce'
  BY ReferencesShrink
<1>12. \A r \in References : r \in Held(JobOf(d).frame, "convert") <=>
                              FrameOf(r) = JobOf(d).frame /\ r.holder = "convert"
  BY JobIs, HeldIs
<1>13. CallHoldsFrame'
  BY <1>12 DEF PipelineInv, CallHoldsFrame
<1>14. ConversionsHoldFrames'
  <2>1. ASSUME NEW r \in References, r.holder = "convert"
        PROVE  r \in references' <=>
                 \E v \in Converters : Busy(v)' /\ JobOf(v)'.frame = FrameOf(r)
    <3>1. r \in references <=> \E v \in Converters : Busy(v) /\ JobOf(v).frame = FrameOf(r)
      BY <2>1 DEF PipelineInv, ConversionsHoldFrames
    <3>2. r \in references' <=> r \in references /\ FrameOf(r) # JobOf(d).frame
      BY <1>12, <2>1
    <3>3. JobOf(d).frame = FrameOf(r) => d \in Converters
      BY JobIs, FrameIs
    <3>4. \A v \in Converters :
            Busy(v) /\ JobOf(v).frame = JobOf(d).frame /\ d \in Converters => v = d
      BY DEF PipelineInv, ConversionsHoldFrames
    <3>5. ASSUME r \in references'
          PROVE  \E v \in Converters : Busy(v)' /\ JobOf(v)'.frame = FrameOf(r)
      <4>1. PICK v \in Converters : Busy(v) /\ JobOf(v).frame = FrameOf(r)
        BY <3>1, <3>2, <3>5
      <4>2. v # d
        BY <3>2, <3>5, <4>1
      <4> QED
        BY <4>1, <4>2
    <3>6. ASSUME NEW v \in Converters, Busy(v)', JobOf(v)'.frame = FrameOf(r)
          PROVE  r \in references'
      <4>1. v # d /\ Busy(v) /\ JobOf(v).frame = FrameOf(r)
        BY <3>6
      <4> QED
        BY <3>1, <3>2, <3>3, <3>4, <4>1
    <3> QED
      BY <3>5, <3>6
  <2>2. \A v, w \in Converters :
          Busy(v)' /\ Busy(w)' /\ JobOf(v)'.frame = JobOf(w)'.frame => v = w
    <3>1. \A v \in Converters : Busy(v)' => Busy(v) /\ JobOf(v)' = JobOf(v)
      OBVIOUS
    <3> QED
      BY <3>1 DEF PipelineInv, ConversionsHoldFrames
  <2> QED
    BY <2>1, <2>2 DEF ConversionsHoldFrames
<1> QED
  BY <1>6, <1>7, <1>8, <1>10, <1>11, <1>13, <1>14 DEF PipelineInv

\* The devices with the job of one done.
DevicesDone(d) == [devices EXCEPT ![d].jobs = Tail(@), ![d].thread = "polls"]

\* A device whose job is done has none.
LEMMA DoneIs ==
  ASSUME PipelineInv, NEW d \in Devices, Busy(d)
  PROVE  LET done == DevicesDone(d) IN
         /\ done \in [Devices -> DeviceRecords]
         /\ done[d].jobs = <<>> /\ done[d].thread = "polls"
         /\ done[d].format = devices[d].format /\ devices[d].thread # "none"
         /\ \A x \in Devices : x # d => done[x] = devices[x]
<1> DEFINE after == [devices[d] EXCEPT !.jobs = Tail(@), !.thread = "polls"]
<1>1. devices[d] \in DeviceRecords /\ Tail(devices[d].jobs) = <<>>
  BY UsedAre, JobIs
<1>2. DevicesDone(d) = [devices EXCEPT ![d] = after]
  BY UsedAre DEF DevicesDone
<1>5. <<>> \in Seq(Jobs)
  OBVIOUS
<1>3. /\ after \in DeviceRecords /\ after.format = devices[d].format
      /\ after.thread = "polls" /\ after.jobs = <<>>
  BY <1>1, <1>5 DEF DeviceRecords
<1> HIDE DEF after
<1>4. devices[d].thread # "none"
  BY UsedAre DEF PipelineInv, DevicesAreKept
<1> QED
  BY <1>2, <1>3, <1>4, UsedAre

\* The end of a job leaves everything else in place.
LEMMA JobDoneIs ==
  ASSUME PipelineInv, NEW d \in Devices, Busy(d), JobDone(d),
         references' = references \ Held(JobOf(d).frame, "convert"),
         UNCHANGED <<session, queued>>,
         lock' \in {"free"} \cup Converters,
         UNCHANGED <<call, inputMode, nativeConfig, width, rebuild, converter, shared, callback>>
  PROVE  PipelineInv'
<1> DEFINE done == DevicesDone(d)
<1>1. /\ done \in [Devices -> DeviceRecords]
      /\ done[d].jobs = <<>> /\ done[d].thread = "polls"
      /\ done[d].format = devices[d].format /\ devices[d].thread # "none"
      /\ \A x \in Devices : x # d => done[x] = devices[x]
  BY DoneIs
<1>2. devices' = done
  BY DEF JobDone, DevicesDone
<1> HIDE DEF done
<1>3. /\ ~Busy(d)'
      /\ \A x \in Devices : x # d => (Busy(x)' <=> Busy(x)) /\ JobOf(x)' = JobOf(x)
  BY <1>1, <1>2 DEF Busy, JobOf
<1>4. \A x \in Devices : devices'[x].format = devices[x].format
  BY <1>1, <1>2
<1>5. \A x \in Devices : devices'[x].thread # "none" <=> devices[x].thread # "none"
  BY <1>1, <1>2
<1>6. \A x \in Devices : devices'[x].thread = "none" => devices'[x] = devices[x]
  BY <1>1, <1>2
<1>7. \A x \in Devices :
        devices'[x].thread \in {"waits", "forwards", "reports"} => Busy(x)'
  BY <1>1, <1>2, <1>3 DEF PipelineInv, DevicesAreKept, Busy
<1>8. JobsAreOfDevice'
  <2>1. \A x \in Devices : Busy(x)' => Busy(x) /\ devices'[x] = devices[x]
    BY <1>1, <1>2, <1>3
  <2> QED
    BY <2>1 DEF PipelineInv, JobsAreOfDevice
<1> QED
  BY <1>1, <1>2, <1>3, <1>4, <1>5, <1>6, <1>7, <1>8, Names, JobLeaves

\* Only the thread of a busy device is past its poll, and an encoder's job keeps no frame.
LEMMA BusyThreads ==
  ASSUME PipelineInv, NEW d \in Devices
  PROVE  /\ devices[d].thread \in {"waits", "forwards", "reports"} => Busy(d)
         /\ d \in Encoders /\ Busy(d) =>
              references = references \ Held(JobOf(d).frame, "convert")
<1>1. devices[d].thread \in {"waits", "forwards", "reports"} => Busy(d)
  BY DEF PipelineInv, DevicesAreKept, Busy
<1>2. ASSUME d \in Encoders, Busy(d)
      PROVE  Held(JobOf(d).frame, "convert") = {}
  BY <1>2, JobIs, Names DEF Held
<1> QED
  BY <1>1, <1>2

\* A device has finished its job; what fails is dropped.
LEMMA FinishKeeps == ASSUME PipelineInv, NEW d \in Devices, Finish(d) PROVE PipelineInv'
<1>1. /\ Busy(d)
      /\ UNCHANGED <<call, inputMode, nativeConfig, width, rebuild, converter, lock, shared,
                     callback>>
      /\ \/ devices' = [devices EXCEPT ![d].thread = "waits"] /\ UNCHANGED requestVars
         \/ JobDone(d) /\ Move(Held(Head(devices[d].jobs).frame, "convert"), {})
  BY DEF Finish, Busy, configVars, sharedVars
<1>2. lock' \in {"free"} \cup Converters
  BY <1>1 DEF PipelineInv, V4l2TypeOK
<1>3. CASE devices' = [devices EXCEPT ![d].thread = "waits"] /\ UNCHANGED requestVars
  BY <1>1, <1>2, <1>3, ThreadKeeps
<1>4. CASE JobDone(d) /\ Move(Held(Head(devices[d].jobs).frame, "convert"), {})
  <2>1. /\ references' = references \ Held(JobOf(d).frame, "convert")
        /\ UNCHANGED <<session, queued>>
    BY <1>1, <1>4, JobIs DEF Move
  <2> QED
    BY <1>1, <1>2, <1>4, <2>1, JobDoneIs
<1> QED
  BY <1>1, <1>3, <1>4

\* A converter's thread takes the mutex of the encoder.
LEMMA LockKeeps == ASSUME PipelineInv, NEW v \in Converters, LockToForward(v) PROVE PipelineInv'
<1>1. v \in Devices /\ devices[v].thread = "waits" /\ lock' = v
  BY Names DEF LockToForward
<1>2. Busy(v)
  BY <1>1, BusyThreads
<1> QED
  BY <1>1, <1>2, ThreadKeeps DEF LockToForward, configVars

\* An encoder's thread reads which callback is registered.
LEMMA ReadCallbackKeeps ==
  ASSUME PipelineInv, NEW e \in Encoders, ReadCallback(e)
  PROVE  PipelineInv'
<1>1. /\ e \in Devices /\ devices[e].thread = "waits" /\ UNCHANGED requestVars
      /\ UNCHANGED <<session, queued, references>>
      /\ UNCHANGED <<call, inputMode, nativeConfig, width, rebuild, converter, lock, shared,
                     callback>>
      /\ devices' = [devices EXCEPT ![e].thread = "reports"] \/ JobDone(e)
  BY Names DEF ReadCallback, configVars, sharedVars, requestVars
<1>2. Busy(e) /\ lock' \in {"free"} \cup Converters
  BY <1>1, BusyThreads DEF PipelineInv, V4l2TypeOK
<1>3. references' = references \ Held(JobOf(e).frame, "convert")
  BY <1>1, <1>2, BusyThreads
<1> QED
  BY <1>1, <1>2, <1>3, ThreadKeeps, JobDoneIs

\* An encoder's thread reports an image.
LEMMA ReportKeeps == ASSUME PipelineInv, NEW e \in Encoders, Report(e) PROVE PipelineInv'
<1>1. /\ e \in Devices /\ devices[e].thread = "reports"
      /\ UNCHANGED <<session, queued, references>>
      /\ UNCHANGED <<call, inputMode, nativeConfig, width, rebuild, converter, lock, shared,
                     callback>>
      /\ JobDone(e)
  BY Names DEF Report, configVars, sharedVars, requestVars
<1>2. Busy(e) /\ lock' \in {"free"} \cup Converters
  BY <1>1, BusyThreads DEF PipelineInv, V4l2TypeOK
<1>3. references' = references \ Held(JobOf(e).frame, "convert")
  BY <1>1, <1>2, BusyThreads
<1> QED
  BY <1>1, <1>2, <1>3, JobDoneIs

\* A converter's thread gives the converted frame to the encoder that is shared.
LEMMA ForwardKeeps == ASSUME PipelineInv, NEW v \in Converters, Forward(v) PROVE PipelineInv'
<1>1. /\ devices[v].thread = "forwards" /\ v \in Devices /\ lock' = "free"
      /\ UNCHANGED <<call, inputMode, nativeConfig, width, rebuild, converter, shared, callback>>
  BY Names DEF Forward, configVars
<1>2. Busy(v)
  BY <1>1, BusyThreads
<1> DEFINE job == JobOf(v)
           done == DevicesDone(v)
<1>3. /\ job = Head(devices[v].jobs) /\ job \in Jobs /\ job.format = devices[v].format
  BY <1>1, <1>2, JobIs
<1>4. references' = references \ Held(job.frame, "convert") /\ UNCHANGED <<session, queued>>
  BY <1>3 DEF Forward, Move
<1>5. CASE devices' = done
  BY <1>1, <1>2, <1>4, <1>5, JobDoneIs DEF JobDone, DevicesDone
<1>6. CASE devices' # done
  <2> DEFINE onward == [format |-> job.format, frame |-> Plain]
  <2>1. /\ shared # Nothing /\ devices[shared].jobs = <<>>
        /\ devices' = [done EXCEPT ![shared].jobs = Append(@, onward)]
    BY <1>3, <1>6 DEF Forward, HasBuffer, DevicesDone
  <2>2. PICK e \in Encoders : e = shared
    BY <2>1, UsedAre
  <2>3. /\ e \in Devices /\ e # v /\ e \notin Converters /\ e \in Used
    BY <2>1, <2>2, Names DEF Used
  <2>4. onward.format = devices[e].format /\ onward \in Jobs /\ onward.frame = Plain
    BY <1>2, <1>3, <2>1, <2>2, <2>3, UsedAre DEF PipelineInv, ConvertersArePaired, Jobs
  <2>5. /\ done \in [Devices -> DeviceRecords]
        /\ done[v].jobs = <<>> /\ done[v].thread = "polls"
        /\ done[v].format = devices[v].format /\ devices[v].thread # "none"
        /\ \A x \in Devices : x # v => done[x] = devices[x]
    BY <1>1, <1>2, DoneIs
  <2> HIDE DEF done, onward
  <2> DEFINE given == [devices[e] EXCEPT !.jobs = <<onward>>]
  <2>6. devices[e] \in DeviceRecords /\ devices[e].jobs = <<>> /\ <<onward>> \in Seq(Jobs)
        /\ Append(<<>>, onward) = <<onward>>
    BY <2>1, <2>2, <2>3, <2>4, UsedAre
  <2>7. /\ given \in DeviceRecords /\ given.format = devices[e].format
        /\ given.jobs = <<onward>> /\ given.thread = devices[e].thread
    BY <2>6 DEF DeviceRecords
  <2>8. devices' = [done EXCEPT ![e] = given]
    <3>1. done[e] = devices[e]
      BY <2>3, <2>5
    <3> QED
      BY <2>1, <2>2, <2>6, <3>1
  <2> HIDE DEF given
  <2>9. <<onward>> # <<>>
    OBVIOUS
  <2>10. /\ devices' \in [Devices -> DeviceRecords] /\ devices'[e] = given
         /\ devices'[v].jobs = <<>> /\ devices'[v].thread = "polls"
         /\ devices'[v].format = devices[v].format
         /\ \A x \in Devices : x # v /\ x # e => devices'[x] = devices[x]
    BY <1>1, <2>3, <2>5, <2>7, <2>8
  <2>11. /\ ~Busy(v)' /\ Busy(e)'
         /\ \A x \in Converters : x # v => (Busy(x)' <=> Busy(x)) /\ JobOf(x)' = JobOf(x)
    BY <2>3, <2>7, <2>9, <2>10, Names DEF Busy, JobOf
  <2>12. \A x \in Devices : devices'[x].format = devices[x].format
    BY <2>7, <2>10
  <2>13. devices[e].thread # "none"
    BY <2>3 DEF PipelineInv, DevicesAreKept
  <2>14. \A x \in Devices : devices'[x].thread # "none" <=> devices[x].thread # "none"
    BY <2>5, <2>7, <2>10
  <2>15. \A x \in Devices : devices'[x].thread = "none" => devices'[x] = devices[x]
    BY <2>5, <2>7, <2>10, <2>13
  <2>16. \A x \in Devices :
           devices'[x].thread \in {"waits", "forwards", "reports"} => Busy(x)'
    BY <2>10, <2>11 DEF PipelineInv, DevicesAreKept, Busy
  <2>17. JobsAreOfDevice'
    <3> SUFFICES ASSUME NEW x \in Devices, Busy(x)'
                 PROVE  \E j \in Jobs : /\ devices'[x].jobs = <<j>>
                                        /\ j.format = devices'[x].format
                                        /\ j.frame # Plain <=> x \in Converters
      BY DEF JobsAreOfDevice
    <3>1. CASE x = e
      BY <2>3, <2>4, <2>7, <2>10, <3>1
    <3>2. CASE x # e
      <4>1. x # v /\ devices'[x] = devices[x]
        BY <2>10, <2>11, <3>2
      <4> QED
        BY <4>1 DEF PipelineInv, JobsAreOfDevice, Busy
    <3> QED
      BY <3>1, <3>2
  <2> QED
    BY <1>1, <1>2, <1>4, <2>10, <2>11, <2>12, <2>14, <2>15, <2>16, <2>17, JobLeaves
<1> QED
  BY <1>5, <1>6

-----------------------------------------------------------------------------
\* The camera's steps lend a frame only when nobody holds it.
LEMMA CameraKeeps ==
  ASSUME PipelineInv, BeginSession \/ Queue \/ Complete \/ Lend, UNCHANGED v4l2Vars
  PROVE  PipelineInv'
<1>1. /\ UNCHANGED devices
      /\ UNCHANGED <<call, inputMode, nativeConfig, width, rebuild, converter, lock, shared,
                     callback>>
  BY DEF v4l2Vars, configVars, sharedVars
<1>2. V4l2TypeOK' /\ Used' = Used
  BY <1>1 DEF PipelineInv, V4l2TypeOK, Used
<1>3. (CallKeeps /\ CallReplaces /\ CallHasFormat /\ SettingsAreUsed)'
  BY <1>1 DEF PipelineInv, CallKeeps, CallReplaces, Replaced, CallHasFormat, SettingsAreUsed,
     InUse
<1>4. references \subseteq References /\ session \in 0..SessionsMax /\ queued \subseteq Cookies
      /\ SessionsMax \in Nat
  BY RequestsAssumption DEF PipelineInv, RequestsTyped
<1>5. RequestsTyped' /\ FramesAreLentOnce' /\
      \A r \in References : r.holder # "track" => (r \in references' <=> r \in references)
  <2>1. CASE BeginSession
    <3>1. /\ session' = session + 1 /\ session < SessionsMax /\ queued' = {} /\ UNCHANGED references
      BY <2>1 DEF BeginSession
    <3>2. \A r \in references : r.session \in Nat /\ r.session <= session
      BY <1>4, FrameIs DEF PipelineInv, FramesAreLentOnce
    <3> QED
      BY <1>4, <3>1, <3>2 DEF PipelineInv, FramesAreLentOnce, RequestsTyped
  <2>2. CASE Queue
    <3>1. PICK new \in SUBSET (Cookies \ Lent) : queued' = queued \cup new
      BY <2>2 DEF Queue
    <3>2. UNCHANGED <<session, references>> /\ Lent' = Lent
      BY <2>2 DEF Queue, Lent
    <3> QED
      BY <1>4, <3>1, <3>2 DEF PipelineInv, FramesAreLentOnce, RequestsTyped
  <2>3. CASE Complete
    <3>1. queued' \subseteq queued /\ UNCHANGED <<session, references>> /\ Lent' = Lent
      BY <2>3 DEF Complete, Lent
    <3> QED
      BY <1>4, <3>1 DEF PipelineInv, FramesAreLentOnce, RequestsTyped
  <2>4. CASE Lend
    <3>1. PICK cookie \in Cookies \ (queued \cup Lent), holders \in (SUBSET Sinks) \ {{}} :
            references' = references \cup
              {[session |-> session, cookie |-> cookie, holder |-> h] : h \in holders}
      BY <2>4 DEF Lend
    <3> DEFINE new == [session |-> session, cookie |-> cookie, holder |-> "track"]
    <3>2. holders = {"track"}
      BY V4l2Assumption DEF V4l2Assumption
    <3>3. references' = references \cup {new}
      BY <3>1, <3>2
    <3>4. session > 0 /\ UNCHANGED <<session, queued>>
      BY <2>4 DEF Lend
    <3>5. /\ new \in References /\ new.session = session /\ new.cookie = cookie
          /\ new.holder = "track" /\ FrameOf(new).session = session
          /\ FrameOf(new).cookie = cookie
      BY <1>4, <3>4, V4l2Assumption DEF References, V4l2Assumption, FrameOf
    <3> HIDE DEF new
    <3>6. \A r \in references : FrameOf(r) # FrameOf(new)
      BY <1>4, <3>1, <3>5, FrameIs DEF Lent
    <3>7. Lent' = Lent \cup {cookie}
      BY <3>3, <3>4, <3>5 DEF Lent
    <3>8. FramesAreLentOnce'
      BY <1>4, <3>1, <3>3, <3>4, <3>5, <3>6, <3>7 DEF PipelineInv, FramesAreLentOnce
    <3> QED
      BY <1>4, <3>3, <3>4, <3>5, <3>8 DEF RequestsTyped
  <2> QED
    BY <2>1, <2>2, <2>3, <2>4
<1>6. CallHoldsFrame'
  BY <1>1, <1>5 DEF PipelineInv, CallHoldsFrame
<1>7. ConversionsHoldFrames'
  BY <1>1, <1>5, DevicesStay DEF PipelineInv, ConversionsHoldFrames
<1> QED
  BY <1>1, <1>2, <1>3, <1>5, <1>6, <1>7, DevicesStay DEF PipelineInv

\* PipelineInv is inductive.
LEMMA PipelineSteps == PipelineInv /\ [PipelineNext]_pipelineVars => PipelineInv'
<1> SUFFICES ASSUME PipelineInv, [PipelineNext]_pipelineVars PROVE PipelineInv'
  OBVIOUS
<1>1. CASE UNCHANGED pipelineVars
  <2>1. UNCHANGED requestVars /\ UNCHANGED v4l2Vars /\ UNCHANGED <<session, queued, references>>
    BY <1>1 DEF pipelineVars, requestVars
  <2>2. Complete
    BY <2>1 DEF Complete
  <2> QED
    BY <2>1, <2>2, CameraKeeps
<1>2. CASE V4l2Next
  <2>1. CASE CallNext
    BY <2>1, BuildKeeps, TakeEncoderKeeps, DropEncoderKeeps, DropConverterKeeps,
       AssignEncoderKeeps, ConvertKeeps, TakeToEncodeKeeps, PutBackKeeps DEF CallNext
  <2>2. ASSUME NEW v \in Converters, ConverterNext(v) PROVE PipelineInv'
    BY <2>2, FinishKeeps, LockKeeps, ForwardKeeps, Names DEF ConverterNext
  <2>3. ASSUME NEW e \in Encoders, EncoderThreadNext(e) PROVE PipelineInv'
    BY <2>3, FinishKeeps, ReadCallbackKeeps, ReportKeeps, Names DEF EncoderThreadNext
  <2> QED
    BY <1>2, <2>1, <2>2, <2>3, InitEncodeKeeps, ReleaseKeeps, RegisterCallbackKeeps,
       SetRatesKeeps, DropFrameKeeps, EncodeNativeKeeps, EncodeMmapKeeps DEF V4l2Next
<1>3. CASE (BeginSession \/ Queue \/ Complete \/ Lend) /\ UNCHANGED v4l2Vars
  BY <1>3, CameraKeeps
<1> QED
  BY <1>1, <1>2, <1>3 DEF PipelineNext

\* PipelineInv holds of every behaviour.
LEMMA PipelineInvHolds == PipelineSpec => []PipelineInv
  BY PipelineStarts, PipelineSteps, PTL DEF PipelineSpec

\* A converter reads a frame only while the camera has lent it and has not got it back,
\* for any number of requests and devices.
THEOREM ConversionsReadLentFrames == PipelineSpec => []ConversionsReadTheirFrames
<1>1. ASSUME PipelineInv PROVE ConversionsReadTheirFrames
  <2> SUFFICES ASSUME NEW v \in Converters, NEW i \in DOMAIN devices[v].jobs,
                      devices[v].jobs[i].frame.session = session
               PROVE  LET frame == devices[v].jobs[i].frame
                      IN  frame.cookie \in Lent /\ frame.cookie \notin queued
    BY DEF ConversionsReadTheirFrames
  <2>1. v \in Devices /\ Busy(v)
    BY Names DEF Busy
  <2>2. i = 1 /\ JobOf(v).frame # Plain /\ JobOf(v).frame \in NativeFrames
    BY <1>1, <2>1, JobIs
  <2>3. PICK h \in References : FrameOf(h) = JobOf(v).frame /\ h.holder = "convert"
    BY <2>2, OneHeld
  <2>4. h \in references
    BY <1>1, <2>1, <2>3 DEF PipelineInv, ConversionsHoldFrames
  <2>5. h.session = session /\ h.cookie = JobOf(v).frame.cookie
    BY <2>2, <2>3, FrameIs DEF JobOf
  <2>6. h.cookie \in Lent
    BY <2>4, <2>5 DEF Lent
  <2> QED
    BY <1>1, <2>2, <2>5, <2>6 DEF PipelineInv, FramesAreLentOnce, JobOf
<1> QED
  BY <1>1, PipelineInvHolds, PTL

\* A device is given only what it was opened for, for any sizes and any failures.
THEOREM DevicesHaveFormat == PipelineSpec => []DevicesGetTheirFormat
<1>1. ASSUME PipelineInv PROVE DevicesGetTheirFormat
  <2> SUFFICES ASSUME NEW d \in Devices, NEW i \in DOMAIN devices[d].jobs
               PROVE  devices[d].jobs[i].format = devices[d].format
    BY DEF DevicesGetTheirFormat
  <2>1. Busy(d)
    BY DEF Busy
  <2> QED
    BY <1>1, <2>1, JobIs
<1> QED
  BY <1>1, PipelineInvHolds, PTL

\* Once release has returned, no device is open and no frame is kept by the encoder.
THEOREM QuietAfterRelease == PipelineSpec => []ReleasedIsQuiet
<1>1. ASSUME PipelineInv PROVE ReleasedIsQuiet
  <2> SUFFICES ASSUME call = Idle, shared = Nothing
               PROVE  /\ \A d \in Devices : devices[d] = Closed
                      /\ \A r \in references : r.holder = "track"
    BY DEF ReleasedIsQuiet
  <2>1. Used = {}
    BY <1>1, IdleIs DEF PipelineInv, CallReplaces, Used
  <2>2. \A d \in Devices : devices[d] = Closed
    BY <1>1, <2>1, UsedAre
  <2>3. \A v \in Converters : ~Busy(v)
    BY <2>2, ClosedIs, Names DEF Busy
  <2>4. ASSUME NEW r \in references PROVE r.holder = "track"
    BY <1>1, <2>3, IdleIs, FrameIs
       DEF PipelineInv, RequestsTyped, CallHoldsFrame, ConversionsHoldFrames
  <2> QED
    BY <2>2, <2>4
<1> QED
  BY <1>1, PipelineInvHolds, PTL

\* What a call, its devices and their threads keep is of its type.
THEOREM PipelineTypeCorrect == PipelineSpec => []V4l2TypeOK
<1>1. PipelineInv => V4l2TypeOK
  BY DEF PipelineInv
<1> QED
  BY <1>1, PipelineInvHolds, PTL

-----------------------------------------------------------------------------
(* OpenH264                                                                *)

Openh264Handler ==
  [encoder : {Absent} \cup [set : Settings, fresh : BOOLEAN], callback : BOOLEAN,
   size : PictureSizes \cup {Absent}, target : Bitrates, max : Bitrates,
   reconfigure_needed : BOOLEAN, paused : BOOLEAN, force_idr_on_resume : BOOLEAN]

\* A handler's encoder is set to what the next frame of its size needs, or is replaced
\* before it gets that frame.
IsSet(h) ==
  h.encoder = Absent \/ h.reconfigure_needed \/ h.encoder.set = Setting(h.size, h.target)

\* A key frame comes first: it is asked for, or the encoder is new, or is going to be.
StartsWithKey(h) == h.force_idr_on_resume \/ h.encoder = Absent \/ h.encoder.fresh

Openh264Inv ==
  /\ Openh264TypeOK
  /\ h264Encoder # Absent /\ ~initFailed =>
       /\ IsSet(h264Encoder)
       /\ resumed => StartsWithKey(h264Encoder)
  /\ PausesEndWithKeyFrame
  /\ ImagesFitTheirEncoder

\* A handler that is not Absent is one.
LEMMA HandlerIsTyped ==
  ASSUME Openh264TypeOK, h264Encoder # Absent
  PROVE  h264Encoder \in Openh264Handler
  BY DEF Openh264TypeOK, Openh264Handler

\* Rates are rates.
LEMMA RatesAreTyped ==
  /\ 1 \in Bitrates /\ FirstBitrate \in Bitrates
  /\ \A r \in Nat : AtMost(r) \in Bitrates
  /\ \A s \in PictureSizes, r \in Bitrates : Setting(s, r) \in Settings
  BY Openh264Assumption DEF Openh264Assumption, Bitrates, AtMost, Setting, Settings

\* A new encoder of the library's is set to what its handler asks for and begins with a
\* key frame.
LEMMA RebuiltIsSet ==
  ASSUME NEW h \in Openh264Handler, h.size \in PictureSizes
  PROVE  /\ Rebuilt(h) \in Openh264Handler
         /\ Rebuilt(h).encoder = [set |-> Setting(h.size, h.target), fresh |-> TRUE]
         /\ Rebuilt(h).size = h.size /\ Rebuilt(h).target = h.target
         /\ IsSet(Rebuilt(h)) /\ StartsWithKey(Rebuilt(h))
<1>1. 2 * h.target \in Nat
  BY Openh264Assumption DEF Openh264Handler, Bitrates, Openh264Assumption
<1>2. AtMost(2 * h.target) \in Bitrates /\ Setting(h.size, h.target) \in Settings
  BY <1>1, RatesAreTyped DEF Openh264Handler
<1> QED
  BY <1>2 DEF Rebuilt, Openh264Handler, IsSet, StartsWithKey

\* Before the library gets a frame its encoder is set to it, and a key frame that is owed
\* stays so.
LEMMA PreparedIsSet ==
  ASSUME Openh264Inv, h264Encoder # Absent, ~initFailed, NEW size \in PictureSizes
  PROVE  /\ Prepared(size) \in Openh264Handler
         /\ Prepared(size).encoder \in [set : Settings, fresh : BOOLEAN]
         /\ Prepared(size).encoder.set = Setting(size, Prepared(size).target)
         /\ Prepared(size).size = size
         /\ resumed => Prepared(size).force_idr_on_resume \/ Prepared(size).encoder.fresh
<1> DEFINE h == [h264Encoder EXCEPT !.size = size,
                   !.reconfigure_needed = @ \/ h264Encoder.size # size]
<1>1. h264Encoder \in Openh264Handler
  BY HandlerIsTyped DEF Openh264Inv
<1>2. /\ h \in Openh264Handler /\ h.size = size
      /\ h.encoder = h264Encoder.encoder /\ h.target = h264Encoder.target
      /\ h.force_idr_on_resume = h264Encoder.force_idr_on_resume
      /\ h.reconfigure_needed = (h264Encoder.reconfigure_needed \/ h264Encoder.size # size)
  BY <1>1 DEF Openh264Handler
<1>3. CASE h.reconfigure_needed \/ h.encoder = Absent
  <2>1. Prepared(size) = Rebuilt(h)
    BY <1>3 DEF Prepared
  <2>2. Setting(size, h.target) \in Settings
    BY <1>2, RatesAreTyped DEF Openh264Handler
  <2> HIDE DEF h
  <2>3. /\ Rebuilt(h) \in Openh264Handler /\ Rebuilt(h).size = size
        /\ Rebuilt(h).target = h.target
        /\ Rebuilt(h).encoder = [set |-> Setting(size, h.target), fresh |-> TRUE]
    BY <1>2, RebuiltIsSet
  <2> QED
    BY <2>1, <2>2, <2>3
<1>4. CASE ~(h.reconfigure_needed \/ h.encoder = Absent)
  <2>1. Prepared(size) = h
    BY <1>4 DEF Prepared
  <2>2. IsSet(h264Encoder) /\ (resumed => StartsWithKey(h264Encoder))
    BY DEF Openh264Inv
  <2>3. /\ ~h.reconfigure_needed /\ h.encoder # Absent /\ h264Encoder.size = size
        /\ ~h264Encoder.reconfigure_needed
    BY <1>2, <1>4
  <2>4. h.encoder \in [set : Settings, fresh : BOOLEAN]
    BY <1>2, <2>3 DEF Openh264Handler
  <2>5. h.encoder.set = Setting(size, h.target)
    BY <1>2, <2>2, <2>3 DEF IsSet
  <2>6. resumed => h.force_idr_on_resume \/ h.encoder.fresh
    BY <1>2, <2>2, <2>3 DEF StartsWithKey
  <2> HIDE DEF h
  <2> QED
    BY <2>1, <2>4, <2>5, <2>6, <1>2
<1> QED
  BY <1>3, <1>4

\* A handler that has done nothing owes nothing.
LEMMA Openh264Starts == Openh264Init => Openh264Inv
<1> SUFFICES ASSUME Openh264Init PROVE Openh264Inv
  OBVIOUS
<1>1. 2 * FirstBitrate \in Nat
  BY Openh264Assumption DEF Openh264Assumption
<1>2. NewEncoderHandler \in Openh264Handler /\ NewEncoderHandler.encoder = Absent
  BY <1>1, RatesAreTyped DEF NewEncoderHandler, Openh264Handler
<1>3. NewDecoderHandler \in [decoder : BOOLEAN, callback : BOOLEAN]
  BY DEF NewDecoderHandler
<1> QED
  BY <1>2, <1>3
  DEF Openh264Init, Openh264Inv, Openh264TypeOK, Openh264Handler, IsSet, StartsWithKey,
      PausesEndWithKeyFrame, ImagesFitTheirEncoder

\* init_encode starts afresh: an encoder for the new settings, or none that is used.
LEMMA InitKeepsKey ==
  ASSUME Openh264Inv, NEW size \in PictureSizes, NEW start \in Bitrates,
         InitOpenh264(size, start)
  PROVE  Openh264Inv'
<1> DEFINE h == [h264Encoder EXCEPT !.size = size, !.target = start,
                                    !.paused = FALSE, !.force_idr_on_resume = FALSE]
<1>1. h264Encoder \in Openh264Handler
  BY HandlerIsTyped DEF Openh264Inv, InitOpenh264
<1>2. h \in Openh264Handler /\ h.size = size
  BY <1>1 DEF Openh264Handler
<1>3. \/ h264Encoder' = Rebuilt(h) /\ UNCHANGED initFailed
      \/ h264Encoder' = h /\ initFailed' = TRUE
  BY DEF InitOpenh264
<1>4. UNCHANGED <<h264Decoder, image, resumed>>
  BY DEF InitOpenh264
<1> HIDE DEF h
<1> QED
  BY <1>2, <1>3, <1>4, RebuiltIsSet
  DEF Openh264Inv, Openh264TypeOK, Openh264Handler, PausesEndWithKeyFrame, ImagesFitTheirEncoder

\* encode prepares the encoder for the frame, and of the first output after a pause it makes
\* no image or a key frame.
LEMMA EncodeKeepsKey ==
  ASSUME Openh264Inv, NEW size \in PictureSizes, NEW key \in BOOLEAN,
         EncodeOpenh264(size, key)
  PROVE  Openh264Inv'
<1> DEFINE h == Prepared(size)
           forced == key \/ h.force_idr_on_resume \/ h.encoder.fresh
           old == [h264Encoder EXCEPT !.size = size,
                     !.reconfigure_needed = @ \/ h264Encoder.size # size]
           given == [h EXCEPT !.encoder.fresh = FALSE, !.force_idr_on_resume = FALSE]
<1>1. h264Encoder \in Openh264Handler /\ h264Encoder # Absent /\ ~initFailed
  BY HandlerIsTyped DEF Openh264Inv, EncodeOpenh264
<1>2. /\ h \in Openh264Handler
      /\ h.encoder \in [set : Settings, fresh : BOOLEAN]
      /\ h.encoder.set = Setting(size, h.target)
      /\ h.size = size
      /\ resumed => h.force_idr_on_resume \/ h.encoder.fresh
  BY <1>1, PreparedIsSet
<1>3. UNCHANGED <<h264Decoder, initFailed>>
  BY DEF EncodeOpenh264
<1>4. CASE /\ h264Encoder' = old
           /\ old.reconfigure_needed \/ h264Encoder.encoder = Absent
           /\ UNCHANGED <<image, resumed>>
  <2>1. /\ old \in Openh264Handler /\ old.encoder = h264Encoder.encoder
        /\ old.force_idr_on_resume = h264Encoder.force_idr_on_resume
    BY <1>1 DEF Openh264Handler
  <2> HIDE DEF old
  <2> QED
    BY <1>1, <1>3, <1>4, <2>1
    DEF Openh264Inv, Openh264TypeOK, Openh264Handler, IsSet, StartsWithKey,
        PausesEndWithKeyFrame, ImagesFitTheirEncoder
<1>5. CASE /\ h264Encoder' \in {[h EXCEPT !.reconfigure_needed = TRUE], h}
           /\ UNCHANGED <<image, resumed>>
  <2>1. /\ h264Encoder' \in Openh264Handler
        /\ IsSet(h264Encoder') /\ (resumed => StartsWithKey(h264Encoder'))
    <3> HIDE DEF h
    <3> QED
      BY <1>2, <1>5 DEF Openh264Handler, IsSet, StartsWithKey
  <2> QED
    BY <1>3, <1>5, <2>1
    DEF Openh264Inv, Openh264TypeOK, Openh264Handler, PausesEndWithKeyFrame,
        ImagesFitTheirEncoder
<1>6. CASE /\ h264Encoder' = given
           /\ \E frame \in {"key"} \cup (IF forced THEN {} ELSE {"delta"}) :
                image' = [frame |-> frame, first |-> resumed,
                          fits |-> h.encoder.set = Setting(size, h.target)]
           /\ resumed' = FALSE
  <2>1. given \in Openh264Handler /\ IsSet(given)
    <3> HIDE DEF h
    <3> QED
      BY <1>2 DEF Openh264Handler, IsSet
  <2>2. resumed => forced
    BY <1>2
  <2>3. resumed \in BOOLEAN
    BY DEF Openh264Inv, Openh264TypeOK
  <2>4. PICK frame \in {"key"} \cup (IF forced THEN {} ELSE {"delta"}) :
          image' = [frame |-> frame, first |-> resumed, fits |-> TRUE]
    BY <1>2, <1>6
  <2>5. /\ image'.fits
        /\ image'.first => image'.frame = "key"
        /\ image' \in [frame : {"key", "delta"}, first : BOOLEAN, fits : BOOLEAN]
    BY <2>2, <2>3, <2>4
  <2> HIDE DEF h, given, forced
  <2>6. PausesEndWithKeyFrame' /\ ImagesFitTheirEncoder'
    BY <2>5 DEF PausesEndWithKeyFrame, ImagesFitTheirEncoder
  <2>7. h264Encoder' = given /\ resumed' = FALSE
    BY <1>6
  <2>8. Openh264TypeOK'
    BY <1>3, <2>1, <2>5, <2>7 DEF Openh264Inv, Openh264TypeOK, Openh264Handler
  <2> QED
    BY <2>1, <2>6, <2>7, <2>8 DEF Openh264Inv
<1>7. CASE /\ \E fresh \in {h.encoder.fresh, FALSE} :
                h264Encoder' = [h EXCEPT !.encoder.fresh = fresh, !.force_idr_on_resume = FALSE]
           /\ resumed' = FALSE
           /\ UNCHANGED image
  <2> HIDE DEF h
  <2>1. h264Encoder' \in Openh264Handler /\ IsSet(h264Encoder')
    <3>1. PICK fresh \in BOOLEAN :
            h264Encoder' = [h EXCEPT !.encoder.fresh = fresh, !.force_idr_on_resume = FALSE]
      <4>1. h.encoder.fresh \in BOOLEAN
        BY <1>2
      <4> QED
        BY <1>7, <4>1
    <3>2. [h.encoder EXCEPT !.fresh = fresh] \in [set : Settings, fresh : BOOLEAN]
      BY <1>2
    <3>3. /\ h264Encoder' = [h EXCEPT !.encoder = [h.encoder EXCEPT !.fresh = fresh],
                                     !.force_idr_on_resume = FALSE]
          /\ [h.encoder EXCEPT !.fresh = fresh].set = h.encoder.set
      BY <1>2, <3>1
    <3> QED
      BY <1>2, <3>2, <3>3 DEF Openh264Handler, IsSet
  <2>2. Openh264TypeOK'
    BY <1>3, <1>7, <2>1 DEF Openh264Inv, Openh264TypeOK, Openh264Handler
  <2> QED
    BY <1>7, <2>1, <2>2 DEF Openh264Inv, PausesEndWithKeyFrame, ImagesFitTheirEncoder
<1> QED
  BY <1>4, <1>5, <1>6, <1>7 DEF EncodeOpenh264

\* set_rates notes the end of a pause, and that an encoder has to be set again.
LEMMA RatesKeepKey ==
  ASSUME Openh264Inv, NEW bitrate \in Bitrates, SetRatesOpenh264(bitrate)
  PROVE  Openh264Inv'
<1> DEFINE h == Paused(h264Encoder, bitrate)
           taken == [h EXCEPT !.target = bitrate]
<1>1. h264Encoder \in Openh264Handler /\ h264Encoder # Absent /\ ~initFailed
  BY HandlerIsTyped DEF Openh264Inv, SetRatesOpenh264
<1>2. /\ h \in Openh264Handler
      /\ h.encoder = h264Encoder.encoder /\ h.size = h264Encoder.size
      /\ h.target = h264Encoder.target
      /\ h.reconfigure_needed = h264Encoder.reconfigure_needed
      /\ h.force_idr_on_resume =
           (h264Encoder.force_idr_on_resume \/ (h264Encoder.paused /\ bitrate > 0))
  BY <1>1 DEF Openh264Handler, Paused
<1>3. resumed' = (resumed \/ (h264Encoder.paused /\ bitrate > 0))
  BY DEF SetRatesOpenh264
<1>4. resumed' => StartsWithKey(h)
  BY <1>1, <1>2, <1>3 DEF Openh264Inv, StartsWithKey
<1>5. UNCHANGED <<h264Decoder, initFailed, image>>
  BY DEF SetRatesOpenh264
<1>6. resumed' \in BOOLEAN
  BY <1>1, <1>3 DEF Openh264Inv, Openh264TypeOK, Openh264Handler
<1>7. /\ h264Encoder' \in Openh264Handler
      /\ IsSet(h264Encoder')
      /\ resumed' => StartsWithKey(h264Encoder')
  <2>1. IsSet(h264Encoder)
    BY <1>1 DEF Openh264Inv
  <2>2. CASE bitrate = 0 /\ h264Encoder' = h
    BY <1>2, <1>4, <2>1, <2>2 DEF IsSet
  <2>3. CASE bitrate > 0 /\ h264Encoder' = [taken EXCEPT !.reconfigure_needed = TRUE]
    <3> HIDE DEF h
    <3> QED
      BY <1>2, <1>4, <2>3 DEF IsSet, StartsWithKey, Openh264Handler
  <2>4. CASE /\ bitrate > 0 /\ h.encoder # Absent /\ bitrate < h.max
             /\ h264Encoder' = [taken EXCEPT !.encoder.set.rate = bitrate]
    <3>1. h.encoder \in [set : Settings, fresh : BOOLEAN]
      BY <1>2, <2>4 DEF Openh264Handler
    <3>2. /\ h264Encoder' \in Openh264Handler
          /\ h264Encoder'.encoder.set = [h.encoder.set EXCEPT !.rate = bitrate]
          /\ h264Encoder'.encoder.fresh = h.encoder.fresh
          /\ h264Encoder'.target = bitrate /\ h264Encoder'.size = h.size
          /\ h264Encoder'.force_idr_on_resume = h.force_idr_on_resume
          /\ h264Encoder'.reconfigure_needed = h.reconfigure_needed
      <4> HIDE DEF h
      <4> QED
        BY <1>2, <3>1, <2>4 DEF Openh264Handler, Settings
    <3>3. bitrate # 0
      BY <2>4 DEF Bitrates
    <3>4. StartsWithKey(h) => StartsWithKey(h264Encoder')
      BY <3>2, <2>4 DEF StartsWithKey
    <3>5. IsSet(h264Encoder')
      <4>1. h.reconfigure_needed \/ h.encoder.set = Setting(h.size, h.target)
        BY <1>2, <2>1, <2>4 DEF IsSet
      <4>2. Setting(h.size, bitrate) = [Setting(h.size, h.target) EXCEPT !.rate = bitrate]
        BY <3>3 DEF Setting
      <4> HIDE DEF h
      <4> QED
        BY <3>2, <4>1, <4>2 DEF IsSet
    <3> QED
      BY <1>4, <3>2, <3>4, <3>5
  <2> QED
    BY <2>2, <2>3, <2>4 DEF SetRatesOpenh264
<1> HIDE DEF h, taken
<1> QED
  BY <1>5, <1>6, <1>7
  DEF Openh264Inv, Openh264TypeOK, Openh264Handler, PausesEndWithKeyFrame, ImagesFitTheirEncoder

\* The rest: a callback, a release, and the decoder's calls.
LEMMA OthersKeepKey ==
  ASSUME Openh264Inv,
         \/ RegisterEncodeOpenh264 \/ ReleaseEncoderOpenh264 \/ ConfigureOpenh264
         \/ DecodeOpenh264 \/ RegisterDecodeOpenh264 \/ ReleaseDecoderOpenh264
  PROVE  Openh264Inv'
<1> USE DEF Openh264Inv, Openh264TypeOK, Openh264Handler, IsSet, StartsWithKey,
            PausesEndWithKeyFrame, ImagesFitTheirEncoder
<1>1. CASE RegisterEncodeOpenh264
  BY <1>1, HandlerIsTyped DEF RegisterEncodeOpenh264
<1>2. CASE ReleaseEncoderOpenh264
  BY <1>2, HandlerIsTyped DEF ReleaseEncoderOpenh264
<1>3. CASE \/ ConfigureOpenh264 \/ DecodeOpenh264
           \/ RegisterDecodeOpenh264 \/ ReleaseDecoderOpenh264
  <2>1. h264Decoder # Absent => h264Decoder \in [decoder : BOOLEAN, callback : BOOLEAN]
    OBVIOUS
  <2>2. /\ h264Decoder' \in [decoder : BOOLEAN, callback : BOOLEAN]
        /\ UNCHANGED <<h264Encoder, initFailed, image, resumed>>
    <3>1. CASE ConfigureOpenh264 \/ RegisterDecodeOpenh264
      BY <3>1, <2>1 DEF ConfigureOpenh264, RegisterDecodeOpenh264
    <3>3. CASE ReleaseDecoderOpenh264
      BY <3>3 DEF ReleaseDecoderOpenh264
    <3>2. CASE DecodeOpenh264
      <4>1. PICK made \in BOOLEAN :
              h264Decoder' = [h264Decoder EXCEPT !.decoder = @ \/ made]
        BY <3>2 DEF DecodeOpenh264
      <4>2. (h264Decoder.decoder \/ made) \in BOOLEAN
        OBVIOUS
      <4> QED
        BY <2>1, <3>2, <4>1 DEF DecodeOpenh264
    <3> QED
      BY <1>3, <3>1, <3>2, <3>3
  <2> QED
    BY <2>2
<1> QED
  BY <1>1, <1>2, <1>3

\* Openh264Inv holds of every behaviour.
LEMMA Openh264InvHolds == Openh264Spec => []Openh264Inv
<1>1. Openh264Inv /\ [Openh264Next]_openh264Vars => Openh264Inv'
  <2> SUFFICES ASSUME Openh264Inv, [Openh264Next]_openh264Vars PROVE Openh264Inv'
    OBVIOUS
  <2>1. CASE Openh264Next
    BY <2>1, InitKeepsKey, EncodeKeepsKey, RatesKeepKey, OthersKeepKey DEF Openh264Next
  <2>2. CASE UNCHANGED openh264Vars
    BY <2>2
    DEF openh264Vars, Openh264Inv, Openh264TypeOK, IsSet, StartsWithKey,
        PausesEndWithKeyFrame, ImagesFitTheirEncoder
  <2> QED
    BY <2>1, <2>2
<1> QED
  BY <1>1, Openh264Starts, PTL DEF Openh264Spec

\* The first output of OpenH264 after a pause gives a key frame or, if it is empty, no image,
\* for any sizes and bitrates and whatever fails in between.
THEOREM PauseEndsWithKey == Openh264Spec => []PausesEndWithKeyFrame
  BY Openh264InvHolds, PTL DEF Openh264Inv

-----------------------------------------------------------------------------
(* The wrapper that aligns frames                                          *)

\* Aligning down gives a multiple that is not larger.
LEMMA AlignsDown ==
  ASSUME NEW v \in Nat, NEW a \in Nat \ {0}
  PROVE  AlignDown(v, a) \in Nat /\ AlignDown(v, a) <= v /\ AlignDown(v, a) % a = 0
<1> DEFINE q == v \div a
<1>1. q \in Nat /\ v % a \in 0..a - 1 /\ v = a * q + (v % a)
  OBVIOUS
<1>2. AlignDown(v, a) = a * q
  BY <1>1 DEF AlignDown
<1>3. (a * q) % a = 0
  BY <1>1
<1> QED
  BY <1>1, <1>2, <1>3

IsAligned(size) ==
  /\ size.width % Alignment.width = 0 /\ size.height % Alignment.height = 0
  /\ size.width > 0 /\ size.height > 0

\* The encoder that is initialized has the target's size, and a frame was cut to it.
AlignedInv ==
  /\ AlignedTypeOK
  /\ target # Unaligned => IsAligned(target) /\ inner \in {target, Unaligned}
  /\ passed # NoCrop =>
       /\ target # Unaligned /\ passed.size = target
       /\ passed.x + target.width <= passed.frame.width
       /\ passed.y + target.height <= passed.frame.height
       /\ passed.x % 2 = 0 /\ passed.y % 2 = 0

\* What is not Unaligned is aligned.
LEMMA AppliedIsAligned ==
  ASSUME NEW ours, NEW size \in Pixels, NEW streams
  PROVE  LET applied == ApplyAlignment(ours, size, streams)
         IN  applied \in Pixels /\ (applied # Unaligned => IsAligned(applied))
<1> DEFINE aligned == [width |-> AlignDown(size.width, Alignment.width),
                       height |-> AlignDown(size.height, Alignment.height)]
<1>1. /\ size.width \in Nat /\ size.height \in Nat
      /\ Alignment.width \in Nat \ {0} /\ Alignment.height \in Nat \ {0}
  BY AlignmentAssumption DEF AlignmentAssumption, Pixels
<1>2. /\ aligned \in Pixels
      /\ aligned.width % Alignment.width = 0 /\ aligned.height % Alignment.height = 0
  BY <1>1, AlignsDown DEF Pixels
<1>3. Unaligned \in Pixels
  BY DEF Unaligned, Pixels
<1>4. CASE ApplyAlignment(ours, size, streams) = Unaligned
  BY <1>3, <1>4
<1>5. CASE ApplyAlignment(ours, size, streams) = aligned /\ aligned.width > 0 /\ aligned.height > 0
  BY <1>2, <1>5 DEF IsAligned
<1>6. \/ ApplyAlignment(ours, size, streams) = Unaligned
      \/ ApplyAlignment(ours, size, streams) = aligned /\ aligned.width > 0 /\ aligned.height > 0
  BY DEF ApplyAlignment
<1> QED
  BY <1>4, <1>5, <1>6

\* A crop from the middle, at an even place, is within the frame.
LEMMA CropsWithin ==
  ASSUME NEW side \in Nat, NEW cut \in Nat, cut <= side
  PROVE  LET half == (side - cut) \div 2
             at == half - (half % 2)
         IN  at \in Nat /\ at % 2 = 0 /\ at + cut <= side
<1> DEFINE half == (side - cut) \div 2
<1>1. half \in Nat /\ half + cut <= side /\ half % 2 \in 0..1
  OBVIOUS
<1> HIDE DEF half
<1>2. (half - (half % 2)) % 2 = 0 /\ half - (half % 2) \in Nat
  BY <1>1
<1> QED
  BY <1>1, <1>2 DEF half

\* Nothing is initialized to begin with.
LEMMA AlignedStarts == AlignedInit => AlignedInv
  BY DEF AlignedInit, AlignedInv, AlignedTypeOK, Unaligned, NoCrop, Pixels

\* Whoever aligns, what is initialized is aligned and a frame is cut to it.
LEMMA AlignedStep == AlignedInv /\ [AlignedNext]_alignedVars => AlignedInv'
<1> SUFFICES ASSUME AlignedInv, [AlignedNext]_alignedVars PROVE AlignedInv'
  OBVIOUS
<1>1. /\ AnySize \subseteq Pixels /\ Unaligned \in Pixels
      /\ NoCrop \in [size : Pixels, frame : Pixels, x : Nat, y : Nat]
  BY AlignmentAssumption DEF AlignmentAssumption, AnySize, Pixels, NoCrop, Unaligned
<1>2. ASSUME NEW ours, NEW size \in Pixels, NEW streams, InitAligned(ours, size, streams)
      PROVE  AlignedInv'
  <2>1. target' \in Pixels /\ (target' # Unaligned => IsAligned(target'))
    BY <1>2, AppliedIsAligned DEF InitAligned
  <2>2. /\ target' = Unaligned => inner' = inner
        /\ target' # Unaligned => inner' \in {target', Unaligned}
        /\ passed' = NoCrop
    BY <1>2 DEF InitAligned
  <2> QED
    BY <1>1, <2>1, <2>2 DEF AlignedInv, AlignedTypeOK, IsAligned
<1>3. ASSUME NEW frame \in Pixels, EncodeAligned(frame)
      PROVE  AlignedInv'
  <2>1. UNCHANGED <<target, inner>>
    BY <1>3 DEF EncodeAligned
  <2>2. CASE passed' = NoCrop
    BY <1>1, <2>1, <2>2 DEF AlignedInv, AlignedTypeOK, IsAligned
  <2>3. CASE passed' # NoCrop
    <3>1. /\ target # Unaligned
          /\ ~(frame.width < target.width \/ frame.height < target.height)
      BY <1>3, <2>3 DEF EncodeAligned, AlignedFrame
    <3> DEFINE halfX == (frame.width - target.width) \div 2
               halfY == (frame.height - target.height) \div 2
    <3>2. passed' = [size |-> target, frame |-> frame,
                     x |-> halfX - (halfX % 2), y |-> halfY - (halfY % 2)]
      BY <1>3, <3>1 DEF EncodeAligned, AlignedFrame
    <3>3. /\ frame.width \in Nat /\ frame.height \in Nat /\ target \in Pixels
          /\ target.width \in Nat /\ target.height \in Nat
      BY DEF AlignedInv, AlignedTypeOK, Pixels
    <3>4. target.width <= frame.width /\ target.height <= frame.height
      BY <3>1, <3>3
    <3>5. /\ halfX - (halfX % 2) \in Nat /\ (halfX - (halfX % 2)) % 2 = 0
          /\ halfX - (halfX % 2) + target.width <= frame.width
          /\ halfY - (halfY % 2) \in Nat /\ (halfY - (halfY % 2)) % 2 = 0
          /\ halfY - (halfY % 2) + target.height <= frame.height
      BY <3>3, <3>4, CropsWithin
    <3> HIDE DEF halfX, halfY
    <3>6. /\ passed' \in [size : Pixels, frame : Pixels, x : Nat, y : Nat]
          /\ passed'.size = target /\ passed'.frame = frame
          /\ passed'.x = halfX - (halfX % 2) /\ passed'.y = halfY - (halfY % 2)
      BY <3>2, <3>3, <3>5
    <3> QED
      BY <2>1, <3>1, <3>5, <3>6 DEF AlignedInv, AlignedTypeOK, IsAligned
  <2> QED
    BY <2>2, <2>3
<1>4. CASE ReleaseAligned
  BY <1>1, <1>4 DEF ReleaseAligned, AlignedInv, AlignedTypeOK, IsAligned
<1>5. CASE UNCHANGED alignedVars
  BY <1>5 DEF alignedVars, AlignedInv, AlignedTypeOK, IsAligned
<1> QED
  BY <1>1, <1>2, <1>3, <1>4, <1>5 DEF AlignedNext

\* AlignedInv holds of every behaviour.
LEMMA AlignedInvHolds == AlignedSpec => []AlignedInv
  BY AlignedStarts, AlignedStep, PTL DEF AlignedSpec

\* What AlignedInv says of a frame that was passed on is what the encoder needs.
LEMMA AlignedFits == AlignedInv => FramesAreAligned
  BY DEF AlignedInv, FramesAreAligned, IsAligned, AlignedTypeOK, Pixels

-----------------------------------------------------------------------------
(* The handlers of vendor hardware                                         *)

HandlerRecords ==
  [file : Decoding, side : {"encoder", "decoder"},
   size : FrameSizes \cup {Unset}, rate : Rates \cup {Unset},
   rebuild_needed : BOOLEAN, reconfigure_needed : BOOLEAN]
RequestRecords ==
  [kind : {"none", "init", "encode", "configure", "decode", "release"},
   at : {"idle", "failed", "rebuild", "reconfigure", "drop", "submit"},
   old : SUBSET Engines]
EngineRecords ==
  [config : Configs, inputs : Seq(Inputs), thread : {"works", "waits", "calls"}, open : BOOLEAN]

\* Only what a call replaces is kept beside the engine.
EnginesAreHeld ==
  /\ engine # Unset => engines[engine].open /\ engine \notin request.old
  /\ \A e \in Engines : engines[e].open => e = engine \/ e \in request.old
  /\ \A e \in Engines : ~engines[e].open => engines[e] = Missing
  /\ request.at # "drop" => request.old = {}

\* Who is in libwebrtc's callback holds the mutex.
ThreadsHoldMutex ==
  \A e \in Engines :
    /\ engines[e].thread # "works" => engines[e].inputs # <<>>
    /\ engines[e].thread = "calls" => mutex = e /\ registered

\* Except while init_encode has not built its engine, the flags say what the engine lacks.
FlagsTellEngine ==
  (engine # Unset /\ ~handler.rebuild_needed /\ request.at # "failed"
     /\ ~(request.kind = "init" /\ request.at = "rebuild")) =>
    /\ engines[engine].config.size = handler.size
    /\ ~handler.reconfigure_needed => engines[engine].config.rate = handler.rate

\* What a call has done by its next step.
CallsGoOn ==
  /\ request.at = "reconfigure" => engine # Unset /\ ~handler.rebuild_needed
  /\ request.at \in {"idle", "failed"} => request.kind = "none"
  /\ (request.at = "submit" \/ (request.at = "drop" /\ request.kind # "release")) =>
       engine # Unset /\ ~handler.rebuild_needed /\ ~handler.reconfigure_needed

\* A decoder has neither size nor rate, and no flag of its is ever set.
DecodersAreBare ==
  handler.side = "decoder" =>
    /\ handler.size = Unset /\ handler.rate = Unset
    /\ ~handler.rebuild_needed /\ ~handler.reconfigure_needed

HardwareInv ==
  /\ HardwareTypeOK /\ EnginesAreHeld /\ ThreadsHoldMutex /\ FlagsTellEngine /\ CallsGoOn
  /\ DecodersAreBare /\ FramesMeetTheirEngine

\* The type invariant, by the names of its record sets.
LEMMA TypeParts ==
  HardwareTypeOK <=>
    /\ handler \in HandlerRecords /\ engine \in Engines \cup {Unset}
    /\ request \in RequestRecords /\ mutex \in {"free"} \cup Engines
    /\ registered \in BOOLEAN /\ engines \in [Engines -> EngineRecords]
  BY DEF HardwareTypeOK, HandlerRecords, RequestRecords, EngineRecords

\* An engine that is not there is typed, and idle.
LEMMA MissingIsTyped == Missing \in EngineRecords /\ Missing.inputs = <<>>
                        /\ Missing.thread = "works" /\ ~Missing.open
  BY DEF Missing, EngineRecords, Unconfigured, Configs, Inputs

\* A handler that has done nothing has no engine.
LEMMA HardwareStarts == HardwareInit => HardwareInv
<1> SUFFICES ASSUME HardwareInit PROVE HardwareInv
  OBVIOUS
<1>1. HardwareTypeOK
  BY MissingIsTyped, TypeParts DEF HardwareInit, HandlerRecords, RequestRecords, Quiet,
       Encoding,
     Decoding
<1>2. EnginesAreHeld
  BY MissingIsTyped DEF HardwareInit, EnginesAreHeld, Quiet
<1>3. ThreadsHoldMutex
  BY MissingIsTyped DEF HardwareInit, ThreadsHoldMutex
<1>4. FlagsTellEngine
  BY DEF HardwareInit, FlagsTellEngine
<1>5. CallsGoOn
  BY DEF HardwareInit, CallsGoOn, Quiet
<1>6. DecodersAreBare
  BY DEF HardwareInit, DecodersAreBare
<1>7. FramesMeetTheirEngine
  BY MissingIsTyped DEF HardwareInit, FramesMeetTheirEngine
<1> QED
  BY <1>1, <1>2, <1>3, <1>4, <1>5, <1>6, <1>7 DEF HardwareInv

\* init_encode sets what is wanted and asks for an engine.
LEMMA InitWithKeeps ==
  ASSUME HardwareInv, NEW size \in FrameSizes, NEW rate \in Rates, InitWith(size, rate),
         handler.side = "encoder"
  PROVE  HardwareInv'
<1>0. /\ handler \in HandlerRecords /\ request \in RequestRecords
      /\ engines \in [Engines -> EngineRecords] /\ request.at = "idle"
      /\ handler' = [handler EXCEPT !.size = size, !.rate = rate]
      /\ request' = [request EXCEPT !.kind = "init", !.at = "rebuild"]
      /\ UNCHANGED <<engine, mutex, registered, engines>>
  BY TypeParts DEF HardwareInv, InitWith, Step
<1>1. handler' \in HandlerRecords
  BY <1>0 DEF HandlerRecords
<1>2. request' \in RequestRecords /\ request'.at = "rebuild" /\ request'.kind = "init"
      /\ request'.old = request.old
  BY <1>0 DEF RequestRecords
<1>3. handler'.side = "encoder"
  BY <1>0 DEF HandlerRecords
<1>4. HardwareTypeOK'
  BY <1>0, <1>1, <1>2 DEF HardwareInv, HardwareTypeOK, HandlerRecords, RequestRecords
<1>5. EnginesAreHeld'
  BY <1>0, <1>2 DEF HardwareInv, EnginesAreHeld
<1>6. (ThreadsHoldMutex /\ FramesMeetTheirEngine)'
  BY <1>0 DEF HardwareInv, ThreadsHoldMutex, FramesMeetTheirEngine
<1>7. (FlagsTellEngine /\ CallsGoOn /\ DecodersAreBare)'
  BY <1>2, <1>3 DEF FlagsTellEngine, CallsGoOn, DecodersAreBare
<1> QED
  BY <1>4, <1>5, <1>6, <1>7 DEF HardwareInv

\* encode sees by the flags and the size of the frame what the engine lacks.
LEMMA EncodeKeeps ==
  ASSUME HardwareInv, NEW size \in FrameSizes, EncodeAt(size), handler.side = "encoder"
  PROVE  HardwareInv'
<1> DEFINE needs == handler.rebuild_needed \/ handler.size # size \/ engine = Unset
<1> DEFINE at == IF needs THEN "rebuild"
                 ELSE IF handler.reconfigure_needed THEN "reconfigure" ELSE "submit"
<1>0. /\ handler \in HandlerRecords /\ request \in RequestRecords
      /\ engines \in [Engines -> EngineRecords] /\ request.at = "idle"
      /\ handler' = [handler EXCEPT !.size = size, !.rebuild_needed = needs]
      /\ UNCHANGED <<engine, mutex, registered, engines>>
  BY TypeParts DEF HardwareInv, EncodeAt
<1>1. /\ handler' \in HandlerRecords /\ handler'.rebuild_needed = needs /\ handler'.size = size
      /\ handler'.side = "encoder" /\ handler'.rate = handler.rate
      /\ handler'.reconfigure_needed = handler.reconfigure_needed
  BY <1>0 DEF HandlerRecords
<1>2. request' = [request EXCEPT !.kind = "encode", !.at = at]
  BY <1>1 DEF EncodeAt, Step
<1>3. request' \in RequestRecords /\ request'.at = at /\ request'.kind = "encode"
      /\ request'.old = request.old
  BY <1>0, <1>2 DEF RequestRecords
<1>4. HardwareTypeOK'
  BY <1>0, <1>1, <1>3 DEF HardwareInv, HardwareTypeOK, HandlerRecords, RequestRecords
<1>5. EnginesAreHeld'
  BY <1>0, <1>3 DEF HardwareInv, EnginesAreHeld
<1>6. (ThreadsHoldMutex /\ FramesMeetTheirEngine)'
  BY <1>0 DEF HardwareInv, ThreadsHoldMutex, FramesMeetTheirEngine
<1>7. FlagsTellEngine'
  <2> SUFFICES ASSUME engine' # Unset, ~handler'.rebuild_needed
               PROVE  FlagsTellEngine'
    BY DEF FlagsTellEngine
  <2>1. request.kind = "none"
    BY <1>0 DEF HardwareInv, CallsGoOn
  <2>2. ~handler.rebuild_needed /\ handler.size = size /\ engine # Unset
    BY <1>0, <1>1
  <2> QED
    BY <1>0, <1>1, <2>1, <2>2 DEF HardwareInv, FlagsTellEngine
<1>8. CallsGoOn'
  <2>1. CASE needs
    BY <1>3, <2>1 DEF CallsGoOn
  <2>2. CASE ~needs
    <3>1. engine' # Unset /\ ~handler'.rebuild_needed
      BY <1>0, <1>1, <2>2
    <3>2. at = "submit" => ~handler'.reconfigure_needed
      BY <1>1
    <3>3. at \in {"reconfigure", "submit"}
      BY <2>2
    <3> QED
      BY <1>3, <3>1, <3>2, <3>3 DEF CallsGoOn
  <2> QED
    BY <2>1, <2>2
<1>9. DecodersAreBare'
  BY <1>1 DEF DecodersAreBare
<1> QED
  BY <1>4, <1>5, <1>6, <1>7, <1>8, <1>9 DEF HardwareInv

\* A new engine is configured for what is wanted; one that cannot be built leaves none.
LEMMA RebuildKeeps ==
  ASSUME HardwareInv, Rebuild
  PROVE  HardwareInv'
<1> USE HardwareAssumption DEF HardwareInv
<1>0. /\ handler \in HandlerRecords /\ request \in RequestRecords
      /\ engines \in [Engines -> EngineRecords] /\ request.at = "rebuild"
      /\ UNCHANGED <<mutex, registered>> /\ request.old = {}
  BY TypeParts DEF Rebuild, EnginesAreHeld
<1>1. CASE Failed /\ UNCHANGED <<handler, engine, engines>>
  <2>1. request' = [kind |-> "none",
                    at |-> IF request.kind = "init" THEN "failed" ELSE "idle", old |-> {}]
    BY <1>1 DEF Failed, Quiet
  <2>2. HardwareTypeOK'
    BY <1>0, <1>1, <2>1 DEF HardwareTypeOK
  <2>3. EnginesAreHeld'
    BY <1>0, <1>1, <2>1 DEF EnginesAreHeld
  <2>4. (ThreadsHoldMutex /\ FramesMeetTheirEngine /\ DecodersAreBare)'
    BY <1>0, <1>1 DEF ThreadsHoldMutex, FramesMeetTheirEngine, DecodersAreBare
  <2>5. FlagsTellEngine'
    BY <1>0, <1>1, <2>1 DEF FlagsTellEngine
  <2>6. CallsGoOn'
    BY <2>1 DEF CallsGoOn
  <2> QED
    BY <2>2, <2>3, <2>4, <2>5, <2>6
<1>2. CASE ~(Failed /\ UNCHANGED <<handler, engine, engines>>)
  <2> DEFINE new == CHOOSE e \in Engines : ~engines[e].open
  <2> DEFINE made == [config |-> Wanted, inputs |-> <<>>, thread |-> "works", open |-> TRUE]
  <2>0. /\ engines' = [engines EXCEPT ![new] = made]
        /\ engine' = new
        /\ handler' = [handler EXCEPT !.rebuild_needed = FALSE, !.reconfigure_needed = FALSE]
        /\ request' = [request EXCEPT !.at = "drop", !.old = {engine} \ {Unset}]
    BY <1>2 DEF Rebuild
  <2>1. \E e \in Engines : ~engines[e].open
    BY <1>0 DEF EnginesAreHeld, HardwareTypeOK
  <2>2. new \in Engines /\ ~engines[new].open /\ new # Unset
    BY <2>1
  <2>3. new # engine
    BY <2>2 DEF EnginesAreHeld
  <2>4. made \in EngineRecords /\ made.inputs = <<>> /\ made.thread = "works" /\ made.open
        /\ made.config.size = handler.size /\ made.config.rate = handler.rate
    BY <1>0 DEF EngineRecords, HandlerRecords, Wanted, Configs
  <2> HIDE DEF new, made
  <2>5. engines'[new] = made /\ \A e \in Engines : e # new => engines'[e] = engines[e]
    BY <1>0, <2>0, <2>2
  <2>6. /\ handler' \in HandlerRecords
        /\ ~handler'.rebuild_needed /\ ~handler'.reconfigure_needed
        /\ handler'.size = handler.size /\ handler'.rate = handler.rate
        /\ handler'.side = handler.side
    BY <1>0, <2>0 DEF HandlerRecords
  <2>7. {engine} \ {Unset} \in SUBSET Engines
    BY DEF HardwareTypeOK
  <2>8. /\ request' \in RequestRecords /\ request'.at = "drop"
        /\ request'.kind = request.kind /\ request'.old = {engine} \ {Unset}
    BY <1>0, <2>0, <2>7 DEF RequestRecords
  <2>9. engines' \in [Engines -> EngineRecords]
    BY <1>0, <2>0, <2>4
  <2>10. HardwareTypeOK'
    BY <1>0, <2>0, <2>2, <2>6, <2>8, <2>9, TypeParts
       DEF HardwareTypeOK, HandlerRecords, RequestRecords, EngineRecords
  <2>11. EnginesAreHeld'
    <3>1. engine' # Unset => engines'[engine'].open /\ engine' \notin request'.old
      BY <2>0, <2>3, <2>4, <2>5, <2>8
    <3>2. ASSUME NEW e \in Engines, engines'[e].open
          PROVE  e = engine' \/ e \in request'.old
      BY <1>0, <2>0, <2>2, <2>5, <2>8, <3>2 DEF EnginesAreHeld
    <3>3. \A e \in Engines : ~engines'[e].open => engines'[e] = Missing
      BY <2>4, <2>5 DEF EnginesAreHeld
    <3> QED
      BY <2>8, <3>1, <3>2, <3>3 DEF EnginesAreHeld
  <2>12. ThreadsHoldMutex'
    BY <1>0, <2>4, <2>5 DEF ThreadsHoldMutex
  <2>13. FlagsTellEngine'
    BY <2>0, <2>4, <2>5, <2>6 DEF FlagsTellEngine
  <2>14. CallsGoOn'
    BY <2>0, <2>2, <2>6, <2>8 DEF CallsGoOn
  <2>15. DecodersAreBare'
    BY <2>6 DEF DecodersAreBare
  <2>16. FramesMeetTheirEngine'
    BY <2>4, <2>5 DEF FramesMeetTheirEngine
  <2> QED
    BY <2>10, <2>11, <2>12, <2>13, <2>14, <2>15, <2>16
<1> QED
  BY <1>1, <1>2

\* The engine is set to the rate that is wanted, or is given up.
LEMMA ReconfigureKeeps ==
  ASSUME HardwareInv, Reconfigure, handler.side = "encoder"
  PROVE  HardwareInv'
<1> USE HardwareAssumption DEF HardwareInv
<1>0. /\ handler \in HandlerRecords /\ request \in RequestRecords
      /\ engines \in [Engines -> EngineRecords] /\ request.at = "reconfigure"
      /\ UNCHANGED <<engine, mutex, registered>>
      /\ engine \in Engines /\ ~handler.rebuild_needed /\ engine # Unset
  BY TypeParts DEF Reconfigure, CallsGoOn, HardwareTypeOK
<1>1. CASE /\ engines' = [engines EXCEPT ![engine].config.rate = handler.rate]
           /\ handler' = [handler EXCEPT !.reconfigure_needed = FALSE]
           /\ Step("encode", "submit")
  <2> DEFINE made == [engines[engine] EXCEPT !.config.rate = handler.rate]
  <2>1. /\ made \in EngineRecords /\ made.inputs = engines[engine].inputs
        /\ made.thread = engines[engine].thread /\ made.open = engines[engine].open
        /\ made.config.size = engines[engine].config.size /\ made.config.rate = handler.rate
    BY <1>0 DEF EngineRecords, HandlerRecords, Configs
  <2>2. engines' = [engines EXCEPT ![engine] = made]
    BY <1>1
  <2> HIDE DEF made
  <2>3. engines'[engine] = made /\ \A e \in Engines : e # engine => engines'[e] = engines[e]
    BY <1>0, <2>2
  <2>4. /\ handler' \in HandlerRecords
        /\ ~handler'.rebuild_needed /\ ~handler'.reconfigure_needed
        /\ handler'.size = handler.size /\ handler'.rate = handler.rate
        /\ handler'.side = handler.side
    BY <1>0, <1>1 DEF HandlerRecords
  <2>5. /\ request' \in RequestRecords /\ request'.at = "submit"
        /\ request'.kind = "encode" /\ request'.old = request.old
    BY <1>0, <1>1 DEF RequestRecords, Step
  <2>6. engines' \in [Engines -> EngineRecords]
    BY <1>0, <2>1, <2>2
  <2>7. HardwareTypeOK'
    BY <1>0, <2>4, <2>5, <2>6, TypeParts
       DEF HardwareTypeOK, HandlerRecords, RequestRecords, EngineRecords
  <2>8. EnginesAreHeld'
    BY <1>0, <2>1, <2>3, <2>5 DEF EnginesAreHeld
  <2>9. ThreadsHoldMutex'
    BY <1>0, <2>1, <2>3 DEF ThreadsHoldMutex
  <2>10. FlagsTellEngine'
    BY <1>0, <2>1, <2>3, <2>4 DEF FlagsTellEngine
  <2>11. CallsGoOn'
    BY <1>0, <2>4, <2>5 DEF CallsGoOn
  <2>12. DecodersAreBare'
    BY <2>4 DEF DecodersAreBare
  <2>13. FramesMeetTheirEngine'
    BY <2>1, <2>3 DEF FramesMeetTheirEngine
  <2> QED
    BY <2>7, <2>8, <2>9, <2>10, <2>11, <2>12, <2>13
<1>2. CASE /\ handler' = [handler EXCEPT !.rebuild_needed = TRUE]
           /\ Step("encode", "rebuild")
           /\ UNCHANGED engines
  <2>1. /\ handler' \in HandlerRecords /\ handler'.rebuild_needed
        /\ handler'.side = "encoder"
    BY <1>0, <1>2 DEF HandlerRecords
  <2>2. /\ request' \in RequestRecords /\ request'.at = "rebuild"
        /\ request'.kind = "encode" /\ request'.old = request.old
    BY <1>0, <1>2 DEF RequestRecords, Step
  <2>3. HardwareTypeOK'
    BY <1>0, <1>2, <2>1, <2>2 DEF HardwareTypeOK, HandlerRecords, RequestRecords
  <2>4. EnginesAreHeld'
    BY <1>0, <1>2, <2>2 DEF EnginesAreHeld
  <2>5. (ThreadsHoldMutex /\ FramesMeetTheirEngine)'
    BY <1>0, <1>2 DEF ThreadsHoldMutex, FramesMeetTheirEngine
  <2>6. (FlagsTellEngine /\ CallsGoOn /\ DecodersAreBare)'
    BY <2>1, <2>2 DEF FlagsTellEngine, CallsGoOn, DecodersAreBare
  <2> QED
    BY <2>3, <2>4, <2>5, <2>6
<1> QED
  BY <1>1, <1>2 DEF Reconfigure

\* The engine that was replaced is gone, with what it had been given.
LEMMA DroppedKeeps ==
  ASSUME HardwareInv, Dropped
  PROVE  HardwareInv'
<1> USE HardwareAssumption DEF HardwareInv
<1>0. /\ handler \in HandlerRecords /\ request \in RequestRecords
      /\ engines \in [Engines -> EngineRecords] /\ request.at = "drop"
      /\ \A e \in request.old : engines[e].inputs = <<>>
      /\ UNCHANGED <<handler, engine, mutex, registered>>
  BY TypeParts DEF Dropped
<1>1. \A e \in Engines : engines'[e] = IF e \in request.old THEN Missing ELSE engines[e]
  BY DEF Dropped
<1>2. engines' \in [Engines -> EngineRecords]
  BY <1>0, MissingIsTyped DEF Dropped
<1>3. /\ request' \in RequestRecords /\ request'.old = {}
      /\ \/ request.kind \in {"encode", "decode"} /\ request'.at = "submit"
            /\ request'.kind = request.kind
         \/ request'.at = "idle" /\ request'.kind = "none"
  BY <1>0 DEF Dropped, RequestRecords, Quiet
<1>4. HardwareTypeOK'
  BY <1>0, <1>2, <1>3, TypeParts DEF HardwareTypeOK, RequestRecords, EngineRecords
<1>5. EnginesAreHeld'
  <2>1. EnginesAreHeld /\ engine \in Engines \cup {Unset} /\ ~Missing.open
    BY TypeParts DEF Missing
  <2>2. UNCHANGED engine /\ engine \notin request'.old
    BY <1>0, <1>3
  <2>3. request'.old = {}
    BY <1>3
  <2>4. engine # Unset => engines'[engine] = engines[engine] /\ engines[engine].open
    BY <1>1, <2>1 DEF EnginesAreHeld
  <2>5. \A e \in Engines : engines'[e].open => e \notin request.old /\ engines[e].open
    BY <1>1, <2>1
  <2>6. \A e \in Engines : ~engines'[e].open => engines'[e] = Missing
    BY <1>1, <2>1 DEF EnginesAreHeld
  <2> QED
    BY <2>1, <2>2, <2>3, <2>4, <2>5, <2>6 DEF EnginesAreHeld
<1>6. ThreadsHoldMutex'
  BY <1>0, <1>1, MissingIsTyped DEF ThreadsHoldMutex
<1>7. FlagsTellEngine'
  <2>1. engine # Unset => engine \in Engines /\ engines'[engine] = engines[engine]
    BY <1>0, <1>1 DEF EnginesAreHeld, HardwareTypeOK
  <2> QED
    BY <1>0, <2>1 DEF FlagsTellEngine
<1>8. CallsGoOn'
  BY <1>0, <1>3 DEF CallsGoOn
<1>9. DecodersAreBare'
  BY <1>0 DEF DecodersAreBare
<1>10. FramesMeetTheirEngine'
  BY <1>1, MissingIsTyped DEF FramesMeetTheirEngine
<1> QED
  BY <1>4, <1>5, <1>6, <1>7, <1>8, <1>9, <1>10

\* What is given to an engine is what it is configured for.
LEMMA GiveKeeps ==
  ASSUME HardwareInv, GiveToEngine
  PROVE  HardwareInv'
<1> USE HardwareAssumption DEF HardwareInv
<1>0. /\ handler \in HandlerRecords /\ request \in RequestRecords
      /\ engines \in [Engines -> EngineRecords] /\ request.at = "submit"
      /\ UNCHANGED <<handler, engine, mutex, registered>> /\ request' = Quiet
      /\ engine \in Engines /\ engine # Unset
      /\ ~handler.rebuild_needed /\ ~handler.reconfigure_needed
  BY TypeParts DEF GiveToEngine, CallsGoOn, HardwareTypeOK
<1>1. engines[engine].config.size = handler.size /\ engines[engine].config.rate = handler.rate
  BY <1>0 DEF FlagsTellEngine
<1> DEFINE input == [needs |-> Wanted, meets |-> engines[engine].config]
<1> DEFINE given == [engines[engine] EXCEPT !.inputs = Append(@, input)]
<1>2. input \in Inputs /\ input.needs = input.meets
  BY <1>0, <1>1 DEF HandlerRecords, EngineRecords, Wanted, Configs, Inputs
<1> HIDE DEF input
<1>3. /\ given \in EngineRecords /\ given.config = engines[engine].config
      /\ given.thread = engines[engine].thread /\ given.open = engines[engine].open
      /\ given.inputs = Append(engines[engine].inputs, input)
  <2>1. engines[engine] \in EngineRecords
    BY <1>0
  <2>2. Append(engines[engine].inputs, input) \in Seq(Inputs)
    BY <1>2, <2>1 DEF EngineRecords
  <2> QED
    BY <2>1, <2>2 DEF EngineRecords
<1>4. given.inputs # <<>>
  <2>1. engines[engine].inputs \in Seq(Inputs)
    BY <1>0 DEF EngineRecords
  <2> QED
    BY <1>3, <2>1
<1>5. ASSUME NEW i \in DOMAIN given.inputs
      PROVE  given.inputs[i].needs = given.inputs[i].meets
  <2> DEFINE old == engines[engine].inputs
  <2>1. old \in Seq(Inputs) /\ given.inputs = Append(old, input)
    BY <1>0, <1>3 DEF EngineRecords
  <2>2. \A j \in DOMAIN old : old[j].needs = old[j].meets
    BY <1>0 DEF FramesMeetTheirEngine
  <2> HIDE DEF old, given
  <2>3. CASE i \in DOMAIN old
    <3>1. given.inputs[i] = old[i]
      BY <2>1, <2>3
    <3> QED
      BY <2>2, <2>3, <3>1
  <2>4. CASE i \notin DOMAIN old
    <3>1. given.inputs[i] = input
      BY <1>2, <1>5, <2>1, <2>4
    <3> QED
      BY <1>2, <3>1
  <2> QED
    BY <2>3, <2>4
<1>6. engines' = [engines EXCEPT ![engine] = given] \/ engines' = engines
  BY DEF GiveToEngine, input
<1> HIDE DEF given
<1>7. /\ engines'[engine] = given \/ engines'[engine] = engines[engine]
      /\ \A e \in Engines : e # engine => engines'[e] = engines[e]
      /\ engines' \in [Engines -> EngineRecords]
  BY <1>0, <1>3, <1>6
<1>8. request' \in RequestRecords /\ request'.at = "idle" /\ request'.kind = "none"
      /\ request'.old = {}
  BY <1>0 DEF Quiet, RequestRecords
<1>9. request.old = {}
  BY <1>0 DEF EnginesAreHeld
<1>10. HardwareTypeOK'
  BY <1>0, <1>7, <1>8, TypeParts DEF HardwareTypeOK, RequestRecords, EngineRecords
<1>11. EnginesAreHeld'
  BY <1>0, <1>3, <1>7, <1>8, <1>9 DEF EnginesAreHeld
<1>12. ThreadsHoldMutex'
  BY <1>0, <1>3, <1>4, <1>7 DEF ThreadsHoldMutex
<1>13. FlagsTellEngine'
  BY <1>0, <1>1, <1>3, <1>7 DEF FlagsTellEngine
<1>14. CallsGoOn'
  BY <1>8 DEF CallsGoOn
<1>15. DecodersAreBare'
  BY <1>0 DEF DecodersAreBare
<1>16. FramesMeetTheirEngine'
  BY <1>5, <1>7 DEF FramesMeetTheirEngine
<1> QED
  BY <1>10, <1>11, <1>12, <1>13, <1>14, <1>15, <1>16

\* An engine that only changes its inputs and its thread.
LEMMA CallbackKeeps ==
  ASSUME HardwareInv, NEW e \in Engines, CallbackOf(e)
  PROVE  HardwareInv'
<1> USE HardwareAssumption DEF HardwareInv
<1>0. /\ engines \in [Engines -> EngineRecords] /\ mutex \in {"free"} \cup Engines
      /\ UNCHANGED <<handler, engine, request, registered>>
      /\ engines[e].inputs # <<>> /\ engines[e].inputs \in Seq(Inputs)
      /\ registered \in BOOLEAN
  BY TypeParts DEF CallbackOf, EngineRecords
<1>1. PICK after \in EngineRecords :
        /\ engines' = [engines EXCEPT ![e] = after]
        /\ after.config = engines[e].config /\ after.open = engines[e].open
        /\ after.inputs \in {engines[e].inputs, Tail(engines[e].inputs)}
        /\ after.thread # "works" => after.inputs # <<>>
        /\ \/ /\ mutex' = mutex /\ engines[e].thread # "calls"
              /\ after.thread # "calls"
           \/ /\ mutex = "free" /\ mutex' = e /\ registered /\ after.thread = "calls"
           \/ /\ mutex' = "free" /\ engines[e].thread = "calls" /\ after.thread = "works"
  <2> DEFINE waits == [engines[e] EXCEPT !.thread = "waits"]
             calls == [engines[e] EXCEPT !.thread = "calls"]
             gone == [engines[e] EXCEPT !.inputs = Tail(@), !.thread = "works"]
  <2>0. engines[e] \in EngineRecords
    BY <1>0
  <2>1. /\ waits \in EngineRecords /\ waits.thread = "waits"
        /\ waits.config = engines[e].config /\ waits.open = engines[e].open
        /\ waits.inputs = engines[e].inputs
    BY <2>0 DEF EngineRecords
  <2>2. /\ calls \in EngineRecords /\ calls.thread = "calls"
        /\ calls.config = engines[e].config /\ calls.open = engines[e].open
        /\ calls.inputs = engines[e].inputs
    BY <2>0 DEF EngineRecords
  <2>3. Tail(engines[e].inputs) \in Seq(Inputs)
    BY <1>0
  <2>4. /\ gone \in EngineRecords /\ gone.thread = "works"
        /\ gone.config = engines[e].config /\ gone.open = engines[e].open
        /\ gone.inputs = Tail(engines[e].inputs)
    BY <2>0, <2>3 DEF EngineRecords
  <2>5. ResultGiven(e) => engines' = [engines EXCEPT ![e] = gone]
    BY <1>0 DEF ResultGiven
  <2>6. engines' = [engines EXCEPT ![e].thread = "waits"] =>
          engines' = [engines EXCEPT ![e] = waits]
    BY <1>0
  <2>7. engines' = [engines EXCEPT ![e].thread = "calls"] =>
          engines' = [engines EXCEPT ![e] = calls]
    BY <1>0
  <2> HIDE DEF waits, calls, gone
  <2>8. \/ engines' = [engines EXCEPT ![e] = gone] /\ engines[e].thread # "calls"
           /\ mutex' = mutex
        \/ engines' = [engines EXCEPT ![e] = waits] /\ engines[e].thread # "calls"
           /\ mutex' = mutex
        \/ engines' = [engines EXCEPT ![e] = calls] /\ mutex = "free" /\ mutex' = e
           /\ registered
        \/ engines' = [engines EXCEPT ![e] = gone] /\ engines[e].thread = "calls"
           /\ mutex' = "free"
    BY <2>5, <2>6, <2>7 DEF CallbackOf
  <2> QED
    BY <1>0, <2>1, <2>2, <2>4, <2>8
<1>2. engines'[e] = after /\ \A f \in Engines : f # e => engines'[f] = engines[f]
  BY <1>0, <1>1
<1>3. engines' \in [Engines -> EngineRecords]
  BY <1>0, <1>1
<1>4. HardwareTypeOK'
  <2>1. mutex' \in {"free"} \cup Engines
    BY <1>0, <1>1
  <2>2. /\ handler' \in HandlerRecords /\ engine' \in Engines \cup {Unset}
        /\ request' \in RequestRecords /\ registered' \in BOOLEAN
    BY <1>0, TypeParts
  <2> QED
    BY <1>3, <2>1, <2>2, Zenon DEF HardwareTypeOK, HandlerRecords, RequestRecords, EngineRecords
<1>5. engines[e].open
  BY <1>0, MissingIsTyped DEF EnginesAreHeld
<1>6. EnginesAreHeld'
  <2>1. \A f \in Engines : engines'[f].open = engines[f].open
    BY <1>1, <1>2
  <2>2. \A f \in Engines : ~engines'[f].open => engines'[f] = engines[f]
    BY <1>2, <1>5, <2>1
  <2> QED
    BY <1>0, <2>1, <2>2 DEF EnginesAreHeld, HardwareTypeOK
<1>7. ThreadsHoldMutex'
  BY <1>0, <1>1, <1>2 DEF ThreadsHoldMutex
<1>8. FlagsTellEngine'
  <2>1. \A f \in Engines : engines'[f].config = engines[f].config
    BY <1>1, <1>2
  <2>2. engine # Unset => engine \in Engines
    BY DEF HardwareTypeOK
  <2> QED
    BY <1>0, <2>1, <2>2 DEF FlagsTellEngine
<1>9. (CallsGoOn /\ DecodersAreBare)'
  BY <1>0 DEF CallsGoOn, DecodersAreBare
<1>10. FramesMeetTheirEngine'
  <2>1. ASSUME NEW i \in DOMAIN after.inputs
        PROVE  after.inputs[i].needs = after.inputs[i].meets
    <3> DEFINE inputs == engines[e].inputs
    <3>1. inputs \in Seq(Inputs) /\ inputs # <<>>
          /\ \A j \in DOMAIN inputs : inputs[j].needs = inputs[j].meets
      BY <1>0 DEF FramesMeetTheirEngine
    <3>2. CASE after.inputs = inputs
      BY <2>1, <3>1, <3>2
    <3>3. CASE after.inputs = Tail(inputs)
      <4> HIDE DEF inputs
      <4>1. i + 1 \in DOMAIN inputs /\ after.inputs[i] = inputs[i + 1]
        BY <2>1, <3>1, <3>3
      <4> QED
        BY <3>1, <4>1
    <3> QED
      BY <1>1, <3>2, <3>3
  <2> QED
    BY <1>2, <2>1 DEF FramesMeetTheirEngine
<1> QED
  BY <1>4, <1>6, <1>7, <1>8, <1>9, <1>10

\* Nobody is in the callback while another is registered.
LEMMA RegisterKeeps ==
  ASSUME HardwareInv, RegisterWith
  PROVE  HardwareInv'
<1> USE HardwareAssumption DEF HardwareInv
<1>1. \A e \in Engines : engines[e].thread # "calls"
  BY DEF RegisterWith, ThreadsHoldMutex
<1> QED
  BY <1>1 DEF RegisterWith, HardwareTypeOK, EnginesAreHeld, ThreadsHoldMutex, FlagsTellEngine,
     CallsGoOn, DecodersAreBare, FramesMeetTheirEngine

\* release drops the engine and resets what is kept.
LEMMA HardwareReleaseKeeps ==
  ASSUME HardwareInv, NEW flags \in HandlerRecords, ReleaseTo(flags),
         flags.side = "decoder" => flags = handler
  PROVE  HardwareInv'
<1> USE HardwareAssumption DEF HardwareInv
<1>0. /\ request' = [kind |-> "release", at |-> "drop", old |-> {engine} \ {Unset}]
      /\ request.at # "drop" /\ engine' = Unset /\ handler' = flags /\ registered' = FALSE
      /\ mutex = "free" /\ UNCHANGED <<mutex, engines>>
  BY DEF ReleaseTo
<1>1. HardwareTypeOK'
  BY <1>0 DEF HardwareTypeOK, HandlerRecords
<1>2. EnginesAreHeld'
  BY <1>0 DEF EnginesAreHeld, HardwareTypeOK
<1>3. (ThreadsHoldMutex /\ FramesMeetTheirEngine)'
  BY <1>0 DEF ThreadsHoldMutex, FramesMeetTheirEngine
<1>4. (FlagsTellEngine /\ CallsGoOn)'
  BY <1>0 DEF FlagsTellEngine, CallsGoOn
<1>5. DecodersAreBare'
  BY <1>0 DEF DecodersAreBare
<1> QED
  BY <1>1, <1>2, <1>3, <1>4, <1>5

\* set_rates asks for another rate from the next frame on.
LEMMA HardwareRatesKeep ==
  ASSUME HardwareInv, NEW rate \in Rates, RatesTo(rate), handler.side = "encoder"
  PROVE  HardwareInv'
<1> USE HardwareAssumption DEF HardwareInv
<1>0. /\ handler \in HandlerRecords /\ request.at = "idle"
      /\ handler' = [handler EXCEPT !.rate = rate, !.reconfigure_needed = TRUE]
      /\ UNCHANGED <<engine, request, mutex, registered, engines>>
  BY TypeParts DEF RatesTo
<1>1. /\ handler' \in HandlerRecords /\ handler'.reconfigure_needed
      /\ handler'.side = "encoder" /\ handler'.size = handler.size
      /\ handler'.rebuild_needed = handler.rebuild_needed
  BY <1>0 DEF HandlerRecords
<1>2. HardwareTypeOK'
  BY <1>0, <1>1 DEF HardwareTypeOK, HandlerRecords
<1>3. (EnginesAreHeld /\ ThreadsHoldMutex /\ FramesMeetTheirEngine)'
  BY <1>0 DEF EnginesAreHeld, ThreadsHoldMutex, FramesMeetTheirEngine
<1>4. (FlagsTellEngine /\ CallsGoOn)'
  BY <1>0, <1>1 DEF FlagsTellEngine, CallsGoOn
<1>5. DecodersAreBare'
  BY <1>1 DEF DecodersAreBare
<1> QED
  BY <1>2, <1>3, <1>4, <1>5

\* configure and decode of a decoder set no flag.
LEMMA DecoderCallsKeep ==
  ASSUME HardwareInv, ConfigureDecoder \/ DecodeFrame, handler.side = "decoder"
  PROVE  HardwareInv'
<1> USE HardwareAssumption DEF HardwareInv
<1>0. /\ request \in RequestRecords /\ request.at = "idle"
      /\ UNCHANGED <<handler, engine, mutex, registered, engines>>
  BY TypeParts DEF ConfigureDecoder, DecodeFrame
<1>1. /\ request' \in RequestRecords /\ request'.old = request.old
      /\ request'.kind \in {"configure", "decode"}
      /\ request'.at = "rebuild" \/ (request'.at = "submit" /\ engine # Unset)
  BY <1>0 DEF ConfigureDecoder, DecodeFrame, Step, RequestRecords
<1>2. HardwareTypeOK'
  BY <1>0, <1>1 DEF HardwareTypeOK, RequestRecords
<1>3. EnginesAreHeld'
  BY <1>0, <1>1 DEF EnginesAreHeld
<1>4. (ThreadsHoldMutex /\ FramesMeetTheirEngine /\ DecodersAreBare)'
  BY <1>0 DEF ThreadsHoldMutex, FramesMeetTheirEngine, DecodersAreBare
<1>5. CallsGoOn'
  BY <1>0, <1>1 DEF CallsGoOn, DecodersAreBare
<1>6. FlagsTellEngine'
  <2>1. request.kind = "none" /\ request.at # "failed"
    BY <1>0 DEF CallsGoOn
  <2> QED
    BY <1>0, <2>1 DEF FlagsTellEngine
<1> QED
  BY <1>2, <1>3, <1>4, <1>5, <1>6

\* Every step of every file keeps the invariant.
LEMMA HardwareSteps == HardwareInv /\ [HardwareNext]_hardwareVars => HardwareInv'
<1> SUFFICES ASSUME HardwareInv, [HardwareNext]_hardwareVars PROVE HardwareInv'
  OBVIOUS
<1>0. handler \in HandlerRecords
  BY TypeParts DEF HardwareInv
<1>1. CASE UNCHANGED hardwareVars
  BY <1>1 DEF hardwareVars, HardwareInv, HardwareTypeOK, EnginesAreHeld, ThreadsHoldMutex,
     FlagsTellEngine, CallsGoOn, DecodersAreBare, FramesMeetTheirEngine
<1>2. ASSUME HandlerNext PROVE HardwareInv'
  <2>1. \/ Rebuild \/ (Reconfigure /\ handler.side = "encoder") \/ GiveToEngine \/ Dropped
    BY <1>2 DEF HandlerNext, NvCodecRebuildEncoder, NvCodecReconfigureEncoder,
       NvCodecEncodeFrame, VplRebuildEncoder, VplReconfigureEncoder, VplEncodeFrame,
       AmfRebuildEncoder, AmfReconfigureEncoder, AmfEncodeFrame, NvCodecRebuildDecoder,
       NvCodecDecodeFrame, VplRebuildDecoder, VplDecodeFrame, AmfRebuildDecoder,
       AmfDecodeFrame, V4l2RebuildDecoder, V4l2DecodeFrame, Is
  <2> QED
    BY <2>1, RebuildKeeps, ReconfigureKeeps, GiveKeeps, DroppedKeeps
<1>3. ASSUME NEW e \in Engines, EngineNext(e) PROVE HardwareInv'
  <2>1. CallbackOf(e)
    BY <1>3 DEF EngineNext, NvCodecEncodeCallback, VplEncodeCallback, AmfEncodeCallback,
       NvCodecDecodeCallback, VplDecodeCallback, AmfDecodeCallback, V4l2DecodeCallback
  <2> QED
    BY <2>1, CallbackKeeps
<1>4. ASSUME CallOfWebRtc PROVE HardwareInv'
  <2> DEFINE cleared == [handler EXCEPT !.rebuild_needed = FALSE, !.reconfigure_needed = FALSE]
  <2>1. \/ handler.side = "encoder" /\ \E s \in FrameSizes, r \in Rates : InitWith(s, r)
        \/ handler.side = "encoder" /\ \E s \in FrameSizes : EncodeAt(s)
        \/ RegisterWith \/ ReleaseTo(handler)
        \/ handler.side = "encoder" /\ ReleaseTo(cleared)
        \/ handler.side = "encoder" /\ \E r \in Rates : RatesTo(r)
        \/ handler.side = "decoder" /\ (ConfigureDecoder \/ DecodeFrame)
    BY <1>4, ZenonT(60) DEF CallOfWebRtc, NvCodecInitEncode, NvCodecEncode,
       NvCodecRegisterEncode,
       NvCodecReleaseEncoder, NvCodecSetRates, VplInitEncode, VplEncode, VplRegisterEncode,
       VplReleaseEncoder, VplSetRates, AmfInitEncode, AmfEncode, AmfRegisterEncode,
       AmfReleaseEncoder, AmfSetRates, NvCodecConfigure, NvCodecDecode, NvCodecRegisterDecode,
       NvCodecReleaseDecoder, VplConfigure, VplDecode, VplRegisterDecode, VplReleaseDecoder,
       AmfConfigure, AmfDecode, AmfRegisterDecode, AmfReleaseDecoder, V4l2Configure,
       V4l2Decode, V4l2RegisterDecode, V4l2ReleaseDecoder, Is
  <2>2. cleared \in HandlerRecords /\ cleared.side = handler.side
    BY <1>0 DEF HandlerRecords
  <2>3. ASSUME handler.side = "encoder", ReleaseTo(cleared) PROVE HardwareInv'
    BY <2>2, <2>3, HardwareReleaseKeeps
  <2>4. ASSUME ReleaseTo(handler) PROVE HardwareInv'
    BY <1>0, <2>4, HardwareReleaseKeeps
  <2> HIDE DEF cleared
  <2> QED
    BY <2>1, <2>3, <2>4, InitWithKeeps, EncodeKeeps, RegisterKeeps, HardwareRatesKeep,
       DecoderCallsKeep
<1> QED
  BY <1>1, <1>2, <1>3, <1>4 DEF HardwareNext

\* HardwareInv holds of every behaviour.
LEMMA HardwareInvHolds == HardwareSpec => []HardwareInv
  BY HardwareStarts, HardwareSteps, PTL DEF HardwareSpec

\* Whoever is in libwebrtc's callback is so with a callback that is registered, for any
\* engines and any order of calls.
THEOREM CallbackInUseIsRegistered == HardwareSpec => []CallbackIsRegistered
<1>1. HardwareInv => CallbackIsRegistered
  BY DEF HardwareInv, ThreadsHoldMutex, CallbackIsRegistered
<1> QED
  BY <1>1, HardwareInvHolds, PTL

\* The flags of a handler, its call and the inputs of its engines are of their types.
THEOREM HardwareTypeCorrect == HardwareSpec => []HardwareTypeOK
<1>1. HardwareInv => HardwareTypeOK
  BY DEF HardwareInv
<1> QED
  BY <1>1, HardwareInvHolds, PTL

\* A frame is encoded by an encoder that is set to its size and to the rate asked for, with
\* whatever builds and reconfigurations that failed before, and a crop is within its frame:
\* in each kind of encoder, for any sizes, rates and alignment.
THEOREM FramesFit ==
  HardwareSpec /\ Openh264Spec /\ AlignedSpec => []FramesFitTheirEncoders
<1>1. HardwareInv => FramesMeetTheirEngine
  BY DEF HardwareInv
<1>2. Openh264Inv => ImagesFitTheirEncoder
  BY DEF Openh264Inv
<1>3. AlignedInv => FramesAreAligned
  BY AlignedFits
<1>4. FramesMeetTheirEngine /\ ImagesFitTheirEncoder /\ FramesAreAligned => FramesFitTheirEncoders
  BY DEF FramesFitTheirEncoders
<1> QED
  BY <1>1, <1>2, <1>3, <1>4, HardwareInvHolds, Openh264InvHolds, AlignedInvHolds, PTL
=============================================================================
