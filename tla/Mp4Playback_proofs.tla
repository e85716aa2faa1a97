-------------------------- MODULE Mp4Playback_proofs --------------------------
(***************************************************************************)
(* Proofs about MP4 passthrough, for any files, capturers, receivers and   *)
(* any end of the counter of a feeder.  That a receiver can decode what it *)
(* gets rests on the numbers alone: of two frames between a feeder and its *)
(* encoder, or the last one sent, those with consecutive numbers are       *)
(* consecutive samples, and the feeder is past all of them.                *)
(***************************************************************************)
EXTENDS Mp4Playback, TLAPS

LOCAL INSTANCE SequencesExt

Sequence == INSTANCE SequenceTheorems

Adding == INSTANCE Folding WITH Op <- LAMBDA n, b : 256 * n + b

FeederStates == {"none", "next", "waiting", "joining", "ended"}
Feeder == [at : FeederStates, index : Nat, serial : 0..SerialMax]
FeederFrame == [index : Nat, serial : 0..SerialMax]
Encoder == [format : Receivers \cup {None}, callback : BOOLEAN, waiting : BOOLEAN,
            last : (0..SerialMax) \cup {None}]

Asks(c) == \E i \in DOMAIN requests : requests[i] = c
AsksOnce(c) ==
  \A i, j \in DOMAIN requests : requests[i] = c /\ requests[j] = c => i = j

\* While somebody has a clone, the channel is open and its thread serves it.
ReaderServes ==
  /\ clones = {} => ~sender
  /\ clones # {} => sender /\ io = "running" /\ opened = "yes"

\* The feeder of c has a clone while it runs, and asks for nothing unless it waits.
FeederAsks(c) ==
  /\ capturers[c] \in {"unused", "none"} => feeders[c].at = "none"
  /\ feeders[c].at # "none" => opened = "yes"
  /\ feeders[c].at \in {"next", "waiting"} => c \in clones
  /\ feeders[c].at \in {"none", "next"} => responses[c] = "empty" /\ ~Asks(c)
  /\ feeders[c].at = "waiting" => (responses[c] = "empty" <=> Asks(c))
  /\ feeders[c].at = "waiting" => AsksOnce(c) /\ feeders[c].serial # 0

EncodersTyped == encoders \in [Capturers -> Encoder]

ReaderInv ==
  /\ Mp4TypeOK
  /\ EncodersTyped
  /\ ReaderServes
  /\ \A c \in Capturers : FeederAsks(c)

-----------------------------------------------------------------------------
(* Facts                                                                   *)

LEMMA Numbers == SerialMax \in Nat /\ App \notin Capturers /\ App \in Owners
  BY Mp4Assumption DEF Mp4Assumption, Owners

LEMMA TypeFacts ==
  ASSUME Mp4TypeOK
  PROVE  /\ clones \subseteq Owners /\ joining \subseteq Owners
         /\ requests \in Seq(Capturers)
         /\ feeders \in [Capturers -> Feeder] /\ frames \in [Capturers -> Seq(FeederFrame)]
         /\ responses \in [Capturers -> {"empty", "sample", "error"}]
         /\ sent \in [Capturers -> Nat]
  BY DEF Mp4TypeOK, Feeder, FeederStates, FeederFrame

\* A request joins the channel.
LEMMA AppendAsks ==
  ASSUME NEW c \in Capturers, requests \in Seq(Capturers), requests' = Append(requests, c)
  PROVE  /\ requests' \in Seq(Capturers)
         /\ Asks(c)'
         /\ ~Asks(c) => AsksOnce(c)'
         /\ \A d \in Capturers \ {c} : Asks(d)' = Asks(d)
         /\ \A d \in Capturers \ {c} : AsksOnce(d) => AsksOnce(d)'
<1>1. /\ requests' \in Seq(Capturers)
      /\ DOMAIN requests' = DOMAIN requests \cup {Len(requests) + 1}
      /\ requests'[Len(requests) + 1] = c
      /\ \A i \in DOMAIN requests : requests'[i] = requests[i]
  OBVIOUS
<1>2. Asks(c)'
  BY <1>1, Zenon DEF Asks
<1>3. ~Asks(c) => AsksOnce(c)'
  BY <1>1, Zenon DEF Asks, AsksOnce
<1>4. ASSUME NEW d \in Capturers \ {c} PROVE Asks(d)' = Asks(d)
  BY <1>1, <1>4, Zenon DEF Asks
<1>5. ASSUME NEW d \in Capturers \ {c}, AsksOnce(d) PROVE AsksOnce(d)'
  BY <1>1, <1>5, Zenon DEF AsksOnce
<1> QED BY <1>1, <1>2, <1>3, <1>4, <1>5, Zenon

\* The first request leaves the channel.
LEMMA TailAsks ==
  ASSUME requests \in Seq(Capturers), requests # <<>>, requests' = Tail(requests),
         NEW h, h = Head(requests)
  PROVE  /\ requests' \in Seq(Capturers) /\ h \in Capturers
         /\ Asks(h)
         /\ AsksOnce(h) => ~Asks(h)'
         /\ \A d : d # h => Asks(d)' = Asks(d)
         /\ \A d : AsksOnce(d) => AsksOnce(d)'
         /\ \A d : ~Asks(d) => ~Asks(d)'
<1>1. /\ requests' \in Seq(Capturers) /\ h \in Capturers
      /\ Len(requests) \in Nat \ {0} /\ DOMAIN requests = 1..Len(requests)
      /\ DOMAIN requests' = 1..(Len(requests) - 1)
      /\ \A i \in DOMAIN requests' : requests'[i] = requests[i + 1]
      /\ requests[1] = h
  OBVIOUS
<1>2. Asks(h)
  BY <1>1 DEF Asks
<1>3. \A i \in DOMAIN requests' : i + 1 \in DOMAIN requests /\ i + 1 # 1
  BY <1>1
<1>4. \A i \in DOMAIN requests : i # 1 => i - 1 \in DOMAIN requests' /\ requests'[i - 1] = requests[i]
  BY <1>1
<1>5. \A i, j \in DOMAIN requests' : i + 1 = j + 1 => i = j
  BY <1>1
<1>6. 1 \in DOMAIN requests
  BY <1>1
<1>7. ASSUME AsksOnce(h), NEW i \in DOMAIN requests', requests'[i] = h PROVE FALSE
  <2>1. i + 1 \in DOMAIN requests /\ requests[i + 1] = h /\ i + 1 # 1
    BY <1>1, <1>3, <1>7, Zenon
  <2> QED BY <1>1, <1>6, <1>7, <2>1, Zenon DEF AsksOnce
<1>8. ASSUME NEW d PROVE ~Asks(d) => ~Asks(d)'
  BY <1>1, <1>3, Zenon DEF Asks
<1>9. ASSUME NEW d, d # h PROVE Asks(d) => Asks(d)'
  BY <1>1, <1>4, <1>9, Zenon DEF Asks
<1>10. ASSUME NEW d, AsksOnce(d) PROVE AsksOnce(d)'
  <2> SUFFICES ASSUME NEW i \in DOMAIN requests', NEW j \in DOMAIN requests',
                      requests'[i] = d, requests'[j] = d
               PROVE  i = j
    BY Zenon DEF AsksOnce
  <2>1. i + 1 \in DOMAIN requests /\ j + 1 \in DOMAIN requests
    BY <1>3
  <2>2. requests[i + 1] = d /\ requests[j + 1] = d
    BY <1>1, Zenon
  <2>3. i + 1 = j + 1
    BY <1>10, <2>1, <2>2, Zenon DEF AsksOnce
  <2> QED BY <1>5, <2>3, Zenon
<1>11. ASSUME NEW d, d # h PROVE Asks(d)' = Asks(d)
  BY <1>8, <1>9, <1>11, Zenon DEF Asks
<1>12. AsksOnce(h) => ~Asks(h)'
  BY <1>7, Zenon DEF Asks
<1> QED BY <1>1, <1>2, <1>8, <1>10, <1>11, <1>12, Zenon

\* What a feeder's step does to the feeders.
LEMMA FeederMoves ==
  ASSUME NEW c \in Capturers, feeders \in [Capturers -> Feeder]
  PROVE  /\ \A at \in FeederStates :
              feeders' = [feeders EXCEPT ![c].at = at] =>
                /\ feeders' \in [Capturers -> Feeder]
                /\ feeders'[c] = [at |-> at, index |-> feeders[c].index, serial |-> feeders[c].serial]
                /\ \A d \in Capturers \ {c} : feeders'[d] = feeders[d]
         /\ \A at \in FeederStates, index \in Nat :
              feeders' = [feeders EXCEPT ![c].at = at, ![c].index = index] =>
                /\ feeders' \in [Capturers -> Feeder]
                /\ feeders'[c] = [at |-> at, index |-> index, serial |-> feeders[c].serial]
                /\ \A d \in Capturers \ {c} : feeders'[d] = feeders[d]
<1>1. ASSUME NEW at \in FeederStates, feeders' = [feeders EXCEPT ![c].at = at]
      PROVE  /\ feeders' \in [Capturers -> Feeder]
             /\ feeders'[c] = [at |-> at, index |-> feeders[c].index, serial |-> feeders[c].serial]
             /\ \A d \in Capturers \ {c} : feeders'[d] = feeders[d]
  BY <1>1 DEF Feeder
<1>2. ASSUME NEW at \in FeederStates, NEW index \in Nat,
             feeders' = [feeders EXCEPT ![c].at = at, ![c].index = index]
      PROVE  /\ feeders' \in [Capturers -> Feeder]
             /\ feeders'[c] = [at |-> at, index |-> index, serial |-> feeders[c].serial]
             /\ \A d \in Capturers \ {c} : feeders'[d] = feeders[d]
  BY <1>2 DEF Feeder
<1> QED BY <1>1, <1>2, Zenon

LEMMA FollowingNat == ASSUME NEW index \in Nat PROVE Following(index) \in Nat
  BY DEF Following

\* The number of a sample is used up, whether it is fed or dropped.
LEMMA ConsumeFacts ==
  ASSUME feeders \in [Capturers -> Feeder], NEW c \in Capturers, NEW applied \in BOOLEAN,
         feeders[c].serial < SerialMax, Consume(c, applied)
  PROVE  /\ feeders' \in [Capturers -> Feeder]
         /\ feeders'[c].serial = feeders[c].serial + 1
         /\ applied => feeders'[c].at = "waiting" /\ feeders'[c].index = feeders[c].index
         /\ ~applied => /\ feeders'[c].at = feeders[c].at
                        /\ feeders'[c].index = Following(feeders[c].index)
         /\ \A d \in Capturers \ {c} : feeders'[d] = feeders[d]
<1>1. /\ feeders[c].serial \in 0..SerialMax /\ feeders[c].index \in Nat
      /\ feeders[c].at \in FeederStates /\ SerialMax \in Nat
  BY Numbers DEF Feeder
<1>2. feeders[c].serial + 1 \in 0..SerialMax
  BY <1>1
<1>3. CASE applied
  <2>1. feeders' = [feeders EXCEPT ![c].serial = @ + 1, ![c].at = "waiting"]
    BY <1>3, Zenon DEF Consume
  <2> QED BY <1>1, <1>2, <1>3, <2>1 DEF Feeder, FeederStates
<1>4. CASE ~applied
  <2>1. feeders' = [feeders EXCEPT ![c].serial = @ + 1, ![c].index = Following(@)]
    BY <1>4, Zenon DEF Consume
  <2>2. Following(feeders[c].index) \in Nat
    BY <1>1, FollowingNat
  <2> QED BY <1>1, <1>2, <1>4, <2>1, <2>2 DEF Feeder
<1> QED BY <1>3, <1>4

\* An owner drops its clone.
LEMMA DropCloneFacts ==
  ASSUME ReaderInv, NEW owner \in clones, DropClone(owner), UNCHANGED <<io, opened>>
  PROVE  /\ clones' = clones \ {owner} /\ clones' \subseteq Owners /\ joining' \subseteq Owners
         /\ sender' \in BOOLEAN /\ ReaderServes'
<1>1. /\ clones' = clones \ {owner} /\ sender' = (clones' # {})
      /\ joining' = IF clones' = {} THEN joining \cup {owner} ELSE joining
  BY Zenon DEF DropClone
<1>2. clones \subseteq Owners /\ joining \subseteq Owners
  BY TypeFacts DEF ReaderInv
<1>3. clones' \subseteq Owners /\ joining' \subseteq Owners
  BY <1>1, <1>2
<1>4. io' = "running" /\ opened' = "yes"
  BY Zenon DEF ReaderInv, ReaderServes
<1> QED BY <1>1, <1>3, <1>4, Zenon DEF ReaderServes

LEMMA LeaveFacts ==
  ASSUME ReaderInv, NEW c \in Capturers, feeders[c].at \in {"next", "waiting"}, Leave(c),
         UNCHANGED <<io, opened>>
  PROVE  /\ clones' = clones \ {c} /\ clones' \subseteq Owners /\ joining' \subseteq Owners
         /\ sender' \in BOOLEAN /\ ReaderServes'
         /\ feeders' \in [Capturers -> Feeder]
         /\ feeders'[c].at \in {"joining", "ended"}
         /\ \A d \in Capturers \ {c} : feeders'[d] = feeders[d]
<1>1. c \in clones /\ feeders \in [Capturers -> Feeder]
  BY TypeFacts DEF ReaderInv, FeederAsks
<1>2. PICK at \in {"joining", "ended"} : feeders' = [feeders EXCEPT ![c].at = at]
  BY Zenon DEF Leave
<1>3. /\ feeders' \in [Capturers -> Feeder] /\ feeders'[c].at = at
      /\ \A d \in Capturers \ {c} : feeders'[d] = feeders[d]
  <2>1. at \in FeederStates
    BY DEF FeederStates
  <2>2. /\ feeders' \in [Capturers -> Feeder]
        /\ feeders'[c] = [at |-> at, index |-> feeders[c].index, serial |-> feeders[c].serial]
        /\ \A d \in Capturers \ {c} : feeders'[d] = feeders[d]
    BY <1>1, <1>2, <2>1, FeederMoves
  <2> QED BY <2>2
<1>4. DropClone(c)
  BY Zenon DEF Leave
<1> QED BY <1>1, <1>3, <1>4, DropCloneFacts

\* Nothing that FeederAsks(c) speaks of has changed.
LEMMA AsksKept ==
  ASSUME NEW c \in Capturers, FeederAsks(c), feeders'[c] = feeders[c],
         capturers'[c] = capturers[c], opened' = opened, responses'[c] = responses[c],
         requests' = requests, c \in clones => c \in clones'
  PROVE  FeederAsks(c)'
  BY Zenon DEF FeederAsks, Asks, AsksOnce

\* A step of the encoders, which the reader does not notice.
LEMMA EncoderKeeps ==
  ASSUME ReaderInv, UNCHANGED <<readerVars, ioVars, feederVars>>,
         EncodersTyped', frames' \in [Capturers -> Seq(FeederFrame)], sent' \in [Capturers -> Nat]
  PROVE  ReaderInv'
<1>1. UNCHANGED <<file, opened, clones, sender, joining, requests, io, responses,
                  capturers, stop, feeders>>
  BY DEF readerVars, ioVars, feederVars
<1>2. \A c \in Capturers : /\ encoders'[c].callback \in BOOLEAN /\ encoders'[c].waiting \in BOOLEAN
                           /\ encoders'[c].last \in (0..SerialMax) \cup {None}
  BY DEF EncodersTyped, Encoder
<1>3. Mp4TypeOK'
  BY <1>1, <1>2 DEF ReaderInv, Mp4TypeOK, FeederFrame
<1>4. ReaderServes'
  BY <1>1, Zenon DEF ReaderInv, ReaderServes
<1>5. ASSUME NEW c \in Capturers PROVE FeederAsks(c)'
  BY <1>1, AsksKept, Zenon DEF ReaderInv
<1> QED BY <1>3, <1>4, <1>5, Zenon DEF ReaderInv

-----------------------------------------------------------------------------
(* The steps keep ReaderInv                                                *)

\* A step that changes nothing of what the feeders read and wait for.
LEMMA QuietStep ==
  ASSUME ReaderInv, Mp4TypeOK', UNCHANGED <<encoders, feeders, capturers, opened, responses, requests>>,
         ReaderServes', \A c \in Capturers : c \in clones => c \in clones'
  PROVE  ReaderInv'
<1>1. EncodersTyped'
  BY Zenon DEF ReaderInv, EncodersTyped
<1>2. ASSUME NEW c \in Capturers PROVE FeederAsks(c)'
  BY AsksKept, Zenon DEF ReaderInv
<1> QED BY <1>1, <1>2, Zenon DEF ReaderInv

LEMMA OpenFileStep ==
  ASSUME ReaderInv, OpenFile
  PROVE  ReaderInv'
<1>1. /\ opened = "no" /\ opened' \in {"yes", "refused"}
      /\ UNCHANGED <<file, joining, requests, responses, capturers, stop, feeders, frames,
                     encoders, sent>>
  BY DEF OpenFile, feederVars, encoderVars
<1>2. \/ clones' = {App} /\ sender' = TRUE /\ io' = "running" /\ opened' = "yes"
      \/ UNCHANGED <<clones, sender, io>>
  BY DEF OpenFile
<1>3. clones = {} /\ ~sender
  BY <1>1, Zenon DEF ReaderInv, ReaderServes
<1>4. clones' \subseteq Owners /\ sender' \in BOOLEAN
  <2>1. {} \subseteq Owners /\ {App} \subseteq Owners
    BY Numbers
  <2>2. sender \in BOOLEAN /\ clones' \in {{}, {App}}
    BY <1>2, <1>3 DEF ReaderInv, Mp4TypeOK
  <2>3. sender' \in BOOLEAN
    BY <1>2, <2>2, Zenon
  <2> QED BY <2>1, <2>2, <2>3, Zenon
<1>5. io' \in {"none", "running", "ended"}
  BY <1>2 DEF ReaderInv, Mp4TypeOK
<1>6. Mp4TypeOK'
  BY <1>1, <1>4, <1>5 DEF ReaderInv, Mp4TypeOK
<1>7. ReaderServes'
  <2>1. CASE clones' = {App} /\ sender' = TRUE /\ io' = "running" /\ opened' = "yes"
    <3>1. clones' # {}
      BY <2>1
    <3> QED BY <2>1, <3>1, Zenon DEF ReaderServes
  <2>2. CASE UNCHANGED <<clones, sender, io>>
    <3>1. clones' = {} /\ ~sender'
      BY <1>3, <2>2, Zenon
    <3> QED BY <3>1, Zenon DEF ReaderServes
  <2> QED BY <1>2, <2>1, <2>2
<1>8. EncodersTyped'
  BY <1>1, Zenon DEF ReaderInv, EncodersTyped
<1>9. ASSUME NEW c \in Capturers PROVE FeederAsks(c)'
  <2>1. FeederAsks(c) /\ feeders[c].at = "none"
    BY <1>1, TypeFacts, Zenon DEF ReaderInv, FeederAsks
  <2>2. feeders'[c].at = "none" /\ responses' = responses /\ requests' = requests
    BY <1>1, <2>1, Zenon
  <2> QED BY <2>1, <2>2, Zenon DEF FeederAsks, Asks, AsksOnce
<1> QED BY <1>6, <1>7, <1>8, <1>9, Zenon DEF ReaderInv

LEMMA NewCapturerStep ==
  ASSUME ReaderInv, NEW c \in Capturers, NewCapturer(c)
  PROVE  ReaderInv'
<1>1. /\ capturers[c] = "none" /\ App \in clones
      /\ capturers' = [capturers EXCEPT ![c] = "playing"]
      /\ feeders' = [feeders EXCEPT ![c].at = "next"]
      /\ UNCHANGED <<file, opened, sender, joining, requests, io, responses, stop, frames,
                     encoders, sent>>
  BY DEF NewCapturer, ioVars, encoderVars
<1>2. PICK given \in {{}, {App}} : clones' = (clones \ given) \cup {c}
  BY Zenon DEF NewCapturer
<1>3. /\ clones' \subseteq Owners /\ clones' # {} /\ clones # {} /\ c \in clones'
      /\ \A d \in Capturers : d \in clones => d \in clones'
  BY <1>1, <1>2, Numbers, TypeFacts DEF ReaderInv, Owners
<1>4. feeders \in [Capturers -> Feeder] /\ "next" \in FeederStates
  BY TypeFacts DEF ReaderInv, FeederStates
<1>5. /\ feeders' \in [Capturers -> Feeder] /\ feeders'[c].at = "next"
      /\ \A d \in Capturers \ {c} : feeders'[d] = feeders[d]
  <2>1. feeders' = [feeders EXCEPT ![c].at = "next"]
    BY <1>1
  <2>2. /\ feeders' \in [Capturers -> Feeder]
        /\ feeders'[c] = [at |-> "next", index |-> feeders[c].index, serial |-> feeders[c].serial]
        /\ \A d \in Capturers \ {c} : feeders'[d] = feeders[d]
    BY <1>4, <2>1, FeederMoves
  <2> QED BY <2>2
<1>6. /\ capturers' \in [Capturers -> {"unused", "none", "playing", "dropping", "dropped"}]
      /\ capturers'[c] = "playing" /\ \A d \in Capturers \ {c} : capturers'[d] = capturers[d]
  BY <1>1 DEF ReaderInv, Mp4TypeOK
<1>7. Mp4TypeOK'
  BY <1>1, <1>3, <1>5, <1>6 DEF ReaderInv, Mp4TypeOK, Feeder, FeederStates
<1>8. ReaderServes'
  BY <1>1, <1>3, Zenon DEF ReaderInv, ReaderServes
<1>9. EncodersTyped'
  BY <1>1, Zenon DEF ReaderInv, EncodersTyped
<1>10. FeederAsks(c)'
  <2>1. FeederAsks(c) /\ feeders[c].at = "none" /\ opened = "yes"
    BY <1>1, <1>3, Zenon DEF ReaderInv, FeederAsks, ReaderServes
  <2>2. responses[c] = "empty" /\ ~Asks(c)
    BY <2>1, Zenon DEF FeederAsks
  <2>3. responses'[c] = "empty" /\ ~Asks(c)' /\ opened' = "yes"
    BY <1>1, <2>1, <2>2, Zenon DEF Asks
  <2> QED BY <1>3, <1>5, <1>6, <2>3, Zenon DEF FeederAsks
<1>11. ASSUME NEW d \in Capturers \ {c} PROVE FeederAsks(d)'
  <2>1. /\ feeders'[d] = feeders[d] /\ capturers'[d] = capturers[d] /\ opened' = opened
        /\ responses'[d] = responses[d] /\ requests' = requests /\ FeederAsks(d)
    BY <1>1, <1>5, <1>6, Zenon DEF ReaderInv
  <2> QED BY <1>3, <2>1, AsksKept
<1> QED BY <1>7, <1>8, <1>9, <1>10, <1>11, Zenon DEF ReaderInv

LEMMA DropReaderStep ==
  ASSUME ReaderInv, DropReader
  PROVE  ReaderInv'
<1>1. /\ App \in clones /\ DropClone(App)
      /\ UNCHANGED <<file, opened, requests, io, responses, capturers, stop, feeders, frames,
                     encoders, sent>>
  BY DEF DropReader, ioVars, feederVars, encoderVars
<1>2. /\ clones' = clones \ {App} /\ clones' \subseteq Owners /\ joining' \subseteq Owners
      /\ sender' \in BOOLEAN /\ ReaderServes'
  BY <1>1, DropCloneFacts
<1>3. Mp4TypeOK'
  BY <1>1, <1>2 DEF ReaderInv, Mp4TypeOK
<1>4. \A c \in Capturers : c \in clones => c \in clones'
  BY <1>2, Numbers
<1> QED BY <1>1, <1>2, <1>3, <1>4, QuietStep

LEMMA WaitsStep ==
  ASSUME ReaderInv, ReaderDropped \/ IoThreadEnds
  PROVE  ReaderInv'
<1>1. /\ UNCHANGED <<file, opened, clones, sender, requests, responses, capturers, stop, feeders,
                     frames, encoders, sent>>
      /\ joining' \subseteq joining /\ io' \in {io, "ended"}
  BY DEF ReaderDropped, IoThreadEnds, ioVars, feederVars, encoderVars, readerVars
<1>2. clones # {} => io' = io
  <2>1. CASE ReaderDropped
    BY <2>1, Zenon DEF ReaderDropped, ioVars
  <2>2. CASE IoThreadEnds
    BY <2>2, Zenon DEF IoThreadEnds, ReaderInv, ReaderServes
  <2> QED BY <2>1, <2>2
<1>3. Mp4TypeOK'
  BY <1>1 DEF ReaderInv, Mp4TypeOK
<1>4. ReaderServes'
  BY <1>1, <1>2, Zenon DEF ReaderInv, ReaderServes
<1> QED BY <1>1, <1>3, <1>4, QuietStep, Zenon

LEMMA DropCapturerStep ==
  ASSUME ReaderInv, NEW c \in Capturers, DropCapturer(c) \/ CapturerDropped(c)
  PROVE  ReaderInv'
<1>1. /\ UNCHANGED <<file, opened, clones, sender, joining, requests, io, responses, feeders,
                     frames, encoders, sent>>
      /\ capturers[c] \in {"playing", "dropping"}
      /\ capturers' \in {[capturers EXCEPT ![c] = "dropping"], [capturers EXCEPT ![c] = "dropped"]}
      /\ stop' \in {stop, [stop EXCEPT ![c] = TRUE]}
  BY DEF DropCapturer, CapturerDropped, readerVars, ioVars, encoderVars
<1>2. Mp4TypeOK'
  BY <1>1 DEF ReaderInv, Mp4TypeOK
<1>3. ReaderServes' /\ EncodersTyped'
  BY <1>1, Zenon DEF ReaderInv, ReaderServes, EncodersTyped
<1>4. /\ capturers'[c] \in {"dropping", "dropped"}
      /\ \A d \in Capturers \ {c} : capturers'[d] = capturers[d]
  BY <1>1 DEF ReaderInv, Mp4TypeOK
<1>5. FeederAsks(c)'
  <2>1. capturers'[c] \notin {"unused", "none"}
    BY <1>4
  <2> QED BY <1>1, <2>1, Zenon DEF ReaderInv, FeederAsks, Asks, AsksOnce
<1>6. ASSUME NEW d \in Capturers \ {c} PROVE FeederAsks(d)'
  <2>1. FeederAsks(d) /\ feeders'[d] = feeders[d] /\ capturers'[d] = capturers[d]
        /\ responses'[d] = responses[d]
    BY <1>1, <1>4, Zenon DEF ReaderInv
  <2> QED BY <1>1, <2>1, AsksKept
<1> QED BY <1>2, <1>3, <1>5, <1>6, Zenon DEF ReaderInv

LEMMA ServeRequestStep ==
  ASSUME ReaderInv, ServeRequest
  PROVE  ReaderInv'
<1>1. /\ requests # <<>> /\ requests' = Tail(requests)
      /\ \E result \in {"sample", "error"} :
           responses' = [responses EXCEPT ![Head(requests)] = result]
      /\ UNCHANGED <<file, opened, clones, sender, joining, io, capturers, stop, feeders,
                     frames, encoders, sent>>
  BY DEF ServeRequest, readerVars, feederVars, encoderVars
<1>2. /\ requests \in Seq(Capturers)
      /\ responses \in [Capturers -> {"empty", "sample", "error"}]
  BY TypeFacts DEF ReaderInv
<1> DEFINE h == Head(requests)
<1>3. /\ requests' \in Seq(Capturers) /\ h \in Capturers /\ Asks(h)
      /\ \A d : d # h => Asks(d)' = Asks(d)
      /\ \A d : AsksOnce(d) => AsksOnce(d)'
      /\ \A d : ~Asks(d) => ~Asks(d)'
  BY <1>1, <1>2, TailAsks
<1>4. \A g : g = h /\ AsksOnce(g) => ~Asks(g)'
  BY <1>1, <1>2, TailAsks
<1>5. PICK result \in {"sample", "error"} : responses' = [responses EXCEPT ![h] = result]
  BY <1>1
<1> HIDE DEF h
<1>6. /\ responses' \in [Capturers -> {"empty", "sample", "error"}] /\ responses'[h] # "empty"
      /\ \A d \in Capturers \ {h} : responses'[d] = responses[d]
  BY <1>2, <1>3, <1>5
<1>7. Mp4TypeOK'
  BY <1>1, <1>3, <1>6 DEF ReaderInv, Mp4TypeOK
<1>8. ReaderServes' /\ EncodersTyped'
  BY <1>1, Zenon DEF ReaderInv, ReaderServes, EncodersTyped
<1>9. ASSUME NEW c \in Capturers, c = h PROVE FeederAsks(c)'
  <2>1. FeederAsks(c) /\ Asks(c)
    BY <1>3, <1>9, Zenon DEF ReaderInv
  <2>2. feeders[c].at \notin {"none", "next"}
    BY <2>1, Zenon DEF FeederAsks
  <2>3. feeders[c].at = "waiting" => ~Asks(c)' /\ AsksOnce(c)'
    BY <1>3, <1>4, <1>9, <2>1, Zenon DEF FeederAsks
  <2>4. responses'[c] # "empty"
    BY <1>6, <1>9, Zenon
  <2> QED BY <1>1, <2>1, <2>2, <2>3, <2>4, Zenon DEF FeederAsks
<1>10. ASSUME NEW c \in Capturers, c # h PROVE FeederAsks(c)'
  <2>1. FeederAsks(c) /\ Asks(c)' = Asks(c) /\ (AsksOnce(c) => AsksOnce(c)')
    BY <1>3, <1>10, Zenon DEF ReaderInv
  <2>2. responses'[c] = responses[c]
    BY <1>6, <1>10, Zenon
  <2> QED BY <1>1, <2>1, <2>2, Zenon DEF FeederAsks
<1> QED BY <1>7, <1>8, <1>9, <1>10, Zenon DEF ReaderInv

\* The feeder of c leaves: it asks for nothing any more.
LEMMA LeaveStep ==
  ASSUME ReaderInv, NEW c \in Capturers, feeders[c].at \in {"next", "waiting"}, Leave(c),
         UNCHANGED <<file, opened, requests, io, capturers, stop, frames, encoders, sent>>,
         responses' \in [Capturers -> {"empty", "sample", "error"}],
         \A d \in Capturers \ {c} : responses'[d] = responses[d]
  PROVE  ReaderInv'
<1>1. /\ clones' = clones \ {c} /\ clones' \subseteq Owners /\ joining' \subseteq Owners
      /\ sender' \in BOOLEAN /\ ReaderServes'
      /\ feeders' \in [Capturers -> Feeder]
      /\ feeders'[c].at \in {"joining", "ended"}
      /\ \A d \in Capturers \ {c} : feeders'[d] = feeders[d]
  BY LeaveFacts
<1>2. Mp4TypeOK'
  BY <1>1 DEF ReaderInv, Mp4TypeOK, Feeder, FeederStates
<1>3. EncodersTyped'
  BY Zenon DEF ReaderInv, EncodersTyped
<1>4. FeederAsks(c)'
  <2>1. feeders'[c].at \notin {"none", "next", "waiting"}
    BY <1>1
  <2>2. FeederAsks(c) /\ feeders[c].at # "none"
    BY Zenon DEF ReaderInv
  <2> QED BY <2>1, <2>2, Zenon DEF FeederAsks
<1>5. ASSUME NEW d \in Capturers \ {c} PROVE FeederAsks(d)'
  <2>1. /\ FeederAsks(d) /\ feeders'[d] = feeders[d]
        /\ d \in clones => d \in clones'
        /\ capturers'[d] = capturers[d]
    BY <1>1, Zenon DEF ReaderInv
  <2> QED BY <2>1, AsksKept
<1> QED BY <1>1, <1>2, <1>3, <1>4, <1>5, Zenon DEF ReaderInv

LEMMA NextSampleStep ==
  ASSUME ReaderInv, NEW c \in Capturers, NextSample(c)
  PROVE  ReaderInv'
<1>1. /\ feeders[c].at = "next"
      /\ UNCHANGED <<file, opened, io, responses, capturers, stop, frames, encoders, sent>>
  BY DEF NextSample, encoderVars
<1>2. /\ requests \in Seq(Capturers) /\ feeders \in [Capturers -> Feeder]
      /\ responses \in [Capturers -> {"empty", "sample", "error"}]
  BY TypeFacts DEF ReaderInv
<1>3. CASE Leave(c) /\ UNCHANGED requests
  <2>1. responses' = responses
    BY <1>1
  <2> QED BY <1>1, <1>2, <1>3, <2>1, LeaveStep
<1>4. ASSUME NEW applied \in BOOLEAN, feeders[c].serial < SerialMax, Consume(c, applied),
             requests' = IF applied THEN Append(requests, c) ELSE requests,
             UNCHANGED <<clones, sender, joining>>
      PROVE  ReaderInv'
  <2>1. /\ feeders' \in [Capturers -> Feeder] /\ feeders'[c].serial # 0
        /\ applied => feeders'[c].at = "waiting"
        /\ ~applied => feeders'[c].at = feeders[c].at
        /\ \A d \in Capturers \ {c} : feeders'[d] = feeders[d]
    <3>1. feeders[c].serial \in Nat
      BY <1>2 DEF Feeder
    <3>2. feeders[c].serial + 1 # 0
      BY <3>1
    <3> QED BY <1>2, <1>4, <3>2, ConsumeFacts
  <2>2. FeederAsks(c) /\ c \in clones /\ responses[c] = "empty" /\ ~Asks(c)
    BY <1>1, Zenon DEF ReaderInv, FeederAsks
  <2>3. applied => requests' = Append(requests, c)
    BY <1>4
  <2>4. ~applied => requests' = requests
    BY <1>4
  <2>5. applied => /\ requests' \in Seq(Capturers) /\ Asks(c)' /\ AsksOnce(c)'
                   /\ \A d \in Capturers \ {c} : Asks(d)' = Asks(d)
                   /\ \A d \in Capturers \ {c} : AsksOnce(d) => AsksOnce(d)'
    BY <1>2, <2>2, <2>3, AppendAsks
  <2>6. ~applied => /\ \A d \in Capturers : Asks(d)' = Asks(d)
                    /\ \A d \in Capturers : AsksOnce(d) => AsksOnce(d)'
    BY <2>4, Zenon DEF Asks, AsksOnce
  <2>7. requests' \in Seq(Capturers)
    BY <1>2, <2>4, <2>5
  <2>8. Mp4TypeOK'
    BY <1>1, <1>4, <2>1, <2>7 DEF ReaderInv, Mp4TypeOK, Feeder, FeederStates
  <2>9. ReaderServes' /\ EncodersTyped'
    BY <1>1, <1>4, Zenon DEF ReaderInv, ReaderServes, EncodersTyped
  <2>10. FeederAsks(c)'
    <3>1. CASE applied
      BY <1>1, <1>4, <2>1, <2>2, <2>5, <3>1, Zenon DEF FeederAsks
    <3>2. CASE ~applied
      BY <1>1, <1>4, <2>1, <2>2, <2>6, <3>2, Zenon DEF FeederAsks
    <3> QED BY <3>1, <3>2
  <2>11. ASSUME NEW d \in Capturers \ {c} PROVE FeederAsks(d)'
    <3>1. /\ FeederAsks(d) /\ feeders'[d] = feeders[d] /\ Asks(d)' = Asks(d)
          /\ AsksOnce(d) => AsksOnce(d)'
      BY <2>1, <2>5, <2>6, Zenon DEF ReaderInv
    <3> QED BY <1>1, <1>4, <3>1, Zenon DEF FeederAsks
  <2> QED BY <2>8, <2>9, <2>10, <2>11, Zenon DEF ReaderInv
<1> QED BY <1>3, <1>4, Zenon DEF NextSample

LEMMA GiveUpStep ==
  ASSUME ReaderInv, NEW c \in Capturers, GiveUp(c)
  PROVE  ReaderInv'
<1>1. /\ feeders[c].at = "waiting" /\ Leave(c)
      /\ UNCHANGED <<file, opened, requests, io, responses, capturers, stop, frames, encoders, sent>>
  BY DEF GiveUp, ioVars, encoderVars
<1>2. responses' \in [Capturers -> {"empty", "sample", "error"}]
  BY <1>1, TypeFacts DEF ReaderInv
<1> QED BY <1>1, <1>2, LeaveStep

LEMMA TakeResponseStep ==
  ASSUME ReaderInv, NEW c \in Capturers, TakeResponse(c)
  PROVE  ReaderInv'
<1>1. /\ feeders[c].at = "waiting" /\ responses[c] # "empty"
      /\ responses' = [responses EXCEPT ![c] = "empty"]
      /\ UNCHANGED <<file, opened, requests, io, capturers, stop, encoders, sent>>
  BY DEF TakeResponse, encoderVars
<1>2. /\ feeders \in [Capturers -> Feeder] /\ frames \in [Capturers -> Seq(FeederFrame)]
      /\ responses \in [Capturers -> {"empty", "sample", "error"}]
  BY TypeFacts DEF ReaderInv
<1>3. /\ responses' \in [Capturers -> {"empty", "sample", "error"}] /\ responses'[c] = "empty"
      /\ \A d \in Capturers \ {c} : responses'[d] = responses[d]
  BY <1>1, <1>2
<1>4. CASE Leave(c) /\ UNCHANGED frames
  BY <1>1, <1>3, <1>4, LeaveStep
<1>5. ASSUME frames' = IF c \in Connected
               THEN [frames EXCEPT ![c] = Append(@,
                       [index |-> feeders[c].index, serial |-> feeders[c].serial - 1])]
               ELSE frames,
             feeders' = [feeders EXCEPT ![c].at = "next", ![c].index = Following(@)],
             UNCHANGED <<clones, sender, joining>>, frames' \in [Capturers -> Seq(FeederFrame)]
      PROVE  ReaderInv'
  <2>1. Following(feeders[c].index) \in Nat /\ "next" \in FeederStates
    BY <1>2, FollowingNat DEF Feeder, FeederStates
  <2>2. feeders' = [feeders EXCEPT ![c].at = "next", ![c].index = Following(feeders[c].index)]
    BY <1>5
  <2>3. /\ feeders' \in [Capturers -> Feeder] /\ feeders'[c].at = "next"
        /\ \A d \in Capturers \ {c} : feeders'[d] = feeders[d]
    <3> DEFINE next == Following(feeders[c].index)
    <3> HIDE DEF next
    <3>1. next \in Nat /\ feeders' = [feeders EXCEPT ![c].at = "next", ![c].index = next]
      BY <2>1, <2>2 DEF next
    <3> QED BY <1>2, <3>1 DEF Feeder, FeederStates
  <2>4. Mp4TypeOK'
    BY <1>1, <1>3, <1>5, <2>3 DEF ReaderInv, Mp4TypeOK, Feeder, FeederStates, FeederFrame
  <2>5. ReaderServes' /\ EncodersTyped'
    BY <1>1, <1>5, Zenon DEF ReaderInv, ReaderServes, EncodersTyped
  <2>6. FeederAsks(c)'
    <3>1. FeederAsks(c) /\ ~Asks(c) /\ c \in clones
      BY <1>1, Zenon DEF ReaderInv, FeederAsks
    <3>2. ~Asks(c)'
      BY <1>1, <3>1, Zenon DEF Asks
    <3> QED BY <1>1, <1>3, <1>5, <2>3, <3>1, <3>2, Zenon DEF FeederAsks
  <2>7. ASSUME NEW d \in Capturers \ {c} PROVE FeederAsks(d)'
    <3>1. FeederAsks(d) /\ feeders'[d] = feeders[d] /\ responses'[d] = responses[d]
      BY <1>3, <2>3, Zenon DEF ReaderInv
    <3> QED BY <1>1, <1>5, <3>1, AsksKept
  <2> QED BY <2>4, <2>5, <2>6, <2>7, Zenon DEF ReaderInv
<1>6. ASSUME frames' = IF c \in Connected
               THEN [frames EXCEPT ![c] = Append(@,
                       [index |-> feeders[c].index, serial |-> feeders[c].serial - 1])]
               ELSE frames,
             feeders[c].serial > 0
      PROVE  frames' \in [Capturers -> Seq(FeederFrame)]
  <2>1. [index |-> feeders[c].index, serial |-> feeders[c].serial - 1] \in FeederFrame
    BY <1>2, <1>6, Numbers DEF Feeder, FeederFrame
  <2> QED BY <1>2, <1>6, <2>1
<1>7. feeders[c].serial > 0
  <2>1. feeders[c].serial # 0
    BY <1>1, Zenon DEF ReaderInv, FeederAsks
  <2> QED BY <1>2, <2>1 DEF Feeder
<1>8. CASE Leave(c) /\ UNCHANGED frames
  BY <1>4, <1>8
<1>9. CASE /\ frames' = IF c \in Connected
                THEN [frames EXCEPT ![c] = Append(@,
                        [index |-> feeders[c].index, serial |-> feeders[c].serial - 1])]
                ELSE frames
           /\ feeders' = [feeders EXCEPT ![c].at = "next", ![c].index = Following(@)]
           /\ UNCHANGED <<clones, sender, joining>>
  BY <1>5, <1>6, <1>7, <1>9
<1> QED BY <1>8, <1>9, Zenon DEF TakeResponse

LEMMA FeederEndsStep ==
  ASSUME ReaderInv, NEW c \in Capturers, FeederEnds(c)
  PROVE  ReaderInv'
<1>1. /\ feeders[c].at = "joining" /\ joining' \subseteq joining
      /\ feeders' = [feeders EXCEPT ![c].at = "ended"]
      /\ UNCHANGED <<file, opened, clones, sender, requests, io, responses, capturers, stop, frames,
                     encoders, sent>>
  BY DEF FeederEnds, ioVars, encoderVars
<1>2. feeders \in [Capturers -> Feeder]
  BY TypeFacts DEF ReaderInv
<1>3. /\ feeders' \in [Capturers -> Feeder] /\ feeders'[c].at = "ended"
      /\ \A d \in Capturers \ {c} : feeders'[d] = feeders[d]
  BY <1>1, <1>2 DEF Feeder, FeederStates
<1>4. Mp4TypeOK'
  BY <1>1, <1>3 DEF ReaderInv, Mp4TypeOK, Feeder, FeederStates
<1>5. ReaderServes' /\ EncodersTyped'
  BY <1>1, Zenon DEF ReaderInv, ReaderServes, EncodersTyped
<1>6. FeederAsks(c)'
  <2>1. feeders'[c].at \notin {"none", "next", "waiting"}
    BY <1>3
  <2>2. FeederAsks(c) /\ feeders[c].at # "none"
    BY <1>1, Zenon DEF ReaderInv
  <2> QED BY <1>1, <2>1, <2>2, Zenon DEF FeederAsks
<1>7. ASSUME NEW d \in Capturers \ {c} PROVE FeederAsks(d)'
  BY <1>1, <1>3, AsksKept DEF ReaderInv
<1> QED BY <1>4, <1>5, <1>6, <1>7, Zenon DEF ReaderInv

-----------------------------------------------------------------------------
(* The encoders                                                            *)

\* Sample i with number n is on its way to the encoder of c, or the last one sent.
Item(c, i, n) ==
  \/ \E k \in DOMAIN frames[c] : frames[c][k].index = i /\ frames[c][k].serial = n
  \/ encoders[c].last # None /\ sent[c] = i /\ encoders[c].last = n

\* The encoder of c only loses and sends what is on its way.
Fewer(c) ==
  /\ EncodersTyped' /\ frames' \in [Capturers -> Seq(FeederFrame)] /\ sent' \in [Capturers -> Nat]
  /\ \A i, n \in Nat : Item(c, i, n)' => Item(c, i, n)
  /\ \A d \in Capturers \ {c} :
       encoders'[d] = encoders[d] /\ frames'[d] = frames[d] /\ sent'[d] = sent[d]

LEMMA ItemNumbers ==
  ASSUME ReaderInv, NEW c \in Capturers
  PROVE  /\ encoders \in [Capturers -> Encoder] /\ frames[c] \in Seq(FeederFrame) /\ sent[c] \in Nat
         /\ encoders[c].last \in (0..SerialMax) \cup {None}
  BY TypeFacts DEF ReaderInv, EncodersTyped, Encoder

\* An encoder is made, set up or destroyed.
LEMMA EncoderSet ==
  ASSUME ReaderInv, NEW c \in Capturers, NEW e \in Encoder,
         encoders' = [encoders EXCEPT ![c] = e], e.last \in {None, encoders[c].last},
         UNCHANGED <<frames, sent>>
  PROVE  Fewer(c)
<1>1. encoders \in [Capturers -> Encoder]
  BY ItemNumbers
<1>2. /\ encoders' \in [Capturers -> Encoder] /\ encoders'[c] = e
      /\ \A d \in Capturers \ {c} : encoders'[d] = encoders[d]
  BY <1>1
<1>3. frames' \in [Capturers -> Seq(FeederFrame)] /\ sent' \in [Capturers -> Nat]
  BY TypeFacts DEF ReaderInv
<1>4. ASSUME NEW i, NEW n, Item(c, i, n)' PROVE Item(c, i, n)
  BY <1>2, <1>4, Zenon DEF Item
<1> QED BY <1>2, <1>3, <1>4, Zenon DEF Fewer, EncodersTyped

LEMMA EncoderTypes ==
  /\ NoEncoder \in Encoder /\ NoEncoder.last = None
  /\ \A format \in Receivers : NewEncoder(format) \in Encoder /\ NewEncoder(format).last = None
  BY DEF NoEncoder, NewEncoder, Encoder

LEMMA SetUpStep ==
  ASSUME ReaderInv, NEW c \in Capturers,
         CreateEncoder(c) \/ InitPassthrough(c) \/ SetCallback(c) \/ DestroyEncoder(c)
  PROVE  Fewer(c) /\ UNCHANGED <<readerVars, ioVars, feederVars, sent>>
<1>1. UNCHANGED <<readerVars, ioVars, feederVars, frames, sent>>
  BY DEF CreateEncoder, InitPassthrough, SetCallback, DestroyEncoder
<1>2. encoders \in [Capturers -> Encoder] /\ encoders[c] \in Encoder
  BY ItemNumbers
<1>3. CASE CreateEncoder(c)
  <2>1. PICK format \in Receivers : encoders' = [encoders EXCEPT ![c] = NewEncoder(format)]
    BY <1>3, Zenon DEF CreateEncoder
  <2>2. NewEncoder(format) \in Encoder /\ NewEncoder(format).last \in {None, encoders[c].last}
    BY EncoderTypes
  <2> QED BY <1>1, <2>1, <2>2, EncoderSet
<1>4. CASE InitPassthrough(c)
  <2> DEFINE e == [encoders[c] EXCEPT !.waiting = TRUE, !.last = None]
  <2>1. e \in Encoder /\ e.last = None
    BY <1>2 DEF Encoder
  <2>2. encoders' = [encoders EXCEPT ![c].waiting = TRUE, ![c].last = None]
    BY <1>4, Zenon DEF InitPassthrough
  <2>3. encoders' = [encoders EXCEPT ![c] = e]
    BY <1>2, <2>2 DEF Encoder
  <2> HIDE DEF e
  <2> QED BY <1>1, <2>1, <2>3, EncoderSet
<1>5. CASE SetCallback(c)
  <2>1. PICK registered \in BOOLEAN : encoders' = [encoders EXCEPT ![c].callback = registered]
    BY <1>5, Zenon DEF SetCallback
  <2> DEFINE e == [encoders[c] EXCEPT !.callback = registered]
  <2>2. e \in Encoder /\ e.last = encoders[c].last
    BY <1>2 DEF Encoder
  <2>3. encoders' = [encoders EXCEPT ![c] = e]
    BY <1>2, <2>1 DEF Encoder
  <2> HIDE DEF e
  <2> QED BY <1>1, <2>2, <2>3, EncoderSet
<1>6. CASE DestroyEncoder(c)
  <2>1. encoders' = [encoders EXCEPT ![c] = NoEncoder]
    BY <1>6, Zenon DEF DestroyEncoder
  <2> QED BY <1>1, <2>1, EncoderTypes, EncoderSet
<1> QED BY <1>1, <1>3, <1>4, <1>5, <1>6

\* The frame that comes first leaves.
LEMMA FrameLeaves ==
  ASSUME ReaderInv, NEW c \in Capturers, frames[c] # <<>>,
         frames' = [frames EXCEPT ![c] = Tail(@)]
  PROVE  /\ frames' \in [Capturers -> Seq(FeederFrame)]
         /\ \A d \in Capturers \ {c} : frames'[d] = frames[d]
         /\ Head(frames[c]) \in FeederFrame
         /\ 1 \in DOMAIN frames[c] /\ frames[c][1] = Head(frames[c])
         /\ \A k \in DOMAIN frames'[c] :
              \E l \in DOMAIN frames[c] : frames'[c][k] = frames[c][l]
<1>1. frames \in [Capturers -> Seq(FeederFrame)]
  BY TypeFacts DEF ReaderInv
<1>2. /\ Tail(frames[c]) \in Seq(FeederFrame) /\ Head(frames[c]) \in FeederFrame
      /\ 1 \in DOMAIN frames[c] /\ frames[c][1] = Head(frames[c])
      /\ \A k \in DOMAIN Tail(frames[c]) :
           k + 1 \in DOMAIN frames[c] /\ Tail(frames[c])[k] = frames[c][k + 1]
  BY <1>1
<1>3. /\ frames' \in [Capturers -> Seq(FeederFrame)] /\ frames'[c] = Tail(frames[c])
      /\ \A d \in Capturers \ {c} : frames'[d] = frames[d]
  BY <1>1, <1>2
<1> QED BY <1>2, <1>3, Zenon

LEMMA LoseFrameStep ==
  ASSUME ReaderInv, NEW c \in Capturers, LoseFrame(c)
  PROVE  Fewer(c) /\ UNCHANGED <<readerVars, ioVars, feederVars, sent>>
<1>1. /\ frames[c] # <<>> /\ frames' = [frames EXCEPT ![c] = Tail(@)]
      /\ UNCHANGED <<readerVars, ioVars, feederVars, encoders, sent>>
  BY DEF LoseFrame, encoderVars
<1>2. /\ frames' \in [Capturers -> Seq(FeederFrame)]
      /\ \A d \in Capturers \ {c} : frames'[d] = frames[d]
      /\ \A k \in DOMAIN frames'[c] : \E l \in DOMAIN frames[c] : frames'[c][k] = frames[c][l]
  BY <1>1, FrameLeaves
<1>3. ASSUME NEW i, NEW n, Item(c, i, n)' PROVE Item(c, i, n)
  BY <1>1, <1>2, <1>3, ZenonT(30) DEF Item
<1>4. EncodersTyped' /\ sent' \in [Capturers -> Nat]
  BY <1>1, TypeFacts DEF ReaderInv, EncodersTyped
<1> QED BY <1>1, <1>2, <1>3, <1>4, Zenon DEF Fewer

LEMMA EncodeStep ==
  ASSUME ReaderInv, NEW c \in Capturers, Encode(c)
  PROVE  /\ Fewer(c) /\ UNCHANGED <<readerVars, ioVars, feederVars>>
         /\ \/ sent' = sent
            \/ /\ sent' = [sent EXCEPT ![c] = Head(frames[c]).index]
               /\ ShouldForward(encoders[c], Head(frames[c]))
               /\ Item(c, Head(frames[c]).index, Head(frames[c]).serial)
               /\ Head(frames[c]) \in FeederFrame
<1> DEFINE frame == Head(frames[c])
<1>1. /\ frames[c] # <<>> /\ frames' = [frames EXCEPT ![c] = Tail(@)]
      /\ UNCHANGED <<readerVars, ioVars, feederVars>>
  BY DEF Encode
<1>2. /\ frames' \in [Capturers -> Seq(FeederFrame)] /\ frame \in FeederFrame
      /\ \A d \in Capturers \ {c} : frames'[d] = frames[d]
      /\ 1 \in DOMAIN frames[c] /\ frames[c][1] = frame
      /\ \A k \in DOMAIN frames'[c] : \E l \in DOMAIN frames[c] : frames'[c][k] = frames[c][l]
  BY <1>1, FrameLeaves
<1>3. Item(c, frame.index, frame.serial)
  BY <1>2, Zenon DEF Item
<1>4. /\ encoders \in [Capturers -> Encoder] /\ sent \in [Capturers -> Nat]
      /\ encoders[c] \in Encoder
  BY ItemNumbers, TypeFacts DEF ReaderInv
<1>5. CASE UNCHANGED encoderVars
  <2>1. encoders' = encoders /\ sent' = sent
    BY <1>5 DEF encoderVars
  <2>2. ASSUME NEW i, NEW n, Item(c, i, n)' PROVE Item(c, i, n)
    BY <1>2, <2>1, <2>2, Zenon DEF Item
  <2> QED BY <1>1, <1>2, <1>4, <2>1, <2>2, Zenon DEF Fewer, EncodersTyped
<1>6. CASE /\ ShouldForward(encoders[c], frame)
           /\ sent' = [sent EXCEPT ![c] = frame.index]
           /\ encoders' = [encoders EXCEPT ![c].waiting = FALSE, ![c].last = frame.serial]
  <2>1. frame.index \in Nat /\ frame.serial \in 0..SerialMax
    BY <1>2 DEF FeederFrame
  <2> HIDE DEF frame
  <2>2. /\ sent' \in [Capturers -> Nat] /\ sent'[c] = frame.index
        /\ \A d \in Capturers \ {c} : sent'[d] = sent[d]
    BY <1>4, <1>6, <2>1
  <2>3. /\ encoders' \in [Capturers -> Encoder] /\ encoders'[c].last = frame.serial
        /\ \A d \in Capturers \ {c} : encoders'[d] = encoders[d]
    BY <1>4, <1>6, <2>1 DEF Encoder
  <2>4. ASSUME NEW i, NEW n, Item(c, i, n)' PROVE Item(c, i, n)
    <3>1. CASE \E k \in DOMAIN frames'[c] : frames'[c][k].index = i /\ frames'[c][k].serial = n
      BY <1>2, <3>1, Zenon DEF Item
    <3>2. CASE sent'[c] = i /\ encoders'[c].last = n
      <4>1. i = frame.index /\ n = frame.serial
        BY <2>2, <2>3, <3>2, Zenon
      <4> QED BY <1>3, <4>1, Zenon
    <3> QED BY <2>4, <3>1, <3>2, Zenon DEF Item
  <2>5. Fewer(c)
    BY <1>2, <2>2, <2>3, <2>4, Zenon DEF Fewer, EncodersTyped
  <2> QED BY <1>1, <1>2, <1>3, <1>6, <2>5, Zenon DEF frame
<1>7. CASE /\ encoders' = [encoders EXCEPT ![c].waiting = TRUE, ![c].last = None]
           /\ UNCHANGED sent
  <2>1. /\ encoders' \in [Capturers -> Encoder] /\ encoders'[c].last = None
        /\ \A d \in Capturers \ {c} : encoders'[d] = encoders[d]
    BY <1>4, <1>7 DEF Encoder
  <2>2. ASSUME NEW i, NEW n, Item(c, i, n)' PROVE Item(c, i, n)
    BY <1>2, <2>1, <2>2, Zenon DEF Item
  <2> QED BY <1>1, <1>2, <1>4, <1>7, <2>1, <2>2, Zenon DEF Fewer, EncodersTyped
<1> QED BY <1>5, <1>6, <1>7, Zenon DEF Encode

LEMMA EncoderNextFacts ==
  ASSUME ReaderInv, NEW c \in Capturers, EncoderNext(c)
  PROVE  Fewer(c) /\ UNCHANGED <<readerVars, ioVars, feederVars>>
  BY SetUpStep, LoseFrameStep, EncodeStep, Zenon DEF EncoderNext

LEMMA EncoderStep ==
  ASSUME ReaderInv, NEW c \in Capturers, EncoderNext(c)
  PROVE  ReaderInv'
  BY EncoderNextFacts, EncoderKeeps, Zenon DEF Fewer

-----------------------------------------------------------------------------
(* The reader's invariant                                                  *)

LEMMA ReaderInitially ==
  ASSUME Mp4Init
  PROVE  ReaderInv
<1>1. EncodersTyped
  BY EncoderTypes DEF Mp4Init, EncodersTyped
<1>2. \A c \in Capturers : /\ encoders[c].callback \in BOOLEAN /\ encoders[c].waiting \in BOOLEAN
                           /\ encoders[c].last \in (0..SerialMax) \cup {None}
  BY <1>1 DEF EncodersTyped, Encoder
<1>3. Mp4TypeOK
  <2>1. 0 \in 0..SerialMax
    BY Numbers
  <2>2. capturers \in [Capturers -> {"unused", "none", "playing", "dropping", "dropped"}]
    BY DEF Mp4Init
  <2>3. feeders \in [Capturers -> Feeder]
    BY <2>1 DEF Mp4Init, Feeder, FeederStates
  <2>4. /\ file \in Files /\ opened = "no" /\ clones = {} /\ sender = FALSE /\ joining = {}
        /\ requests = <<>> /\ io = "none"
    BY DEF Mp4Init
  <2>5. /\ responses \in [Capturers -> {"empty", "sample", "error"}]
        /\ stop \in [Capturers -> BOOLEAN] /\ sent \in [Capturers -> Nat]
    BY DEF Mp4Init
  <2>6. <<>> \in Seq([index : Nat, serial : 0..SerialMax])
    OBVIOUS
  <2>7. frames \in [Capturers -> Seq([index : Nat, serial : 0..SerialMax])]
    BY <2>6, Zenon DEF Mp4Init
  <2>8. /\ opened \in {"no", "yes", "refused"} /\ clones \subseteq Owners /\ joining \subseteq Owners
        /\ sender \in BOOLEAN /\ io \in {"none", "running", "ended"}
    BY <2>4
  <2>9. requests \in Seq(Capturers)
    BY <2>4
  <2> QED BY <1>2, <2>2, <2>3, <2>4, <2>5, <2>7, <2>8, <2>9, Zenon
          DEF Mp4TypeOK, Feeder, FeederStates
<1>4. ReaderServes
  BY DEF Mp4Init, ReaderServes
<1>5. ASSUME NEW c \in Capturers PROVE FeederAsks(c)
  <2>1. feeders[c].at = "none" /\ responses[c] = "empty" /\ requests = <<>>
    BY DEF Mp4Init
  <2>2. ~Asks(c)
    BY <2>1 DEF Asks
  <2> QED BY <2>1, <2>2 DEF FeederAsks
<1> QED BY <1>1, <1>3, <1>4, <1>5, Zenon DEF ReaderInv

LEMMA ReaderInductive ==
  ASSUME ReaderInv, [Mp4Next]_mp4Vars
  PROVE  ReaderInv'
<1>1. CASE UNCHANGED mp4Vars
  <2>1. UNCHANGED <<file, opened, clones, sender, joining, requests, io, responses, capturers,
                    stop, feeders, frames, encoders, sent>>
    BY <1>1 DEF mp4Vars, readerVars, ioVars, feederVars, encoderVars
  <2>2. Mp4TypeOK'
    BY <2>1 DEF ReaderInv, Mp4TypeOK
  <2>3. ReaderServes'
    BY <2>1, Zenon DEF ReaderInv, ReaderServes
  <2> QED BY <2>1, <2>2, <2>3, QuietStep, Zenon
<1>2. CASE OpenFile \/ DropReader \/ ReaderDropped \/ ServeRequest \/ IoThreadEnds
  BY <1>2, OpenFileStep, DropReaderStep, WaitsStep, ServeRequestStep, Zenon
<1>3. ASSUME NEW c \in Capturers, NewCapturer(c) \/ DropCapturer(c) \/ CapturerDropped(c)
      PROVE  ReaderInv'
  BY <1>3, NewCapturerStep, DropCapturerStep, Zenon
<1>4. ASSUME NEW c \in Capturers, FeederNext(c) PROVE ReaderInv'
  BY <1>4, NextSampleStep, GiveUpStep, TakeResponseStep, FeederEndsStep, Zenon DEF FeederNext
<1>5. ASSUME NEW c \in Connected, EncoderNext(c) PROVE ReaderInv'
  <2>1. c \in Capturers
    BY <1>5, Mp4Assumption DEF Mp4Assumption
  <2> QED BY <1>5, <2>1, EncoderStep, Zenon
<1> QED BY <1>1, <1>2, <1>3, <1>4, <1>5, Zenon DEF Mp4Next

LEMMA ReaderInvariant == Mp4Spec => []ReaderInv
<1>1. Mp4Init => ReaderInv
  BY ReaderInitially
<1>2. ReaderInv /\ [Mp4Next]_mp4Vars => ReaderInv'
  BY ReaderInductive
<1> QED BY <1>1, <1>2, PTL DEF Mp4Spec

\* The variables hold values of their types, for any files and receivers.
THEOREM Mp4TypeCorrect == Mp4Spec => []Mp4TypeOK
<1>1. ReaderInv => Mp4TypeOK
  BY Zenon DEF ReaderInv
<1> QED BY <1>1, ReaderInvariant, PTL

\* get_sample of Mp4SampleReader waits for a response only while the I/O thread has its
\* request or has answered it, whoever drops a clone of the reader and when.
THEOREM WaitingServed == Mp4Spec => []WaitingIsServed
<1>1. ASSUME ReaderInv PROVE WaitingIsServed
  <2>1. clones # {} => sender /\ io = "running"
    BY <1>1, Zenon DEF ReaderInv, ReaderServes
  <2>2. ASSUME NEW c \in Capturers, feeders[c].at = "waiting"
        PROVE  /\ c \in clones
               /\ (responses[c] = "empty") = (\E i \in DOMAIN requests : requests[i] = c)
               /\ \A i, j \in DOMAIN requests : requests[i] = c /\ requests[j] = c => i = j
    <3>1. c \in clones /\ (responses[c] = "empty" <=> Asks(c)) /\ AsksOnce(c)
      BY <1>1, <2>2, Zenon DEF ReaderInv, FeederAsks
    <3> QED BY <3>1 DEF Asks, AsksOnce
  <2> QED BY <2>1, <2>2, Zenon DEF WaitingIsServed
<1>2. ReaderInv => WaitingIsServed
  BY <1>1
<1> QED BY <1>2, ReaderInvariant, PTL

-----------------------------------------------------------------------------
(* The order of what is sent                                               *)

\* What the order needs of the files: one that new accepts has a first sample, and
\* that is a key frame.  Of AV1, validate_av1_track asks it.
BeginWithKeyFrames ==
  \A f \in Files :
    Accepted(f) => Len(VideoSamples(f)) \in Nat \ {0} /\ VideoSamples(f)[1].key

\* Samples with consecutive numbers follow each other in the file, and the feeder
\* goes on where they end.
Order(c) ==
  /\ \A i, n \in Nat : Item(c, i, n) => i \in 1..SampleCount
  /\ \A i, j, n \in Nat : Item(c, i, n) /\ Item(c, j, n + 1) => j = Following(i)
  /\ feeders[c].at = "none" => feeders[c].index = 1 /\ \A i, n \in Nat : ~Item(c, i, n)
  /\ feeders[c].at \in {"next", "waiting"} => feeders[c].index \in 1..SampleCount
  /\ feeders[c].at = "next" =>
       \A i, n \in Nat : Item(c, i, n) =>
         /\ n < feeders[c].serial
         /\ n + 1 = feeders[c].serial => feeders[c].index = Following(i)
  /\ feeders[c].at = "waiting" =>
       \A i, n \in Nat : Item(c, i, n) =>
         /\ n + 1 < feeders[c].serial
         /\ n + 2 = feeders[c].serial => feeders[c].index = Following(i)

OrderInv ==
  /\ opened = "yes" => Accepted(file)
  /\ \A c \in Capturers : Order(c)

LEMMA FollowingInFile ==
  ASSUME SampleCount \in Nat \ {0}, NEW i \in 1..SampleCount
  PROVE  Following(i) \in 1..SampleCount
  BY DEF Following

LEMMA CountedSamples ==
  ASSUME BeginWithKeyFrames, ReaderInv, OrderInv, opened = "yes"
  PROVE  SampleCount \in Nat \ {0} /\ IsKeyframe(1)
<1>1. file \in Files /\ Accepted(file)
  BY Zenon DEF ReaderInv, Mp4TypeOK, OrderInv
<1> QED BY <1>1, Zenon DEF BeginWithKeyFrames, SampleCount, IsKeyframe

\* Nothing is added that is on its way.
LEMMA PairsKept ==
  ASSUME NEW c \in Capturers, Order(c), file' = file,
         \A i, n \in Nat : Item(c, i, n)' => Item(c, i, n)
  PROVE  /\ \A i, n \in Nat : Item(c, i, n)' => i \in 1..SampleCount'
         /\ \A i, j, n \in Nat : Item(c, i, n)' /\ Item(c, j, n + 1)' => j = Following(i)'
<1>1. SampleCount' = SampleCount /\ \A i : Following(i)' = Following(i)
  BY Zenon DEF SampleCount, Following
<1>2. \A i, n \in Nat : Item(c, i, n)' => i \in 1..SampleCount'
  BY <1>1, Zenon DEF Order
<1>3. \A i, j, n \in Nat : Item(c, i, n)' /\ Item(c, j, n + 1)' => j = Following(i)'
  <2>1. \A n \in Nat : n + 1 \in Nat
    OBVIOUS
  <2> QED BY <1>1, <2>1, ZenonT(30) DEF Order
<1> QED BY <1>2, <1>3

\* The feeder of c stays as it is, too.
LEMMA OrderKept ==
  ASSUME NEW c \in Capturers, Order(c), feeders'[c] = feeders[c], file' = file,
         \A i, n \in Nat : Item(c, i, n)' => Item(c, i, n)
  PROVE  Order(c)'
<1>1. SampleCount' = SampleCount /\ \A i : Following(i)' = Following(i)
  BY Zenon DEF SampleCount, Following
<1>2. feeders'[c].at = feeders[c].at /\ feeders'[c].index = feeders[c].index
      /\ feeders'[c].serial = feeders[c].serial
  BY Zenon
<1>3. /\ \A i, n \in Nat : Item(c, i, n)' => i \in 1..SampleCount'
      /\ \A i, j, n \in Nat : Item(c, i, n)' /\ Item(c, j, n + 1)' => j = Following(i)'
  BY PairsKept
<1>4. /\ feeders'[c].at = "none" =>
           feeders'[c].index = 1 /\ \A i, n \in Nat : ~Item(c, i, n)'
      /\ feeders'[c].at \in {"next", "waiting"} => feeders'[c].index \in 1..SampleCount'
  BY <1>1, <1>2, Zenon DEF Order
<1>5. feeders'[c].at = "next" =>
        \A i, n \in Nat : Item(c, i, n)' =>
          /\ n < feeders'[c].serial
          /\ n + 1 = feeders'[c].serial => feeders'[c].index = Following(i)'
  BY <1>1, <1>2, Zenon DEF Order
<1>6. feeders'[c].at = "waiting" =>
        \A i, n \in Nat : Item(c, i, n)' =>
          /\ n + 1 < feeders'[c].serial
          /\ n + 2 = feeders'[c].serial => feeders'[c].index = Following(i)'
  BY <1>1, <1>2, Zenon DEF Order
<1> QED BY <1>3, <1>4, <1>5, <1>6, Zenon DEF Order

\* What of c is on its way is what it was.
LEMMA SameItems ==
  ASSUME NEW c, frames'[c] = frames[c], sent'[c] = sent[c], encoders'[c] = encoders[c]
  PROVE  \A i, n : Item(c, i, n)' = Item(c, i, n)
  BY Zenon DEF Item

\* Only c changes.
LEMMA OthersKept ==
  ASSUME OrderInv, NEW c \in Capturers, UNCHANGED <<opened, file>>, Order(c)',
         \A d \in Capturers \ {c} :
           /\ feeders'[d] = feeders[d] /\ frames'[d] = frames[d]
           /\ sent'[d] = sent[d] /\ encoders'[d] = encoders[d]
  PROVE  OrderInv'
<1>1. ASSUME NEW d \in Capturers \ {c} PROVE Order(d)'
  <2>1. \A i, n \in Nat : Item(d, i, n)' => Item(d, i, n)
    BY <1>1, SameItems, Zenon
  <2> QED BY <1>1, <2>1, OrderKept, Zenon DEF OrderInv
<1> QED BY <1>1, Zenon DEF OrderInv

LEMMA EncoderOrder ==
  ASSUME ReaderInv, OrderInv, NEW c \in Capturers, EncoderNext(c)
  PROVE  OrderInv'
<1>1. Fewer(c) /\ UNCHANGED <<file, opened, feeders>>
  BY EncoderNextFacts DEF readerVars, feederVars
<1>2. Order(c)'
  BY <1>1, OrderKept, Zenon DEF Fewer, OrderInv
<1> QED BY <1>1, <1>2, OthersKept, Zenon DEF Fewer

LEMMA LeaveOrder ==
  ASSUME ReaderInv, OrderInv, NEW c \in Capturers, feeders[c].at \in {"next", "waiting"},
         Leave(c), UNCHANGED <<io, file, opened, frames, sent, encoders>>
  PROVE  OrderInv'
<1>1. /\ feeders'[c].at \in {"joining", "ended"}
      /\ \A d \in Capturers \ {c} : feeders'[d] = feeders[d]
  BY LeaveFacts
<1>2. feeders'[c].at \notin {"none", "next", "waiting"}
  BY <1>1
<1>3. Order(c) /\ \A i, n \in Nat : Item(c, i, n)' => Item(c, i, n)
  BY SameItems, Zenon DEF OrderInv
<1>4. /\ \A i, n \in Nat : Item(c, i, n)' => i \in 1..SampleCount'
      /\ \A i, j, n \in Nat : Item(c, i, n)' /\ Item(c, j, n + 1)' => j = Following(i)'
  BY <1>3, PairsKept
<1>5. Order(c)'
  BY <1>2, <1>4, Zenon DEF Order
<1> QED BY <1>1, <1>5, OthersKept, Zenon

LEMMA NewCapturerOrder ==
  ASSUME BeginWithKeyFrames, ReaderInv, OrderInv, NEW c \in Capturers, NewCapturer(c)
  PROVE  OrderInv'
<1>1. /\ capturers[c] = "none" /\ App \in clones
      /\ feeders' = [feeders EXCEPT ![c].at = "next"]
      /\ UNCHANGED <<file, opened, frames, encoders, sent>>
  BY DEF NewCapturer, encoderVars
<1>2. feeders \in [Capturers -> Feeder] /\ feeders[c].at = "none" /\ opened = "yes"
  BY <1>1, TypeFacts DEF ReaderInv, FeederAsks, ReaderServes
<1>3. feeders[c].index = 1 /\ \A i, n \in Nat : ~Item(c, i, n)
  BY <1>2, Zenon DEF OrderInv, Order
<1>4. /\ feeders'[c].at = "next" /\ feeders'[c].index = 1
      /\ \A d \in Capturers \ {c} : feeders'[d] = feeders[d]
  BY <1>1, <1>2, <1>3 DEF Feeder
<1>5. SampleCount' = SampleCount
  BY <1>1, Zenon DEF SampleCount
<1>6. 1 \in 1..SampleCount
  BY <1>2, CountedSamples
<1>7. \A i, n \in Nat : ~Item(c, i, n)'
  BY <1>1, <1>3, SameItems, Zenon
<1>8. \A n \in Nat : n + 1 \in Nat
  OBVIOUS
<1>9. feeders'[c].at # "none" /\ feeders'[c].at # "waiting"
  BY <1>4
<1>10. Order(c)'
  BY <1>4, <1>5, <1>6, <1>7, <1>8, <1>9, Zenon DEF Order
<1> QED BY <1>1, <1>4, <1>10, OthersKept, Zenon

LEMMA NextSampleOrder ==
  ASSUME BeginWithKeyFrames, ReaderInv, OrderInv, NEW c \in Capturers, NextSample(c)
  PROVE  OrderInv'
<1>1. /\ feeders[c].at = "next"
      /\ UNCHANGED <<file, opened, io, frames, encoders, sent>>
  BY DEF NextSample, encoderVars
<1>2. feeders \in [Capturers -> Feeder] /\ opened = "yes"
  BY <1>1, TypeFacts DEF ReaderInv, FeederAsks
<1>3. SampleCount \in Nat \ {0}
  BY <1>2, CountedSamples
<1>4. CASE Leave(c)
  BY <1>1, <1>4, LeaveOrder
<1>5. ASSUME NEW applied \in BOOLEAN, feeders[c].serial < SerialMax, Consume(c, applied)
      PROVE  OrderInv'
  <2>1. /\ feeders'[c].serial = feeders[c].serial + 1
        /\ applied => feeders'[c].at = "waiting" /\ feeders'[c].index = feeders[c].index
        /\ ~applied => /\ feeders'[c].at = feeders[c].at
                       /\ feeders'[c].index = Following(feeders[c].index)
        /\ \A d \in Capturers \ {c} : feeders'[d] = feeders[d]
    BY <1>2, <1>5, ConsumeFacts
  <2>2. feeders[c].serial \in Nat /\ feeders[c].index \in Nat
    BY <1>2 DEF Feeder
  <2>3. /\ feeders[c].index \in 1..SampleCount
        /\ \A i, n \in Nat : Item(c, i, n) => i \in 1..SampleCount
        /\ \A i, j, n \in Nat : Item(c, i, n) /\ Item(c, j, n + 1) => j = Following(i)
        /\ \A i, n \in Nat : Item(c, i, n) =>
             /\ n < feeders[c].serial
             /\ n + 1 = feeders[c].serial => feeders[c].index = Following(i)
    BY <1>1, Zenon DEF OrderInv, Order
  <2>4. SampleCount' = SampleCount /\ \A i : Following(i)' = Following(i)
    BY <1>1, Zenon DEF SampleCount, Following
  <2>5. \A i, n : Item(c, i, n)' = Item(c, i, n)
    BY <1>1, SameItems, Zenon
  <2>6. /\ \A i, n \in Nat : Item(c, i, n)' => i \in 1..SampleCount'
        /\ \A i, j, n \in Nat : Item(c, i, n)' /\ Item(c, j, n + 1)' => j = Following(i)'
    <3>1. Order(c) /\ \A i, n \in Nat : Item(c, i, n)' => Item(c, i, n)
      BY <2>5, Zenon DEF OrderInv
    <3> QED BY <1>1, <3>1, PairsKept
  <2>7. feeders'[c].index \in 1..SampleCount'
    <3>1. Following(feeders[c].index) \in 1..SampleCount
      BY <1>3, <2>3, FollowingInFile
    <3> QED BY <2>1, <2>3, <2>4, <3>1
  <2>8. CASE applied
    <3>1. feeders'[c].at # "none" /\ feeders'[c].at # "next"
      BY <2>1, <2>8
    <3>2. ASSUME NEW i \in Nat, NEW n \in Nat, Item(c, i, n)'
          PROVE  /\ n + 1 < feeders'[c].serial
                 /\ n + 2 = feeders'[c].serial => feeders'[c].index = Following(i)'
      <4>1. Item(c, i, n)
        BY <2>5, <3>2, Zenon
      <4>2. n < feeders[c].serial /\ (n + 1 = feeders[c].serial => feeders[c].index = Following(i))
        BY <2>3, <4>1
      <4>3. n + 1 < feeders'[c].serial
        BY <2>1, <2>2, <4>2
      <4>4. n + 2 = feeders'[c].serial => n + 1 = feeders[c].serial
        BY <2>1, <2>2
      <4> QED BY <2>1, <2>4, <2>8, <4>2, <4>3, <4>4, Zenon
    <3>3. Order(c)'
      BY <2>6, <2>7, <3>1, <3>2, Zenon DEF Order
    <3> QED BY <1>1, <2>1, <3>3, OthersKept, Zenon
  <2>9. CASE ~applied
    <3>1. feeders'[c].at # "none" /\ feeders'[c].at # "waiting"
      BY <1>1, <2>1, <2>9
    <3>2. ASSUME NEW i \in Nat, NEW n \in Nat, Item(c, i, n)'
          PROVE  /\ n < feeders'[c].serial
                 /\ n + 1 # feeders'[c].serial
      <4>1. n < feeders[c].serial
        BY <2>3, <2>5, <3>2, Zenon
      <4> QED BY <2>1, <2>2, <4>1
    <3>3. Order(c)'
      BY <2>6, <2>7, <3>1, <3>2, Zenon DEF Order
    <3> QED BY <1>1, <2>1, <3>3, OthersKept, Zenon
  <2> QED BY <2>8, <2>9
<1> QED BY <1>4, <1>5, Zenon DEF NextSample

LEMMA TakeResponseOrder ==
  ASSUME BeginWithKeyFrames, ReaderInv, OrderInv, NEW c \in Capturers, TakeResponse(c)
  PROVE  OrderInv'
<1>1. /\ feeders[c].at = "waiting"
      /\ UNCHANGED <<file, opened, io, encoders, sent>>
  BY DEF TakeResponse, encoderVars
<1>2. /\ feeders \in [Capturers -> Feeder] /\ opened = "yes" /\ feeders[c].serial # 0
      /\ frames \in [Capturers -> Seq(FeederFrame)]
  BY <1>1, TypeFacts DEF ReaderInv, FeederAsks
<1>3. SampleCount \in Nat \ {0}
  BY <1>2, CountedSamples
<1>4. CASE Leave(c) /\ UNCHANGED frames
  BY <1>1, <1>4, LeaveOrder
<1>5. ASSUME frames' = IF c \in Connected
               THEN [frames EXCEPT ![c] = Append(@,
                       [index |-> feeders[c].index, serial |-> feeders[c].serial - 1])]
               ELSE frames,
             feeders' = [feeders EXCEPT ![c].at = "next", ![c].index = Following(@)]
      PROVE  OrderInv'
  <2> DEFINE index == feeders[c].index
             serial == feeders[c].serial
  <2>1. serial \in Nat \ {0} /\ index \in Nat /\ SerialMax \in Nat /\ serial - 1 \in 0..SerialMax
    BY <1>2, Numbers DEF Feeder
  <2>2. /\ feeders'[c].at = "next" /\ feeders'[c].index = Following(index)
        /\ feeders'[c].serial = serial
        /\ \A d \in Capturers \ {c} : feeders'[d] = feeders[d]
    <3> DEFINE next == Following(index)
    <3>1. feeders' = [feeders EXCEPT ![c].at = "next", ![c].index = next]
      BY <1>5
    <3> HIDE DEF next
    <3>2. /\ feeders'[c].at = "next" /\ feeders'[c].index = next
          /\ feeders'[c].serial = feeders[c].serial
          /\ \A d \in Capturers \ {c} : feeders'[d] = feeders[d]
      BY <1>2, <3>1 DEF Feeder
    <3> QED BY <3>2 DEF next
  <2> DEFINE frame == [index |-> index, serial |-> serial - 1]
  <2>3. /\ \A k \in DOMAIN frames'[c] :
             \/ k \in DOMAIN frames[c] /\ frames'[c][k] = frames[c][k]
             \/ frames'[c][k] = frame
        /\ \A d \in Capturers \ {c} : frames'[d] = frames[d]
    <3>1. frame \in FeederFrame
      BY <2>1 DEF FeederFrame
    <3>2. frame.index = index /\ frame.serial = serial - 1
      OBVIOUS
    <3>3. frames' = IF c \in Connected THEN [frames EXCEPT ![c] = Append(frames[c], frame)] ELSE frames
      BY <1>5
    <3> HIDE DEF frame
    <3>4. CASE c \in Connected
      <4>1. frames' = [frames EXCEPT ![c] = Append(frames[c], frame)]
        BY <3>3, <3>4
      <4> QED BY <1>2, <3>1, <4>1
    <3>5. CASE c \notin Connected
      <4>1. frames' = frames
        BY <3>3, <3>5
      <4> QED BY <4>1
    <3> QED BY <3>4, <3>5
  <2>4. frame.index = index /\ frame.serial = serial - 1
    OBVIOUS
  <2> HIDE DEF frame
  <2>5. \A i, n : Item(c, i, n)' => Item(c, i, n) \/ (i = index /\ n = serial - 1)
    BY <1>1, <2>3, <2>4, Zenon DEF Item
  <2>6. /\ index \in 1..SampleCount
        /\ \A i, n \in Nat : Item(c, i, n) => i \in 1..SampleCount
        /\ \A i, j, n \in Nat : Item(c, i, n) /\ Item(c, j, n + 1) => j = Following(i)
        /\ \A i, n \in Nat : Item(c, i, n) =>
             /\ n + 1 < serial
             /\ n + 2 = serial => index = Following(i)
    BY <1>1, Zenon DEF OrderInv, Order
  <2>7. SampleCount' = SampleCount /\ \A i : Following(i)' = Following(i)
    BY <1>1, Zenon DEF SampleCount, Following
  <2> HIDE DEF index, serial
  <2>8. ASSUME NEW i \in Nat, NEW n \in Nat, Item(c, i, n)'
        PROVE  /\ i \in 1..SampleCount
               /\ n < serial
               /\ n + 1 = serial => i = index
    <3>1. CASE Item(c, i, n)
      <4>1. i \in 1..SampleCount /\ n + 1 < serial
        BY <2>6, <3>1
      <4> QED BY <2>1, <4>1
    <3>2. CASE i = index /\ n = serial - 1
      BY <2>1, <2>6, <3>2
    <3> QED BY <2>5, <2>8, <3>1, <3>2, Zenon
  <2>9. ASSUME NEW i \in Nat, NEW j \in Nat, NEW n \in Nat, Item(c, i, n)', Item(c, j, n + 1)'
        PROVE  j = Following(i)
    <3>1. n + 1 < serial /\ n + 1 \in Nat
      BY <2>1, <2>8, <2>9
    <3>2. Item(c, i, n)
      <4>1. n # serial - 1
        BY <2>1, <3>1
      <4> QED BY <2>5, <2>9, <4>1, Zenon
    <3>3. CASE Item(c, j, n + 1)
      BY <2>6, <3>2, <3>3, Zenon
    <3>4. CASE j = index /\ n + 1 = serial - 1
      <4>1. n + 2 = serial
        BY <2>1, <3>4
      <4> QED BY <2>6, <3>2, <3>4, <4>1, Zenon
    <3> QED BY <2>5, <2>9, <3>3, <3>4, Zenon
  <2>10. Following(index) \in 1..SampleCount
    BY <1>3, <2>6, FollowingInFile
  <2>11. feeders'[c].at # "none" /\ feeders'[c].at # "waiting"
    BY <2>2
  <2>12. ASSUME NEW i \in Nat, NEW n \in Nat, Item(c, i, n)'
         PROVE  /\ n < feeders'[c].serial
                /\ n + 1 = feeders'[c].serial => feeders'[c].index = Following(i)'
    <3>1. n < serial /\ (n + 1 = serial => i = index)
      BY <2>8, <2>12
    <3> QED BY <2>2, <2>7, <3>1, Zenon
  <2>13. Order(c)'
    BY <2>2, <2>7, <2>8, <2>9, <2>10, <2>11, <2>12, Zenon DEF Order
  <2> QED BY <1>1, <2>2, <2>3, <2>13, OthersKept, Zenon
<1>6. CASE /\ frames' = IF c \in Connected
                THEN [frames EXCEPT ![c] = Append(@,
                        [index |-> feeders[c].index, serial |-> feeders[c].serial - 1])]
                ELSE frames
           /\ feeders' = [feeders EXCEPT ![c].at = "next", ![c].index = Following(@)]
  BY <1>5, <1>6
<1> QED BY <1>4, <1>6, Zenon DEF TakeResponse

LEMMA OrderInitially ==
  ASSUME Mp4Init
  PROVE  OrderInv
<1>1. opened # "yes"
  BY DEF Mp4Init
<1>2. ASSUME NEW c \in Capturers PROVE Order(c)
  <2>1. feeders[c].at = "none" /\ feeders[c].index = 1 /\ frames[c] = <<>> /\ encoders[c].last = None
    BY EncoderTypes DEF Mp4Init
  <2>2. DOMAIN frames[c] = {}
    BY <2>1
  <2>3. \A i, n : ~Item(c, i, n)
    BY <2>1, <2>2, Zenon DEF Item
  <2>4. feeders[c].at \notin {"next", "waiting"}
    BY <2>1
  <2> QED BY <2>1, <2>3, <2>4, Zenon DEF Order
<1> QED BY <1>1, <1>2, Zenon DEF OrderInv

LEMMA OrderInductive ==
  ASSUME BeginWithKeyFrames, ReaderInv, OrderInv, [Mp4Next]_mp4Vars
  PROVE  OrderInv'
<1>1. ASSUME UNCHANGED <<file, feeders, frames, encoders, sent>>,
             opened' = "yes" => Accepted(file)
      PROVE  OrderInv'
  <2>1. ASSUME NEW c \in Capturers PROVE Order(c)'
    <3>1. \A i, n \in Nat : Item(c, i, n)' => Item(c, i, n)
      BY <1>1, SameItems, Zenon
    <3> QED BY <1>1, <3>1, OrderKept, Zenon DEF OrderInv
  <2> QED BY <1>1, <2>1, Zenon DEF OrderInv
<1>2. CASE UNCHANGED mp4Vars
  <2>1. UNCHANGED <<file, opened, feeders, frames, encoders, sent>>
    BY <1>2 DEF mp4Vars, readerVars, feederVars, encoderVars
  <2> QED BY <1>1, <2>1, Zenon DEF OrderInv
<1>3. CASE OpenFile
  <2>1. UNCHANGED <<file, feeders, frames, encoders, sent>> /\ (opened' = "yes" => Accepted(file))
    BY <1>3 DEF OpenFile, feederVars, encoderVars
  <2> QED BY <1>1, <2>1, Zenon
<1>4. CASE DropReader \/ ReaderDropped \/ ServeRequest \/ IoThreadEnds
  <2>1. UNCHANGED <<file, opened, feeders, frames, encoders, sent>>
    BY <1>4 DEF DropReader, ReaderDropped, ServeRequest, IoThreadEnds, readerVars, feederVars, encoderVars
  <2> QED BY <1>1, <2>1, Zenon DEF OrderInv
<1>5. ASSUME NEW c \in Capturers, DropCapturer(c) \/ CapturerDropped(c) PROVE OrderInv'
  <2>1. UNCHANGED <<file, opened, feeders, frames, encoders, sent>>
    BY <1>5 DEF DropCapturer, CapturerDropped, readerVars, encoderVars
  <2> QED BY <1>1, <2>1, Zenon DEF OrderInv
<1>6. ASSUME NEW c \in Capturers, NewCapturer(c) PROVE OrderInv'
  BY <1>6, NewCapturerOrder
<1>7. ASSUME NEW c \in Capturers, FeederNext(c) PROVE OrderInv'
  <2>1. CASE GiveUp(c)
    <3>1. /\ feeders[c].at = "waiting" /\ Leave(c)
          /\ UNCHANGED <<io, file, opened, frames, sent, encoders>>
      BY <2>1 DEF GiveUp, ioVars, encoderVars
    <3> QED BY <3>1, LeaveOrder
  <2>2. CASE FeederEnds(c)
    <3>1. /\ feeders[c].at = "joining" /\ feeders' = [feeders EXCEPT ![c].at = "ended"]
          /\ UNCHANGED <<file, opened, frames, sent, encoders>>
      BY <2>2 DEF FeederEnds, encoderVars
    <3>2. feeders \in [Capturers -> Feeder]
      BY TypeFacts DEF ReaderInv
    <3>3. /\ feeders'[c].at \notin {"none", "next", "waiting"}
          /\ \A d \in Capturers \ {c} : feeders'[d] = feeders[d]
      BY <3>1, <3>2 DEF Feeder
    <3>4. Order(c) /\ \A i, n \in Nat : Item(c, i, n)' => Item(c, i, n)
      BY <3>1, SameItems, Zenon DEF OrderInv
    <3>5. /\ \A i, n \in Nat : Item(c, i, n)' => i \in 1..SampleCount'
          /\ \A i, j, n \in Nat : Item(c, i, n)' /\ Item(c, j, n + 1)' => j = Following(i)'
      BY <3>1, <3>4, PairsKept
    <3>6. Order(c)'
      BY <3>3, <3>5, Zenon DEF Order
    <3> QED BY <3>1, <3>3, <3>6, OthersKept, Zenon
  <2> QED BY <1>7, <2>1, <2>2, NextSampleOrder, TakeResponseOrder, Zenon DEF FeederNext
<1>8. ASSUME NEW c \in Connected, EncoderNext(c) PROVE OrderInv'
  <2>1. c \in Capturers
    BY <1>8, Mp4Assumption DEF Mp4Assumption
  <2> QED BY <1>8, <2>1, EncoderOrder, Zenon
<1> QED BY <1>2, <1>3, <1>4, <1>5, <1>6, <1>7, <1>8, Zenon DEF Mp4Next

-----------------------------------------------------------------------------
(* What is sent                                                            *)

\* What encode sends is what the contract allows.
LEMMA SentInOrder ==
  ASSUME BeginWithKeyFrames, ReaderInv, OrderInv, NEW c \in Capturers, Encode(c)
  PROVE  [Contract!Next]_(Contract!vars)
<1> DEFINE frame == Head(frames[c])
<1>1. file' = file
  BY EncodeStep DEF readerVars
<1>2. CASE sent' = sent
  BY <1>1, <1>2 DEF Contract!vars
<1>3. CASE /\ sent' = [sent EXCEPT ![c] = frame.index]
           /\ ShouldForward(encoders[c], frame)
           /\ Item(c, frame.index, frame.serial)
           /\ frame \in FeederFrame
  <2>1. frame.index \in Nat /\ frame.serial \in Nat /\ sent[c] \in Nat /\ opened = "yes"
    <3>1. frame.index \in Nat /\ frame.serial \in Nat
      BY <1>3 DEF FeederFrame
    <3>2. feeders[c].at # "none"
      BY <1>3, <3>1, Zenon DEF OrderInv, Order
    <3> QED BY <3>1, <3>2, TypeFacts DEF ReaderInv, FeederAsks
  <2> HIDE DEF frame
  <2>2. SampleCount \in Nat \ {0} /\ IsKeyframe(1)
    BY <2>1, CountedSamples
  <2>3. frame.index \in 1..SampleCount
    BY <1>3, <2>1, Zenon DEF OrderInv, Order
  <2>4. IsKeyframe(frame.index) \/ (sent[c] > 0 /\ frame.index = sent[c] + 1)
    <3>1. CASE IsKeyframe(frame.index)
      BY <3>1
    <3>2. CASE encoders[c].last # None /\ frame.serial = encoders[c].last + 1
      <4>1. encoders[c].last \in Nat
        BY <3>2, ItemNumbers
      <4>2. Item(c, sent[c], encoders[c].last)
        BY <3>2, Zenon DEF Item
      <4>3. sent[c] \in 1..SampleCount /\ frame.index = Following(sent[c])
        <5>1. Order(c) /\ Item(c, frame.index, encoders[c].last + 1)
          BY <1>3, <3>2, Zenon DEF OrderInv
        <5> QED BY <2>1, <4>1, <4>2, <5>1, Zenon DEF Order
      <4>4. CASE sent[c] = SampleCount
        BY <2>2, <4>3, <4>4 DEF Following
      <4>5. CASE sent[c] # SampleCount
        BY <2>2, <4>3, <4>5 DEF Following
      <4> QED BY <4>4, <4>5
    <3> QED BY <1>3, <3>1, <3>2, Zenon DEF ShouldForward
  <2>5. frame.index \in 1..Len(VideoSamples(file))
    BY <2>3 DEF SampleCount
  <2>6. IsKeyframe(frame.index) => frame.index \in {i \in 1..Len(VideoSamples(file)) : VideoSamples(file)[i].key}
    BY <2>5, Zenon DEF IsKeyframe
  <2>7. Contract!Send(c, frame.index)
    BY <1>1, <1>3, <2>4, <2>6, Zenon DEF Contract!Send
  <2> QED BY <2>5, <2>7, Zenon DEF Contract!Next
<1> QED BY <1>2, <1>3, EncodeStep, Zenon

LEMMA StepsOfContract ==
  ASSUME BeginWithKeyFrames, ReaderInv, OrderInv, [Mp4Next]_mp4Vars
  PROVE  [Contract!Next]_(Contract!vars)
<1>1. ASSUME NEW c \in Capturers, Encode(c) PROVE [Contract!Next]_(Contract!vars)
  BY <1>1, SentInOrder
<1>2. ASSUME NEW c \in Capturers, EncoderNext(c), ~Encode(c) PROVE file' = file /\ sent' = sent
  BY <1>2, LoseFrameStep, SetUpStep DEF EncoderNext, readerVars
<1>3. CASE UNCHANGED mp4Vars
  BY <1>3 DEF mp4Vars, readerVars, encoderVars, Contract!vars
<1>4. CASE OpenFile \/ DropReader \/ ReaderDropped \/ ServeRequest \/ IoThreadEnds
  BY <1>4 DEF OpenFile, DropReader, ReaderDropped, ServeRequest, IoThreadEnds, readerVars,
              encoderVars, Contract!vars
<1>5. ASSUME NEW c \in Capturers, NewCapturer(c) \/ DropCapturer(c) \/ CapturerDropped(c) \/ FeederNext(c)
      PROVE  file' = file /\ sent' = sent
  BY <1>5 DEF NewCapturer, DropCapturer, CapturerDropped, FeederNext, NextSample, GiveUp,
              TakeResponse, FeederEnds, readerVars, encoderVars
<1>6. ASSUME NEW c \in Connected, EncoderNext(c) PROVE [Contract!Next]_(Contract!vars)
  <2>1. c \in Capturers
    BY <1>6, Mp4Assumption DEF Mp4Assumption
  <2> QED BY <1>1, <1>2, <1>6, <2>1 DEF Contract!vars
<1> QED BY <1>3, <1>4, <1>5, <1>6 DEF Mp4Next, Contract!vars

\* What Mp4PassthroughEncoder sends of files that begin with a key frame can be decoded,
\* whatever WebRTC loses before it and whenever it sets the encoder up again: a delta
\* sample is sent only right after the sample that comes before it in the file.
THEOREM SentIsDecodable ==
  ASSUME BeginWithKeyFrames
  PROVE  Mp4Spec => PassthroughDecodable
<1>1. Mp4Init => OrderInv
  BY OrderInitially
<1>2. ReaderInv /\ OrderInv /\ [Mp4Next]_mp4Vars => OrderInv'
  BY OrderInductive
<1>3. ReaderInv /\ OrderInv /\ [Mp4Next]_mp4Vars => [Contract!Next]_(Contract!vars)
  BY StepsOfContract
<1>4. Mp4Init => Contract!Init
  BY DEF Mp4Init, Contract!Init
<1> QED BY <1>1, <1>2, <1>3, <1>4, ReaderInvariant, PTL
        DEF Mp4Spec, PassthroughDecodable, Contract!Spec

-----------------------------------------------------------------------------
(* What a receiver decodes                                                 *)

\* Of what is opened new has accepted the file, and every encoder was made for a
\* format that the track's has been compared with.
FormatInv ==
  /\ opened = "yes" => Accepted(file)
  /\ \A c \in Capturers :
       encoders[c] # NoEncoder => opened = "yes" /\ EncoderFor(TrackOf(file), encoders[c].format)

\* The encoder of c goes, or keeps its format, or is made for one that suits the track.
LEMMA EncodersFormat ==
  ASSUME ReaderInv, NEW c \in Capturers, EncoderNext(c)
  PROVE  \A d \in Capturers :
           \/ encoders'[d] \in {encoders[d], NoEncoder}
           \/ encoders[d] # NoEncoder /\ encoders'[d].format = encoders[d].format
           \/ opened = "yes" /\ EncoderFor(TrackOf(file), encoders'[d].format)
<1>1. encoders \in [Capturers -> Encoder] /\ encoders[c] \in Encoder
  BY ItemNumbers
<1>2. CASE LoseFrame(c) \/ UNCHANGED encoderVars
  BY <1>2 DEF LoseFrame, encoderVars
<1>3. CASE Encode(c) /\ ~UNCHANGED encoderVars
  <2> DEFINE frame == Head(frames[c])
  <2>1. /\ encoders[c] # NoEncoder
        /\ \/ encoders' = [encoders EXCEPT ![c].waiting = FALSE, ![c].last = frame.serial]
           \/ encoders' = [encoders EXCEPT ![c].waiting = TRUE, ![c].last = None]
    BY <1>3, Zenon DEF Encode
  <2> HIDE DEF frame
  <2> QED BY <1>1, <2>1 DEF Encoder
<1>4. CASE CreateEncoder(c)
  <2>1. PICK format \in Receivers :
          EncoderFor(TrackOf(file), format) /\ encoders' = [encoders EXCEPT ![c] = NewEncoder(format)]
    BY <1>4, Zenon DEF CreateEncoder
  <2>2. encoders'[c] = NewEncoder(format) /\ \A d \in Capturers \ {c} : encoders'[d] = encoders[d]
    BY <1>1, <2>1
  <2>3. NewEncoder(format).format = format /\ opened = "yes"
    BY <1>4 DEF NewEncoder, CreateEncoder
  <2>4. EncoderFor(TrackOf(file), encoders'[c].format)
    BY <2>1, <2>2, <2>3, Zenon
  <2> QED BY <2>2, <2>3, <2>4, Zenon
<1>5. CASE InitPassthrough(c) \/ SetCallback(c)
  <2>1. encoders[c] # NoEncoder
    BY <1>5 DEF InitPassthrough, SetCallback
  <2>2. \/ encoders' = [encoders EXCEPT ![c].waiting = TRUE, ![c].last = None]
        \/ \E registered \in BOOLEAN : encoders' = [encoders EXCEPT ![c].callback = registered]
    BY <1>5, Zenon DEF InitPassthrough, SetCallback
  <2> QED BY <1>1, <2>1, <2>2 DEF Encoder
<1>6. CASE DestroyEncoder(c)
  <2>1. encoders' = [encoders EXCEPT ![c] = NoEncoder]
    BY <1>6, Zenon DEF DestroyEncoder
  <2> QED BY <1>1, <2>1
<1> QED BY <1>2, <1>3, <1>4, <1>5, <1>6, Zenon DEF EncoderNext

\* No step makes an encoder for another format, nor opens another file.
LEMMA FormatInductive ==
  ASSUME ReaderInv, FormatInv, [Mp4Next]_mp4Vars
  PROVE  FormatInv'
<1>1. ASSUME opened' = opened, file' = file, encoders' = encoders PROVE FormatInv'
  BY <1>1, Zenon DEF FormatInv
<1>2. CASE OpenFile
  <2>1. file' = file /\ encoders' = encoders /\ opened = "no" /\ (opened' = "yes" => Accepted(file))
    BY <1>2 DEF OpenFile, encoderVars
  <2>2. \A c \in Capturers : encoders'[c] = NoEncoder
    BY <2>1 DEF FormatInv
  <2> QED BY <2>1, <2>2, Zenon DEF FormatInv
<1>3. CASE UNCHANGED mp4Vars \/ DropReader \/ ReaderDropped \/ ServeRequest \/ IoThreadEnds
  BY <1>1, <1>3 DEF mp4Vars, DropReader, ReaderDropped, ServeRequest, IoThreadEnds, readerVars,
                    encoderVars
<1>4. ASSUME NEW c \in Capturers, NewCapturer(c) \/ DropCapturer(c) \/ CapturerDropped(c)
                                    \/ FeederNext(c)
      PROVE  FormatInv'
  BY <1>1, <1>4 DEF NewCapturer, DropCapturer, CapturerDropped, FeederNext, NextSample, GiveUp,
                    TakeResponse, FeederEnds, readerVars, encoderVars
<1>5. ASSUME NEW c \in Connected, EncoderNext(c) PROVE FormatInv'
  <2>1. c \in Capturers
    BY Mp4Assumption DEF Mp4Assumption
  <2>2. opened' = opened /\ file' = file
    BY <1>5, <2>1, EncoderNextFacts DEF readerVars
  <2>3. ASSUME NEW d \in Capturers, encoders'[d] # NoEncoder
        PROVE  opened = "yes" /\ EncoderFor(TrackOf(file), encoders'[d].format)
    <3>1. \/ encoders'[d] = encoders[d]
          \/ encoders[d] # NoEncoder /\ encoders'[d].format = encoders[d].format
          \/ opened = "yes" /\ EncoderFor(TrackOf(file), encoders'[d].format)
      BY <1>5, <2>1, <2>3, EncodersFormat, Zenon
    <3> QED BY <2>3, <3>1, Zenon DEF FormatInv
  <2> QED BY <2>2, <2>3, Zenon DEF FormatInv
<1> QED BY <1>2, <1>3, <1>4, <1>5, Zenon DEF Mp4Next

\* The least of a set of indices is its Min.
LEMMA MinIsLeast ==
  ASSUME NEW I \in SUBSET Nat, I # {}
  PROVE  Min(I) \in I /\ \A i \in I : Min(I) <= i
<1>1. PICK m \in I : \A x \in I : m <= x
  BY Adding!LeastNumber
<1> QED BY <1>1 DEF Min

\* A Vec has the indices below its length.
LEMMA VecFacts ==
  ASSUME NEW q, IsSequence(q)
  PROVE  /\ Len(q) \in Nat /\ DOMAIN q = 1..Len(q) /\ q \in Seq(ToSet(q))
         /\ \A i \in DOMAIN q : q[i] \in ToSet(q)
BY DEF IsSequence, ToSet

\* A sequence is a Vec.
LEMMA VecOf ==
  ASSUME NEW S, NEW q \in Seq(S)
  PROVE  IsSequence(q)
<1> DEFINE R == {q[i] : i \in DOMAIN q}
<1>1. \A i \in 1..Len(q) : q[i] \in R
  OBVIOUS
<1>2. q = [i \in 1..Len(q) |-> q[i]] /\ Len(q) \in Nat
  OBVIOUS
<1> HIDE DEF R
<1>3. q \in Seq(R)
  BY <1>1, <1>2
<1> QED BY <1>3 DEF R, IsSequence

\* What FilesAssumption says.
LEMMA FileFacts ==
  ASSUME NEW f \in Files
  PROVE  /\ IsSequence(VideoSamples(f))
         /\ \A i \in DOMAIN VideoSamples(f) :
              /\ VideoSamples(f)[i].data \in Seq(0..255)
              /\ IsSequence(VideoSamples(f)[i].obus)
<1>1. IsSequence(VideoSamples(f)) /\ \A s \in ToSet(VideoSamples(f)) : s.data \in Seq(0..255) /\ IsSequence(s.obus)
  BY FilesAssumption, Zenon DEF FilesAssumption
<1> QED BY <1>1, VecFacts, Zenon

\* Every sample entry says what the first one does.
LEMMA TrackOfEntries ==
  ASSUME NEW f \in Files, Accepted(f)
  PROVE  /\ \A e \in EntriesOf(VideoSamples(f)) : EntryValid(e) /\ TrackInfo(e) = TrackOf(f)
         /\ EntriesOf(VideoSamples(f)) # {}
<1> DEFINE samples == VideoSamples(f)
           n == Len(samples)
           I == {i \in 1..n : samples[i].entry # None}
<1>1. n \in Nat /\ DOMAIN samples = 1..n
  BY FileFacts, VecFacts, Zenon
<1>2. TrackOf(f) = TrackInfo(samples[IF I # {} THEN Min(I) ELSE 0].entry)
  BY DEF TrackOf, SelectInSeq
<1>7. /\ \A a, first \in EntriesOf(samples) : EntryValid(a) /\ TrackInfo(a) = TrackInfo(first)
      /\ EntriesOf(samples) # {}
  BY Zenon DEF Accepted, EntriesConsistent
<1> HIDE DEF samples, n
<1>3. EntriesOf(samples) = {samples[i].entry : i \in I}
  BY <1>1 DEF EntriesOf
<1>4. I # {} /\ I \in SUBSET Nat
  BY <1>1, <1>3, <1>7
<1>5. Min(I) \in I
  BY <1>4, MinIsLeast
<1>6. samples[Min(I)].entry \in EntriesOf(samples) /\ TrackOf(f) = TrackInfo(samples[Min(I)].entry)
  BY <1>2, <1>3, <1>4, <1>5
<1> QED BY <1>6, <1>7, Zenon DEF samples

\* new_inner compares every sample entry with the first one, and takes every SPS of an
\* entry only with the profile-level-id of its avcC.
LEMMA ParameterSetsOfTrack ==
  ASSUME NEW f \in Files, Accepted(f), TrackOf(f).codec = "H264",
         NEW e \in EntriesOf(VideoSamples(f)), NEW j \in DOMAIN e.sps
  PROVE  /\ e.sps[j].plid = TrackOf(f).h264.plid
         /\ ParseProfileLevelId(TrackOf(f).h264.plid) # None
<1>1. EntryValid(e) /\ TrackInfo(e) = TrackOf(f)
  BY TrackOfEntries
<1>2. e.codec = "H264"
  BY <1>1 DEF TrackInfo
<1>3. AvcEntryValid(e) /\ TrackOf(f).h264.plid = e.plid
  BY <1>1, <1>2 DEF EntryValid, TrackInfo
<1>4. ParseProfileLevelId(e.plid) # None /\ \A k \in DOMAIN e.sps : e.sps[k].plid = e.plid
  BY <1>3, Zenon DEF AvcEntryValid, EveryIndex
<1> QED BY <1>3, <1>4, Zenon

\* What a sample entry lists is a Vec, and so is what the track has of it.
LEMMA ListsOfTrack ==
  ASSUME NEW f \in Files, Accepted(f)
  PROVE  /\ TrackOf(f).codec = "AV1" => IsSequence(TrackOf(f).av1.configObus)
         /\ TrackOf(f).codec \in {"H264", "H265"} =>
              /\ IsSequence(TrackOf(f).parameterSets)
              /\ TrackOf(f).lengthSizeMinusOne \in {0, 1, 3}
<1>1. PICK e \in EntriesOf(VideoSamples(f)) : EntryValid(e) /\ TrackOf(f) = TrackInfo(e)
  BY TrackOfEntries
<1>2. /\ e.codec = "H264" => IsSequence(e.sps) /\ IsSequence(e.pps)
      /\ e.codec = "H265" => IsSequence(e.nalus)
      /\ e.codec = "AV1" => IsSequence(e.configObus)
  BY FilesAssumption, Zenon DEF FilesAssumption
<1>3. TrackOf(f).codec = e.codec
  BY <1>1 DEF TrackInfo
<1>4. CASE e.codec = "AV1"
  BY <1>1, <1>2, <1>3, <1>4 DEF TrackInfo
<1>5. CASE e.codec = "H264"
  <2>3. AvcEntryValid(e)
    BY <1>1, <1>5 DEF EntryValid
  <2>4. NalLengthSizeValid(e.lengthSizeMinusOne)
    BY <2>3, Zenon DEF AvcEntryValid
  <2>5. TrackInfo(e).parameterSets = e.sps \o e.pps
    BY <1>5 DEF TrackInfo
  <2>6. TrackInfo(e).lengthSizeMinusOne = e.lengthSizeMinusOne
    BY <1>5 DEF TrackInfo
  <2>1. TrackOf(f).parameterSets = e.sps \o e.pps /\ TrackOf(f).lengthSizeMinusOne \in {0, 1, 3}
    BY <1>1, <2>4, <2>5, <2>6, Zenon DEF NalLengthSizeValid
  <2>2. IsSequence(e.sps \o e.pps)
    <3> DEFINE S == ToSet(e.sps) \cup ToSet(e.pps)
    <3>1. e.sps \in Seq(S) /\ e.pps \in Seq(S)
      BY <1>2, <1>5, VecFacts
    <3> HIDE DEF S
    <3>2. e.sps \o e.pps \in Seq(S)
      BY <3>1
    <3> QED BY <3>2, VecOf
  <2> QED BY <1>3, <1>5, <2>1, <2>2
<1>6. CASE e.codec = "H265"
  <2>1. TrackOf(f).parameterSets = e.nalus /\ TrackOf(f).lengthSizeMinusOne \in {0, 1, 3}
    BY <1>1, <1>6 DEF TrackInfo, EntryValid, NalLengthSizeValid
  <2> QED BY <1>2, <1>3, <1>6, <2>1
<1>7. CASE e.codec \notin {"AV1", "H264", "H265"}
  BY <1>3, <1>7
<1> QED BY <1>4, <1>5, <1>6, <1>7

\* An OBU of an AV1 sample that is sent is one of configOBUs or of the sample.
LEMMA ObusOfPayload ==
  ASSUME NEW f \in Files, Accepted(f), TrackOf(f).codec = "AV1",
         NEW i \in 1..Len(VideoSamples(f))
  PROVE  LET config == TrackOf(f).av1.configObus
             sample == VideoSamples(f)[i]
             payload == Payload(f, i)
         IN  /\ i \in DOMAIN VideoSamples(f)
             /\ IsSequence(config) /\ IsSequence(sample.obus) /\ IsSequence(payload)
             /\ payload = IF sample.key THEN config \o sample.obus ELSE sample.obus
             /\ \A k \in DOMAIN payload :
                  \/ k \in DOMAIN config /\ payload[k] = config[k] /\ sample.key
                  \/ /\ \E n \in DOMAIN sample.obus :
                          payload[k] = sample.obus[n] /\ (sample.key => k = Len(config) + n)
<1> DEFINE samples == VideoSamples(f)
           config == TrackOf(f).av1.configObus
           obus == samples[i].obus
           payload == Payload(f, i)
<1>1. IsSequence(config) /\ IsSequence(samples)
  BY ListsOfTrack, FileFacts
<1>2. i \in DOMAIN samples
  BY <1>1, VecFacts
<1>3. payload = IF samples[i].key THEN config \o obus ELSE obus
  BY DEF Payload, Assembled
<1>4. IsSequence(obus)
  BY <1>2, FileFacts
<1> HIDE DEF samples, config, obus, payload
<1> DEFINE S == ToSet(config) \cup ToSet(obus)
<1>5. config \in Seq(S) /\ obus \in Seq(S)
  BY <1>1, <1>4, VecFacts
<1> HIDE DEF S
<1>6. config \o obus \in Seq(S)
  BY <1>5
<1>7. IsSequence(payload)
  BY <1>3, <1>5, <1>6, VecOf
<1>8. ASSUME NEW k \in DOMAIN payload
      PROVE  \/ k \in DOMAIN config /\ payload[k] = config[k] /\ samples[i].key
             \/ \E n \in DOMAIN obus :
                  payload[k] = obus[n] /\ (samples[i].key => k = Len(config) + n)
  <2>1. CASE samples[i].key
    <3>1. payload = config \o obus
      BY <1>3, <2>1
    <3>2. CASE k \in DOMAIN config
      BY <1>5, <2>1, <3>1, <3>2
    <3>3. CASE k \notin DOMAIN config
      <4>1. /\ k - Len(config) \in DOMAIN obus /\ payload[k] = obus[k - Len(config)]
            /\ k = Len(config) + (k - Len(config))
        BY <1>5, <3>1, <3>3
      <4> QED BY <4>1, Zenon
    <3> QED BY <3>2, <3>3
  <2>2. CASE ~samples[i].key
    BY <1>3, <2>2
  <2> QED BY <2>1, <2>2
<1> QED BY <1>1, <1>2, <1>3, <1>4, <1>7, <1>8, Zenon DEF samples, config, obus, payload

\* validate_av1_track compares every Sequence Header with av1C.
LEMMA HeadersOfTrack ==
  ASSUME NEW f \in Files, Accepted(f), TrackOf(f).codec = "AV1",
         NEW i \in 1..Len(VideoSamples(f)), NEW k \in DOMAIN Payload(f, i),
         IsHeader(Payload(f, i)[k])
  PROVE  Payload(f, i)[k].header = TrackOf(f).av1.header
<1> DEFINE samples == VideoSamples(f)
           config == TrackOf(f).av1.configObus
           obus == samples[i].obus
           obu == Payload(f, i)[k]
<1>1. Av1TrackValid(samples, TrackOf(f).av1)
  BY Zenon DEF Accepted
<1>2. /\ i \in DOMAIN samples
      /\ \/ \E n \in DOMAIN config : obu = config[n]
         \/ \E n \in DOMAIN obus : obu = obus[n]
  BY ObusOfPayload, Zenon
<1>3. ASSUME NEW n \in DOMAIN config, obu = config[n] PROVE HeaderMatches(obu, TrackOf(f).av1)
  BY <1>1, <1>3, Zenon DEF Av1TrackValid, ConfigObusValid
<1>4. ASSUME NEW n \in DOMAIN obus, obu = obus[n] PROVE HeaderMatches(obu, TrackOf(f).av1)
  BY <1>1, <1>2, <1>4, Zenon DEF Av1TrackValid, EveryIndex
<1> QED BY <1>2, <1>3, <1>4, Zenon DEF HeaderMatches

\* What was compared when the encoder was made decides what its receiver decodes.
LEMMA FormatDecodes ==
  ASSUME ReaderInv, FormatInv
  PROVE  ReceiverDecodesTrack
<1>1. file \in Files
  BY DEF ReaderInv, Mp4TypeOK
<1>2. ASSUME NEW c \in Capturers, encoders[c] # NoEncoder
      PROVE  Accepted(file) /\ EncoderFor(TrackOf(file), encoders[c].format)
  BY <1>2, Zenon DEF FormatInv
<1>3. ASSUME NEW c \in Capturers, encoders[c] # NoEncoder, TrackOf(file).codec = "H264",
             NEW e \in EntriesOf(VideoSamples(file)), NEW j \in DOMAIN e.sps
      PROVE  LET played == ParseProfileLevelId(e.sps[j].plid)
                 received == ParseProfileLevelId(encoders[c].format.plid)
             IN  /\ played # None
                 /\ received.profile = played.profile
                 /\ CapabilityOrder(received.level) >= CapabilityOrder(played.level)
  <2>1. H264Resolves(RequiredFormat(TrackOf(file)), encoders[c].format)
    BY <1>2, <1>3, Zenon DEF EncoderFor
  <2>2. RequiredFormat(TrackOf(file)).plid = TrackOf(file).h264.plid
    BY <1>3 DEF RequiredFormat
  <2>3. /\ e.sps[j].plid = TrackOf(file).h264.plid
        /\ ParseProfileLevelId(TrackOf(file).h264.plid) # None
    BY <1>1, <1>2, <1>3, ParameterSetsOfTrack, Zenon
  <2> QED BY <2>1, <2>2, <2>3, Zenon DEF H264Resolves
<1>4. ASSUME NEW c \in Capturers, encoders[c] # NoEncoder, TrackOf(file).codec = "AV1",
             NEW i \in 1..SampleCount, NEW k \in DOMAIN Payload(file, i),
             IsHeader(Payload(file, i)[k])
      PROVE  LET obu == Payload(file, i)[k]
                 format == encoders[c].format
             IN  /\ obu.header.profile = Av1Field(format.profile, 0, 2)
                 /\ obu.header.level <= Av1Field(format.level, 5, 31)
                 /\ obu.header.tier <= Av1Field(format.tier, 0, 1)
  <2>1. Av1Resolves(RequiredFormat(TrackOf(file)), encoders[c].format)
    BY <1>2, <1>4, Zenon DEF EncoderFor
  <2>2. /\ RequiredFormat(TrackOf(file)).profile = TrackOf(file).av1.header.profile
        /\ RequiredFormat(TrackOf(file)).level = TrackOf(file).av1.header.level
        /\ RequiredFormat(TrackOf(file)).tier = TrackOf(file).av1.header.tier
    BY <1>4 DEF RequiredFormat
  <2>3. Payload(file, i)[k].header = TrackOf(file).av1.header
    BY <1>1, <1>2, <1>4, HeadersOfTrack, Zenon DEF SampleCount
  <2> QED BY <2>1, <2>2, <2>3, Zenon DEF Av1Resolves
<1>5. ASSUME NEW c \in Capturers, encoders[c] # NoEncoder
      PROVE  encoders[c].format.name = TrackOf(file).codec
  BY <1>2, <1>5, Zenon DEF EncoderFor
<1> QED BY <1>3, <1>4, <1>5, Zenon DEF ReceiverDecodesTrack

-----------------------------------------------------------------------------
(* What is accepted plays                                                  *)

\* The Sequence Headers that a receiver gets between two key frames are compared.
LEMMA HeadersAgree ==
  ASSUME NEW f \in Files, Accepted(f), TrackOf(f).codec = "AV1",
         NEW k \in 1..Len(VideoSamples(f)), NEW i \in 1..k,
         \A j \in (i + 1)..k : ~VideoSamples(f)[j].key,
         NEW h \in {Payload(f, i)[n] : n \in DOMAIN Payload(f, i)},
         NEW g \in {Payload(f, k)[n] : n \in DOMAIN Payload(f, k)},
         IsHeader(h), IsHeader(g)
  PROVE  h.payload = g.payload
<1> DEFINE samples == VideoSamples(f)
           config == TrackOf(f).av1.configObus
           all == ToSet(config) \cup CodedSequence(samples, k)
<1>1. Len(samples) \in Nat /\ DOMAIN samples = 1..Len(samples)
  BY FileFacts, VecFacts
<1>2. i \in 1..Len(samples) /\ k \in 1..k
  BY <1>1
<1>3. /\ \A j \in DOMAIN samples[i].obus : samples[i].obus[j] \in all
      /\ \A j \in DOMAIN samples[k].obus : samples[k].obus[j] \in all
      /\ \A j \in DOMAIN config : config[j] \in all
  <2>1. /\ i \in {m \in 1..k : \A j \in m + 1..k : ~samples[j].key}
        /\ k \in {m \in 1..k : \A j \in m + 1..k : ~samples[j].key}
    BY <1>1, <1>2
  <2>2. ToSet(samples[i].obus) \subseteq all /\ ToSet(samples[k].obus) \subseteq all
    BY <2>1, Zenon DEF CodedSequence
  <2>3. IsSequence(config) /\ IsSequence(samples[i].obus) /\ IsSequence(samples[k].obus)
    BY <1>2, ObusOfPayload, Zenon
  <2> QED BY <2>2, <2>3, VecFacts, Zenon
<1>4. h \in all /\ g \in all
  <2>1. PICK n \in DOMAIN Payload(f, i) : h = Payload(f, i)[n]
    OBVIOUS
  <2>2. PICK m \in DOMAIN Payload(f, k) : g = Payload(f, k)[m]
    OBVIOUS
  <2>3. \/ \E j \in DOMAIN config : h = config[j]
        \/ \E j \in DOMAIN samples[i].obus : h = samples[i].obus[j]
    BY <1>2, <2>1, ObusOfPayload, Zenon
  <2>4. \/ \E j \in DOMAIN config : g = config[j]
        \/ \E j \in DOMAIN samples[k].obus : g = samples[k].obus[j]
    BY <2>2, ObusOfPayload, Zenon
  <2> QED BY <1>3, <2>3, <2>4, Zenon
<1>5. HeadersConsistent(samples, TrackOf(f).av1)
  BY Zenon DEF Accepted, Av1TrackValid
<1> HIDE DEF all
<1> QED BY <1>1, <1>4, <1>5, Zenon DEF HeadersConsistent, all

\* The first of those that pass a test, if SelectInSeq finds any.
LEMMA FirstFrame ==
  ASSUME NEW q, IsSequence(q)
  PROVE  LET first == SelectInSeq(q, IsFrame)
         IN  first # 0 => /\ first \in DOMAIN q /\ IsFrame(q[first])
                          /\ \A j \in DOMAIN q : IsFrame(q[j]) => first <= j
<1> DEFINE I == {i \in 1..Len(q) : IsFrame(q[i])}
<1>1. SelectInSeq(q, IsFrame) = IF I # {} THEN Min(I) ELSE 0
  BY DEF SelectInSeq
<1>2. Len(q) \in Nat /\ DOMAIN q = 1..Len(q)
  BY VecFacts
<1>3. CASE I # {}
  <2>1. Min(I) \in I /\ \A i \in I : Min(I) <= i
    BY <1>2, <1>3, MinIsLeast, I \in SUBSET Nat
  <2> QED BY <1>1, <1>2, <1>3, <2>1
<1> QED BY <1>1, <1>3

\* The first OBU that is significant is where SelectInSeq says.
LEMMA FirstSignificant ==
  ASSUME NEW q, IsSequence(q)
  PROVE  LET led == SelectInSeq(q, IsSignificant)
         IN  led # 0 => /\ led \in DOMAIN q /\ IsSignificant(q[led])
                        /\ \A j \in DOMAIN q : IsSignificant(q[j]) => led <= j
<1> DEFINE I == {i \in 1..Len(q) : IsSignificant(q[i])}
<1>1. SelectInSeq(q, IsSignificant) = IF I # {} THEN Min(I) ELSE 0
  BY DEF SelectInSeq
<1>2. Len(q) \in Nat /\ DOMAIN q = 1..Len(q)
  BY VecFacts
<1>3. CASE I # {}
  <2>1. Min(I) \in I /\ \A i \in I : Min(I) <= i
    BY <1>2, <1>3, MinIsLeast, I \in SUBSET Nat
  <2> QED BY <1>1, <1>2, <1>3, <2>1
<1> QED BY <1>1, <1>3

\* A key frame of AV1 is sent behind the Sequence Header.
LEMMA KeyFrameIsLed ==
  ASSUME NEW f \in Files, Accepted(f), TrackOf(f).codec = "AV1",
         NEW i \in 1..Len(VideoSamples(f)), VideoSamples(f)[i].key
  PROVE  \E k \in DOMAIN Payload(f, i) :
           /\ IsSignificant(Payload(f, i)[k]) /\ IsHeader(Payload(f, i)[k])
           /\ Payload(f, i)[k].header = TrackOf(f).av1.header
           /\ \A j \in DOMAIN Payload(f, i) : IsSignificant(Payload(f, i)[j]) => k <= j
<1> DEFINE payload == Payload(f, i)
           config == TrackOf(f).av1
           obus == VideoSamples(f)[i].obus
           led == SelectInSeq(payload, IsSignificant)
<1>1. IsSequence(payload) /\ payload = config.configObus \o obus /\ i \in DOMAIN VideoSamples(f)
  BY ObusOfPayload, Zenon
<1>2. SyncSampleValid(obus, config)
  BY <1>1, Zenon DEF Accepted, Av1TrackValid
<1>3. led # 0 /\ IsHeader(payload[led])
  BY <1>1, <1>2 DEF SyncSampleValid
<1>4. /\ led \in DOMAIN payload /\ IsSignificant(payload[led])
      /\ \A j \in DOMAIN payload : IsSignificant(payload[j]) => led <= j
  BY <1>1, <1>3, FirstSignificant
<1> HIDE DEF led
<1>5. payload[led].header = config.header
  BY <1>3, <1>4, HeadersOfTrack, Zenon
<1> QED BY <1>3, <1>4, <1>5, Zenon

\* And it comes before any other frame, but for those of configOBUs.
LEMMA KeyFrameIsFirst ==
  ASSUME NEW f \in Files, Accepted(f), TrackOf(f).codec = "AV1",
         NEW i \in 1..Len(VideoSamples(f)), VideoSamples(f)[i].key,
         \A o \in ToSet(TrackOf(f).av1.configObus) : ~IsFrame(o)
  PROVE  \E k \in DOMAIN Payload(f, i) :
           /\ IsFrame(Payload(f, i)[k])
           /\ Payload(f, i)[k].frame = "Key" /\ Payload(f, i)[k].show
           /\ \A j \in DOMAIN Payload(f, i) : IsFrame(Payload(f, i)[j]) => k <= j
<1> DEFINE payload == Payload(f, i)
           config == TrackOf(f).av1.configObus
           obus == VideoSamples(f)[i].obus
           first == SelectInSeq(obus, IsFrame)
           k == Len(config) + first
<1>1. /\ IsSequence(payload) /\ IsSequence(config) /\ IsSequence(obus)
      /\ payload = config \o obus /\ i \in DOMAIN VideoSamples(f)
      /\ \A j \in DOMAIN payload :
           \/ j \in DOMAIN config /\ payload[j] = config[j]
           \/ \E n \in DOMAIN obus : payload[j] = obus[n] /\ j = Len(config) + n
  BY ObusOfPayload, Zenon
<1>2. SyncSampleValid(obus, TrackOf(f).av1)
  BY <1>1, Zenon DEF Accepted, Av1TrackValid
<1>3. first # 0 /\ obus[first].frame = "Key" /\ obus[first].show
  <2>1. \E j \in 1..first - 1 : IsHeader(obus[j])
    BY <1>2, Zenon DEF SyncSampleValid
  <2>2. obus[first].frame = "Key" /\ obus[first].show
    BY <1>2, Zenon DEF SyncSampleValid
  <2> QED BY <2>1, <2>2
<1>4. /\ first \in DOMAIN obus /\ IsFrame(obus[first])
      /\ \A j \in DOMAIN obus : IsFrame(obus[j]) => first <= j
  BY <1>1, <1>3, FirstFrame
<1> HIDE DEF first
<1>5. k \in DOMAIN payload /\ payload[k] = obus[first]
  <2> DEFINE S == ToSet(config) \cup ToSet(obus)
  <2>1. config \in Seq(S) /\ obus \in Seq(S)
    BY <1>1, VecFacts
  <2> HIDE DEF S, payload, config, obus
  <2> QED BY <1>1, <1>4, <2>1
<1>6. ASSUME NEW j \in DOMAIN payload, IsFrame(payload[j]) PROVE k <= j
  <2>1. j \notin DOMAIN config \/ payload[j] # config[j]
    BY <1>1, <1>6, VecFacts, Zenon
  <2>2. PICK n \in DOMAIN obus : payload[j] = obus[n] /\ j = Len(config) + n
    BY <1>1, <2>1, Zenon
  <2>3. first <= n /\ n \in Nat /\ first \in Nat /\ Len(config) \in Nat
    BY <1>1, <1>4, <1>6, <2>2, VecFacts
  <2> QED BY <2>2, <2>3
<1> HIDE DEF k
<1> QED BY <1>3, <1>4, <1>5, <1>6, Zenon

-----------------------------------------------------------------------------
(* Big-endian sizes                                                        *)

\* The number that n bytes are, big-endian.
Octets == 0..255
Pair(a, b) == 256 * a + b
Number(v, n) ==
  IF n = 1 THEN v[1]
  ELSE IF n = 2 THEN Pair(v[1], v[2])
  ELSE Pair(Pair(Pair(v[1], v[2]), v[3]), v[4])

\* The digits of such a number.
Weight(k) == <<16777216, 65536, 256, 1>>[k]
Digit(n, k) == (n \div Weight(k)) % 256

\* A byte is its own last digit; two bytes and four are the digits of their number.
LEMMA OneDigit ==
  ASSUME NEW a \in Octets
  PROVE  Digit(a, 4) = a
BY SMT DEF Digit, Weight, Octets, Pair

LEMMA TwoDigits ==
  ASSUME NEW a \in Octets, NEW b \in Octets, NEW n, n = Pair(a, b)
  PROVE  Digit(n, 3) = a /\ Digit(n, 4) = b
BY SMT DEF Digit, Weight, Octets, Pair

LEMMA FourDigits ==
  ASSUME NEW q \in Octets, NEW a \in Octets, NEW b \in Octets, NEW c \in Octets,
         NEW m, m = Pair(Pair(Pair(q, a), b), c)
  PROVE  Digit(m, 1) = q /\ Digit(m, 2) = a /\ Digit(m, 3) = b /\ Digit(m, 4) = c
<1> DEFINE x == 256 * q + a
           y == 256 * x + b
           n == 256 * y + c
<1>1. x \in Nat /\ x % 256 = a /\ x \div 256 = q /\ q % 256 = q
  BY SMT DEF Octets
<1> HIDE DEF x
<1>2. y \in Nat /\ y % 256 = b /\ y \div 256 = x
  BY SMT, <1>1 DEF Octets
<1> HIDE DEF y
<1>3. n \in Nat /\ n % 256 = c /\ n \div 256 = y /\ n \div 1 = n
  BY SMT, <1>2 DEF Octets
<1> HIDE DEF n
<1>4. n \div 65536 = (n \div 256) \div 256
  BY SMT, <1>3
<1>5. n \div 16777216 = (n \div 65536) \div 256
  BY SMT, <1>3
<1>6. Digit(n, 1) = q /\ Digit(n, 2) = a /\ Digit(n, 3) = b /\ Digit(n, 4) = c
  BY SMT, <1>1, <1>2, <1>3, <1>4, <1>5 DEF Digit, Weight, Octets, Pair
<1> QED BY SMT, <1>6 DEF x, y, n, Pair

\* The size that is written before a unit is the number that is read.
LEMMA PrefixIsSize ==
  ASSUME NEW n \in {1, 2, 4}, NEW v \in [1..n -> Octets], NEW unit, Len(unit) = Number(v, n)
  PROVE  LengthPrefix(unit, n) = v
<1> DEFINE N == Number(v, n)
<1>1. LengthPrefix(unit, n) = [i \in 1..n |-> Digit(N, 4 - n + i)]
  BY SMT DEF LengthPrefix, Digit, Weight
<1> SUFFICES ASSUME NEW i \in 1..n PROVE Digit(N, 4 - n + i) = v[i]
  BY SMT, <1>1
<1>2. \A k \in 1..n : v[k] \in Octets
  OBVIOUS
<1>3. CASE n = 1
  <2>1. i = 1 /\ 4 - n + i = 4 /\ N = v[i]
    BY <1>3 DEF Number
  <2> QED BY <1>2, <2>1, OneDigit, Zenon
<1>4. CASE n = 2
  <2>1. 1 \in 1..n /\ 2 \in 1..n
    BY <1>4
  <2>2. N = Pair(v[1], v[2])
    BY <1>4 DEF Number
  <2> HIDE DEF N
  <2>3. Digit(N, 3) = v[1] /\ Digit(N, 4) = v[2]
    BY <1>2, <2>1, <2>2, TwoDigits, Zenon
  <2>4. \/ i = 1 /\ 4 - n + i = 3
        \/ i = 2 /\ 4 - n + i = 4
    BY <1>4
  <2> QED BY <2>3, <2>4, Zenon
<1>5. CASE n = 4
  <2>1. 1 \in 1..n /\ 2 \in 1..n /\ 3 \in 1..n /\ 4 \in 1..n
    BY <1>5
  <2>5. v[1] \in Octets /\ v[2] \in Octets /\ v[3] \in Octets /\ v[4] \in Octets
    BY <1>2, <2>1
  <2>2. N = Pair(Pair(Pair(v[1], v[2]), v[3]), v[4])
    BY <1>5 DEF Number
  <2> HIDE DEF N
  <2>3. Digit(N, 1) = v[1] /\ Digit(N, 2) = v[2] /\ Digit(N, 3) = v[3] /\ Digit(N, 4) = v[4]
    BY <2>2, <2>5, FourDigits
  <2>4. \/ i = 1 /\ 4 - n + i = 1
        \/ i = 2 /\ 4 - n + i = 2
        \/ i = 3 /\ 4 - n + i = 3
        \/ i = 4 /\ 4 - n + i = 4
    BY <1>5
  <2> QED BY <2>3, <2>4, Zenon
<1> QED BY <1>3, <1>4, <1>5

\* BigEndian reads that number.
LEMMA BigEndianIs ==
  ASSUME NEW n \in {1, 2, 4}, NEW v \in [1..n -> Octets]
  PROVE  BigEndian(v) = Number(v, n) /\ BigEndian(v) \in Nat
<1>1. BigEndian(v) = Adding!Folded(v, 0)
  BY DEF BigEndian, Adding!Folded, Adding!FoldLeft, Adding!MapThenFoldSet, Adding!Max,
         FoldLeft, MapThenFoldSet, Max
<1>2. n \in Nat /\ DOMAIN v = 1..n
  OBVIOUS
<1>3. PICK f : Adding!Runs(f, v, 0, n) /\ Adding!Folded(v, 0) = f[n]
  BY <1>2, Adding!FoldRuns
<1>4. f[0] = 0 /\ \A k \in 1..n : f[k] = Pair(f[k - 1], v[k])
  BY <1>3 DEF Adding!Runs, Pair
<1>5. \A k \in 1..n : v[k] \in Octets
  OBVIOUS
<1>6. f[1] = v[1] /\ v[1] \in Nat
  <2>1. 1 \in 1..n /\ 1 - 1 = 0
    OBVIOUS
  <2>2. f[1] = Pair(0, v[1]) /\ v[1] \in Octets
    BY <1>4, <1>5, <2>1
  <2>3. \A b \in Octets : Pair(0, b) = b /\ b \in Nat
    BY DEF Pair, Octets
  <2> QED BY <2>2, <2>3, Zenon
<1>7. \A a \in Nat, b \in Octets : Pair(a, b) \in Nat
  BY DEF Pair, Octets
<1>8. CASE n = 1
  BY <1>1, <1>3, <1>6, <1>8 DEF Number
<1>9. CASE n = 2
  <2>1. f[2] = Pair(f[1], v[2]) /\ v[2] \in Octets
    <3>1. 2 \in 1..n /\ 2 - 1 = 1
      BY <1>9
    <3> QED BY <1>4, <1>5, <3>1
  <2> QED BY <1>1, <1>3, <1>6, <1>7, <1>9, <2>1 DEF Number
<1>10. CASE n = 4
  <2>1. /\ 2 \in 1..n /\ 3 \in 1..n /\ 4 \in 1..n
        /\ 2 - 1 = 1 /\ 3 - 1 = 2 /\ 4 - 1 = 3
    BY <1>10
  <2>2. f[2] = Pair(v[1], v[2]) /\ v[2] \in Octets
    BY <1>4, <1>5, <1>6, <2>1
  <2>3. f[3] = Pair(f[2], v[3]) /\ v[3] \in Octets
    BY <1>4, <1>5, <2>1
  <2>4. f[4] = Pair(f[3], v[4]) /\ v[4] \in Octets
    BY <1>4, <1>5, <2>1
  <2> QED BY <1>1, <1>3, <1>6, <1>7, <1>10, <2>2, <2>3, <2>4 DEF Number
<1> QED BY <1>8, <1>9, <1>10

-----------------------------------------------------------------------------
(* The units of a sample                                                   *)

\* The size at an offset, whether a whole unit follows it, and where the next size is.
SizeAt(data, n, offset) == BigEndian(SubSeq(data, offset + 1, offset + n))
Rest(data, n, offset) ==
  offset + n > Len(data) \/ offset + n + SizeAt(data, n, offset) > Len(data)
After(data, n, offset) == offset + n + SizeAt(data, n, offset)
UnitAt(data, n, offset) == SubSeq(data, offset + n + 1, After(data, n, offset))

\* U has, for each offset from `from` on, the units from there on.
CutsFrom(U, data, n, from) ==
  U = [offset \in from..Len(data) |->
         IF Rest(data, n, offset) THEN <<>>
         ELSE <<UnitAt(data, n, offset)>> \o U[After(data, n, offset)]]

\* NalUnits is such a function, chosen.
LEMMA UnitsAreCut ==
  ASSUME NEW data, NEW n
  PROVE  NalUnits(data, n) = (CHOOSE U : CutsFrom(U, data, n, 0))[0]
BY DEF NalUnits, CutsFrom, Rest, UnitAt, After, SizeAt

\* The size is a number, and the next size comes later.
LEMMA SizeFacts ==
  ASSUME NEW data \in Seq(0..255), NEW n \in {1, 2, 4}, NEW offset \in 0..Len(data),
         offset + n <= Len(data)
  PROVE  LET v == SubSeq(data, offset + 1, offset + n)
         IN  /\ v \in [1..n -> Octets] /\ SizeAt(data, n, offset) = Number(v, n)
             /\ SizeAt(data, n, offset) \in Nat
             /\ After(data, n, offset) \in Nat /\ After(data, n, offset) > offset
             /\ After(data, n, offset) = offset + n + SizeAt(data, n, offset)
<1> DEFINE v == SubSeq(data, offset + 1, offset + n)
<1>1. v \in [1..n -> Octets]
  <2>1. \A i \in 1..n : offset + i \in 1..Len(data)
    OBVIOUS
  <2>2. \A i \in 1..n : data[offset + i] \in Octets
    <3>1. data \in Seq(Octets)
      BY DEF Octets
    <3> QED BY <2>1, <3>1
  <2>3. v = [i \in 1..n |-> data[offset + i]]
    OBVIOUS
  <2> QED BY <2>2, <2>3
<1>2. SizeAt(data, n, offset) = Number(v, n) /\ SizeAt(data, n, offset) \in Nat
  BY <1>1, BigEndianIs DEF SizeAt
<1> QED BY <1>1, <1>2 DEF After

\* So the recursion ends.
LEMMA CutsExist ==
  ASSUME NEW data \in Seq(0..255), NEW n \in {1, 2, 4}
  PROVE  \E U : CutsFrom(U, data, n, 0)
<1> DEFINE L == Len(data)
           S == {k \in Nat : k <= L => \E U : CutsFrom(U, data, n, L - k)}
<1>1. L \in Nat
  OBVIOUS
<1>2. 0 \in S
  <2>1. Rest(data, n, L)
    BY DEF Rest
  <2> DEFINE U == [offset \in L..L |-> <<>>]
  <2>2. L..L = {L}
    OBVIOUS
  <2>3. U = [offset \in L..L |-> IF Rest(data, n, offset) THEN <<>>
              ELSE <<UnitAt(data, n, offset)>> \o U[After(data, n, offset)]]
    BY <2>1, <2>2
  <2>4. CutsFrom(U, data, n, L)
    BY <2>3 DEF CutsFrom
  <2> QED BY <2>4
<1>3. ASSUME NEW k \in Nat, k \in S PROVE k + 1 \in S
  <2> SUFFICES ASSUME k + 1 <= L PROVE \E U : CutsFrom(U, data, n, L - (k + 1))
    OBVIOUS
  <2>1. PICK U : CutsFrom(U, data, n, L - k)
    BY <1>3
  <2> DEFINE o == L - (k + 1)
             V == [offset \in o..L |->
                     IF offset = o
                       THEN IF Rest(data, n, o) THEN <<>>
                            ELSE <<UnitAt(data, n, o)>> \o U[After(data, n, o)]
                       ELSE U[offset]]
             W == [offset \in o..L |-> IF Rest(data, n, offset) THEN <<>>
                     ELSE <<UnitAt(data, n, offset)>> \o V[After(data, n, offset)]]
  <2>2. o \in Nat /\ o \in o..L /\ \A i \in o..L : i = o \/ i \in (L - k)..L
    BY <1>1
  <2>3. ASSUME NEW i \in o..L, ~Rest(data, n, i) PROVE V[After(data, n, i)] = U[After(data, n, i)]
    <3>1. i \in 0..L /\ i >= o /\ i + n <= L
      BY <2>2, <2>3 DEF Rest
    <3>2. After(data, n, i) \in Nat /\ After(data, n, i) > i /\ After(data, n, i) <= L
      BY <2>3, <3>1, SizeFacts DEF Rest
    <3>3. After(data, n, i) \in o..L /\ After(data, n, i) # o
      BY <2>2, <3>1, <3>2
    <3> QED BY <3>3
  <2>4. ASSUME NEW i \in o..L PROVE V[i] = W[i]
    <3>1. CASE i = o
      BY <2>2, <2>3, <3>1
    <3>2. CASE i # o
      <4>1. i \in (L - k)..L
        BY <2>2, <3>2
      <4>2. U[i] = IF Rest(data, n, i) THEN <<>>
                   ELSE <<UnitAt(data, n, i)>> \o U[After(data, n, i)]
        BY <2>1, <4>1 DEF CutsFrom
      <4> QED BY <2>3, <3>2, <4>2
    <3> QED BY <3>1, <3>2
  <2>5. V = W
    <3>1. V = [i \in o..L |-> V[i]] /\ W = [i \in o..L |-> W[i]]
      OBVIOUS
    <3> HIDE DEF V, W
    <3> QED BY <2>4, <3>1
  <2>6. CutsFrom(V, data, n, o)
    <3>1. V = [offset \in o..L |-> IF Rest(data, n, offset) THEN <<>>
                     ELSE <<UnitAt(data, n, offset)>> \o V[After(data, n, offset)]]
      BY <2>5
    <3> HIDE DEF V
    <3> QED BY <3>1 DEF CutsFrom
  <2> HIDE DEF V
  <2> QED BY <2>6
<1> HIDE DEF S
<1>4. L \in S
  BY <1>1, <1>2, <1>3, Adding!Induction
<1>5. \E U : CutsFrom(U, data, n, L - L)
  BY <1>1, <1>4 DEF S
<1> QED BY <1>1, <1>5

\* So NalUnits has, from each offset on, the units that are cut from there.
LEMMA UnitsFacts ==
  ASSUME NEW data \in Seq(0..255), NEW n \in {1, 2, 4}
  PROVE  \E U : /\ CutsFrom(U, data, n, 0)
                /\ NalUnits(data, n) = U[0]
                /\ \A offset \in 0..Len(data) : U[offset] \in Seq(Seq(0..255))
<1> DEFINE L == Len(data)
           U == CHOOSE U : CutsFrom(U, data, n, 0)
<1>1. CutsFrom(U, data, n, 0) /\ NalUnits(data, n) = U[0]
  BY CutsExist, UnitsAreCut
<1> HIDE DEF U
<1> DEFINE S == {k \in Nat : \A offset \in 0..L : L - offset <= k => U[offset] \in Seq(Seq(0..255))}
<1>2. L \in Nat
  OBVIOUS
<1>3. ASSUME NEW offset \in 0..L
      PROVE  U[offset] = IF Rest(data, n, offset) THEN <<>>
                         ELSE <<UnitAt(data, n, offset)>> \o U[After(data, n, offset)]
  BY <1>1 DEF CutsFrom
<1>4. ASSUME NEW offset \in 0..L, ~Rest(data, n, offset)
      PROVE  /\ After(data, n, offset) \in 0..L /\ After(data, n, offset) > offset
             /\ UnitAt(data, n, offset) \in Seq(0..255)
  <2>1. offset + n <= L
    BY <1>2, <1>4 DEF Rest
  <2>2. After(data, n, offset) \in Nat /\ After(data, n, offset) > offset /\ After(data, n, offset) <= L
    BY <1>2, <1>4, <2>1, SizeFacts DEF Rest
  <2>3. SubSeq(data, offset + n + 1, After(data, n, offset)) \in Seq(0..255)
    <3>1. \A i \in offset + n + 1..After(data, n, offset) : i \in 1..L
      BY <2>1, <2>2, <1>2
    <3>4. data \in Seq(Octets)
      BY DEF Octets
    <3>5. \A i \in 1..L : data[i] \in Octets
      BY <3>4
    <3>2. \A i \in offset + n + 1..After(data, n, offset) : data[i] \in 0..255
      BY <3>1, <3>5 DEF Octets
    <3>3. offset + n + 1 \in Int /\ After(data, n, offset) \in Int
      BY <2>2
    <3> QED BY <3>2, <3>3, Sequence!SubSeqProperties
  <2> QED BY <1>2, <2>2, <2>3 DEF UnitAt
<1>5. 0 \in S
  <2>1. ASSUME NEW offset \in 0..L, L - offset <= 0 PROVE U[offset] = <<>>
    <3>1. Rest(data, n, offset)
      BY <1>2, <2>1 DEF Rest
    <3> QED BY <1>3, <3>1
  <2>2. <<>> \in Seq(Seq(0..255)) /\ 0 \in Nat
    OBVIOUS
  <2> QED BY <2>1, <2>2
<1>6. ASSUME NEW k \in Nat, k \in S PROVE k + 1 \in S
  <2> SUFFICES ASSUME NEW offset \in 0..L, L - offset <= k + 1, ~Rest(data, n, offset)
               PROVE  U[offset] \in Seq(Seq(0..255))
    <3>1. <<>> \in Seq(Seq(0..255)) /\ k + 1 \in Nat
      OBVIOUS
    <3> QED BY <1>3, <3>1, Zenon
  <2>1. After(data, n, offset) \in 0..L /\ L - After(data, n, offset) <= k
    BY <1>2, <1>4
  <2>2. U[After(data, n, offset)] \in Seq(Seq(0..255))
    BY <1>6, <2>1
  <2>3. U[offset] = <<UnitAt(data, n, offset)>> \o U[After(data, n, offset)]
    BY <1>3
  <2> QED BY <1>4, <2>2, <2>3
<1> HIDE DEF S
<1>7. L \in S
  BY <1>2, <1>5, <1>6, Adding!Induction
<1>8. \A offset \in 0..L : U[offset] \in Seq(Seq(0..255))
  BY <1>2, <1>7 DEF S
<1> QED BY <1>1, <1>8

\* f puts the sizes back before the first m units.
Restores(f, units, n, m) ==
  /\ f[0] = <<>>
  /\ \A k \in 1..m : f[k] = f[k - 1] \o LengthPrefix(units[k], n) \o units[k]

RestoringOne == INSTANCE Folding WITH Op <- LAMBDA bytes, unit : bytes \o LengthPrefix(unit, 1) \o unit
RestoringTwo == INSTANCE Folding WITH Op <- LAMBDA bytes, unit : bytes \o LengthPrefix(unit, 2) \o unit
RestoringFour == INSTANCE Folding WITH Op <- LAMBDA bytes, unit : bytes \o LengthPrefix(unit, 4) \o unit

\* Prefixed is a fold for each of the three lengths of a size.
LEMMA FoldRestores ==
  ASSUME NEW n \in {1, 2, 4}, NEW units, NEW m \in Nat, DOMAIN units = 1..m
  PROVE  \E f : Restores(f, units, n, m) /\ Prefixed(units, n) = f[m]
<1> DEFINE base == <<>>
<1>1. CASE n = 1
  <2>1. Prefixed(units, n) = RestoringOne!Folded(units, base)
    BY <1>1 DEF Prefixed, RestoringOne!Folded, RestoringOne!FoldLeft,
                RestoringOne!MapThenFoldSet, RestoringOne!Max, FoldLeft, MapThenFoldSet, Max
  <2> HIDE DEF base
  <2>2. PICK f : /\ RestoringOne!Runs(f, units, base, m)
                 /\ RestoringOne!Folded(units, base) = f[m]
    BY RestoringOne!FoldRuns
  <2>3. Restores(f, units, n, m)
    BY <1>1, <2>2 DEF RestoringOne!Runs, Restores, base
  <2> QED BY <2>1, <2>2, <2>3
<1>2. CASE n = 2
  <2>1. Prefixed(units, n) = RestoringTwo!Folded(units, base)
    BY <1>2 DEF Prefixed, RestoringTwo!Folded, RestoringTwo!FoldLeft,
                RestoringTwo!MapThenFoldSet, RestoringTwo!Max, FoldLeft, MapThenFoldSet, Max
  <2> HIDE DEF base
  <2>2. PICK f : /\ RestoringTwo!Runs(f, units, base, m)
                 /\ RestoringTwo!Folded(units, base) = f[m]
    BY RestoringTwo!FoldRuns
  <2>3. Restores(f, units, n, m)
    BY <1>2, <2>2 DEF RestoringTwo!Runs, Restores, base
  <2> QED BY <2>1, <2>2, <2>3
<1>3. CASE n = 4
  <2>1. Prefixed(units, n) = RestoringFour!Folded(units, base)
    BY <1>3 DEF Prefixed, RestoringFour!Folded, RestoringFour!FoldLeft,
                RestoringFour!MapThenFoldSet, RestoringFour!Max, FoldLeft, MapThenFoldSet, Max
  <2> HIDE DEF base
  <2>2. PICK f : /\ RestoringFour!Runs(f, units, base, m)
                 /\ RestoringFour!Folded(units, base) = f[m]
    BY RestoringFour!FoldRuns
  <2>3. Restores(f, units, n, m)
    BY <1>3, <2>2 DEF RestoringFour!Runs, Restores, base
  <2> QED BY <2>1, <2>2, <2>3
<1> QED BY <1>1, <1>2, <1>3

\* A whole unit behind its size is what the data has there.
LEMMA UnitRestored ==
  ASSUME NEW data \in Seq(0..255), NEW n \in {1, 2, 4}, NEW offset \in 0..Len(data),
         ~Rest(data, n, offset)
  PROVE  /\ After(data, n, offset) \in 0..Len(data)
         /\ SubSeq(data, 1, offset) \o LengthPrefix(UnitAt(data, n, offset), n)
              \o UnitAt(data, n, offset) = SubSeq(data, 1, After(data, n, offset))
<1> DEFINE unit == UnitAt(data, n, offset)
           next == After(data, n, offset)
           v == SubSeq(data, offset + 1, offset + n)
<1>1. Len(data) \in Nat /\ offset + n <= Len(data)
  BY DEF Rest
<1>2. /\ v \in [1..n -> Octets] /\ SizeAt(data, n, offset) = Number(v, n)
      /\ SizeAt(data, n, offset) \in Nat /\ next = offset + n + SizeAt(data, n, offset)
      /\ next <= Len(data) /\ next \in Nat
  <2>1. next <= Len(data) \/ ~(next <= Len(data) \/ next > Len(data))
    BY DEF Rest, After
  <2>2. v \in [1..n -> Octets] /\ SizeAt(data, n, offset) = Number(v, n)
      /\ SizeAt(data, n, offset) \in Nat /\ next = offset + n + SizeAt(data, n, offset)
      /\ next \in Nat
    BY <1>1, SizeFacts, Zenon
  <2> QED BY <1>1, <2>1, <2>2
<1>3. unit = SubSeq(data, offset + n + 1, next)
  BY DEF UnitAt
<1>4. Len(unit) = Number(v, n)
  BY <1>1, <1>2, <1>3
<1> HIDE DEF unit, next
<1>5. LengthPrefix(unit, n) = v
  BY <1>2, <1>4, PrefixIsSize
<1>6. SubSeq(data, 1, offset) \o v = SubSeq(data, 1, offset + n)
  <2>1. 1 \in 1..Len(data) + 1 /\ offset \in 1 - 1..Len(data) /\ offset + n \in offset..Len(data)
    BY <1>1
  <2> QED BY <2>1, Sequence!ConcatAdjacentSubSeq
<1>7. SubSeq(data, 1, offset + n) \o unit = SubSeq(data, 1, next)
  <2>1. /\ 1 \in 1..Len(data) + 1 /\ offset + n \in 1 - 1..Len(data)
        /\ next \in offset + n..Len(data)
    BY <1>1, <1>2
  <2> QED BY <1>3, <2>1, Sequence!ConcatAdjacentSubSeq
<1>8. next \in 0..Len(data)
  BY <1>1, <1>2
<1> QED BY <1>5, <1>6, <1>7, <1>8, Zenon DEF unit, next

\* What puts the sizes back has, after all units, the data up to where none follows.
LEMMA UnitsRestored ==
  ASSUME NEW data \in Seq(0..255), NEW n \in {1, 2, 4}
  PROVE  /\ NalUnits(data, n) \in Seq(Seq(0..255))
         /\ \E offset \in 0..Len(data) :
              /\ Rest(data, n, offset)
              /\ Prefixed(NalUnits(data, n), n) = SubSeq(data, 1, offset)
<1> DEFINE units == NalUnits(data, n)
           L == Len(data)
<1>1. PICK U : /\ CutsFrom(U, data, n, 0) /\ units = U[0]
               /\ \A offset \in 0..L : U[offset] \in Seq(Seq(0..255))
  BY UnitsFacts
<1>2. L \in Nat /\ units \in Seq(Seq(0..255))
  BY <1>1
<1>3. ASSUME NEW offset \in 0..L
      PROVE  U[offset] = IF Rest(data, n, offset) THEN <<>>
                         ELSE <<UnitAt(data, n, offset)>> \o U[After(data, n, offset)]
  BY <1>1 DEF CutsFrom
<1> HIDE DEF units
<1>4. PICK m \in Nat : m = Len(units) /\ DOMAIN units = 1..m
  BY <1>2
<1>5. PICK f : Restores(f, units, n, m) /\ Prefixed(units, n) = f[m]
  BY <1>4, FoldRestores
<1> DEFINE Reached(k, offset) ==
             /\ f[k] = SubSeq(data, 1, offset)
             /\ Len(U[offset]) = m - k
             /\ \A i \in 1..m - k : units[k + i] = U[offset][i]
           S == {k \in Nat : k <= m => \E offset \in 0..L : Reached(k, offset)}
<1>6. 0 \in S
  <2>1. f[0] = SubSeq(data, 1, 0) /\ 0 \in 0..L
    BY <1>2, <1>5 DEF Restores
  <2>2. Reached(0, 0)
    BY <1>1, <1>2, <1>4, <2>1
  <2> QED BY <2>1, <2>2
<1>7. ASSUME NEW k \in Nat, k \in S PROVE k + 1 \in S
  <2> SUFFICES ASSUME k + 1 <= m PROVE \E offset \in 0..L : Reached(k + 1, offset)
    OBVIOUS
  <2>1. PICK offset \in 0..L : Reached(k, offset)
    BY <1>7
  <2>2. ~Rest(data, n, offset)
    <3>1. U[offset] # <<>>
      BY <2>1, Len(<<>>) = 0
    <3> QED BY <1>3, <3>1, Zenon
  <2> DEFINE next == After(data, n, offset)
             unit == UnitAt(data, n, offset)
  <2>3. /\ next \in 0..L
        /\ SubSeq(data, 1, offset) \o LengthPrefix(unit, n) \o unit = SubSeq(data, 1, next)
    BY <2>2, UnitRestored
  <2>4. U[offset] = <<unit>> \o U[next] /\ U[next] \in Seq(Seq(0..255))
    BY <1>1, <1>3, <2>2, <2>3
  <2> HIDE DEF next, unit
  <2>5. /\ Len(U[offset]) = 1 + Len(U[next]) /\ U[offset][1] = unit
        /\ \A i \in 1..Len(U[next]) : U[offset][1 + i] = U[next][i]
    BY <2>4
  <2>6. Len(U[next]) = m - (k + 1)
    <3>1. Len(U[next]) \in Nat
      BY <2>4
    <3>2. m - k = 1 + Len(U[next])
      BY <2>1, <2>5, Zenon
    <3> QED BY <3>1, <3>2
  <2>7. units[k + 1] = unit
    BY <2>1, <2>5
  <2>8. f[k + 1] = SubSeq(data, 1, next)
    <3>1. k + 1 \in 1..m /\ (k + 1) - 1 = k
      OBVIOUS
    <3>2. f[k + 1] = f[k] \o LengthPrefix(units[k + 1], n) \o units[k + 1]
      BY <1>5, <3>1, Zenon DEF Restores
    <3> QED BY <2>1, <2>3, <2>7, <3>2
  <2>9. ASSUME NEW i \in 1..m - (k + 1) PROVE units[k + 1 + i] = U[next][i]
    <3>1. 1 + i \in 1..m - k /\ k + (1 + i) = k + 1 + i
      OBVIOUS
    <3> QED BY <2>1, <2>5, <2>6, <3>1
  <2> QED BY <2>3, <2>6, <2>8, <2>9
<1> HIDE DEF S
<1>8. m \in S
  BY <1>6, <1>7, Adding!Induction
<1>9. PICK offset \in 0..L : Reached(m, offset)
  BY <1>8 DEF S
<1>10. Rest(data, n, offset)
  <2> SUFFICES ASSUME ~Rest(data, n, offset) PROVE FALSE
    OBVIOUS
  <2>1. After(data, n, offset) \in 0..L
    BY UnitRestored
  <2>2. U[After(data, n, offset)] \in Seq(Seq(0..255))
    BY <1>1, <2>1
  <2>3. U[offset] = <<UnitAt(data, n, offset)>> \o U[After(data, n, offset)]
    BY <1>3
  <2>4. Len(U[offset]) = 0
    BY <1>9
  <2> QED BY <2>2, <2>3, <2>4
<1> QED BY <1>2, <1>5, <1>9, <1>10 DEF units

\* The units of a sample, with their sizes, are its data but for a rest without a whole one.
LEMMA DataIsKept ==
  ASSUME NEW data \in Seq(0..255), NEW n \in {1, 2, 4}
  PROVE  LET restored == Prefixed(NalUnits(data, n), n)
             rest == SubSeq(data, Len(restored) + 1, Len(data))
         IN  /\ IsPrefix(restored, data)
             /\ Len(rest) < n \/ BigEndian(SubSeq(rest, 1, n)) > Len(rest) - n
<1> DEFINE restored == Prefixed(NalUnits(data, n), n)
           rest == SubSeq(data, Len(restored) + 1, Len(data))
<1>1. PICK offset \in 0..Len(data) : Rest(data, n, offset) /\ restored = SubSeq(data, 1, offset)
  BY UnitsRestored
<1>2. Len(data) \in Nat
  OBVIOUS
<1>3. Len(restored) = offset
  BY <1>1, <1>2
<1>4. IsPrefix(restored, data)
  BY <1>1, <1>2, <1>3 DEF IsPrefix
<1>5. rest = SubSeq(data, offset + 1, Len(data)) /\ Len(rest) = Len(data) - offset
  BY <1>2, <1>3
<1> HIDE DEF restored, rest
<1> SUFFICES Len(rest) < n \/ BigEndian(SubSeq(rest, 1, n)) > Len(rest) - n
  BY <1>4 DEF restored, rest
<1>6. CASE offset + n > Len(data)
  BY <1>2, <1>5, <1>6
<1>7. CASE offset + n <= Len(data)
  <2>1. SubSeq(rest, 1, n) = SubSeq(data, offset + 1, offset + n)
    BY <1>2, <1>5, <1>7
  <2>2. BigEndian(SubSeq(rest, 1, n)) = SizeAt(data, n, offset)
    BY <2>1 DEF SizeAt
  <2>3. SizeAt(data, n, offset) \in Nat
    BY <1>2, <1>7, SizeFacts
  <2>4. offset + n + SizeAt(data, n, offset) > Len(data)
    BY <1>1, <1>7 DEF Rest
  <2> QED BY <1>2, <1>5, <2>2, <2>3, <2>4
<1> QED BY <1>2, <1>6, <1>7

\* What new has accepted plays.
LEMMA AcceptedPlays ==
  ASSUME ReaderInv, FormatInv
  PROVE  AcceptedFilesPlay
<1>1. file \in Files /\ (opened = "yes" => Accepted(file))
  BY DEF ReaderInv, Mp4TypeOK, FormatInv
<1>2. ASSUME opened = "yes", TrackOf(file).codec = "AV1",
             NEW k \in 1..SampleCount, NEW i \in 1..k, \A j \in (i + 1)..k : ~IsKeyframe(j),
             NEW h \in {Payload(file, i)[n] : n \in DOMAIN Payload(file, i)},
             NEW g \in {Payload(file, k)[n] : n \in DOMAIN Payload(file, k)},
             IsHeader(h), IsHeader(g)
      PROVE  h.payload = g.payload
  <2>1. /\ k \in 1..Len(VideoSamples(file))
        /\ \A j \in (i + 1)..k : ~VideoSamples(file)[j].key
    BY <1>2, Zenon DEF SampleCount, IsKeyframe
  <2> QED BY <1>1, <1>2, <2>1, HeadersAgree
<1>3. OneHeaderPerSequence
  BY <1>2, Zenon DEF OneHeaderPerSequence
<1>4. ASSUME opened = "yes", TrackOf(file).codec \in {"H264", "H265"}, NEW i \in 1..SampleCount
      PROVE  /\ VideoSamples(file)[i].data \in Seq(0..255)
             /\ TrackOf(file).lengthSizeMinusOne + 1 \in {1, 2, 4}
             /\ IsSequence(TrackOf(file).parameterSets)
  <2>1. i \in DOMAIN VideoSamples(file)
    BY <1>1, FileFacts, VecFacts, Zenon DEF SampleCount
  <2>2. TrackOf(file).lengthSizeMinusOne \in {0, 1, 3} /\ IsSequence(TrackOf(file).parameterSets)
    BY <1>1, <1>4, ListsOfTrack
  <2> QED BY <1>1, <2>1, <2>2, FileFacts
<1>5. UnitsAreWhole
  BY <1>4, DataIsKept, Zenon DEF UnitsAreWhole
<1>6. ASSUME opened = "yes", NEW i \in 1..SampleCount, IsKeyframe(i),
             TrackOf(file).codec \in {"H264", "H265"}
      PROVE  IsPrefix(TrackOf(file).parameterSets, Payload(file, i))
  <2> DEFINE n == TrackOf(file).lengthSizeMinusOne + 1
             units == NalUnits(VideoSamples(file)[i].data, n)
             sets == TrackOf(file).parameterSets
  <2>1. Payload(file, i) = sets \o units
    BY <1>6 DEF Payload, IsKeyframe
  <2>2. units \in Seq(Seq(0..255)) /\ sets \in Seq(ToSet(sets))
    BY <1>4, <1>6, UnitsRestored, VecFacts, Zenon
  <2> HIDE DEF units, sets
  <2> DEFINE S == ToSet(sets) \cup Seq(0..255)
  <2>3. sets \in Seq(S) /\ units \in Seq(S)
    BY <2>2
  <2> HIDE DEF S
  <2>4. IsPrefix(sets, sets \o units)
    BY <2>3 DEF IsPrefix
  <2> QED BY <2>1, <2>4, Zenon DEF sets
<1>7. ASSUME opened = "yes", NEW i \in 1..SampleCount, IsKeyframe(i), TrackOf(file).codec = "AV1"
      PROVE  /\ \E k \in DOMAIN Payload(file, i) :
                  /\ IsSignificant(Payload(file, i)[k]) /\ IsHeader(Payload(file, i)[k])
                  /\ Payload(file, i)[k].header = TrackOf(file).av1.header
                  /\ \A j \in DOMAIN Payload(file, i) :
                       IsSignificant(Payload(file, i)[j]) => k <= j
             /\ (\A o \in ToSet(TrackOf(file).av1.configObus) : ~IsFrame(o)) =>
                  \E k \in DOMAIN Payload(file, i) :
                    /\ IsFrame(Payload(file, i)[k])
                    /\ Payload(file, i)[k].frame = "Key" /\ Payload(file, i)[k].show
                    /\ \A j \in DOMAIN Payload(file, i) : IsFrame(Payload(file, i)[j]) => k <= j
  BY <1>1, <1>7, KeyFrameIsLed, KeyFrameIsFirst, Zenon DEF SampleCount, IsKeyframe
<1>8. KeyFramesStartDecoding
  BY <1>6, <1>7 DEF KeyFramesStartDecoding
<1> QED BY <1>3, <1>5, <1>8 DEF AcceptedFilesPlay

-----------------------------------------------------------------------------
(* The invariants                                                          *)

\* FormatInv holds in every reachable state.
LEMMA FormatInvariant == Mp4Spec => []FormatInv
<1>1. Mp4Init => FormatInv
  BY DEF Mp4Init, FormatInv
<1>2. ReaderInv /\ FormatInv /\ [Mp4Next]_mp4Vars => FormatInv'
  BY FormatInductive
<1> QED BY <1>1, <1>2, ReaderInvariant, PTL DEF Mp4Spec

\* An encoder that Mp4PassthroughVideoCodecCapability makes is for a receiver that decodes
\* whatever the track brings, in any file that new accepts: every SPS of every sample
\* entry, and every Sequence Header of every sample.
THEOREM ReceiverDecodes == Mp4Spec => []ReceiverDecodesTrack
BY FormatInvariant, ReaderInvariant, FormatDecodes, PTL

\* What Mp4SampleReader::new accepts can be played, whatever the file: decoding may begin at
\* any key frame that is sent, it goes on from there with one Sequence Header, and the units
\* of H.264 and H.265 lose nothing on their way to Annex B.
THEOREM AcceptedPlay == Mp4Spec => []AcceptedFilesPlay
BY FormatInvariant, ReaderInvariant, AcceptedPlays, PTL
=============================================================================
