--------------------------- MODULE HardwareCodecs ---------------------------
(***************************************************************************)
(* The encoders and decoders of src/video_codecs/nvcodec.rs, vpl.rs and    *)
(* amf.rs, and the decoder of v4l2.rs.  libwebrtc's queue calls a handler; *)
(* the handler gives frames to an engine of the vendor's library, whose    *)
(* results come back in a callback of the library, which finds libwebrtc's *)
(* callback under the mutex of callback_state.  Dropping an engine waits   *)
(* for the results of all that it was given.                               *)
(*                                                                         *)
(* The four files repeat each other with small differences: an operator    *)
(* says what they share, and one of each file's own which part it takes.   *)
(***************************************************************************)
EXTENDS Naturals, Sequences

CONSTANTS
  FrameSizes,  \* sizes of frames
  Rates,       \* bitrate and framerate
  Engines,     \* names for the engines of the vendor's library
  MaxInputs,   \* frames that an engine takes before it gives back a result
  Unset        \* None

\* An engine is made while the one it replaces is still there.
ASSUME HardwareAssumption ==
  /\ Unset \notin FrameSizes \cup Rates \cup Engines
  /\ "free" \notin Engines
  /\ MaxInputs \in Nat
  /\ \A e \in Engines \cup {Unset} : Engines \ {e} # {}

VARIABLES
  handler,    \* [file, side, size, rate, rebuild_needed, reconfigure_needed]
  engine,     \* encoder or decoder of the handler; one of `engines`
  request,    \* the call of libwebrtc's queue and its next step
  mutex,      \* who holds the mutex of callback_state: "free", "queue" or an engine
  registered, \* callback_state.callback is Some
  engines     \* their configuration, what they were given, and their thread

hardwareVars == <<handler, engine, request, mutex, registered, engines>>

Encoding == {"nvcodec", "vpl", "amf"}
Decoding == Encoding \cup {"v4l2"}

Configs == [size : FrameSizes \cup {Unset}, rate : Rates \cup {Unset}]
Unconfigured == [size |-> Unset, rate |-> Unset]

\* What a frame needs, and what the engine it was given to is configured for.
Inputs == [needs : Configs, meets : Configs]

Missing == [config |-> Unconfigured, inputs |-> <<>>, thread |-> "works", open |-> FALSE]
Quiet == [kind |-> "none", at |-> "idle", old |-> {}]

HardwareInit ==
  /\ handler \in
       [file : Encoding, side : {"encoder"}, size : {Unset}, rate : {Unset},
        rebuild_needed : {FALSE}, reconfigure_needed : {FALSE}]
       \cup
       [file : Decoding, side : {"decoder"}, size : {Unset}, rate : {Unset},
        rebuild_needed : {FALSE}, reconfigure_needed : {FALSE}]
  /\ engine = Unset
  /\ request = Quiet
  /\ mutex = "free"
  /\ registered = FALSE
  /\ engines = [e \in Engines |-> Missing]

-----------------------------------------------------------------------------
(* What the files share                                                    *)

Wanted == [size |-> handler.size, rate |-> handler.rate]

Step(kind, at) == request' = [request EXCEPT !.kind = kind, !.at = at]

\* A call that fails in the middle leaves what it has done.  libwebrtc releases an encoder
\* whose init_encode has failed.
Failed == request' = [Quiet EXCEPT !.at = IF request.kind = "init" THEN "failed" ELSE "idle"]

\* init_encode takes the settings, and builds an engine for them.
InitWith(size, rate) ==
  /\ request.at = "idle"
  /\ handler' = [handler EXCEPT !.size = size, !.rate = rate]
  /\ Step("init", "rebuild")
  /\ UNCHANGED <<engine, mutex, registered, engines>>

\* Mutated: an engine that is there is reconfigured for a new size.
EncodeReconfiguring(size) ==
  /\ request.at = "idle"
  /\ mutex = "free"
  /\ registered
  /\ handler' = [handler EXCEPT !.size = size,
       !.rebuild_needed = @ \/ engine = Unset,
       !.reconfigure_needed = @ \/ handler.size # size]
  /\ Step("encode", IF handler'.rebuild_needed THEN "rebuild"
                    ELSE IF handler'.reconfigure_needed THEN "reconfigure" ELSE "submit")
  /\ UNCHANGED <<engine, mutex, registered, engines>>

\* encode, up to the engine: another size needs another engine, another rate the same one
\* reconfigured.
EncodeAt(size) ==
  /\ request.at = "idle"
  /\ mutex = "free"
  /\ registered
  /\ handler' = [handler EXCEPT !.size = size,
       !.rebuild_needed = @ \/ handler.size # size \/ engine = Unset]
  /\ Step("encode", IF handler'.rebuild_needed THEN "rebuild"
                    ELSE IF handler.reconfigure_needed THEN "reconfigure" ELSE "submit")
  /\ UNCHANGED <<engine, mutex, registered, engines>>

\* A new engine is made, and then the one it replaces dropped; or there is no new one.
Rebuild ==
  /\ request.at = "rebuild"
  /\ \/ /\ Failed
        /\ UNCHANGED <<handler, engine, engines>>
     \/ LET new == CHOOSE e \in Engines : ~engines[e].open
        IN  /\ engines' = [engines EXCEPT ![new] =
                 [config |-> Wanted, inputs |-> <<>>, thread |-> "works", open |-> TRUE]]
            /\ engine' = new
            /\ handler' = [handler EXCEPT !.rebuild_needed = FALSE, !.reconfigure_needed = FALSE]
            /\ request' = [request EXCEPT !.at = "drop", !.old = {engine} \ {Unset}]
  /\ UNCHANGED <<mutex, registered>>

\* The engine takes the new rate, or another is built for it.
Reconfigure ==
  /\ request.at = "reconfigure"
  /\ \/ /\ engines' = [engines EXCEPT ![engine].config.rate = handler.rate]
        /\ handler' = [handler EXCEPT !.reconfigure_needed = FALSE]
        /\ Step("encode", "submit")
     \/ /\ handler' = [handler EXCEPT !.rebuild_needed = TRUE]
        /\ Step("encode", "rebuild")
        /\ UNCHANGED engines
  /\ UNCHANGED <<engine, mutex, registered>>

\* The drop of an engine returns when it has given back all its results.
Dropped ==
  /\ request.at = "drop"
  /\ \A e \in request.old : engines[e].inputs = <<>>
  /\ engines' = [e \in Engines |-> IF e \in request.old THEN Missing ELSE engines[e]]
  /\ request' = IF request.kind \in {"encode", "decode"}
                THEN [request EXCEPT !.at = "submit", !.old = {}] ELSE Quiet
  /\ UNCHANGED <<handler, engine, mutex, registered>>

\* The engine takes the frame, or the conversion, the surface or the engine fails.
GiveToEngine ==
  /\ request.at = "submit"
  /\ \/ /\ Len(engines[engine].inputs) < MaxInputs
        /\ engines' = [engines EXCEPT ![engine].inputs =
             Append(@, [needs |-> Wanted, meets |-> engines[engine].config])]
     \/ UNCHANGED engines
  /\ request' = Quiet
  /\ UNCHANGED <<handler, engine, mutex, registered>>

\* The first of the inputs has its result, and is gone.
ResultGiven(e) ==
  engines' = [engines EXCEPT ![e].inputs = Tail(@), ![e].thread = "works"]

\* Mutated: libwebrtc's callback is called with the mutex unlocked.
CallbackUnlocked(e) ==
  /\ UNCHANGED <<handler, engine, request, registered, mutex>>
  /\ engines[e].inputs # <<>>
  /\ \/ /\ engines[e].thread = "works"
        /\ \/ engines' = [engines EXCEPT ![e].thread = "waits"]
           \/ ResultGiven(e)
     \/ /\ engines[e].thread = "waits"
        /\ mutex = "free"
        /\ IF registered THEN engines' = [engines EXCEPT ![e].thread = "calls"]
           ELSE ResultGiven(e)
     \/ engines[e].thread = "calls" /\ ResultGiven(e)

\* The library's callback: of an error, nothing comes; for a result it waits for the mutex,
\* and calls libwebrtc's callback, if there is one, while it holds it.
CallbackOf(e) ==
  /\ UNCHANGED <<handler, engine, request, registered>>
  /\ engines[e].inputs # <<>>
  /\ \/ /\ engines[e].thread = "works"
        /\ \/ engines' = [engines EXCEPT ![e].thread = "waits"]
           \/ ResultGiven(e)
        /\ UNCHANGED mutex
     \/ /\ engines[e].thread = "waits"
        /\ mutex = "free"
        /\ IF registered
           THEN engines' = [engines EXCEPT ![e].thread = "calls"] /\ mutex' = e
           ELSE ResultGiven(e) /\ UNCHANGED mutex
     \/ /\ engines[e].thread = "calls"
        /\ ResultGiven(e)
        /\ mutex' = "free"

\* Another callback, or none.
RegisterWith ==
  /\ request.at = "idle"
  /\ mutex = "free"
  /\ registered' \in BOOLEAN
  /\ UNCHANGED <<handler, engine, request, mutex, engines>>

\* Mutated: the mutex is not unlocked before the engine is dropped.
ReleaseHolding(flags) ==
  /\ request.at \in {"idle", "failed"}
  /\ mutex = "free"
  /\ mutex' = "queue"
  /\ registered' = FALSE
  /\ engine' = Unset
  /\ handler' = flags
  /\ request' = [kind |-> "release", at |-> "drop", old |-> {engine} \ {Unset}]
  /\ UNCHANGED engines

\* release: the callback goes, the mutex is unlocked, and the engine is dropped.
ReleaseTo(flags) ==
  /\ request.at \in {"idle", "failed"}
  /\ mutex = "free"
  /\ registered' = FALSE
  /\ engine' = Unset
  /\ handler' = flags
  /\ request' = [kind |-> "release", at |-> "drop", old |-> {engine} \ {Unset}]
  /\ UNCHANGED <<mutex, engines>>

\* set_rates: for the next frame.
RatesTo(rate) ==
  /\ request.at = "idle"
  /\ handler' = [handler EXCEPT !.rate = rate, !.reconfigure_needed = TRUE]
  /\ UNCHANGED <<engine, request, mutex, registered, engines>>

\* configure of a decoder builds an engine at once,
ConfigureDecoder ==
  /\ request.at = "idle"
  /\ Step("configure", "rebuild")
  /\ UNCHANGED <<handler, engine, mutex, registered, engines>>

\* decode only when there is none.
DecodeFrame ==
  /\ request.at = "idle"
  /\ mutex = "free"
  /\ registered
  /\ Step("decode", IF engine = Unset THEN "rebuild" ELSE "submit")
  /\ UNCHANGED <<handler, engine, mutex, registered, engines>>

-----------------------------------------------------------------------------
(* The encoder of nvcodec.rs                                               *)

Is(side, file) == handler.side = side /\ handler.file = file

NvCodecInitEncode == Is("encoder", "nvcodec") /\ \E s \in FrameSizes, r \in Rates : InitWith(s, r)
\* A frame of type Empty is left out before anything else.
NvCodecEncode == Is("encoder", "nvcodec") /\ \E s \in FrameSizes : EncodeAt(s)
NvCodecRebuildEncoder == Is("encoder", "nvcodec") /\ Rebuild
NvCodecReconfigureEncoder == Is("encoder", "nvcodec") /\ Reconfigure
NvCodecEncodeFrame == Is("encoder", "nvcodec") /\ GiveToEngine
NvCodecEncodeCallback(e) == Is("encoder", "nvcodec") /\ CallbackOf(e)
NvCodecRegisterEncode == Is("encoder", "nvcodec") /\ RegisterWith
\* The flags stay as they are.
NvCodecReleaseEncoder == Is("encoder", "nvcodec") /\ ReleaseTo(handler)
NvCodecSetRates == Is("encoder", "nvcodec") /\ \E r \in Rates : RatesTo(r)

-----------------------------------------------------------------------------
(* The encoder of vpl.rs                                                   *)

VplInitEncode == Is("encoder", "vpl") /\ \E s \in FrameSizes, r \in Rates : InitWith(s, r)
\* A frame of type Empty is encoded like any other.
VplEncode == Is("encoder", "vpl") /\ \E s \in FrameSizes : EncodeAt(s)
VplRebuildEncoder == Is("encoder", "vpl") /\ Rebuild
VplReconfigureEncoder == Is("encoder", "vpl") /\ Reconfigure
VplEncodeFrame == Is("encoder", "vpl") /\ GiveToEngine
VplEncodeCallback(e) == Is("encoder", "vpl") /\ CallbackOf(e)
VplRegisterEncode == Is("encoder", "vpl") /\ RegisterWith
VplReleaseEncoder == Is("encoder", "vpl") /\ ReleaseTo(handler)
VplSetRates == Is("encoder", "vpl") /\ \E r \in Rates : RatesTo(r)

-----------------------------------------------------------------------------
(* The encoder of amf.rs                                                   *)

AmfInitEncode == Is("encoder", "amf") /\ \E s \in FrameSizes, r \in Rates : InitWith(s, r)
AmfEncode == Is("encoder", "amf") /\ \E s \in FrameSizes : EncodeAt(s)
AmfRebuildEncoder == Is("encoder", "amf") /\ Rebuild
AmfReconfigureEncoder == Is("encoder", "amf") /\ Reconfigure
AmfEncodeFrame == Is("encoder", "amf") /\ GiveToEngine
AmfEncodeCallback(e) == Is("encoder", "amf") /\ CallbackOf(e)
AmfRegisterEncode == Is("encoder", "amf") /\ RegisterWith
\* The flags go with the encoder.
AmfReleaseEncoder ==
  /\ Is("encoder", "amf")
  /\ ReleaseTo([handler EXCEPT !.rebuild_needed = FALSE, !.reconfigure_needed = FALSE])
AmfSetRates == Is("encoder", "amf") /\ \E r \in Rates : RatesTo(r)

-----------------------------------------------------------------------------
(* The decoders                                                            *)

NvCodecConfigure == Is("decoder", "nvcodec") /\ ConfigureDecoder
NvCodecDecode == Is("decoder", "nvcodec") /\ DecodeFrame
NvCodecRebuildDecoder == Is("decoder", "nvcodec") /\ Rebuild
NvCodecDecodeFrame == Is("decoder", "nvcodec") /\ GiveToEngine
NvCodecDecodeCallback(e) == Is("decoder", "nvcodec") /\ CallbackOf(e)
NvCodecRegisterDecode == Is("decoder", "nvcodec") /\ RegisterWith
NvCodecReleaseDecoder == Is("decoder", "nvcodec") /\ ReleaseTo(handler)

VplConfigure == Is("decoder", "vpl") /\ ConfigureDecoder
VplDecode == Is("decoder", "vpl") /\ DecodeFrame
VplRebuildDecoder == Is("decoder", "vpl") /\ Rebuild
VplDecodeFrame == Is("decoder", "vpl") /\ GiveToEngine
VplDecodeCallback(e) == Is("decoder", "vpl") /\ CallbackOf(e)
VplRegisterDecode == Is("decoder", "vpl") /\ RegisterWith
VplReleaseDecoder == Is("decoder", "vpl") /\ ReleaseTo(handler)

AmfConfigure == Is("decoder", "amf") /\ ConfigureDecoder
AmfDecode == Is("decoder", "amf") /\ DecodeFrame
AmfRebuildDecoder == Is("decoder", "amf") /\ Rebuild
AmfDecodeFrame == Is("decoder", "amf") /\ GiveToEngine
AmfDecodeCallback(e) == Is("decoder", "amf") /\ CallbackOf(e)
AmfRegisterDecode == Is("decoder", "amf") /\ RegisterWith
AmfReleaseDecoder == Is("decoder", "amf") /\ ReleaseTo(handler)

\* The resolution that V4L2 keeps for its callback is left out.
V4l2Configure == Is("decoder", "v4l2") /\ ConfigureDecoder
V4l2Decode == Is("decoder", "v4l2") /\ DecodeFrame
V4l2RebuildDecoder == Is("decoder", "v4l2") /\ Rebuild
V4l2DecodeFrame == Is("decoder", "v4l2") /\ GiveToEngine
V4l2DecodeCallback(e) == Is("decoder", "v4l2") /\ CallbackOf(e)
V4l2RegisterDecode == Is("decoder", "v4l2") /\ RegisterWith
V4l2ReleaseDecoder == Is("decoder", "v4l2") /\ ReleaseTo(handler)

-----------------------------------------------------------------------------
\* Calls of libwebrtc.
CallOfWebRtc ==
  \/ NvCodecInitEncode \/ NvCodecEncode \/ NvCodecRegisterEncode \/ NvCodecReleaseEncoder
  \/ NvCodecSetRates
  \/ VplInitEncode \/ VplEncode \/ VplRegisterEncode \/ VplReleaseEncoder \/ VplSetRates
  \/ AmfInitEncode \/ AmfEncode \/ AmfRegisterEncode \/ AmfReleaseEncoder \/ AmfSetRates
  \/ NvCodecConfigure \/ NvCodecDecode \/ NvCodecRegisterDecode \/ NvCodecReleaseDecoder
  \/ VplConfigure \/ VplDecode \/ VplRegisterDecode \/ VplReleaseDecoder
  \/ AmfConfigure \/ AmfDecode \/ AmfRegisterDecode \/ AmfReleaseDecoder
  \/ V4l2Configure \/ V4l2Decode \/ V4l2RegisterDecode \/ V4l2ReleaseDecoder

\* What is left of a call.
HandlerNext ==
  \/ NvCodecRebuildEncoder \/ NvCodecReconfigureEncoder \/ NvCodecEncodeFrame
  \/ VplRebuildEncoder \/ VplReconfigureEncoder \/ VplEncodeFrame
  \/ AmfRebuildEncoder \/ AmfReconfigureEncoder \/ AmfEncodeFrame
  \/ NvCodecRebuildDecoder \/ NvCodecDecodeFrame
  \/ VplRebuildDecoder \/ VplDecodeFrame
  \/ AmfRebuildDecoder \/ AmfDecodeFrame
  \/ V4l2RebuildDecoder \/ V4l2DecodeFrame
  \/ Dropped

EngineNext(e) ==
  \/ NvCodecEncodeCallback(e) \/ VplEncodeCallback(e) \/ AmfEncodeCallback(e)
  \/ NvCodecDecodeCallback(e) \/ VplDecodeCallback(e) \/ AmfDecodeCallback(e)
  \/ V4l2DecodeCallback(e)

HardwareNext == CallOfWebRtc \/ HandlerNext \/ \E e \in Engines : EngineNext(e)

HardwareSpec == HardwareInit /\ [][HardwareNext]_hardwareVars

\* A call goes on when it may, and the library gives its results.
HardwareFairness ==
  /\ WF_hardwareVars(HandlerNext)
  /\ \A e \in Engines : WF_hardwareVars(EngineNext(e))

-----------------------------------------------------------------------------
(* Properties                                                              *)

\* Each variable holds a value of its type.
HardwareTypeOK ==
  /\ handler \in [file : Decoding, side : {"encoder", "decoder"},
                  size : FrameSizes \cup {Unset}, rate : Rates \cup {Unset},
                  rebuild_needed : BOOLEAN, reconfigure_needed : BOOLEAN]
  /\ engine \in Engines \cup {Unset}
  /\ request \in [kind : {"none", "init", "encode", "configure", "decode", "release"},
                  at : {"idle", "failed", "rebuild", "reconfigure", "drop", "submit"},
                  old : SUBSET Engines]
  /\ mutex \in {"free"} \cup Engines
  /\ registered \in BOOLEAN
  /\ engines \in [Engines -> [config : Configs, inputs : Seq(Inputs),
                              thread : {"works", "waits", "calls"}, open : BOOLEAN]]

\* Whatever comes between a change of size or rate and the next frame - rebuilds and
\* reconfigurations that fail, a release, another init_encode - no encoder is given a
\* frame of another size, or at another rate, than it is configured for.
FramesMeetTheirEngine ==
  \A e \in Engines : \A i \in DOMAIN engines[e].inputs :
    engines[e].inputs[i].needs = engines[e].inputs[i].meets

\* libwebrtc's callback is never in use when libwebrtc has taken it back: neither after
\* release nor after a register without one has returned.
CallbackIsRegistered ==
  \A e \in Engines : engines[e].thread = "calls" => registered

\* Each call of libwebrtc returns; with the mutex locked, the drop of an engine would not.
HandlerReturns == []<>(request.at \in {"idle", "failed"})
=============================================================================
