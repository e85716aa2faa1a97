----------------------------- MODULE VideoCodecs -----------------------------
(***************************************************************************)
(* Which implementation encodes and decodes which video codec              *)
(* (src/video_codec_preference.rs, src/video_codec_capability.rs,          *)
(* src/video_codec.rs and the capabilities of src/video_codecs/).  A       *)
(* capability is a record with the formats that it says it supports, and a *)
(* factory is what libwebrtc asks.                                         *)
(*                                                                         *)
(* A format is the name of a codec and a set of parameters.  MP4           *)
(* passthrough compares parameters by value: that is in Mp4File, and here  *)
(* a receiver that is good enough repeats the file's.                      *)
(***************************************************************************)
EXTENDS Naturals, Sequences, FiniteSets, Lists

CONSTANT NoVideo  \* Option::None, or an error

VideoCodecTypes == <<"VP8", "VP9", "H264", "H265", "AV1">>

Bare(codec) == [codec |-> codec, parameters |-> {}]

-----------------------------------------------------------------------------
(* Formats                                                                 *)

\* fuzzy_match_sdp_video_format: of the formats with that name, the first that shares
\* most parameters.
FuzzyMatch(formats, format) ==
  LET Shared(i) == Cardinality(formats[i].parameters \cap format.parameters)
      named == {i \in DOMAIN formats : formats[i].codec = format.codec}
      best == {i \in named : \A j \in named : Shared(j) <= Shared(i)}
  IN  IF named = {} THEN NoVideo
      ELSE formats[CHOOSE i \in best : \A j \in best : i <= j]

FormatsForCodec(codec) ==
  LET parameters == CASE codec = "H264" -> {"level-asymmetry-allowed", "packetization-mode"}
                      [] codec = "VP9" -> {"profile-id"}
                      [] OTHER -> {}
  IN  <<[codec |-> codec, parameters |-> parameters]>>

\* A vendor's library says for each codec it names whether the device supports it.
CollectFormats(named, supported) ==
  FlattenSeq([i \in DOMAIN named |->
    IF named[i] \in supported THEN FormatsForCodec(named[i]) ELSE <<>>])

NvCodecFormats(supported) == CollectFormats(<<"H264", "H265", "AV1", "VP8", "VP9">>, supported)
VplFormats(supported) == CollectFormats(<<"H264", "H265", "VP9", "AV1">>, supported)
AmfFormats(supported) == CollectFormats(<<"H264", "H265", "AV1">>, supported)
V4l2Formats == FormatsForCodec("H264")
Openh264Formats == FormatsForCodec("H264")

\* encoder_codec_config and decoder_codec: the codecs a handler can set its library up
\* for, once it is given a size or its settings.
NvCodecConfigs == [encoder |-> {"H264", "H265", "AV1"},
                   decoder |-> {"H264", "H265", "AV1", "VP8", "VP9"}]
VplConfigs == [encoder |-> {"H264", "H265", "VP9", "AV1"},
               decoder |-> {"H264", "H265", "VP9", "AV1"}]
AmfConfigs == [encoder |-> {"H264", "H265", "AV1"}, decoder |-> {"H264", "H265", "AV1"}]

-----------------------------------------------------------------------------
(* Capabilities                                                            *)

Capability(implementation, encoder, decoder) ==
  [implementation |-> implementation, encoder |-> encoder, decoder |-> decoder]

\* A constructor that may be refused: it fails, or there is none on this device.
Unless(refused, value) == IF refused THEN NoVideo ELSE value

\* The constructors.  A device is the formats or the codecs that it supports in each
\* direction; NoVideo when it cannot be opened.
NewInternal(device) == Capability("internal", device.encoder, device.decoder)
NewInternalApple(device) ==
  Unless(device = NoVideo, Capability("internal-apple", device.encoder, device.decoder))
NewNvCodec(device) ==
  Unless(device = NoVideo \/ device.encoder \cup device.decoder = {},
         Capability("nvcodec", NvCodecFormats(device.encoder), NvCodecFormats(device.decoder)))
NewVpl(device) ==
  Unless(device = NoVideo \/ device.encoder \cup device.decoder = {},
         Capability("vpl", VplFormats(device.encoder), VplFormats(device.decoder)))
NewAmf(device) ==
  Unless(device = NoVideo \/ device.encoder \cup device.decoder = {},
         Capability("amf", AmfFormats(device.encoder), AmfFormats(device.decoder)))
NewV4l2(device) ==
  Unless(device = NoVideo, Capability("v4l2", V4l2Formats, V4l2Formats))
NewOpenh264(device) ==
  Unless(device = NoVideo \/ device.encoder = {} \/ device.decoder = {},
         Capability("openh264", Openh264Formats, Openh264Formats))
NewPassthrough(required) == Capability("mp4-passthrough", <<required>>, <<>>)

IsPassthrough(capability) == capability.implementation = "mp4-passthrough"

\* resolve_sdp_format.  Of a passthrough of H.264 or AV1 the receiver must be good enough
\* for the file: EncoderFor of Mp4File.
ResolveSdpFormat(capability, direction, format) ==
  LET required == capability.encoder[1]
  IN  IF /\ IsPassthrough(capability) /\ direction = "encoder"
         /\ required.codec \in {"H264", "AV1"}
        THEN Unless(format.codec # required.codec \/ ~(required.parameters \subseteq format.parameters),
                    IF required.codec = "H264" THEN format ELSE required)
        ELSE FuzzyMatch(capability[direction], format)

\* is_supported, which the passthrough overrides.
IsSupported(capability, direction, codec) ==
  IF IsPassthrough(capability) THEN direction = "encoder" /\ codec = capability.encoder[1].codec
  ELSE ResolveSdpFormat(capability, direction, Bare(codec)) # NoVideo

\* What is made, once or for each stream of the simulcast adapter: by which implementation,
\* and for which codec.
Made(capability, codec) == [implementation |-> capability.implementation, codec |-> codec]

\* A handler of a vendor that is made for a codec without a configuration fails when it
\* is initialized.
MadeIf(configured, capability, codec) == Unless(~configured, Made(capability, codec))

\* libwebrtc's own factories make what they list.
CreateInternal(capability, direction, format) ==
  MadeIf(format \in ToSet(capability[direction]), capability, format.codec)
CreateNvCodec(capability, direction, format) ==
  MadeIf(format.codec \in NvCodecConfigs[direction], capability, format.codec)
CreateVpl(capability, direction, format) ==
  MadeIf(format.codec \in VplConfigs[direction], capability, format.codec)
CreateAmf(capability, direction, format) ==
  MadeIf(format.codec \in AmfConfigs[direction], capability, format.codec)
CreateV4l2(capability, direction, format) ==
  MadeIf(direction = "decoder" \/ format.codec = "H264", capability, "H264")
CreateOpenh264(capability, direction, format) ==
  MadeIf(format.codec = "H264", capability, "H264")
CreatePassthrough(capability, direction, format) ==
  MadeIf(direction = "encoder" /\ format.codec = capability.encoder[1].codec,
         capability, format.codec)

\* create_video_encoder and create_video_decoder of a capability.
CreateVideo(capability, direction, format) ==
  CASE capability.implementation \in {"internal", "internal-apple"} ->
         CreateInternal(capability, direction, format)
    [] capability.implementation = "nvcodec" -> CreateNvCodec(capability, direction, format)
    [] capability.implementation = "vpl" -> CreateVpl(capability, direction, format)
    [] capability.implementation = "amf" -> CreateAmf(capability, direction, format)
    [] capability.implementation = "v4l2" -> CreateV4l2(capability, direction, format)
    [] capability.implementation = "openh264" -> CreateOpenh264(capability, direction, format)
    [] IsPassthrough(capability) -> CreatePassthrough(capability, direction, format)

-----------------------------------------------------------------------------
(* Preferences and factories                                               *)

Preference == INSTANCE CodecPreference WITH CodecTypes <- VideoCodecTypes, Nothing <- NoVideo

NewFromCapability(capability) == Preference!NewFromCapability(capability)
Find(preference, direction, codec) == Preference!Find(preference, direction, codec)
GetOrAdd(preference, direction, codec, implementation) ==
  Preference!GetOrAdd(preference, direction, codec, implementation)
Merge(preference, other) == Preference!Merge(preference, other)
FindCapability(capabilities, implementation) ==
  Preference!FindCapability(capabilities, implementation)
ValidateVideoCodecPreference(preference, capabilities) ==
  Preference!Valid(preference, capabilities)

\* Mutated: whatever the implementation of an entry supports is listed.
ListsWhatItCan(preference, capabilities, direction) ==
  LET Of(entry) ==
        LET capability == FindCapability(capabilities, entry.implementation)
        IN  IF entry.direction # direction \/ capability = NoVideo THEN <<>>
            ELSE capability[direction]
      AddNew(formats, format) ==
        IF format \in ToSet(formats) THEN formats ELSE Append(formats, format)
  IN  FoldLeft(AddNew, <<>>, FlattenSeq([i \in DOMAIN preference |-> Of(preference[i])]))

CollectSupportedFormats(preference, capabilities, direction) ==
  LET Of(entry) ==
        LET capability == FindCapability(capabilities, entry.implementation)
        IN  IF entry.direction # direction \/ capability = NoVideo THEN <<>>
            ELSE Kept(capability[direction], LAMBDA f : f.codec = entry.codec)
      AddNew(formats, format) ==
        IF format \in ToSet(formats) THEN formats ELSE Append(formats, format)
  IN  FoldLeft(AddNew, <<>>, FlattenSeq([i \in DOMAIN preference |-> Of(preference[i])]))

\* create of SoraVideoEncoderFactory and SoraVideoDecoderFactory.
CreateByPreference(preference, capabilities, direction, format) ==
  LET entry == Find(preference, direction, format.codec)
      capability == FindCapability(capabilities, entry.implementation)
      resolved == ResolveSdpFormat(capability, direction, format)
  IN  IF entry = NoVideo \/ capability = NoVideo \/ resolved = NoVideo THEN NoVideo
      ELSE CreateVideo(capability, direction, resolved)
=============================================================================
