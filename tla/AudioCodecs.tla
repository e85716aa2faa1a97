----------------------------- MODULE AudioCodecs -----------------------------
(***************************************************************************)
(* Which implementation encodes and decodes which audio codec              *)
(* (src/audio_codec_preference.rs, src/audio_codec_capability.rs,          *)
(* src/audio_codec.rs, src/audio_codecs/internal.rs).  As VideoCodecs, but *)
(* a format is not resolved: what was negotiated is given to the           *)
(* implementation with all its parameters.                                 *)
(***************************************************************************)
EXTENDS Naturals, Sequences, FiniteSets, Lists

CONSTANT NoAudio

AudioCodecTypes == <<"opus", "ISAC", "G722", "PCMA", "PCMU">>

\* NewInternalAudio(listed): WebRTC's own factories, with the formats that they list for
\* each direction.
NewInternalAudio(listed) ==
  [implementation |-> "internal", encoder |-> listed.encoder, decoder |-> listed.decoder]

\* A codec is supported when some listed spec has exactly its name.
AudioIsSupported(capability, direction, codec) ==
  \E i \in DOMAIN capability[direction] : capability[direction][i].codec = codec

\* SdpAudioFormat::matches: the parameters are not compared.
Matching(specs, format) == Kept(specs, LAMBDA s : s.codec = format.codec)

\* query of InternalAudioCodecCapability: the encoder's information has the parameters
\* that were negotiated, the decoder's is that of the spec listed.
QueryInternal(capability, direction, format) ==
  LET specs == Matching(capability[direction], format)
  IN  IF specs = <<>> THEN NoAudio
      ELSE IF direction = "encoder" THEN format ELSE specs[1]

\* create_audio_encoder and create_audio_decoder of InternalAudioCodecCapability.
CreateAudio(capability, direction, format) ==
  IF Matching(capability[direction], format) = <<>> THEN NoAudio
  ELSE [implementation |-> capability.implementation, format |-> format]

-----------------------------------------------------------------------------
AudioPreference == INSTANCE CodecPreference
           WITH CodecTypes <- AudioCodecTypes, IsSupported <- AudioIsSupported, Nothing <- NoAudio

AudioNewFromCapability(capability) == AudioPreference!NewFromCapability(capability)
AudioFind(preference, direction, codec) == AudioPreference!Find(preference, direction, codec)
AudioGetOrAdd(preference, direction, codec, implementation) ==
  AudioPreference!GetOrAdd(preference, direction, codec, implementation)
AudioMerge(preference, other) == AudioPreference!Merge(preference, other)
FindAudioCapability(capabilities, implementation) ==
  AudioPreference!FindCapability(capabilities, implementation)
ValidateAudioCodecPreference(preference, capabilities) ==
  AudioPreference!Valid(preference, capabilities)

CollectAudioCodecSpecs(preference, capabilities, direction) ==
  LET Of(entry) ==
        LET capability == FindAudioCapability(capabilities, entry.implementation)
        IN  IF entry.direction # direction \/ capability = NoAudio THEN <<>>
            ELSE Matching(capability[direction], [codec |-> entry.codec])
      AddNew(specs, spec) ==
        IF spec \in ToSet(specs) THEN specs ELSE Append(specs, spec)
  IN  FoldLeft(AddNew, <<>>, FlattenSeq([i \in DOMAIN preference |-> Of(preference[i])]))

\* What a factory finds for a format: the implementation that its codec's entry names.
AudioImplementation(preference, capabilities, direction, format) ==
  LET entry == AudioFind(preference, direction, format.codec)
  IN  IF entry = NoAudio THEN NoAudio
      ELSE FindAudioCapability(capabilities, entry.implementation)

\* query_audio_encoder, is_supported_decoder
QueryByPreference(preference, capabilities, direction, format) ==
  LET capability == AudioImplementation(preference, capabilities, direction, format)
  IN  IF capability = NoAudio THEN NoAudio ELSE QueryInternal(capability, direction, format)

\* create of SoraAudioEncoderFactory and SoraAudioDecoderFactory.
CreateAudioByPreference(preference, capabilities, direction, format) ==
  LET capability == AudioImplementation(preference, capabilities, direction, format)
  IN  IF capability = NoAudio THEN NoAudio ELSE CreateAudio(capability, direction, format)
=============================================================================
