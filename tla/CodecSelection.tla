---------------------------- MODULE CodecSelection ----------------------------
(***************************************************************************)
(* From sumomo's command line to the codecs of a SoraConnectionContext     *)
(* (examples/sumomo/src/args.rs, main.rs and video_codec_list.rs,          *)
(* src/connection_context.rs): the arguments are checked, a capability is  *)
(* added for each implementation named, MP4 passthrough takes the          *)
(* encoders, and the context refuses a preference that no capability can   *)
(* keep.  An application of the SDK may also write its own preference.     *)
(***************************************************************************)
EXTENDS VideoCodecs, AudioCodecs

CONSTANTS Machines,   \* platform, features and devices that sumomo may find
          Arguments   \* command lines

VARIABLES machine,
          args,
          step,       \* up to a context for sumomo, or one as an application edited it
          remaining,  \* the implementations named that are still to be added
          config,     \* SoraConnectionContextConfig
          connect     \* what sumomo gives to the builder of its connection

selectionVars == <<machine, args, step, remaining, config, connect>>

Implementations == <<"internal", "internal-apple", "amf", "nvcodec", "vpl", "v4l2", "openh264">>
Vendors == {"amf", "nvcodec", "vpl", "v4l2"}
AutoSelection == <<"auto">>
Steps == {"typed", "checked", "adding", "built", "edited", "created", "created edited", "connecting",
          "refused"}
NoConnect == [video |-> Bare("absent"), capturer |-> "none"]

ImplementationNames == ToSet(Implementations) \cup {"mp4-passthrough"}

\* What is listed for a direction is a Vec, of formats with finitely many parameters.
AreFormats(formats) ==
  /\ formats \in Seq(ToSet(formats))
  /\ \A f \in ToSet(formats) : IsFiniteSet(f.parameters) /\ f # NoVideo

\* Of the encoders NVENC has none for VP8 and VP9 (nvcodec.rs:658), and the format of an
\* H.264 file names its profile; a list is a Vec, and None is no value.
ASSUME SelectionAssumption ==
  /\ \A m \in Machines :
       /\ m.devices["internal"] # NoVideo /\ NewInternal(m.devices["internal"]) # NoVideo
       /\ \A d \in {"encoder", "decoder"} :
            /\ \A n \in {"internal", "internal-apple"} :
                 m.devices[n] # NoVideo => AreFormats(m.devices[n][d])
            /\ m.audio[d] \in Seq(ToSet(m.audio[d])) /\ NoAudio \notin ToSet(m.audio[d])
       /\ m.devices["nvcodec"] # NoVideo => m.devices["nvcodec"].encoder \cap {"VP8", "VP9"} = {}
  /\ \A a \in Arguments :
       /\ a.implementations \in Seq(ToSet(a.implementations))
       /\ a.codecType \in {NoVideo} \cup ToSet(VideoCodecTypes)
       /\ a.mp4 # NoVideo =>
            /\ AreFormats(<<a.mp4>>) /\ a.mp4.codec \in ToSet(VideoCodecTypes)
            /\ a.mp4.codec = "H264" => a.mp4.parameters \ {"packetization-mode"} # {}
  /\ \A i \in DOMAIN VideoCodecTypes : AreFormats(FormatsForCodec(VideoCodecTypes[i]))
  /\ NoVideo \notin [implementation : ImplementationNames, codec : ToSet(VideoCodecTypes)]
  /\ {NoVideo, NoAudio} \cap [direction : {"encoder", "decoder"},
                              codec : ToSet(VideoCodecTypes) \cup ToSet(AudioCodecTypes),
                              implementation : ImplementationNames] = {}

SelectionTypeOK ==
  /\ machine \in Machines /\ args \in Arguments
  /\ step \in Steps
  /\ DOMAIN connect = {"video", "capturer"}
  /\ ToSet(remaining) \subseteq ToSet(Implementations)
  /\ DOMAIN config = {"preference", "capabilities", "audioPreference", "audioCapabilities"}
  /\ \A entry \in ToSet(config.preference) \cup ToSet(config.audioPreference) :
       DOMAIN entry = {"direction", "codec", "implementation"}
  /\ \A capability \in ToSet(config.capabilities) \cup ToSet(config.audioCapabilities) :
       DOMAIN capability = {"implementation", "encoder", "decoder"}

SelectionInit ==
  /\ machine \in Machines
  /\ args \in Arguments
  /\ step = "typed"
  /\ remaining = <<>>
  /\ config = [preference |-> <<>>, capabilities |-> <<>>,
               audioPreference |-> <<>>, audioCapabilities |-> <<>>]
  /\ connect = NoConnect

-----------------------------------------------------------------------------
(* Arguments                                                               *)

\* VideoCodecImplementationSelections::parse of a list of names.
Parses(names) ==
  \/ names = AutoSelection
  \/ ToSet(names) \subseteq ToSet(Implementations) /\ IsInjective(names)

Names(implementation) ==
  args.implementations # AutoSelection /\ implementation \in ToSet(args.implementations)

ValidArgs ==
  /\ ("client-cert" \in args.options) = ("client-key" \in args.options)
  /\ args.mp4 = NoVideo \/ args.codecType = NoVideo
  /\ Names("openh264") = ("openh264-path" \in args.options)
  /\ {"libcamera-control", "libcamera-native"} \cap args.options # {} => "libcamera" \in args.options
  /\ "libcamera" \in args.options =>
       /\ "libcamera" \in machine.features
       /\ ~("media-device" \in machine.features /\ "video-input-device" \in args.options)
  /\ \A v \in Vendors : Names(v) => v \in machine.features

Refuse == step' = "refused" /\ UNCHANGED <<machine, args, remaining, config, connect>>

CheckArguments ==
  /\ step = "typed"
  /\ IF Parses(args.implementations) /\ ValidArgs
       THEN step' = "checked" /\ UNCHANGED <<machine, args, remaining, config, connect>>
       ELSE Refuse

-----------------------------------------------------------------------------
(* The configuration                                                       *)

\* add_video_codec_capability
Added(c, capability) ==
  [c EXCEPT !.preference = Merge(@, NewFromCapability(capability)),
            !.capabilities = Append(@, capability)]

WithAudio(c) ==
  LET internal == NewInternalAudio(machine.audio)
  IN  [c EXCEPT !.audioPreference = AudioMerge(<<>>, AudioNewFromCapability(internal)),
                !.audioCapabilities = <<internal>>]

\* The capability of an implementation, or NoVideo where it is not built or not available.
NewCapability(implementation) ==
  LET device == machine.devices[implementation]
      built == implementation \in Vendors => implementation \in machine.features
  IN  IF ~built THEN NoVideo
      ELSE CASE implementation = "internal" -> NewInternal(device)
             [] implementation = "internal-apple" ->
                  IF machine.platform = "apple" THEN NewInternalApple(device) ELSE NoVideo
             [] implementation = "amf" -> NewAmf(device)
             [] implementation = "nvcodec" -> NewNvCodec(device)
             [] implementation = "vpl" -> NewVpl(device)
             [] implementation = "v4l2" -> NewV4l2(device)
             [] implementation = "openh264" ->
                  IF "openh264-path" \in args.options THEN NewOpenh264(device) ELSE NoVideo

\* Default of SoraConnectionContextConfig.
Default ==
  LET internal == Added(WithAudio(config), NewCapability("internal"))
      apple == NewCapability("internal-apple")
  IN  IF apple = NoVideo THEN internal ELSE Added(internal, apple)

\* build_context_config
Begin ==
  /\ step = "checked"
  /\ step' = "adding"
  /\ IF args.implementations = AutoSelection
       THEN remaining' = <<>> /\ config' = Default
       ELSE remaining' = args.implementations /\ config' = WithAudio(config)
  /\ UNCHANGED <<machine, args, connect>>

AddSelected ==
  /\ step = "adding" /\ remaining # <<>>
  /\ LET capability == NewCapability(Head(remaining))
     IN  IF capability = NoVideo THEN Refuse
         ELSE /\ config' = Added(config, capability)
              /\ remaining' = Tail(remaining)
              /\ UNCHANGED <<machine, args, step, connect>>

\* Mutated: the encoders of the other implementations stay.
AddPassthroughOnly ==
  /\ step = "adding" /\ remaining = <<>>
  /\ step' = "built"
  /\ config' = IF args.mp4 = NoVideo THEN config ELSE Added(config, NewPassthrough(args.mp4))
  /\ UNCHANGED <<machine, args, remaining, connect>>

\* Of the encoders only the passthrough's stay.
AddPassthrough ==
  /\ step = "adding" /\ remaining = <<>>
  /\ step' = "built"
  /\ LET added == Added(config, NewPassthrough(args.mp4))
     IN  config' = IF args.mp4 = NoVideo THEN config
                   ELSE [added EXCEPT !.preference = Kept(@,
                           LAMBDA e : e.direction = "decoder" \/ e.implementation = "mp4-passthrough")]
  /\ UNCHANGED <<machine, args, remaining, connect>>

\* An application that uses the SDK without sumomo: it asks for an entry and sets its
\* implementation, appends an entry, or gives a capability twice.
Edits(direction, codec, implementation) ==
  LET c == config
      gotten == GetOrAdd(c.preference, direction, codec, implementation)
      set == Preference!FindMut(gotten, direction, codec)
  IN  {[c EXCEPT !.preference = [gotten EXCEPT ![set].implementation = implementation]],
       [c EXCEPT !.preference = Append(@, Preference!Entry(direction, codec, implementation))],
       [c EXCEPT !.capabilities = @ \o @]}

AudioEdits(direction, codec, implementation) ==
  {[config EXCEPT !.audioPreference = AudioGetOrAdd(@, direction, codec, implementation)],
   [config EXCEPT !.audioPreference = AudioMerge(@, <<Preference!Entry(direction, codec, implementation)>>)]}

ApplicationEdits ==
  /\ step = "built"
  /\ step' = "edited"
  /\ \E direction \in {"encoder", "decoder"}, implementation \in {"internal", "nvcodec", "openh264"} :
       \/ \E codec \in {"Generic", "VP8", "H264", "AV1"} :
            config' \in Edits(direction, codec, implementation)
       \/ \E codec \in {"opus", "ISAC"} : config' \in AudioEdits(direction, codec, implementation)
  /\ UNCHANGED <<machine, args, remaining, connect>>

\* new_with_config.  What it builds - threads, the audio device, the factories - may fail
\* as well.
NewContext ==
  /\ step \in {"built", "edited"}
  /\ \/ /\ ValidateVideoCodecPreference(config.preference, config.capabilities)
        /\ ValidateAudioCodecPreference(config.audioPreference, config.audioCapabilities)
        /\ step' = IF step = "built" THEN "created" ELSE "created edited"
        /\ UNCHANGED <<machine, args, remaining, config, connect>>
     \/ Refuse

-----------------------------------------------------------------------------
(* The connection                                                          *)

WantsSend == "recvonly" \notin args.options
VideoEnabled == "video-false" \notin args.options

\* h264_params_from_mp4_passthrough: the profile that the file's format names.
H264Params == IF args.mp4.codec = "H264" THEN args.mp4.parameters \ {"packetization-mode"} ELSE {}

\* Mutated: who receives only asks for the file's codec, too.
VideoOfAnyRole ==
  CASE ~VideoEnabled -> Bare("false")
    [] VideoEnabled /\ args.mp4 # NoVideo -> [codec |-> args.mp4.codec, parameters |-> H264Params]
    [] VideoEnabled /\ args.mp4 = NoVideo /\ args.codecType # NoVideo -> Bare(args.codecType)
    [] OTHER -> Bare(IF "video-true" \in args.options THEN "true" ELSE "absent")

\* apply_video_options: the codec of the file that is sent, or the one asked for.
Video ==
  LET sends == WantsSend /\ args.mp4 # NoVideo
  IN  CASE ~VideoEnabled -> Bare("false")
        [] VideoEnabled /\ sends -> [codec |-> args.mp4.codec, parameters |-> H264Params]
        [] VideoEnabled /\ ~sends /\ args.codecType # NoVideo -> Bare(args.codecType)
        [] OTHER -> Bare(IF "video-true" \in args.options THEN "true" ELSE "absent")

\* attach_sender_tracks, create_video_capturer
Capturer ==
  CASE ~(WantsSend /\ VideoEnabled) -> "none"
    [] WantsSend /\ VideoEnabled /\ args.mp4 # NoVideo -> "mp4"
    [] OTHER -> IF "libcamera" \in args.options THEN "libcamera"
                ELSE IF "media-device" \in machine.features /\ "video-input-device" \in args.options
                THEN "device"
                ELSE "fake"

\* build_and_run_connection after the context; what it opens may fail.
BuildConnection ==
  /\ step = "created"
  /\ \/ /\ step' = "connecting"
        /\ connect' = [video |-> Video, capturer |-> Capturer]
        /\ UNCHANGED <<machine, args, remaining, config>>
     \/ Refuse

SelectionNext ==
  CheckArguments \/ Begin \/ AddSelected \/ AddPassthrough \/ ApplicationEdits \/ NewContext
    \/ BuildConnection

SelectionSpec == SelectionInit /\ [][SelectionNext]_selectionVars

-----------------------------------------------------------------------------
(* --video-codec-list                                                      *)

HasAnyCodecSupport(capability) ==
  \E i \in DOMAIN VideoCodecTypes, d \in {"encoder", "decoder"} :
    IsSupported(capability, d, VideoCodecTypes[i])

\* What probing finds, and whether the arguments select it.
Probe(implementation) ==
  LET capability == NewCapability(implementation)
      usable == Unless(capability = NoVideo \/ ~HasAnyCodecSupport(capability), capability)
  IN  [implementation |-> implementation,
       capability |-> IF implementation = "internal" THEN capability ELSE usable,
       selected |-> \/ Names(implementation)
                    \/ /\ args.implementations = AutoSelection
                       /\ \/ implementation = "internal"
                          \/ implementation = "internal-apple" /\ usable # NoVideo]

Probes == [i \in DOMAIN Implementations |-> Probe(Implementations[i])]

SelectedImplementations ==
  IF args.implementations # AutoSelection THEN args.implementations
  ELSE IF Probe("internal-apple").capability = NoVideo THEN <<"internal">>
  ELSE <<"internal", "internal-apple">>

\* collect_video_codec_preference_report: the entries that it shows.
PreferenceReport ==
  LET Reported(preference, probe) ==
        IF probe.capability = NoVideo THEN preference
        ELSE Merge(preference, NewFromCapability(probe.capability))
  IN  FoldLeft(Reported, <<>>,
               [i \in DOMAIN SelectedImplementations |-> Probe(SelectedImplementations[i])])

-----------------------------------------------------------------------------
(* Properties                                                              *)

\* Each format that a created context offers to libwebrtc is one that its factories can
\* make, by the implementation that its preference names for the codec and for that codec;
\* no format is offered twice, and every entry of the preference is offered in some format.
AdvertisedIsMade ==
  step \in {"created", "created edited"} =>
    \A direction \in {"encoder", "decoder"} :
      LET formats == CollectSupportedFormats(config.preference, config.capabilities, direction)
      IN  /\ IsInjective(formats)
          /\ \A i \in DOMAIN formats :
               LET made == CreateByPreference(config.preference, config.capabilities,
                                              direction, formats[i])
               IN  /\ made # NoVideo
                   /\ made.codec = formats[i].codec
                   /\ Preference!Entry(direction, made.codec, made.implementation)
                        \in ToSet(config.preference)
          /\ \A e \in ToSet(config.preference) : e.direction = direction =>
               \E i \in DOMAIN formats : formats[i].codec = e.codec

\* The same of audio, whose encoders and decoders get the format with its parameters.
AudioAdvertisedIsMade ==
  step \in {"created", "created edited"} =>
    \A direction \in {"encoder", "decoder"} :
      LET Of(F(_, _, _, _), format) ==
            F(config.audioPreference, config.audioCapabilities, direction, format)
          specs == CollectAudioCodecSpecs(config.audioPreference, config.audioCapabilities, direction)
      IN  /\ \A i \in DOMAIN specs :
               /\ Of(QueryByPreference, specs[i]) # NoAudio
               /\ Of(CreateAudioByPreference, specs[i]) = [implementation |-> "internal", format |-> specs[i]]
          /\ \A e \in ToSet(config.audioPreference) : e.direction = direction =>
               \E i \in DOMAIN specs : specs[i].codec = e.codec

\* What was built is what the command line says: a codec is decoded by the implementation
\* named last of those that can, and encoded by that one too unless an MP4 file is sent,
\* whose passthrough is then the only encoder; --video-codec-list shows just that, and marks
\* the implementations that it comes from.
SelectionIsAsTold ==
  step = "built" =>
    LET Able(i, direction, codec) ==
          IsSupported(NewCapability(SelectedImplementations[i]), direction, codec)
        Chosen(direction, codec) ==
          {Preference!Entry(direction, codec, SelectedImplementations[i]) :
             i \in {i \in DOMAIN SelectedImplementations :
                     /\ Able(i, direction, codec)
                     /\ \A j \in DOMAIN SelectedImplementations :
                          j > i => ~Able(j, direction, codec)}}
        All(direction) ==
          UNION {Chosen(direction, codec) : codec \in ToSet(VideoCodecTypes)}
    IN  /\ \A i \in DOMAIN Probes :
             Probes[i].selected <=> Implementations[i] \in ToSet(SelectedImplementations)
        /\ ToSet(PreferenceReport) = All("encoder") \cup All("decoder")
        /\ ToSet(config.preference) =
             IF args.mp4 = NoVideo THEN ToSet(PreferenceReport)
             ELSE All("decoder")
                    \cup {Preference!Entry("encoder", args.mp4.codec, "mp4-passthrough")}

\* A connection asks for what its capturer and its encoders are about to send: with an MP4
\* file for the codec, and of H.264 the profile, of the one format that can be encoded, and
\* with the file's capturer; who only receives asks for the codec of the command line alone.
ConnectAsksForWhatIsSent ==
  step = "connecting" =>
    LET encoded == CollectSupportedFormats(config.preference, config.capabilities, "encoder")
    IN  /\ connect.capturer = "mp4" <=>
             args.mp4 # NoVideo /\ connect.capturer # "none"
        /\ connect.capturer = "mp4" =>
             /\ Len(encoded) = 1
             /\ connect.video.codec = encoded[1].codec
             /\ connect.video.parameters \subseteq encoded[1].parameters
             /\ encoded[1].codec = "H264" => connect.video.parameters # {}
        /\ connect.capturer # "mp4" /\ args.codecType = NoVideo =>
             connect.video \in {Bare("absent"), Bare("true"), Bare("false")}
        /\ connect.video = Bare("false") => connect.capturer = "none"
=============================================================================
