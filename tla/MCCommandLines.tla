---------------------------- MODULE MCCommandLines ----------------------------
(***************************************************************************)
(* Machines that sumomo may run on and command lines for it.  Of two Linux *)
(* machines one has devices that support different codecs in the two       *)
(* directions, and one has devices that support next to nothing; the third *)
(* has Apple's codecs.  libwebrtc's own factories list a codec more than   *)
(* once, with other parameters.                                            *)
(***************************************************************************)
EXTENDS CodecSelection, TLC

SdpFormat(codec, parameters) == [codec |-> codec, parameters |-> parameters]
Supporting(encoder, decoder) == [encoder |-> encoder, decoder |-> decoder]

BuiltIn ==
  <<SdpFormat("VP8", {}), SdpFormat("VP9", {"profile-id"}), SdpFormat("VP9", {"profile-id", "2"}),
    SdpFormat("H264", {"packetization-mode"}), SdpFormat("H264", {"packetization-mode", "42"}),
    SdpFormat("AV1", {})>>
AppleFormats == <<SdpFormat("H264", {"packetization-mode", "42"}), SdpFormat("H265", {})>>
AudioSpecs == <<SdpFormat("opus", {"useinbandfec"}), SdpFormat("G722", {}), SdpFormat("PCMU", {})>>

Machine(platform, features, others) ==
  [platform |-> platform,
   features |-> features,
   devices |-> others @@ [i \in {Implementations[n] : n \in DOMAIN Implementations} |->
                  IF i = "internal" THEN Supporting(BuiltIn, BuiltIn) ELSE NoVideo],
   audio |-> Supporting(AudioSpecs, Append(AudioSpecs, SdpFormat("opus", {})))]

MCMachines ==
  {Machine("linux", {"nvcodec", "vpl", "libcamera"},
     "nvcodec" :> Supporting({"H264", "H265", "AV1"}, {"H264", "H265", "AV1", "VP8", "VP9"})
       @@ "vpl" :> Supporting({"H264", "VP9"}, {"H264", "AV1"})
       @@ "openh264" :> Supporting({"H264"}, {"H264"})),
   Machine("linux", {"amf", "v4l2"},
     "amf" :> Supporting({}, {"H265"})
       @@ "v4l2" :> Supporting({"H264"}, {"H264"})
       @@ "openh264" :> Supporting({"H264"}, {})),
   Machine("apple", {"media-device"},
     "internal-apple" :> Supporting(AppleFormats, AppleFormats)
       @@ "openh264" :> Supporting({"H264"}, {"H264"}))}

MCImplementations ==
  {AutoSelection, <<"internal">>, <<"internal", "nvcodec", "vpl">>, <<"vpl", "nvcodec", "internal">>,
   <<"amf", "v4l2">>, <<"internal", "openh264">>, <<"internal-apple", "internal">>,
   <<"auto", "vpl">>, <<"vpl", "vpl">>, <<"openh264", "amf">>}
MCSent ==
  {NoVideo, SdpFormat("H264", {"packetization-mode", "64"}), SdpFormat("VP9", {}),
   SdpFormat("H265", {})}
MCOptions ==
  {{"client-cert"}, {"client-cert", "client-key"}, {"libcamera-native"},
   {"libcamera"}, {"libcamera", "libcamera-control"}, {"libcamera", "video-input-device"},
   {"video-input-device"}}
MCVideo == {{}, {"recvonly"}, {"video-true"}, {"video-false"}, {"recvonly", "video-true"}}

MCArguments ==
  [implementations : MCImplementations, mp4 : MCSent, options : {{}, {"openh264-path"}},
   codecType : {NoVideo}]
    \cup [implementations : {AutoSelection}, mp4 : {NoVideo, SdpFormat("VP9", {})}, options : MCOptions,
          codecType : {NoVideo}]
    \cup [implementations : {AutoSelection}, mp4 : MCSent, options : MCVideo, codecType : {NoVideo, "H264"}]
=============================================================================
