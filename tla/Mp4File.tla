------------------------------- MODULE Mp4File -------------------------------
(***************************************************************************)
(* What Mp4SampleReader::new accepts (src/video_codecs/mp4.rs, av1.rs and  *)
(* h264.rs): a file is a record with the samples of its video track, and   *)
(* a sample entry, a parameter set, an OBU or an SDP format is a record of *)
(* the fields the checks read.  A byte with flags, such as profile-iop, is *)
(* the set of the bits that are 1.  All errors are one: the file is        *)
(* refused.                                                                *)
(***************************************************************************)
EXTENDS Naturals, Sequences

LOCAL INSTANCE SequencesExt

CONSTANT None   \* Option::None

EveryIndex(s, Test(_)) == \A i \in DOMAIN s : Test(s[i])

-----------------------------------------------------------------------------
(* H.264: profile-level-id                                                 *)

\* H264_PROFILE_PATTERNS: the bits `mask` of profile-iop are exactly `value`.
H264ProfilePatterns == <<
  [profile |-> "ConstrainedBaseline", idc |-> 66, mask |-> {6, 3, 2, 1, 0}, value |-> {6}],
  [profile |-> "ConstrainedBaseline", idc |-> 77, mask |-> {7, 3, 2, 1, 0}, value |-> {7}],
  [profile |-> "ConstrainedBaseline", idc |-> 88, mask |-> {7, 6, 3, 2, 1, 0}, value |-> {7, 6}],
  [profile |-> "Baseline", idc |-> 66, mask |-> {6, 3, 2, 1, 0}, value |-> {}],
  [profile |-> "Baseline", idc |-> 88, mask |-> {7, 6, 3, 2, 1, 0}, value |-> {7}],
  [profile |-> "Main", idc |-> 77, mask |-> {7, 5, 3, 2, 1, 0}, value |-> {}],
  [profile |-> "High", idc |-> 100, mask |-> 0..7, value |-> {}],
  [profile |-> "ConstrainedHigh", idc |-> 100, mask |-> 0..7, value |-> {3, 2}],
  [profile |-> "PredictiveHigh444", idc |-> 244, mask |-> 0..7, value |-> {}] >>

\* The levels in the order of H264Level::capability_order.
H264Levels == <<"1", "1b", "1.1", "1.2", "1.3", "2", "2.1", "2.2", "3", "3.1",
                "3.2", "4", "4.1", "4.2", "5", "5.1", "5.2">>

CapabilityOrder(level) == CHOOSE i \in DOMAIN H264Levels : H264Levels[i] = level

\* level_idc of every level but 1b, which is 11 with constraint_set3_flag (bit 4).
LevelIdcs == <<10, 11, 11, 12, 13, 20, 21, 22, 30, 31, 32, 40, 41, 42, 50, 51, 52>>

\* parse_profile_level_id
ParseProfileLevelId(plid) ==
  LET levels == {i \in DOMAIN LevelIdcs :
                   /\ LevelIdcs[i] = plid.level
                   /\ plid.level = 11 => (H264Levels[i] = "1b") = (4 \in plid.iop)}
      row == SelectInSeq(H264ProfilePatterns,
               LAMBDA p : p.idc = plid.idc /\ plid.iop \cap p.mask = p.value)
  IN  IF levels = {} \/ row = 0 THEN None
      ELSE [profile |-> H264ProfilePatterns[row].profile,
            level |-> H264Levels[CHOOSE i \in levels : TRUE]]

-----------------------------------------------------------------------------
(* Sample entries                                                          *)

\* validated_nal_length_size
NalLengthSizeValid(lengthSizeMinusOne) == lengthSizeMinusOne \in {0, 1, 3}

\* The Avc1 branch of extract_track_info.  Header byte of a PPS: NAL type 8.
AvcEntryValid(e) ==
  /\ e.sps # <<>> /\ e.pps # <<>>
  /\ NalLengthSizeValid(e.lengthSizeMinusOne)
  /\ EveryIndex(e.sps, LAMBDA s : s.parses /\ s.plid = e.plid /\ s.size = e.size)
  /\ EveryIndex(e.pps, LAMBDA p : p.header # None /\ 7 \notin p.header
                                  /\ p.header \cap 0..4 = {3})
  /\ ParseProfileLevelId(e.plid) # None

EntryValid(e) ==
  CASE e.codec = "H264" -> AvcEntryValid(e)
    [] e.codec = "H265" -> NalLengthSizeValid(e.lengthSizeMinusOne)
    [] OTHER -> e.codec \in {"VP8", "VP9", "AV1"}

\* extract_track_info of a valid entry.  avcc_box is kept where mp4-rs can encode
\* it again: without its chroma extension only for Baseline, Main and Extended.
TrackInfo(e) ==
  [codec |-> e.codec, size |-> e.size,
   parameterSets |->
     CASE e.codec = "H264" -> e.sps \o e.pps
       [] e.codec = "H265" -> e.nalus
       [] OTHER -> <<>>,
   lengthSizeMinusOne |-> IF e.codec \in {"H264", "H265"} THEN e.lengthSizeMinusOne ELSE 3,
   av1 |-> IF e.codec = "AV1" THEN [header |-> e.header, configObus |-> e.configObus]
           ELSE None,
   h264 |-> IF e.codec = "H264"
              THEN [plid |-> e.plid,
                    box |-> IF e.chroma \/ e.plid.idc \in {66, 77, 88} THEN e ELSE None]
              ELSE None]

-----------------------------------------------------------------------------
(* AV1: configOBUs and the OBUs of the samples                             *)

IsHeader(obu) == obu.type = "SequenceHeader"
IsFrame(obu) == obu.type \in {"FrameHeader", "Frame"}
IsSignificant(obu) == obu.type \notin {"TemporalDelimiter", "Padding"}

\* sequence_header_matches_av1c, has_supported_operating_points
HeaderMatches(obu, config) ==
  obu.parses /\ obu.singleOperatingPoint /\ obu.header = config.header

\* A Sequence Header of configOBUs comes first, and only once.
ConfigObusValid(config) ==
  \A i \in DOMAIN config.configObus :
    IsHeader(config.configObus[i]) => i = 1 /\ HeaderMatches(config.configObus[i], config)

\* Mutated: anything may be sent before the Sequence Header.
SyncSampleLedByAny(obus, config) ==
  LET first == SelectInSeq(obus, IsFrame)
  IN  /\ \E i \in 1..first - 1 : IsHeader(obus[i])
      /\ obus[first].parses /\ obus[first].frame = "Key" /\ obus[first].show

\* What validate_av1_track asks of a sync sample.
SyncSampleValid(obus, config) ==
  LET first == SelectInSeq(obus, IsFrame)
      sent == config.configObus \o obus
      led == SelectInSeq(sent, IsSignificant)
  IN  /\ \E i \in 1..first - 1 : IsHeader(obus[i])
      /\ obus[first].parses /\ obus[first].frame = "Key" /\ obus[first].show
      /\ led # 0 /\ IsHeader(sent[led])

\* The OBUs of the coded video sequence that sample k belongs to, up to k.
CodedSequence(samples, k) ==
  UNION {ToSet(samples[i].obus) : i \in {i \in 1..k : \A j \in i + 1..k : ~samples[j].key}}

\* The Sequence Headers in force together are the same: those of the samples
\* that of configOBUs, if it is there, or that of their sync sample.
HeadersConsistent(samples, config) ==
  \A k \in DOMAIN samples :
    \A h, g \in ToSet(config.configObus) \cup CodedSequence(samples, k) :
      IsHeader(h) /\ IsHeader(g) => h.payload = g.payload

\* validate_av1_track
Av1TrackValid(samples, config) ==
  /\ ConfigObusValid(config)
  /\ samples[1].key
  /\ \A k \in DOMAIN samples :
       /\ EveryIndex(samples[k].obus, LAMBDA o : IsHeader(o) => HeaderMatches(o, config))
       /\ samples[k].key => SyncSampleValid(samples[k].obus, config)
  /\ HeadersConsistent(samples, config)

-----------------------------------------------------------------------------
(* Mp4SampleReader::new_inner and read_sample                              *)

VideoSamples(file) == SelectSeq(file, LAMBDA s : s.track = "video")

EntriesOf(samples) == {samples[i].entry : i \in DOMAIN samples} \ {None}

\* Mutated: a sample entry that changes along the track is not compared.
EntriesValidEach(samples) ==
  EntriesOf(samples) # {} /\ \A e \in EntriesOf(samples) : EntryValid(e)

\* Every sample entry is valid and says the same of the track.
EntriesConsistent(samples) ==
  LET entries == EntriesOf(samples)
  IN  /\ entries # {}
      /\ \A e, first \in entries : EntryValid(e) /\ TrackInfo(e) = TrackInfo(first)

\* What the first sample entry says.
TrackOf(file) ==
  LET samples == VideoSamples(file)
  IN  TrackInfo(samples[SelectInSeq(samples, LAMBDA s : s.entry # None)].entry)

Accepted(file) ==
  LET samples == VideoSamples(file)
  IN  /\ samples # <<>>
      /\ EntriesConsistent(samples)
      /\ EveryIndex(samples, LAMBDA s : ~s.compositionOffset /\ s.inFile)
      /\ TrackOf(file).codec = "AV1" => Av1TrackValid(samples, TrackOf(file).av1)

BigEndian(bytes) == FoldLeft(LAMBDA n, b : 256 * n + b, 0, bytes)

\* length_prefixed_nalu_to_annex_b: the units it puts behind start codes.
NalUnits(data, n) ==
  LET Units[offset \in 0..Len(data)] ==
        LET start == offset + n
            size == BigEndian(SubSeq(data, offset + 1, start))
        IN  IF start > Len(data) \/ start + size > Len(data) THEN <<>>
            ELSE <<SubSeq(data, start + 1, start + size)>> \o Units[start + size]
  IN  Units[0]

\* assemble_av1_encoded_sample_data
Assembled(obus, key, config) ==
  IF key THEN config.configObus \o obus ELSE obus

\* The data read_sample makes of sample i.
Payload(file, i) ==
  LET sample == VideoSamples(file)[i]
      info == TrackOf(file)
  IN  CASE info.codec \in {"H264", "H265"} ->
             (IF sample.key THEN info.parameterSets ELSE <<>>)
               \o NalUnits(sample.data, info.lengthSizeMinusOne + 1)
        [] info.codec = "AV1" -> Assembled(sample.obus, sample.key, info.av1)
        [] OTHER -> sample.data

-----------------------------------------------------------------------------
(* The format of the track and the formats of a receiver                   *)

\* required_sdp_format, av1_required_sdp_format, h264_required_sdp_format
RequiredFormat(info) ==
  CASE info.codec = "H264" -> [name |-> "H264", packetizationMode |-> 1, plid |-> info.h264.plid]
    [] info.codec = "AV1" -> [name |-> "AV1", profile |-> info.av1.header.profile,
                              level |-> info.av1.header.level, tier |-> info.av1.header.tier]
    [] OTHER -> [name |-> info.codec]

\* resolve_h264_incoming; a profile-level-id that is absent or not hex is None.
H264Resolves(required, incoming) ==
  LET offered == ParseProfileLevelId(required.plid)
      received == ParseProfileLevelId(incoming.plid)
  IN  /\ incoming.packetizationMode = 1
      /\ incoming.plid # None
      /\ received # None
      /\ received.profile = offered.profile
      /\ CapabilityOrder(received.level) >= CapabilityOrder(offered.level)

\* parse_av1_sdp_field: a field that is absent has its default; what is not a
\* number is refused like one that is too large.
Av1Field(value, default, max) ==
  CASE value = None -> default
    [] value # None /\ value <= max -> value
    [] OTHER -> None

\* resolve_av1_incoming
Av1Resolves(required, incoming) ==
  LET profile == Av1Field(incoming.profile, 0, 2)
      level == Av1Field(incoming.level, 5, 31)
      tier == Av1Field(incoming.tier, 0, 1)
  IN  /\ None \notin {profile, level, tier}
      /\ required.profile = profile
      /\ required.level <= level
      /\ required.tier <= tier

\* Mp4PassthroughVideoCodecCapability: is_supported, resolve_sdp_format and
\* create_video_encoder for an encoder of `incoming`.
EncoderFor(info, incoming) ==
  /\ incoming.name = info.codec
  /\ info.codec = "H264" => H264Resolves(RequiredFormat(info), incoming)
  /\ info.codec = "AV1" => Av1Resolves(RequiredFormat(info), incoming)
=============================================================================
