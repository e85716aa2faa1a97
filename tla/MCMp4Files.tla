----------------------------- MODULE MCMp4Files -----------------------------
(***************************************************************************)
(* Small MP4 files, accepted and refused, and the formats of receivers.    *)
(***************************************************************************)
EXTENDS Mp4File

\* A video sample with the fields every codec has, and an audio sample.
Sample(key, entry) ==
  [track |-> "video", entry |-> entry, compositionOffset |-> FALSE, inFile |-> TRUE,
   key |-> key, data |-> <<>>, obus |-> <<>>]
Audio == [Sample(TRUE, None) EXCEPT !.track = "audio"]
Data(key, entry, data) == [Sample(key, entry) EXCEPT !.data = data]
Obus(key, entry, obus) == [Sample(key, entry) EXCEPT !.obus = obus]

\* H.264: levels 3.1 and 4 of Main, a Constrained Baseline, and one unknown.
Plid(idc, iop, level) == [idc |-> idc, iop |-> iop, level |-> level]
Main31 == Plid(77, {}, 31)
Main40 == Plid(77, {}, 40)
Baseline1b == Plid(66, {7, 6, 4}, 11)
Unknown == Plid(77, {}, 60)
Sps(plid) == [parses |-> TRUE, plid |-> plid, size |-> "hd"]
Pps == [header |-> {6, 5, 3}]
Avc(plid) == [codec |-> "H264", size |-> "hd", sps |-> <<Sps(plid)>>, pps |-> <<Pps>>,
              plid |-> plid, lengthSizeMinusOne |-> 0, chroma |-> FALSE]
High == [Avc(Plid(100, {}, 31)) EXCEPT !.chroma = TRUE]

\* Played in full: a GOP of three samples.
Played == <<Audio, Data(TRUE, Avc(Main31), <<1, 5>>), Data(FALSE, None, <<0>>),
            Data(FALSE, None, <<2, 7>>)>>

\* Entries of one sample.
AvcEntries ==
  {Avc(Main31), Avc(Baseline1b), Avc(Unknown), High,
   [Avc(Main31) EXCEPT !.sps = <<Sps(Main31), Sps(Main40)>>],
   [Avc(Main31) EXCEPT !.sps = <<>>],
   [Avc(Main31) EXCEPT !.pps = <<>>],
   [Avc(Main31) EXCEPT !.pps = <<[header |-> {7, 3}]>>],
   [Avc(Main31) EXCEPT !.pps = <<[header |-> None]>>],
   [Avc(Main31) EXCEPT !.lengthSizeMinusOne = 2],
   [Avc(Main31) EXCEPT !.lengthSizeMinusOne = 1]}

H264Files ==
  {<<Data(TRUE, e, <<1, 5>>)>> : e \in AvcEntries}
  \cup {<<Data(TRUE, e1, <<1, 5>>), Data(TRUE, e2, <<1, 5>>)>> :
          e1 \in {Avc(Main31), High}, e2 \in AvcEntries}
  \cup {<<[Data(TRUE, Avc(Main31), <<1, 5>>) EXCEPT !.compositionOffset = TRUE]>>,
        <<[Data(TRUE, Avc(Main31), <<1, 5>>) EXCEPT !.inFile = FALSE]>>,
        <<Data(TRUE, None, <<1, 5>>)>>, <<Audio>>}

\* H.265 with lengths of two bytes: all short samples over three byte values.
Hevc == [codec |-> "H265", size |-> "hd", nalus |-> <<"vps", "sps", "pps">>,
         lengthSizeMinusOne |-> 1]
Bytes == UNION {[1..n -> 0..2] : n \in 0..5}
H265Files == {<<Data(TRUE, Hevc, b)>> : b \in Bytes}

\* AV1: Sequence Headers of two payloads and one that is not the track's.
Fields(profile) == [profile |-> profile, level |-> 8, tier |-> 0]
Header(payload) == [type |-> "SequenceHeader", parses |-> TRUE, payload |-> payload,
                    singleOperatingPoint |-> TRUE, header |-> Fields(0)]
Alien == [Header("p1") EXCEPT !.header = Fields(1)]
Frame(frame, show) == [type |-> "Frame", parses |-> TRUE, frame |-> frame, show |-> show]
Key == Frame("Key", TRUE)
Delta == Frame("Inter", TRUE)
Other(type) == [type |-> type]
TD == Other("TemporalDelimiter")
Meta == Other("Metadata")
Av01(configObus) == [codec |-> "AV1", size |-> "hd", header |-> Fields(0),
                     configObus |-> configObus]
ConfigObus == {<<>>, <<Header("p1")>>, <<Meta>>, <<Meta, Header("p1")>>,
               <<Header("p1"), Header("p1")>>, <<Alien>>}
SyncObus == {<<TD, Header("p1"), Key>>, <<Key, Header("p1")>>, <<TD, Key>>,
             <<Header("p2"), Key>>, <<Header("p1"), Frame("Key", FALSE)>>,
             <<Header("p1"), Delta>>, <<Meta, Header("p1"), Key>>, <<Header("p1")>>,
             <<Alien, Key>>}
DeltaObus == {<<TD, Delta>>, <<Header("p1"), Delta>>, <<Header("p2"), Delta>>}
Av1Files ==
  {<<Obus(TRUE, Av01(c), s), Obus(FALSE, None, d), Obus(TRUE, None, s2)>> :
      c \in ConfigObus, s \in SyncObus, d \in DeltaObus,
      s2 \in {<<Header("p1"), Key>>, <<Header("p2"), Key>>}}
  \cup {<<Obus(FALSE, Av01(<<>>), <<Header("p1"), Delta>>)>>}

PlayedFiles == {Played, <<Obus(TRUE, Av01(<<>>), <<Header("p1"), Key>>)>>}
MCFiles == PlayedFiles \cup H264Files \cup H265Files \cup Av1Files
H264Format(mode, plid) == [name |-> "H264", packetizationMode |-> mode, plid |-> plid]
Av1Format(profile, level, tier) ==
  [name |-> "AV1", profile |-> profile, level |-> level, tier |-> tier]
MCReceivers ==
  {H264Format(1, p) : p \in {None, Main31, Main40, Baseline1b, Unknown}}
  \cup {H264Format(0, Main31)}
  \cup {Av1Format(p, l, None) : p \in {None, 1}, l \in {None, 8, 32}}
=============================================================================
