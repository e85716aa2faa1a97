--------------------------- MODULE AlignedEncoder ---------------------------
(***************************************************************************)
(* AlignmentEncoderAdapter (src/video_codec.rs), which the AMF handler     *)
(* puts around its AV1 encoder: the device takes only sizes that are       *)
(* multiples of an alignment, so a frame is cropped to the largest one.    *)
(* Registering a callback, rates and the encoder's information are passed  *)
(* on and have no state here.                                              *)
(***************************************************************************)
EXTENDS Integers

CONSTANTS Alignment, \* [width, height]
          Sides      \* widths and heights of settings and frames

ASSUME AlignmentAssumption ==
  Alignment \in [width : Nat \ {0}, height : Nat \ {0}] /\ Sides \subseteq Nat

VARIABLES target,    \* target_size, or Unaligned
          inner,     \* the size that the encoder behind it is initialized with, or Unaligned
          passed     \* the crop of the last frame passed on, or NoCrop

alignedVars == <<target, inner, passed>>

Unaligned == [width |-> 0, height |-> 0]
NoCrop == [size |-> Unaligned, frame |-> Unaligned, x |-> 0, y |-> 0]
AnySize == [width : Sides, height : Sides]
Pixels == [width : Nat, height : Nat]

AlignedTypeOK ==
  /\ target \in Pixels /\ inner \in Pixels
  /\ passed \in [size : Pixels, frame : Pixels, x : Nat, y : Nat]

AlignedInit == target = Unaligned /\ inner = Unaligned /\ passed = NoCrop

\* 0 for None: what is not positive, or gets there.
AlignDown(value, alignment) == value - (value % alignment)

\* apply_alignment_to_codec: all streams or nothing, and nothing of another codec.
ApplyAlignment(ours, size, streams) ==
  LET Aligned(s) == [width |-> AlignDown(s.width, Alignment.width),
                     height |-> AlignDown(s.height, Alignment.height)]
      Possible(s) == Aligned(s).width > 0 /\ Aligned(s).height > 0
  IN  IF ours /\ Possible(size) /\ \A s \in streams : Possible(s) THEN Aligned(size)
      ELSE Unaligned

\* The encoder behind it may refuse the settings, and then has none; without a target it
\* is not asked and keeps its own.
InitAligned(ours, size, streams) ==
  /\ target' = ApplyAlignment(ours, size, streams)
  /\ IF target' = Unaligned THEN UNCHANGED inner
     ELSE inner' \in {target', Unaligned}
  /\ passed' = NoCrop

\* build_aligned_frame: from the middle, at an even place.
AlignedFrame(frame) ==
  LET Even(n) == n - (n % 2)
  IN  IF frame.width < target.width \/ frame.height < target.height THEN NoCrop
      ELSE [size |-> target, frame |-> frame,
            x |-> Even((frame.width - target.width) \div 2),
            y |-> Even((frame.height - target.height) \div 2)]

EncodeAligned(frame) ==
  /\ passed' = IF target = Unaligned THEN NoCrop ELSE AlignedFrame(frame)
  /\ UNCHANGED <<target, inner>>

\* The target is kept.
ReleaseAligned == inner' = Unaligned /\ passed' = NoCrop /\ UNCHANGED target

\* Of the streams of a simulcast one has half the width and height.
Half(size) == [width |-> size.width \div 2, height |-> size.height \div 2]

AlignedNext ==
  \/ \E ours \in BOOLEAN, size \in AnySize, simulcast \in BOOLEAN :
       InitAligned(ours, size, IF simulcast THEN {size, Half(size)} ELSE {})
  \/ \E frame \in AnySize : EncodeAligned(frame)
  \/ ReleaseAligned

AlignedSpec == AlignedInit /\ [][AlignedNext]_alignedVars

\* What reaches an encoder that is initialized is of its size, which is aligned and not
\* empty, and is cut from within the frame at an even place.
FramesAreAligned ==
  passed # NoCrop /\ inner # Unaligned =>
    /\ passed.size = inner
    /\ inner.width % Alignment.width = 0 /\ inner.height % Alignment.height = 0
    /\ inner.width > 0 /\ inner.height > 0
    /\ passed.x + inner.width <= passed.frame.width
    /\ passed.y + inner.height <= passed.frame.height
    /\ passed.x % 2 = 0 /\ passed.y % 2 = 0
=============================================================================
