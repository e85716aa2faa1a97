------------------------------ MODULE Openh264 ------------------------------
(***************************************************************************)
(* Openh264VideoEncoder and Openh264VideoDecoder of                        *)
(* src/video_codecs/openh264.rs: each call of libwebrtc's queue does all   *)
(* its work and gives its image in the call.  A bitrate of 0 pauses the    *)
(* encoder; the first image after a pause is to be a key frame.            *)
(*                                                                         *)
(* The library's part: an encoder's first output is a key frame, a forced  *)
(* one is too, any frame may be skipped or refused, and an output may be   *)
(* without a byte, of which encode makes no image.                         *)
(***************************************************************************)
EXTENDS Naturals

CONSTANTS
  PictureSizes,  \* sizes of frames
  BitrateMax,    \* u32::MAX
  FirstBitrate,  \* of an encoder that has not been told one; 500 kbps
  Absent         \* None

ASSUME Openh264Assumption ==
  /\ BitrateMax \in Nat
  /\ FirstBitrate \in 1..BitrateMax
  /\ Absent \notin PictureSizes

Bitrates == 0..BitrateMax

VARIABLES
  h264Encoder,  \* Openh264VideoEncoder
  h264Decoder,  \* Openh264VideoDecoder
  initFailed,   \* init_encode has failed, and libwebrtc is going to release
  image,        \* the last image given to libwebrtc
  resumed       \* history: a pause has ended, and the library has put nothing out since

openh264Vars == <<h264Encoder, h264Decoder, initFailed, image, resumed>>

\* What a frame needs or an encoder is set to; a rate is never 0.
Setting(size, target) == [size |-> size, rate |-> IF target = 0 THEN 1 ELSE target]
Settings == [size : PictureSizes, rate : Bitrates]

AtMost(rate) == IF rate > BitrateMax THEN BitrateMax ELSE rate

NewEncoderHandler ==
  [encoder |-> Absent, callback |-> FALSE, size |-> Absent, target |-> FirstBitrate,
   max |-> AtMost(2 * FirstBitrate), reconfigure_needed |-> FALSE, paused |-> FALSE,
   force_idr_on_resume |-> FALSE]

NewDecoderHandler == [decoder |-> FALSE, callback |-> FALSE]

\* A behaviour is that of an encoder or of a decoder.
Openh264Init ==
  /\ \/ h264Encoder = NewEncoderHandler /\ h264Decoder = Absent
     \/ h264Encoder = Absent /\ h264Decoder = NewDecoderHandler
  /\ initFailed = FALSE
  /\ image = Absent
  /\ resumed = FALSE

-----------------------------------------------------------------------------
(* The encoder                                                             *)

\* rebuild_encoder: the encoder `h` with a new one of the library's.
Rebuilt(h) ==
  [h EXCEPT !.encoder = [set |-> Setting(h.size, h.target), fresh |-> TRUE],
            !.max = AtMost(2 * h.target), !.reconfigure_needed = FALSE]

\* init_encode
InitOpenh264(size, start) ==
  /\ h264Encoder # Absent /\ ~initFailed
  /\ LET h == [h264Encoder EXCEPT !.size = size, !.target = start,
                                  !.paused = FALSE, !.force_idr_on_resume = FALSE]
     IN  \/ h264Encoder' = Rebuilt(h) /\ UNCHANGED initFailed
         \/ h264Encoder' = h /\ initFailed' = TRUE
  /\ UNCHANGED <<h264Decoder, image, resumed>>

\* encode, up to the library: another size or a failure before asks for a new encoder.
Prepared(size) ==
  LET h == [h264Encoder EXCEPT !.size = size,
              !.reconfigure_needed = @ \/ h264Encoder.size # size]
  IN  IF h.reconfigure_needed \/ h.encoder = Absent THEN Rebuilt(h) ELSE h

\* Mutated: the forced key frame is ticked off before the library has put anything out.
EncodeTickingOff(size, key) ==
  /\ h264Encoder # Absent /\ ~initFailed
  /\ h264Encoder.callback /\ ~h264Encoder.paused
  /\ LET h == Prepared(size)
         forced == key \/ h.force_idr_on_resume \/ h.encoder.fresh
     IN  \/ /\ h264Encoder' = [h EXCEPT !.force_idr_on_resume = FALSE]
            /\ UNCHANGED <<image, resumed>>
         \/ /\ h264Encoder' = [h EXCEPT !.encoder.fresh = FALSE, !.force_idr_on_resume = FALSE]
            /\ \E frame \in {"key"} \cup (IF forced THEN {} ELSE {"delta"}) :
                 image' = [frame |-> frame, first |-> resumed,
                           fits |-> h.encoder.set = Setting(size, h.target)]
            /\ resumed' = FALSE
  /\ UNCHANGED <<h264Decoder, initFailed>>

\* encode: no new encoder can be had; the library refuses the frame, or skips it; what it
\* puts out is empty; or there is an image.  An output ticks off the forced
\* key frame before encode looks whether there is a byte in it.
EncodeOpenh264(size, key) ==
  /\ h264Encoder # Absent /\ ~initFailed
  /\ h264Encoder.callback /\ ~h264Encoder.paused
  /\ LET h == Prepared(size)
         forced == key \/ h.force_idr_on_resume \/ h.encoder.fresh
     IN  \/ /\ h264Encoder' = [h264Encoder EXCEPT !.size = size,
                                !.reconfigure_needed = @ \/ h264Encoder.size # size]
            /\ h264Encoder'.reconfigure_needed \/ h264Encoder.encoder = Absent
            /\ UNCHANGED <<image, resumed>>
         \/ /\ h264Encoder' \in {[h EXCEPT !.reconfigure_needed = TRUE], h}
            /\ UNCHANGED <<image, resumed>>
         \/ /\ \E fresh \in {h.encoder.fresh, FALSE} :
                 h264Encoder' = [h EXCEPT !.encoder.fresh = fresh, !.force_idr_on_resume = FALSE]
            /\ resumed' = FALSE
            /\ UNCHANGED image
         \/ /\ h264Encoder' = [h EXCEPT !.encoder.fresh = FALSE, !.force_idr_on_resume = FALSE]
            /\ \E frame \in {"key"} \cup (IF forced THEN {} ELSE {"delta"}) :
                 image' = [frame |-> frame, first |-> resumed,
                           fits |-> h.encoder.set = Setting(size, h.target)]
            /\ resumed' = FALSE
  /\ UNCHANGED <<h264Decoder, initFailed>>

\* update_pause_state: no bitrate pauses; the first one after that ends the pause.
Paused(h, bitrate) ==
  [h EXCEPT !.paused = (bitrate = 0),
            !.force_idr_on_resume = @ \/ (h.paused /\ bitrate > 0)]

\* Mutated: a bitrate is never too high for the encoder's limit, nor refused.
SetRatesUnlimited(bitrate) ==
  /\ h264Encoder # Absent /\ ~initFailed
  /\ resumed' = (resumed \/ (h264Encoder.paused /\ bitrate > 0))
  /\ LET h == Paused(h264Encoder, bitrate)
     IN  h264Encoder' = IF bitrate = 0 THEN h ELSE [h EXCEPT !.target = bitrate]
  /\ UNCHANGED <<h264Decoder, initFailed, image>>

\* set_rates: the library takes the new bitrate, or another encoder is needed; it is when
\* the bitrate comes to twice what the encoder was built for.
SetRatesOpenh264(bitrate) ==
  /\ h264Encoder # Absent /\ ~initFailed
  /\ resumed' = (resumed \/ (h264Encoder.paused /\ bitrate > 0))
  /\ LET h == Paused(h264Encoder, bitrate)
         taken == [h EXCEPT !.target = bitrate]
     IN  \/ bitrate = 0 /\ h264Encoder' = h
         \/ bitrate > 0 /\ h264Encoder' = [taken EXCEPT !.reconfigure_needed = TRUE]
         \/ /\ bitrate > 0 /\ h.encoder # Absent /\ bitrate < h.max
            /\ h264Encoder' = [taken EXCEPT !.encoder.set.rate = bitrate]
  /\ UNCHANGED <<h264Decoder, initFailed, image>>

\* register_encode_complete_callback
RegisterEncodeOpenh264 ==
  /\ h264Encoder # Absent /\ ~initFailed
  /\ \E callback \in BOOLEAN : h264Encoder' = [h264Encoder EXCEPT !.callback = callback]
  /\ UNCHANGED <<h264Decoder, initFailed, image, resumed>>

\* release
ReleaseEncoderOpenh264 ==
  /\ h264Encoder # Absent
  /\ h264Encoder' = [h264Encoder EXCEPT !.encoder = Absent, !.callback = FALSE,
                       !.paused = FALSE, !.force_idr_on_resume = FALSE]
  /\ initFailed' = FALSE
  /\ UNCHANGED <<h264Decoder, image, resumed>>

-----------------------------------------------------------------------------
(* The decoder                                                             *)

\* configure: the old decoder goes, whether there is a new one or not.
ConfigureOpenh264 ==
  /\ h264Decoder # Absent
  /\ \E made \in BOOLEAN : h264Decoder' = [h264Decoder EXCEPT !.decoder = made]
  /\ UNCHANGED <<h264Encoder, initFailed, image, resumed>>

\* decode makes a decoder before it looks for a callback.
DecodeOpenh264 ==
  /\ h264Decoder # Absent
  /\ \E made \in BOOLEAN : h264Decoder' = [h264Decoder EXCEPT !.decoder = @ \/ made]
  /\ UNCHANGED <<h264Encoder, initFailed, image, resumed>>

RegisterDecodeOpenh264 ==
  /\ h264Decoder # Absent
  /\ \E callback \in BOOLEAN : h264Decoder' = [h264Decoder EXCEPT !.callback = callback]
  /\ UNCHANGED <<h264Encoder, initFailed, image, resumed>>

ReleaseDecoderOpenh264 ==
  /\ h264Decoder # Absent
  /\ h264Decoder' = [decoder |-> FALSE, callback |-> FALSE]
  /\ UNCHANGED <<h264Encoder, initFailed, image, resumed>>

-----------------------------------------------------------------------------
Openh264Next ==
  \/ \E size \in PictureSizes, rate \in Bitrates : InitOpenh264(size, rate)
  \/ \E size \in PictureSizes, key \in BOOLEAN : EncodeOpenh264(size, key)
  \/ \E bitrate \in Bitrates : SetRatesOpenh264(bitrate)
  \/ RegisterEncodeOpenh264 \/ ReleaseEncoderOpenh264
  \/ ConfigureOpenh264 \/ DecodeOpenh264 \/ RegisterDecodeOpenh264 \/ ReleaseDecoderOpenh264

Openh264Spec == Openh264Init /\ [][Openh264Next]_openh264Vars

-----------------------------------------------------------------------------
(* Properties                                                              *)

\* Each variable holds a value of its type.
Openh264TypeOK ==
  /\ h264Encoder \in
       {Absent} \cup
       [encoder : {Absent} \cup [set : Settings, fresh : BOOLEAN], callback : BOOLEAN,
        size : PictureSizes \cup {Absent}, target : Bitrates, max : Bitrates,
        reconfigure_needed : BOOLEAN, paused : BOOLEAN, force_idr_on_resume : BOOLEAN]
  /\ h264Decoder \in {Absent} \cup [decoder : BOOLEAN, callback : BOOLEAN]
  /\ initFailed \in BOOLEAN
  /\ image \in {Absent} \cup
       [frame : {"key", "delta"}, first : BOOLEAN, fits : BOOLEAN]
  /\ resumed \in BOOLEAN

\* The first output after a pause, if encode makes an image of it, is a key frame, whatever
\* is skipped, refused, rebuilt or released between the end of the pause and that output.
\* An empty output counts as the key frame that was forced: encode does not force another.
PausesEndWithKeyFrame == image # Absent /\ image.first => image.frame = "key"

\* The encoder that made an image was set to the frame's size and to the last bitrate.
ImagesFitTheirEncoder == image # Absent => image.fits
=============================================================================
