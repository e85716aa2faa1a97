------------------------------- MODULE Encoders -------------------------------
(***************************************************************************)
(* The encoders other than the V4L2 one, side by side: the handlers of     *)
(* vendor hardware, OpenH264, and the wrapper that aligns the frames of    *)
(* any of them.  They share no state; libwebrtc uses one per stream.       *)
(***************************************************************************)
EXTENDS HardwareCodecs, Openh264, AlignedEncoder

\* The encoder that a frame is given to, or that an image comes from, is configured for the
\* frame's size and the rate asked for, whatever rebuild or reconfiguration failed before;
\* a frame that is cropped for a device is cropped to what the device was set up for.
FramesFitTheirEncoders ==
  FramesMeetTheirEngine /\ ImagesFitTheirEncoder /\ FramesAreAligned
=============================================================================
