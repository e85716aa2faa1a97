----------------------------- MODULE VideoDevice -----------------------------
(***************************************************************************)
(* VideoDeviceCapturer of sumomo (examples/sumomo/src/video_device.rs): a  *)
(* device gives frames of one layout in buffers of some length; each is    *)
(* checked, converted to I420 by libyuv, scaled if libwebrtc asks for      *)
(* another size, and handed to the track's source.  A usize is wide enough *)
(* for a product of two i32.                                               *)
(***************************************************************************)
EXTENDS Integers

CONSTANTS I32Max,   \* i32::MAX
          Layouts,  \* [format, width, height, stride, strideUv]
          Lengths,  \* lengths of a buffer
          NoBuffer  \* no uv_data

ASSUME VideoDeviceAssumption ==
  /\ I32Max \in Nat /\ 0 \in Lengths /\ Lengths \subseteq Nat /\ NoBuffer \notin Nat
  /\ \A l \in Layouts : {l.width, l.height, l.stride, l.strideUv} \subseteq -I32Max..I32Max

VARIABLES layout,   \* of the device
          capturing,
          buffers,  \* lengths of the last frame's buffers
          fate      \* what became of it: the error, "dropped" or "delivered"

deviceVars == <<layout, capturing, buffers, fate>>

ConvertErrors == {"Unsupported", "BufferTooShort", "InvalidDimension", "Overflow", "UvDataMissing",
                  "LibyuvFailed"}

DeviceTypeOK ==
  /\ layout \in Layouts /\ capturing \in BOOLEAN
  /\ buffers \in [data : Lengths, uvData : Lengths \cup {NoBuffer}]
  /\ fate \in ConvertErrors \cup {"none", "dropped", "delivered"}

DeviceInit ==
  /\ layout \in Layouts
  /\ capturing = FALSE
  /\ buffers = [data |-> 0, uvData |-> NoBuffer]
  /\ fate = "none"

-----------------------------------------------------------------------------
(* Conversion: each function gives an error or "converted".                *)

\* required_plane_len, where nothing is 0 or negative.
RequiredPlaneLen(stride, rows, rowBytes) == stride * (rows - 1) + rowBytes

ChromaDimension(value) == (value + 1) \div 2

\* What libyuv's functions check before they read a plane.
LibyuvTakes(len, stride, rows, rowBytes) ==
  /\ stride > 0 /\ rows > 0 /\ rowBytes > 0
  /\ len >= RequiredPlaneLen(stride, rows, rowBytes)

ConvertNv12(l, b) ==
  LET rows == ChromaDimension(l.height)
      rowBytes == 2 * ChromaDimension(l.width)
  IN  IF \E n \in {l.width, l.height, l.stride, l.strideUv} : n <= 0 THEN "InvalidDimension"
      ELSE IF b.uvData = NoBuffer THEN "UvDataMissing"
      ELSE IF b.data < RequiredPlaneLen(l.stride, l.height, l.width) THEN "BufferTooShort"
      ELSE IF l.width = I32Max \/ l.height = I32Max THEN "Overflow"
      ELSE IF b.uvData < RequiredPlaneLen(l.strideUv, rows, rowBytes) THEN "BufferTooShort"
      ELSE IF ~(/\ LibyuvTakes(b.data, l.stride, l.height, l.width)
                /\ LibyuvTakes(b.uvData, l.strideUv, rows, rowBytes)) THEN "LibyuvFailed"
      ELSE "converted"

ConvertYuy2(l, b) ==
  LET rowBytes == 2 * l.width
  IN  IF \E n \in {l.width, l.height, l.stride} : n <= 0 THEN "InvalidDimension"
      ELSE IF rowBytes > I32Max THEN "Overflow"
      ELSE IF b.data < RequiredPlaneLen(l.stride, l.height, rowBytes) THEN "BufferTooShort"
      ELSE IF ~LibyuvTakes(b.data, l.stride, l.height, rowBytes) THEN "LibyuvFailed"
      ELSE "converted"

\* Where uv_data is split into U and V.
UvPlaneLen(l) == l.strideUv * ((l.height + 1) \div 2)

\* Mutated: that each of U and V holds its last row is not checked.
ConvertI420Unsplit(l, b) ==
  LET rows == ChromaDimension(l.height)
      rowBytes == ChromaDimension(l.width)
  IN  IF \E n \in {l.width, l.height, l.stride, l.strideUv} : n <= 0 THEN "InvalidDimension"
      ELSE IF b.uvData = NoBuffer THEN "UvDataMissing"
      ELSE IF b.data < RequiredPlaneLen(l.stride, l.height, l.width) THEN "BufferTooShort"
      ELSE IF b.uvData < 2 * UvPlaneLen(l) THEN "BufferTooShort"
      ELSE IF l.width = I32Max \/ l.height = I32Max THEN "Overflow"
      ELSE IF ~(/\ LibyuvTakes(b.data, l.stride, l.height, l.width)
                /\ LibyuvTakes(UvPlaneLen(l), l.strideUv, rows, rowBytes)
                /\ LibyuvTakes(b.uvData - UvPlaneLen(l), l.strideUv, rows, rowBytes)) THEN "LibyuvFailed"
      ELSE "converted"

\* U ends where it is split, whatever its rows need.
ConvertI420(l, b) ==
  LET rows == ChromaDimension(l.height)
      rowBytes == ChromaDimension(l.width)
  IN  IF \E n \in {l.width, l.height, l.stride, l.strideUv} : n <= 0 THEN "InvalidDimension"
      ELSE IF b.uvData = NoBuffer THEN "UvDataMissing"
      ELSE IF b.data < RequiredPlaneLen(l.stride, l.height, l.width) THEN "BufferTooShort"
      ELSE IF b.uvData < 2 * UvPlaneLen(l) THEN "BufferTooShort"
      ELSE IF l.width = I32Max \/ l.height = I32Max THEN "Overflow"
      ELSE IF UvPlaneLen(l) < RequiredPlaneLen(l.strideUv, rows, rowBytes) THEN "BufferTooShort"
      ELSE IF ~(/\ LibyuvTakes(b.data, l.stride, l.height, l.width)
                /\ LibyuvTakes(UvPlaneLen(l), l.strideUv, rows, rowBytes)
                /\ LibyuvTakes(b.uvData - UvPlaneLen(l), l.strideUv, rows, rowBytes)) THEN "LibyuvFailed"
      ELSE "converted"

ConvertFrame(l, b) ==
  CASE l.format = "Nv12" -> ConvertNv12(l, b)
    [] l.format = "Yuy2" -> ConvertYuy2(l, b)
    [] l.format = "I420" -> ConvertI420(l, b)
    [] OTHER -> "Unsupported"

-----------------------------------------------------------------------------
StartDevice ==
  /\ ~capturing
  /\ capturing' = TRUE
  /\ UNCHANGED <<layout, buffers, fate>>

\* The callback of VideoCapture.  An error is logged, now and then; adapt_frame takes the
\* frame, perhaps in another size, or drops it.
OnCapture ==
  /\ capturing
  /\ \E data \in Lengths, uvData \in Lengths \cup {NoBuffer} :
       LET b == [data |-> data, uvData |-> uvData]
           converted == ConvertFrame(layout, b)
       IN  /\ buffers' = b
           /\ fate' \in IF converted = "converted" THEN {"dropped", "delivered"} ELSE {converted}
  /\ UNCHANGED <<layout, capturing>>

DeviceNext == StartDevice \/ OnCapture

DeviceSpec == DeviceInit /\ [][DeviceNext]_deviceVars

-----------------------------------------------------------------------------
(* Properties                                                              *)

\* Rows of a plane that begins at an offset, read byte by byte.
Within(len, offset, stride, rows, rowBytes) ==
  \A r \in 0..rows - 1, n \in 0..rowBytes - 1 : offset + r * stride + n < len

\* Of a frame that libyuv gets it reads no byte beyond a buffer, and of U none of V; it is
\* never asked for what it refuses; and a frame with all of its rows is not refused, but for
\* sides that an i32 cannot count.
DeviceFramesAreWithin ==
  LET l == layout
      b == buffers
      rows == (l.height + 1) \div 2
      Whole(len, stride, n, rowBytes) == stride >= rowBytes /\ len >= stride * n
      positive == \A n \in {l.width, l.height, l.stride} : n > 0
  IN  /\ fate # "LibyuvFailed"
      /\ fate \in {"dropped", "delivered"} =>
           /\ Within(b.data, 0, l.stride, l.height, IF l.format = "Yuy2" THEN 2 * l.width ELSE l.width)
           /\ l.format = "Nv12" => Within(b.uvData, 0, l.strideUv, rows, 2 * ((l.width + 1) \div 2))
           /\ l.format = "I420" =>
                /\ Within(UvPlaneLen(l), 0, l.strideUv, rows, (l.width + 1) \div 2)
                /\ Within(b.uvData, UvPlaneLen(l), l.strideUv, rows, (l.width + 1) \div 2)
      /\ fate \in ConvertErrors /\ positive /\ 2 * l.width < I32Max /\ l.height < I32Max =>
           ~(\/ l.format = "Yuy2" /\ Whole(b.data, l.stride, l.height, 2 * l.width)
             \/ /\ l.format \in {"Nv12", "I420"} /\ b.uvData # NoBuffer
                /\ Whole(b.data, l.stride, l.height, l.width)
                /\ Whole(b.uvData, l.strideUv, IF l.format = "Nv12" THEN rows ELSE 2 * rows,
                         IF l.format = "Nv12" THEN 2 * ((l.width + 1) \div 2)
                         ELSE (l.width + 1) \div 2))
=============================================================================
