------------------------------ MODULE Packing ------------------------------
(***************************************************************************)
(* pack/packer.py and pack/unpacker.py: the layout of a packet.  Images    *)
(* and metadata are the bytes the codecs made of them.                     *)
(***************************************************************************)
EXTENDS Integers, Sequences

Byte == 0 .. 255

JPG_PNG == 1
JPG == 2

\* The lengths that struct.pack("I", n) takes.
Length == {n \in Nat : n \div 16777216 < 256}

\* struct.pack("I", n) and struct.unpack("I", w): four bytes, the lowest first.
Word(n) == <<n % 256, (n \div 256) % 256, (n \div 65536) % 256, (n \div 16777216) % 256>>
Number(w) == w[1] + 256 * w[2] + 65536 * w[3] + 16777216 * w[4]

\* buffer[from:to]
Slice(buffer, from, to) == SubSeq(buffer, from + 1, to)

PackColor(rgb, text) ==
    <<JPG>> \o Word(Len(rgb)) \o Word(Len(text)) \o rgb \o text

PackDepth(rgb, depth, text) ==
    <<JPG_PNG>> \o Word(Len(rgb)) \o Word(Len(depth)) \o Word(Len(text))
        \o rgb \o depth \o text

Packet(type, rgb, depth, text) ==
    IF type = JPG THEN PackColor(rgb, text) ELSE PackDepth(rgb, depth, text)

\* What unpack returns: the parts, with None, which no buffer contains, for a
\* missing depth; three Nones for a wrong length or an unknown type; or it raises.
None == <<-1>>
Nothing == <<None, None, None>>
Raises == <<>>

UnpackColor(buffer) ==
    LET rgb == Number(Slice(buffer, 1, 5))
        text == Number(Slice(buffer, 5, 9))
    IN  IF Len(buffer) = rgb + text + 9
        THEN <<Slice(buffer, 9, 9 + rgb), None, Slice(buffer, 9 + rgb, 9 + rgb + text)>>
        ELSE Nothing

\* Fault: the depth image is taken to follow a header of 9 bytes.
UnpackDepthShifted(buffer) ==
    LET rgb == Number(Slice(buffer, 1, 5))
        depth == Number(Slice(buffer, 5, 9))
        text == Number(Slice(buffer, 9, 13))
    IN  IF Len(buffer) = rgb + depth + text + 13
        THEN <<Slice(buffer, 13, 13 + rgb), Slice(buffer, 9 + rgb, 9 + rgb + depth),
               Slice(buffer, 13 + rgb + depth, 13 + rgb + depth + text)>>
        ELSE Nothing

UnpackDepth(buffer) ==
    LET rgb == Number(Slice(buffer, 1, 5))
        depth == Number(Slice(buffer, 5, 9))
        text == Number(Slice(buffer, 9, 13))
    IN  IF Len(buffer) = rgb + depth + text + 13
        THEN <<Slice(buffer, 13, 13 + rgb), Slice(buffer, 13 + rgb, 13 + rgb + depth),
               Slice(buffer, 13 + rgb + depth, 13 + rgb + depth + text)>>
        ELSE Nothing

\* By the type of the first packet; a header cut short has no length to unpack.
Unpack(packType, buffer) ==
    IF packType # buffer[1] THEN Raises
    ELSE CASE packType = JPG -> IF Len(buffer) < 9 THEN Raises ELSE UnpackColor(buffer)
           [] packType = JPG_PNG -> IF Len(buffer) < 13 THEN Raises ELSE UnpackDepth(buffer)
           [] OTHER -> Nothing
=============================================================================
