---------------------------- MODULE VideoStream ----------------------------
(***************************************************************************)
(* VideoPacker and VideoUnpacker (processes/): images and the camera's     *)
(* state become packets, the packets cross a gate, which loses some and    *)
(* brings those of others, and become images again.                        *)
(***************************************************************************)
EXTENDS Packing, SequencesExt

CONSTANTS
    Jpeg, Png,      \* what the codecs make of images 1, 2, ..., MaxImages
    Strays,         \* packets of others that no Packer made
    MaxImages, MaxCamera, MaxStrays, MaxReplaced    \* bounds

Image == 1 .. MaxImages
Given == MaxCamera + 1      \* the camera data of an image that brings its own

ASSUME VideoAssumption ==
    /\ {MaxStrays, MaxReplaced} \subseteq Nat /\ MaxCamera \in 0 .. 254 /\ MaxImages \in 0 .. 255
    /\ {Jpeg, Png} \subseteq [Image -> Seq(Byte)]
    /\ \A i \in Image : Len(Jpeg[i]) \in Length /\ Len(Png[i]) \in Length
    /\ Strays \subseteq Seq(Byte) \ {<<>>}
    /\ \A s \in Strays : Unpack(s[1], s) \in {Raises, Nothing}

VARIABLES
    shares,     \* which of the two processes has the shared object `camera`
    camera,     \* its state: how often it changed
    packType, frameIndex,   \* Packer
    packing,    \* VideoPacker: about to copy the camera, or to consume
    snapshot,   \* the copy
    images,     \* images consumed so far
    floor,      \* history: the camera when the last image was published
    transit,    \* packets under way, each with what was packed into it
    strays, replaced,       \* history: counted for the bounds
    known,      \* Unpacker.pack_type
    published,  \* what VideoUnpacker published
    arrived     \* history: what it consumed

packerVars == <<packType, frameIndex, packing, snapshot, images, floor, replaced>>
unpackerVars == <<known, published, arrived>>
vars == <<shares, camera, packerVars, transit, strays, unpackerVars>>

Init ==
    /\ shares \in SUBSET {"packer", "unpacker"}
    /\ camera = 0
    /\ packType \in {JPG, JPG_PNG} /\ frameIndex = 0
    /\ packing = "copy" /\ snapshot = 0 /\ images = 0 /\ floor = 0
    /\ transit = <<>> /\ strays = 0 /\ replaced = 0
    /\ known = -1 /\ published = <<>> /\ arrived = <<>>

-----------------------------------------------------------------------------
(* VideoPacker *)

CameraMoves ==
    /\ camera < MaxCamera /\ camera' = camera + 1
    /\ UNCHANGED <<shares, packerVars, transit, strays, unpackerVars>>

\* Fault: the camera is copied before the loop only.
CopyCameraOnce ==
    /\ packing = "copy" /\ packing' = "consume"
    /\ snapshot' = IF "packer" \in shares /\ images = 0 THEN camera ELSE snapshot
    /\ UNCHANGED <<shares, camera, packType, frameIndex, images, floor, replaced,
                   transit, strays, unpackerVars>>

\* The copy is taken before the image is waited for.
CopyCamera ==
    /\ packing = "copy" /\ packing' = "consume"
    /\ snapshot' = IF "packer" \in shares THEN camera ELSE 0
    /\ UNCHANGED <<shares, camera, packType, frameIndex, images, floor, replaced,
                   transit, strays, unpackerVars>>

\* json.dumps: one byte for the camera and, with depth, one for the frame.
Text(state) == IF packType = JPG THEN <<state>> ELSE <<state, frameIndex>>

\* consume, pack, publish: an image with two elements, or with its own camera.
PackImage ==
    /\ packing = "consume" /\ packing' = "copy"
    /\ images < MaxImages /\ images' = images + 1
    /\ floor' = camera
    /\ frameIndex' = IF packType = JPG THEN frameIndex ELSE frameIndex + 1
    /\ \E state \in {snapshot, Given} :
         LET rgb == Jpeg[images'] depth == Png[images']
         IN  transit' = Append(transit,
               [bytes |-> Packet(packType, rgb, depth, Text(state)),
                parts |-> <<rgb, IF packType = JPG THEN None ELSE depth, Text(state)>>])
    /\ UNCHANGED <<shares, camera, packType, snapshot, replaced, strays, unpackerVars>>

\* A tuple of another length, or no image where the codec needs one, raises;
\* keep_alive constructs the process again.
PackFails ==
    /\ packing = "consume" /\ packing' = "copy"
    /\ images < MaxImages /\ images' = images + 1
    /\ frameIndex' = 0
    /\ UNCHANGED <<shares, camera, packType, snapshot, floor, replaced, transit, strays, unpackerVars>>

\* The host program stops the packer and adds it with another pack_type.
Replaced(type) ==
    /\ replaced < MaxReplaced /\ replaced' = replaced + 1
    /\ packType' = type /\ frameIndex' = 0 /\ packing' = "copy"
    /\ UNCHANGED <<shares, camera, snapshot, images, floor, transit, strays, unpackerVars>>

-----------------------------------------------------------------------------
(* The way there *)

Loses(k) ==
    /\ transit' = RemoveAt(transit, k)
    /\ UNCHANGED <<shares, camera, packerVars, strays, unpackerVars>>

\* A stray packet, or text and empty frames (no bytes).
StrayArrives(bytes) ==
    /\ strays < MaxStrays /\ strays' = strays + 1
    /\ transit' = Append(transit, [bytes |-> bytes, parts |-> Nothing])
    /\ UNCHANGED <<shares, camera, packerVars, unpackerVars>>

-----------------------------------------------------------------------------
(* VideoUnpacker *)

Receive ==
    /\ transit # <<>> /\ transit' = Tail(transit)
    /\ arrived' = Append(arrived, Head(transit))
    /\ LET buffer == Head(transit).bytes
           result == Unpack(known', buffer)
       IN  IF buffer = <<>> THEN UNCHANGED <<known, published>>
           ELSE /\ known' = IF known = -1 THEN buffer[1] ELSE known
                /\ published' =
                     \* json.loads(None) raises, too; the loop catches it all
                     IF result = Raises \/ (result = Nothing /\ "unpacker" \in shares)
                     THEN published ELSE Append(published, result)
    /\ UNCHANGED <<shares, camera, packerVars, strays>>

-----------------------------------------------------------------------------

Next ==
    \/ CameraMoves \/ CopyCamera \/ PackImage \/ PackFails
    \/ \E type \in {JPG, JPG_PNG} : Replaced(type)
    \/ \E k \in DOMAIN transit : Loses(k)
    \/ \E bytes \in Strays \union {<<>>} : StrayArrives(bytes)
    \/ Receive

Spec == Init /\ [][Next]_vars

-----------------------------------------------------------------------------
(* Properties *)

TypeOK ==
    /\ shares \subseteq {"packer", "unpacker"}
    /\ camera \in 0 .. MaxCamera /\ {snapshot, floor} \subseteq 0 .. camera
    /\ packType \in {JPG, JPG_PNG}
    /\ images \in 0 .. MaxImages /\ frameIndex \in 0 .. images
    /\ packing \in {"copy", "consume"}
    /\ strays \in 0 .. MaxStrays /\ replaced \in 0 .. MaxReplaced
    /\ known \in Byte \union {-1}

\* A stray packet is shown as three Nones if its header is complete, unless the
\* unpacker has a shared camera to fill.
Shown(f) ==
    \/ f.parts # Nothing
    \/ /\ "unpacker" \notin shares
       /\ Len(f.bytes) >= CASE f.bytes[1] = JPG -> 9 [] f.bytes[1] = JPG_PNG -> 13 [] OTHER -> 1

\* The first packet with bytes: its type is the unpacker's for good.
First(i) == arrived[i].bytes # <<>> /\ \A k \in 1 .. i - 1 : arrived[k].bytes = <<>>

\* The packets that are shown: those of the type of the first one.
Kept == {j \in DOMAIN arrived :
           /\ arrived[j].bytes # <<>> /\ Shown(arrived[j])
           /\ \E i \in 1 .. j : First(i) /\ arrived[i].bytes[1] = arrived[j].bytes[1]}

\* What VideoUnpacker publishes are the packets it got of the type of the first
\* one, all of them, in order, with every part as it was packed; packets of
\* another type are never unpacked, however many come and whatever the first one
\* was.
Unpacked ==
    \E from \in [DOMAIN published -> Kept] :
        /\ \A i, k \in DOMAIN published : i < k => from[i] < from[k]
        /\ \A j \in Kept : \E i \in DOMAIN published : from[i] = j
        /\ \A i \in DOMAIN published : published[i] = arrived[from[i]].parts

\* The camera data packed with an image is from after the previous image was
\* published: it may be older than the image, but never by more than one image.
CameraFresh == packing = "consume" /\ "packer" \in shares => floor <= snapshot
=============================================================================
