------------------------------ MODULE FlvReader ------------------------------
(***************************************************************************)
(* RTMP_Read of src/librtmp/rtmp.c: the media packets of a stream become   *)
(* the bytes of an FLV file, handed to the program in pieces of the size   *)
(* it asks for.  Read_1_Packet makes the tags of one packet; what does not *)
(* fit into the program's buffer waits in m_read.buf.  A program that      *)
(* resumes a download names the last keyframe it has, and gets what comes  *)
(* after it; a program that seeks gets what comes after the server's note. *)
(*                                                                         *)
(* A tag is two pieces, <<id, 1>> and <<id, 2>>, the header of the file is *)
(* one.  A packet of type "flv" (0x16) holds several tags, all others one. *)
(* The server is external: its packets have rising timestamps, and the     *)
(* first of them may be anything up to the keyframe.                       *)
(***************************************************************************)
EXTENDS FiniteSetsExt, SequencesExt, Integers

CONSTANTS
    Sizes,             \* what the program asks for
    MaxPackets,        \* bound: packets of the stream
    MaxSeeks,          \* bound: seeks of the program
    MAX_IGNORED_FRAMES

VARIABLES
    resume,       \* RTMP_READ_RESUME, set by the program before it reads
    flags,        \* m_read.flags, the others
    status,       \* m_read.status
    timestamp,    \* m_read.timestamp
    dataType,     \* m_read.dataType: which of audio and video came
    ignored,      \* nIgnoredFrameCounter and nIgnoredFlvFrameCounter
    buf,          \* m_read.buf from bufpos on
    pc, room,     \* inside RTMP_Read: where, and the room left in the program's buffer
    out,          \* everything the program was given
    packets, tags, lastTs,   \* the server: packets and tags sent, last timestamp
    keyed,        \* <<kind, time>>: the keyframe came in a packet of this kind ("plain", "flv")
    due,          \* what the program should be given since the last seek
    from,         \* how much it had been given at the last seek
    seeks

reader == <<flags, status, timestamp, dataType, ignored>>
stream == <<packets, tags, lastTs, keyed, due>>
vars == <<resume, reader, buf, pc, room, out, stream, from, seeks>>

Init ==
    /\ resume \in BOOLEAN
    /\ flags = {} /\ status = "ok" /\ timestamp = 0 /\ dataType = {}
    /\ ignored = [plain |-> 0, flv |-> 0]
    /\ buf = <<>> /\ pc = "idle" /\ room = 0 /\ out = <<>>
    /\ packets = 0 /\ tags = 0 /\ lastTs = 0 /\ keyed = {} /\ due = <<>>
    /\ from = 0 /\ seeks = 0

TagBytes(ts) == FlattenSeq([k \in 1 .. Len(ts) |-> <<<<ts[k].id, 1>>, <<ts[k].id, 2>>>>])
FlvHeader == <<<<0, 1>>>>

-----------------------------------------------------------------------------
(* The server: what RTMP_GetNextMediaPacket returns next. *)

Tag(key, n) == [id |-> tags + n, key |-> key]

Packet ==
    {[type |-> type, ts |-> ts, small |-> small, tags |-> <<Tag(key, 1)>>] :
        type \in {"audio", "video"}, ts \in lastTs .. 1, small \in BOOLEAN, key \in BOOLEAN}
    \union {[type |-> "flv", ts |-> ts, small |-> FALSE, tags |-> <<Tag(a, 1), Tag(b, 2)>>] :
        ts \in lastTs .. 1, a \in BOOLEAN, b \in BOOLEAN}

\* The keyframe is a video frame.  At time 0 it comes once as a packet and once in an
\* FLV packet; at a later position there is only one copy.
KindOf(p) == IF p.type = "flv" THEN "flv" ELSE "plain"

Possible(p) ==
    LET keys == {k \in DOMAIN p.tags : p.tags[k].key} IN
    keys # {} =>
        /\ resume /\ p.type # "audio" /\ ~p.small
        /\ Cardinality(keys) = 1
        /\ \A q \in keyed : q[2] = 0 /\ p.ts = 0 /\ q[1] # KindOf(p)

\* What the program should be given of a packet: all of it, or when it resumes
\* what comes after the keyframe; at time 0 the server repeats what it has.
AfterKey(ts) ==
    LET keys == {k \in DOMAIN ts : ts[k].key}
    IN IF keys = {} THEN <<>> ELSE SubSeq(ts, Min(keys) + 1, Len(ts))

Wanted(p) ==
    IF p.small \/ "SEEKING" \in flags THEN <<>>
    ELSE IF ~resume \/ (keyed # {} /\ p.ts > 0) THEN p.tags
    ELSE IF p.type # "flv" THEN <<>>
    ELSE IF <<"flv", 0>> \in keyed THEN p.tags ELSE AfterKey(p.tags)

Arrive(p) ==
    /\ packets' = packets + 1
    /\ tags' = tags + Len(p.tags)
    /\ lastTs' = p.ts
    /\ keyed' = IF (\E k \in DOMAIN p.tags : p.tags[k].key) /\ "SEEKING" \notin flags
                THEN keyed \union {<<KindOf(p), p.ts>>} ELSE keyed
    /\ due' = due \o TagBytes(Wanted(p))

-----------------------------------------------------------------------------
(* Read_1_Packet, for a packet that is there. *)

\* The keyframe of a packet at time 0, when the program resumes.
FindsKey(p) == resume /\ p.ts = 0 /\ \E k \in DOMAIN p.tags : p.tags[k].key

\* Faulty: each kind of packet waits for its own keyframe.
FoundOfItsKind(p) ==
    IF resume /\ FindsKey(p)
    THEN flags \union {IF p.type = "flv" THEN "GOTFLVK" ELSE "GOTKF"} ELSE flags

\* The flags once the search for the keyframe is over.  A packet later than time
\* 0 is accepted whatever its kind when the keyframe was found in either kind.
Found(p) ==
    IF ~resume THEN flags
    ELSE IF FindsKey(p) THEN flags \union {IF p.type = "flv" THEN "GOTFLVK" ELSE "GOTKF"}
    ELSE IF p.ts > 0 /\ flags \cap {"GOTKF", "GOTFLVK"} # {}
    THEN flags \union {"GOTKF", "GOTFLVK"} ELSE flags

Media(p, f, ts) == [ret |-> "media", flags |-> f, bytes |-> TagBytes(ts), kind |-> "none"]
Nothing(ret, f, kind) == [ret |-> ret, flags |-> f, bytes |-> <<>>, kind |-> kind]

ReadOnePacket(p) ==
    LET f     == Found(p)
        plain == p.type # "flv"
        kind  == IF plain THEN "plain" ELSE "flv"
    IN IF p.small \/ "SEEKING" \in flags THEN Nothing("ignore", flags, "none")
       ELSE IF ~resume THEN Media(p, f, p.tags)
       ELSE IF FindsKey(p) /\ plain THEN Nothing("ignore", f, "none")
       ELSE IF (IF plain THEN "GOTKF" ELSE "GOTFLVK") \notin f
       THEN Nothing(IF ~plain /\ p.ts = 0 THEN "ignore"
                    ELSE IF ignored[kind] + 1 > MAX_IGNORED_FRAMES THEN "error" ELSE "ignore",
                    f, IF ~plain /\ p.ts = 0 THEN "none" ELSE kind)
       ELSE IF ~plain THEN Media(p, f, IF FindsKey(p) THEN AfterKey(p.tags) ELSE p.tags)
       ELSE IF "NO_IGNORE" \notin f /\ p.ts = 0 THEN Nothing("ignore", f, "none")
       ELSE Media(p, f \union {"NO_IGNORE"}, p.tags)

\* What it changes whatever comes of the packet.
After(p, r) ==
    /\ flags' = r.flags
    /\ ignored' = IF r.kind = "none" THEN ignored ELSE [ignored EXCEPT ![r.kind] = @ + 1]
    /\ dataType' = IF p.type = "flv" THEN (IF r.ret = "media" THEN dataType \union {"video"}
                                           ELSE dataType)
                   ELSE dataType \union {p.type}
    /\ timestamp' = IF r.ret = "media" THEN p.ts ELSE timestamp

-----------------------------------------------------------------------------
(* RTMP_Read. *)

\* Faulty: what is left over is handed out after a seek, too.
LeftoverAlways == buf

\* The last part: what is left over first, unless a seek made it worthless.
Leftover == IF "SEEKING" \in flags THEN <<>> ELSE buf

HandOut(n) ==
    LET some == Min({n, Len(Leftover)}) IN
    /\ out' = out \o SubSeq(Leftover, 1, some)
    /\ buf' = SubSeq(Leftover, some + 1, Len(Leftover))
    /\ room' = n - some
    /\ pc' = IF n > some THEN "packet" ELSE "idle"
    /\ IF "SEEKING" \in flags
       THEN /\ due' = <<>> /\ from' = Len(out)
       ELSE UNCHANGED <<due, from>>

Read(n) ==
    /\ pc = "idle" /\ status = "ok"
    /\ \/ /\ "HEADER" \notin flags /\ ~resume
          /\ pc' = "header" /\ room' = n
          /\ buf' = FlvHeader /\ due' = FlvHeader
          /\ UNCHANGED <<flags, out, from>>
       \/ /\ "HEADER" \in flags \/ resume
          /\ flags' = flags \union {"HEADER"}
          /\ HandOut(n)
    /\ UNCHANGED <<resume, status, timestamp, dataType, ignored, packets, tags, lastTs,
                   keyed, seeks>>

\* The first packets are collected until one is later than time 0 or both audio
\* and video came: the header of the file says which there are.
HeaderPacket ==
    /\ pc = "header" /\ packets < MaxPackets
    /\ \E p \in Packet :
          /\ Possible(p) /\ Arrive(p)
          /\ LET r == ReadOnePacket(p) IN
                /\ After(p, r)
                /\ buf' = buf \o r.bytes
          /\ pc' = IF timestamp' # 0 \/ dataType' = {"audio", "video"} THEN "collected" ELSE pc
    /\ UNCHANGED <<resume, status, room, out, from, seeks>>

HeaderCollected ==
    /\ pc = "collected"
    /\ flags' = flags \union {"HEADER"}
    /\ HandOut(room)
    /\ UNCHANGED <<resume, status, timestamp, dataType, ignored, packets, tags, lastTs,
                   keyed, seeks>>

\* What of a packet does not fit waits in the buffer; it is made there when it
\* might not fit.
FitsIn(bytes) == Len(bytes) + 1 <= room

OnePacket ==
    /\ pc = "packet" /\ packets < MaxPackets
    /\ \E p \in Packet :
          /\ Possible(p) /\ Arrive(p)
          /\ LET r    == ReadOnePacket(p)
                 some == IF FitsIn(r.bytes) THEN Len(r.bytes) ELSE Min({room, Len(r.bytes)})
             IN /\ After(p, r)
                /\ out' = out \o SubSeq(r.bytes, 1, some)
                /\ buf' = IF FitsIn(r.bytes) THEN buf
                          ELSE SubSeq(r.bytes, some + 1, Len(r.bytes))
                /\ status' = IF r.ret = "error" THEN "error" ELSE status
                /\ pc' = IF r.ret = "ignore" \/ (r.ret = "media" /\ r.bytes = <<>>)
                         THEN pc ELSE "idle"
    /\ UNCHANGED <<resume, room, from, seeks>>

\* The stream is complete, or there is no more: while the header is still being
\* made, what was collected is thrown away.
NoMore ==
    /\ pc \in {"header", "packet"}
    /\ status' \in {"complete", "eof"}
    /\ buf' = IF pc = "header" THEN <<>> ELSE buf
    /\ pc' = "idle"
    /\ UNCHANGED <<resume, flags, timestamp, dataType, ignored, room, out, stream, from, seeks>>

\* The program seeks (RTMP_SendSeek); the server's note ends the seek while the
\* client looks for the next packet.
SendSeek ==
    /\ pc = "idle" /\ ~resume /\ seeks < MaxSeeks /\ "HEADER" \in flags
    /\ seeks' = seeks + 1
    /\ flags' = flags \union {"SEEKING"}
    /\ UNCHANGED <<resume, status, timestamp, dataType, ignored, buf, pc, room, out, stream, from>>

SeekNotify ==
    /\ pc = "packet" /\ "SEEKING" \in flags
    /\ flags' = flags \ {"SEEKING"}
    /\ UNCHANGED <<resume, status, timestamp, dataType, ignored, buf, pc, room, out, stream,
                   from, seeks>>

Next ==
    \/ \E n \in Sizes : Read(n)
    \/ HeaderPacket \/ HeaderCollected \/ OnePacket \/ NoMore \/ SendSeek \/ SeekNotify

Spec == Init /\ [][Next]_vars

-----------------------------------------------------------------------------
(* Properties. *)

\* What the program was given since the last seek, or will be given from the buffer.
Given == SubSeq(out, from + 1, Len(out)) \o buf

\* The keyframe came at a later position than time 0.
KeyCameLate == \E q \in keyed : q[2] > 0

\* Between two calls of RTMP_Read the program was given, or will be given from the
\* buffer, exactly the tags that it should have, in their order, once, whatever
\* the pieces it asks for: all of them, those behind the keyframe it resumes at,
\* or since the last seek those that came after the server's note
\* (rtmp.c:3705-4171, 4180-4290).  The keyframe is looked for in packets of time 0
\* only (rtmp.c:3769), although the comments at rtmp.c:3942 and 3974 count on one
\* that comes later: then the program is given nothing at all.
GetsItsTags ==
    pc = "idle" /\ "HEADER" \in flags => Given = IF KeyCameLate THEN <<>> ELSE due
=============================================================================
