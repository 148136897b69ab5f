------------------------------- MODULE RtmpAmf -------------------------------
(***************************************************************************)
(* librtmp's Action Message Format (src/librtmp/amf.c) and two of its uses *)
(* in rtmp.c: the "conn" options (parseAMF), which become an object that   *)
(* the connect packet carries to the server, and HandleMetadata, which     *)
(* searches an object that the server sent.                                *)
(*                                                                         *)
(* A buffer is the sequence of its bytes and always a whole message.  A    *)
(* property is [name, type, value, props]: its value is the 8 bytes of a   *)
(* double in the machine's order, a number, or the characters of a string. *)
(* Names are one or two bytes and stand for words.                         *)
(***************************************************************************)
EXTENDS Integers, Sequences, SequencesExt

CONSTANTS LongSize,     \* 65536 in the code: the length from which a string is a long one
          Room,         \* 4096 in the code: the size of the buffer of a packet
          MaxOptions    \* bound: the options of a URL

VARIABLES given,        \* the options that RTMP_SetOpt took
          extras,       \* r->Link.extras
          edepth,       \* r->Link.edepth
          message,      \* what the server sends
          wire,         \* the bytes of the message under way
          room,         \* what the rest of the packet leaves to it
          heard,        \* the properties that its receiver decoded
          metadata      \* r->m_fDuration and the bits of r->m_read.dataType

vars == <<given, extras, edepth, message, wire, room, heard, metadata>>

AMF == [NUMBER |-> 0, BOOLEAN |-> 1, STRING |-> 2, OBJECT |-> 3, NULL |-> 5, UNDEFINED |-> 6,
        REFERENCE |-> 7, ECMA_ARRAY |-> 8, OBJECT_END |-> 9, STRICT_ARRAY |-> 10, DATE |-> 11,
        LONG_STRING |-> 12, UNSUPPORTED |-> 13, AVMPLUS |-> 17, INVALID |-> 255]

AMF3 == [UNDEFINED |-> 0, NULL |-> 1, False |-> 2, True |-> 3, INTEGER |-> 4, DOUBLE |-> 5,
         STRING |-> 6, XML_DOC |-> 7, DATE |-> 8, OBJECT |-> 10, XML |-> 11]

Prop(name, type, value, props) == [name |-> name, type |-> type, value |-> value, props |-> props]
Scalar(type, value) == Prop(<<>>, type, value, <<>>)
Tree(type, props) == Prop(<<>>, type, <<>>, props)
Named(name, prop) == [prop EXCEPT !.name = name]
Null == Scalar(AMF.NULL, <<>>)
-----------------------------------------------------------------------------
(* The encoder: the bytes written, or NoRoom where the code returns NULL.   *)
NoRoom == <<-1>>
Int16(n) == <<n \div 256, n % 256>>
Int24(n) == <<n \div 65536>> \o Int16(n % 65536)
Int32(n) == <<n \div 16777216>> \o Int24(n % 16777216)
End == Int24(AMF.OBJECT_END)

EncodeString(s, space) ==
    IF space < 1 + 4 + Len(s) THEN NoRoom
    ELSE IF Len(s) < LongSize THEN <<AMF.STRING>> \o Int16(Len(s)) \o s
    ELSE <<AMF.LONG_STRING>> \o Int32(Len(s)) \o s

EncodeNumber(double, space) ==
    IF space < 1 + 8 THEN NoRoom ELSE <<AMF.NUMBER>> \o Reverse(double)

EncodeBoolean(b, space) == IF space < 2 THEN NoRoom ELSE <<AMF.BOOLEAN, b>>

\* Adds a part that is NoRoom where it does not fit.
Joined(bytes, part) == IF part = NoRoom THEN NoRoom ELSE bytes \o part

RECURSIVE EncodeObject(_, _), EncodeProp(_, _)

\* Faulty: goes on with the next property after one that does not fit.
EncodeObjectOn(props, space) ==
    LET add(out, prop) ==
            LET bytes == EncodeProp(prop, space - Len(out))
            IN  IF bytes = NoRoom THEN out ELSE out \o bytes
        out == FoldLeft(add, <<AMF.OBJECT>>, props)
    IN  IF space <= 4 \/ Len(out) + 3 >= space THEN NoRoom ELSE out \o End

\* A property that does not fit ends the object; the ones before it are kept.
EncodeObject(props, space) ==
    LET add(acc, prop) ==
            LET bytes == EncodeProp(prop, space - Len(acc.out))
            IN  IF acc.full \/ bytes = NoRoom THEN [acc EXCEPT !.full = TRUE]
                ELSE [acc EXCEPT !.out = @ \o bytes]
        out == FoldLeft(add, [out |-> <<AMF.OBJECT>>, full |-> FALSE], props).out
    IN  IF space <= 4 \/ Len(out) + 3 >= space THEN NoRoom ELSE out \o End

EncodeProp(prop, space) ==
    LET name == IF prop.name = <<>> THEN <<>> ELSE Int16(Len(prop.name)) \o prop.name
        left == space - Len(name)
    IN  IF prop.type = AMF.NULL THEN (IF space <= 1 THEN NoRoom ELSE <<AMF.NULL>>)
        ELSE IF Len(prop.name) + 2 + 1 >= space THEN NoRoom
        ELSE Joined(name,
             CASE prop.type = AMF.NUMBER -> EncodeNumber(prop.value, left)
               [] prop.type = AMF.BOOLEAN -> EncodeBoolean(prop.value[1], left)
               [] prop.type = AMF.STRING -> EncodeString(prop.value, left)
               [] prop.type = AMF.OBJECT -> EncodeObject(prop.props, left)
               [] OTHER -> NoRoom)
-----------------------------------------------------------------------------
(* The decoder: what was read and the bytes after it, or Failed for -1.     *)
Failed == [ok |-> FALSE, read |-> Null, rest |-> <<>>]
Read(read, rest) == [ok |-> TRUE, read |-> read, rest |-> rest]
Drop(p, n) == SubSeq(p, n + 1, Len(p))

DecodeInt16(p) == 256 * p[1] + p[2]
DecodeInt24(p) == 256 * DecodeInt16(p) + p[3]
DecodeInt32(p) == 256 * DecodeInt24(p) + p[4]
DecodeNumber(p) == Reverse(SubSeq(p, 1, 8))

\* A string whose length takes n bytes.
DecodeString(p, length, n) ==
    IF Len(p) < length + n THEN Failed
    ELSE Read(Scalar(AMF.STRING, SubSeq(p, n + 1, n + length)), Drop(p, n + length))

\* Four bytes carry 29 bits, 7 in each of the first three; the fourth is a signed char.
AMF3ReadInteger(p) ==
    LET n == CHOOSE i \in 1..4 : (i = 4 \/ p[i] < 128) /\ \A j \in 1..i - 1 : p[j] >= 128
        high == FoldLeft(LAMBDA val, byte : 128 * val + (byte % 128), 0, SubSeq(p, 1, n - 1))
        val == IF n < 4 THEN 128 * high + p[n]
               ELSE IF p[4] >= 128 THEN p[4] - 256 ELSE 256 * high + p[4]
    IN  [val |-> IF val > 268435455 THEN val - 536870912 ELSE val, rest |-> Drop(p, n)]

\* References are not supported, and leave the string as it was.
AMF3ReadString(p) ==
    LET int == AMF3ReadInteger(p)
        size == int.val \div 2
    IN  [str |-> SubSeq(int.rest, 1, size), rest |-> Drop(int.rest, size)]

RECURSIVE AMF3_Decode(_, _), AMF3PropDecode(_), AMF3Dynamic(_, _, _)

AMF3Number(int) == Read(Scalar(AMF.NUMBER, <<int.val>>), int.rest)
AMF3String(s) == Read(Scalar(AMF.STRING, s.str), s.rest)
AMF3Double(p) == IF Len(p) < 8 THEN Failed ELSE Read(Scalar(AMF.NUMBER, DecodeNumber(p)), Drop(p, 8))

\* A value of AMF3, without its name.
AMF3PropDecode(p) ==
    LET type == p[1]
        q == Tail(p)
    IN  CASE p = <<>> -> Failed
          [] type \in {AMF3.UNDEFINED, AMF3.NULL} -> Read(Null, q)
          [] type = AMF3.False -> Read(Scalar(AMF.BOOLEAN, <<0>>), q)
          [] type = AMF3.True -> Read(Scalar(AMF.BOOLEAN, <<1>>), q)
          [] type = AMF3.INTEGER -> AMF3Number(AMF3ReadInteger(q))
          [] type = AMF3.DOUBLE -> AMF3Double(q)
          [] type \in {AMF3.STRING, AMF3.XML_DOC, AMF3.XML} -> AMF3String(AMF3ReadString(q))
          [] type = AMF3.DATE -> AMF3Double(AMF3ReadInteger(q).rest)
          [] type = AMF3.OBJECT -> AMF3_Decode(q, TRUE)
          [] OTHER -> Failed

\* The dynamic members: the empty name that ends them is added too, as a property without
\* a name that repeats the one before.  The code steps back where a member fails.
AMF3DynamicAfter(name, member, props) ==
    LET prop == Named(name, member.read)
    IN  IF ~member.ok THEN Failed ELSE AMF3Dynamic(member.rest, Append(props, prop), prop)

AMF3Dynamic(p, props, last) ==
    LET name == AMF3ReadString(p)
    IN  IF name.str = <<>> THEN Read(Tree(AMF.OBJECT, Append(props, Named(<<>>, last))), name.rest)
        ELSE AMF3DynamicAfter(name.str, AMF3PropDecode(name.rest), props)

DEFAULT_ATTRIBUTE == <<68>>

\* An externalizable object has one member; one that cannot be read is left in the bytes.
AMF3External(member, p) ==
    Read(Tree(AMF.OBJECT, <<Named(DEFAULT_ATTRIBUTE, member.read)>>),
         IF member.ok THEN member.rest ELSE p)

\* The traits of an instance: externalizable, dynamic, and the number of sealed members,
\* which is 0 here: the loop that reads their names never ends (amf.c:991-999).
AMF3Instance(traits, p) ==
    CASE traits % 2 = 1 -> AMF3External(AMF3PropDecode(p), p)
      [] traits % 4 = 2 -> AMF3Dynamic(p, <<>>, Scalar(AMF.INVALID, <<>>))
      [] traits % 4 = 0 -> Read(Tree(AMF.OBJECT, <<>>), p)

\* Object and class references are read and give an empty object.
AMF3_Decode(p, isAMFData) ==
    LET ref == AMF3ReadInteger(IF isAMFData THEN Tail(p) ELSE p)
    IN  IF ref.val % 4 = 3 THEN AMF3Instance(ref.val \div 4, AMF3ReadString(ref.rest).rest)
        ELSE Read(Tree(AMF.OBJECT, <<>>), ref.rest)
-----------------------------------------------------------------------------
RECURSIVE AMF_Decode(_, _, _, _), PropDecode(_, _), ArrayDecode(_, _, _)

AMF_DecodeAfter(r, p, named, props) ==
    IF r.ok THEN AMF_Decode(r.rest, named, Append(props, r.read), FALSE)
    ELSE AMF_Decode(p, named, props, TRUE)

\* Faulty: the end of an object that could not be read leaves the error standing.
AMF_DecodeStrict(p, named, props, error) ==
    IF p = <<>> THEN IF error THEN Failed ELSE Read(Tree(AMF.OBJECT, props), p)
    ELSE IF Len(p) >= 3 /\ SubSeq(p, 1, 3) = End
         THEN IF error THEN Failed ELSE Read(Tree(AMF.OBJECT, props), Drop(p, 3))
    ELSE IF error THEN AMF_Decode(Tail(p), named, props, TRUE)
    ELSE AMF_DecodeAfter(PropDecode(p, named), p, named, props)

\* After a property that cannot be read the bytes are skipped to the next end of an object.
AMF_Decode(p, named, props, error) ==
    CASE p = <<>> -> IF error THEN Failed ELSE Read(Tree(AMF.OBJECT, props), p)
      [] p # <<>> /\ Len(p) >= 3 /\ SubSeq(p, 1, 3) = End ->
           Read(Tree(AMF.OBJECT, props), Drop(p, 3))
      [] OTHER ->
           IF error THEN AMF_Decode(Tail(p), named, props, TRUE)
           ELSE AMF_DecodeAfter(PropDecode(p, named), p, named, props)

\* Values without names.
ArrayDecodeAfter(r, length, props) ==
    IF r.ok THEN ArrayDecode(r.rest, length, Append(props, r.read)) ELSE Failed

ArrayDecode(p, length, props) ==
    IF length = 0 THEN Read(Tree(AMF.OBJECT, props), p)
    ELSE ArrayDecodeAfter(PropDecode(p, FALSE), length - 1, props)

\* A value: what AMFProp_Decode does after the name.
ValueDecode(type, p) ==
    CASE type = AMF.NUMBER ->
           IF Len(p) < 8 THEN Failed ELSE Read(Scalar(type, DecodeNumber(p)), Drop(p, 8))
      [] type = AMF.BOOLEAN ->
           IF p = <<>> THEN Failed ELSE Read(Scalar(type, <<IF p[1] = 0 THEN 0 ELSE 1>>), Tail(p))
      [] type = AMF.STRING -> IF Len(p) < 2 THEN Failed ELSE DecodeString(p, DecodeInt16(p), 2)
      [] type = AMF.LONG_STRING -> IF Len(p) < 4 THEN Failed ELSE DecodeString(p, DecodeInt32(p), 4)
      [] type = AMF.OBJECT -> AMF_Decode(p, TRUE, <<>>, FALSE)
      [] type = AMF.ECMA_ARRAY -> AMF_Decode(Drop(p, 4), TRUE, <<>>, FALSE)
      [] type = AMF.STRICT_ARRAY -> ArrayDecode(Drop(p, 4), DecodeInt32(p), <<>>)
      [] type \in {AMF.NULL, AMF.UNDEFINED, AMF.UNSUPPORTED} -> Read(Null, p)
      [] type = AMF.DATE ->
           IF Len(p) < 10 THEN Failed ELSE Read(Scalar(type, DecodeNumber(p)), Drop(p, 10))
      [] type = AMF.AVMPLUS -> AMF3_Decode(p, TRUE)
      [] OTHER -> Failed

WithName(name, r) == IF r.ok THEN [r EXCEPT !.read.name = name] ELSE Failed

PropDecode(p, named) ==
    LET size == IF named THEN DecodeInt16(p) ELSE 0
        q == IF named THEN Drop(p, 2 + size) ELSE p
    IN  IF named /\ (Len(p) < 4 \/ size > Len(p) - 2) THEN Failed
        ELSE IF q = <<>> THEN Failed
        ELSE WithName(IF named THEN SubSeq(p, 3, 2 + size) ELSE <<>>, ValueDecode(q[1], Tail(q)))
-----------------------------------------------------------------------------
(* The options conn=B:1, conn=O:1, conn=NN:code:1.23, conn=O:0 and so on: a value without a  *)
(* name stands outside the objects, one with a name inside (parseAMF refuses the latter; the *)
(* former is written without a name and cannot be read in an object).                        *)
One == <<0, 0, 0, 0, 0, 0, 240, 63>>
Two == <<0, 0, 0, 0, 0, 0, 0, 64>>
Open == Tree(AMF.OBJECT, <<>>)
Close == Scalar(AMF.OBJECT_END, <<>>)
Values == {Scalar(AMF.NUMBER, One), Scalar(AMF.BOOLEAN, <<1>>),
           Scalar(AMF.STRING, <<>>), Scalar(AMF.STRING, <<120, 121, 122, 120>>)}
Options == IF edepth = 0 THEN Values \cup {Null, Open}
           ELSE {Named(<<110>>, v) : v \in Values \cup {Open}} \cup {Close}

RECURSIVE AddedAt(_, _, _)

\* Faulty: at every depth the option goes to the first object.
AddedToFirst(props, depth, prop) ==
    IF depth = 0 THEN Append(props, prop)
    ELSE [props EXCEPT ![1].props = AddedAt(@, depth - 1, prop)]

\* AMF_AddProp to the object that is open: the last one at each depth.
AddedAt(props, depth, prop) ==
    IF depth = 0 THEN Append(props, prop)
    ELSE [props EXCEPT ![Len(props)].props = AddedAt(@, depth - 1, prop)]

NotHeard == [Failed EXCEPT !.rest = NoRoom]

Init ==
    /\ given = <<>> /\ extras = <<>> /\ edepth = 0
    /\ message = <<>> /\ wire = <<>> /\ room = 0 /\ heard = NotHeard
    /\ metadata = [duration |-> <<>>, video |-> FALSE, audio |-> FALSE]

\* RTMP_SetOpt with a "conn" option.
parseAMF ==
    /\ message = <<>> /\ wire = <<>> /\ Len(given) < MaxOptions
    /\ \E option \in Options :
           /\ given' = Append(given, option)
           /\ IF option = Close
              THEN edepth' = edepth - 1 /\ extras' = extras
              ELSE /\ extras' = AddedAt(extras, edepth, option)
                   /\ edepth' = IF option.type = AMF.OBJECT THEN edepth + 1 ELSE edepth
    /\ UNCHANGED <<message, wire, room, heard, metadata>>

\* The end of SendConnectPacket: the packet is not sent where a property does not fit.
SendExtras ==
    /\ extras # <<>> /\ message = <<>> /\ wire = <<>>
    /\ room' \in 1..Room
    /\ LET add(out, prop) == IF out = NoRoom THEN NoRoom
                             ELSE Joined(out, EncodeProp(prop, room' - Len(out)))
       IN  wire' = FoldLeft(add, <<>>, extras)
    /\ UNCHANGED <<given, extras, edepth, message, heard, metadata>>

\* The server reads the format as AMF_Decode does.
ServerHears ==
    /\ message = <<>> /\ wire \notin {<<>>, NoRoom} /\ heard = NotHeard
    /\ heard' = AMF_Decode(wire, FALSE, <<>>, FALSE)
    /\ UNCHANGED <<given, extras, edepth, message, wire, room, metadata>>
-----------------------------------------------------------------------------
(* What a server writes.  The types of AMF3 are counted from 100.            *)
AsAMF3(type) == 100 + type
Integer(n) == Scalar(AsAMF3(AMF3.INTEGER), <<n>>)
Dynamic == <<11>>
External == <<7>>

WriteInteger(n) ==
    LET u == n % 536870912
        low(k) == (u \div k) % 128
    IN  CASE u < 128 -> <<u>>
          [] u \in 128..16383 -> <<128 + low(128), low(1)>>
          [] u \in 16384..2097151 -> <<128 + low(16384), 128 + low(128), low(1)>>
          [] OTHER -> <<128 + low(4194304), 128 + low(32768), 128 + low(256), u % 256>>
WriteString(s) == WriteInteger(2 * Len(s) + 1) \o s

\* A value of AMF3 with its type.
Write3(v) ==
    <<v.type - 100>> \o
    CASE v.type = AsAMF3(AMF3.INTEGER) -> WriteInteger(v.value[1])
      [] v.type = AsAMF3(AMF3.DOUBLE) -> Reverse(v.value)
      [] v.type = AsAMF3(AMF3.DATE) -> <<1>> \o Reverse(v.value)
      [] v.type = AsAMF3(AMF3.STRING) -> WriteString(v.value)
      [] OTHER -> <<>>

RECURSIVE WriteValue(_)
WriteMembers(props) ==
    FlattenSeq([i \in DOMAIN props |->
        Int16(Len(props[i].name)) \o props[i].name \o WriteValue(props[i])]) \o End
WriteValue(v) ==
    <<v.type>> \o
    CASE v.type \in {AMF.NUMBER, AMF.DATE} -> Reverse(v.value) \o (IF v.type = AMF.DATE THEN <<0, 60>> ELSE <<>>)
      [] v.type = AMF.BOOLEAN -> v.value
      [] v.type = AMF.STRING -> Int16(Len(v.value)) \o v.value
      [] v.type = AMF.LONG_STRING -> Int32(Len(v.value)) \o v.value
      [] v.type = AMF.REFERENCE -> <<0, 1>>
      [] v.type = AMF.OBJECT -> WriteMembers(v.props)
      [] v.type = AMF.ECMA_ARRAY -> Int32(Len(v.props)) \o WriteMembers(v.props)
      [] v.type = AMF.STRICT_ARRAY ->
           Int32(Len(v.props)) \o FlattenSeq([i \in DOMAIN v.props |-> WriteValue(v.props[i])])
      [] v.type = AMF.AVMPLUS ->
           <<AMF3.OBJECT>> \o v.value \o WriteString(<<>>) \o
           (IF v.value = External THEN Write3(v.props[1])
            ELSE FlattenSeq([i \in DOMAIN v.props |->
                     WriteString(v.props[i].name) \o Write3(v.props[i])]) \o WriteString(<<>>))
      [] OTHER -> <<>>

onMetaData == Scalar(AMF.STRING, <<111>>)
duration == <<100>>
video == <<118>>
audio == <<97>>
Leaves == {Scalar(AMF.NUMBER, One), Scalar(AMF.BOOLEAN, <<1>>), Scalar(AMF.STRING, <<120>>),
           Scalar(AMF.LONG_STRING, <<120, 121>>), Null, Scalar(AMF.UNDEFINED, <<>>),
           Scalar(AMF.UNSUPPORTED, <<>>), Scalar(AMF.DATE, Two), Scalar(AMF.REFERENCE, <<>>)}
Leaves3 == {Integer(0), Integer(127), Integer(16384), Integer(2097152), Integer(-256),
            Scalar(AsAMF3(AMF3.True), <<>>), Scalar(AsAMF3(AMF3.NULL), <<>>),
            Scalar(AsAMF3(AMF3.DOUBLE), Two), Scalar(AsAMF3(AMF3.DATE), Two),
            Scalar(AsAMF3(AMF3.STRING), <<120>>)}
NamedLeaves == {Named(<<118, 99>>, v) : v \in Leaves}
    \cup {Named(name, Scalar(AMF.NUMBER, d)) : name \in {duration, video, <<97, 99>>}, d \in {One, Two}}
Objects(members) == {Tree(type, props) : type \in {AMF.OBJECT, AMF.ECMA_ARRAY}, props \in members}
Inner ==
    Objects({<<>>} \cup {<<p>> : p \in NamedLeaves})
    \cup {Tree(AMF.STRICT_ARRAY, <<p, Scalar(AMF.NUMBER, One)>>) : p \in Leaves}
    \cup {Prop(<<>>, AMF.AVMPLUS, Dynamic, <<Named(duration, v), Named(<<97, 99>>, w)>>) :
               v \in {Integer(-256), Scalar(AsAMF3(AMF3.DOUBLE), Two)}, w \in Leaves3}
    \cup {Prop(<<>>, AMF.AVMPLUS, External, <<v>>) : v \in Leaves3}
Members == NamedLeaves \cup {Named(<<119>>, v) : v \in Inner}
Unreadable(v) ==
    \/ v.type = AMF.REFERENCE
    \/ v.type = AMF.STRICT_ARRAY /\ \E i \in DOMAIN v.props : v.props[i].type = AMF.REFERENCE

\* One or two members in an object; what cannot be read is not followed by an object, whose
\* end the decoder would take for the end it looks for.  Then a number.
Messages ==
    LET pairs == Members \X NamedLeaves \cup
                 {<<p, q>> \in NamedLeaves \X Members : ~Unreadable(p)}
    IN  {<<first, tree, Scalar(AMF.NUMBER, Two)>> :
            first \in {onMetaData, Scalar(AMF.STRING, <<120>>)}, tree \in Objects(pairs)}

ServerSends ==
    /\ given = <<>> /\ message = <<>>
    /\ message' \in Messages
    /\ wire' = FlattenSeq([i \in DOMAIN message' |-> WriteValue(message'[i])])
    /\ UNCHANGED <<given, extras, edepth, room, heard, metadata>>
-----------------------------------------------------------------------------
NotFound == <<>>

RECURSIVE FirstMatching(_, _), PrefixFound(_, _)

\* RTMP_FindFirstMatchingProperty: <<the property>> or NotFound.
FirstMatching(props, name) ==
    LET search(found, prop) ==
            IF found # NotFound THEN found
            ELSE IF prop.name = name THEN <<prop>>
            ELSE IF prop.type = AMF.OBJECT THEN FirstMatching(prop.props, name)
            ELSE NotFound
    IN  FoldLeft(search, NotFound, props)

\* Faulty: the name itself counts.
PrefixOrSame(props, name) ==
    \E i \in DOMAIN props :
        \/ IsPrefix(name, props[i].name)
        \/ props[i].type = AMF.OBJECT /\ PrefixFound(props[i].props, name)

PrefixFound(props, name) ==
    \E i \in DOMAIN props :
        \/ IsStrictPrefix(name, props[i].name)
        \/ props[i].type = AMF.OBJECT /\ PrefixFound(props[i].props, name)

HandleMetadata ==
    /\ message # <<>> /\ heard = NotHeard
    /\ heard' = AMF_Decode(wire, FALSE, <<>>, FALSE)
    /\ LET obj == heard'.read.props
           found == FirstMatching(obj, duration)
       IN  metadata' = IF ~heard'.ok \/ obj[1].value # onMetaData.value THEN metadata
                       ELSE [duration |-> IF found = NotFound THEN metadata.duration ELSE found[1].value,
                             video |-> PrefixFound(obj, video), audio |-> PrefixFound(obj, audio)]
    /\ UNCHANGED <<given, extras, edepth, message, wire, room>>

Next == parseAMF \/ SendExtras \/ ServerHears \/ ServerSends \/ HandleMetadata

Spec == Init /\ [][Next]_vars
-----------------------------------------------------------------------------
\* The options that an object stands for: what is in it, then its end.
RECURSIVE Told(_)
Told(props) ==
    FlattenSeq([i \in DOMAIN props |->
        IF props[i].type = AMF.OBJECT THEN <<[props[i] EXCEPT !.props = <<>>]>> \o Told(props[i].props) \o <<Close>>
        ELSE <<props[i]>>])

\* Is a tree with properties left out at the end of its objects.
RECURSIVE Shortened(_, _)
Shortened(short, props) ==
    /\ Len(short) <= Len(props)
    /\ \A i \in DOMAIN short :
           /\ [short[i] EXCEPT !.props = <<>>] = [props[i] EXCEPT !.props = <<>>]
           /\ Shortened(short[i].props, props[i].props)

\* The server gets the options in their order and their objects, the open ones closed
\* (rtmp.c, parseAMF and SendConnectPacket; amf.c, AMFProp_Encode and AMF_Encode).  Where
\* the buffer is short, the packet is not sent or objects end early, and none of the
\* arguments themselves is missing.
ExtrasArrive ==
    (given # <<>> /\ heard # NotHeard) =>
        /\ heard.ok
        /\ Len(heard.read.props) = Len(extras) /\ Shortened(heard.read.props, extras)
        /\ room = Room => Told(heard.read.props) = given \o [i \in 1..edepth |-> Close]

\* What a message says, without the values that cannot be read and what follows them in
\* their object.
RECURSIVE Meant(_)
MeantProps(props) ==
    LET bad == SelectInSeq(props, Unreadable)
        read == IF bad = 0 THEN props ELSE SubSeq(props, 1, bad - 1)
    IN  [i \in DOMAIN read |-> Meant(read[i])]
Meant(v) ==
    LET said(type, value) == Prop(v.name, type, value, <<>>)
    IN  CASE v.type \in {AMF.OBJECT, AMF.ECMA_ARRAY, AMF.STRICT_ARRAY} ->
               Named(v.name, Tree(AMF.OBJECT, MeantProps(v.props)))
          [] v.type = AMF.AVMPLUS ->
               Named(v.name, Tree(AMF.OBJECT,
                   IF v.value = External THEN <<Named(DEFAULT_ATTRIBUTE, Meant(v.props[1]))>>
                   ELSE [i \in DOMAIN v.props |-> Meant(v.props[i])]))
          [] v.type \in {AMF.UNDEFINED, AMF.UNSUPPORTED, AsAMF3(AMF3.NULL)} -> said(AMF.NULL, <<>>)
          [] v.type \in {AMF.LONG_STRING, AsAMF3(AMF3.STRING)} -> said(AMF.STRING, v.value)
          [] v.type \in {AsAMF3(AMF3.INTEGER), AsAMF3(AMF3.DOUBLE), AsAMF3(AMF3.DATE)} ->
               said(AMF.NUMBER, v.value)
          [] v.type = AsAMF3(AMF3.True) -> said(AMF.BOOLEAN, <<1>>)
          [] OTHER -> v

\* Without the nameless properties of objects whose members have names.
RECURSIVE WithoutEnds(_)
WithoutEnds(props) ==
    LET kept == IF \E i \in DOMAIN props : props[i].name # <<>>
                THEN SelectSeq(props, LAMBDA p : p.name # <<>>) ELSE props
    IN  [i \in DOMAIN kept |-> [kept[i] EXCEPT !.props = WithoutEnds(@)]]

\* Every type of value, in objects and arrays of both formats, is read as the server meant it
\* (amf.c, AMF_Decode and AMF3_Decode); a value that cannot be read costs the rest of its
\* own object and nothing after that (amf.c:1066, "try to at least find the end mark").
MessagesAreRead ==
    (message # <<>> /\ heard # NotHeard) =>
        heard.ok /\ WithoutEnds(heard.read.props) = MeantProps(message)

\* All properties of a message that can be read, the ones of an object after it.
RECURSIVE AllOf(_)
AllOf(props) == FlattenSeq([i \in DOMAIN props |-> <<props[i]>> \o AllOf(props[i].props)])

\* The duration is the first property of that name at any depth, and a stream has video or
\* audio where a longer name begins so (rtmp.c:2639-2651); other messages change nothing.
MetadataIsFound ==
    (message # <<>> /\ heard # NotHeard) =>
        LET all == AllOf(MeantProps(message))
            durations == SelectSeq(all, LAMBDA p : p.name = duration)
            longer(name) == \E i \in DOMAIN all : Len(all[i].name) > 1 /\ all[i].name[1] = name[1]
        IN  metadata =
                IF message[1] # onMetaData THEN [duration |-> <<>>, video |-> FALSE, audio |-> FALSE]
                ELSE [duration |-> IF durations = <<>> THEN <<>> ELSE durations[1].value,
                      video |-> longer(video), audio |-> longer(audio)]
=============================================================================
