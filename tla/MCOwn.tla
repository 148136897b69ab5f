-------------------------------- MODULE MCOwn --------------------------------
(***************************************************************************)
(* Small instances, for TLC, of what stands around the Kademlia core: the  *)
(* parts of Surroundings, the list, the player and TinyXML.  They share no *)
(* state in the program either; one part moves in a behaviour, Parts says  *)
(* which may.                                                              *)
(***************************************************************************)
EXTENDS Surroundings

CONSTANTS
    Parts,
    Lists, Nodes, Elem,                 \* sll
    Buffers, MaxFrames, MaxSeeks,       \* the player
    MaxKids,                            \* TinyXML
    Node,
    AttributeNames, Values, MaxAttributes

VARIABLES
    part,
    _first, _last, _size, _data, _next, allocated,
    loop, seeking, held, decoder, completed, justSeeked, filled, left, seeks, anchor, failed,
    document, wire, cut, parsed,
    link, documents,
    ring, attributes, content

threadVars == <<object, _running, _thread_id, thread, released, cancelled, owner, joinedAll,
                staleId, freedTouch>>
listVars == <<_first, _last, _size, _data, _next, allocated>>
handleVars == <<pointee, refCount, deleted, size, todo>>
socketVars == <<program, up, at, m_usock, open, given, stray>>
rpcVars == <<reopen, isOpen, upward, downward, call, made, resp, last, gaveUp, served>>
playerVars == <<loop, seeking, held, decoder, completed, justSeeked, filled, left, seeks, anchor,
                failed>>
xmlVars == <<document, wire, cut, parsed, link, documents, ring, attributes, content>>
allVars == <<part, threadVars, listVars, handleVars, socketVars, rpcVars, playerVars, xmlVars>>

List == INSTANCE Sll
Play == INSTANCE Player WITH thread <- decoder
Xml == INSTANCE TinyXmlText
Tree == INSTANCE TinyXmlTree
Ring == INSTANCE TinyXmlAttributes

MCInit ==
    /\ part \in Parts
    /\ Thread!Init /\ List!Init /\ Handle!Init /\ Socket!Init /\ Rpcs!Init /\ Play!Init
    /\ Xml!Init /\ Tree!Init /\ Ring!Init
    /\ part # "sockets" => program = "Server"
    /\ part # "rpcs" => reopen = "returns"
    /\ part # "player" => justSeeked = FALSE

OnlyThread == UNCHANGED <<listVars, handleVars, socketVars, rpcVars, playerVars, xmlVars>>
OnlyList == UNCHANGED <<threadVars, handleVars, socketVars, rpcVars, playerVars, xmlVars>>
OnlyHandle == UNCHANGED <<threadVars, listVars, socketVars, rpcVars, playerVars, xmlVars>>
OnlySocket == UNCHANGED <<threadVars, listVars, handleVars, rpcVars, playerVars, xmlVars>>
OnlyRpcs == UNCHANGED <<threadVars, listVars, handleVars, socketVars, playerVars, xmlVars>>
OnlyPlayer == UNCHANGED <<threadVars, listVars, handleVars, socketVars, rpcVars, xmlVars>>
OnlyXml == UNCHANGED <<threadVars, listVars, handleVars, socketVars, rpcVars, playerVars>>

MCNext ==
    /\ UNCHANGED part
    /\ \/ part = "thread" /\ Thread!Next /\ OnlyThread
       \/ part = "list" /\ List!Next /\ OnlyList
       \/ part = "handles" /\ Handle!Next /\ OnlyHandle
       \/ part = "sockets" /\ Socket!Next /\ OnlySocket
       \/ part = "rpcs" /\ Rpcs!Next /\ OnlyRpcs
       \/ part = "player" /\ Play!Next /\ OnlyPlayer
       \/ part = "text" /\ Xml!Next /\ OnlyXml /\ UNCHANGED <<link, documents, ring, attributes, content>>
       \/ part = "tree" /\ Tree!Next /\ OnlyXml
              /\ UNCHANGED <<document, wire, cut, parsed, ring, attributes, content>>
       \/ part = "attributes" /\ Ring!Next /\ OnlyXml
              /\ UNCHANGED <<document, wire, cut, parsed, link, documents>>

\* The fairness of Player, when it is its turn.
PlayerFairness ==
    /\ WF_allVars(part = "player" /\ Play!Loop /\ OnlyPlayer /\ UNCHANGED part)
    /\ WF_allVars(part = "player" /\ Play!DecodeThread /\ OnlyPlayer /\ UNCHANGED part)

MCSpec == MCInit /\ [][MCNext]_allVars /\ PlayerFairness
-----------------------------------------------------------------------------
\* The links of sll's lists, of TinyXML's trees and of its ring of attributes agree with
\* what they hold (sll.hh; tinyxml.cpp:136-355, 1467-1498).
LinksAreSound == List!ListsAreSound /\ Tree!LinksAgree /\ Ring!RingIsContent

\* What TinyXML prints it reads back, and a document that is cut off sets an error unless
\* the cut is inside a text, where the parser never returns (tinyxml.cpp, tinyxmlparser.cpp).
XmlIsReadBack == Xml!RoundTrip /\ Xml!CutIsNoticed

\* A document that is cut off is reported as an error, as the comment at
\* tinyxmlparser.cpp:1109 says of ReadValue.
CutSetsError == Xml!CutSetsError

\* sll's operations are those of a queue, TinyXML's those of a forest of nodes, and after
\* one exception a KadRpcs makes no more calls (sll.hh, tinyxml.cpp, kadrpc.cpp:46).
StepsAreTheirs == List!IsAQueue /\ Tree!IsForest /\ Rpcs!OneExceptionEndsIt

\* A frame is never timed against the first frame of another place, and the decoder's stop
\* returns (Decoder.cpp:17-46, oggutil.cpp:291-367).
PlaysOn == [](Play!TypeOK /\ Play!ClockOfItsPlace) /\ (part = "player" => Play!StopReturns)
=============================================================================
