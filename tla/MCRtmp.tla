-------------------------------- MODULE MCRtmp --------------------------------
(***************************************************************************)
(* Small instances of librtmp for TLC, layer by layer: the chunks, the     *)
(* values of AMF, the calls of a session, the media with its pauses, and   *)
(* the tags that a program reads.  Each layer has the one below in an      *)
(* abstract form; one layer moves in a behaviour, Parts says which may.    *)
(***************************************************************************)
EXTENDS Naturals, Sequences

CONSTANTS
    Parts,
    Channels, Types, StreamIds, BodySizes, ChunkSizes, Stamps, TsSize, TsLimit,
    MaxPackets, MaxChanges,                          \* RtmpChunks
    LongSize, Room, MaxOptions,                      \* RtmpAmf
    LinkOptions, MaxInvokes, MaxConnects, MaxDepth,      \* RtmpSession
    MaxWaits, MaxToggles,                            \* RtmpMedia
    Sizes, MaxTagPackets, MaxSeeks, MAX_IGNORED_FRAMES    \* FlvReader

VARIABLES
    part,
    m_vecChannelsOut, m_outChunkSize, unsent, packets, changes, full, due, wire,
    m_vecChannelsIn, m_channelTimestamp, m_inChunkSize, read,
    options, extras, edepth, message, bytes, space, heard, metadata,
    link, connected, broken, streamId, calls, invokes, playing, stack, asked, live, connects,
    pausing, pauseStamp, mediaStamp, channelStamp, given, skipped, up, down, server, sent, waits,
    toggles,
    resume, flags, status, timestamp, dataType, ignored, buf, pc, room, out, tagPackets, tags,
    lastTs, keyed, dueTags, from, seeks

chunkVars == <<m_vecChannelsOut, m_outChunkSize, unsent, packets, changes, full, due, wire,
               m_vecChannelsIn, m_channelTimestamp, m_inChunkSize, read>>
amfVars == <<options, extras, edepth, message, bytes, space, heard, metadata>>
sessionVars == <<link, connected, broken, streamId, calls, invokes, playing, stack, asked, live,
                 connects>>
mediaVars == <<pausing, pauseStamp, mediaStamp, channelStamp, given, skipped, up, down, server, sent,
               waits, toggles>>
flvVars == <<resume, flags, status, timestamp, dataType, ignored, buf, pc, room, out, tagPackets,
             tags, lastTs, keyed, dueTags, from, seeks>>
allVars == <<part, chunkVars, amfVars, sessionVars, mediaVars, flvVars>>

From(first, last) == [first |-> first, last |-> last]

Chunk == INSTANCE RtmpChunks
Amf == INSTANCE RtmpAmf WITH given <- options, wire <- bytes, room <- space
Session == INSTANCE RtmpSession WITH options <- link
\* The first packet at time 0, two of one time, one that starts where the one before it
\* ends, one after it.
Stream == INSTANCE RtmpMedia WITH
    Media <- <<From(0, 0), From(1, 1), From(1, 2), From(2, 3), From(4, 4)>>
Flv == INSTANCE FlvReader WITH packets <- tagPackets, due <- dueTags, MaxPackets <- MaxTagPackets

MCInit ==
    /\ part \in Parts
    /\ Chunk!Init /\ Amf!Init /\ Session!Init /\ Stream!Init /\ Flv!Init
    /\ part # "chunks" => m_outChunkSize = CHOOSE n \in ChunkSizes : TRUE
    /\ part # "session" => link = {}
    /\ part # "flv" => resume = FALSE

OnlyChunks == UNCHANGED <<amfVars, sessionVars, mediaVars, flvVars>>
OnlyAmf == UNCHANGED <<chunkVars, sessionVars, mediaVars, flvVars>>
OnlySession == UNCHANGED <<chunkVars, amfVars, mediaVars, flvVars>>
OnlyMedia == UNCHANGED <<chunkVars, amfVars, sessionVars, flvVars>>
OnlyFlv == UNCHANGED <<chunkVars, amfVars, sessionVars, mediaVars>>

MCNext ==
    /\ UNCHANGED part
    /\ \/ part = "chunks" /\ Chunk!Next /\ OnlyChunks
       \/ part = "amf" /\ Amf!Next /\ OnlyAmf
       \/ part = "session" /\ Session!Next /\ OnlySession
       \/ part = "media" /\ Stream!Next /\ OnlyMedia
       \/ part = "flv" /\ Flv!Next /\ OnlyFlv

\* The fairness of RtmpMedia, when it is its turn.
MediaFairness ==
    /\ WF_allVars(part = "media" /\ Stream!ServerNext /\ OnlyMedia /\ UNCHANGED part)
    /\ WF_allVars(part = "media" /\ Stream!ClientNext /\ OnlyMedia /\ UNCHANGED part)

MCSpec == MCInit /\ [][MCNext]_allVars /\ MediaFairness
-----------------------------------------------------------------------------
\* Packets come out of their chunks whole and in order, and a program that reads in pieces,
\* resumes or seeks gets exactly the tags it should; across pauses and resumes what is skipped
\* was given before, or starts at the time at which an earlier packet ended
\* (rtmp.c:2857-3022, 3177-3373, 3705-4290; 1051-1140, 2653-2835).
DataArrives ==
    /\ Chunk!PacketsArrive /\ Flv!GetsItsTags
    /\ Stream!TypeOK /\ Stream!NothingNewIsSkipped

\* The values of a message are the ones its sender meant (amf.c; rtmp.c, parseAMF and
\* HandleMetadata).
ValuesArrive == Amf!ExtrasArrive /\ Amf!MessagesAreRead /\ Amf!MetadataIsFound

\* A reader's close comes to an end, answers are taken for their own calls, and the client
\* deletes only its own streams, over lost connections too (rtmp.c).
SessionRight == Session!CloseComesToAnEnd /\ Session!AnswersAreTaken /\ Session!DeletesItsOwn

\* However often the client pauses and the server waits, the stream goes on to its end
\* (rtmp.c:1051-1140, 2653-2835).
StreamGoesOn == part = "media" => Stream!StreamGoesOn
=============================================================================
