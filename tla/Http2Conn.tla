------------------------------- MODULE Http2Conn -------------------------------
(***************************************************************************)
(* One HTTP/2 connection: http2Conn of src/http2.go, driven by             *)
(* serveH2OverConn of src/httpserver.go, its client and the byte stream    *)
(* between them.                                                           *)
(*                                                                         *)
(* The client writes frames; the stream hands them over cut anywhere, so   *)
(* one Read may end in the middle of a frame header or bring several       *)
(* frames.  A frame is a row of cells, FrameHeader of them for its header  *)
(* (9 bytes) and one for its payload if it has any; a chunk is any prefix  *)
(* of the cells under way.  feed appends it to rxBuf and handles the       *)
(* frames that are complete, one step each.                                *)
(*                                                                         *)
(* A header block is a row of fragments, one for each HEADERS or           *)
(* CONTINUATION frame that carries it.  HPACK is external: DecodeFull      *)
(* succeeds on every block of the client that reaches it whole and in the  *)
(* order they were encoded, as the compression state demands; any other    *)
(* block may decode or not.                                                *)
(*                                                                         *)
(* A client keeps to the protocol but for at most MaxRogue frames, which   *)
(* may be anything.                                                        *)
(***************************************************************************)
EXTENDS Integers, FiniteSets, Sequences

CONSTANTS
  StreamIds,      \* the stream identifiers the client uses
  None,           \* no stream
  FrameHeader,    \* cells of a frame header: 9 bytes in the code
  PrefaceLen,     \* cells of the connection preface: 24 bytes in the code
  ReadSize,       \* cells of the read buffer: 16 KiB in the code
  MaxFrameSize,   \* defaultMaxFrameSize, in units of response bytes
  BodySizes,      \* the lengths of response bodies
  Window,         \* cells the stream holds before the client has to wait
  MaxParts,       \* bound: frames of one header block
  MaxData,        \* bound: DATA frames of one request
  MaxPieces,      \* bound: DATA frames of any two requests together
  MaxPings,       \* bound: PING frames
  MaxRogue,       \* bound: frames that break the protocol
  Trailers        \* may a request end with a trailer block?

ASSUME Http2Assumption ==
  /\ StreamIds \subseteq Nat \ {0}
  /\ {FrameHeader, PrefaceLen, ReadSize, MaxFrameSize, Window,
      MaxParts} \subseteq Nat \ {0}
  /\ {MaxData, MaxPieces, MaxPings, MaxRogue} \cup BodySizes \subseteq Nat
  /\ Trailers \in BOOLEAN

VARIABLES
  \* the client
  client,         \* client[s]: what it has sent on stream s so far
  blocks,         \* the header blocks it has begun, in order
  datas,          \* datas[s]: the DATA frames sent on s
  ending,         \* the HEADERS of the unfinished block carried END_STREAM
  pings,
  rogue,          \* frames sent that break the protocol
  gone,           \* the client has closed the connection
  transit,        \* the cells under way
  \* http2Conn
  rxBuf,
  prefaceSeen,
  streams,        \* streams[s]: the Http2Stream under s, or None
  headersStream,
  headersBlock,
  headersEnd,
  decoded,        \* blocks the HPACK decoder has been given
  \* serveH2OverConn
  pc,
  readErr,        \* the last Read returned an error, perhaps with bytes
  \* history
  failure,        \* why feed returned an error
  handled,        \* the calls of the handler, in order
  responses       \* responses[s]: the frames of the last response on s

clientVars == <<client, blocks, datas, ending, pings, rogue, gone, transit>>
blockVars == <<headersStream, headersBlock, headersEnd, decoded>>
historyVars == <<failure, handled, responses>>
vars == <<client, blocks, datas, ending, pings, rogue, gone, transit, rxBuf,
          prefaceSeen, streams, headersStream, headersBlock, headersEnd,
          decoded, pc, readErr, failure, handled, responses>>

FrameTypes == {"preface", "settings", "ping", "rst", "goaway", "headers",
               "continuation", "data", "other"}

(* bad: padding that does not fit, a SETTINGS or PING of the wrong length. *)
(* load: a fragment <<block, part, stream>> or a piece of body             *)
(* <<0, number, stream>>.                                                  *)
Loads == Nat \X Nat \X Nat
Frames == [type : FrameTypes, id : StreamIds \cup {0}, endStream : BOOLEAN,
           endHeaders : BOOLEAN, load : Loads, bad : BOOLEAN]
Cells == [of : Frames, at : Nat \ {0}]

(* No entry under a stream is not an entry. *)
ASSUME NoneIsNoStream == None \notin [fields : Seq(Loads), body : Seq(Loads)]

TypeOK ==
  /\ client \in [StreamIds ->
       {"idle", "block", "open", "trailers", "ended", "reset"}]
  /\ blocks \in Seq([id : StreamIds, parts : 1..MaxParts])
  /\ datas \in [StreamIds -> 0..MaxData]
  /\ ending \in BOOLEAN
  /\ pings \in 0..MaxPings
  /\ rogue \in 0..MaxRogue
  /\ gone \in BOOLEAN
  /\ transit \in Seq(Cells)
  /\ rxBuf \in Seq(Cells)
  /\ prefaceSeen \in BOOLEAN
  /\ streams \in [StreamIds -> [fields : Seq(Loads), body : Seq(Loads)] \cup {None}]
  /\ headersStream \in StreamIds \cup {0}
  /\ headersBlock \in Seq(Loads)
  /\ headersStream = 0 => headersBlock = <<>>
  /\ headersEnd \in BOOLEAN
  /\ decoded \in Nat
  /\ pc \in {"start", "read", "feed", "closed"}
  /\ readErr \in BOOLEAN
  /\ failure \in {"none", "protocol", "write", "eof"}
  /\ handled \in Seq([id : StreamIds, fields : Seq(Loads), body : Seq(Loads)])

--------------------------------------------------------------------------------
(***************************************************************************)
(* Frames                                                                  *)
(***************************************************************************)

Frame(type, id, endStream, endHeaders, load) ==
  [type |-> type, id |-> id, endStream |-> endStream,
   endHeaders |-> endHeaders, load |-> load, bad |-> FALSE]

NoLoad == <<0, 0, 0>>
Plain(type, id) == Frame(type, id, FALSE, FALSE, NoLoad)
Preface == Plain("preface", 0)

FrameLen(f) == CASE f.type = "preface" -> PrefaceLen
                 [] f.type = "settings" -> FrameHeader
                 [] OTHER -> FrameHeader + 1

CellsOf(f) == [k \in 1..FrameLen(f) |-> [of |-> f, at |-> k]]

Drop(q, n) == SubSeq(q, n + 1, Len(q))

(* The preface and the SETTINGS frame that every client starts with; a     *)
(* rogue one may start with something else of the same length.             *)
Init ==
  /\ client = [s \in StreamIds |-> "idle"]
  /\ blocks = <<>>
  /\ datas = [s \in StreamIds |-> 0]
  /\ ending = FALSE
  /\ pings = 0
  /\ rogue \in {0, MaxRogue}
  /\ gone = FALSE
  /\ transit = CellsOf([Preface EXCEPT !.bad = (rogue # 0)])
                 \o CellsOf(Plain("settings", 0))
  /\ rxBuf = <<>>
  /\ prefaceSeen = FALSE
  /\ streams = [s \in StreamIds |-> None]
  /\ headersStream = 0
  /\ headersBlock = <<>>
  /\ headersEnd = FALSE
  /\ decoded = 0
  /\ pc = "start"
  /\ readErr = FALSE
  /\ failure = "none"
  /\ handled = <<>>
  /\ responses = [s \in StreamIds |-> <<>>]

--------------------------------------------------------------------------------
(***************************************************************************)
(* The client                                                              *)
(***************************************************************************)

(* The stream whose header block is not finished; nothing may come between. *)
InBlock == {s \in StreamIds : client[s] \in {"block", "trailers"}}

Put(f) ==
  /\ Len(transit) < Window
  /\ transit' = transit \o CellsOf(f)

MayWrite == ~gone /\ InBlock = {}

(* The request of a stream newer than all others begins. *)
SendHeaders(s, endStream, endHeaders) ==
  /\ MayWrite
  /\ client[s] = "idle"
  /\ \A t \in StreamIds : t > s => client[t] = "idle"
  /\ endHeaders \/ MaxParts > 1
  /\ Put(Frame("headers", s, endStream, endHeaders, <<Len(blocks) + 1, 1, s>>))
  /\ blocks' = Append(blocks, [id |-> s, parts |-> 1])
  /\ ending' = endStream
  /\ client' = [client EXCEPT ![s] = IF ~endHeaders THEN "block"
                                     ELSE IF endStream THEN "ended" ELSE "open"]
  /\ UNCHANGED <<datas, pings, rogue, gone>>

(* The request ends with a second header block. *)
SendTrailers(s, endHeaders) ==
  /\ Trailers
  /\ MayWrite
  /\ client[s] = "open"
  /\ endHeaders \/ MaxParts > 1
  /\ Put(Frame("headers", s, TRUE, endHeaders, <<Len(blocks) + 1, 1, s>>))
  /\ blocks' = Append(blocks, [id |-> s, parts |-> 1])
  /\ ending' = TRUE
  /\ client' = [client EXCEPT ![s] = IF endHeaders THEN "ended" ELSE "trailers"]
  /\ UNCHANGED <<datas, pings, rogue, gone>>

SendContinuation(s, endHeaders) ==
  /\ ~gone
  /\ s \in InBlock
  /\ LET n == Len(blocks)
         k == blocks[n].parts + 1
     IN /\ endHeaders \/ k < MaxParts
        /\ Put(Frame("continuation", s, FALSE, endHeaders, <<n, k, s>>))
        /\ blocks' = [blocks EXCEPT ![n].parts = k]
  /\ client' = [client EXCEPT ![s] = IF ~endHeaders THEN @
                                     ELSE IF ending THEN "ended" ELSE "open"]
  /\ UNCHANGED <<datas, ending, pings, rogue, gone>>

SendData(s, endStream) ==
  /\ MayWrite
  /\ client[s] = "open"
  /\ datas[s] < MaxData
  /\ \A t \in StreamIds \ {s} : datas[s] + datas[t] < MaxPieces
  /\ Put(Frame("data", s, endStream, FALSE, <<0, datas[s] + 1, s>>))
  /\ datas' = [datas EXCEPT ![s] = @ + 1]
  /\ client' = [client EXCEPT ![s] = IF endStream THEN "ended" ELSE "open"]
  /\ UNCHANGED <<blocks, ending, pings, rogue, gone>>

SendReset(s) ==
  /\ MayWrite
  /\ client[s] \in {"open", "ended"}
  /\ Put(Plain("rst", s))
  /\ client' = [client EXCEPT ![s] = "reset"]
  /\ UNCHANGED <<blocks, datas, ending, pings, rogue, gone>>

(* PING, or a frame the server ignores: WINDOW_UPDATE, PRIORITY, an ack. *)
SendPing ==
  /\ MayWrite
  /\ pings < MaxPings
  /\ pings' = pings + 1
  /\ \E type \in {"ping", "other"} : Put(Plain(type, 0))
  /\ UNCHANGED <<client, blocks, datas, ending, rogue, gone>>

(* GOAWAY, and no more frames. *)
SendGoAway ==
  /\ MayWrite
  /\ gone' = TRUE
  /\ Put(Plain("goaway", 0))
  /\ UNCHANGED <<client, blocks, datas, ending, pings, rogue>>

RogueFrames == LET Any == StreamIds \cup {0} IN
  {Frame("headers", s, endStream, endHeaders, <<0, 0, s>>) :
     s \in Any, endStream, endHeaders \in BOOLEAN}
  \cup {Frame("continuation", s, FALSE, endHeaders, <<0, 0, s>>) :
          s \in Any, endHeaders \in BOOLEAN}
  \cup {Frame("data", s, endStream, FALSE, <<0, 0, s>>) :
          s \in Any, endStream \in BOOLEAN}
  \cup {[Plain(type, s) EXCEPT !.bad = TRUE] :
          type \in {"headers", "data"}, s \in StreamIds}
  \cup {[Plain(type, 0) EXCEPT !.bad = TRUE] : type \in {"settings", "ping"}}

SendRogue(f) ==
  /\ ~gone
  /\ rogue < MaxRogue
  /\ rogue' = rogue + 1
  /\ Put(f)
  /\ UNCHANGED <<client, blocks, datas, ending, pings, gone>>

ClientClose ==
  /\ ~gone
  /\ gone' = TRUE
  /\ UNCHANGED <<client, blocks, datas, ending, pings, rogue, transit>>

Client ==
  \/ \E s \in StreamIds, endHeaders \in BOOLEAN :
       \/ \E endStream \in BOOLEAN : SendHeaders(s, endStream, endHeaders)
       \/ SendTrailers(s, endHeaders)
       \/ SendContinuation(s, endHeaders)
  \/ \E s \in StreamIds, endStream \in BOOLEAN : SendData(s, endStream)
  \/ \E s \in StreamIds : SendReset(s)
  \/ SendPing \/ SendGoAway \/ ClientClose
  \/ \E f \in RogueFrames : SendRogue(f)

--------------------------------------------------------------------------------
(***************************************************************************)
(* Http2Stream: the response                                               *)
(***************************************************************************)

Response(type, len, endStream) ==
  [type |-> type, len |-> len, endStream |-> endStream]

(* Slips a change to this code could make; the mutants of PROJECT.json put *)
(* each in the place of the definition it is named after.                  *)
HeadersNeverEnd(n) == <<Response("headers", 0, FALSE)>>
DeleteNothing(s) == UNCHANGED streams
BodyReplaced(body, piece) == <<piece>>
BelongsToOpenStream(f) == f.id \in StreamIds /\ streams[f.id] # None
BelongsAnywhere(f) == f.id # 0
CompleteOneLater == Len(rxBuf) >= FrameHeader /\ Len(rxBuf) > FrameLen(rxBuf[1].of)
EndNotLatched(f) == f.endStream
BlockNotReset == UNCHANGED headersBlock

(* WriteData: DATA frames of at most MaxFrameSize, END_STREAM on the last. *)
WriteData[n \in Nat] ==
  IF n > MaxFrameSize
    THEN <<Response("data", MaxFrameSize, FALSE)>> \o WriteData[n - MaxFrameSize]
    ELSE <<Response("data", n, TRUE)>>

WriteHeaders(n) == <<Response("headers", 0, n = 0)>>

(* SimpleResponse with a body of n bytes. *)
SimpleResponse(n) == WriteHeaders(n) \o (IF n = 0 THEN <<>> ELSE WriteData[n])

--------------------------------------------------------------------------------
(***************************************************************************)
(* http2Conn                                                               *)
(***************************************************************************)

(* feed has a whole frame; its length is in its header. *)
Complete ==
  /\ Len(rxBuf) >= FrameHeader
  /\ Len(rxBuf) >= FrameLen(rxBuf[1].of)

(* The frame at the head of rxBuf, handled and dropped. *)
Received(type) ==
  /\ pc = "feed"
  /\ prefaceSeen
  /\ Complete
  /\ rxBuf[1].of.type = type
Frm == rxBuf[1].of
Consume == rxBuf' = Drop(rxBuf, FrameLen(Frm))

(* feed returns an error, serveH2OverConn returns, the connection closes. *)
Fail(why) ==
  /\ pc' = "closed"
  /\ failure' = why
  /\ UNCHANGED <<clientVars, rxBuf, prefaceSeen, streams, blockVars, readErr,
                 handled, responses>>

(* A write succeeds, or fails when the client has gone. *)
Write ==
  \/ /\ Consume
     /\ UNCHANGED <<clientVars, prefaceSeen, streams, blockVars, pc, readErr,
                    historyVars>>
  \/ gone /\ Fail("write")

(* delete(c.streams, id) *)
Delete(s) == streams' = [streams EXCEPT ![s] = None]

(* The handler answers with SimpleResponse; writes may fail half-way when  *)
(* the client has gone, which the handler ignores.                         *)
Invoke(s, fields, body) ==
  /\ handled' = Append(handled, [id |-> s, fields |-> fields, body |-> body])
  /\ \E n \in BodySizes : \E k \in 0..Len(SimpleResponse(n)) :
       /\ gone \/ k = Len(SimpleResponse(n))
       /\ responses' = [responses EXCEPT ![s] = SubSeq(SimpleResponse(n), 1, k)]

(* What DecodeFull must accept. *)
Decodable(block) ==
  /\ decoded < Len(blocks)
  /\ LET b == blocks[decoded + 1]
     IN block = [k \in 1..b.parts |-> <<decoded + 1, k, b.id>>]

ResetBlock == headersBlock' = <<>>

(* The header block of stream s is complete. *)
FinishHeaders(s, block, endStream) ==
  \/ /\ decoded' = decoded + 1
     /\ IF endStream
          THEN Invoke(s, block, <<>>) /\ Delete(s)
          ELSE /\ streams' = [streams EXCEPT ![s] =
                                [fields |-> block, body |-> <<>>]]
               /\ UNCHANGED <<handled, responses>>
     /\ headersStream' = 0
     /\ ResetBlock
     /\ headersEnd' = endStream
     /\ Consume
     /\ UNCHANGED <<clientVars, prefaceSeen, pc, readErr, failure>>
  \/ ~Decodable(block) /\ Fail("protocol")

KeepBlock(s, block, endStream) ==
  /\ headersStream' = s
  /\ headersBlock' = block
  /\ headersEnd' = endStream
  /\ Consume
  /\ UNCHANGED <<clientVars, prefaceSeen, streams, decoded, pc, readErr,
                 historyVars>>

OnSettings ==
  /\ Received("settings")
  /\ IF Frm.bad THEN Fail("protocol") ELSE Write

OnPing ==
  /\ Received("ping")
  /\ IF Frm.bad THEN Fail("protocol") ELSE Write

(* WINDOW_UPDATE, PRIORITY, PUSH_PROMISE, an ack, an unknown type. *)
OnOther ==
  /\ Received("other")
  /\ Consume
  /\ UNCHANGED <<clientVars, prefaceSeen, streams, blockVars, pc, readErr,
                 historyVars>>

OnReset ==
  /\ Received("rst")
  /\ Delete(Frm.id)
  /\ Consume
  /\ UNCHANGED <<clientVars, prefaceSeen, blockVars, pc, readErr, historyVars>>

OnGoAway ==
  /\ Received("goaway")
  /\ Fail("eof")

OnHeaders ==
  /\ Received("headers")
  /\ IF Frm.id = 0 \/ Frm.bad THEN Fail("protocol")
     ELSE IF Frm.endHeaders THEN FinishHeaders(Frm.id, <<Frm.load>>, Frm.endStream)
     ELSE KeepBlock(Frm.id, <<Frm.load>>, Frm.endStream)

(* The frame continues the block in progress. *)
Belongs(f) == f.id # 0 /\ f.id = headersStream

(* END_STREAM was on the HEADERS frame. *)
Latched(f) == headersEnd

OnContinuation ==
  /\ Received("continuation")
  /\ LET block == Append(headersBlock, Frm.load)
     IN IF ~Belongs(Frm) THEN Fail("protocol")
        ELSE IF Frm.endHeaders THEN FinishHeaders(headersStream, block, Latched(Frm))
        ELSE KeepBlock(headersStream, block, Latched(Frm))

AppendBody(body, piece) == Append(body, piece)

Known(s) == s \in StreamIds /\ streams[s] # None

(* DATA of an unknown stream is ignored. *)
OnDataUnknown ==
  /\ Received("data")
  /\ ~Known(Frm.id)
  /\ Consume
  /\ UNCHANGED <<clientVars, prefaceSeen, streams, blockVars, pc, readErr,
                 historyVars>>

OnData ==
  /\ Received("data")
  /\ Known(Frm.id)
  /\ LET st == streams[Frm.id]
         body == AppendBody(st.body, Frm.load)
     IN IF Frm.bad THEN Fail("protocol")
        ELSE /\ IF Frm.endStream
                  THEN Invoke(Frm.id, st.fields, body) /\ Delete(Frm.id)
                  ELSE /\ streams' = [streams EXCEPT ![Frm.id].body = body]
                       /\ UNCHANGED <<handled, responses>>
             /\ Consume
             /\ UNCHANGED <<clientVars, prefaceSeen, blockVars, pc, readErr,
                            failure>>

HandleFrame ==
  \/ OnSettings \/ OnPing \/ OnOther \/ OnReset \/ OnGoAway
  \/ OnHeaders \/ OnContinuation \/ OnDataUnknown \/ OnData

--------------------------------------------------------------------------------
(***************************************************************************)
(* feed and serveH2OverConn                                                *)
(***************************************************************************)

(* sendInitialSettings. *)
Start ==
  /\ pc = "start"
  /\ \/ pc' = "read"
     \/ gone /\ pc' = "closed"
  /\ UNCHANGED <<clientVars, rxBuf, prefaceSeen, streams, blockVars, readErr,
                 historyVars>>

(* Read returns a chunk, possibly with the end of the stream, and feed     *)
(* appends it.                                                             *)
Read(n) ==
  /\ pc = "read"
  /\ n <= Len(transit)
  /\ rxBuf' = rxBuf \o SubSeq(transit, 1, n)
  /\ transit' = Drop(transit, n)
  /\ readErr' \in {FALSE, gone /\ n = Len(transit)}
  /\ pc' = "feed"
  /\ UNCHANGED <<client, blocks, datas, ending, pings, rogue, gone, prefaceSeen,
                 streams, blockVars, historyVars>>

(* Read returns an error: the client has closed, or reset the connection   *)
(* and what was under way is lost.                                         *)
ReadEnds ==
  /\ pc = "read"
  /\ gone
  /\ pc' = "closed"
  /\ UNCHANGED <<clientVars, rxBuf, prefaceSeen, streams, blockVars, readErr,
                 historyVars>>

FeedPreface ==
  /\ pc = "feed"
  /\ ~prefaceSeen
  /\ Len(rxBuf) >= PrefaceLen
  /\ \/ /\ SubSeq(rxBuf, 1, PrefaceLen) = CellsOf(Preface)
        /\ prefaceSeen' = TRUE
        /\ rxBuf' = Drop(rxBuf, PrefaceLen)
        /\ UNCHANGED <<clientVars, streams, blockVars, pc, readErr, historyVars>>
     \/ /\ SubSeq(rxBuf, 1, PrefaceLen) # CellsOf(Preface)
        /\ Fail("protocol")

(* feed returns nil: what is left in rxBuf waits for the next chunk. *)
FeedDone ==
  /\ pc = "feed"
  /\ IF prefaceSeen THEN ~Complete ELSE Len(rxBuf) < PrefaceLen
  /\ pc' = IF readErr THEN "closed" ELSE "read"
  /\ UNCHANGED <<clientVars, rxBuf, prefaceSeen, streams, blockVars, readErr,
                 historyVars>>

Server ==
  \/ Start
  \/ \E n \in 1..ReadSize : Read(n)
  \/ ReadEnds
  \/ FeedPreface \/ HandleFrame \/ FeedDone

Closed == pc = "closed" /\ UNCHANGED vars

Next ==
  \/ Client /\ UNCHANGED <<rxBuf, prefaceSeen, streams, blockVars, pc, readErr,
                           historyVars>>
  \/ Server
  \/ Closed

Spec == Init /\ [][Next]_vars

(* The goroutine of the connection runs, and Read returns when there is    *)
(* something to read.  Clients owe nothing.                                *)
FairSpec == Spec /\ WF_vars(Server)

--------------------------------------------------------------------------------
(***************************************************************************)
(* Properties                                                              *)
(***************************************************************************)

(* The blocks of stream s: its request headers, then its trailers. *)
BlocksOf(s) == {n \in DOMAIN blocks : blocks[n].id = s}
WholeBlock(n) == [k \in 1..blocks[n].parts |-> <<n, k, blocks[n].id>>]

(* The handler sees every request as it was sent, however the stream was   *)
(* cut and the frames of other streams lie between: once, after its end,   *)
(* with its own headers and the whole of its body ("Headers contain        *)
(* :method/:path/:scheme/:authority [...] Body holds the buffered request  *)
(* body", http2.go:43-46).                                                 *)
DeliveredAsSent ==
  rogue = 0 =>
    /\ \A i, j \in DOMAIN handled : handled[i].id = handled[j].id => i = j
    /\ \A i \in DOMAIN handled : LET h == handled[i] IN
         /\ client[h.id] \in {"ended", "reset"}
         /\ \E n \in BlocksOf(h.id) :
              /\ \A m \in BlocksOf(h.id) : n <= m
              /\ h.fields = WholeBlock(n)
         /\ h.body = [k \in 1..datas[h.id] |-> <<0, k, h.id>>]

(* Whatever a client sends, nothing of one stream's headers or body gets   *)
(* into another's request.                                                 *)
NoMixing ==
  \A i \in DOMAIN handled : LET h == handled[i] IN
    /\ \A k \in DOMAIN h.fields : h.fields[k][3] = h.id
    /\ \A k \in DOMAIN h.body : h.body[k][3] = h.id

(* A client that keeps to the protocol is never turned away: no frame of   *)
(* its is misread, no header block fails to decode.                        *)
LegalNeverFails == rogue = 0 => failure # "protocol"

(* Before it waits for more bytes feed has handled all it has: rxBuf is at *)
(* most the beginning of one frame.                                        *)
CaughtUp ==
  pc = "read" /\ rxBuf # <<>> =>
    /\ rxBuf[1].at = 1
    /\ Len(rxBuf) < FrameLen(rxBuf[1].of)

(* The stream table does not grow: a stream the client has ended or reset  *)
(* stays only as long as a frame of it has yet to be handled.              *)
StreamsAreDeleted ==
  \A s \in StreamIds :
    rogue = 0 /\ streams[s] # None /\ client[s] \in {"ended", "reset"} =>
      \E q \in {transit, rxBuf} : \E k \in DOMAIN q : q[k].of.id = s

(* A response is HEADERS, then DATA frames no longer than MaxFrameSize,    *)
(* with END_STREAM on the last frame only, or the beginning of that when   *)
(* the client has gone.                                                    *)
ResponsesEndOnce ==
  \A s \in StreamIds : LET r == responses[s] IN
    /\ \A k \in DOMAIN r : /\ (r[k].type = "headers") <=> (k = 1)
                           /\ r[k].len <= MaxFrameSize
                           /\ r[k].endStream => k = Len(r)
    /\ r # <<>> /\ ~gone => r[Len(r)].endStream

(* A request that has been sent to its end is handled, unless the client   *)
(* goes, resets it or breaks the protocol.                                 *)
EveryRequestHandled ==
  \A s \in StreamIds :
    client[s] = "ended" ~>
      \/ \E i \in DOMAIN handled : handled[i].id = s
      \/ client[s] = "reset" \/ gone \/ rogue > 0
================================================================================
