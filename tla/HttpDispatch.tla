------------------------------ MODULE HttpDispatch ------------------------------
(***************************************************************************)
(* HTTPServer of src/httpserver.go: which protocol a connection speaks,    *)
(* and the HTTP/1 side of it.  On plain TCP Listen keeps a state per       *)
(* Conn.Key and dispatchPlain decides from the first bytes; on TLS ALPN    *)
(* decides and each connection has a goroutine.                            *)
(*                                                                         *)
(* Bytes are tokens: the end of a line, a request or header line without   *)
(* it, a unit of body, a half of the HTTP/2 preface, a whole HTTP/2 frame. *)
(* Data brings any number of tokens, so a talk is cut between any two.     *)
(* The inside of http2Conn is Http2Conn's; here it takes frames and        *)
(* answers.                                                                *)
(*                                                                         *)
(* A plain connection is driven by a backend that reads it once and closes *)
(* it ("once", which is what the four backends of this repository do) or   *)
(* by one that calls Data whenever bytes arrive ("many": what conn.go:10   *)
(* promises and rxBuf is there for).                                       *)
(***************************************************************************)
EXTENDS Integers, Sequences, SequencesExt

CONSTANTS
  Keys,           \* Conn.Key(): the descriptors of connections
  Drivers,        \* the kinds of driver: "once", "many", "tls"
  Talks,          \* what a client may say
  None,           \* no state, no connection
  ReadSize,       \* tokens of a read buffer: 4096 bytes in the backends
  MaxHead,        \* tokens of an undecided buffer: 64 KiB in the code
  MaxLength       \* the largest Content-Length: 2^30 in the code

(* A talk is an HTTP/1 head (none if line is "none"), a body, and if h2    *)
(* holds the HTTP/2 preface with frames after it.  A Content-Length is a   *)
(* row of digits, 10 for any other character.                              *)
Token(k) == [k |-> k, v |-> <<>>]
ContentLength(v) == [k |-> "length", v |-> v]
HeaderKinds == {"host", "nocolon", "upgrade", "connection", "settings", "length"}
IsHeader(h) == h.k \in HeaderKinds
Frames == {"config", "get", "broken"}
Kinds == HeaderKinds \cup Frames \cup {"request", "short", "crlf", "b", "pri", "sm"}
Tokens == [k : Kinds, v : Seq(0..10)]

ASSUME DispatchAssumption ==
  /\ Drivers \subseteq {"once", "many", "tls"}
  /\ {ReadSize, MaxHead, MaxLength} \subseteq Nat \ {0}
  /\ MaxHead >= 6        \* room for the preface, 24 bytes in the code
  /\ \A t \in Talks :
       /\ t.line \in {"request", "short", "none"}
       /\ t.headers \in Seq([k : HeaderKinds, v : Seq(0..10)])
       /\ t.body \in Nat
       /\ t.h2 \in BOOLEAN
       /\ t.frames \in Seq(Frames)

(* None is neither a driver nor the state of a connection.                 *)
ASSUME NoneIsNothing ==
  /\ None \notin Drivers
  /\ None \notin [mode : {"unknown", "http1", "http2"}, rxBuf : Seq(Tokens),
                  h2 : [seen : BOOLEAN, buf : Seq(Tokens)], closing : BOOLEAN]

VARIABLES
  driver,         \* driver[k]: what reads connection k, None without one
  talk,           \* talk[k]: what its client says
  got,            \* got[k]: tokens of it delivered so far
  deaf,           \* its client does not read: a Send may fail half-way
  pc,             \* where the driver stands
  states,         \* the map states: an httpConnState or None
  local,          \* TLS: buf and h2 of the goroutine
  open,           \* the descriptor has not been closed
  listening,      \* the TLS listener accepts
  \* history
  out,            \* out[k]: what has been sent
  split           \* a read ended inside the preface, after its CRLF CRLF

vars == <<driver, talk, got, deaf, pc, states, local, open, listening, out, split>>
clientVars == <<driver, talk, deaf>>

--------------------------------------------------------------------------------
(***************************************************************************)
(* What a client says                                                      *)
(***************************************************************************)

crlf == Token("crlf")
Preface == <<Token("pri"), crlf, crlf, Token("sm"), crlf, crlf>>
Lines(h) == [i \in 1..2 * Len(h) |-> IF i % 2 = 1 THEN h[(i + 1) \div 2] ELSE crlf]
HeadOf(t) == IF t.line = "none" THEN <<>>
             ELSE <<Token(t.line), crlf>> \o Lines(t.headers) \o <<crlf>>
Bytes(t) ==
  HeadOf(t) \o [i \in 1..t.body |-> Token("b")]
    \o (IF t.h2 THEN Preface ELSE <<>>)
    \o [i \in DOMAIN t.frames |-> Token(t.frames[i])]

--------------------------------------------------------------------------------
(***************************************************************************)
(* HTTP/1 parsing                                                          *)
(***************************************************************************)

(* bytes.Index(buf, "\r\n\r\n"): the tokens before it, -1 if there is none. *)
HeaderEnd(buf) ==
  LET ends == {i \in 1..Len(buf) - 1 : buf[i] = crlf /\ buf[i + 1] = crlf}
  IN IF ends = {} THEN -1 ELSE Min(ends) - 1

(* parseHTTP1Request: a line of three parts with a line end of its own,    *)
(* then header lines with a colon, up to the end or an empty line.         *)
Request(raw) ==
  LET rest == SubSeq(raw, 3, Len(raw))
      blank == {i \in DOMAIN rest : rest[i] = crlf /\ (i = 1 \/ rest[i - 1] = crlf)}
      lines == SubSeq(rest, 1, Min(blank \cup {Len(rest) + 1}) - 1)
  IN [ok |-> /\ Len(raw) >= 2
             /\ raw[1].k \in {"request", "pri"}
             /\ raw[2] = crlf
             /\ \A i \in DOMAIN lines :
                  lines[i] # crlf => IsHeader(lines[i]) /\ lines[i].k # "nocolon",
      headers |-> lines]

(* headerValue: the first header of that name, the empty string if none.   *)
HeaderValue(headers, name) ==
  LET those == {i \in DOMAIN headers : headers[i].k = name}
  IN IF those = {} THEN <<>> ELSE headers[Min(those)].v

(* parsePositiveInt, -1 for an error: digit by digit.  An int of 64 bits   *)
(* holds the product whatever the digit, since n never exceeds 2^30.       *)
NextDigit(n, d) == IF n = -1 \/ d > 9 \/ 10 * n + d > MaxLength THEN -1 ELSE 10 * n + d
ParsePositiveInt(s) ==
  LET value[i \in 0..Len(s)] == IF i = 0 THEN 0 ELSE NextDigit(value[i - 1], s[i])
  IN IF s = <<>> THEN -1 ELSE value[Len(s)]

(* detectH2CUpgrade on a buffer with a complete head. *)
DetectUpgrade(buf) ==
  LET head == SubSeq(buf, 1, HeaderEnd(buf))
      Has(k) == \E i \in 2..Len(head) : head[i - 1] = crlf /\ head[i].k = k
  IN Has("upgrade") /\ Has("connection") /\ Has("settings")

--------------------------------------------------------------------------------
(***************************************************************************)
(* Sending, and the HTTP/2 connection                                      *)
(***************************************************************************)

Reply(k, n) == [k |-> k, v |-> <<n>>]

(* Conn.Send of one reply: whole, or an error on a client that does not    *)
(* read (EAGAIN, EPIPE).                                                   *)
Send(r, isDeaf) == {<<r>>} \cup (IF isDeaf THEN {<<>>} ELSE {})

NewH2 == [seen |-> FALSE, buf |-> <<>>]

(* One frame: SETTINGS is acknowledged, a request is answered and the      *)
(* error of that write ignored, a broken frame ends the connection.        *)
HandleFrame(f, isDeaf) ==
  CASE f.k = "config" -> {[sent |-> s, err |-> s = <<>>] : s \in Send(Reply("ack", 0), isDeaf)}
    [] f.k = "get" -> {[sent |-> s, err |-> FALSE] : s \in Send(Reply("h2", 0), isDeaf)}
    [] OTHER -> {[sent |-> <<>>, err |-> TRUE]}

(* Frame by frame until an error: what the frames so far can have come to. *)
Handle(o, f, isDeaf) ==
  IF o.err THEN {o}
  ELSE {[sent |-> o.sent \o x.sent, err |-> x.err] : x \in HandleFrame(f, isDeaf)}
HandleAll(frames, isDeaf) ==
  LET after[i \in 0..Len(frames)] ==
        IF i = 0 THEN {[sent |-> <<>>, err |-> FALSE]}
        ELSE UNION {Handle(o, frames[i], isDeaf) : o \in after[i - 1]}
  IN after[Len(frames)]

(* feed: the preface once there is enough of it, then the frames.          *)
Feed(h2, data, isDeaf) ==
  LET buf == h2.buf \o data
      frames == IF h2.seen THEN buf ELSE SubSeq(buf, Len(Preface) + 1, Len(buf))
  IN CASE ~h2.seen /\ Len(buf) < Len(Preface) ->
            {[h2 |-> [seen |-> FALSE, buf |-> buf], sent |-> <<>>, err |-> FALSE]}
       [] ~h2.seen /\ Len(buf) >= Len(Preface) /\ ~IsPrefix(Preface, buf) ->
            {[h2 |-> h2, sent |-> <<>>, err |-> TRUE]}
       [] OTHER ->
            {[h2 |-> [seen |-> TRUE, buf |-> <<>>], sent |-> o.sent, err |-> o.err] :
               o \in HandleAll(frames, isDeaf)}

--------------------------------------------------------------------------------
(***************************************************************************)
(* HTTPServer on plain TCP                                                 *)
(***************************************************************************)

(* Slips a change to this code could make; the mutants of PROJECT.json put *)
(* each in the place of the definition it is named after.                  *)
CloseConnForgets(st) == st
NeverClosing(st) == FALSE
BodyStartEarly(end) == end
UpgradeKeeps(st) == [st EXCEPT !.mode = "http2", !.h2 = NewH2]

Fresh == [mode |-> "unknown", rxBuf |-> <<>>, h2 |-> NewH2, closing |-> FALSE]

(* What a call leaves: the state and what it has sent. *)
Done(st, sent) == [st |-> st, sent |-> sent]
CloseConn(st) == [st EXCEPT !.closing = TRUE]

(* feed, and closeConn if it returns an error. *)
FeedPlain(st, data, sent, isDeaf) ==
  {Done([st EXCEPT !.h2 = r.h2, !.closing = r.err], sent \o r.sent) :
     r \in Feed(st.h2, data, isDeaf)}

BodyStart(end) == end + 2

(* What an HTTP/1 buffer calls for: "wait", "refuse" or the answer.        *)
Http1(buf) ==
  LET end == HeaderEnd(buf)
      req == Request(SubSeq(buf, 1, end))
      value == HeaderValue(req.headers, "length")
      n == ParsePositiveInt(value)
  IN CASE end = -1 -> Reply("wait", 0)
       [] end # -1 /\ ~req.ok -> Reply("refuse", 0)
       [] end # -1 /\ req.ok /\ value = <<>> -> Reply("answer", 0)
       [] OTHER -> IF n = -1 THEN Reply("refuse", 0)
                   ELSE IF Len(buf) < BodyStart(end) + n THEN Reply("wait", 0)
                   ELSE Reply("answer", n)

(* serveHTTP1Plain: the handler answers, its write error is lost; closed   *)
(* after that.                                                             *)
ServeHTTP1Plain(st, isDeaf) ==
  LET a == Http1(st.rxBuf)
  IN CASE a.k = "wait" -> {Done(st, <<>>)}
       [] a.k = "refuse" -> {Done(CloseConn(st), <<>>)}
       [] OTHER -> {Done(CloseConn(st), s) : s \in Send([a EXCEPT !.k = "h1"], isDeaf)}

Upgraded(st) == [st EXCEPT !.mode = "http2", !.h2 = NewH2, !.rxBuf = <<>>]

(* beginH2CUpgrade: 101, SETTINGS, the answer to stream 1, and the bytes   *)
(* after the head go to feed.  The error of a write closes, but for the    *)
(* handler's.                                                              *)
BeginH2CUpgrade(st, hdrEnd, isDeaf) ==
  LET req == Request(SubSeq(st.rxBuf, 1, hdrEnd))
      leftover == SubSeq(st.rxBuf, hdrEnd + 1, Len(st.rxBuf))
      up == [st EXCEPT !.mode = "http2", !.h2 = NewH2]
      served == Upgraded(st)
  IN IF ~req.ok THEN {Done(CloseConn(st), <<>>)}
     ELSE UNION {
       IF s101 = <<>> THEN {Done(CloseConn(st), <<>>)}
       ELSE UNION {
         IF set = <<>> THEN {Done(CloseConn(up), s101)}
         ELSE UNION {
           IF leftover = <<>> THEN {Done(served, s101 \o set \o ans)}
           ELSE FeedPlain(served, leftover, s101 \o set \o ans, isDeaf) :
           ans \in Send(Reply("h2", 0), isDeaf)} :
         set \in Send(Reply("settings", 0), isDeaf)} :
       s101 \in Send(Reply("101", 0), isDeaf)}

HasPreface(buf) == IsPrefix(Preface, buf)
IsClosing(st) == st.closing
TooLong(buf) == Len(buf) > MaxHead

(* dispatchPlain, in its order: closing, a mode decided before, the        *)
(* preface, an incomplete head, an upgrade, HTTP/1.                        *)
DispatchPlain(state, data, isDeaf) ==
  LET st == [state EXCEPT !.rxBuf = @ \o data]
      end == HeaderEnd(st.rxBuf)
  IN CASE IsClosing(state) -> {Done(state, <<>>)}
       [] ~IsClosing(state) /\ state.mode = "http2" ->
            FeedPlain(state, data, <<>>, isDeaf)
       [] ~IsClosing(state) /\ state.mode = "http1" -> ServeHTTP1Plain(st, isDeaf)
       [] OTHER ->
            IF HasPreface(st.rxBuf)
              THEN FeedPlain([st EXCEPT !.mode = "http2", !.rxBuf = <<>>],
                             st.rxBuf, <<>>, isDeaf)
            ELSE IF end = -1
              THEN {Done(IF TooLong(st.rxBuf) THEN CloseConn(st) ELSE st, <<>>)}
            ELSE IF DetectUpgrade(st.rxBuf)
              THEN BeginH2CUpgrade(st, end + 2, isDeaf)
            ELSE ServeHTTP1Plain([st EXCEPT !.mode = "http1"], isDeaf)

--------------------------------------------------------------------------------
(***************************************************************************)
(* Connections                                                             *)
(***************************************************************************)

NoLocal == [proto |-> "none", buf |-> <<>>, h2 |-> NewH2]

TypeOK ==
  /\ driver \in [Keys -> Drivers \cup {None}]
  /\ \A k \in Keys : driver[k] # None => talk[k] \in Talks /\ got[k] \in 0..Len(Bytes(talk[k]))
  /\ deaf \in [Keys -> BOOLEAN]
  /\ pc \in [Keys -> {"idle", "handshake", "read", "served"}]
  /\ \A k \in Keys : states[k] # None =>
       /\ states[k].mode \in {"unknown", "http1", "http2"}
       /\ states[k].closing \in BOOLEAN
       /\ states[k].mode = "http2" /\ ~states[k].closing => states[k].rxBuf = <<>>
       /\ states[k].mode = "unknown" /\ ~states[k].closing =>
            Len(states[k].rxBuf) <= MaxHead
  /\ \A k \in Keys : local[k].proto \in {"none", "h1", "h2"}
  /\ open \in [Keys -> BOOLEAN]
  /\ listening \in BOOLEAN
  /\ split \in [Keys -> BOOLEAN]

Init ==
  /\ driver = [k \in Keys |-> None]
  /\ talk = [k \in Keys |-> None]
  /\ got = [k \in Keys |-> 0]
  /\ deaf = [k \in Keys |-> FALSE]
  /\ pc = [k \in Keys |-> "idle"]
  /\ states = [k \in Keys |-> None]
  /\ local = [k \in Keys |-> NoLocal]
  /\ open = [k \in Keys |-> FALSE]
  /\ listening = TRUE
  /\ out = [k \in Keys |-> <<>>]
  /\ split = [k \in Keys |-> FALSE]

Coming(k, n) == SubSeq(Bytes(talk[k]), got[k] + 1, got[k] + n)
Left(k) == Len(Bytes(talk[k])) - got[k]

(* A connection gets the number k; its client has all of t to say and may  *)
(* stop or stop reading at any point.                                      *)
Arrive(k, d, t, isDeaf) ==
  /\ driver[k] = None
  /\ driver' = [driver EXCEPT ![k] = d]
  /\ talk' = [talk EXCEPT ![k] = t]
  /\ deaf' = [deaf EXCEPT ![k] = isDeaf]
  /\ open' = [open EXCEPT ![k] = TRUE]

(* The descriptor of k is closed and its number is free again. *)
Gone(k) ==
  /\ driver' = [driver EXCEPT ![k] = None]
  /\ talk' = [talk EXCEPT ![k] = None]
  /\ got' = [got EXCEPT ![k] = 0]
  /\ deaf' = [deaf EXCEPT ![k] = FALSE]
  /\ pc' = [pc EXCEPT ![k] = "idle"]
  /\ local' = [local EXCEPT ![k] = NoLocal]
  /\ open' = [open EXCEPT ![k] = FALSE]
  /\ out' = [out EXCEPT ![k] = <<>>]
  /\ split' = [split EXCEPT ![k] = FALSE]
  /\ UNCHANGED listening

(* OnConnect stores a fresh state; a backend may do without that callback  *)
(* ("lazily create", httpserver.go:67).                                    *)
Connect(k, d, t, isDeaf) ==
  /\ Arrive(k, d, t, isDeaf)
  /\ pc' = [pc EXCEPT ![k] = "read"]
  /\ \/ states' = [states EXCEPT ![k] = Fresh]
     \/ UNCHANGED states
  /\ UNCHANGED <<got, local, listening, out, split>>

(* OnData: the state of the connection, made now if there is none.         *)
Data(k, n) ==
  /\ pc[k] = "read"
  /\ driver[k] \in {"once", "many"}
  /\ n <= Left(k)
  /\ LET st == IF states[k] = None THEN Fresh ELSE states[k]
         data == Coming(k, n)
     IN /\ \E r \in DispatchPlain(st, data, deaf[k]) :
             /\ states' = [states EXCEPT ![k] = r.st]
             /\ out' = [out EXCEPT ![k] = @ \o r.sent]
             /\ open' = [open EXCEPT ![k] = @ /\ ~r.st.closing]
        /\ split' = [split EXCEPT ![k] = @ \/
             /\ st.mode = "unknown"
             /\ st.rxBuf \o data \in {SubSeq(Preface, 1, i) : i \in 3..5}]
  /\ got' = [got EXCEPT ![k] = @ + n]
  /\ pc' = [pc EXCEPT ![k] = IF driver[k] = "once" THEN "served" ELSE "read"]
  /\ UNCHANGED <<clientVars, local, listening>>

(* The sweep of a backend closes an idle connection without OnDisconnect,  *)
(* so its state stays for the next connection with that Key to find.       *)
Swept(k) ==
  /\ driver[k] \in {"once", "many"}
  /\ got[k] = 0
  /\ Gone(k)
  /\ UNCHANGED states

(* OnDisconnect, and the backend closes the descriptor: after its one      *)
(* Data, or when the client ends or resets the connection.                 *)
Disconnect(k) ==
  /\ driver[k] \in {"once", "many"}
  /\ states' = [states EXCEPT ![k] = None]
  /\ Gone(k)

--------------------------------------------------------------------------------
(***************************************************************************)
(* HTTPServer on TLS                                                       *)
(***************************************************************************)

(* Accept, and a goroutine for the connection.                             *)
TlsAccept(k, t, isDeaf) ==
  /\ listening
  /\ "tls" \in Drivers
  /\ Arrive(k, "tls", t, isDeaf)
  /\ pc' = [pc EXCEPT ![k] = "handshake"]
  /\ UNCHANGED <<got, states, local, listening, out, split>>

(* Accept returns an error, whichever: ListenTLSConfig returns.  The       *)
(* goroutines go on.                                                       *)
TlsAcceptFails ==
  /\ listening
  /\ "tls" \in Drivers
  /\ listening' = FALSE
  /\ UNCHANGED <<driver, talk, got, deaf, pc, states, local, open, out, split>>

(* The handshake settles the protocol, whatever the client says after it;  *)
(* with h2 the server's SETTINGS go out first.                             *)
TlsHandshake(k, proto) ==
  /\ pc[k] = "handshake"
  /\ local' = [local EXCEPT ![k].proto = proto]
  /\ \E s \in IF proto = "h2" THEN Send(Reply("settings", 0), deaf[k]) ELSE {<<>>} :
       /\ out' = [out EXCEPT ![k] = s]
       /\ open' = [open EXCEPT ![k] = proto = "h1" \/ s # <<>>]
  /\ pc' = [pc EXCEPT ![k] = IF open'[k] THEN "read" ELSE "served"]
  /\ UNCHANGED <<clientVars, got, states, listening, split>>

(* Read brings bytes: serveH1OverConn tries the whole buffer again,        *)
(* serveH2OverConn feeds them.                                             *)
TlsRead(k, n) ==
  /\ pc[k] = "read"
  /\ driver[k] = "tls"
  /\ n <= Left(k)
  /\ got' = [got EXCEPT ![k] = @ + n]
  /\ LET l == local[k]
         buf == l.buf \o Coming(k, n)
         a == Http1(buf)
     IN \/ /\ l.proto = "h1"
           /\ local' = [local EXCEPT ![k].buf = buf]
           /\ open' = [open EXCEPT ![k] = a.k = "wait"]
           /\ \E s \in IF a.k = "answer" THEN Send([a EXCEPT !.k = "h1"], deaf[k]) ELSE {<<>>} :
                out' = [out EXCEPT ![k] = s]
        \/ /\ l.proto = "h2"
           /\ \E r \in Feed(l.h2, Coming(k, n), deaf[k]) :
                /\ local' = [local EXCEPT ![k].h2 = r.h2]
                /\ open' = [open EXCEPT ![k] = ~r.err]
                /\ out' = [out EXCEPT ![k] = @ \o r.sent]
  /\ pc' = [pc EXCEPT ![k] = IF open'[k] THEN "read" ELSE "served"]
  /\ UNCHANGED <<clientVars, states, listening, split>>

(* The goroutine ends: handshake failed, end of the stream, or served.     *)
TlsClose(k) ==
  /\ driver[k] = "tls"
  /\ Gone(k)
  /\ UNCHANGED states

Next ==
  \/ \E k \in Keys, t \in Talks, isDeaf \in BOOLEAN :
       \/ \E d \in Drivers \ {"tls"} : Connect(k, d, t, isDeaf)
       \/ TlsAccept(k, t, isDeaf)
  \/ \E k \in Keys, n \in 1..ReadSize : Data(k, n) \/ TlsRead(k, n)
  \/ \E k \in Keys : Disconnect(k) \/ Swept(k) \/ TlsClose(k)
  \/ \E k \in Keys, proto \in {"h1", "h2"} : TlsHandshake(k, proto)
  \/ TlsAcceptFails

Spec == Init /\ [][Next]_vars

--------------------------------------------------------------------------------
(***************************************************************************)
(* What a talk should be answered with, from what it means                 *)
(***************************************************************************)

(* The digits s denote n: dividing it by ten again and again brings out    *)
(* the last digit of s, the one before it, and so on, and leaves nothing.  *)
Denotes(s, n) ==
  LET left[i \in 0..Len(s)] == IF i = 0 THEN n ELSE left[i - 1] \div 10
  IN /\ s # <<>>
     /\ left[Len(s)] = 0
     /\ \A i \in DOMAIN s : s[Len(s) + 1 - i] = left[i - 1] % 10

Named(t, k) == {i \in DOMAIN t.headers : t.headers[i].k = k}
WellFormed(t) == t.line = "request" /\ Named(t, "nocolon") = {}
IsUpgrade(t) == \A k \in {"upgrade", "connection", "settings"} : Named(t, k) # {}

(* The answers to frames, up to the first broken one.                      *)
FrameAnswers(t) ==
  LET broken == {i \in DOMAIN t.frames : t.frames[i] = "broken"}
      sound == SubSeq(t.frames, 1, Min(broken \cup {Len(t.frames) + 1}) - 1)
  IN [i \in DOMAIN sound |-> Reply(IF sound[i] = "config" THEN "ack" ELSE "h2", 0)]

(* The length of the body of a request, if it is one: the first of several *)
(* Content-Lengths counts and an empty one is none.                        *)
BodyOf(t) ==
  LET lengths == Named(t, "length")
      s == t.headers[Min(lengths)].v
      said == IF lengths = {} \/ s = <<>> THEN {0}
              ELSE {n \in 0..MaxLength : Denotes(s, n)}
  IN IF ~WellFormed(t) THEN {} ELSE said

(* A request is answered once all of its body is there, and with it.       *)
After(t) == Len(Bytes(t)) - Len(HeadOf(t))
HandlerAnswer(k, t) ==
  IF \E n \in BodyOf(t) : n <= After(t)
    THEN <<Reply(k, CHOOSE n \in BodyOf(t) : TRUE)>> ELSE <<>>
WaitsForBody(t) == \E n \in BodyOf(t) : n > After(t)

(* On any HTTP/2 connection the server's SETTINGS come before the answers  *)
(* to frames.  An upgraded request has its whole body before the preface.  *)
Settings == <<Reply("settings", 0)>>
Expected(d, t) ==
  CASE t.line = "none" ->
         IF t.h2 /\ t.body = 0 THEN Settings \o FrameAnswers(t)
         ELSE IF d = "tls" THEN Settings ELSE <<>>
    [] t.line # "none" /\ (d = "tls" \/ ~IsUpgrade(t)) -> HandlerAnswer("h1", t)
    [] OTHER ->
         IF BodyOf(t) = {} THEN <<>>
         ELSE <<Reply("101", 0)>> \o Settings \o HandlerAnswer("h2", t) \o
              (IF t.h2 /\ t.body \in BodyOf(t) THEN FrameAnswers(t) ELSE <<>>)

--------------------------------------------------------------------------------
(***************************************************************************)
(* Properties                                                              *)
(***************************************************************************)

(* Is the head of t short enough to be waited for?  On TLS any is. *)
HeadFits(k) == driver[k] = "tls" \/ Len(HeadOf(talk[k])) <= MaxHead

(* Does a client on TLS speak the protocol it agreed to? *)
SpeaksProto(k) == driver[k] = "tls" => (local[k].proto = "h2" <=> talk[k].line = "none")

(* Only clients that read what they are sent have something to expect.     *)
(* Heads above MaxHead are served or refused as they are cut.              *)
Attends(k) == pc[k] \in {"read", "served"} /\ ~deaf[k] /\ HeadFits(k) /\ SpeaksProto(k)

(* Where the code leaves what a talk means.                                *)
(*  - A request with no header line is refused.  "Input must end just      *)
(*    before the CRLF CRLF terminator" (httpserver.go:343-344), and so it  *)
(*    does, but the line end that parseHTTP1Request looks for is the one   *)
(*    that was cut off (:346-349).                                         *)
(*  - "Body holds the buffered request body" (http2.go:45-46), but         *)
(*    beginH2CUpgrade passes nil for an upgraded request                   *)
(*    (httpserver.go:221) and feeds the body to the frame parser.          *)
(*  - "The server's connection preface (an empty SETTINGS frame)"          *)
(*    (http2.go:82) is not sent by prior knowledge (httpserver.go:170-180). *)
(*  - The preface may come in pieces, rxBuf is there for that; but a read  *)
(*    that ends after its first CRLF CRLF and before its end (split) is    *)
(*    taken for an HTTP/1 head and refused (:182).                         *)
IsBare(k) == talk[k].line = "request" /\ talk[k].headers = <<>>
UpgradesWithBody(k) ==
  /\ driver[k] # "tls" /\ IsUpgrade(talk[k])
  /\ WellFormed(talk[k]) /\ BodyOf(talk[k]) # {0}
HasPriorKnowledge(k) ==
  /\ driver[k] # "tls" /\ talk[k].line = "none"
  /\ talk[k].h2 /\ talk[k].body = 0

(* What the talk of k means, less the SETTINGS by prior knowledge.         *)
Meaning(k) ==
  LET meant == Expected(driver[k], talk[k])
  IN IF HasPriorKnowledge(k) THEN Tail(meant) ELSE meant

(* A talk is answered by what it means, however it was cut: never with     *)
(* anything else, and in full once all of it has been delivered, unless it *)
(* is refused for one of the two reasons above.  A body goes to the        *)
(* handler at its full length, an upgraded request and the frames after it *)
(* are answered in order, and the state a swept connection leaves behind   *)
(* does the next one with its Key no harm.                                 *)
AnsweredAsMeant ==
  \A k \in Keys : Attends(k) /\ ~UpgradesWithBody(k) =>
    /\ IsPrefix(out[k], Meaning(k))
    /\ Left(k) = 0 /\ ~IsBare(k) /\ ~split[k] => out[k] = Meaning(k)

(* A connection is not left open when nothing can come of it any more, and *)
(* is not closed while its request is incomplete: with all of an HTTP/1    *)
(* talk delivered it is closed if that was answered or makes no request,   *)
(* open if the body is still short ("closed after the handler returns",    *)
(* httpserver.go:27-28).                                                   *)
ClosedWhenDecided ==
  \A k \in Keys :
    /\ pc[k] \in {"read", "served"} /\ Left(k) = 0 /\ HeadFits(k) /\ SpeaksProto(k)
    /\ talk[k].line # "none"
    /\ driver[k] = "tls" \/ ~IsUpgrade(talk[k])
    => (open[k] <=> WaitsForBody(talk[k]))

(* After closeConn no later bytes are answered: the descriptor may be      *)
(* another connection's by then.                                           *)
SilentOnceClosed ==
  [][\A k \in Keys :
       driver[k] # None /\ ~open[k] /\ driver'[k] # None => out'[k] = out[k]]_vars
================================================================================
