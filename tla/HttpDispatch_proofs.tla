-------------------------- MODULE HttpDispatch_proofs --------------------------
(***************************************************************************)
(* Theorems about HttpDispatch, for any connections, talks, cuts and sizes *)
(* of buffers.  Two inductive invariants: IInv, of one connection's types, *)
(* gives TypeOK and the silence after a close; on top of it AllMeant says  *)
(* what each connection has been sent and gives AnsweredAsMeant and        *)
(* ClosedWhenDecided.  Between the two stand the lemmas that say what the  *)
(* parsers and feed make of any part of a talk.                            *)
(***************************************************************************)
EXTENDS HttpDispatch, SequenceTheorems, LeastNumber, TLAPS

--------------------------------------------------------------------------------
(***************************************************************************)
(* Sequences of anything                                                   *)
(***************************************************************************)

IsSeq(q) == \E S : q \in Seq(S)

LEMMA EmptyIsSeq == IsSeq(<<>>)
<1>1. <<>> \in Seq({})
  OBVIOUS
<1> QED
  BY <1>1, Zenon DEF IsSeq

LEMMA SingleIsSeq == ASSUME NEW x PROVE IsSeq(<<x>>)
<1>1. <<x>> \in Seq({x})
  OBVIOUS
<1> QED
  BY <1>1, Zenon DEF IsSeq

LEMMA ConcatIsSeq ==
  ASSUME NEW p, IsSeq(p), NEW q, IsSeq(q)
  PROVE  IsSeq(p \o q)
<1>1. PICK S : p \in Seq(S)
  BY DEF IsSeq
<1>2. PICK T : q \in Seq(T)
  BY DEF IsSeq
<1>3. PICK U : U = S \cup T
  OBVIOUS
<1>4. p \in Seq(U)
  BY ONLY <1>1, <1>3
<1>5. q \in Seq(U)
  BY ONLY <1>2, <1>3
<1>6. p \o q \in Seq(U)
  BY <1>4, <1>5, ConcatProperties
<1> QED
  BY <1>6, Zenon DEF IsSeq

LEMMA ThreeJoined ==
  ASSUME NEW p, IsSeq(p), NEW q, IsSeq(q), NEW r, IsSeq(r)
  PROVE  (p \o q) \o r = p \o (q \o r)
<1>1. PICK P, Q, R : p \in Seq(P) /\ q \in Seq(Q) /\ r \in Seq(R)
  BY Zenon DEF IsSeq
<1>2. PICK U : U = P \cup Q \cup R
  OBVIOUS
<1>3. p \in Seq(U)
  BY ONLY <1>1, <1>2
<1>4. q \in Seq(U)
  BY ONLY <1>1, <1>2
<1>5. r \in Seq(U)
  BY ONLY <1>1, <1>2
<1> QED
  BY <1>3, <1>4, <1>5, ConcatAssociative

(* To send nothing leaves what was sent.                                   *)
LEMMA NothingMore ==
  ASSUME NEW p, IsSeq(p)
  PROVE  p \o <<>> = p
<1>1. PICK S : p \in Seq(S)
  BY DEF IsSeq
<1> QED
  BY ONLY <1>1

--------------------------------------------------------------------------------
(***************************************************************************)
(* HandleAll                                                               *)
(***************************************************************************)

(* What the frames can have come to: a row of answers, and an error or not. *)
Outcome(o) == /\ o = [sent |-> o.sent, err |-> o.err]
              /\ IsSeq(o.sent)
              /\ o.err \in BOOLEAN

LEMMA SendIsSeq ==
  ASSUME NEW r, NEW isDeaf, NEW s \in Send(r, isDeaf)
  PROVE  IsSeq(s)
BY EmptyIsSeq, SingleIsSeq DEF Send

LEMMA HandleFrameOutcome ==
  ASSUME NEW f, NEW isDeaf, NEW o \in HandleFrame(f, isDeaf)
  PROVE  Outcome(o)
<1>1. CASE f.k = "config"
  <2>1. PICK s \in Send(Reply("ack", 0), isDeaf) : o = [sent |-> s, err |-> s = <<>>]
    BY <1>1 DEF HandleFrame
  <2>2. IsSeq(s)
    BY SendIsSeq
  <2> QED
    BY <2>1, <2>2 DEF Outcome
<1>2. CASE f.k = "get"
  <2>1. PICK s \in Send(Reply("h2", 0), isDeaf) : o = [sent |-> s, err |-> FALSE]
    BY <1>2 DEF HandleFrame
  <2>2. IsSeq(s)
    BY SendIsSeq
  <2> QED
    BY <2>1, <2>2 DEF Outcome
<1>3. CASE f.k \notin {"config", "get"}
  <2>1. o = [sent |-> <<>>, err |-> TRUE]
    BY <1>3 DEF HandleFrame
  <2>2. o.sent = <<>> /\ o.err = TRUE
    BY ONLY <2>1
  <2> QED
    BY ONLY <2>1, <2>2, EmptyIsSeq DEF Outcome
<1> QED
  BY <1>1, <1>2, <1>3

LEMMA HandleOutcome ==
  ASSUME NEW a, Outcome(a), NEW f, NEW isDeaf, NEW o \in Handle(a, f, isDeaf)
  PROVE  Outcome(o)
<1>1. CASE a.err
  BY <1>1 DEF Handle
<1>2. CASE ~a.err
  <2>1. PICK x \in HandleFrame(f, isDeaf) : o = [sent |-> a.sent \o x.sent, err |-> x.err]
    BY <1>2 DEF Handle
  <2>2. IsSeq(a.sent) /\ IsSeq(x.sent) /\ x.err \in BOOLEAN
    BY HandleFrameOutcome DEF Outcome
  <2>3. IsSeq(a.sent \o x.sent)
    BY <2>2, ConcatIsSeq
  <2> QED
    BY <2>1, <2>2, <2>3 DEF Outcome
<1> QED
  BY <1>1, <1>2

(* After i frames, with g for what comes before.                           *)
Then(frames, isDeaf, g, i) ==
  IF i = 0 THEN {[sent |-> <<>>, err |-> FALSE]}
  ELSE UNION {Handle(o, frames[i], isDeaf) : o \in g[i - 1]}

LEMMA ThenExists ==
  ASSUME NEW frames, NEW isDeaf
  PROVE  \A n \in Nat : \E g : g = [i \in 0..n |-> Then(frames, isDeaf, g, i)]
<1> DEFINE S == {n \in Nat : ~\E g : g = [i \in 0..n |-> Then(frames, isDeaf, g, i)]}
<1>1. SUFFICES ASSUME S # {} PROVE FALSE
  OBVIOUS
<1>2. PICK n \in S : \A m \in S : n <= m
  <2>1. S \in SUBSET Nat
    OBVIOUS
  <2> HIDE DEF S
  <2> QED
    BY <1>1, <2>1, LeastNumber
<1>3. n \in Nat /\ ~\E g : g = [i \in 0..n |-> Then(frames, isDeaf, g, i)]
  OBVIOUS
<1>4. PICK g : n # 0 => g = [i \in 0..(n - 1) |-> Then(frames, isDeaf, g, i)]
  <2>1. CASE n = 0
    BY <2>1
  <2>2. CASE n # 0
    <3>1. n - 1 \in Nat /\ ~(n <= n - 1)
      BY <1>3, <2>2
    <3>2. n - 1 \notin S
      BY <1>2, <3>1
    <3> QED
      BY <3>1, <3>2
  <2> QED
    BY <2>1, <2>2
<1>5. PICK h : h = [i \in 0..n |-> Then(frames, isDeaf, g, i)]
  OBVIOUS
<1>6. ASSUME NEW i \in 0..n PROVE h[i] = Then(frames, isDeaf, h, i)
  <2>1. h[i] = Then(frames, isDeaf, g, i)
    BY <1>5
  <2>2. CASE i = 0
    BY <2>1, <2>2 DEF Then
  <2>3. CASE i # 0
    <3>1. n # 0 /\ i - 1 \in 0..(n - 1) /\ i - 1 \in 0..n
      BY <1>3, <2>3
    <3>2. g[i - 1] = Then(frames, isDeaf, g, i - 1)
      BY <1>4, <3>1
    <3>3. h[i - 1] = g[i - 1]
      BY <1>5, <3>1, <3>2
    <3> QED
      BY <2>1, <2>3, <3>3 DEF Then
  <2> QED
    BY <2>2, <2>3
<1>7. h = [i \in 0..n |-> Then(frames, isDeaf, h, i)]
  BY <1>5, <1>6
<1> QED
  BY <1>3, <1>7

LEMMA HandleAllIsThen ==
  ASSUME NEW frames, NEW n \in Nat, n = Len(frames), NEW isDeaf
  PROVE  \E g : /\ g = [i \in 0..n |-> Then(frames, isDeaf, g, i)]
                /\ HandleAll(frames, isDeaf) = g[n]
<1>1. PICK g : g = [i \in 0..n |-> Then(frames, isDeaf, g, i)]
  BY ThenExists
<1>2. g = [i \in 0..Len(frames) |->
             IF i = 0 THEN {[sent |-> <<>>, err |-> FALSE]}
             ELSE UNION {Handle(o, frames[i], isDeaf) : o \in g[i - 1]}]
  BY <1>1, Zenon DEF Then
<1> DEFINE Eq(f) == f = [i \in 0..Len(frames) |->
             IF i = 0 THEN {[sent |-> <<>>, err |-> FALSE]}
             ELSE UNION {Handle(o, frames[i], isDeaf) : o \in f[i - 1]}]
<1>3. Eq(CHOOSE f : Eq(f))
  BY <1>2, Zenon
<1>4. HandleAll(frames, isDeaf) = (CHOOSE f : Eq(f))[Len(frames)]
  BY Zenon DEF HandleAll
<1>5. PICK f : f = CHOOSE a : Eq(a)
  OBVIOUS
<1>6. f = [i \in 0..n |-> Then(frames, isDeaf, f, i)]
  BY <1>3, <1>5, Zenon DEF Then
<1>7. HandleAll(frames, isDeaf) = f[n]
  <2> HIDE DEF Eq
  <2>1. HandleAll(frames, isDeaf) = f[Len(frames)]
    BY ONLY <1>4, <1>5, Zenon
  <2> QED
    BY ONLY <2>1, n = Len(frames), Zenon
<1> HIDE DEF Eq
<1> QED
  BY ONLY <1>6, <1>7, Zenon

LEMMA HandleAllOutcomes ==
  ASSUME NEW frames, NEW n \in Nat, n = Len(frames), NEW isDeaf,
         NEW o \in HandleAll(frames, isDeaf)
  PROVE  Outcome(o)
<1>1. PICK g : /\ g = [i \in 0..n |-> Then(frames, isDeaf, g, i)]
               /\ HandleAll(frames, isDeaf) = g[n]
  BY HandleAllIsThen
<1> DEFINE S == {i \in Nat : i <= n /\ ~\A a \in g[i] : Outcome(a)}
<1>2. S = {}
  <2>1. SUFFICES ASSUME S # {} PROVE FALSE
    OBVIOUS
  <2>2. PICK i \in S : \A j \in S : i <= j
    <3>1. S \in SUBSET Nat
      OBVIOUS
    <3> HIDE DEF S
    <3> QED
      BY <2>1, <3>1, LeastNumber
  <2>3. i \in Nat /\ i <= n /\ i \in 0..n /\ ~\A a \in g[i] : Outcome(a)
    OBVIOUS
  <2>4. PICK a : a \in g[i] /\ ~Outcome(a)
    BY <2>3
  <2>5. g[i] = Then(frames, isDeaf, g, i)
    BY <1>1, <2>3
  <2>6. CASE i = 0
    <3>1. a = [sent |-> <<>>, err |-> FALSE]
      BY <2>4, <2>5, <2>6 DEF Then
    <3> QED
      BY <2>4, <3>1, EmptyIsSeq DEF Outcome
  <2>7. CASE i # 0
    <3>1. i - 1 \in Nat /\ i - 1 <= n /\ ~(i <= i - 1)
      BY <2>3, <2>7
    <3>2. \A b \in g[i - 1] : Outcome(b)
      BY <2>2, <3>1
    <3>3. PICK b \in g[i - 1] : a \in Handle(b, frames[i], isDeaf)
      BY <2>4, <2>5, <2>7 DEF Then
    <3> QED
      BY <2>4, <3>2, <3>3, HandleOutcome
  <2> QED
    BY <2>6, <2>7
<1>3. n \in Nat /\ n <= n /\ n \notin S
  BY <1>2
<1> QED
  BY <1>1, <1>3

--------------------------------------------------------------------------------
(***************************************************************************)
(* feed and dispatchPlain                                                  *)
(***************************************************************************)

(* The HTTP/2 side of a connection, and the state of one.                  *)
GoodH2(h2) == h2 \in [seen : BOOLEAN, buf : Seq(Tokens)]
States == [mode : {"unknown", "http1", "http2"}, rxBuf : Seq(Tokens),
           h2 : [seen : BOOLEAN, buf : Seq(Tokens)], closing : BOOLEAN]
Settled(st) ==
  /\ st.mode = "http2" /\ ~st.closing => st.rxBuf = <<>>
  /\ st.mode = "unknown" /\ ~st.closing => Len(st.rxBuf) <= MaxHead
GoodState(st) == st \in States /\ Settled(st)

LEMMA EmptyTokens == <<>> \in Seq(Tokens)
OBVIOUS

(* A call leaves a good state and has sent a row of answers.               *)
GoodResult(r) == GoodState(r.st) /\ IsSeq(r.sent)

LEMMA DoneIsGood ==
  ASSUME NEW st, GoodState(st), NEW sent, IsSeq(sent), NEW r, r = Done(st, sent)
  PROVE  GoodResult(r)
BY DEF Done, GoodResult

LEMMA NewH2IsGood == GoodH2(NewH2)
BY DEF GoodH2, NewH2

LEMMA ClosedIsGood ==
  ASSUME NEW st \in States
  PROVE  GoodState(CloseConn(st))
BY DEF GoodState, States, Settled, CloseConn

LEMMA FeedIsGood ==
  ASSUME NEW h2, GoodH2(h2), NEW data \in Seq(Tokens), NEW isDeaf,
         NEW r \in Feed(h2, data, isDeaf)
  PROVE  GoodH2(r.h2) /\ IsSeq(r.sent) /\ r.err \in BOOLEAN
<1>0. h2.seen \in BOOLEAN /\ h2.buf \in Seq(Tokens)
  BY DEF GoodH2
<1>1. PICK buf : buf = h2.buf \o data
  OBVIOUS
<1>2. buf \in Seq(Tokens)
  BY <1>0, <1>1, ConcatProperties
<1>3. PICK p \in Nat : p = Len(Preface)
  BY DEF Preface
<1>4. PICK frames : frames = IF h2.seen THEN buf ELSE SubSeq(buf, p + 1, Len(buf))
  OBVIOUS
<1>5. CASE ~h2.seen /\ Len(buf) < p
  <2>1. r = [h2 |-> [seen |-> FALSE, buf |-> buf], sent |-> <<>>, err |-> FALSE]
    BY <1>1, <1>3, <1>5 DEF Feed
  <2>2. r.h2 = [seen |-> FALSE, buf |-> buf] /\ r.sent = <<>> /\ r.err = FALSE
    BY ONLY <2>1
  <2>3. PICK h : h = [seen |-> FALSE, buf |-> buf]
    OBVIOUS
  <2>4. h \in [seen : BOOLEAN, buf : Seq(Tokens)]
    BY ONLY <1>2, <2>3
  <2>5. r.h2 = h /\ r.sent = <<>> /\ r.err \in BOOLEAN
    BY <2>2, <2>3, Zenon
  <2> QED
    BY <2>4, <2>5, EmptyIsSeq, Zenon DEF GoodH2
<1>6. CASE ~h2.seen /\ ~(Len(buf) < p) /\ ~IsPrefix(Preface, buf)
  <2>1. Len(buf) >= p
    BY <1>2, <1>3, <1>6
  <2>2. r = [h2 |-> h2, sent |-> <<>>, err |-> TRUE]
    BY <1>1, <1>3, <1>6, <2>1 DEF Feed
  <2>3. r.h2 = h2 /\ r.sent = <<>> /\ r.err = TRUE
    BY ONLY <2>2
  <2> QED
    BY <2>3, EmptyIsSeq
<1>7. CASE h2.seen \/ (~(Len(buf) < p) /\ IsPrefix(Preface, buf))
  <2>1. PICK o \in HandleAll(frames, isDeaf) :
          r = [h2 |-> [seen |-> TRUE, buf |-> <<>>], sent |-> o.sent, err |-> o.err]
    BY <1>1, <1>3, <1>4, <1>7 DEF Feed
  <2>2. Len(frames) \in Nat
    <3>1. Len(buf) \in Nat
      BY <1>2
    <3>2. CASE h2.seen
      BY <1>4, <3>1, <3>2
    <3>3. CASE ~h2.seen
      <4>1. frames = SubSeq(buf, p + 1, Len(buf))
        BY <1>4, <3>3
      <4> QED
        BY ONLY <1>2, <1>3, <3>1, <4>1
    <3> QED
      BY <1>0, <3>2, <3>3
  <2>3. Outcome(o)
    BY <2>2, HandleAllOutcomes
  <2>4. r.h2 = [seen |-> TRUE, buf |-> <<>>] /\ r.sent = o.sent /\ r.err = o.err
    BY ONLY <2>1
  <2> QED
    BY <2>3, <2>4 DEF Outcome, GoodH2
<1> QED
  BY <1>5, <1>6, <1>7

LEMMA FeedPlainIsGood ==
  ASSUME NEW st, GoodState(st), st.mode = "http2", st.rxBuf = <<>>,
         NEW data \in Seq(Tokens), NEW sent, IsSeq(sent), NEW isDeaf,
         NEW r \in FeedPlain(st, data, sent, isDeaf)
  PROVE  GoodResult(r)
<1>1. PICK x \in Feed(st.h2, data, isDeaf) :
        r = Done([st EXCEPT !.h2 = x.h2, !.closing = x.err], sent \o x.sent)
  BY DEF FeedPlain
<1>2. GoodH2(st.h2)
  BY DEF GoodState, States, GoodH2
<1>3. GoodH2(x.h2) /\ IsSeq(x.sent) /\ x.err \in BOOLEAN
  BY <1>2, FeedIsGood
<1>4. PICK t : t = [st EXCEPT !.h2 = x.h2, !.closing = x.err]
  OBVIOUS
<1>5. t \in States /\ t.mode = "http2" /\ t.rxBuf = <<>>
  BY <1>3, <1>4 DEF GoodState, States, GoodH2
<1>6. GoodState(t)
  BY <1>5 DEF GoodState, Settled
<1>7. IsSeq(sent \o x.sent)
  BY <1>3, ConcatIsSeq
<1> QED
  BY <1>1, <1>4, <1>6, <1>7, DoneIsGood

LEMMA ServeIsGood ==
  ASSUME NEW st, st \in States, st.mode = "http1", NEW isDeaf,
         NEW r \in ServeHTTP1Plain(st, isDeaf)
  PROVE  GoodResult(r)
<1>1. GoodState(st) /\ GoodState(CloseConn(st))
  BY ClosedIsGood DEF GoodState, Settled
<1>2. PICK a : a = Http1(st.rxBuf)
  OBVIOUS
<1>3. CASE a.k = "wait"
  <2>1. r = Done(st, <<>>)
    BY <1>2, <1>3 DEF ServeHTTP1Plain
  <2> QED
    BY <1>1, <2>1, EmptyIsSeq, DoneIsGood
<1>4. CASE a.k = "refuse"
  <2>1. r = Done(CloseConn(st), <<>>)
    BY <1>2, <1>4 DEF ServeHTTP1Plain
  <2> QED
    BY <1>1, <2>1, EmptyIsSeq, DoneIsGood
<1>5. CASE a.k \notin {"wait", "refuse"}
  <2>1. PICK s \in Send([a EXCEPT !.k = "h1"], isDeaf) : r = Done(CloseConn(st), s)
    BY <1>2, <1>5 DEF ServeHTTP1Plain
  <2>2. IsSeq(s)
    BY SendIsSeq
  <2> QED
    BY <1>1, <2>1, <2>2, DoneIsGood
<1> QED
  BY <1>3, <1>4, <1>5

LEMMA UpgradeIsGood ==
  ASSUME NEW st, st \in States, NEW hdrEnd \in Nat, NEW isDeaf,
         NEW r \in BeginH2CUpgrade(st, hdrEnd, isDeaf)
  PROVE  GoodResult(r)
<1>1. PICK req : req = Request(SubSeq(st.rxBuf, 1, hdrEnd))
  OBVIOUS
<1>2. PICK leftover : leftover = SubSeq(st.rxBuf, hdrEnd + 1, Len(st.rxBuf))
  OBVIOUS
<1>3. leftover \in Seq(Tokens)
  <2>1. PICK q \in Seq(Tokens) : q = st.rxBuf
    BY DEF States
  <2>2. leftover = SubSeq(q, hdrEnd + 1, Len(q))
    BY <1>2, <2>1
  <2> QED
    BY ONLY <2>1, <2>2, hdrEnd \in Nat
<1>4. PICK up : up = [st EXCEPT !.mode = "http2", !.h2 = NewH2]
  OBVIOUS
<1>5. PICK served : served = Upgraded(st)
  OBVIOUS
<1>6. up \in States
  BY <1>4, NewH2IsGood DEF States, GoodH2
<1>7. served \in States /\ served.mode = "http2" /\ served.rxBuf = <<>>
  <2>1. PICK e \in Seq(Tokens) : e = <<>>
    BY EmptyTokens, Zenon
  <2>2. PICK h : h = NewH2
    OBVIOUS
  <2>3. h \in [seen : BOOLEAN, buf : Seq(Tokens)]
    BY <2>2, NewH2IsGood DEF GoodH2
  <2>4. served = [st EXCEPT !.mode = "http2", !.h2 = h, !.rxBuf = e]
    BY <1>5, <2>1, <2>2, Zenon DEF Upgraded
  <2>5. served \in States /\ served.mode = "http2" /\ served.rxBuf = e
    BY ONLY <2>3, <2>4, st \in States, e \in Seq(Tokens) DEF States
  <2> QED
    BY <2>1, <2>5
<1>8. GoodState(served)
  BY <1>7 DEF GoodState, Settled
<1>9. GoodState(CloseConn(st)) /\ GoodState(CloseConn(up))
  BY <1>6, ClosedIsGood
<1>10. CASE ~req.ok
  <2>1. r = Done(CloseConn(st), <<>>)
    BY <1>1, <1>10 DEF BeginH2CUpgrade
  <2> QED
    BY <1>9, <2>1, EmptyIsSeq, DoneIsGood
<1>11. CASE req.ok
  <2>1. PICK s101 \in Send(Reply("101", 0), isDeaf) :
          r \in IF s101 = <<>> THEN {Done(CloseConn(st), <<>>)}
                ELSE UNION {
                  IF set = <<>> THEN {Done(CloseConn(up), s101)}
                  ELSE UNION {
                    IF leftover = <<>> THEN {Done(served, s101 \o set \o ans)}
                    ELSE FeedPlain(served, leftover, s101 \o set \o ans, isDeaf) :
                    ans \in Send(Reply("h2", 0), isDeaf)} :
                  set \in Send(Reply("settings", 0), isDeaf)}
    BY <1>1, <1>2, <1>4, <1>5, <1>11 DEF BeginH2CUpgrade
  <2>2. IsSeq(s101)
    BY SendIsSeq
  <2>3. CASE s101 = <<>>
    BY <1>9, <2>1, <2>3, EmptyIsSeq, DoneIsGood
  <2>4. CASE s101 # <<>>
    <3>1. PICK set \in Send(Reply("settings", 0), isDeaf) :
            r \in IF set = <<>> THEN {Done(CloseConn(up), s101)}
                  ELSE UNION {
                    IF leftover = <<>> THEN {Done(served, s101 \o set \o ans)}
                    ELSE FeedPlain(served, leftover, s101 \o set \o ans, isDeaf) :
                    ans \in Send(Reply("h2", 0), isDeaf)}
      BY <2>1, <2>4
    <3>2. IsSeq(set)
      BY SendIsSeq
    <3>3. CASE set = <<>>
      BY <1>9, <2>2, <3>1, <3>3, DoneIsGood
    <3>4. CASE set # <<>>
      <4>1. PICK ans \in Send(Reply("h2", 0), isDeaf) :
              r \in IF leftover = <<>> THEN {Done(served, s101 \o set \o ans)}
                    ELSE FeedPlain(served, leftover, s101 \o set \o ans, isDeaf)
        BY <3>1, <3>4
      <4>2. IsSeq(ans)
        BY SendIsSeq
      <4>3. IsSeq(s101 \o set \o ans)
        BY <2>2, <3>2, <4>2, ConcatIsSeq
      <4>4. CASE leftover = <<>>
        BY <1>8, <4>1, <4>3, <4>4, DoneIsGood
      <4>5. CASE leftover # <<>>
        BY <1>3, <1>7, <1>8, <4>1, <4>3, <4>5, FeedPlainIsGood
      <4> QED
        BY <4>4, <4>5
    <3> QED
      BY <3>3, <3>4
  <2> QED
    BY <2>3, <2>4
<1> QED
  BY <1>10, <1>11

(* HeaderEnd finds an end or says that there is none.                      *)
LEMMA HeaderEndType ==
  ASSUME NEW buf \in Seq(Tokens)
  PROVE  HeaderEnd(buf) \in Nat \cup {-1}
<1>1. PICK ends : ends = {i \in 1..Len(buf) - 1 : buf[i] = crlf /\ buf[i + 1] = crlf}
  OBVIOUS
<1>2. CASE ends = {}
  BY <1>1, <1>2 DEF HeaderEnd
<1>3. CASE ends # {}
  <2>1. ends \in SUBSET Nat /\ \A i \in ends : i # 0
    BY <1>1
  <2>2. PICK x \in ends : \A y \in ends : x <= y
    BY <1>3, <2>1, LeastNumber
  <2>3. Min(ends) \in ends
    BY <2>2 DEF Min
  <2>4. HeaderEnd(buf) = Min(ends) - 1
    <3>1. HeaderEnd(buf) = IF ends = {} THEN -1 ELSE Min(ends) - 1
      BY <1>1 DEF HeaderEnd
    <3> QED
      BY <1>3, <3>1
  <2>5. PICK m : m = Min(ends)
    OBVIOUS
  <2>6. m \in Nat /\ m # 0
    BY <2>1, <2>3, <2>5
  <2>7. HeaderEnd(buf) = m - 1
    BY <2>4, <2>5
  <2> QED
    BY ONLY <2>6, <2>7
<1> QED
  BY <1>2, <1>3

(* dispatchPlain leaves a good state, and says and changes nothing on a    *)
(* connection that is being closed.                                        *)
LEMMA DispatchIsGood ==
  ASSUME NEW state, GoodState(state), NEW data \in Seq(Tokens), NEW isDeaf,
         NEW r \in DispatchPlain(state, data, isDeaf)
  PROVE  /\ GoodResult(r)
         /\ state.closing => r.st = state /\ r.sent = <<>>
<1>0. /\ state \in States /\ state.rxBuf \in Seq(Tokens) /\ state.closing \in BOOLEAN
      /\ state.mode \in {"unknown", "http1", "http2"}
  BY DEF GoodState, States
<1>1. PICK buf : buf = state.rxBuf \o data
  OBVIOUS
<1>2. buf \in Seq(Tokens)
  BY <1>0, <1>1, ConcatProperties
<1>3. PICK st : st = [state EXCEPT !.rxBuf = buf]
  OBVIOUS
<1>4. st \in States /\ st.rxBuf = buf /\ st.mode = state.mode /\ st.closing = state.closing
  BY <1>0, <1>2, <1>3 DEF States
<1>5. st = [state EXCEPT !.rxBuf = @ \o data]
  BY <1>1, <1>3
<1>6. PICK end \in Nat \cup {-1} : end = HeaderEnd(buf)
  BY <1>2, HeaderEndType
<1>7. CASE state.closing
  <2>1. r = Done(state, <<>>)
    BY <1>7 DEF DispatchPlain, IsClosing
  <2>2. r.st = state /\ r.sent = <<>>
    BY <2>1 DEF Done
  <2> QED
    BY <2>2, EmptyIsSeq DEF GoodResult
<1>8. CASE ~state.closing /\ state.mode = "http2"
  <2>1. r \in FeedPlain(state, data, <<>>, isDeaf)
    BY <1>8 DEF DispatchPlain, IsClosing
  <2>2. state.rxBuf = <<>>
    BY <1>8 DEF GoodState, Settled
  <2> QED
    BY <1>8, <2>1, <2>2, EmptyIsSeq, FeedPlainIsGood
<1>9. CASE ~state.closing /\ state.mode = "http1"
  <2>1. r \in ServeHTTP1Plain(st, isDeaf)
    BY <1>5, <1>9 DEF DispatchPlain, IsClosing
  <2> QED
    BY <1>4, <1>9, <2>1, ServeIsGood
<1>10. CASE ~state.closing /\ state.mode = "unknown"
  <2>1. r \in IF HasPreface(buf)
                THEN FeedPlain([st EXCEPT !.mode = "http2", !.rxBuf = <<>>], buf, <<>>, isDeaf)
              ELSE IF end = -1
                THEN {Done(IF TooLong(buf) THEN CloseConn(st) ELSE st, <<>>)}
              ELSE IF DetectUpgrade(buf)
                THEN BeginH2CUpgrade(st, end + 2, isDeaf)
              ELSE ServeHTTP1Plain([st EXCEPT !.mode = "http1"], isDeaf)
    BY <1>4, <1>5, <1>6, <1>10 DEF DispatchPlain, IsClosing
  <2>2. CASE HasPreface(buf)
    <3>1. PICK t : t = [st EXCEPT !.mode = "http2", !.rxBuf = <<>>]
      OBVIOUS
    <3>2. t \in States /\ t.mode = "http2" /\ t.rxBuf = <<>>
      <4>1. PICK e \in Seq(Tokens) : e = <<>>
        BY EmptyTokens, Zenon
      <4>2. t = [st EXCEPT !.mode = "http2", !.rxBuf = e]
        BY <3>1, <4>1, Zenon
      <4>3. st \in States
        BY <1>4
      <4>4. t \in States /\ t.mode = "http2" /\ t.rxBuf = e
        BY ONLY <4>2, <4>3, e \in Seq(Tokens) DEF States
      <4> QED
        BY <4>1, <4>4
    <3>3. GoodState(t)
      BY <3>2 DEF GoodState, Settled
    <3>4. r \in FeedPlain(t, buf, <<>>, isDeaf)
      BY <2>1, <2>2, <3>1
    <3>5. GoodResult(r)
      BY <1>2, <3>2, <3>3, <3>4, EmptyIsSeq, FeedPlainIsGood
    <3> QED
      BY <1>10, <3>5
  <2>3. CASE ~HasPreface(buf) /\ end = -1
    <3>1. CASE TooLong(buf)
      <4>1. r = Done(CloseConn(st), <<>>)
        BY <2>1, <2>3, <3>1
      <4>2. GoodResult(r)
        BY <1>4, <4>1, ClosedIsGood, EmptyIsSeq, DoneIsGood
      <4> QED
        BY <1>10, <4>2
    <3>2. CASE ~TooLong(buf)
      <4>1. r = Done(st, <<>>)
        BY <2>1, <2>3, <3>2
      <4>2. Len(buf) <= MaxHead
        BY <1>2, <3>2, DispatchAssumption DEF TooLong
      <4>3. GoodState(st)
        BY <1>4, <1>10, <4>2 DEF GoodState, Settled
      <4>4. GoodResult(r)
        BY <4>1, <4>3, EmptyIsSeq, DoneIsGood
      <4> QED
        BY <1>10, <4>4
    <3> QED
      BY <3>1, <3>2
  <2>4. CASE ~HasPreface(buf) /\ end # -1 /\ DetectUpgrade(buf)
    <3>1. r \in BeginH2CUpgrade(st, end + 2, isDeaf)
      BY <2>1, <2>4
    <3>2. end + 2 \in Nat
      BY <1>6, <2>4
    <3>3. GoodResult(r)
      BY <1>4, <3>1, <3>2, UpgradeIsGood
    <3> QED
      BY <1>10, <3>3
  <2>5. CASE ~HasPreface(buf) /\ end # -1 /\ ~DetectUpgrade(buf)
    <3>1. PICK t : t = [st EXCEPT !.mode = "http1"]
      OBVIOUS
    <3>2. t \in States /\ t.mode = "http1"
      BY <1>4, <3>1 DEF States
    <3>3. r \in ServeHTTP1Plain(t, isDeaf)
      BY <2>1, <2>5, <3>1
    <3>4. GoodResult(r)
      BY <3>2, <3>3, ServeIsGood
    <3> QED
      BY <1>10, <3>4
  <2> QED
    BY <2>2, <2>3, <2>4, <2>5
<1> QED
  BY <1>0, <1>7, <1>8, <1>9, <1>10

--------------------------------------------------------------------------------
(***************************************************************************)
(* What clients say is tokens                                              *)
(***************************************************************************)

LEMMA TokenType == \A k \in Kinds : Token(k) \in Tokens
<1>1. <<>> \in Seq(0..10)
  OBVIOUS
<1> QED
  BY <1>1 DEF Token, Tokens

LEMMA TokenKinds ==
  /\ {"request", "short", "crlf", "b", "pri", "sm"} \subseteq Kinds
  /\ Frames \subseteq Kinds
  /\ HeaderKinds \subseteq Kinds
BY DEF Kinds

LEMMA CrlfType == crlf \in Tokens
BY TokenType, TokenKinds DEF crlf

(* The lines of a head: header lines on odd places, line ends on even ones. *)
LEMMA LinesAre ==
  ASSUME NEW h \in Seq([k : HeaderKinds, v : Seq(0..10)]), NEW m, m = Len(h)
  PROVE  /\ m \in Nat
         /\ Lines(h) \in Seq(Tokens) /\ Len(Lines(h)) = 2 * m
         /\ \A j \in 1..m : /\ Lines(h)[2 * j - 1] = h[j] /\ Lines(h)[2 * j] = crlf
                            /\ h[j] \in Tokens /\ h[j].k \in HeaderKinds
         /\ \A i \in 1..2 * m : \/ \E j \in 1..m : i = 2 * j - 1
                                \/ \E j \in 1..m : i = 2 * j
<1>1. m \in Nat /\ DOMAIN h = 1..m
  OBVIOUS
<1>2. ASSUME NEW j \in 1..m PROVE h[j] \in Tokens /\ h[j].k \in HeaderKinds
  <2>1. PICK H : H = [k : HeaderKinds, v : Seq(0..10)]
    OBVIOUS
  <2>2. h \in Seq(H)
    BY <2>1
  <2>3. PICK x \in H : x = h[j]
    BY ONLY <1>1, <1>2, <2>2, m = Len(h)
  <2>4. x.k \in HeaderKinds /\ x = [k |-> x.k, v |-> x.v] /\ x.v \in Seq(0..10)
    BY <2>1
  <2>5. x.k \in Kinds
    BY <2>4, TokenKinds
  <2>6. x \in Tokens
    BY ONLY <2>4, <2>5 DEF Tokens
  <2> QED
    BY <2>3, <2>4, <2>6
<1>3. PICK c \in Tokens : c = crlf
  BY CrlfType, Zenon
<1>4. ASSUME NEW i \in 1..2 * m
      PROVE  \/ i % 2 = 1 /\ \E j \in 1..m : i = 2 * j - 1 /\ (i + 1) \div 2 = j
             \/ i % 2 = 0 /\ \E j \in 1..m : i = 2 * j
  <2>1. PICK j \in Int : i = 2 * j - 1 \/ i = 2 * j
    <3>1. PICK q \in Int : q = i \div 2
      OBVIOUS
    <3>2. i = 2 * q \/ i = 2 * (q + 1) - 1
      BY ONLY <3>1, i \in 1..2 * m, <1>1
    <3>3. q + 1 \in Int
      OBVIOUS
    <3> QED
      BY <3>2, <3>3
  <2>2. j \in 1..m
    BY ONLY <1>1, <2>1, i \in 1..2 * m, j \in Int
  <2>3. CASE i = 2 * j - 1
    <3>1. i % 2 = 1 /\ (i + 1) \div 2 = j
      BY ONLY <2>2, <2>3, m \in Nat
    <3> QED
      BY <2>2, <2>3, <3>1
  <2>4. CASE i = 2 * j
    <3>1. i % 2 = 0
      BY ONLY <2>2, <2>4, m \in Nat
    <3> QED
      BY <2>2, <2>4, <3>1
  <2> QED
    BY <2>1, <2>3, <2>4
<1>5. PICK l : l = [i \in 1..2 * m |-> IF i % 2 = 1 THEN h[(i + 1) \div 2] ELSE c]
  OBVIOUS
<1>6. Lines(h) = l
  BY <1>3, <1>5 DEF Lines
<1>7. ASSUME NEW i \in 1..2 * m PROVE l[i] \in Tokens
  <2>1. l[i] = IF i % 2 = 1 THEN h[(i + 1) \div 2] ELSE c
    BY <1>5
  <2>2. (\E j \in 1..m : (i + 1) \div 2 = j) \/ i % 2 # 1
    BY <1>4
  <2> QED
    BY <1>2, <1>3, <2>1, <2>2, Zenon
<1>8. ASSUME NEW j \in 1..m PROVE l[2 * j - 1] = h[j] /\ l[2 * j] = c
  <2>1. /\ 2 * j - 1 \in 1..2 * m /\ (2 * j - 1) % 2 = 1 /\ ((2 * j - 1) + 1) \div 2 = j
        /\ 2 * j \in 1..2 * m /\ (2 * j) % 2 = 0
    BY ONLY <1>1, j \in 1..m
  <2>2. PICK a, b : a = 2 * j - 1 /\ b = 2 * j
    OBVIOUS
  <2>3. l[a] = h[(a + 1) \div 2] /\ l[b] = c
    BY <1>5, <2>1, <2>2
  <2> QED
    BY <2>1, <2>2, <2>3
<1>9. l \in Seq(Tokens) /\ Len(l) = 2 * m
  <2>1. 2 * m \in Nat /\ DOMAIN l = 1..2 * m
    BY <1>1, <1>5
  <2>2. l \in [1..2 * m -> Tokens]
    BY <1>5, <1>7
  <2> HIDE DEF Tokens
  <2> QED
    BY ONLY <2>1, <2>2
<1> QED
  BY <1>1, <1>2, <1>3, <1>4, <1>6, <1>8, <1>9

LEMMA LinesType ==
  ASSUME NEW h \in Seq([k : HeaderKinds, v : Seq(0..10)])
  PROVE  Lines(h) \in Seq(Tokens)
BY LinesAre

LEMMA BytesType ==
  ASSUME NEW t \in Talks
  PROVE  Bytes(t) \in Seq(Tokens)
<1>1. /\ t.line \in {"request", "short", "none"}
      /\ t.headers \in Seq([k : HeaderKinds, v : Seq(0..10)])
      /\ t.body \in Nat
      /\ t.frames \in Seq(Frames)
  BY DispatchAssumption, Zenon
<1>2. PICK c \in Tokens : c = crlf
  BY CrlfType, Zenon
<1>3. HeadOf(t) \in Seq(Tokens)
  <2>1. CASE t.line = "none"
    BY <2>1, EmptyTokens DEF HeadOf
  <2>2. CASE t.line # "none"
    <3>0. Token(t.line) \in Tokens
      BY <1>1, <2>2, TokenType, TokenKinds
    <3>1. PICK x \in Tokens : x = Token(t.line)
      BY <3>0, Zenon
    <3>2. PICK l \in Seq(Tokens) : l = Lines(t.headers)
      BY <1>1, LinesType
    <3>3. PICK a : a = <<x, c>>
      OBVIOUS
    <3>4. PICK b : b = <<c>>
      OBVIOUS
    <3>5. a \in Seq(Tokens) /\ b \in Seq(Tokens)
      BY ONLY <3>3, <3>4, x \in Tokens, c \in Tokens
    <3>6. PICK d : d = a \o l
      OBVIOUS
    <3>7. d \in Seq(Tokens)
      BY <3>5, <3>6, ConcatProperties
    <3>8. d \o b \in Seq(Tokens)
      BY <3>5, <3>7, ConcatProperties
    <3>9. HeadOf(t) = d \o b
      BY <1>2, <2>2, <3>1, <3>2, <3>3, <3>4, <3>6 DEF HeadOf
    <3> QED
      BY <3>8, <3>9
  <2> QED
    BY <2>1, <2>2
<1>4. [i \in 1..t.body |-> Token("b")] \in Seq(Tokens)
  <2>0. Token("b") \in Tokens
    BY TokenType, TokenKinds
  <2>1. PICK x \in Tokens : x = Token("b")
    BY <2>0, Zenon
  <2>2. PICK m \in Nat : m = t.body
    BY <1>1
  <2>3. [i \in 1..m |-> x] \in Seq(Tokens)
    BY ONLY x \in Tokens, m \in Nat
  <2> QED
    BY <2>1, <2>2, <2>3
<1>5. (IF t.h2 THEN Preface ELSE <<>>) \in Seq(Tokens)
  <2>0. Token("pri") \in Tokens /\ Token("sm") \in Tokens
    BY TokenType, TokenKinds
  <2>1. PICK x \in Tokens, y \in Tokens : x = Token("pri") /\ y = Token("sm")
    BY <2>0, Zenon
  <2>2. Preface = <<x, c, c, y, c, c>>
    BY <1>2, <2>1 DEF Preface
  <2>3. <<x, c, c, y, c, c>> \in Seq(Tokens)
    BY ONLY x \in Tokens, y \in Tokens, c \in Tokens
  <2> QED
    BY <2>2, <2>3, EmptyTokens
<1>6. [i \in DOMAIN t.frames |-> Token(t.frames[i])] \in Seq(Tokens)
  <2>1. PICK f \in Seq(Frames) : f = t.frames
    BY <1>1
  <2>2. PICK m \in Nat : m = Len(f) /\ DOMAIN f = 1..m
    OBVIOUS
  <2>3. \A i \in 1..m : f[i] \in Kinds
    BY <2>2, TokenKinds
  <2>4. \A i \in 1..m : Token(f[i]) \in Tokens
    BY <2>3, TokenType
  <2>5. [i \in 1..m |-> Token(f[i])] \in Seq(Tokens)
    BY ONLY <2>4, m \in Nat
  <2> QED
    BY <2>1, <2>2, <2>5
<1>7. PICK a, b, p, f : /\ a = HeadOf(t)
                        /\ b = [i \in 1..t.body |-> Token("b")]
                        /\ p = (IF t.h2 THEN Preface ELSE <<>>)
                        /\ f = [i \in DOMAIN t.frames |-> Token(t.frames[i])]
  OBVIOUS
<1>8. a \in Seq(Tokens) /\ b \in Seq(Tokens) /\ p \in Seq(Tokens) /\ f \in Seq(Tokens)
  BY <1>3, <1>4, <1>5, <1>6, <1>7
<1>9. PICK d \in Seq(Tokens) : d = a \o b
  BY <1>8, ConcatProperties
<1>10. PICK e \in Seq(Tokens) : e = d \o p
  BY <1>8, ConcatProperties
<1>11. e \o f \in Seq(Tokens)
  BY <1>8, ConcatProperties
<1>12. Bytes(t) = e \o f
  BY <1>7, <1>9, <1>10 DEF Bytes
<1> QED
  BY <1>11, <1>12

--------------------------------------------------------------------------------
(***************************************************************************)
(* The inductive invariant                                                 *)
(***************************************************************************)

Locals == [proto : {"none", "h1", "h2"}, buf : Seq(Tokens),
           h2 : [seen : BOOLEAN, buf : Seq(Tokens)]]

(* One connection: driver d, talk t, g tokens of it delivered, deaf f, pc  *)
(* p, state st, local l, open o, sent u, split s.  Once it is closed it    *)
(* has been served, or its state says that it is closing.                  *)
Conn(d, t, g, f, p, st, l, o, u, s) ==
  /\ d \in Drivers \cup {None}
  /\ d # None => t \in Talks /\ g \in 0..Len(Bytes(t))
  /\ d = None => p = "idle" /\ g = 0
  /\ f \in BOOLEAN /\ o \in BOOLEAN /\ s \in BOOLEAN
  /\ p \in {"idle", "handshake", "read", "served"}
  /\ p = "handshake" => d = "tls"
  /\ st # None => GoodState(st)
  /\ l \in Locals
  /\ IsSeq(u)
  /\ d = "tls" /\ d # None /\ p # "served" => o
  /\ d # "tls" /\ d # None /\ ~o /\ p # "served" => st # None /\ st.closing

Functions ==
  /\ driver = [k \in Keys |-> driver[k]]
  /\ talk = [k \in Keys |-> talk[k]]
  /\ got = [k \in Keys |-> got[k]]
  /\ deaf = [k \in Keys |-> deaf[k]]
  /\ pc = [k \in Keys |-> pc[k]]
  /\ states = [k \in Keys |-> states[k]]
  /\ local = [k \in Keys |-> local[k]]
  /\ open = [k \in Keys |-> open[k]]
  /\ out = [k \in Keys |-> out[k]]
  /\ split = [k \in Keys |-> split[k]]

ConnInv(k) == Conn(driver[k], talk[k], got[k], deaf[k], pc[k], states[k], local[k],
                   open[k], out[k], split[k])

IInv ==
  /\ Functions
  /\ listening \in BOOLEAN
  /\ \A k \in Keys : ConnInv(k)

(* What a step may make of connection k.                                   *)
Becomes(k, d, t, g, f, p, st, l, o, u, s) ==
  /\ driver' = [driver EXCEPT ![k] = d]
  /\ talk' = [talk EXCEPT ![k] = t]
  /\ got' = [got EXCEPT ![k] = g]
  /\ deaf' = [deaf EXCEPT ![k] = f]
  /\ pc' = [pc EXCEPT ![k] = p]
  /\ states' = [states EXCEPT ![k] = st]
  /\ local' = [local EXCEPT ![k] = l]
  /\ open' = [open EXCEPT ![k] = o]
  /\ out' = [out EXCEPT ![k] = u]
  /\ split' = [split EXCEPT ![k] = s]

(* It says nothing if it has been closed, unless it is a new connection.   *)
Silent(k, u) == driver[k] # None /\ ~open[k] => u = out[k]

(* What a step has to do: keep the invariant, and keep silent.             *)
Kept == IInv' /\ \A k \in Keys :
  driver[k] # None /\ ~open[k] /\ driver'[k] # None => out'[k] = out[k]

LEMMA BecomesKeeps ==
  ASSUME IInv, NEW k \in Keys, NEW d, NEW t, NEW g, NEW f, NEW p, NEW st, NEW l,
         NEW o, NEW u, NEW s,
         Becomes(k, d, t, g, f, p, st, l, o, u, s),
         Conn(d, t, g, f, p, st, l, o, u, s),
         d # None => Silent(k, u), UNCHANGED listening
  PROVE  Kept
<1>1. Functions /\ listening \in BOOLEAN /\ \A j \in Keys : ConnInv(j)
  BY DEF IInv
<1>2. Functions'
  BY <1>1 DEF Functions, Becomes
<1>3. /\ driver'[k] = d /\ talk'[k] = t /\ got'[k] = g /\ deaf'[k] = f /\ pc'[k] = p
      /\ states'[k] = st /\ local'[k] = l /\ open'[k] = o /\ out'[k] = u /\ split'[k] = s
  BY <1>1 DEF Functions, Becomes
<1>4. ASSUME NEW j \in Keys, j # k
      PROVE  /\ driver'[j] = driver[j] /\ talk'[j] = talk[j] /\ got'[j] = got[j]
             /\ deaf'[j] = deaf[j] /\ pc'[j] = pc[j] /\ states'[j] = states[j]
             /\ local'[j] = local[j] /\ open'[j] = open[j] /\ out'[j] = out[j]
             /\ split'[j] = split[j]
  BY <1>1, <1>4 DEF Functions, Becomes
<1>5. ConnInv(k)'
  BY <1>3 DEF ConnInv
<1>6. ASSUME NEW j \in Keys, j # k PROVE ConnInv(j)'
  BY <1>1, <1>4, <1>6 DEF ConnInv
<1>7. IInv'
  BY <1>1, <1>2, <1>5, <1>6 DEF IInv
<1>8. ASSUME NEW j \in Keys, driver[j] # None, ~open[j], driver'[j] # None
      PROVE  out'[j] = out[j]
  BY <1>3, <1>4, <1>8 DEF Silent
<1> QED
  BY <1>7, <1>8 DEF Kept

(* The same for a key with nothing behind it any more.                     *)
LEMMA GoneKeeps ==
  ASSUME IInv, NEW k \in Keys, Gone(k), NEW st, st # None => GoodState(st),
         states' = [states EXCEPT ![k] = st]
  PROVE  Kept
<1>1. Becomes(k, None, None, 0, FALSE, "idle", st, NoLocal, FALSE, <<>>, FALSE)
  BY DEF Becomes, Gone
<1>2. NoLocal \in Locals
  BY NewH2IsGood, EmptyTokens DEF NoLocal, Locals, GoodH2
<1>3. IsSeq(<<>>)
  BY EmptyIsSeq
<1>4. UNCHANGED listening
  BY DEF Gone
<1>5. Conn(None, None, 0, FALSE, "idle", st, NoLocal, FALSE, <<>>, FALSE)
  BY <1>2, <1>3 DEF Conn
<1> QED
  BY <1>1, <1>4, <1>5, BecomesKeeps

LEMMA FreshIsGood == GoodState(Fresh)
<1>1. PICK e \in Seq(Tokens) : e = <<>> /\ Len(e) = 0
  BY EmptyTokens
<1>2. PICK h : h = NewH2
  OBVIOUS
<1>3. h \in [seen : BOOLEAN, buf : Seq(Tokens)]
  BY <1>2, NewH2IsGood DEF GoodH2
<1>4. Fresh = [mode |-> "unknown", rxBuf |-> e, h2 |-> h, closing |-> FALSE]
  BY <1>1, <1>2 DEF Fresh
<1>5. Fresh \in States /\ Fresh.mode = "unknown" /\ Fresh.rxBuf = e
  BY ONLY <1>3, <1>4, e \in Seq(Tokens) DEF States
<1>6. 0 <= MaxHead
  BY DispatchAssumption
<1> QED
  BY <1>1, <1>5, <1>6 DEF GoodState, Settled

LEMMA LengthOfBytes ==
  ASSUME NEW t \in Talks
  PROVE  Len(Bytes(t)) \in Nat
BY BytesType

(* What UNCHANGED says of key k.                                           *)
LEMMA SameDriver ==
  ASSUME Functions, NEW k \in Keys
  PROVE  /\ UNCHANGED driver => driver' = [driver EXCEPT ![k] = driver[k]]
         /\ UNCHANGED talk => talk' = [talk EXCEPT ![k] = talk[k]]
         /\ UNCHANGED got => got' = [got EXCEPT ![k] = got[k]]
         /\ UNCHANGED deaf => deaf' = [deaf EXCEPT ![k] = deaf[k]]
         /\ UNCHANGED states => states' = [states EXCEPT ![k] = states[k]]
         /\ UNCHANGED local => local' = [local EXCEPT ![k] = local[k]]
         /\ UNCHANGED out => out' = [out EXCEPT ![k] = out[k]]
         /\ UNCHANGED split => split' = [split EXCEPT ![k] = split[k]]
BY DEF Functions

LEMMA ConnectKeeps ==
  ASSUME IInv, NEW k \in Keys, NEW d \in Drivers \ {"tls"}, NEW t \in Talks,
         NEW f \in BOOLEAN, Connect(k, d, t, f)
  PROVE  Kept
<1>1. Functions /\ ConnInv(k)
  BY DEF IInv
<1>2. PICK st : /\ states' = [states EXCEPT ![k] = st]
                /\ st = Fresh \/ st = states[k]
  <2>1. CASE UNCHANGED states
    BY <1>1, <2>1, SameDriver
  <2> QED
    BY <2>1 DEF Connect
<1>3. st # None => GoodState(st)
  BY <1>1, <1>2, FreshIsGood DEF ConnInv, Conn
<1>4. driver[k] = None /\ got[k] = 0
  BY <1>1 DEF Connect, Arrive, ConnInv, Conn
<1>5. Becomes(k, d, t, got[k], f, "read", st, local[k], TRUE, out[k], split[k])
  BY <1>1, <1>2, SameDriver DEF Becomes, Connect, Arrive
<1>6. got[k] \in 0..Len(Bytes(t))
  BY <1>4, LengthOfBytes
<1>7. Conn(d, t, got[k], f, "read", st, local[k], TRUE, out[k], split[k])
  BY <1>1, <1>3, <1>6, NoneIsNothing DEF ConnInv, Conn
<1>8. Silent(k, out[k]) /\ UNCHANGED listening
  BY DEF Silent, Connect
<1> QED
  BY <1>5, <1>7, <1>8, BecomesKeeps

LEMMA TlsAcceptKeeps ==
  ASSUME IInv, NEW k \in Keys, NEW t \in Talks, NEW f \in BOOLEAN, TlsAccept(k, t, f)
  PROVE  Kept
<1>1. Functions /\ ConnInv(k)
  BY DEF IInv
<1>2. driver[k] = None /\ got[k] = 0 /\ "tls" \in Drivers
  BY <1>1 DEF TlsAccept, Arrive, ConnInv, Conn
<1>3. Becomes(k, "tls", t, got[k], f, "handshake", states[k], local[k], TRUE, out[k], split[k])
  BY <1>1, SameDriver DEF Becomes, TlsAccept, Arrive
<1>4. got[k] \in 0..Len(Bytes(t))
  BY <1>2, LengthOfBytes
<1>5. Conn("tls", t, got[k], f, "handshake", states[k], local[k], TRUE, out[k], split[k])
  BY <1>1, <1>2, <1>4, NoneIsNothing DEF ConnInv, Conn
<1>6. Silent(k, out[k]) /\ UNCHANGED listening
  BY DEF Silent, TlsAccept
<1> QED
  BY <1>3, <1>5, <1>6, BecomesKeeps

(* What a read brings.                                                     *)
LEMMA ReadFacts ==
  ASSUME NEW k \in Keys, ConnInv(k), pc[k] = "read", NEW n \in 1..ReadSize, n <= Left(k)
  PROVE  /\ driver[k] # None
         /\ Coming(k, n) \in Seq(Tokens)
         /\ got[k] + n \in 0..Len(Bytes(talk[k]))
<1>1. driver[k] # None
  BY DEF ConnInv, Conn
<1>2. talk[k] \in Talks /\ got[k] \in 0..Len(Bytes(talk[k]))
  BY <1>1 DEF ConnInv, Conn
<1>3. PICK b \in Seq(Tokens) : b = Bytes(talk[k])
  BY <1>2, BytesType
<1>4. PICK g \in 0..Len(b) : g = got[k]
  BY <1>2, <1>3
<1>5. Len(b) \in Nat /\ n \in Nat /\ n <= Len(b) - g
  <2>1. ReadSize \in Nat
    BY DispatchAssumption
  <2>2. Len(b) \in Nat
    BY <1>3
  <2>3. n <= Len(b) - g
    BY <1>3, <1>4 DEF Left
  <2> QED
    BY ONLY <2>1, <2>2, <2>3, n \in 1..ReadSize
<1>6. g + n \in 0..Len(b)
  BY ONLY <1>5, g \in 0..Len(b)
<1>7. SubSeq(b, g + 1, g + n) \in Seq(Tokens)
  <2>1. g + 1 \in Nat \ {0} /\ g + n \in Nat /\ g + n <= Len(b)
    BY ONLY <1>5, g \in 0..Len(b)
  <2>2. \A i \in (g + 1)..(g + n) : i \in 1..Len(b)
    BY ONLY <1>5, g \in 0..Len(b)
  <2> QED
    BY ONLY <2>1, <2>2, b \in Seq(Tokens), SubSeqProperties
<1> QED
  BY <1>1, <1>3, <1>4, <1>6, <1>7 DEF Coming

LEMMA DataKeeps ==
  ASSUME IInv, NEW k \in Keys, NEW n \in 1..ReadSize, Data(k, n)
  PROVE  Kept
<1>1. Functions /\ ConnInv(k)
  BY DEF IInv
<1>2. pc[k] = "read" /\ driver[k] \in {"once", "many"} /\ n <= Left(k)
  BY DEF Data
<1>3. /\ driver[k] # None /\ Coming(k, n) \in Seq(Tokens)
      /\ got[k] + n \in 0..Len(Bytes(talk[k]))
  BY <1>1, <1>2, ReadFacts
<1>4. PICK st : st = IF states[k] = None THEN Fresh ELSE states[k]
  OBVIOUS
<1>5. GoodState(st)
  BY <1>1, <1>4, FreshIsGood DEF ConnInv, Conn
<1>6. PICK r \in DispatchPlain(st, Coming(k, n), deaf[k]) :
        /\ states' = [states EXCEPT ![k] = r.st]
        /\ out' = [out EXCEPT ![k] = @ \o r.sent]
        /\ open' = [open EXCEPT ![k] = @ /\ ~r.st.closing]
  BY <1>4 DEF Data
<1>7. /\ GoodResult(r)
      /\ st.closing => r.st = st /\ r.sent = <<>>
  BY <1>3, <1>5, DispatchIsGood
<1>8. GoodState(r.st) /\ IsSeq(r.sent) /\ r.st.closing \in BOOLEAN /\ r.st # None
  BY <1>7, NoneIsNothing DEF GoodResult, GoodState, States
<1>9. PICK b \in BOOLEAN : split' = [split EXCEPT ![k] = b]
  <2>1. split[k] \in BOOLEAN
    BY <1>1 DEF ConnInv, Conn
  <2>2. PICK c : c = (split[k] \/ (st.mode = "unknown" /\
                      st.rxBuf \o Coming(k, n) \in {SubSeq(Preface, 1, i) : i \in 3..5}))
    OBVIOUS
  <2>3. c \in BOOLEAN
    BY <2>1, <2>2
  <2>4. split' = [split EXCEPT ![k] = c]
    BY <1>4, <2>2 DEF Data
  <2> QED
    BY <2>3, <2>4
<1>10. PICK p \in {"read", "served"} : pc' = [pc EXCEPT ![k] = p]
  BY DEF Data
<1>11. PICK o \in BOOLEAN : o = (open[k] /\ ~r.st.closing)
  OBVIOUS
<1>12. PICK u : u = out[k] \o r.sent
  OBVIOUS
<1>13. IsSeq(u)
  BY <1>1, <1>8, <1>12, ConcatIsSeq DEF ConnInv, Conn
<1>14. Becomes(k, driver[k], talk[k], got[k] + n, deaf[k], p, r.st, local[k], o, u, b)
  <2>1. UNCHANGED <<driver, talk, deaf, local>> /\ got' = [got EXCEPT ![k] = got[k] + n]
    BY DEF Data, clientVars
  <2>2. out' = [out EXCEPT ![k] = u] /\ open' = [open EXCEPT ![k] = o]
    BY <1>6, <1>11, <1>12
  <2> QED
    BY <1>1, <1>6, <1>9, <1>10, <2>1, <2>2, SameDriver DEF Becomes
<1>15. ~open[k] => st.closing /\ states[k] # None
  BY <1>1, <1>2, <1>3, <1>4 DEF ConnInv, Conn
<1>16. ~o => r.st.closing
  BY <1>7, <1>11, <1>15
<1>17. Silent(k, u)
  <2>1. ~open[k] => r.sent = <<>>
    BY <1>7, <1>15
  <2>2. out[k] \o <<>> = out[k]
    BY <1>1, NothingMore DEF ConnInv, Conn
  <2> QED
    BY <1>12, <2>1, <2>2 DEF Silent
<1>18. Conn(driver[k], talk[k], got[k] + n, deaf[k], p, r.st, local[k], o, u, b)
  BY <1>1, <1>2, <1>3, <1>8, <1>13, <1>16 DEF ConnInv, Conn
<1>19. UNCHANGED listening
  BY DEF Data
<1> QED
  BY <1>14, <1>17, <1>18, <1>19, BecomesKeeps

LEMMA TlsHandshakeKeeps ==
  ASSUME IInv, NEW k \in Keys, NEW proto \in {"h1", "h2"}, TlsHandshake(k, proto)
  PROVE  Kept
<1>1. Functions /\ ConnInv(k)
  BY DEF IInv
<1>2. pc[k] = "handshake" /\ driver[k] = "tls" /\ driver[k] # None /\ open[k]
  BY <1>1 DEF TlsHandshake, ConnInv, Conn
<1>4. PICK s \in IF proto = "h2" THEN Send(Reply("settings", 0), deaf[k]) ELSE {<<>>} :
        /\ out' = [out EXCEPT ![k] = s]
        /\ open' = [open EXCEPT ![k] = proto = "h1" \/ s # <<>>]
  BY DEF TlsHandshake
<1>5. IsSeq(s)
  BY SendIsSeq, EmptyIsSeq
<1>6. PICK o \in BOOLEAN : o = (proto = "h1" \/ s # <<>>)
  OBVIOUS
<1>7. open' = [open EXCEPT ![k] = o] /\ open'[k] = o
  BY <1>1, <1>4, <1>6 DEF Functions
<1>8. PICK p : p = IF o THEN "read" ELSE "served"
  OBVIOUS
<1>9. PICK l : l = [local[k] EXCEPT !.proto = proto]
  OBVIOUS
<1>10. l \in Locals
  <2>1. local[k] \in Locals
    BY <1>1 DEF ConnInv, Conn
  <2> QED
    BY <1>9, <2>1 DEF Locals
<1>11. Becomes(k, driver[k], talk[k], got[k], deaf[k], p, states[k], l, o, s, split[k])
  <2>1. UNCHANGED <<driver, talk, got, deaf, states, split>>
    BY DEF TlsHandshake, clientVars
  <2>2. pc' = [pc EXCEPT ![k] = p]
    BY <1>7, <1>8 DEF TlsHandshake
  <2>3. local' = [local EXCEPT ![k] = l]
    BY <1>9 DEF TlsHandshake
  <2> QED
    BY <1>1, <1>4, <1>7, <2>1, <2>2, <2>3, SameDriver DEF Becomes
<1>12. Conn(driver[k], talk[k], got[k], deaf[k], p, states[k], l, o, s, split[k])
  BY <1>1, <1>2, <1>5, <1>8, <1>10 DEF ConnInv, Conn
<1>13. Silent(k, s) /\ UNCHANGED listening
  BY <1>2 DEF Silent, TlsHandshake
<1> QED
  BY <1>11, <1>12, <1>13, BecomesKeeps

LEMMA TlsReadKeeps ==
  ASSUME IInv, NEW k \in Keys, NEW n \in 1..ReadSize, TlsRead(k, n)
  PROVE  Kept
<1>1. Functions /\ ConnInv(k)
  BY DEF IInv
<1>2. pc[k] = "read" /\ driver[k] = "tls" /\ n <= Left(k)
  BY DEF TlsRead
<1>3. /\ driver[k] # None /\ Coming(k, n) \in Seq(Tokens)
      /\ got[k] + n \in 0..Len(Bytes(talk[k]))
  BY <1>1, <1>2, ReadFacts
<1>4. open[k]
  BY <1>1, <1>2, <1>3 DEF ConnInv, Conn
<1>5. PICK l : l = local[k]
  OBVIOUS
<1>6. l \in Locals /\ l.buf \in Seq(Tokens) /\ GoodH2(l.h2)
  BY <1>1, <1>5 DEF ConnInv, Conn, Locals, GoodH2
<1>7. PICK new, o, u :
        /\ new \in Locals /\ o \in BOOLEAN /\ IsSeq(u)
        /\ local' = [local EXCEPT ![k] = new]
        /\ open' = [open EXCEPT ![k] = o]
        /\ out' = [out EXCEPT ![k] = u]
  <2>1. PICK buf : buf = l.buf \o Coming(k, n)
    OBVIOUS
  <2>2. buf \in Seq(Tokens)
    BY <1>3, <1>6, <2>1, ConcatProperties
  <2>3. PICK a : a = Http1(buf)
    OBVIOUS
  <2>4. CASE /\ local' = [local EXCEPT ![k].buf = buf]
             /\ open' = [open EXCEPT ![k] = a.k = "wait"]
             /\ \E s \in IF a.k = "answer" THEN Send([a EXCEPT !.k = "h1"], deaf[k])
                         ELSE {<<>>} :
                  out' = [out EXCEPT ![k] = s]
    <3>1. PICK s \in IF a.k = "answer" THEN Send([a EXCEPT !.k = "h1"], deaf[k]) ELSE {<<>>} :
            out' = [out EXCEPT ![k] = s]
      BY <2>4
    <3>2. IsSeq(s)
      BY SendIsSeq, EmptyIsSeq
    <3>3. PICK o \in BOOLEAN : o = (a.k = "wait")
      OBVIOUS
    <3>4. PICK new : new = [l EXCEPT !.buf = buf]
      OBVIOUS
    <3>5. new \in Locals
      BY <1>6, <2>2, <3>4 DEF Locals
    <3>6. local' = [local EXCEPT ![k] = new]
      BY <1>5, <2>4, <3>4
    <3>7. open' = [open EXCEPT ![k] = o]
      BY <2>4, <3>3
    <3> QED
      BY <3>1, <3>2, <3>5, <3>6, <3>7, Zenon
  <2>5. CASE \E r \in Feed(l.h2, Coming(k, n), deaf[k]) :
               /\ local' = [local EXCEPT ![k].h2 = r.h2]
               /\ open' = [open EXCEPT ![k] = ~r.err]
               /\ out' = [out EXCEPT ![k] = @ \o r.sent]
    <3>1. PICK r \in Feed(l.h2, Coming(k, n), deaf[k]) :
               /\ local' = [local EXCEPT ![k].h2 = r.h2]
               /\ open' = [open EXCEPT ![k] = ~r.err]
               /\ out' = [out EXCEPT ![k] = @ \o r.sent]
      BY <2>5
    <3>2. GoodH2(r.h2) /\ IsSeq(r.sent) /\ r.err \in BOOLEAN
      BY <1>3, <1>6, FeedIsGood
    <3>3. PICK u : u = out[k] \o r.sent
      OBVIOUS
    <3>4. IsSeq(u)
      BY <1>1, <3>2, <3>3, ConcatIsSeq DEF ConnInv, Conn
    <3>5. PICK o \in BOOLEAN : o = ~r.err
      OBVIOUS
    <3>6. PICK new : new = [l EXCEPT !.h2 = r.h2]
      OBVIOUS
    <3>7. new \in Locals
      BY <1>6, <3>2, <3>6 DEF Locals, GoodH2
    <3>8. local' = [local EXCEPT ![k] = new]
      BY <1>5, <3>1, <3>6
    <3>9. open' = [open EXCEPT ![k] = o]
      BY <3>1, <3>5
    <3>10. out' = [out EXCEPT ![k] = u]
      BY <3>1, <3>3
    <3> QED
      BY <3>4, <3>7, <3>8, <3>9, <3>10, Zenon
  <2> QED
    BY <1>5, <2>1, <2>3, <2>4, <2>5 DEF TlsRead
<1>8. PICK p : p = IF o THEN "read" ELSE "served"
  OBVIOUS
<1>9. Becomes(k, driver[k], talk[k], got[k] + n, deaf[k], p, states[k], new, o, u, split[k])
  <2>1. /\ UNCHANGED <<driver, talk, deaf, states, split>>
        /\ got' = [got EXCEPT ![k] = got[k] + n]
    BY DEF TlsRead, clientVars
  <2>2. open'[k] = o
    BY <1>1, <1>7 DEF Functions
  <2>3. pc' = [pc EXCEPT ![k] = p]
    BY <1>8, <2>2 DEF TlsRead
  <2> QED
    BY <1>1, <1>7, <2>1, <2>3, SameDriver DEF Becomes
<1>10. Conn(driver[k], talk[k], got[k] + n, deaf[k], p, states[k], new, o, u, split[k])
  BY <1>1, <1>2, <1>3, <1>7, <1>8 DEF ConnInv, Conn
<1>11. Silent(k, u) /\ UNCHANGED listening
  BY <1>4 DEF Silent, TlsRead
<1> QED
  BY <1>9, <1>10, <1>11, BecomesKeeps

--------------------------------------------------------------------------------
(***************************************************************************)
(* Types, and silence after a close                                        *)
(***************************************************************************)

LEMMA InitInv == Init => IInv
<1> SUFFICES ASSUME Init PROVE IInv
  OBVIOUS
<1>1. NoLocal \in Locals
  BY NewH2IsGood, EmptyTokens DEF NoLocal, Locals, GoodH2
<1>2. IsSeq(<<>>)
  BY EmptyIsSeq
<1>3. Functions
  BY DEF Init, Functions
<1>4. ASSUME NEW k \in Keys PROVE ConnInv(k)
  BY <1>1, <1>2 DEF Init, ConnInv, Conn
<1> QED
  BY <1>3, <1>4 DEF Init, IInv

LEMMA NextKeeps == IInv /\ [Next]_vars => Kept
<1> SUFFICES ASSUME IInv, [Next]_vars PROVE Kept
  OBVIOUS
<1>1. Functions /\ \A k \in Keys : ConnInv(k)
  BY DEF IInv
<1>2. CASE \E k \in Keys, t \in Talks, f \in BOOLEAN :
             \/ \E d \in Drivers \ {"tls"} : Connect(k, d, t, f)
             \/ TlsAccept(k, t, f)
  BY <1>2, ConnectKeeps, TlsAcceptKeeps
<1>3. CASE \E k \in Keys, n \in 1..ReadSize : Data(k, n) \/ TlsRead(k, n)
  BY <1>3, DataKeeps, TlsReadKeeps
<1>4. CASE \E k \in Keys : Disconnect(k)
  <2>1. PICK k \in Keys : Disconnect(k)
    BY <1>4
  <2> QED
    BY <2>1, GoneKeeps DEF Disconnect
<1>5. CASE \E k \in Keys : Swept(k) \/ TlsClose(k)
  <2>1. PICK k \in Keys : Gone(k) /\ UNCHANGED states
    BY <1>5 DEF Swept, TlsClose
  <2>2. states' = [states EXCEPT ![k] = states[k]]
    BY <1>1, <2>1, SameDriver
  <2>3. states[k] # None => GoodState(states[k])
    BY <1>1 DEF ConnInv, Conn
  <2> QED
    BY <2>1, <2>2, <2>3, GoneKeeps
<1>6. CASE \E k \in Keys, proto \in {"h1", "h2"} : TlsHandshake(k, proto)
  BY <1>6, TlsHandshakeKeeps
<1>7. CASE TlsAcceptFails \/ UNCHANGED vars
  <2>1. /\ UNCHANGED <<driver, talk, got, deaf, pc, states, local, open, out, split>>
        /\ listening' \in BOOLEAN
    BY <1>7 DEF TlsAcceptFails, vars, IInv
  <2>2. Functions' /\ \A k \in Keys : ConnInv(k)'
    BY <1>1, <2>1 DEF Functions, ConnInv
  <2> QED
    BY <2>1, <2>2 DEF Kept, IInv
<1> QED
  BY <1>2, <1>3, <1>4, <1>5, <1>6, <1>7 DEF Next

(* Every variable keeps its type: what has been read is part of what was   *)
(* said, a connection that speaks HTTP/2 has nothing left in the buffer of *)
(* the other protocols, and an undecided one never has more than MaxHead   *)
(* bytes in it (dispatchPlain of httpserver.go).                           *)
THEOREM DispatchTypeCorrect == Spec => []TypeOK
<1>1. IInv => TypeOK
  <2> SUFFICES ASSUME IInv PROVE TypeOK
    OBVIOUS
  <2>1. Functions /\ listening \in BOOLEAN /\ \A k \in Keys : ConnInv(k)
    BY DEF IInv
  <2>2. /\ driver \in [Keys -> Drivers \cup {None}]
        /\ deaf \in [Keys -> BOOLEAN]
        /\ pc \in [Keys -> {"idle", "handshake", "read", "served"}]
        /\ open \in [Keys -> BOOLEAN]
        /\ split \in [Keys -> BOOLEAN]
    BY <2>1 DEF Functions, ConnInv, Conn
  <2>3. ASSUME NEW k \in Keys
        PROVE  /\ driver[k] # None => talk[k] \in Talks /\ got[k] \in 0..Len(Bytes(talk[k]))
               /\ local[k].proto \in {"none", "h1", "h2"}
    BY <2>1 DEF ConnInv, Conn, Locals
  <2>4. ASSUME NEW k \in Keys, states[k] # None
        PROVE  /\ states[k].mode \in {"unknown", "http1", "http2"}
               /\ states[k].closing \in BOOLEAN
               /\ Settled(states[k])
    <3>1. GoodState(states[k])
      BY <2>1, <2>4 DEF ConnInv, Conn
    <3> QED
      BY <3>1 DEF GoodState, States
  <2> QED
    BY <2>1, <2>2, <2>3, <2>4 DEF TypeOK, Settled
<1>2. Kept => IInv'
  BY DEF Kept
<1> QED
  BY InitInv, NextKeeps, <1>1, <1>2, PTL DEF Spec

(* After closeConn, or the end of a TLS goroutine's turn, nothing is sent  *)
(* on the descriptor: the closing flag stands between the bytes that still *)
(* come and the protocols that would answer them (dispatchPlain,           *)
(* httpserver.go:153).                                                     *)
THEOREM ClosedIsSilent == Spec => SilentOnceClosed
<1>1. Kept => IInv' /\ [\A k \in Keys :
        driver[k] # None /\ ~open[k] /\ driver'[k] # None => out'[k] = out[k]]_vars
  BY DEF Kept
<1> QED
  BY InitInv, NextKeeps, <1>1, PTL DEF Spec, SilentOnceClosed

--------------------------------------------------------------------------------
(***************************************************************************)
(* Numbers                                                                 *)
(***************************************************************************)

LEMMA HalfOf ==
  ASSUME NEW j \in Int
  PROVE  \E q \in Int : j = 2 * q \/ j = 2 * q + 1
<1>1. PICK q \in Int, r \in Int : q = j \div 2 /\ r = j % 2 /\ j = 2 * q + r /\ 0 <= r /\ r < 2
  OBVIOUS
<1> QED
  BY <1>1

LEMMA TakeOff ==
  ASSUME NEW x \in Nat
  PROVE  \E y \in Nat, d \in 0..9 : x = 10 * y + d /\ x \div 10 = y /\ x % 10 = d
<1>1. PICK y \in Int, d \in Int : x = 10 * y + d /\ x \div 10 = y /\ x % 10 = d /\ 0 <= d /\ d < 10
  OBVIOUS
<1>2. y \in Nat /\ d \in 0..9
  BY <1>1
<1> QED
  BY <1>1, <1>2

LEMMA PutOn ==
  ASSUME NEW x \in Nat, NEW d \in 0..9
  PROVE  (10 * x + d) \div 10 = x /\ (10 * x + d) % 10 = d
<1>1. (10 * x + d) \div 10 = x
  OBVIOUS
<1>2. (10 * x + d) % 10 = d
  OBVIOUS
<1> QED
  BY <1>1, <1>2

LEMMA NextDigitType ==
  ASSUME NEW x \in Int, NEW d \in 0..10
  PROVE  /\ NextDigit(x, d) \in Int
         /\ \/ NextDigit(x, d) = -1
            \/ /\ x # -1 /\ d \in 0..9
               /\ NextDigit(x, d) = 10 * x + d /\ 10 * x + d <= MaxLength
<1>1. MaxLength \in Nat
  BY DispatchAssumption, Zenon
<1> QED
  BY ONLY <1>1, x \in Int, d \in 0..10 DEF NextDigit

(* A function on 0..n is defined by its first value and a step.            *)
Grows(n, S, base, step, g) ==
  /\ g \in [0..n -> S]
  /\ g[0] = base
  /\ \A i \in 1..n : g[i] = step[i][g[i - 1]]

LEMMA Recursion ==
  ASSUME NEW n \in Nat, NEW S, NEW base \in S, NEW step \in [1..n -> [S -> S]]
  PROVE  \E g : Grows(n, S, base, step, g)
<1> DEFINE T == {m \in Nat : m <= n /\ ~\E g : Grows(m, S, base, step, g)}
<1>1. CASE T = {}
  <2>1. n \notin T
    BY <1>1
  <2> QED
    BY <2>1
<1>2. CASE T # {}
  <2>1. PICK m \in T : \A j \in T : m <= j
    <3>1. T \in SUBSET Nat
      OBVIOUS
    <3> HIDE DEF T
    <3> QED
      BY <1>2, <3>1, LeastNumber
  <2>2. m \in Nat /\ m <= n /\ ~\E g : Grows(m, S, base, step, g)
    OBVIOUS
  <2>3. CASE m = 0
    <3>1. PICK g : g = [i \in 0..m |-> base]
      OBVIOUS
    <3>2. g \in [0..m -> S] /\ g[0] = base
      BY <2>3, <3>1
    <3> QED
      BY <2>2, <2>3, <3>2 DEF Grows
  <2>4. CASE m # 0
    <3>1. m - 1 \in Nat /\ m - 1 <= n /\ ~(m <= m - 1) /\ m \in 1..n
      BY <2>2, <2>4
    <3>2. m - 1 \notin T
      BY <2>1, <3>1
    <3>3. PICK g : Grows(m - 1, S, base, step, g)
      BY <3>1, <3>2
    <3>4. PICK h : h = [i \in 0..m |-> IF i = m THEN step[m][g[m - 1]] ELSE g[i]]
      OBVIOUS
    <3>5. m - 1 \in 0..(m - 1) /\ 0 \in 0..(m - 1)
      BY <3>1
    <3>6. step[m][g[m - 1]] \in S
      BY <3>1, <3>3, <3>5 DEF Grows
    <3>7. ASSUME NEW i \in 0..m, i # m PROVE i \in 0..(m - 1) /\ i \in 0..m
      BY <3>1, <3>7
    <3>8. h \in [0..m -> S]
      BY <3>3, <3>4, <3>6, <3>7 DEF Grows
    <3>9. h[0] = base
      BY <3>1, <3>3, <3>4, <3>5 DEF Grows
    <3>10. ASSUME NEW i \in 1..m PROVE h[i] = step[i][h[i - 1]]
      <4>1. i - 1 \in 0..m /\ i - 1 # m /\ i \in 0..m
        BY <2>2
      <4>2. h[i - 1] = g[i - 1]
        BY <3>4, <4>1
      <4>3. CASE i = m
        BY <3>4, <4>1, <4>2, <4>3
      <4>4. CASE i # m
        <5>1. i \in 1..(m - 1)
          BY <2>2, <4>4
        <5> QED
          BY <3>3, <3>4, <4>1, <4>2, <4>4, <5>1 DEF Grows
      <4> QED
        BY <4>3, <4>4
    <3> QED
      BY <2>2, <3>8, <3>9, <3>10 DEF Grows
  <2> QED
    BY <2>3, <2>4
<1> QED
  BY <1>1, <1>2

(* parsePositiveInt reads digit by digit.                                  *)
LEMMA ParseSteps ==
  ASSUME NEW s \in Seq(0..10), NEW n \in Nat, n = Len(s)
  PROVE  \E v \in [0..n -> Int] :
           /\ v[0] = 0
           /\ \A i \in 1..n : v[i] = NextDigit(v[i - 1], s[i])
           /\ s # <<>> => ParsePositiveInt(s) = v[n]
<1>1. \A i \in 1..n : s[i] \in 0..10
  OBVIOUS
<1>2. PICK step : step = [i \in 1..n |-> [x \in Int |-> NextDigit(x, s[i])]]
  OBVIOUS
<1>3. step \in [1..n -> [Int -> Int]]
  <2>1. ASSUME NEW i \in 1..n, NEW x \in Int PROVE NextDigit(x, s[i]) \in Int
    BY <1>1, NextDigitType
  <2> QED
    BY <1>2, <2>1
<1>4. PICK g : /\ g \in [0..n -> Int] /\ g[0] = 0
               /\ \A i \in 1..n : g[i] = step[i][g[i - 1]]
  <2>1. 0 \in Int
    OBVIOUS
  <2>2. \E g : Grows(n, Int, 0, step, g)
    BY <1>3, <2>1, Recursion, Zenon
  <2> QED
    BY <2>2, Zenon DEF Grows
<1> DEFINE Eq(f) == f = [i \in 0..Len(s) |->
                           IF i = 0 THEN 0 ELSE NextDigit(f[i - 1], s[i])]
<1>5. Eq(g)
  <2>1. ASSUME NEW i \in 0..n, i # 0 PROVE step[i][g[i - 1]] = NextDigit(g[i - 1], s[i])
    <3>1. i \in 1..n /\ i - 1 \in 0..n
      BY <2>1
    <3>2. g[i - 1] \in Int
      BY <1>4, <3>1
    <3> QED
      BY <1>2, <3>1, <3>2
  <2>2. ASSUME NEW i \in 0..n
        PROVE  g[i] = IF i = 0 THEN 0 ELSE NextDigit(g[i - 1], s[i])
    <3>1. i = 0 \/ i \in 1..n
      OBVIOUS
    <3> QED
      BY <1>4, <2>1, <3>1
  <2>3. g = [i \in 0..n |-> IF i = 0 THEN 0 ELSE NextDigit(g[i - 1], s[i])]
    BY <1>4, <2>2
  <2> QED
    BY <2>3, n = Len(s), Zenon
<1>6. Eq(CHOOSE f : Eq(f))
  BY <1>5, Zenon
<1>7. s # <<>> => ParsePositiveInt(s) = (CHOOSE f : Eq(f))[Len(s)]
  BY Zenon DEF ParsePositiveInt
<1>8. PICK v : v = CHOOSE f : Eq(f)
  OBVIOUS
<1>9. v = [i \in 0..n |-> IF i = 0 THEN 0 ELSE NextDigit(v[i - 1], s[i])]
  BY <1>6, <1>8, Zenon
<1>10. s # <<>> => ParsePositiveInt(s) = v[n]
  <2>1. s # <<>> => ParsePositiveInt(s) = v[Len(s)]
    <3> HIDE DEF Eq
    <3> QED
      BY ONLY <1>7, <1>8, Zenon
  <2> QED
    BY ONLY <2>1, n = Len(s), Zenon
<1> HIDE DEF Eq
<1>11. v[0] = 0 /\ \A i \in 1..n : v[i] = NextDigit(v[i - 1], s[i])
  BY <1>9
<1>12. \A i \in 0..n : v[i] \in Int
  <2> DEFINE T == {i \in Nat : i <= n /\ v[i] \notin Int}
  <2>1. SUFFICES ASSUME T # {} PROVE FALSE
    OBVIOUS
  <2>2. PICK i \in T : \A j \in T : i <= j
    <3>1. T \in SUBSET Nat
      OBVIOUS
    <3> HIDE DEF T
    <3> QED
      BY <2>1, <3>1, LeastNumber
  <2>3. i \in Nat /\ i <= n /\ v[i] \notin Int
    OBVIOUS
  <2>4. i # 0
    BY <1>11, <2>3
  <2>5. i - 1 \in Nat /\ i - 1 <= n /\ ~(i <= i - 1) /\ i \in 1..n
    BY <2>3, <2>4
  <2>6. v[i - 1] \in Int
    <3>1. i - 1 \notin T
      BY <2>2, <2>5
    <3> QED
      BY <2>5, <3>1
  <2>7. v[i] \in Int
    BY <1>1, <1>11, <2>5, <2>6, NextDigitType
  <2> QED
    BY <2>3, <2>7
<1>13. v \in [0..n -> Int]
  BY <1>9, <1>12
<1> QED
  BY <1>10, <1>11, <1>13

(* Denotes divides by ten again and again.                                 *)
Divided(q, n, a) ==
  /\ q \in [0..n -> Nat]
  /\ q[0] = a
  /\ \A i \in 1..n : q[i] = q[i - 1] \div 10
Spells(s, n, q) ==
  /\ s # <<>>
  /\ q[n] = 0
  /\ \A i \in 1..n : s[n + 1 - i] = q[i - 1] % 10

LEMMA DenotesSteps ==
  ASSUME NEW s \in Seq(0..10), NEW n \in Nat, n = Len(s), NEW a \in Nat
  PROVE  \E q : Divided(q, n, a) /\ (Denotes(s, a) <=> Spells(s, n, q))
<1>1. PICK step : step = [i \in 1..n |-> [x \in Nat |-> x \div 10]]
  OBVIOUS
<1>2. step \in [1..n -> [Nat -> Nat]]
  <2>1. ASSUME NEW x \in Nat PROVE x \div 10 \in Nat
    OBVIOUS
  <2> QED
    BY <1>1, <2>1
<1>3. PICK g : /\ g \in [0..n -> Nat] /\ g[0] = a
               /\ \A i \in 1..n : g[i] = step[i][g[i - 1]]
  <2>1. \E g : Grows(n, Nat, a, step, g)
    BY <1>2, Recursion, Zenon
  <2> QED
    BY <2>1, Zenon DEF Grows
<1> DEFINE Eq(f) == f = [i \in 0..Len(s) |-> IF i = 0 THEN a ELSE f[i - 1] \div 10]
<1>4. Eq(g)
  <2>1. ASSUME NEW i \in 0..n, i # 0 PROVE step[i][g[i - 1]] = g[i - 1] \div 10
    <3>1. i \in 1..n /\ i - 1 \in 0..n
      BY <2>1
    <3>2. g[i - 1] \in Nat
      BY <1>3, <3>1
    <3> QED
      BY <1>1, <3>1, <3>2
  <2>2. ASSUME NEW i \in 0..n PROVE g[i] = IF i = 0 THEN a ELSE g[i - 1] \div 10
    <3>1. i = 0 \/ i \in 1..n
      OBVIOUS
    <3> QED
      BY <1>3, <2>1, <3>1
  <2>3. g = [i \in 0..n |-> IF i = 0 THEN a ELSE g[i - 1] \div 10]
    BY <1>3, <2>2
  <2> QED
    BY <2>3, n = Len(s), Zenon
<1>5. Eq(CHOOSE f : Eq(f))
  BY <1>4, Zenon
<1>6. PICK q : q = CHOOSE f : Eq(f)
  OBVIOUS
<1>7. q = [i \in 0..n |-> IF i = 0 THEN a ELSE q[i - 1] \div 10]
  BY <1>5, <1>6, Zenon
<1>8. Denotes(s, a) <=> /\ s # <<>>
                        /\ q[Len(s)] = 0
                        /\ \A i \in DOMAIN s : s[Len(s) + 1 - i] = q[i - 1] % 10
  BY <1>6, Zenon DEF Denotes
<1> HIDE DEF Eq
<1>9. Denotes(s, a) <=> /\ s # <<>>
                        /\ q[n] = 0
                        /\ \A i \in 1..n : s[n + 1 - i] = q[i - 1] % 10
  <2>1. DOMAIN s = 1..n
    OBVIOUS
  <2> QED
    BY ONLY <1>8, <2>1, n = Len(s), Zenon
<1>10. q[0] = a /\ \A i \in 1..n : q[i] = q[i - 1] \div 10
  BY <1>7
<1>11. \A i \in 0..n : q[i] \in Nat
  <2> DEFINE T == {i \in Nat : i <= n /\ q[i] \notin Nat}
  <2>1. SUFFICES ASSUME T # {} PROVE FALSE
    OBVIOUS
  <2>2. PICK i \in T : \A j \in T : i <= j
    <3>1. T \in SUBSET Nat
      OBVIOUS
    <3> HIDE DEF T
    <3> QED
      BY <2>1, <3>1, LeastNumber
  <2>3. i \in Nat /\ i <= n /\ q[i] \notin Nat
    OBVIOUS
  <2>4. i # 0
    BY <1>10, <2>3
  <2>5. i - 1 \in Nat /\ i - 1 <= n /\ ~(i <= i - 1) /\ i \in 1..n
    BY <2>3, <2>4
  <2>6. q[i - 1] \in Nat
    <3>1. i - 1 \notin T
      BY <2>2, <2>5
    <3> QED
      BY <2>5, <3>1
  <2>7. q[i] = q[i - 1] \div 10
    BY <1>10, <2>5
  <2> QED
    BY <2>3, <2>6, <2>7
<1>12. q \in [0..n -> Nat]
  BY <1>7, <1>11
<1> QED
  BY <1>9, <1>10, <1>12, Zenon DEF Divided, Spells

(* What parsePositiveInt returns is what the digits denote, up to          *)
(* MaxLength; an error means that they denote no such number.              *)
LEMMA ParseIsDenotation ==
  ASSUME NEW s \in Seq(0..10), s # <<>>, NEW p, p = ParsePositiveInt(s)
  PROVE  /\ p \in 0..MaxLength \cup {-1}
         /\ \A a \in 0..MaxLength : Denotes(s, a) <=> a = p
<1>1. PICK n \in Nat : n = Len(s) /\ n # 0
  OBVIOUS
<1>2. PICK v \in [0..n -> Int] :
        /\ v[0] = 0
        /\ \A i \in 1..n : v[i] = NextDigit(v[i - 1], s[i])
        /\ p = v[n]
  BY <1>1, ParseSteps
<1>3. \A i \in 1..n : s[i] \in 0..10
  BY <1>1
<1>4. MaxLength \in Nat
  BY DispatchAssumption, Zenon
<1>5. ASSUME NEW i \in 1..n
      PROVE  \/ v[i] = -1
             \/ /\ v[i - 1] # -1 /\ s[i] \in 0..9
                /\ v[i] = 10 * v[i - 1] + s[i] /\ v[i] <= MaxLength
  <2>1. v[i] = NextDigit(v[i - 1], s[i]) /\ i - 1 \in 0..n
    BY <1>2
  <2>2. v[i - 1] \in Int /\ s[i] \in 0..10
    BY <1>2, <1>3, <2>1
  <2> QED
    BY ONLY <2>1, <2>2, NextDigitType, ZenonT(30)
<1>6. ASSUME p # -1
      PROVE  \A i \in 0..n : v[n - i] # -1
  <2> DEFINE T == {i \in Nat : i <= n /\ v[n - i] = -1}
  <2>1. SUFFICES ASSUME T # {} PROVE FALSE
    BY SMTT(20)
  <2>2. PICK i \in T : \A j \in T : i <= j
    <3>1. T \in SUBSET Nat
      OBVIOUS
    <3> HIDE DEF T
    <3> QED
      BY <2>1, <3>1, LeastNumber
  <2>3. i \in Nat /\ i <= n /\ v[n - i] = -1
    OBVIOUS
  <2>4. i # 0
    BY <1>2, <1>6, <2>3
  <2>5. /\ i - 1 \in Nat /\ i - 1 <= n /\ ~(i <= i - 1)
        /\ n - (i - 1) \in 1..n /\ n - (i - 1) - 1 = n - i
    BY <2>3, <2>4
  <2>6. v[n - (i - 1)] # -1
    <3>1. i - 1 \notin T
      BY <2>2, <2>5
    <3> QED
      BY <2>5, <3>1
  <2>7. PICK j \in 1..n : j = n - (i - 1) /\ j - 1 = n - i
    BY <2>5
  <2> QED
    BY <1>5, <2>3, <2>6, <2>7
<1>7. \A i \in 0..n : v[i] = -1 \/ v[i] \in 0..MaxLength
  <2> DEFINE T == {i \in Nat : i <= n /\ ~(v[i] = -1 \/ v[i] \in 0..MaxLength)}
  <2>1. SUFFICES ASSUME T # {} PROVE FALSE
    OBVIOUS
  <2>2. PICK i \in T : \A j \in T : i <= j
    <3>1. T \in SUBSET Nat
      OBVIOUS
    <3> HIDE DEF T
    <3> QED
      BY <2>1, <3>1, LeastNumber
  <2>3. i \in Nat /\ i <= n /\ ~(v[i] = -1 \/ v[i] \in 0..MaxLength)
    OBVIOUS
  <2>4. i # 0
    BY <1>2, <1>4, <2>3
  <2>5. i - 1 \in Nat /\ i - 1 <= n /\ ~(i <= i - 1) /\ i \in 1..n
    BY <2>3, <2>4
  <2>6. v[i - 1] = -1 \/ v[i - 1] \in 0..MaxLength
    <3>1. i - 1 \notin T
      BY <2>2, <2>5
    <3> QED
      BY <2>5, <3>1
  <2>7. PICK x, d : x = v[i - 1] /\ d = s[i]
    OBVIOUS
  <2>8. v[i] = -1 \/ (x # -1 /\ d \in 0..9 /\ v[i] = 10 * x + d /\ v[i] <= MaxLength)
    BY <1>5, <2>5, <2>7
  <2>9. x \in 0..MaxLength \/ x = -1
    BY <2>6, <2>7
  <2>10. v[i] = -1 \/ (x \in 0..MaxLength /\ d \in 0..9 /\ v[i] = 10 * x + d /\ v[i] <= MaxLength)
    BY <2>8, <2>9, Zenon
  <2>11. ASSUME x \in 0..MaxLength, d \in 0..9, 10 * x + d <= MaxLength
         PROVE  10 * x + d \in 0..MaxLength
    BY ONLY <1>4, <2>11
  <2>12. v[i] = -1 \/ v[i] \in 0..MaxLength
    BY <2>10, <2>11, Zenon
  <2> QED
    BY <2>3, <2>12, Zenon
<1>8. ASSUME p # -1 PROVE p \in 0..MaxLength /\ Denotes(s, p)
  <2>1. p \in 0..MaxLength /\ p \in Nat
    BY <1>1, <1>2, <1>4, <1>7, <1>8
  <2>2. PICK q \in [0..n -> Nat] :
           /\ q[0] = p
           /\ \A i \in 1..n : q[i] = q[i - 1] \div 10
           /\ Denotes(s, p) <=> Spells(s, n, q)
    <3>1. \E q : Divided(q, n, p) /\ (Denotes(s, p) <=> Spells(s, n, q))
      BY <1>1, <2>1, DenotesSteps, Zenon
    <3> QED
      BY <3>1, Zenon DEF Divided
  <2>3. ASSUME NEW i \in 1..n
        PROVE  /\ n + 1 - i \in 1..n /\ s[n + 1 - i] \in 0..9 /\ v[n - i] \in Nat
               /\ v[n - (i - 1)] = 10 * v[n - i] + s[n + 1 - i]
    <3>0. n + 1 - i \in 1..n /\ n + 1 - i = n - (i - 1) /\ (n + 1 - i) - 1 = n - i
      BY ONLY <1>1, i \in 1..n, n \in Nat
    <3>1. PICK j \in 1..n : j = n + 1 - i /\ j = n - (i - 1) /\ j - 1 = n - i /\ j - 1 \in 0..n
      BY <3>0
    <3>2. i - 1 \in 0..n /\ i \in 0..n
      BY <1>1
    <3>3. v[n - (i - 1)] # -1 /\ v[n - i] # -1
      BY <1>6, <1>8, <3>2
    <3>4. v[j] # -1 /\ v[j - 1] # -1
      BY <3>1, <3>3
    <3>5. v[j - 1] \in 0..MaxLength
      BY <1>7, <3>1, <3>4
    <3>6. s[j] \in 0..9 /\ v[j] = 10 * v[j - 1] + s[j]
      BY <1>5, <3>4
    <3> QED
      BY <1>4, <3>1, <3>5, <3>6
  <2>4. \A i \in 0..n : q[i] = v[n - i]
    <3> SUFFICES ASSUME NEW b \in 0..n, q[b] # v[n - b] PROVE FALSE
      OBVIOUS
    <3> DEFINE T == {i \in Nat : i <= n /\ q[i] # v[n - i]}
    <3>1. T # {}
      <4>1. b \in Nat /\ b <= n
        OBVIOUS
      <4>2. b \in T
        BY <4>1
      <4> QED
        BY <4>2
    <3>2. PICK i \in T : \A j \in T : i <= j
      <4>1. T \in SUBSET Nat
        OBVIOUS
      <4> HIDE DEF T
      <4> QED
        BY <3>1, <4>1, LeastNumber
    <3>3. i \in Nat /\ i <= n /\ q[i] # v[n - i]
      OBVIOUS
    <3>4. i # 0
      <4>1. q[0] = v[n - 0]
        BY <1>1, <1>2, <2>2
      <4> QED
        BY <3>3, <4>1
    <3>5. i - 1 \in Nat /\ i - 1 <= n /\ ~(i <= i - 1) /\ i \in 1..n
      BY <3>3, <3>4
    <3>6. q[i - 1] = v[n - (i - 1)]
      <4>1. i - 1 \notin T
        BY <3>2, <3>5
      <4> QED
        BY <3>5, <4>1
    <3>7. PICK x \in Nat, d \in 0..9 : v[n - i] = x /\ q[i - 1] = 10 * x + d
      BY <2>3, <3>5, <3>6
    <3>8. (10 * x + d) \div 10 = x
      BY PutOn
    <3>9. q[i] = q[i - 1] \div 10
      BY <2>2, <3>5
    <3> QED
      BY ONLY <3>3, <3>7, <3>8, <3>9
  <2>5. q[n] = 0
    <3>1. n \in 0..n /\ n - n = 0
      BY <1>1
    <3> QED
      BY <1>2, <2>4, <3>1
  <2>6. ASSUME NEW i \in 1..n PROVE s[n + 1 - i] = q[i - 1] % 10
    <3>1. i - 1 \in 0..n
      BY <1>1
    <3>2. q[i - 1] = v[n - (i - 1)]
      BY <2>4, <3>1
    <3>3. PICK x \in Nat, d \in 0..9 : v[n - (i - 1)] = 10 * x + d /\ s[n + 1 - i] = d
      BY <2>3
    <3>4. (10 * x + d) % 10 = d
      BY PutOn
    <3> QED
      BY ONLY <3>2, <3>3, <3>4
  <2> QED
    BY <2>1, <2>2, <2>5, <2>6 DEF Spells
<1>9. ASSUME NEW a \in 0..MaxLength, Denotes(s, a) PROVE a = p
  <2>1. a \in Nat /\ a <= MaxLength
    BY <1>4
  <2>2. PICK q \in [0..n -> Nat] :
           /\ q[0] = a
           /\ \A i \in 1..n : q[i] = q[i - 1] \div 10
           /\ s # <<>>
           /\ q[n] = 0
           /\ \A i \in 1..n : s[n + 1 - i] = q[i - 1] % 10
    <3>1. \E q : Divided(q, n, a) /\ (Denotes(s, a) <=> Spells(s, n, q))
      BY <1>1, <2>1, DenotesSteps, Zenon
    <3> QED
      BY <1>9, <3>1, Zenon DEF Divided, Spells
  <2>3. \A i \in 0..n : q[i] <= MaxLength
    <3> SUFFICES ASSUME NEW b \in 0..n, ~(q[b] <= MaxLength) PROVE FALSE
      OBVIOUS
    <3> DEFINE T == {i \in Nat : i <= n /\ ~(q[i] <= MaxLength)}
    <3>1. T # {}
      <4>1. b \in Nat /\ b <= n
        OBVIOUS
      <4>2. b \in T
        BY <4>1
      <4> QED
        BY <4>2
    <3>2. PICK i \in T : \A j \in T : i <= j
      <4>1. T \in SUBSET Nat
        OBVIOUS
      <4> HIDE DEF T
      <4> QED
        BY <3>1, <4>1, LeastNumber
    <3>3. i \in Nat /\ i <= n /\ ~(q[i] <= MaxLength)
      OBVIOUS
    <3>4. i # 0
      BY <2>1, <2>2, <3>3
    <3>5. i - 1 \in Nat /\ i - 1 <= n /\ ~(i <= i - 1) /\ i \in 1..n /\ i - 1 \in 0..n
      BY <3>3, <3>4
    <3>6. PICK x \in Nat : x = q[i - 1] /\ x <= MaxLength
      <4>1. i - 1 \notin T
        BY <3>2, <3>5
      <4> QED
        BY <3>5, <4>1
    <3>7. q[i] = x \div 10
      BY <2>2, <3>5, <3>6
    <3>8. x \div 10 <= x /\ x \div 10 \in Nat
      BY ONLY x \in Nat
    <3> QED
      BY ONLY <1>4, <3>3, <3>6, <3>7, <3>8
  <2>4. \A i \in 0..n : v[i] = q[n - i]
    <3> SUFFICES ASSUME NEW b \in 0..n, v[b] # q[n - b] PROVE FALSE
      OBVIOUS
    <3> DEFINE T == {i \in Nat : i <= n /\ v[i] # q[n - i]}
    <3>1. T # {}
      <4>1. b \in Nat /\ b <= n
        OBVIOUS
      <4>2. b \in T
        BY <4>1
      <4> QED
        BY <4>2
    <3>2. PICK i \in T : \A j \in T : i <= j
      <4>1. T \in SUBSET Nat
        OBVIOUS
      <4> HIDE DEF T
      <4> QED
        BY <3>1, <4>1, LeastNumber
    <3>3. i \in Nat /\ i <= n /\ v[i] # q[n - i]
      OBVIOUS
    <3>4. i # 0
      <4>1. n - 0 = n
        BY <1>1
      <4> QED
        BY <1>2, <2>2, <3>3, <4>1
    <3>5. i - 1 \in Nat /\ i - 1 <= n /\ ~(i <= i - 1) /\ i \in 1..n
      BY <3>3, <3>4
    <3>6. v[i - 1] = q[n - (i - 1)]
      <4>1. i - 1 \notin T
        BY <3>2, <3>5
      <4> QED
        BY <3>5, <4>1
    <3>0. /\ n - (i - 1) \in 1..n /\ (n - (i - 1)) - 1 = n - i
          /\ n + 1 - (n - (i - 1)) = i /\ n - i \in 0..n
      BY ONLY <1>1, <3>5, n \in Nat
    <3>7. PICK j \in 1..n : j = n - (i - 1) /\ j - 1 = n - i /\ n + 1 - j = i /\ j - 1 \in 0..n
      BY <3>0
    <3>8. PICK x \in Nat : x = q[n - i] /\ x <= MaxLength
      BY <2>3, <3>7
    <3>9. q[n - (i - 1)] = x \div 10 /\ s[i] = x % 10
      <4>1. q[j] = q[j - 1] \div 10 /\ s[n + 1 - j] = q[j - 1] % 10
        BY <2>2
      <4> QED
        BY <3>7, <3>8, <4>1
    <3>10. v[i] = NextDigit(v[i - 1], s[i])
      BY <1>2, <3>5
    <3>11. PICK y \in Nat, d \in 0..9 : x = 10 * y + d /\ x \div 10 = y /\ x % 10 = d
      BY TakeOff
    <3>12. NextDigit(y, d) = x
      BY ONLY <1>4, <3>8, <3>11, y \in Nat, d \in 0..9 DEF NextDigit
    <3> QED
      BY ONLY <3>3, <3>6, <3>8, <3>9, <3>10, <3>11, <3>12
  <2>5. v[n] = q[n - n] /\ n - n = 0
    BY <1>1, <2>4
  <2> QED
    BY <1>2, <2>2, <2>5
<1> QED
  BY <1>4, <1>8, <1>9

--------------------------------------------------------------------------------
(***************************************************************************)
(* A stream of HTTP/2 frames, fed in pieces, to a client that reads        *)
(***************************************************************************)

LEMMA MinIs ==
  ASSUME NEW S \in SUBSET Nat, NEW x \in S, \A y \in S : x <= y
  PROVE  Min(S) = x
<1>1. PICK m : m = Min(S)
  OBVIOUS
<1>2. m \in S /\ \A y \in S : m <= y
  BY <1>1, Zenon DEF Min
<1>3. m <= x /\ x <= m /\ m \in Nat /\ x \in Nat
  BY <1>2
<1> QED
  BY <1>1, <1>3

LEMMA MinExists ==
  ASSUME NEW S \in SUBSET Nat, S # {}
  PROVE  Min(S) \in S /\ \A y \in S : Min(S) <= y
<1>1. PICK x \in S : \A y \in S : x <= y
  BY LeastNumber
<1>2. Min(S) = x
  BY <1>1, MinIs
<1> QED
  BY <1>1, <1>2

(* The answers to frames a + 1 to b of f; and the frames before the first  *)
(* broken one.                                                             *)
AnswerTo(x) == Reply(IF x = "config" THEN "ack" ELSE "h2", 0)
Replies == {Reply("ack", 0), Reply("h2", 0)}
Answers(f, a, b) == [i \in 1..(b - a) |-> AnswerTo(f[a + i])]
Sound(f, c) ==
  /\ c \in 0..Len(f)
  /\ \A i \in 1..c : f[i] # "broken"
  /\ c = Len(f) \/ f[c + 1] = "broken"

LEMMA AnswersAre ==
  ASSUME NEW f, NEW a \in Nat, NEW b \in Nat, a <= b
  PROVE  /\ Answers(f, a, b) \in Seq(Replies)
         /\ Len(Answers(f, a, b)) = b - a
         /\ \A i \in 1..(b - a) : Answers(f, a, b)[i] = AnswerTo(f[a + i])
<1>1. ASSUME NEW x PROVE AnswerTo(x) \in Replies
  BY DEF AnswerTo, Replies
<1>2. PICK n \in Nat : n = b - a
  OBVIOUS
<1>3. PICK q : q = [i \in 1..n |-> AnswerTo(f[a + i])]
  OBVIOUS
<1>4. q \in [1..n -> Replies]
  BY <1>1, <1>3
<1>5. q \in Seq(Replies) /\ Len(q) = n
  <2> HIDE DEF Replies
  <2> QED
    BY ONLY <1>2, <1>3, <1>4
<1>6. \A i \in 1..n : q[i] = AnswerTo(f[a + i])
  BY <1>3
<1>7. Answers(f, a, b) = q
  BY <1>2, <1>3, Zenon DEF Answers
<1> QED
  BY <1>2, <1>5, <1>6, <1>7

LEMMA AnswersJoin ==
  ASSUME NEW f, NEW a \in Nat, NEW b \in Nat, NEW c \in Nat, a <= b, b <= c
  PROVE  Answers(f, a, b) \o Answers(f, b, c) = Answers(f, a, c)
<1>1. PICK p, q, r : p = Answers(f, a, b) /\ q = Answers(f, b, c) /\ r = Answers(f, a, c)
  OBVIOUS
<1>2. /\ p \in Seq(Replies) /\ Len(p) = b - a
      /\ \A i \in 1..(b - a) : p[i] = AnswerTo(f[a + i])
  BY <1>1, AnswersAre
<1>3. /\ q \in Seq(Replies) /\ Len(q) = c - b
      /\ \A i \in 1..(c - b) : q[i] = AnswerTo(f[b + i])
  BY <1>1, AnswersAre
<1>4. /\ r \in Seq(Replies) /\ Len(r) = c - a
      /\ \A i \in 1..(c - a) : r[i] = AnswerTo(f[a + i])
  <2>1. a <= c
    OBVIOUS
  <2> QED
    BY <1>1, <2>1, AnswersAre
<1> HIDE DEF Replies
<1>5. /\ p \o q \in Seq(Replies) /\ Len(p \o q) = c - a
      /\ \A i \in 1..(c - a) : (p \o q)[i] = IF i <= b - a THEN p[i] ELSE q[i - (b - a)]
  <2>1. Len(p) + Len(q) = c - a
    BY <1>2, <1>3
  <2>2. /\ p \o q \in Seq(Replies) /\ Len(p \o q) = Len(p) + Len(q)
        /\ \A i \in 1..Len(p) + Len(q) : (p \o q)[i] = IF i <= Len(p) THEN p[i] ELSE q[i - Len(p)]
    BY ONLY <1>2, <1>3, ConcatProperties
  <2> QED
    BY ONLY <1>2, <2>1, <2>2, Zenon
<1>6. ASSUME NEW i \in 1..(c - a) PROVE (p \o q)[i] = r[i]
  <2>1. CASE i <= b - a
    <3>1. i \in 1..(b - a)
      BY <2>1
    <3> QED
      BY <1>2, <1>4, <1>5, <2>1, <3>1
  <2>2. CASE ~(i <= b - a)
    <3>1. i - (b - a) \in 1..(c - b) /\ b + (i - (b - a)) = a + i
      BY <2>2
    <3>2. q[i - (b - a)] = AnswerTo(f[b + (i - (b - a))])
      BY <1>3, <3>1
    <3> QED
      BY <1>4, <1>5, <2>2, <3>1, <3>2
  <2> QED
    BY <2>1, <2>2
<1>7. p \o q = r
  BY <1>4, <1>5, <1>6, SeqEqual
<1> QED
  BY <1>1, <1>7

LEMMA NoAnswers ==
  ASSUME NEW f, NEW a \in Nat
  PROVE  Answers(f, a, a) = <<>>
<1>1. Answers(f, a, a) \in Seq(Replies) /\ Len(Answers(f, a, a)) = 0
  BY AnswersAre, SMTT(20)
<1> QED
  BY ONLY <1>1

LEMMA OneAnswer ==
  ASSUME NEW f, NEW a \in Nat
  PROVE  Answers(f, a, a + 1) = <<AnswerTo(f[a + 1])>>
<1>1. PICK q : q = Answers(f, a, a + 1)
  OBVIOUS
<1>2. q \in Seq(Replies) /\ Len(q) = 1 /\ q[1] = AnswerTo(f[a + 1])
  <2>1. a + 1 \in Nat /\ a <= a + 1 /\ (a + 1) - a = 1 /\ 1 \in 1..1
    OBVIOUS
  <2>2. /\ q \in Seq(Replies) /\ Len(q) = (a + 1) - a
        /\ \A i \in 1..((a + 1) - a) : q[i] = AnswerTo(f[a + i])
    BY ONLY <1>1, <2>1, a \in Nat, AnswersAre
  <2> QED
    BY <2>1, <2>2
<1>3. q = <<q[1]>>
  BY ONLY <1>2
<1> QED
  BY <1>1, <1>2, <1>3

(* A frame and a client that reads: the answer, or the end.                *)
LEMMA HandleFrameIs ==
  ASSUME NEW x \in Frames, NEW o \in HandleFrame(Token(x), FALSE)
  PROVE  IF x = "broken" THEN o = [sent |-> <<>>, err |-> TRUE]
         ELSE o = [sent |-> <<AnswerTo(x)>>, err |-> FALSE]
<1>1. Token(x).k = x
  BY DEF Token
<1>2. ASSUME NEW r PROVE Send(r, FALSE) = {<<r>>} /\ <<r>> # <<>>
  BY DEF Send
<1>3. CASE x = "config"
  <2>1. PICK s \in Send(Reply("ack", 0), FALSE) : o = [sent |-> s, err |-> s = <<>>]
    BY <1>1, <1>3 DEF HandleFrame
  <2>2. s = <<Reply("ack", 0)>> /\ s # <<>>
    BY <1>2, <2>1
  <2>3. AnswerTo(x) = Reply("ack", 0)
    BY <1>3 DEF AnswerTo
  <2>4. (s = <<>>) = FALSE
    BY <2>2
  <2> QED
    BY <1>3, <2>1, <2>2, <2>3, <2>4
<1>4. CASE x = "get"
  <2>1. PICK s \in Send(Reply("h2", 0), FALSE) : o = [sent |-> s, err |-> FALSE]
    BY <1>1, <1>4 DEF HandleFrame
  <2>2. s = <<Reply("h2", 0)>>
    BY <1>2, <2>1
  <2>3. AnswerTo(x) = Reply("h2", 0)
    BY <1>4 DEF AnswerTo
  <2> QED
    BY <1>4, <2>1, <2>2, <2>3
<1>5. CASE x = "broken"
  BY <1>1, <1>5 DEF HandleFrame
<1> QED
  BY <1>3, <1>4, <1>5 DEF Frames

(* Frames a + 1 to a + n of f are answered, up to the first broken one.    *)
Came(f, a, b, c) == IF b <= c THEN [sent |-> Answers(f, a, b), err |-> FALSE]
                    ELSE [sent |-> Answers(f, a, c), err |-> TRUE]

LEMMA HandleAllIs ==
  ASSUME NEW frames, NEW n \in Nat, n = Len(frames), NEW f \in Seq(Frames),
         NEW c, Sound(f, c), NEW a \in Nat, a <= c, a + n <= Len(f),
         \A i \in 1..n : frames[i] = Token(f[a + i]),
         NEW o \in HandleAll(frames, FALSE)
  PROVE  o = Came(f, a, a + n, c)
<1>0. PICK isDeaf : isDeaf = FALSE
  OBVIOUS
<1>1. PICK g : /\ g = [i \in 0..n |-> Then(frames, isDeaf, g, i)]
               /\ HandleAll(frames, isDeaf) = g[n]
  BY HandleAllIsThen
<1>2. c \in Nat /\ Len(f) \in Nat /\ c <= Len(f)
  <2>1. Len(f) \in Nat
    OBVIOUS
  <2> QED
    BY <2>1 DEF Sound
<1> DEFINE T == {i \in Nat : i <= n /\ ~\A e \in g[i] : e = Came(f, a, a + i, c)}
<1>3. T = {}
  <2>1. SUFFICES ASSUME T # {} PROVE FALSE
    OBVIOUS
  <2>2. PICK i \in T : \A j \in T : i <= j
    <3>1. T \in SUBSET Nat
      OBVIOUS
    <3> HIDE DEF T
    <3> QED
      BY <2>1, <3>1, LeastNumber
  <2>3. i \in Nat /\ i <= n /\ i \in 0..n /\ ~\A e \in g[i] : e = Came(f, a, a + i, c)
    OBVIOUS
  <2>4. PICK e \in g[i] : e # Came(f, a, a + i, c)
    BY <2>3
  <2>5. g[i] = Then(frames, isDeaf, g, i)
    BY <1>1, <2>3
  <2>6. CASE i = 0
    <3>1. e = [sent |-> <<>>, err |-> FALSE]
      BY <2>4, <2>5, <2>6 DEF Then
    <3>2. a + i = a /\ a + i <= c
      BY <2>6
    <3>3. Came(f, a, a + i, c) = [sent |-> <<>>, err |-> FALSE]
      BY <3>2, NoAnswers DEF Came
    <3> QED
      BY <2>4, <3>1, <3>3
  <2>7. CASE i # 0
    <3>1. i - 1 \in Nat /\ i - 1 <= n /\ ~(i <= i - 1) /\ i \in 1..n
      BY <2>3, <2>7
    <3>2. \A d \in g[i - 1] : d = Came(f, a, a + (i - 1), c)
      <4>1. i - 1 \notin T
        BY <2>2, <3>1
      <4> QED
        BY <3>1, <4>1
    <3>3. PICK d \in g[i - 1] : e \in Handle(d, frames[i], isDeaf)
      <4>1. e \in UNION {Handle(d, frames[i], isDeaf) : d \in g[i - 1]}
        BY <2>4, <2>5, <2>7, Zenon DEF Then
      <4> QED
        BY ONLY <4>1
    <3>4. PICK b \in Nat : b = a + (i - 1)
      BY <3>1
    <3>5. b + 1 = a + i /\ a <= b /\ b + 1 \in 1..Len(f)
      BY <1>2, <3>1, <3>4
    <3>6. frames[i] = Token(f[b + 1]) /\ f[b + 1] \in Frames
      <4>1. frames[i] = Token(f[a + i])
        BY <3>1
      <4>2. f[b + 1] \in Frames
        BY <3>5, ElementOfSeq
      <4> QED
        BY <3>5, <4>1, <4>2
    <3>7. d = Came(f, a, b, c)
      BY <3>2, <3>3, <3>4
    <3>8. CASE b <= c
      <4>1. d = [sent |-> Answers(f, a, b), err |-> FALSE]
        BY <3>7, <3>8 DEF Came
      <4>2. d.sent = Answers(f, a, b) /\ d.err = FALSE
        BY ONLY <4>1
      <4>3. PICK x \in HandleFrame(Token(f[b + 1]), FALSE) :
              e = [sent |-> d.sent \o x.sent, err |-> x.err]
        BY <1>0, <3>3, <3>6, <4>2 DEF Handle
      <4>4. CASE b + 1 <= c
        <5>1. f[b + 1] # "broken"
          <6>1. b + 1 \in 1..c
            BY <1>2, <3>5, <4>4
          <6> QED
            BY <6>1 DEF Sound
        <5>2. x = [sent |-> <<AnswerTo(f[b + 1])>>, err |-> FALSE]
          BY <3>6, <4>3, <5>1, HandleFrameIs
        <5>3. x.sent = Answers(f, b, b + 1) /\ x.err = FALSE
          BY <5>2, OneAnswer
        <5>4. e = [sent |-> Answers(f, a, b + 1), err |-> FALSE]
          <6>1. b + 1 \in Nat /\ b <= b + 1
            OBVIOUS
          <6>2. Answers(f, a, b) \o Answers(f, b, b + 1) = Answers(f, a, b + 1)
            BY ONLY <3>5, <6>1, a \in Nat, b \in Nat, AnswersJoin
          <6> QED
            BY ONLY <4>2, <4>3, <5>3, <6>2, Zenon
        <5> QED
          BY <2>4, <3>5, <4>4, <5>4 DEF Came
      <4>5. CASE ~(b + 1 <= c)
        <5>1. b = c
          BY <1>2, <3>8, <4>5
        <5>2. f[b + 1] = "broken"
          <6>1. c # Len(f)
            BY <1>2, <3>5, <5>1
          <6> QED
            BY <5>1, <6>1 DEF Sound
        <5>3. x = [sent |-> <<>>, err |-> TRUE]
          BY <3>6, <4>3, <5>2, HandleFrameIs
        <5>4. x.sent = <<>> /\ x.err = TRUE
          BY ONLY <5>3
        <5>5. Answers(f, a, b) \o <<>> = Answers(f, a, b)
          <6>1. Answers(f, a, b) \in Seq(Replies)
            BY <3>5, AnswersAre
          <6> QED
            BY ONLY <6>1, ConcatEmptySeq
        <5>6. e = [sent |-> Answers(f, a, c), err |-> TRUE]
          BY <4>2, <4>3, <5>1, <5>4, <5>5
        <5> QED
          BY <2>4, <3>5, <4>5, <5>6 DEF Came
      <4> QED
        BY <4>4, <4>5
    <3>9. CASE ~(b <= c)
      <4>1. d = [sent |-> Answers(f, a, c), err |-> TRUE]
        BY <3>7, <3>9 DEF Came
      <4>2. d.err = TRUE
        BY ONLY <4>1
      <4>3. e = d
        BY <3>3, <4>2 DEF Handle
      <4>4. ~(b + 1 <= c)
        BY <1>2, <3>9
      <4> QED
        BY <2>4, <3>5, <4>1, <4>3, <4>4 DEF Came
    <3> QED
      BY <3>8, <3>9
  <2> QED
    BY <2>6, <2>7
<1>4. \A e \in g[n] : e = Came(f, a, a + n, c)
  <2>1. n \notin T
    BY <1>3
  <2> QED
    BY <2>1
<1> QED
  BY <1>0, <1>1, <1>4, Zenon

(* The tokens of a stream: the preface with the frames f after it, or, if  *)
(* it is not good, nothing that begins with the preface.                   *)
Stream(S, f, good) ==
  /\ S \in Seq(Tokens) /\ f \in Seq(Frames) /\ good \in BOOLEAN
  /\ good => /\ Len(S) = 6 + Len(f)
             /\ \A i \in 1..6 : S[i] = Preface[i]
             /\ \A i \in 1..Len(f) : S[6 + i] = Token(f[i])
  /\ ~good /\ S # <<>> => S[1].k # "pri"

(* The first i tokens of it have been fed, which sent what sent says.      *)
Fed(S, f, good, c, i, h2, sent) ==
  /\ i < 6 => h2 = [seen |-> FALSE, buf |-> SubSeq(S, 1, i)] /\ sent = <<>>
  /\ i >= 6 => /\ good /\ i - 6 <= c
               /\ h2 = [seen |-> TRUE, buf |-> <<>>]
               /\ sent = Answers(f, 0, i - 6)

(* What there is to be sent in the end.                                    *)
Due(f, good, c) == IF good THEN Answers(f, 0, c) ELSE <<>>

LEMMA PrefaceIs ==
  /\ Preface \in Seq(Tokens) /\ Len(Preface) = 6
  /\ Preface[1] = Token("pri") /\ Preface[2] = crlf /\ Preface[3] = crlf
  /\ Preface[4] = Token("sm") /\ Preface[5] = crlf /\ Preface[6] = crlf
<1>1. Token("pri") \in Tokens /\ Token("sm") \in Tokens /\ crlf \in Tokens
  BY TokenType, TokenKinds, CrlfType
<1>2. PICK x \in Tokens, y \in Tokens, z \in Tokens :
        x = Token("pri") /\ y = crlf /\ z = Token("sm")
  BY <1>1, Zenon
<1>3. PICK p : p = <<x, y, y, z, y, y>>
  OBVIOUS
<1>4. /\ p \in Seq(Tokens) /\ Len(p) = 6
      /\ p[1] = x /\ p[2] = y /\ p[3] = y /\ p[4] = z /\ p[5] = y /\ p[6] = y
  <2> HIDE DEF Tokens
  <2> QED
    BY ONLY <1>3, x \in Tokens, y \in Tokens, z \in Tokens
<1>5. Preface = p
  BY <1>2, <1>3, Zenon DEF Preface
<1> QED
  BY <1>2, <1>4, <1>5, Zenon

(* A prefix of a sequence.                                                 *)
LEMMA PrefixIs ==
  ASSUME NEW T, NEW q \in Seq(T), NEW n \in 0..Len(q), NEW p, p = SubSeq(q, 1, n)
  PROVE  /\ p \in Seq(T) /\ Len(p) = n /\ \A i \in 1..n : p[i] = q[i]
         /\ n = 0 => p = <<>>
<1>1. Len(q) \in Nat /\ n \in Nat /\ n <= Len(q)
  BY ONLY q \in Seq(T), n \in 0..Len(q)
<1>2. \A i \in 1..n : q[i] \in T
  BY ONLY <1>1, q \in Seq(T)
<1>3. /\ SubSeq(q, 1, n) \in Seq(T)
      /\ Len(SubSeq(q, 1, n)) = IF 1 <= n THEN n - 1 + 1 ELSE 0
      /\ \A i \in 1..n - 1 + 1 : SubSeq(q, 1, n)[i] = q[1 + i - 1]
  BY ONLY <1>1, <1>2, SubSeqProperties
<1>4. n - 1 + 1 = n /\ \A i \in 1..n : 1 + i - 1 = i
  BY ONLY <1>1
<1>5. Len(p) = n
  BY ONLY <1>1, <1>3, p = SubSeq(q, 1, n)
<1>6. ASSUME NEW i \in 1..n PROVE p[i] = q[i]
  BY ONLY <1>3, <1>4, i \in 1..n, p = SubSeq(q, 1, n)
<1>7. p \in Seq(T)
  BY ONLY <1>3, p = SubSeq(q, 1, n)
<1>8. n = 0 => p = <<>>
  BY ONLY <1>5, <1>7
<1> QED
  BY <1>5, <1>6, <1>7, <1>8

(* The part of a sequence after its first i elements, up to the j-th.      *)
LEMMA PartIs ==
  ASSUME NEW T, NEW q \in Seq(T), NEW j \in 0..Len(q), NEW i \in 0..j,
         NEW p, p = SubSeq(q, i + 1, j)
  PROVE  /\ p \in Seq(T) /\ Len(p) = j - i /\ \A x \in 1..(j - i) : p[x] = q[i + x]
         /\ SubSeq(q, 1, i) \o p = SubSeq(q, 1, j)
<1>1. Len(q) \in Nat /\ j \in Nat /\ i \in Nat /\ i <= j /\ j <= Len(q)
  BY ONLY q \in Seq(T), j \in 0..Len(q), i \in 0..j
<1>2. \A x \in (i + 1)..j : q[x] \in T
  BY ONLY <1>1, q \in Seq(T)
<1>3. /\ SubSeq(q, i + 1, j) \in Seq(T)
      /\ Len(SubSeq(q, i + 1, j)) = IF i + 1 <= j THEN j - (i + 1) + 1 ELSE 0
      /\ \A x \in 1..j - (i + 1) + 1 : SubSeq(q, i + 1, j)[x] = q[(i + 1) + x - 1]
  <2>1. i + 1 \in Int /\ j \in Int
    BY <1>1
  <2> QED
    BY ONLY <1>2, <2>1, SubSeqProperties
<1>4. j - (i + 1) + 1 = j - i /\ \A x \in 1..(j - i) : (i + 1) + x - 1 = i + x
  BY ONLY <1>1
<1>5. Len(p) = j - i
  BY ONLY <1>1, <1>3, <1>4, p = SubSeq(q, i + 1, j)
<1>6. ASSUME NEW x \in 1..(j - i) PROVE p[x] = q[i + x]
  BY ONLY <1>3, <1>4, x \in 1..(j - i), p = SubSeq(q, i + 1, j)
<1>7. p \in Seq(T)
  BY ONLY <1>3, p = SubSeq(q, i + 1, j)
<1>8. SubSeq(q, 1, i) \o p = SubSeq(q, 1, j)
  <2>1. 1 \in 1..Len(q) + 1 /\ i \in (1 - 1)..Len(q) /\ j \in i..Len(q)
    BY ONLY <1>1
  <2> QED
    BY ONLY <2>1, q \in Seq(T), p = SubSeq(q, i + 1, j), ConcatAdjacentSubSeq
<1> QED
  BY <1>5, <1>6, <1>7, <1>8

(* Does a buffer begin with the preface?                                   *)
LEMMA HasPrefaceIs ==
  ASSUME NEW buf \in Seq(Tokens)
  PROVE  /\ IsPrefix(Preface, buf) <=> Len(buf) >= 6 /\ \A i \in 1..6 : buf[i] = Preface[i]
         /\ IsPrefix(Preface, buf) => buf[1].k = "pri"
<1>1. Preface \in Seq(Tokens) /\ Len(Preface) = 6
  BY PrefaceIs
<1>2. Len(buf) \in Nat
  OBVIOUS
<1>3. SubSeq(Preface, 1, 6) = Preface
  BY <1>1, SubSeqFull
<1>4. CASE Len(buf) >= 6
  <2>1. PICK p : p = SubSeq(buf, 1, 6)
    OBVIOUS
  <2>2. 6 \in 0..Len(buf)
    BY <1>2, <1>4
  <2>3. p \in Seq(Tokens) /\ Len(p) = 6 /\ \A i \in 1..6 : p[i] = buf[i]
    BY ONLY <2>1, <2>2, buf \in Seq(Tokens), PrefixIs
  <2>4. Preface = p <=> \A i \in 1..6 : buf[i] = Preface[i]
    <3>1. ASSUME \A i \in 1..6 : buf[i] = Preface[i] PROVE Preface = p
      <4>1. \A i \in 1..Len(p) : p[i] = Preface[i]
        BY <2>3, <3>1
      <4>2. Len(p) = Len(Preface)
        BY <1>1, <2>3
      <4> QED
        BY ONLY <1>1, <2>3, <4>1, <4>2, SeqEqual
    <3>2. ASSUME Preface = p PROVE \A i \in 1..6 : buf[i] = Preface[i]
      BY <2>3, <3>2
    <3> QED
      BY <3>1, <3>2
  <2>5. IsPrefix(Preface, buf) <=> \A i \in 1..6 : buf[i] = Preface[i]
    <3>1. IsPrefix(Preface, buf) <=> 6 <= Len(buf) /\ Preface = p
      BY ONLY <1>1, <1>3, <2>1 DEF IsPrefix
    <3> QED
      BY <1>4, <1>2, <2>4, <3>1
  <2>6. (\A i \in 1..6 : buf[i] = Preface[i]) => buf[1].k = "pri"
    <3>1. 1 \in 1..6
      OBVIOUS
    <3> QED
      BY <3>1, PrefaceIs DEF Token
  <2> QED
    BY <1>4, <2>5, <2>6
<1>5. CASE ~(Len(buf) >= 6)
  BY <1>1, <1>2, <1>5 DEF IsPrefix
<1> QED
  BY <1>4, <1>5

(* Another piece of the stream, up to token j: all that is due has been    *)
(* sent if this is the end, and the stream goes on otherwise.              *)
LEMMA FeedStep ==
  ASSUME NEW S, NEW f, NEW good, Stream(S, f, good), NEW c, Sound(f, c),
         NEW j \in 0..Len(S), NEW i \in 0..j, NEW h2, NEW sent,
         Fed(S, f, good, c, i, h2, sent),
         NEW data, data = SubSeq(S, i + 1, j), NEW r \in Feed(h2, data, FALSE)
  PROVE  /\ r.err => sent \o r.sent = Due(f, good, c)
         /\ ~r.err => Fed(S, f, good, c, j, r.h2, sent \o r.sent)
<1>0. /\ S \in Seq(Tokens) /\ f \in Seq(Frames) /\ good \in BOOLEAN
      /\ Len(S) \in Nat /\ Len(f) \in Nat /\ i \in Nat /\ j \in Nat /\ i <= j /\ j <= Len(S)
      /\ c \in Nat /\ c <= Len(f)
  <2>1. S \in Seq(Tokens) /\ f \in Seq(Frames) /\ good \in BOOLEAN
    BY DEF Stream
  <2>2. Len(S) \in Nat /\ Len(f) \in Nat
    BY <2>1
  <2>3. c \in 0..Len(f)
    BY DEF Sound
  <2> QED
    BY <2>1, <2>2, <2>3
<1>1. Len(Preface) = 6
  BY PrefaceIs
<1>2. /\ data \in Seq(Tokens) /\ Len(data) = j - i
      /\ \A x \in 1..(j - i) : data[x] = S[i + x]
      /\ SubSeq(S, 1, i) \o data = SubSeq(S, 1, j)
  BY ONLY <1>0, data = SubSeq(S, i + 1, j), j \in 0..Len(S), i \in 0..j, PartIs
<1>3. CASE i < 6
  <2>1. h2 = [seen |-> FALSE, buf |-> SubSeq(S, 1, i)] /\ sent = <<>>
    BY <1>3 DEF Fed
  <2>2. h2.seen = FALSE /\ h2.buf = SubSeq(S, 1, i)
    BY ONLY <2>1
  <2>3. PICK buf : buf = SubSeq(S, 1, j)
    OBVIOUS
  <2>4. h2.buf \o data = buf
    BY <1>2, <2>2, <2>3
  <2>5. buf \in Seq(Tokens) /\ Len(buf) = j /\ \A x \in 1..j : buf[x] = S[x]
    BY ONLY <1>0, <2>3, j \in 0..Len(S), PrefixIs
  <2>6. CASE j < 6
    <3>0. PICK isDeaf, p : /\ isDeaf = FALSE /\ p = Len(Preface)
                           /\ ~h2.seen /\ Len(buf) < p
      BY <1>1, <2>2, <2>5, <2>6
    <3>1. r \in Feed(h2, data, isDeaf)
      BY <3>0
    <3>2. r = [h2 |-> [seen |-> FALSE, buf |-> buf], sent |-> <<>>, err |-> FALSE]
      BY ONLY <2>4, <3>0, <3>1 DEF Feed
    <3>3. r.h2 = [seen |-> FALSE, buf |-> buf] /\ r.sent = <<>> /\ r.err = FALSE
      BY ONLY <3>2
    <3>4. sent \o r.sent = <<>>
      BY <2>1, <3>3
    <3>5. ~(j >= 6)
      BY <1>0, <2>6
    <3> QED
      BY <2>3, <2>6, <3>3, <3>4, <3>5 DEF Fed
  <2>7. CASE ~(j < 6) /\ ~good
    <3>1. Len(buf) >= 6 /\ ~(Len(buf) < 6) /\ 1 \in 1..j
      BY <1>0, <2>5, <2>7
    <3>2. S # <<>>
      BY <1>0, <2>7
    <3>3. S[1].k # "pri"
      BY <2>7, <3>2 DEF Stream
    <3>4. ~IsPrefix(Preface, buf)
      BY <2>5, <3>1, <3>3, HasPrefaceIs
    <3>5. r = [h2 |-> h2, sent |-> <<>>, err |-> TRUE]
      BY <1>1, <2>2, <2>4, <3>1, <3>4 DEF Feed
    <3>6. r.sent = <<>> /\ r.err = TRUE
      BY ONLY <3>5
    <3> QED
      BY <2>1, <2>7, <3>6 DEF Due
  <2>8. CASE ~(j < 6) /\ good
    <3>1. Len(buf) >= 6 /\ ~(Len(buf) < 6)
      BY <1>0, <2>5, <2>8
    <3>2. IsPrefix(Preface, buf)
      <4>1. \A x \in 1..6 : S[x] = Preface[x] /\ x \in 1..j
        BY <1>0, <2>8 DEF Stream
      <4> QED
        BY <2>5, <3>1, <4>1, HasPrefaceIs
    <3>3. PICK fr : fr = SubSeq(buf, 6 + 1, Len(buf))
      OBVIOUS
    <3>4. PICK o \in HandleAll(fr, FALSE) :
            r = [h2 |-> [seen |-> TRUE, buf |-> <<>>], sent |-> o.sent, err |-> o.err]
      BY <1>1, <2>2, <2>4, <3>1, <3>2, <3>3 DEF Feed
    <3>5. PICK n \in Nat : n = j - 6 /\ 0 + n = n /\ n <= Len(f)
      <4>1. Len(S) = 6 + Len(f)
        BY <2>8 DEF Stream
      <4> QED
        BY <1>0, <2>8, <4>1
    <3>6. Len(fr) = n /\ \A x \in 1..n : fr[x] = buf[6 + x]
      <4>1. 6 \in 0..j /\ j \in 0..Len(buf)
        BY <1>0, <2>5, <2>8
      <4>2. fr = SubSeq(buf, 6 + 1, j)
        BY <2>5, <3>3
      <4>3. Len(fr) = j - 6 /\ \A x \in 1..(j - 6) : fr[x] = buf[6 + x]
        BY ONLY <2>5, <4>1, <4>2, PartIs
      <4> QED
        BY <3>5, <4>3
    <3>7. ASSUME NEW x \in 1..n PROVE fr[x] = Token(f[0 + x])
      <4>1. 6 + x \in 1..j /\ x \in 1..Len(f) /\ 0 + x = x
        BY <1>0, <3>5
      <4>2. buf[6 + x] = S[6 + x]
        BY <2>5, <4>1
      <4>3. S[6 + x] = Token(f[x])
        BY <2>8, <4>1 DEF Stream
      <4> QED
        BY <3>6, <4>1, <4>2, <4>3
    <3>8. o = Came(f, 0, 0 + n, c)
      <4>1. 0 <= c /\ 0 + n <= Len(f) /\ 0 \in Nat
        BY <1>0, <3>5
      <4> QED
        BY <1>0, <3>6, <3>7, <4>1, HandleAllIs
    <3>9. r.h2 = [seen |-> TRUE, buf |-> <<>>] /\ r.sent = o.sent /\ r.err = o.err
      BY ONLY <3>4
    <3>10. CASE n <= c
      <4>1. o = [sent |-> Answers(f, 0, n), err |-> FALSE]
        BY <3>5, <3>8, <3>10 DEF Came
      <4>2. o.sent = Answers(f, 0, n) /\ o.err = FALSE
        BY ONLY <4>1
      <4>3. sent \o r.sent = Answers(f, 0, j - 6)
        <5>0. 0 \in Nat /\ 0 <= n
          BY <3>5
        <5>1. Answers(f, 0, n) \in Seq(Replies)
          BY ONLY <5>0, n \in Nat, AnswersAre
        <5>2. <<>> \o Answers(f, 0, n) = Answers(f, 0, n)
          BY ONLY <5>1, ConcatEmptySeq
        <5> QED
          BY <2>1, <3>5, <3>9, <4>2, <5>2
      <4> QED
        BY <2>8, <3>5, <3>9, <3>10, <4>2, <4>3 DEF Fed
    <3>11. CASE ~(n <= c)
      <4>1. o = [sent |-> Answers(f, 0, c), err |-> TRUE]
        BY <3>5, <3>8, <3>11 DEF Came
      <4>2. o.sent = Answers(f, 0, c) /\ o.err = TRUE
        BY ONLY <4>1
      <4>3. sent \o r.sent = Answers(f, 0, c)
        <5>0. 0 \in Nat /\ 0 <= c /\ c \in Nat
          BY <1>0
        <5>1. Answers(f, 0, c) \in Seq(Replies)
          BY ONLY <5>0, AnswersAre
        <5>2. <<>> \o Answers(f, 0, c) = Answers(f, 0, c)
          BY ONLY <5>1, ConcatEmptySeq
        <5> QED
          BY <2>1, <3>9, <4>2, <5>2
      <4> QED
        BY <2>8, <3>9, <4>2, <4>3 DEF Due
    <3> QED
      BY <3>10, <3>11
  <2> QED
    BY <1>0, <2>6, <2>7, <2>8
<1>4. CASE ~(i < 6)
  <2>1. /\ i >= 6 /\ good /\ i - 6 <= c
        /\ h2 = [seen |-> TRUE, buf |-> <<>>]
        /\ sent = Answers(f, 0, i - 6)
    BY <1>0, <1>4 DEF Fed
  <2>2. h2.seen = TRUE /\ h2.buf = <<>>
    BY ONLY <2>1
  <2>3. h2.buf \o data = data
    BY <1>2, <2>2, ConcatEmptySeq
  <2>4. PICK o \in HandleAll(data, FALSE) :
          r = [h2 |-> [seen |-> TRUE, buf |-> <<>>], sent |-> o.sent, err |-> o.err]
    BY <1>1, <2>2, <2>3 DEF Feed
  <2>5. PICK a \in Nat, n \in Nat : a = i - 6 /\ n = j - i
    BY <1>0, <2>1
  <2>6. a <= c /\ a + n <= Len(f) /\ a + n = j - 6 /\ j >= 6
    <3>1. Len(S) = 6 + Len(f)
      BY <2>1 DEF Stream
    <3> QED
      BY <1>0, <2>1, <2>5, <3>1
  <2>7. ASSUME NEW x \in 1..n PROVE data[x] = Token(f[a + x])
    <3>1. a + x \in 1..Len(f) /\ 6 + (a + x) = i + x /\ x \in 1..(j - i)
      BY <1>0, <2>5, <2>6
    <3>2. S[6 + (a + x)] = Token(f[a + x])
      BY <2>1, <3>1 DEF Stream
    <3> QED
      BY <1>2, <3>1, <3>2
  <2>8. o = Came(f, a, a + n, c)
    <3>1. n = Len(data) /\ f \in Seq(Frames) /\ a <= c /\ a + n <= Len(f)
      BY <1>0, <1>2, <2>5, <2>6
    <3>2. \A x \in 1..n : data[x] = Token(f[a + x])
      BY <2>7
    <3>3. o \in HandleAll(data, FALSE)
      BY <2>4
    <3> QED
      BY ONLY <3>1, <3>2, <3>3, a \in Nat, n \in Nat, Sound(f, c), HandleAllIs
  <2>9. r.h2 = [seen |-> TRUE, buf |-> <<>>] /\ r.sent = o.sent /\ r.err = o.err
    BY ONLY <2>4
  <2>10. CASE a + n <= c
    <3>1. o = [sent |-> Answers(f, a, a + n), err |-> FALSE]
      BY <2>8, <2>10 DEF Came
    <3>2. o.sent = Answers(f, a, a + n) /\ o.err = FALSE
      BY ONLY <3>1
    <3>3. Answers(f, 0, a) \o Answers(f, a, a + n) = Answers(f, 0, a + n)
      <4>1. 0 \in Nat /\ a + n \in Nat /\ 0 <= a /\ a <= a + n
        BY <2>5
      <4> QED
        BY ONLY <4>1, a \in Nat, AnswersJoin
    <3>4. sent \o r.sent = Answers(f, 0, j - 6)
      BY <2>1, <2>5, <2>6, <2>9, <3>2, <3>3
    <3>5. ~(j < 6) /\ j - 6 <= c
      BY <1>0, <2>6, <2>10
    <3> QED
      BY ONLY <2>1, <2>6, <2>9, <3>2, <3>4, <3>5 DEF Fed
  <2>11. CASE ~(a + n <= c)
    <3>1. o = [sent |-> Answers(f, a, c), err |-> TRUE]
      BY <2>8, <2>11 DEF Came
    <3>2. o.sent = Answers(f, a, c) /\ o.err = TRUE
      BY ONLY <3>1
    <3>3. Answers(f, 0, a) \o Answers(f, a, c) = Answers(f, 0, c)
      <4>1. 0 \in Nat /\ 0 <= a
        BY <2>5
      <4> QED
        BY ONLY <1>0, <2>6, <4>1, a \in Nat, AnswersJoin, ZenonT(30)
    <3>4. sent \o r.sent = Answers(f, 0, c)
      BY <2>1, <2>5, <2>9, <3>2, <3>3
    <3> QED
      BY <2>1, <2>9, <3>2, <3>4 DEF Due
  <2> QED
    BY <2>10, <2>11
<1> QED
  BY <1>3, <1>4

(* What a stream has had sent is a beginning of what is due, and all of it *)
(* once the stream has been fed to its end.                                *)
LEMMA FedIsDue ==
  ASSUME NEW S, NEW f, NEW good, Stream(S, f, good), NEW c, Sound(f, c),
         NEW i \in 0..Len(S), NEW h2, NEW sent, Fed(S, f, good, c, i, h2, sent)
  PROVE  /\ sent \in Seq(Replies) /\ Due(f, good, c) \in Seq(Replies)
         /\ Len(sent) <= Len(Due(f, good, c))
         /\ \A x \in 1..Len(sent) : sent[x] = Due(f, good, c)[x]
         /\ i = Len(S) => sent = Due(f, good, c)
<1>0. /\ S \in Seq(Tokens) /\ f \in Seq(Frames) /\ good \in BOOLEAN
      /\ Len(S) \in Nat /\ Len(f) \in Nat /\ i \in Nat /\ i <= Len(S)
      /\ c \in Nat /\ c <= Len(f)
  <2>1. S \in Seq(Tokens) /\ f \in Seq(Frames) /\ good \in BOOLEAN
    BY DEF Stream
  <2>2. Len(S) \in Nat /\ Len(f) \in Nat
    BY <2>1
  <2>3. c \in 0..Len(f)
    BY DEF Sound
  <2> QED
    BY <2>1, <2>2, <2>3
<1>1. PICK d : d = Due(f, good, c)
  OBVIOUS
<1>2. /\ d \in Seq(Replies) /\ Len(d) = IF good THEN c ELSE 0
      /\ good => d = Answers(f, 0, c)
      /\ ~good => d = <<>>
      /\ good => \A x \in 1..c : d[x] = AnswerTo(f[0 + x])
  <2>1. CASE good
    <3>1. c - 0 = c /\ 0 <= c /\ 0 \in Nat
      BY <1>0
    <3>2. d = Answers(f, 0, c)
      BY <1>1, <2>1 DEF Due
    <3>3. /\ Answers(f, 0, c) \in Seq(Replies) /\ Len(Answers(f, 0, c)) = c - 0
          /\ \A x \in 1..(c - 0) : Answers(f, 0, c)[x] = AnswerTo(f[0 + x])
      BY ONLY <1>0, <3>1, AnswersAre
    <3> QED
      BY <2>1, <3>1, <3>2, <3>3, Zenon
  <2>2. CASE ~good
    <3>1. d = <<>> /\ <<>> \in Seq(Replies)
      BY <1>1, <2>2 DEF Due
    <3> QED
      BY <1>0, <2>2, <3>1
  <2> QED
    BY <1>0, <2>1, <2>2
<1>3. CASE i < 6
  <2>1. sent = <<>>
    BY <1>3 DEF Fed
  <2>2. i = Len(S) => ~good
    BY <1>0, <1>3 DEF Stream
  <2>3. sent \in Seq(Replies) /\ Len(sent) = 0
    BY <2>1
  <2>4. Len(d) \in Nat
    BY <1>2
  <2>5. 0 <= Len(d)
    BY <2>4
  <2> QED
    BY <1>1, <1>2, <2>1, <2>2, <2>3, <2>5
<1>4. CASE ~(i < 6)
  <2>1. good /\ i - 6 <= c /\ sent = Answers(f, 0, i - 6) /\ i >= 6
    BY <1>0, <1>4 DEF Fed
  <2>2. PICK n \in Nat : n = i - 6 /\ n - 0 = n /\ 0 <= n /\ n <= c
    BY <1>0, <2>1
  <2>3. /\ sent \in Seq(Replies) /\ Len(sent) = n
        /\ \A x \in 1..n : sent[x] = AnswerTo(f[0 + x])
    <3>1. sent = Answers(f, 0, n) /\ 0 \in Nat
      BY <2>1, <2>2
    <3>2. 0 \in Nat /\ 0 <= n /\ n - 0 = n
      BY <2>2
    <3>3. /\ Answers(f, 0, n) \in Seq(Replies) /\ Len(Answers(f, 0, n)) = n - 0
          /\ \A x \in 1..(n - 0) : Answers(f, 0, n)[x] = AnswerTo(f[0 + x])
      BY ONLY <3>2, n \in Nat, AnswersAre
    <3> QED
      BY <3>1, <3>2, <3>3, Zenon
  <2>4. i = Len(S) => n = c
    <3>1. Len(S) = 6 + Len(f)
      BY <2>1 DEF Stream
    <3> QED
      BY <1>0, <2>2, <3>1
  <2>5. n = c => sent = d
    BY <1>2, <2>1, <2>2
  <2>6. \A x \in 1..n : x \in 1..c
    BY <1>0, <2>2
  <2> QED
    BY <1>1, <1>2, <2>1, <2>2, <2>3, <2>4, <2>5, <2>6
<1> QED
  BY <1>3, <1>4

--------------------------------------------------------------------------------
(***************************************************************************)
(* The parts of a talk                                                     *)
(***************************************************************************)

(* c is a of length m and then b of length n.                              *)
Joined(T, a, b, c, m, n) ==
  /\ m \in Nat /\ n \in Nat /\ c \in Seq(T) /\ Len(c) = m + n
  /\ \A i \in 1..m : c[i] = a[i]
  /\ \A i \in 1..n : c[m + i] = b[i]

LEMMA JoinIs ==
  ASSUME NEW T, NEW a \in Seq(T), NEW b \in Seq(T), NEW m, m = Len(a), NEW n, n = Len(b),
         NEW c, c = a \o b
  PROVE  Joined(T, a, b, c, m, n)
<1>1. m \in Nat /\ n \in Nat
  BY ONLY a \in Seq(T), b \in Seq(T), m = Len(a), n = Len(b)
<1>2. /\ c \in Seq(T) /\ Len(c) = m + n
      /\ \A i \in 1..m + n : c[i] = IF i <= m THEN a[i] ELSE b[i - m]
  BY ConcatProperties
<1>3. ASSUME NEW i \in 1..m PROVE c[i] = a[i]
  <2>1. i \in 1..m + n /\ i <= m
    BY <1>1
  <2> QED
    BY <1>2, <2>1
<1>4. ASSUME NEW i \in 1..n PROVE c[m + i] = b[i]
  <2>1. m + i \in 1..m + n /\ ~(m + i <= m) /\ (m + i) - m = i
    BY <1>1
  <2> QED
    BY <1>2, <2>1
<1> QED
  BY <1>1, <1>2, <1>3, <1>4 DEF Joined

TalkParts(t) ==
  /\ t.line \in {"request", "short", "none"}
  /\ t.headers \in Seq([k : HeaderKinds, v : Seq(0..10)])
  /\ t.body \in Nat
  /\ t.h2 \in BOOLEAN
  /\ t.frames \in Seq(Frames)

LEMMA TalkIs == \A t \in Talks : TalkParts(t)
BY DispatchAssumption, Zenon DEF TalkParts

(* The head: the request line on place 1, header lines on the other odd    *)
(* places, line ends on the even ones and one more.                        *)
IsHead(B, t, m) ==
  /\ m \in Nat
  /\ B[1] = Token(t.line) /\ B[2] = crlf /\ B[2 * m + 3] = crlf
  /\ \A j \in 1..m : /\ B[2 * j + 1] = t.headers[j] /\ B[2 * j + 2] = crlf
                     /\ t.headers[j].k \in HeaderKinds

LEMMA HeadIs ==
  ASSUME NEW t \in Talks, t.line # "none", NEW m, m = Len(t.headers)
  PROVE  /\ HeadOf(t) \in Seq(Tokens) /\ Len(HeadOf(t)) = 2 * m + 3
         /\ IsHead(HeadOf(t), t, m)
<1>1. /\ t.line \in {"request", "short", "none"}
      /\ t.headers \in Seq([k : HeaderKinds, v : Seq(0..10)])
  BY TalkIs DEF TalkParts
<1>2. Token(t.line) \in Tokens /\ crlf \in Tokens
  BY <1>1, TokenType, TokenKinds, CrlfType
<1>3. PICK x \in Tokens, c \in Tokens : x = Token(t.line) /\ c = crlf
  BY <1>2, Zenon
<1>4. PICK l : l = Lines(t.headers)
  OBVIOUS
<1>5. /\ m \in Nat /\ l \in Seq(Tokens) /\ Len(l) = 2 * m
      /\ \A j \in 1..m : /\ l[2 * j - 1] = t.headers[j] /\ l[2 * j] = c
                         /\ t.headers[j].k \in HeaderKinds
  BY <1>1, <1>3, <1>4, LinesAre
<1>6. PICK a, b : a = <<x, c>> /\ b = <<c>>
  OBVIOUS
<1>7. /\ a \in Seq(Tokens) /\ Len(a) = 2 /\ a[1] = x /\ a[2] = c
      /\ b \in Seq(Tokens) /\ Len(b) = 1 /\ b[1] = c
  <2> HIDE DEF Tokens
  <2> QED
    BY ONLY <1>6, x \in Tokens, c \in Tokens
<1>8. PICK d : d = a \o l
  OBVIOUS
<1>9. /\ d \in Seq(Tokens) /\ Len(d) = 2 + 2 * m
      /\ \A i \in 1..2 : d[i] = a[i]
      /\ \A i \in 1..2 * m : d[2 + i] = l[i]
  <2>1. 2 * m = Len(l) /\ 2 = Len(a)
    BY <1>5, <1>7
  <2>2. Joined(Tokens, a, l, d, 2, 2 * m)
    BY <1>5, <1>7, <1>8, <2>1, JoinIs, Zenon
  <2> QED
    BY ONLY <2>2 DEF Joined
<1>10. PICK e : e = d \o b
  OBVIOUS
<1>11. PICK n \in Nat : n = 2 + 2 * m
  BY <1>5
<1>12. /\ e \in Seq(Tokens) /\ Len(e) = n + 1
       /\ \A i \in 1..n : e[i] = d[i]
       /\ \A i \in 1..1 : e[n + i] = b[i]
  <2>1. n = Len(d) /\ 1 = Len(b)
    BY <1>7, <1>9, <1>11
  <2>2. Joined(Tokens, d, b, e, n, 1)
    BY <1>7, <1>9, <1>10, <2>1, JoinIs, Zenon
  <2> QED
    BY ONLY <2>2 DEF Joined
<1>13. HeadOf(t) = e
  BY <1>3, <1>4, <1>6, <1>8, <1>10 DEF HeadOf
<1>14. e[1] = x /\ e[2] = c /\ e[2 * m + 3] = c /\ Len(e) = 2 * m + 3
  <2>1. 1 \in 1..n /\ 2 \in 1..n /\ n + 1 = 2 * m + 3 /\ 1 \in 1..1
    BY <1>5, <1>11
  <2> QED
    BY <1>7, <1>9, <1>12, <2>1
<1>15. ASSUME NEW j \in 1..m PROVE e[2 * j + 1] = t.headers[j] /\ e[2 * j + 2] = c
  <2>1. /\ 2 * j - 1 \in 1..2 * m /\ 2 + (2 * j - 1) = 2 * j + 1 /\ 2 * j + 1 \in 1..n
        /\ 2 * j \in 1..2 * m /\ 2 + 2 * j = 2 * j + 2 /\ 2 * j + 2 \in 1..n
    BY <1>5, <1>11
  <2>2. d[2 * j + 1] = l[2 * j - 1] /\ d[2 * j + 2] = l[2 * j]
    BY <1>9, <2>1
  <2> QED
    BY <1>5, <1>12, <2>1, <2>2
<1> QED
  BY <1>3, <1>5, <1>12, <1>13, <1>14, <1>15 DEF IsHead

(* What comes after the head.                                              *)
Tail3(t) == [i \in 1..t.body |-> Token("b")] \o
            ((IF t.h2 THEN Preface ELSE <<>>) \o [i \in DOMAIN t.frames |-> Token(t.frames[i])])
Good(t) == t.h2 /\ t.body = 0

LEMMA TailIs ==
  ASSUME NEW t \in Talks
  PROVE  /\ Stream(Tail3(t), t.frames, Good(t))
         /\ \A i \in 1..Len(Tail3(t)) : Tail3(t)[i].k \notin HeaderKinds
         /\ ~Good(t) /\ Tail3(t) # <<>> => Tail3(t)[1].k \notin {"request", "short", "pri"}
         /\ Bytes(t) = HeadOf(t) \o Tail3(t)
<1>1. t.body \in Nat /\ t.h2 \in BOOLEAN /\ t.frames \in Seq(Frames)
  BY TalkIs DEF TalkParts
<1>2. PICK n \in Nat : n = t.body
  BY <1>1
<1>3. PICK f \in Seq(Frames) : f = t.frames
  BY <1>1
<1>4. PICK m \in Nat : m = Len(f) /\ DOMAIN f = 1..m
  OBVIOUS
<1>5. PICK b \in Tokens : b = Token("b") /\ b.k = "b"
  <2>1. Token("b") \in Tokens
    BY TokenType, TokenKinds
  <2>2. Token("b").k = "b"
    BY DEF Token
  <2> QED
    BY <2>1, <2>2, Zenon
<1>6. PICK x : x = [i \in 1..n |-> b]
  OBVIOUS
<1>7. x \in Seq(Tokens) /\ Len(x) = n /\ \A i \in 1..n : x[i] = b
  <2> HIDE DEF Tokens
  <2> QED
    BY ONLY <1>6, b \in Tokens, n \in Nat
<1>8. PICK y : y = IF t.h2 THEN Preface ELSE <<>>
  OBVIOUS
<1>9. y \in Seq(Tokens) /\ Len(y) = IF t.h2 THEN 6 ELSE 0
  <2>1. Len(<<>>) = 0
    OBVIOUS
  <2>2. CASE t.h2
    BY <1>8, <2>2, PrefaceIs, Zenon
  <2>3. CASE ~t.h2
    <3>1. y = <<>>
      BY <1>8, <2>3
    <3>2. y \in Seq(Tokens) /\ Len(y) = 0
      BY <2>1, <3>1, EmptyTokens, Zenon
    <3> QED
      BY <2>3, <3>2
  <2> QED
    BY <2>2, <2>3
<1>10. \A i \in 1..m : f[i] \in Frames /\ Token(f[i]) \in Tokens /\ Token(f[i]).k \in Frames
  <2>1. \A i \in 1..m : f[i] \in Frames
    BY <1>4
  <2> QED
    BY <2>1, TokenKinds, TokenType DEF Token
<1>11. PICK z : z = [i \in 1..m |-> Token(f[i])]
  OBVIOUS
<1>12. z \in Seq(Tokens) /\ Len(z) = m /\ \A i \in 1..m : z[i] = Token(f[i])
  <2> HIDE DEF Tokens
  <2>1. z \in [1..m -> Tokens]
    BY <1>10, <1>11
  <2> QED
    BY ONLY <1>11, <2>1, m \in Nat
<1>13. PICK q \in Nat : q = IF t.h2 THEN 6 ELSE 0
  BY <1>1
<1>14. PICK w : w = y \o z
  OBVIOUS
<1>15. /\ w \in Seq(Tokens) /\ Len(w) = q + m
       /\ \A i \in 1..q : w[i] = y[i]
       /\ \A i \in 1..m : w[q + i] = z[i]
  <2>1. q = Len(y) /\ m = Len(z)
    BY <1>9, <1>12, <1>13
  <2>2. Joined(Tokens, y, z, w, q, m)
    BY <1>9, <1>12, <1>14, <2>1, JoinIs, Zenon
  <2> QED
    BY ONLY <2>2 DEF Joined
<1>16. PICK e : e = x \o w
  OBVIOUS
<1>17. PICK r \in Nat : r = q + m
  OBVIOUS
<1>18. /\ e \in Seq(Tokens) /\ Len(e) = n + r
       /\ \A i \in 1..n : e[i] = x[i]
       /\ \A i \in 1..r : e[n + i] = w[i]
  <2>1. n = Len(x) /\ r = Len(w)
    BY <1>7, <1>15, <1>17
  <2>2. Joined(Tokens, x, w, e, n, r)
    BY <1>7, <1>15, <1>16, <2>1, JoinIs, Zenon
  <2> QED
    BY ONLY <2>2 DEF Joined
<1>19. Tail3(t) = e
  BY <1>2, <1>3, <1>4, <1>5, <1>6, <1>8, <1>11, <1>14, <1>16 DEF Tail3
<1>20. Bytes(t) = HeadOf(t) \o e
  <2>1. PICK h \in Seq(Tokens) : h = HeadOf(t)
    <3>1. CASE t.line = "none"
      BY <3>1, EmptyTokens DEF HeadOf
    <3>2. CASE t.line # "none"
      BY <3>2, HeadIs
    <3> QED
      BY <3>1, <3>2
  <2>2. Bytes(t) = ((h \o x) \o y) \o z
    BY <1>2, <1>3, <1>4, <1>5, <1>6, <1>8, <1>11, <2>1 DEF Bytes
  <2>3. IsSeq(h) /\ IsSeq(x) /\ IsSeq(y) /\ IsSeq(z) /\ IsSeq(w)
    BY <1>7, <1>9, <1>12, <1>15, Zenon DEF IsSeq
  <2>4. PICK a : a = h \o x
    OBVIOUS
  <2>5. IsSeq(a)
    BY ONLY <2>3, <2>4, ConcatIsSeq
  <2>6. (a \o y) \o z = a \o (y \o z)
    BY ONLY <2>3, <2>5, ThreeJoined, SMTT(20)
  <2>7. (h \o x) \o w = h \o (x \o w)
    BY ONLY <2>3, ThreeJoined, SMTT(20)
  <2> QED
    BY <1>14, <1>16, <2>1, <2>2, <2>4, <2>6, <2>7, Zenon
<1>21. ASSUME NEW i \in 1..Len(e)
       PROVE  e[i].k \notin HeaderKinds /\ e[i].k \notin {"request", "short"}
  <2>1. CASE i <= n
    <3>1. e[i] = b
      BY <1>7, <1>18, <2>1
    <3> QED
      BY <1>5, <3>1 DEF HeaderKinds
  <2>2. CASE ~(i <= n) /\ i - n <= q
    <3>1. i - n \in 1..q /\ i - n \in 1..r /\ n + (i - n) = i /\ t.h2 /\ i - n \in 1..6
      BY <1>13, <1>17, <1>18, <2>2
    <3>2. e[i] = Preface[i - n]
      BY <1>8, <1>15, <1>18, <3>1
    <3>3. Preface[i - n].k \in {"pri", "sm", "crlf"}
      <4>1. \A a \in {1, 2, 3, 4, 5, 6} : Preface[a].k \in {"pri", "sm", "crlf"}
        BY PrefaceIs DEF Token, crlf
      <4>2. i - n \in {1, 2, 3, 4, 5, 6}
        BY <3>1
      <4> QED
        BY <4>1, <4>2, Zenon
    <3> QED
      BY <3>2, <3>3 DEF HeaderKinds
  <2>3. CASE ~(i <= n) /\ ~(i - n <= q)
    <3>1. i - n - q \in 1..m /\ q + (i - n - q) \in 1..r /\ n + (q + (i - n - q)) = i
      BY <1>17, <1>18, <2>3
    <3>2. e[i] = Token(f[i - n - q])
      BY <1>12, <1>15, <1>18, <3>1
    <3>3. e[i].k \in Frames
      BY <1>10, <3>1, <3>2
    <3> QED
      BY <3>3 DEF HeaderKinds, Frames
  <2> QED
    BY <2>1, <2>2, <2>3
<1>22. ASSUME ~Good(t), e # <<>> PROVE e[1].k # "pri"
  <2>1. Len(e) # 0
    BY <1>18, <1>22, EmptySeq
  <2>2. CASE n # 0
    <3>1. 1 \in 1..n
      BY <2>2
    <3> QED
      BY <1>5, <1>7, <1>18, <3>1
  <2>3. CASE n = 0
    <3>1. q = 0 /\ r = m /\ 1 \in 1..m /\ n + 1 = 1 /\ q + 1 = 1
      BY <1>1, <1>2, <1>13, <1>17, <1>18, <1>22, <2>1, <2>3 DEF Good
    <3>2. e[1] = Token(f[1])
      BY <1>12, <1>15, <1>18, <3>1
    <3> QED
      BY <1>10, <3>1, <3>2 DEF Frames
  <2> QED
    BY <2>2, <2>3
<1>23. Good(t) => /\ Len(e) = 6 + Len(f)
                  /\ \A i \in 1..6 : e[i] = Preface[i]
                  /\ \A i \in 1..Len(f) : e[6 + i] = Token(f[i])
  <2>1. SUFFICES ASSUME Good(t)
                 PROVE  /\ Len(e) = 6 + Len(f)
                        /\ \A i \in 1..6 : e[i] = Preface[i]
                        /\ \A i \in 1..Len(f) : e[6 + i] = Token(f[i])
    OBVIOUS
  <2>2. n = 0 /\ q = 6 /\ y = Preface /\ r = 6 + m
    BY <1>2, <1>8, <1>13, <1>17, <2>1 DEF Good
  <2>3. ASSUME NEW i \in 1..6 PROVE e[i] = Preface[i]
    <3>1. i \in 1..r /\ n + i = i
      BY <2>2
    <3> QED
      BY <1>15, <1>18, <2>2, <3>1
  <2>4. ASSUME NEW i \in 1..m PROVE e[6 + i] = Token(f[i])
    <3>1. 6 + i \in 1..r /\ n + (6 + i) = 6 + i
      BY <2>2
    <3> QED
      BY <1>12, <1>15, <1>18, <2>2, <3>1
  <2> QED
    BY <1>4, <1>18, <2>2, <2>3, <2>4
<1>24. Good(t) \in BOOLEAN
  BY <1>1 DEF Good
<1>25. Stream(e, f, Good(t))
  BY <1>18, <1>22, <1>23, <1>24 DEF Stream
<1>26. ~Good(t) /\ e # <<>> => e[1].k \notin {"request", "short", "pri"}
  <2>1. e # <<>> => 1 \in 1..Len(e)
    BY <1>18, EmptySeq
  <2> QED
    BY <1>21, <1>22, <2>1
<1> QED
  BY <1>3, <1>19, <1>20, <1>21, <1>25, <1>26

--------------------------------------------------------------------------------
(***************************************************************************)
(* What the parsers make of a head                                         *)
(***************************************************************************)

LEMMA HeadOfBytes ==
  ASSUME NEW t \in Talks, t.line # "none", NEW m, m = Len(t.headers), NEW B, B = Bytes(t)
  PROVE  /\ m \in Nat /\ B \in Seq(Tokens) /\ Len(HeadOf(t)) = 2 * m + 3
         /\ 2 * m + 3 <= Len(B) /\ IsHead(B, t, m)
<1>1. PICK h : h = HeadOf(t)
  OBVIOUS
<1>2. h \in Seq(Tokens) /\ Len(h) = 2 * m + 3 /\ IsHead(h, t, m)
  BY <1>1, HeadIs
<1>3. PICK e : e = Tail3(t)
  OBVIOUS
<1>4. B = h \o e /\ e \in Seq(Tokens)
  BY <1>1, <1>3, TailIs DEF Stream
<1>5. PICK n, r : n = Len(h) /\ r = Len(e)
  OBVIOUS
<1>6. Joined(Tokens, h, e, B, n, r)
  BY <1>2, <1>4, <1>5, JoinIs, Zenon
<1>7. m \in Nat /\ n = 2 * m + 3 /\ n \in Nat /\ r \in Nat
  BY <1>2, <1>5, <1>6 DEF IsHead, Joined
<1>8. \A i \in 1..n : B[i] = h[i]
  BY <1>6 DEF Joined
<1>9. IsHead(B, t, m)
  <2>1. 1 \in 1..n /\ 2 \in 1..n /\ 2 * m + 3 \in 1..n
    BY <1>7
  <2>2. \A j \in 1..m : 2 * j + 1 \in 1..n /\ 2 * j + 2 \in 1..n
    BY <1>7
  <2> QED
    BY <1>2, <1>8, <2>1, <2>2 DEF IsHead
<1>10. B \in Seq(Tokens) /\ n <= Len(B)
  BY <1>6, <1>7 DEF Joined
<1> QED
  BY <1>1, <1>2, <1>5, <1>7, <1>9, <1>10

LEMMA HeadPlaces ==
  ASSUME NEW t \in Talks, t.line # "none", NEW B, NEW m, IsHead(B, t, m), NEW q \in 0..m
  PROVE  B[2 * q + 1].k # "crlf" /\ B[2 * q + 1] # crlf /\ B[2 * q + 2] = crlf
<1>1. crlf.k = "crlf"
  BY DEF crlf, Token
<1>2. m \in Nat
  BY DEF IsHead
<1>3. CASE q = 0
  <2>1. B[1] = Token(t.line) /\ B[2] = crlf /\ 2 * q + 1 = 1 /\ 2 * q + 2 = 2
    BY <1>3 DEF IsHead
  <2>2. t.line \in {"request", "short"}
    BY TalkIs DEF TalkParts
  <2>3. B[1].k # "crlf"
    BY <2>1, <2>2 DEF Token
  <2> QED
    BY <1>1, <2>1, <2>3
<1>4. CASE q # 0
  <2>1. q \in 1..m
    BY <1>2, <1>4
  <2>2. B[2 * q + 1].k \in HeaderKinds /\ B[2 * q + 2] = crlf
    BY <2>1 DEF IsHead
  <2> QED
    BY <1>1, <2>2 DEF HeaderKinds
<1> QED
  BY <1>3, <1>4

(* buf is the first g tokens of B.                                         *)
Starts(buf, B, g) ==
  /\ g \in Nat /\ buf \in Seq(Tokens) /\ Len(buf) = g
  /\ \A i \in 1..g : buf[i] = B[i]

LEMMA StartsPrefix ==
  ASSUME NEW B \in Seq(Tokens), NEW g \in 0..Len(B), NEW buf, buf = SubSeq(B, 1, g)
  PROVE  Starts(buf, B, g)
<1>1. /\ buf \in Seq(Tokens) /\ Len(buf) = g /\ \A i \in 1..g : buf[i] = B[i]
  BY PrefixIs
<1>2. g \in Nat
  BY ONLY B \in Seq(Tokens), g \in 0..Len(B)
<1> QED
  BY <1>1, <1>2 DEF Starts

LEMMA StartsSub ==
  ASSUME NEW buf, NEW B, NEW g, Starts(buf, B, g), NEW n \in 0..g,
         NEW p, p = SubSeq(buf, 1, n)
  PROVE  Starts(p, B, n)
<1>1. g \in Nat /\ buf \in Seq(Tokens) /\ Len(buf) = g /\ \A i \in 1..g : buf[i] = B[i]
  BY DEF Starts
<1>2. n \in 0..Len(buf) /\ n \in Nat
  BY <1>1
<1>3. p \in Seq(Tokens) /\ Len(p) = n /\ \A i \in 1..n : p[i] = buf[i]
  BY ONLY <1>1, <1>2, p = SubSeq(buf, 1, n), PrefixIs
<1>4. \A i \in 1..n : i \in 1..g
  BY <1>1, <1>2
<1> QED
  BY <1>1, <1>2, <1>3, <1>4 DEF Starts

(* The head ends where it ends, once it is there.                          *)
LEMMA HeaderEndIs ==
  ASSUME NEW t \in Talks, t.line # "none", NEW B, NEW m, IsHead(B, t, m),
         NEW buf, NEW g, Starts(buf, B, g)
  PROVE  HeaderEnd(buf) = IF g < 2 * m + 3 THEN -1 ELSE 2 * m + 1
<1>1. m \in Nat /\ g \in Nat /\ Len(buf) = g /\ \A i \in 1..g : buf[i] = B[i]
  BY DEF IsHead, Starts
<1>2. PICK ends : ends = {i \in 1..g - 1 : buf[i] = crlf /\ buf[i + 1] = crlf}
  OBVIOUS
<1>3. HeaderEnd(buf) = IF ends = {} THEN -1 ELSE Min(ends) - 1
  BY <1>1, <1>2 DEF HeaderEnd
<1>4. ASSUME NEW i \in ends PROVE i >= 2 * m + 2 /\ i <= g - 1 /\ i \in Nat
  <2>1. i \in 1..g - 1 /\ buf[i] = crlf /\ buf[i + 1] = crlf
    BY <1>2
  <2>2. B[i] = crlf /\ B[i + 1] = crlf
    <3>1. i \in 1..g /\ i + 1 \in 1..g
      BY <1>1, <2>1
    <3> QED
      BY <1>1, <2>1, <3>1
  <2>3. SUFFICES ASSUME ~(i >= 2 * m + 2) PROVE FALSE
    BY <1>1, <2>1
  <2>4. PICK q \in 0..m : i = 2 * q + 1 \/ i + 1 = 2 * q + 1
    <3>1. PICK q \in Int : q = i \div 2
      BY <2>1
    <3>2. i = 2 * q \/ i = 2 * q + 1
      BY ONLY <1>1, <2>1, <3>1
    <3>3. q \in 0..m
      BY ONLY <1>1, <2>1, <2>3, <3>2, q \in Int
    <3> QED
      BY <3>2, <3>3
  <2>5. B[2 * q + 1] # crlf
    BY <2>4, HeadPlaces
  <2> QED
    BY <2>2, <2>4, <2>5
<1>5. CASE g < 2 * m + 3
  <2>1. ends = {}
    BY <1>1, <1>4, <1>5
  <2> QED
    BY <1>3, <1>5, <2>1
<1>6. CASE ~(g < 2 * m + 3)
  <2>1. PICK e \in Nat : e = 2 * m + 2 /\ e + 1 = 2 * m + 3 /\ e - 1 = 2 * m + 1
    BY <1>1
  <2>2. e \in ends
    <3>1. e \in 1..g - 1 /\ e \in 1..g /\ e + 1 \in 1..g
      BY <1>1, <1>6, <2>1
    <3>2. B[e] = crlf
      BY <1>1, <2>1, HeadPlaces
    <3>3. B[e + 1] = crlf
      BY <2>1 DEF IsHead
    <3> QED
      BY <1>1, <1>2, <3>1, <3>2, <3>3
  <2>3. ends \in SUBSET Nat /\ \A i \in ends : e <= i
    BY <1>1, <1>4, <2>1
  <2>4. Min(ends) = e
    <3> HIDE DEF Min
    <3> QED
      BY <2>2, <2>3, MinIs
  <2> QED
    BY <1>3, <1>6, <2>1, <2>2, <2>4
<1> QED
  BY <1>5, <1>6

LEMMA Halves ==
  ASSUME NEW m \in Nat, NEW i \in 1..2 * m
  PROVE  \E j \in 1..m : i = 2 * j - 1 \/ i = 2 * j
<1>1. PICK q \in Int : q = i \div 2
  OBVIOUS
<1>2. i = 2 * q \/ i = 2 * (q + 1) - 1
  BY ONLY <1>1, i \in 1..2 * m, m \in Nat
<1>3. CASE i = 2 * q
  <2>1. q \in 1..m
    BY ONLY <1>3, i \in 1..2 * m, m \in Nat, q \in Int
  <2> QED
    BY <1>3, <2>1
<1>4. CASE i = 2 * (q + 1) - 1
  <2>1. q + 1 \in 1..m
    BY ONLY <1>4, i \in 1..2 * m, m \in Nat, q \in Int
  <2> QED
    BY <1>4, <2>1
<1> QED
  BY <1>2, <1>3, <1>4

(* What the client says of the length, if it says anything.                *)
LengthText(t) ==
  IF Named(t, "length") = {} THEN <<>> ELSE t.headers[Min(Named(t, "length"))].v

(* The lines of a head as parseHTTP1Request has them: n lines, from the    *)
(* third token of the head on.                                             *)
HeaderLines(lines, B, n) ==
  lines \in Seq(Tokens) /\ Len(lines) = n /\ \A i \in 1..n : lines[i] = B[i + 2]

LEMMA LinesOfRequest ==
  ASSUME NEW t \in Talks, t.line # "none", NEW B, NEW m, IsHead(B, t, m), m >= 1,
         NEW raw, NEW L, Starts(raw, B, L), L = 2 * m + 1 \/ L = 2 * m + 3
  PROVE  \E n \in 2 * m - 1..2 * m : HeaderLines(Request(raw).headers, B, n)
<1>1. /\ m \in Nat /\ L \in Nat /\ raw \in Seq(Tokens) /\ Len(raw) = L
      /\ \A i \in 1..L : raw[i] = B[i]
  BY DEF IsHead, Starts
<1>2. PICK rest : rest = SubSeq(raw, 3, L)
  OBVIOUS
<1>3. rest \in Seq(Tokens) /\ Len(rest) = L - 2 /\ \A i \in 1..L - 2 : rest[i] = B[i + 2]
  <2>1. L \in 0..Len(raw) /\ 2 \in 0..L /\ 2 + 1 = 3
    BY <1>1
  <2>2. rest = SubSeq(raw, 2 + 1, L)
    BY <1>2, <2>1
  <2>3. rest \in Seq(Tokens) /\ Len(rest) = L - 2 /\ \A i \in 1..(L - 2) : rest[i] = raw[2 + i]
    BY ONLY <1>1, <2>1, <2>2, PartIs
  <2>4. \A i \in 1..L - 2 : 2 + i \in 1..L /\ 2 + i = i + 2
    BY <1>1
  <2> QED
    BY <1>1, <2>3, <2>4
<1>4. PICK blank : blank = {i \in DOMAIN rest : rest[i] = crlf /\ (i = 1 \/ rest[i - 1] = crlf)}
  OBVIOUS
<1>5. PICK z : z = blank \cup {Len(rest) + 1}
  OBVIOUS
<1>6. Request(raw).headers = SubSeq(rest, 1, Min(z) - 1)
  BY <1>1, <1>2, <1>4, <1>5 DEF Request
<1>7. DOMAIN rest = 1..L - 2
  BY <1>3
<1>8. ASSUME NEW i \in blank PROVE L = 2 * m + 3 /\ i = 2 * m + 1
  <2>1. i \in 1..L - 2 /\ rest[i] = crlf /\ (i = 1 \/ rest[i - 1] = crlf)
    BY <1>4, <1>7
  <2>2. B[i + 2] = crlf
    BY <1>3, <2>1
  <2>3. i # 1
    <3>1. 1 \in 0..m /\ 2 * 1 + 1 = 1 + 2
      BY <1>1
    <3>2. B[1 + 2] # crlf
      BY ONLY <3>1, t \in Talks, t.line # "none", IsHead(B, t, m), HeadPlaces
    <3> QED
      BY <2>2, <3>2
  <2>4. B[i + 1] = crlf
    <3>1. i - 1 \in 1..L - 2 /\ (i - 1) + 2 = i + 1
      BY <1>1, <2>1, <2>3
    <3> QED
      BY <1>3, <2>1, <2>3, <3>1
  <2>5. ASSUME NEW q \in 0..m PROVE i + 1 # 2 * q + 1 /\ i + 2 # 2 * q + 1
    BY <2>2, <2>4, HeadPlaces
  <2>6. PICK q \in Int : i + 1 = 2 * q + 1 \/ i + 2 = 2 * q + 1
    <3>1. PICK j \in Int : j = i
      BY <1>1, <2>1
    <3>2. PICK q \in Int : j = 2 * q \/ j = 2 * q + 1
      BY HalfOf
    <3>3. j + 1 = 2 * q + 1 \/ j + 2 = 2 * (q + 1) + 1
      BY ONLY <3>2, j \in Int, q \in Int
    <3>4. q + 1 \in Int
      BY ONLY q \in Int
    <3> QED
      BY <3>1, <3>3, <3>4
  <2>7. q \notin 0..m
    BY <2>5, <2>6
  <2> QED
    BY <1>1, <2>1, <2>6, <2>7
<1>9. PICK n \in Nat : n = IF L = 2 * m + 1 THEN 2 * m - 1 ELSE 2 * m
  BY <1>1
<1>10. Min(z) = n + 1
  <2>1. CASE L = 2 * m + 1
    <3>1. Len(rest) + 1 = n + 1 /\ n + 1 \in Nat
      BY <1>1, <1>3, <1>9, <2>1
    <3>2. blank = {}
      BY <1>1, <1>8, <2>1
    <3>3. z = {n + 1}
      BY <1>5, <3>1, <3>2
    <3> QED
      BY <3>1, <3>3, MinIs
  <2>2. CASE L = 2 * m + 3
    <3>1. /\ n = 2 * m /\ n + 1 \in Nat /\ Len(rest) + 1 = n + 2
          /\ n + 1 \in 1..L - 2 /\ n \in 1..L - 2
      BY <1>1, <1>3, <1>9, <2>2
    <3>2. n + 1 \in blank
      <4>1. (n + 1) + 2 = 2 * m + 3 /\ n + 2 = 2 * m + 2 /\ (n + 1) - 1 = n /\ m \in 0..m
        BY <1>1, <3>1
      <4>2. rest[n + 1] = crlf
        BY <1>3, <3>1, <4>1 DEF IsHead
      <4>3. rest[n] = crlf
        BY <1>3, <3>1, <4>1, HeadPlaces
      <4> QED
        BY <1>4, <1>7, <3>1, <4>1, <4>2, <4>3
    <3>3. ASSUME NEW i \in z PROVE i \in Nat /\ n + 1 <= i
      <4>1. CASE i \in blank
        BY <1>1, <1>8, <3>1, <4>1
      <4>2. CASE i = n + 2
        BY <3>1, <4>2
      <4> QED
        BY <1>5, <3>1, <4>1, <4>2
    <3>4. n + 1 \in z /\ z \in SUBSET Nat
      BY <1>5, <3>2, <3>3
    <3> HIDE DEF Min
    <3> QED
      BY <3>3, <3>4, MinIs
  <2> QED
    BY <2>1, <2>2
<1>11. PICK lines : lines = SubSeq(rest, 1, n)
  OBVIOUS
<1>12. n \in 0..Len(rest) /\ n \in 2 * m - 1..2 * m /\ n \in 0..L - 2
  BY <1>1, <1>3, <1>9
<1>13. lines \in Seq(Tokens) /\ Len(lines) = n /\ \A i \in 1..n : lines[i] = rest[i]
  BY ONLY <1>3, <1>11, <1>12, PrefixIs
<1>14. \A i \in 1..n : i \in 1..L - 2
  BY <1>1, <1>12
<1>15. HeaderLines(lines, B, n)
  BY <1>3, <1>13, <1>14 DEF HeaderLines
<1>16. Request(raw).headers = lines
  <2>1. n + 1 - 1 = n
    OBVIOUS
  <2> QED
    BY <1>6, <1>10, <1>11, <2>1
<1> QED
  BY <1>12, <1>15, <1>16

(* Places of header lines among the lines.                                 *)
LEMMA LinePlaces ==
  ASSUME NEW t \in Talks, t.line # "none", NEW B, NEW m, IsHead(B, t, m), m >= 1,
         NEW n \in 2 * m - 1..2 * m, NEW lines, HeaderLines(lines, B, n)
  PROVE  /\ DOMAIN lines = 1..n
         /\ \A j \in 1..m : /\ 2 * j - 1 \in 1..n /\ lines[2 * j - 1] = t.headers[j]
                            /\ lines[2 * j - 1] # crlf /\ t.headers[j].k \in HeaderKinds
         /\ \A i \in 1..n : \/ \E j \in 1..m : i = 2 * j - 1
                            \/ lines[i] = crlf
<1>1. m \in Nat /\ n \in Nat
  BY DEF IsHead
<1>2. /\ lines \in Seq(Tokens) /\ Len(lines) = n /\ \A i \in 1..n : lines[i] = B[i + 2]
  BY DEF HeaderLines
<1>3. ASSUME NEW j \in 1..m
      PROVE  /\ 2 * j - 1 \in 1..n /\ lines[2 * j - 1] = t.headers[j]
             /\ lines[2 * j - 1] # crlf /\ t.headers[j].k \in HeaderKinds
  <2>1. 2 * j - 1 \in 1..n /\ (2 * j - 1) + 2 = 2 * j + 1 /\ j \in 0..m
    BY <1>1
  <2>2. lines[2 * j - 1] = B[2 * j + 1]
    BY <1>2, <2>1
  <2>3. B[2 * j + 1] # crlf
    BY <2>1, HeadPlaces
  <2> QED
    BY <2>1, <2>2, <2>3 DEF IsHead
<1>4. ASSUME NEW i \in 1..n PROVE (\E j \in 1..m : i = 2 * j - 1) \/ lines[i] = crlf
  <2>1. i \in 1..2 * m
    BY <1>1
  <2>2. PICK j \in 1..m : i = 2 * j - 1 \/ i = 2 * j
    BY <1>1, <2>1, Halves
  <2>3. CASE i = 2 * j
    <3>1. i + 2 = 2 * j + 2
      BY <1>1, <2>3
    <3>2. lines[i] = crlf
      BY <1>2, <3>1 DEF IsHead
    <3> QED
      BY <3>2
  <2> QED
    BY <2>2, <2>3
<1>5. DOMAIN lines = 1..n
  BY ONLY <1>2
<1> QED
  BY <1>3, <1>4, <1>5

LEMMA HeadersAre ==
  ASSUME NEW t \in Talks, NEW m, m = Len(t.headers)
  PROVE  /\ m \in Nat /\ DOMAIN t.headers = 1..m
         /\ \A j \in 1..m : t.headers[j].v \in Seq(0..10)
<1>1. PICK H : H = [k : HeaderKinds, v : Seq(0..10)]
  OBVIOUS
<1>2. PICK h : h = t.headers
  OBVIOUS
<1>3. h \in Seq(H)
  BY <1>1, <1>2, TalkIs DEF TalkParts
<1>4. m \in Nat /\ DOMAIN h = 1..m /\ \A j \in 1..m : h[j] \in H
  <2>1. m = Len(h)
    BY <1>2
  <2> QED
    BY ONLY <1>3, <2>1
<1> QED
  BY <1>1, <1>2, <1>4

(* What the code takes for a request, and the body it then waits for: a    *)
(* head with no header line does not parse.                                *)
Parses(t) == WellFormed(t) /\ t.headers # <<>>
BodyRead(t) == IF Parses(t) THEN BodyOf(t) ELSE {}
Served(t) == IF \E n \in BodyRead(t) : n <= After(t)
               THEN <<Reply("h1", CHOOSE n \in BodyRead(t) : TRUE)>> ELSE <<>>
Lacking(t) == \E n \in BodyRead(t) : n > After(t)

(* The request is taken for one if it is, and its length is what the       *)
(* client says it is.                                                      *)
LEMMA RequestIs ==
  ASSUME NEW t \in Talks, t.line # "none", NEW B, NEW m, m = Len(t.headers),
         IsHead(B, t, m), NEW raw, NEW L, Starts(raw, B, L),
         L = 2 * m + 1 \/ (L = 2 * m + 3 /\ m >= 1)
  PROVE  /\ Request(raw).ok <=> Parses(t)
         /\ m >= 1 => HeaderValue(Request(raw).headers, "length") = LengthText(t)
<1>1. /\ m \in Nat /\ L \in Nat /\ raw \in Seq(Tokens) /\ Len(raw) = L
      /\ \A i \in 1..L : raw[i] = B[i]
  BY DEF IsHead, Starts
<1>2. /\ t.headers \in Seq([k : HeaderKinds, v : Seq(0..10)]) /\ DOMAIN t.headers = 1..m
      /\ t.line \in {"request", "short"}
  BY TalkIs, HeadersAre, Zenon DEF TalkParts
<1>3. PICK lines : lines = Request(raw).headers
  OBVIOUS
<1>4. Request(raw).ok <=> /\ L >= 2
                          /\ raw[1].k \in {"request", "pri"}
                          /\ raw[2] = crlf
                          /\ \A i \in DOMAIN lines :
                               lines[i] # crlf => IsHeader(lines[i]) /\ lines[i].k # "nocolon"
  BY <1>1, <1>3 DEF Request
<1>5. CASE m = 0
  <2>1. ~(L >= 2)
    BY <1>1, <1>5
  <2>2. t.headers = <<>>
    BY <1>2, <1>5, EmptySeq
  <2> QED
    BY <1>1, <1>4, <1>5, <2>1, <2>2 DEF Parses
<1>6. CASE m # 0
  <2>1. m >= 1 /\ L >= 2 /\ t.headers # <<>> /\ (L = 2 * m + 1 \/ L = 2 * m + 3)
    <3>1. t.headers # <<>>
      BY <1>1, <1>6, EmptySeq
    <3> QED
      BY <1>1, <1>6, <3>1
  <2>2. PICK n \in 2 * m - 1..2 * m : HeaderLines(lines, B, n)
    BY ONLY <1>3, <2>1, t \in Talks, t.line # "none", IsHead(B, t, m), Starts(raw, B, L),
            LinesOfRequest
  <2>3. /\ DOMAIN lines = 1..n
        /\ \A j \in 1..m : /\ 2 * j - 1 \in 1..n /\ lines[2 * j - 1] = t.headers[j]
                           /\ lines[2 * j - 1] # crlf /\ t.headers[j].k \in HeaderKinds
        /\ \A i \in 1..n : \/ \E j \in 1..m : i = 2 * j - 1
                           \/ lines[i] = crlf
    BY ONLY <2>1, <2>2, t \in Talks, t.line # "none", IsHead(B, t, m), LinePlaces
  <2>4. raw[1].k \in {"request", "pri"} <=> t.line = "request"
    <3>1. raw[1] = Token(t.line)
      BY <1>1, <2>1 DEF IsHead
    <3> QED
      BY <1>2, <3>1 DEF Token
  <2>5. raw[2] = crlf
    BY <1>1, <2>1 DEF IsHead
  <2>6. (\A i \in DOMAIN lines :
           lines[i] # crlf => IsHeader(lines[i]) /\ lines[i].k # "nocolon")
        <=> Named(t, "nocolon") = {}
    <3>1. ASSUME \A i \in DOMAIN lines :
                   lines[i] # crlf => IsHeader(lines[i]) /\ lines[i].k # "nocolon",
                 NEW j \in Named(t, "nocolon")
          PROVE  FALSE
      <4>1. j \in 1..m /\ t.headers[j].k = "nocolon"
        BY <1>2 DEF Named
      <4> QED
        BY <2>3, <3>1, <4>1
    <3>2. ASSUME Named(t, "nocolon") = {}, NEW i \in DOMAIN lines, lines[i] # crlf
          PROVE  IsHeader(lines[i]) /\ lines[i].k # "nocolon"
      <4>1. PICK j \in 1..m : i = 2 * j - 1
        BY <2>3, <3>2
      <4>2. lines[i] = t.headers[j] /\ t.headers[j].k \in HeaderKinds
        BY <2>3, <4>1
      <4>3. t.headers[j].k # "nocolon"
        BY <1>2, <3>2 DEF Named
      <4> QED
        BY <4>2, <4>3 DEF IsHeader
    <3> QED
      BY <3>1, <3>2
  <2>7. Request(raw).ok <=> Parses(t)
    BY <1>4, <2>1, <2>4, <2>5, <2>6 DEF Parses, WellFormed
  <2>8. PICK those : those = {i \in DOMAIN lines : lines[i].k = "length"}
    OBVIOUS
  <2>9. HeaderValue(lines, "length") = IF those = {} THEN <<>> ELSE lines[Min(those)].v
    BY <2>8 DEF HeaderValue
  <2>10. PICK named : named = Named(t, "length")
    OBVIOUS
  <2>11. named = {j \in 1..m : t.headers[j].k = "length"}
    BY <1>2, <2>10 DEF Named
  <2>12. ASSUME NEW j \in named PROVE 2 * j - 1 \in those /\ lines[2 * j - 1] = t.headers[j]
    BY <2>3, <2>8, <2>11
  <2>13. ASSUME NEW i \in those PROVE \E j \in named : i = 2 * j - 1
    <3>1. i \in 1..n /\ lines[i].k = "length"
      BY <2>3, <2>8
    <3>2. lines[i] # crlf
      BY <3>1 DEF crlf, Token
    <3>3. PICK j \in 1..m : i = 2 * j - 1
      BY <2>3, <3>1, <3>2
    <3> QED
      BY <2>3, <2>11, <3>1, <3>3
  <2>14. CASE named = {}
    <3>1. those = {}
      BY <2>13, <2>14
    <3> QED
      BY <1>3, <2>7, <2>9, <2>10, <2>14, <3>1 DEF LengthText
  <2>15. CASE named # {}
    <3>1. named \in SUBSET Nat
      BY <2>11
    <3>2. PICK j \in named : \A y \in named : j <= y
      BY <2>15, <3>1, LeastNumber
    <3>3. Min(named) = j
      <4> HIDE DEF Min
      <4> QED
        BY <3>1, <3>2, MinIs
    <3>4. PICK i \in Nat : i = 2 * j - 1
      BY <2>11
    <3>5. i \in those /\ lines[i] = t.headers[j]
      BY <2>12, <3>4
    <3>6. ASSUME NEW x \in those PROVE x \in Nat /\ i <= x
      <4>1. PICK y \in named : x = 2 * y - 1
        BY <2>13
      <4>2. j <= y /\ y \in 1..m /\ j \in 1..m
        BY <2>11, <3>2
      <4> QED
        BY <1>1, <3>4, <4>1, <4>2
    <3>7. Min(those) = i
      <4>1. those \in SUBSET Nat
        BY <3>6
      <4> HIDE DEF Min
      <4> QED
        BY <3>5, <3>6, <4>1, MinIs
    <3> QED
      BY <1>3, <2>7, <2>9, <2>10, <2>15, <3>3, <3>5, <3>7 DEF LengthText
  <2> QED
    BY <2>14, <2>15
<1> QED
  BY <1>5, <1>6

HasLine(head, k) == \E i \in 2..Len(head) : head[i - 1] = crlf /\ head[i].k = k

(* An upgrade is seen if it is one.                                        *)
LEMMA DetectIs ==
  ASSUME NEW t \in Talks, t.line # "none", NEW B, NEW m, m = Len(t.headers),
         IsHead(B, t, m), NEW buf, NEW g, Starts(buf, B, g), g >= 2 * m + 3
  PROVE  DetectUpgrade(buf) <=> IsUpgrade(t)
<1>1. m \in Nat /\ g \in Nat
  BY DEF IsHead, Starts
<1>2. DOMAIN t.headers = 1..m
  BY HeadersAre
<1>3. PICK n \in Nat : n = 2 * m + 1 /\ n \in 0..g
  BY <1>1
<1>4. HeaderEnd(buf) = n
  BY <1>1, <1>3, HeaderEndIs
<1>5. PICK head : head = SubSeq(buf, 1, n)
  OBVIOUS
<1>6. Starts(head, B, n)
  BY <1>3, <1>5, StartsSub
<1>7. Len(head) = n /\ \A i \in 1..n : head[i] = B[i]
  BY <1>6 DEF Starts
<1>8. ASSUME NEW k \in HeaderKinds PROVE HasLine(head, k) <=> Named(t, k) # {}
  <2>1. ASSUME NEW j \in Named(t, k) PROVE HasLine(head, k)
    <3>1. j \in 1..m /\ t.headers[j].k = k
      BY <1>2 DEF Named
    <3>2. PICK i \in Nat : i = 2 * j + 1 /\ i - 1 = 2 * (j - 1) + 2 /\ j - 1 \in 0..m
      BY <1>1, <3>1
    <3>3. i \in 2..n /\ i \in 1..n /\ i - 1 \in 1..n
      BY <1>1, <1>3, <3>1, <3>2
    <3>4. head[i] = t.headers[j]
      BY <1>7, <3>1, <3>2, <3>3 DEF IsHead
    <3>5. head[i - 1] = crlf
      BY <1>7, <3>2, <3>3, HeadPlaces
    <3> QED
      BY <1>7, <3>1, <3>3, <3>4, <3>5 DEF HasLine
  <2>2. ASSUME HasLine(head, k) PROVE Named(t, k) # {}
    <3>1. PICK i \in 2..n : head[i].k = k
      BY <1>7, <2>2 DEF HasLine
    <3>2. i \in 1..n /\ i - 1 \in 1..2 * m
      BY <1>1, <1>3
    <3>3. B[i].k = k
      BY <1>7, <3>1, <3>2
    <3>4. PICK j \in 1..m : i - 1 = 2 * j - 1 \/ i - 1 = 2 * j
      BY <1>1, <3>2, Halves
    <3>5. CASE i - 1 = 2 * j - 1
      <4>1. j - 1 \in 1..m \/ j - 1 = 0
        BY <1>1
      <4>2. j - 1 \in 0..m /\ i = 2 * (j - 1) + 2
        BY <1>1, <3>2, <3>5
      <4>3. B[i] = crlf
        BY <4>2, HeadPlaces
      <4> QED
        BY <3>3, <4>3 DEF crlf, Token, HeaderKinds
    <3>6. CASE i - 1 = 2 * j
      <4>1. i = 2 * j + 1
        BY <3>2, <3>6
      <4>2. B[i] = t.headers[j]
        BY <4>1 DEF IsHead
      <4> QED
        BY <1>2, <3>3, <4>2 DEF Named
    <3> QED
      BY <3>4, <3>5, <3>6
  <2> QED
    BY <2>1, <2>2
<1>9. DetectUpgrade(buf) <=>
        HasLine(head, "upgrade") /\ HasLine(head, "connection") /\ HasLine(head, "settings")
  BY <1>4, <1>5 DEF DetectUpgrade, HasLine
<1>10. {"upgrade", "connection", "settings"} \subseteq HeaderKinds
  BY DEF HeaderKinds
<1> QED
  BY <1>8, <1>9, <1>10 DEF IsUpgrade

--------------------------------------------------------------------------------
(***************************************************************************)
(* What HTTP/1 makes of a talk                                             *)
(***************************************************************************)

LEMMA BodyIs ==
  ASSUME NEW t \in Talks, Parses(t), NEW s, s = LengthText(t), NEW p, p = ParsePositiveInt(s)
  PROVE  /\ s = <<>> => BodyRead(t) = {0}
         /\ s # <<>> /\ p = -1 => BodyRead(t) = {}
         /\ s # <<>> /\ p # -1 => BodyRead(t) = {p} /\ p \in Nat
<1>1. PICK m : m = Len(t.headers)
  OBVIOUS
<1>2. m \in Nat /\ DOMAIN t.headers = 1..m /\ \A j \in 1..m : t.headers[j].v \in Seq(0..10)
  BY <1>1, HeadersAre
<1>3. PICK named : named = Named(t, "length")
  OBVIOUS
<1>4. named \subseteq 1..m
  BY <1>2, <1>3 DEF Named
<1>5. PICK x : x = t.headers[Min(named)].v
  OBVIOUS
<1>6. s = IF named = {} THEN <<>> ELSE x
  BY <1>3, <1>5 DEF LengthText
<1>7. BodyRead(t) = IF named = {} \/ x = <<>> THEN {0} ELSE {n \in 0..MaxLength : Denotes(x, n)}
  BY <1>3, <1>5 DEF BodyRead, BodyOf, Parses
<1>8. CASE s = <<>>
  BY <1>6, <1>7, <1>8
<1>9. CASE s # <<>>
  <2>1. named # {} /\ x = s
    BY <1>6, <1>9
  <2>2. Min(named) \in 1..m
    <3>1. named \in SUBSET Nat
      BY <1>2, <1>4
    <3>2. Min(named) \in named
      <4> HIDE DEF Min
      <4> QED
        BY <2>1, <3>1, MinExists
    <3> QED
      BY <1>4, <3>2
  <2>3. s \in Seq(0..10)
    BY <1>2, <1>5, <2>1, <2>2
  <2>4. /\ p \in 0..MaxLength \cup {-1}
        /\ \A a \in 0..MaxLength : Denotes(s, a) <=> a = p
    BY <1>9, <2>3, ParseIsDenotation
  <2>5. BodyRead(t) = {n \in 0..MaxLength : Denotes(s, n)}
    BY <1>7, <1>9, <2>1
  <2>6. MaxLength \in Nat
    BY DispatchAssumption, Zenon
  <2> HIDE DEF BodyRead, Denotes
  <2>7. BodyRead(t) = {n \in 0..MaxLength : n = p}
    BY ONLY <2>4, <2>5
  <2> QED
    BY ONLY <1>9, <2>4, <2>6, <2>7
<1> QED
  BY <1>8, <1>9

LEMMA BodyAtMostOne ==
  ASSUME NEW t \in Talks
  PROVE  /\ \A n \in BodyRead(t) : n \in Nat
         /\ \A n \in BodyRead(t), x \in BodyRead(t) : n = x
<1>1. PICK s : s = LengthText(t)
  OBVIOUS
<1>2. PICK p : p = ParsePositiveInt(s)
  OBVIOUS
<1>3. CASE Parses(t)
  <2>1. /\ s = <<>> => BodyRead(t) = {0}
        /\ s # <<>> /\ p = -1 => BodyRead(t) = {}
        /\ s # <<>> /\ p # -1 => BodyRead(t) = {p} /\ p \in Nat
    BY ONLY <1>1, <1>2, <1>3, t \in Talks, BodyIs
  <2> QED
    BY ONLY <2>1
<1>4. CASE ~Parses(t)
  <2>1. BodyRead(t) = {}
    BY <1>4 DEF BodyRead
  <2> QED
    BY ONLY <2>1
<1> QED
  BY <1>3, <1>4

(* Of the talk t, g tokens do not settle yet what it is to be answered.    *)
HeadLen(t) == Len(HeadOf(t))
Pending(t, g) == g < HeadLen(t) \/ \E n \in BodyRead(t) : g < HeadLen(t) + n

LEMMA HeadLenType ==
  ASSUME NEW t \in Talks
  PROVE  HeadLen(t) \in Nat /\ Len(Bytes(t)) \in Nat /\ HeadLen(t) <= Len(Bytes(t))
<1>1. CASE t.line = "none"
  <2>1. HeadOf(t) = <<>>
    BY <1>1 DEF HeadOf
  <2>2. HeadLen(t) = 0
    BY <2>1, EmptySeq DEF HeadLen
  <2> QED
    BY <2>2, LengthOfBytes
<1>2. CASE t.line # "none"
  <2>1. PICK m, B : m = Len(t.headers) /\ B = Bytes(t)
    OBVIOUS
  <2>2. m \in Nat /\ B \in Seq(Tokens) /\ Len(HeadOf(t)) = 2 * m + 3 /\ 2 * m + 3 <= Len(B)
    BY <1>2, <2>1, HeadOfBytes
  <2>3. Len(B) \in Nat
    BY <2>1, LengthOfBytes
  <2> QED
    BY <2>1, <2>2, <2>3 DEF HeadLen
<1> QED
  BY <1>1, <1>2

LEMMA StillSettled ==
  ASSUME NEW t \in Talks, NEW g \in Nat, ~Pending(t, g), NEW j \in Nat, g <= j
  PROVE  ~Pending(t, j)
<1>1. HeadLen(t) \in Nat /\ \A n \in BodyRead(t) : n \in Nat
  BY HeadLenType, BodyAtMostOne
<1> QED
  BY <1>1 DEF Pending

LEMMA PendingAtTheEnd ==
  ASSUME NEW t \in Talks
  PROVE  /\ Pending(t, Len(Bytes(t))) <=> Lacking(t)
         /\ Lacking(t) => Served(t) = <<>>
<1>1. HeadLen(t) \in Nat /\ Len(Bytes(t)) \in Nat /\ HeadLen(t) <= Len(Bytes(t))
  BY HeadLenType
<1>2. PICK h \in Nat, b \in Nat : h = HeadLen(t) /\ b = Len(Bytes(t)) /\ h <= b
  BY <1>1
<1>3. After(t) = b - h
  BY <1>2 DEF After, HeadLen
<1>4. PICK X : X = BodyRead(t)
  OBVIOUS
<1>5. \A n \in X, x \in X : n \in Nat /\ n = x
  BY <1>4, BodyAtMostOne
<1>6. Pending(t, b) <=> \E n \in X : b < h + n
  BY <1>2, <1>4 DEF Pending
<1>7. Lacking(t) <=> \E n \in X : n > b - h
  BY <1>3, <1>4 DEF Lacking
<1>8. (\E n \in X : b < h + n) <=> \E n \in X : n > b - h
  BY <1>5
<1>9. ASSUME Lacking(t) PROVE ~\E n \in X : n <= b - h
  <2>1. PICK n \in X : n > b - h
    BY <1>7, <1>9
  <2> QED
    BY <1>5, <2>1
<1>10. Lacking(t) => Served(t) = <<>>
  BY <1>3, <1>4, <1>9 DEF Served
<1> QED
  BY <1>2, <1>6, <1>7, <1>8, <1>10

Answered(t, a) == Served(t) = IF a.k = "answer" THEN <<[a EXCEPT !.k = "h1"]>> ELSE <<>>

LEMMA Http1Is ==
  ASSUME NEW t \in Talks, t.line # "none", NEW g \in 0..Len(Bytes(t)),
         NEW buf, buf = SubSeq(Bytes(t), 1, g), NEW a, a = Http1(buf)
  PROVE  IF Pending(t, g) THEN a.k = "wait"
         ELSE a.k \in {"refuse", "answer"} /\ Answered(t, a)
<1>1. PICK m, B : m = Len(t.headers) /\ B = Bytes(t)
  OBVIOUS
<1>2. /\ m \in Nat /\ B \in Seq(Tokens) /\ Len(HeadOf(t)) = 2 * m + 3
      /\ 2 * m + 3 <= Len(B) /\ IsHead(B, t, m)
  BY <1>1, HeadOfBytes
<1>3. Starts(buf, B, g)
  BY <1>1, <1>2, StartsPrefix
<1>4. Len(B) \in Nat /\ g \in Nat /\ g <= Len(B) /\ Len(buf) = g
  BY <1>1, <1>3, LengthOfBytes DEF Starts
<1>5. PICK h \in Nat : h = 2 * m + 3 /\ h = HeadLen(t)
  BY <1>2 DEF HeadLen
<1>6. HeaderEnd(buf) = IF g < 2 * m + 3 THEN -1 ELSE 2 * m + 1
  BY <1>2, <1>3, HeaderEndIs
<1>7. CASE g < h
  <2>1. HeaderEnd(buf) = -1
    BY <1>5, <1>6, <1>7
  <2>2. a = Reply("wait", 0)
    BY <2>1 DEF Http1
  <2> QED
    BY <1>5, <1>7, <2>2 DEF Pending, Reply
<1>8. CASE ~(g < h)
  <2>1. PICK end \in Nat : end = 2 * m + 1 /\ end \in 0..g /\ end # -1 /\ end + 2 = h
    BY <1>2, <1>4, <1>5, <1>8
  <2>2. HeaderEnd(buf) = end
    BY <1>5, <1>6, <1>8, <2>1
  <2>3. PICK raw : raw = SubSeq(buf, 1, end)
    OBVIOUS
  <2>4. Starts(raw, B, end)
    BY <1>3, <2>1, <2>3, StartsSub
  <2>5. PICK req : req = Request(raw)
    OBVIOUS
  <2>6. /\ req.ok <=> Parses(t)
        /\ m >= 1 => HeaderValue(req.headers, "length") = LengthText(t)
    <3>1. end = 2 * m + 1 \/ (end = 2 * m + 3 /\ m >= 1)
      BY <2>1, Zenon
    <3>2. m = Len(t.headers) /\ IsHead(B, t, m)
      BY <1>1, <1>2
    <3> QED
      BY ONLY <2>4, <2>5, <3>1, <3>2, t \in Talks, t.line # "none", RequestIs
  <2>7. PICK value : value = HeaderValue(req.headers, "length")
    OBVIOUS
  <2>8. PICK p : p = ParsePositiveInt(value)
    OBVIOUS
  <2>9. /\ ~req.ok => a = Reply("refuse", 0)
        /\ req.ok /\ value = <<>> => a = Reply("answer", 0)
        /\ req.ok /\ value # <<>> =>
             a = IF p = -1 THEN Reply("refuse", 0)
                 ELSE IF Len(buf) < BodyStart(end) + p THEN Reply("wait", 0)
                 ELSE Reply("answer", p)
    BY <2>1, <2>2, <2>3, <2>5, <2>7, <2>8 DEF Http1
  <2>10. PICK X : X = BodyRead(t)
    OBVIOUS
  <2>11. Pending(t, g) <=> \E n \in X : g < h + n
    BY <1>5, <1>8, <2>10 DEF Pending
  <2>12. Served(t) = IF \E n \in X : n <= Len(B) - h
                           THEN <<Reply("h1", CHOOSE n \in X : TRUE)>> ELSE <<>>
    BY <1>1, <1>5, <2>10 DEF Served, After, HeadLen
  <2>13. CASE X = {}
    <3>1. ~Pending(t, g) /\ Served(t) = <<>>
      BY <2>11, <2>12, <2>13
    <3>2. a = Reply("refuse", 0)
      <4>1. CASE ~Parses(t)
        BY <2>6, <2>9, <4>1
      <4>2. CASE Parses(t)
        <5>1. value = LengthText(t)
          BY <1>1, <1>2, <2>6, <2>7, <4>2, EmptySeq DEF Parses
        <5>2. value # <<>> /\ p = -1
          BY <2>8, <2>10, <2>13, <4>2, <5>1, BodyIs
        <5> QED
          BY <2>6, <2>9, <4>2, <5>2
      <4> QED
        BY <4>1, <4>2
    <3> QED
      BY <3>1, <3>2 DEF Reply, Answered
  <2>14. CASE X # {}
    <3>1. Parses(t)
      BY <2>10, <2>14 DEF BodyRead
    <3>2. value = LengthText(t) /\ req.ok
      BY <1>1, <1>2, <2>6, <2>7, <3>1, EmptySeq DEF Parses
    <3>3. PICK n \in Nat : X = {n} /\ IF value = <<>> THEN n = 0 ELSE p = n /\ p # -1
      BY <2>8, <2>10, <2>14, <3>1, <3>2, BodyIs
    <3>4. a = IF g < h + n THEN Reply("wait", 0) ELSE Reply("answer", n)
      <4>1. CASE value = <<>>
        <5>1. n = 0 /\ ~(g < h + n)
          BY <1>4, <1>8, <3>3, <4>1
        <5> QED
          BY <2>9, <3>2, <4>1, <5>1
      <4>2. CASE value # <<>>
        <5>1. BodyStart(end) + p = h + n
          BY <2>1, <3>3, <4>2 DEF BodyStart
        <5> QED
          BY <1>4, <2>9, <3>2, <3>3, <4>2, <5>1
      <4> QED
        BY <4>1, <4>2
    <3>5. Pending(t, g) <=> g < h + n
      BY <2>11, <3>3
    <3>6. CASE g < h + n
      BY <3>4, <3>5, <3>6 DEF Reply
    <3>7. CASE ~(g < h + n)
      <4>1. n <= Len(B) - h
        BY <1>4, <3>7
      <4>2. (CHOOSE x \in X : TRUE) = n
        BY <3>3
      <4>3. Served(t) = <<Reply("h1", n)>>
        BY <2>12, <3>3, <4>1, <4>2
      <4>4. a = Reply("answer", n) /\ [a EXCEPT !.k = "h1"] = Reply("h1", n) /\ a.k = "answer"
        BY <3>4, <3>7, SMTT(20) DEF Reply
      <4> QED
        BY <3>5, <3>7, <4>3, <4>4 DEF Answered
    <3> QED
      BY <3>6, <3>7
  <2> QED
    BY <2>13, <2>14
<1> QED
  BY <1>7, <1>8

--------------------------------------------------------------------------------
(***************************************************************************)
(* What HTTP/2 makes of a talk                                             *)
(***************************************************************************)

(* How many frames come before the first broken one.                       *)
SoundOf(t) ==
  Min({i \in DOMAIN t.frames : t.frames[i] = "broken"} \cup {Len(t.frames) + 1}) - 1

LEMMA SoundIs ==
  ASSUME NEW t \in Talks
  PROVE  /\ Sound(t.frames, SoundOf(t))
         /\ FrameAnswers(t) = Answers(t.frames, 0, SoundOf(t))
<1>1. PICK f \in Seq(Frames) : f = t.frames
  BY TalkIs DEF TalkParts
<1>2. PICK m \in Nat : m = Len(f) /\ DOMAIN f = 1..m
  OBVIOUS
<1>3. PICK broken : broken = {i \in DOMAIN f : f[i] = "broken"}
  OBVIOUS
<1>4. PICK z : z = broken \cup {m + 1}
  OBVIOUS
<1>5. z \in SUBSET Nat /\ m + 1 \in z
  BY <1>2, <1>3, <1>4
<1>6. PICK x \in z : \A y \in z : x <= y
  BY <1>5, LeastNumber
<1>7. Min(z) = x
  <2> HIDE DEF Min
  <2> QED
    BY <1>5, <1>6, MinIs
<1>8. PICK c \in Nat : c = x - 1 /\ c + 1 = x /\ c <= m
  <2>1. x \in 1..m + 1
    BY <1>2, <1>3, <1>4, <1>6
  <2> QED
    BY <2>1
<1>9. SoundOf(t) = c
  BY <1>1, <1>2, <1>3, <1>4, <1>7, <1>8 DEF SoundOf
<1>10. ASSUME NEW i \in 1..c PROVE f[i] # "broken"
  <2>1. i \in 1..m /\ ~(x <= i)
    BY <1>8
  <2>2. i \notin z
    BY <1>6, <2>1
  <2> QED
    BY <1>2, <1>3, <1>4, <2>1, <2>2
<1>11. c = m \/ f[c + 1] = "broken"
  <2>1. x \in broken \/ x = m + 1
    BY <1>4, <1>6
  <2>2. CASE x = m + 1
    BY <1>8, <2>2
  <2>3. CASE x \in broken
    BY <1>3, <1>8, <2>3
  <2> QED
    BY <2>1, <2>2, <2>3
<1>12. Sound(f, c)
  BY <1>2, <1>8, <1>10, <1>11 DEF Sound
<1>13. PICK sound : sound = SubSeq(f, 1, c)
  OBVIOUS
<1>14. Len(sound) = c /\ (\A i \in 1..c : sound[i] = f[i]) /\ DOMAIN sound = 1..c
  <2>1. c \in 0..Len(f)
    BY <1>2, <1>8
  <2>2. sound \in Seq(Frames) /\ Len(sound) = c /\ \A i \in 1..c : sound[i] = f[i]
    BY <1>13, <2>1, PrefixIs
  <2> QED
    BY ONLY <2>2
<1>15. FrameAnswers(t) = [i \in 1..c |-> AnswerTo(sound[i])]
  <2>1. FrameAnswers(t) = [i \in DOMAIN sound |-> AnswerTo(sound[i])]
    BY <1>1, <1>2, <1>3, <1>4, <1>7, <1>8, <1>13 DEF FrameAnswers, AnswerTo
  <2> QED
    BY <1>14, <2>1
<1>16. Answers(f, 0, c) = [i \in 1..c |-> AnswerTo(sound[i])]
  <2>1. c - 0 = c /\ \A i \in 1..c : 0 + i = i
    BY <1>8
  <2>2. \A i \in 1..c : AnswerTo(f[0 + i]) = AnswerTo(sound[i])
    BY <1>14, <2>1
  <2>3. Answers(f, 0, c) = [i \in 1..c |-> AnswerTo(f[0 + i])]
    BY <2>1 DEF Answers
  <2> QED
    BY <2>2, <2>3
<1> QED
  BY <1>1, <1>9, <1>12, <1>15, <1>16

DueOf(t) == IF Good(t) THEN FrameAnswers(t) ELSE <<>>

LEMMA DueOfIs ==
  ASSUME NEW t \in Talks
  PROVE  DueOf(t) = Due(t.frames, Good(t), SoundOf(t))
BY SoundIs, Zenon DEF DueOf, Due

(* The stream S of t has been fed up to token i, and after begin has been  *)
(* answered so far.                                                        *)
Sending(t, S, i, h2, begin, u) ==
  \E sent : Fed(S, t.frames, Good(t), SoundOf(t), i, h2, sent) /\ u = begin \o sent

AllReplies == Replies \cup {Reply("101", 0), Reply("settings", 0)}

LEMMA MoreReplies == Seq(Replies) \subseteq Seq(AllReplies)
<1>1. Replies \subseteq AllReplies
  BY DEF AllReplies
<1> HIDE DEF Replies, AllReplies
<1> QED
  BY ONLY <1>1

LEMMA SendingStarts ==
  ASSUME NEW t \in Talks, NEW S, Stream(S, t.frames, Good(t)), NEW begin \in Seq(AllReplies)
  PROVE  Sending(t, S, 0, NewH2, begin, begin)
<1>1. S \in Seq(Tokens)
  BY DEF Stream
<1>2. SubSeq(S, 1, 0) = <<>>
  <2>1. 0 \in 0..Len(S)
    BY <1>1
  <2> QED
    BY <1>1, <2>1, PrefixIs
<1>3. Fed(S, t.frames, Good(t), SoundOf(t), 0, NewH2, <<>>)
  <2>1. PICK i \in Nat : i = 0 /\ ~(i >= 6)
    OBVIOUS
  <2>2. NewH2 = [seen |-> FALSE, buf |-> SubSeq(S, 1, i)]
    BY <1>2, <2>1, Zenon DEF NewH2
  <2>3. Fed(S, t.frames, Good(t), SoundOf(t), i, NewH2, <<>>)
    BY ONLY <2>1, <2>2, Zenon DEF Fed
  <2> QED
    BY <2>1, <2>3
<1>4. begin = begin \o <<>>
  BY ConcatEmptySeq
<1> QED
  BY <1>3, <1>4, Zenon DEF Sending

LEMMA SendingIsSeq ==
  ASSUME NEW t \in Talks, NEW S, Stream(S, t.frames, Good(t)), NEW i \in 0..Len(S),
         NEW h2, NEW sent, Fed(S, t.frames, Good(t), SoundOf(t), i, h2, sent)
  PROVE  sent \in Seq(AllReplies) /\ Due(t.frames, Good(t), SoundOf(t)) \in Seq(AllReplies)
<1>1. Sound(t.frames, SoundOf(t))
  BY SoundIs
<1>2. sent \in Seq(Replies) /\ Due(t.frames, Good(t), SoundOf(t)) \in Seq(Replies)
  BY <1>1, FedIsDue
<1> QED
  BY <1>2, MoreReplies

LEMMA SendingGoesOn ==
  ASSUME NEW t \in Talks, NEW S, Stream(S, t.frames, Good(t)),
         NEW j \in 0..Len(S), NEW i \in 0..j, NEW h2, NEW u, NEW begin \in Seq(AllReplies),
         Sending(t, S, i, h2, begin, u),
         NEW data, data = SubSeq(S, i + 1, j), NEW r \in Feed(h2, data, FALSE)
  PROVE  /\ r.err => u \o r.sent = begin \o DueOf(t)
         /\ ~r.err => Sending(t, S, j, r.h2, begin, u \o r.sent)
<1>1. PICK f, good, c : f = t.frames /\ good = Good(t) /\ c = SoundOf(t)
  OBVIOUS
<1>2. Stream(S, f, good) /\ Sound(f, c)
  BY <1>1, SoundIs
<1>3. PICK sent : Fed(S, f, good, c, i, h2, sent) /\ u = begin \o sent
  BY <1>1 DEF Sending
<1>4. /\ r.err => sent \o r.sent = Due(f, good, c)
      /\ ~r.err => Fed(S, f, good, c, j, r.h2, sent \o r.sent)
  BY <1>2, <1>3, FeedStep
<1>5. i \in 0..Len(S) /\ S \in Seq(Tokens)
  BY DEF Stream
<1>6. sent \in Seq(AllReplies)
  BY <1>1, <1>3, <1>5, SendingIsSeq
<1>7. IsSeq(r.sent)
  <2>1. Len(S) \in Nat
    BY <1>5
  <2>2. data \in Seq(Tokens)
    BY <1>5, PartIs
  <2>3. GoodH2(h2)
    <3>1. PICK q \in Seq(Tokens) : q = SubSeq(S, 1, i)
      BY <1>5, PrefixIs
    <3>2. \/ h2 = [seen |-> FALSE, buf |-> q]
          \/ h2 = [seen |-> TRUE, buf |-> <<>>]
      <4>1. i < 6 \/ i >= 6
        BY <2>1
      <4> QED
        BY <1>3, <3>1, <4>1 DEF Fed
    <3>3. PICK e \in Seq(Tokens) : e = <<>>
      BY EmptyTokens, Zenon
    <3>4. h2 = [seen |-> FALSE, buf |-> q] \/ h2 = [seen |-> TRUE, buf |-> e]
      BY <3>2, <3>3, Zenon
    <3>5. PICK T : T = Seq(Tokens)
      OBVIOUS
    <3>6. q \in T /\ e \in T
      BY <3>5
    <3>7. h2 \in [seen : BOOLEAN, buf : T]
      <4>1. CASE h2 = [seen |-> FALSE, buf |-> q]
        BY ONLY <3>6, <4>1
      <4>2. CASE h2 = [seen |-> TRUE, buf |-> e]
        BY ONLY <3>6, <4>2
      <4> QED
        BY <3>4, <4>1, <4>2
    <3> QED
      BY <3>5, <3>7, Zenon DEF GoodH2
  <2> QED
    BY <2>2, <2>3, FeedIsGood
<1>8. u \o r.sent = begin \o (sent \o r.sent)
  <2>1. IsSeq(begin) /\ IsSeq(sent)
    BY <1>6, Zenon DEF IsSeq
  <2>2. PICK x : x = r.sent
    OBVIOUS
  <2>3. IsSeq(x)
    BY <1>7, <2>2
  <2>4. (begin \o sent) \o x = begin \o (sent \o x)
    BY ONLY <2>1, <2>3, ThreeJoined
  <2> QED
    BY <1>3, <2>2, <2>4, Zenon
<1>9. DueOf(t) = Due(f, good, c)
  BY <1>1, DueOfIs
<1>10. ~r.err => Sending(t, S, j, r.h2, begin, u \o r.sent)
  BY <1>1, <1>4, <1>8 DEF Sending
<1> QED
  BY <1>4, <1>8, <1>9, <1>10

(* What has been sent is a beginning of what is due, and all of it at the  *)
(* end.                                                                    *)
LEMMA SendingIsDue ==
  ASSUME NEW t \in Talks, NEW S, Stream(S, t.frames, Good(t)), NEW i \in 0..Len(S),
         NEW h2, NEW u, NEW begin \in Seq(AllReplies), Sending(t, S, i, h2, begin, u)
  PROVE  IsPrefix(u, begin \o DueOf(t)) /\ (i = Len(S) => u = begin \o DueOf(t))
<1>1. PICK f, good, c : f = t.frames /\ good = Good(t) /\ c = SoundOf(t)
  OBVIOUS
<1>2. Stream(S, f, good) /\ Sound(f, c)
  BY <1>1, SoundIs
<1>3. PICK sent : Fed(S, f, good, c, i, h2, sent) /\ u = begin \o sent
  BY <1>1 DEF Sending
<1>4. PICK d : d = DueOf(t)
  OBVIOUS
<1>5. d = Due(f, good, c)
  BY <1>1, <1>4, DueOfIs
<1>6. /\ Len(sent) <= Len(d)
      /\ \A x \in 1..Len(sent) : sent[x] = d[x]
      /\ i = Len(S) => sent = d
  BY <1>2, <1>3, <1>5, FedIsDue
<1>7. sent \in Seq(AllReplies) /\ d \in Seq(AllReplies)
  BY <1>1, <1>3, <1>5, SendingIsSeq
<1>8. IsPrefix(u, begin \o d)
  <2>1. PICK a, b, e : a = Len(begin) /\ b = Len(sent) /\ e = Len(d)
    OBVIOUS
  <2>2. PICK w : w = begin \o d
    OBVIOUS
  <2>3. Joined(AllReplies, begin, sent, u, a, b)
    BY <1>3, <1>7, <2>1, JoinIs, Zenon
  <2>4. Joined(AllReplies, begin, d, w, a, e)
    BY <1>7, <2>1, <2>2, JoinIs, Zenon
  <2>5. PICK n \in Nat : n = a + b /\ a \in Nat /\ b \in Nat /\ e \in Nat /\ b <= e /\ n <= a + e
    BY <1>6, <2>1, <2>3, <2>4 DEF Joined
  <2>6. u \in Seq(AllReplies) /\ Len(u) = n /\ w \in Seq(AllReplies) /\ Len(w) = a + e
    BY <2>3, <2>4, <2>5 DEF Joined
  <2>7. PICK p : p = SubSeq(w, 1, n)
    OBVIOUS
  <2>8. p \in Seq(AllReplies) /\ Len(p) = n /\ \A x \in 1..n : p[x] = w[x]
    <3>1. n \in 0..Len(w)
      BY <2>5, <2>6
    <3> QED
      BY <2>6, <2>7, <3>1, PrefixIs
  <2>9. ASSUME NEW x \in 1..n PROVE u[x] = w[x]
    <3>1. CASE x <= a
      <4>1. x \in 1..a
        BY <2>5, <3>1
      <4> QED
        BY <2>3, <2>4, <4>1 DEF Joined
    <3>2. CASE ~(x <= a)
      <4>1. PICK y \in Nat : y = x - a /\ x = a + y /\ y \in 1..b /\ y \in 1..e
        BY <2>5, <3>2
      <4>2. u[a + y] = sent[y] /\ w[a + y] = d[y]
        BY <2>3, <2>4, <4>1 DEF Joined
      <4> QED
        BY <1>6, <2>1, <4>1, <4>2
    <3> QED
      BY <3>1, <3>2
  <2>10. u = p
    BY <2>6, <2>8, <2>9, SeqEqual
  <2>11. Len(u) <= Len(w)
    BY <2>5, <2>6
  <2>12. u = SubSeq(w, 1, Len(u))
    BY <2>6, <2>7, <2>10
  <2> QED
    BY <2>2, <2>11, <2>12 DEF IsPrefix
<1> QED
  BY <1>3, <1>4, <1>6, <1>8

--------------------------------------------------------------------------------
(***************************************************************************)
(* An HTTP/1 talk on plain TCP                                             *)
(***************************************************************************)

Pre(t, g) == SubSeq(Bytes(t), 1, g)

LEMMA PreIs ==
  ASSUME NEW t \in Talks, NEW g \in 0..Len(Bytes(t))
  PROVE  /\ g \in Nat /\ Pre(t, g) \in Seq(Tokens) /\ Len(Pre(t, g)) = g
         /\ Starts(Pre(t, g), Bytes(t), g)
<1>1. PICK B \in Seq(Tokens) : B = Bytes(t)
  BY BytesType
<1>2. g \in 0..Len(B)
  BY <1>1
<1>3. PICK p : p = SubSeq(B, 1, g)
  OBVIOUS
<1>4. Starts(p, B, g)
  BY <1>2, <1>3, StartsPrefix
<1> QED
  BY <1>1, <1>3, <1>4 DEF Pre, Starts

(* The next piece of a talk.                                               *)
LEMMA PieceIs ==
  ASSUME NEW t \in Talks, NEW j \in 0..Len(Bytes(t)), NEW g \in 0..j,
         NEW data, data = SubSeq(Bytes(t), g + 1, j)
  PROVE  data \in Seq(Tokens) /\ Pre(t, g) \o data = Pre(t, j)
<1>1. PICK B \in Seq(Tokens) : B = Bytes(t)
  BY BytesType
<1>2. j \in 0..Len(B) /\ data = SubSeq(B, g + 1, j)
  BY <1>1
<1>3. /\ data \in Seq(Tokens) /\ Len(data) = j - g
      /\ \A x \in 1..(j - g) : data[x] = B[g + x]
      /\ SubSeq(B, 1, g) \o data = SubSeq(B, 1, j)
  BY ONLY <1>2, B \in Seq(Tokens), g \in 0..j, PartIs
<1> QED
  BY <1>1, <1>3 DEF Pre

(* A connection on plain TCP with an HTTP/1 talk and a head that fits: its *)
(* state is S, g tokens have been delivered, u has been sent.              *)
PlainH1(t, g, f, S, u) ==
  IF S.closing THEN ~Pending(t, g) /\ (~f => u = Served(t))
  ELSE /\ Pending(t, g) /\ S.rxBuf = Pre(t, g) /\ u = <<>>
       /\ S.mode = IF g < HeadLen(t) THEN "unknown" ELSE "http1"

LEMMA ServeStep ==
  ASSUME NEW t \in Talks, t.line # "none", NEW j \in 0..Len(Bytes(t)), HeadLen(t) <= j,
         NEW st \in States, st.mode = "http1", ~st.closing, st.rxBuf = Pre(t, j),
         NEW f, NEW r \in ServeHTTP1Plain(st, f)
  PROVE  PlainH1(t, j, f, r.st, r.sent)
<1>1. PICK buf : buf = SubSeq(Bytes(t), 1, j)
  OBVIOUS
<1>2. PICK a : a = Http1(buf)
  OBVIOUS
<1>3. IF Pending(t, j) THEN a.k = "wait" ELSE a.k \in {"refuse", "answer"} /\ Answered(t, a)
  BY <1>1, <1>2, Http1Is
<1>4. a = Http1(st.rxBuf)
  BY <1>1, <1>2 DEF Pre
<1>5. PICK c : c = CloseConn(st)
  OBVIOUS
<1>6. c.closing = TRUE
  BY <1>5 DEF CloseConn, States
<1>7. ~(j < HeadLen(t))
  BY HeadLenType
<1>8. CASE Pending(t, j)
  <2>1. r = Done(st, <<>>)
    BY <1>3, <1>4, <1>8 DEF ServeHTTP1Plain
  <2>2. r.st = st /\ r.sent = <<>>
    BY <2>1 DEF Done
  <2> QED
    BY <1>7, <1>8, <2>2 DEF PlainH1
<1>9. CASE ~Pending(t, j) /\ a.k = "refuse"
  <2>1. r = Done(c, <<>>)
    BY <1>4, <1>5, <1>9 DEF ServeHTTP1Plain
  <2>2. r.st = c /\ r.sent = <<>>
    BY <2>1 DEF Done
  <2>3. Served(t) = <<>>
    BY <1>3, <1>9 DEF Answered
  <2> QED
    BY <1>6, <1>9, <2>2, <2>3 DEF PlainH1
<1>10. CASE ~Pending(t, j) /\ a.k = "answer"
  <2>1. PICK x : x = [a EXCEPT !.k = "h1"]
    OBVIOUS
  <2>2. PICK s \in Send(x, f) : r = Done(c, s)
    BY <1>4, <1>5, <1>10, <2>1 DEF ServeHTTP1Plain
  <2>3. r.st = c /\ r.sent = s
    BY <2>2 DEF Done
  <2>4. ~f => s = <<x>>
    BY <2>2 DEF Send
  <2>5. Served(t) = <<x>>
    BY <1>3, <1>10, <2>1 DEF Answered
  <2> QED
    BY <1>6, <1>10, <2>3, <2>4, <2>5 DEF PlainH1
<1> QED
  BY <1>3, <1>8, <1>9, <1>10

(* What dispatchPlain sees of a talk with a head.                          *)
LEMMA HeadSeen ==
  ASSUME NEW t \in Talks, t.line # "none", NEW j \in 0..Len(Bytes(t)), NEW buf, buf = Pre(t, j)
  PROVE  /\ ~HasPreface(buf)
         /\ j < HeadLen(t) => HeaderEnd(buf) = -1
         /\ j >= HeadLen(t) => /\ HeaderEnd(buf) \in Nat /\ HeaderEnd(buf) + 2 = HeadLen(t)
                               /\ DetectUpgrade(buf) <=> IsUpgrade(t)
<1>1. PICK m, B : m = Len(t.headers) /\ B = Bytes(t)
  OBVIOUS
<1>2. m \in Nat /\ Len(HeadOf(t)) = 2 * m + 3 /\ IsHead(B, t, m)
  BY <1>1, HeadOfBytes
<1>3. Starts(buf, B, j) /\ j \in Nat /\ buf \in Seq(Tokens) /\ Len(buf) = j
  BY <1>1, PreIs
<1>4. HeaderEnd(buf) = IF j < 2 * m + 3 THEN -1 ELSE 2 * m + 1
  BY <1>2, <1>3, HeaderEndIs
<1>5. HeadLen(t) = 2 * m + 3
  BY <1>2 DEF HeadLen
<1>6. ~HasPreface(buf)
  <2>1. SUFFICES ASSUME IsPrefix(Preface, buf) PROVE FALSE
    BY DEF HasPreface
  <2>2. Len(buf) >= 6 /\ buf[1].k = "pri"
    BY <1>3, <2>1, HasPrefaceIs
  <2>3. 1 \in 1..j
    BY <1>3, <2>2
  <2>4. buf[1] = Token(t.line)
    BY <1>2, <1>3, <2>3 DEF Starts, IsHead
  <2> QED
    BY <2>2, <2>4, TalkIs DEF TalkParts, Token
<1>7. j >= 2 * m + 3 => (DetectUpgrade(buf) <=> IsUpgrade(t))
  BY <1>1, <1>2, <1>3, DetectIs
<1>8. j \in Nat /\ m \in Nat
  BY <1>2, <1>3
<1> QED
  BY <1>4, <1>5, <1>6, <1>7, <1>8

LEMMA NothingBefore ==
  ASSUME NEW p, IsSeq(p)
  PROVE  <<>> \o p = p
<1>1. PICK S : p \in Seq(S)
  BY DEF IsSeq
<1> QED
  BY ONLY <1>1, ConcatEmptySeq

(* Bytes for a connection that is closing are dropped.                     *)
LEMMA ClosingStep ==
  ASSUME NEW S, S.closing, NEW data, NEW f, NEW r \in DispatchPlain(S, data, f)
  PROVE  r.st = S /\ r.sent = <<>>
<1>1. r = Done(S, <<>>)
  BY DEF DispatchPlain, IsClosing
<1> QED
  BY <1>1 DEF Done

LEMMA PlainH1Step ==
  ASSUME NEW t \in Talks, t.line # "none", ~IsUpgrade(t), HeadLen(t) <= MaxHead,
         NEW j \in 0..Len(Bytes(t)), NEW g \in 0..j,
         NEW data, data = SubSeq(Bytes(t), g + 1, j),
         NEW f, NEW S, GoodState(S), NEW u, IsSeq(u), PlainH1(t, g, f, S, u),
         NEW r \in DispatchPlain(S, data, f)
  PROVE  PlainH1(t, j, f, r.st, u \o r.sent)
<1>0. /\ S \in States /\ g \in Nat /\ j \in Nat /\ g <= j /\ j <= Len(Bytes(t))
      /\ HeadLen(t) \in Nat /\ Len(Bytes(t)) \in Nat /\ MaxHead \in Nat
  BY HeadLenType, DispatchAssumption DEF GoodState
<1>1. CASE S.closing
  <2>1. r.st = S /\ r.sent = <<>>
    BY <1>1, ClosingStep
  <2>2. u \o r.sent = u
    BY <2>1, NothingMore
  <2>3. ~Pending(t, g) /\ (~f => u = Served(t))
    BY <1>1 DEF PlainH1
  <2>4. ~Pending(t, j)
    BY <1>0, <2>3, StillSettled
  <2> QED
    BY <1>1, <2>1, <2>2, <2>3, <2>4 DEF PlainH1
<1>2. CASE ~S.closing
  <2>1. /\ Pending(t, g) /\ S.rxBuf = Pre(t, g) /\ u = <<>>
        /\ S.mode = IF g < HeadLen(t) THEN "unknown" ELSE "http1"
    BY <1>2 DEF PlainH1
  <2>2. data \in Seq(Tokens) /\ Pre(t, g) \o data = Pre(t, j)
    BY PieceIs
  <2>3. PICK buf : buf = Pre(t, j)
    OBVIOUS
  <2>4. buf \in Seq(Tokens) /\ Len(buf) = j
    BY <2>3, PreIs
  <2>5. PICK st : st = [S EXCEPT !.rxBuf = buf]
    OBVIOUS
  <2>6. st \in States /\ st.mode = S.mode /\ ~st.closing /\ st.rxBuf = buf
    BY ONLY <1>0, <1>2, <2>4, <2>5 DEF States
  <2>7. st = [S EXCEPT !.rxBuf = @ \o data]
    BY <2>1, <2>2, <2>3, <2>5
  <2>8. ASSUME NEW w \in States, w.mode = "http1", ~w.closing, w.rxBuf = buf,
               r \in ServeHTTP1Plain(w, f), HeadLen(t) <= j
        PROVE  PlainH1(t, j, f, r.st, u \o r.sent)
    <3>1. PlainH1(t, j, f, r.st, r.sent)
      BY <2>3, <2>8, ServeStep
    <3>2. IsSeq(r.sent)
      BY <2>8, ServeIsGood DEF GoodResult
    <3>3. u \o r.sent = r.sent
      BY <2>1, <3>2, NothingBefore
    <3> QED
      BY <3>1, <3>3
  <2>9. CASE g < HeadLen(t)
    <3>1. S.mode = "unknown"
      BY <2>1, <2>9
    <3>2. r \in IF HasPreface(buf)
                 THEN FeedPlain([st EXCEPT !.mode = "http2", !.rxBuf = <<>>], buf, <<>>, f)
               ELSE IF HeaderEnd(buf) = -1
                 THEN {Done(IF TooLong(buf) THEN CloseConn(st) ELSE st, <<>>)}
               ELSE IF DetectUpgrade(buf)
                 THEN BeginH2CUpgrade(st, HeaderEnd(buf) + 2, f)
               ELSE ServeHTTP1Plain([st EXCEPT !.mode = "http1"], f)
      BY <1>2, <2>6, <2>7, <3>1 DEF DispatchPlain, IsClosing
    <3>3. /\ ~HasPreface(buf)
          /\ j < HeadLen(t) => HeaderEnd(buf) = -1
          /\ j >= HeadLen(t) => HeaderEnd(buf) \in Nat /\ ~DetectUpgrade(buf)
      BY <2>3, HeadSeen
    <3>4. CASE j < HeadLen(t)
      <4>1. ~TooLong(buf)
        BY <1>0, <2>4, <3>4 DEF TooLong
      <4>2. r = Done(st, <<>>)
        BY <3>2, <3>3, <3>4, <4>1
      <4>3. r.st = st /\ r.sent = <<>>
        BY <4>2 DEF Done
      <4>4. u \o r.sent = <<>>
        BY <2>1, <4>3
      <4> QED
        BY <2>3, <2>6, <3>1, <3>4, <4>3, <4>4 DEF PlainH1, Pending
    <3>5. CASE ~(j < HeadLen(t))
      <4>1. PICK w : w = [st EXCEPT !.mode = "http1"]
        OBVIOUS
      <4>2. w \in States /\ w.mode = "http1" /\ ~w.closing /\ w.rxBuf = buf
        BY ONLY <2>6, <4>1 DEF States
      <4>3. HeaderEnd(buf) # -1 /\ ~DetectUpgrade(buf) /\ HeadLen(t) <= j
        BY <1>0, <3>3, <3>5
      <4>4. r \in ServeHTTP1Plain(w, f)
        BY <3>2, <3>3, <4>1, <4>3
      <4> QED
        BY <2>8, <4>2, <4>3, <4>4
    <3> QED
      BY <3>4, <3>5
  <2>10. CASE ~(g < HeadLen(t))
    <3>1. S.mode = "http1" /\ HeadLen(t) <= j
      BY <1>0, <2>1, <2>10
    <3>2. r \in ServeHTTP1Plain(st, f)
      BY <1>2, <2>7, <3>1 DEF DispatchPlain, IsClosing
    <3> QED
      BY <2>6, <2>8, <3>1, <3>2
  <2> QED
    BY <2>9, <2>10
<1> QED
  BY <1>1, <1>2

--------------------------------------------------------------------------------
(***************************************************************************)
(* An HTTP/2 talk on plain TCP                                             *)
(***************************************************************************)

(* feed has been called in state st, with sent sent by the same call       *)
(* before it and u altogether, and went on to token j of the stream S.     *)
FedPlain(t, S, j, st, begin, u, sent, r) ==
  \E w : /\ IsSeq(w) /\ r.sent = sent \o w
         /\ r.st \in States /\ r.st.mode = st.mode
         /\ r.st.closing => u \o w = begin \o DueOf(t)
         /\ ~r.st.closing => Sending(t, S, j, r.st.h2, begin, u \o w)

LEMMA FeedPlainStep ==
  ASSUME NEW t \in Talks, NEW S, Stream(S, t.frames, Good(t)),
         NEW j \in 0..Len(S), NEW i \in 0..j, NEW st \in States,
         NEW u, NEW begin \in Seq(AllReplies), Sending(t, S, i, st.h2, begin, u),
         NEW data, data = SubSeq(S, i + 1, j), NEW sent,
         NEW f, f = FALSE, NEW r \in FeedPlain(st, data, sent, f)
  PROVE  FedPlain(t, S, j, st, begin, u, sent, r)
<1>1. PICK x \in Feed(st.h2, data, f) :
        r = Done([st EXCEPT !.h2 = x.h2, !.closing = x.err], sent \o x.sent)
  BY DEF FeedPlain
<1>2. S \in Seq(Tokens) /\ GoodH2(st.h2)
  BY DEF Stream, States, GoodH2
<1>3. data \in Seq(Tokens)
  BY <1>2, PartIs
<1>4. GoodH2(x.h2) /\ IsSeq(x.sent) /\ x.err \in BOOLEAN
  BY <1>2, <1>3, FeedIsGood
<1>5. PICK n : n = [st EXCEPT !.h2 = x.h2, !.closing = x.err]
  OBVIOUS
<1>6. n \in States /\ n.mode = st.mode /\ n.h2 = x.h2 /\ n.closing = x.err
  BY <1>4, <1>5 DEF States, GoodH2
<1>7. r.st = n /\ r.sent = sent \o x.sent
  BY <1>1, <1>5 DEF Done
<1>8. x \in Feed(st.h2, data, FALSE)
  BY <1>1
<1>9. PICK h2 : h2 = st.h2
  OBVIOUS
<1>10. /\ x.err => u \o x.sent = begin \o DueOf(t)
       /\ ~x.err => Sending(t, S, j, x.h2, begin, u \o x.sent)
  BY <1>8, <1>9, SendingGoesOn
<1> QED
  BY <1>4, <1>6, <1>7, <1>10, Zenon DEF FedPlain

(* A talk without a head is a stream.                                      *)
LEMMA NoHead ==
  ASSUME NEW t \in Talks, t.line = "none"
  PROVE  /\ HeadLen(t) = 0 /\ Bytes(t) = Tail3(t)
         /\ Stream(Bytes(t), t.frames, Good(t))
         /\ \A i \in 1..Len(Bytes(t)) : Bytes(t)[i].k \notin HeaderKinds
         /\ ~Good(t) /\ Bytes(t) # <<>> => Bytes(t)[1].k \notin {"request", "short", "pri"}
<1>1. HeadOf(t) = <<>>
  BY DEF HeadOf
<1>2. PICK T : T = Tail3(t)
  OBVIOUS
<1>3. T \in Seq(Tokens) /\ Bytes(t) = HeadOf(t) \o T
  BY <1>2, TailIs DEF Stream
<1>4. Bytes(t) = T
  BY <1>1, <1>3, ConcatEmptySeq
<1>5. HeadLen(t) = 0
  BY <1>1, EmptySeq DEF HeadLen
<1> QED
  BY <1>2, <1>4, <1>5, TailIs

(* The end of a head is inside the buffer.                                 *)
LEMMA HeaderEndInside ==
  ASSUME NEW buf \in Seq(Tokens), HeaderEnd(buf) # -1
  PROVE  HeaderEnd(buf) \in 0..Len(buf) /\ HeaderEnd(buf) <= Len(buf)
<1>1. PICK end : end = HeaderEnd(buf)
  OBVIOUS
<1>2. PICK n \in Nat : n = Len(buf)
  OBVIOUS
<1>3. end \in 0..n
  <2>1. PICK ends : ends = {i \in 1..n - 1 : buf[i] = crlf /\ buf[i + 1] = crlf}
    OBVIOUS
  <2>2. end = IF ends = {} THEN -1 ELSE Min(ends) - 1
    BY <1>1, <1>2, <2>1 DEF HeaderEnd
  <2>3. ends # {}
    BY <1>1, <2>2
  <2>4. Min(ends) \in ends
    <3>1. ends \in SUBSET Nat
      BY <2>1
    <3> HIDE DEF Min
    <3> QED
      BY <2>3, <3>1, MinExists
  <2>5. Min(ends) \in 1..n - 1
    BY <2>1, <2>4
  <2> QED
    BY <1>2, <2>2, <2>3, <2>5
<1> QED
  BY <1>1, <1>2, <1>3

LEMMA NoRequest ==
  ASSUME NEW buf \in Seq(Tokens), HeaderEnd(buf) # -1, buf[1].k \notin {"request", "pri"}
  PROVE  Http1(buf) = Reply("refuse", 0)
<1>1. PICK end : end = HeaderEnd(buf)
  OBVIOUS
<1>2. PICK n \in Nat : n = Len(buf)
  OBVIOUS
<1>3. end \in 0..n
  BY <1>1, <1>2, HeaderEndInside
<1>4. PICK raw : raw = SubSeq(buf, 1, end)
  OBVIOUS
<1>5. raw \in Seq(Tokens) /\ Len(raw) = end /\ \A i \in 1..end : raw[i] = buf[i]
  <2>1. end \in 0..Len(buf)
    BY <1>2, <1>3
  <2> QED
    BY <1>4, <2>1, PrefixIs
<1>6. PICK req : req = Request(raw)
  OBVIOUS
<1>7. ~req.ok
  <2>1. SUFFICES ASSUME req.ok PROVE FALSE
    OBVIOUS
  <2>2. Len(raw) >= 2 /\ raw[1].k \in {"request", "pri"}
    BY <1>6, <2>1 DEF Request
  <2>3. 1 \in 1..end
    BY <1>3, <1>5, <2>2
  <2> QED
    BY <1>5, <2>2, <2>3
<1> QED
  BY <1>1, <1>4, <1>6, <1>7 DEF Http1

(* A connection on plain TCP with a talk without a head.                   *)
PlainH2(t, g, S, u) ==
  IF S.closing THEN u = DueOf(t)
  ELSE \/ /\ S.mode = "unknown" /\ S.rxBuf = Pre(t, g) /\ u = <<>>
          /\ S.h2 = NewH2 /\ (Good(t) => g < 3)
       \/ S.mode = "http2" /\ Good(t) /\ Sending(t, Bytes(t), g, S.h2, <<>>, u)

LEMMA DueIsSeq ==
  ASSUME NEW t \in Talks
  PROVE  IsSeq(DueOf(t))
<1>1. Stream(Tail3(t), t.frames, Good(t))
  BY TailIs
<1>2. PICK S : S = Tail3(t)
  OBVIOUS
<1>3. S \in Seq(Tokens)
  BY <1>1, <1>2 DEF Stream
<1>4. PICK c : c = SoundOf(t)
  OBVIOUS
<1>5. Sound(t.frames, c)
  BY <1>4, SoundIs
<1>6. c \in Nat
  <2>1. Len(t.frames) \in Nat
    BY TalkIs DEF TalkParts
  <2> QED
    BY <1>5, <2>1 DEF Sound
<1>7. Answers(t.frames, 0, c) \in Seq(Replies)
  <2>1. 0 \in Nat /\ 0 <= c
    BY <1>6
  <2> QED
    BY ONLY <1>6, <2>1, AnswersAre
<1>8. DueOf(t) = Answers(t.frames, 0, c) \/ DueOf(t) = <<>>
  BY <1>4, SoundIs DEF DueOf
<1> QED
  BY <1>7, <1>8, EmptyIsSeq, Zenon DEF IsSeq

LEMMA FedIsPlainH2 ==
  ASSUME NEW t \in Talks, Good(t), NEW j, NEW st, st.mode = "http2", NEW u, NEW r,
         FedPlain(t, Bytes(t), j, st, <<>>, u, <<>>, r)
  PROVE  PlainH2(t, j, r.st, u \o r.sent)
<1>1. PICK w : /\ IsSeq(w) /\ r.sent = <<>> \o w
               /\ r.st \in States /\ r.st.mode = st.mode
               /\ r.st.closing => u \o w = <<>> \o DueOf(t)
               /\ ~r.st.closing => Sending(t, Bytes(t), j, r.st.h2, <<>>, u \o w)
  BY DEF FedPlain
<1>2. r.sent = w
  BY <1>1, NothingBefore
<1>3. <<>> \o DueOf(t) = DueOf(t)
  BY DueIsSeq, NothingBefore
<1> QED
  BY <1>1, <1>2, <1>3 DEF PlainH2

LEMMA EmptyReplies == <<>> \in Seq(AllReplies)
<1> HIDE DEF AllReplies
<1>1. PICK T : T = AllReplies
  OBVIOUS
<1>2. <<>> \in Seq(T)
  OBVIOUS
<1> QED
  BY <1>1, <1>2

(* Too short to have the end of a head in it.                              *)
LEMMA NoHeaderEnd ==
  ASSUME NEW buf \in Seq(Tokens), Len(buf) < 2 \/ (Len(buf) = 2 /\ buf[1] # crlf)
  PROVE  HeaderEnd(buf) = -1
<1>1. PICK n \in Nat : n = Len(buf)
  OBVIOUS
<1>2. \A i \in 1..n - 1 : ~(buf[i] = crlf /\ buf[i + 1] = crlf)
  BY <1>1
<1>3. {i \in 1..n - 1 : buf[i] = crlf /\ buf[i + 1] = crlf} = {}
  BY <1>2
<1> QED
  BY <1>1, <1>3 DEF HeaderEnd

(* A buffer that does not begin with the preface, of a good stream.        *)
LEMMA GoodSeen ==
  ASSUME NEW t \in Talks, t.line = "none", Good(t), NEW j \in 0..Len(Bytes(t)),
         NEW buf, buf = Pre(t, j), ~HasPreface(buf),
         buf \notin {SubSeq(Preface, 1, i) : i \in 3..5}
  PROVE  j < 3 /\ HeaderEnd(buf) = -1 /\ ~TooLong(buf)
<1>1. PICK B : B = Bytes(t)
  OBVIOUS
<1>2. Stream(B, t.frames, TRUE)
  BY <1>1, NoHead, TailIs DEF Stream
<1>3. /\ B \in Seq(Tokens) /\ Len(B) = 6 + Len(t.frames)
      /\ \A i \in 1..6 : B[i] = Preface[i]
  BY <1>2 DEF Stream
<1>4. Starts(buf, B, j) /\ j \in Nat /\ buf \in Seq(Tokens) /\ Len(buf) = j
  BY <1>1, PreIs
<1>5. \A i \in 1..j : buf[i] = B[i]
  BY <1>4 DEF Starts
<1>6. ~(j >= 6)
  <2>1. SUFFICES ASSUME j >= 6 PROVE FALSE
    OBVIOUS
  <2>2. \A i \in 1..6 : buf[i] = Preface[i]
    <3>1. \A i \in 1..6 : i \in 1..j
      BY <1>4, <2>1
    <3> QED
      BY <1>3, <1>5, <3>1
  <2> QED
    BY <1>4, <2>1, <2>2, HasPrefaceIs DEF HasPreface
<1>7. j \notin 3..5
  <2>1. SUFFICES ASSUME j \in 3..5 PROVE FALSE
    OBVIOUS
  <2>2. PICK p : p = SubSeq(Preface, 1, j)
    OBVIOUS
  <2>3. p \in Seq(Tokens) /\ Len(p) = j /\ \A i \in 1..j : p[i] = Preface[i]
    <3>1. j \in 0..Len(Preface) /\ Preface \in Seq(Tokens)
      BY <2>1, PrefaceIs
    <3> QED
      BY ONLY <2>2, <3>1, PrefixIs
  <2>4. \A i \in 1..j : buf[i] = p[i]
    <3>1. \A i \in 1..j : i \in 1..6
      BY <2>1
    <3> QED
      BY <1>3, <1>5, <2>3, <3>1
  <2>5. buf = p
    BY <1>4, <2>3, <2>4, SeqEqual
  <2> QED
    BY <2>1, <2>2, <2>5
<1>8. j < 3
  BY <1>4, <1>6, <1>7
<1>9. HeaderEnd(buf) = -1
  <2>1. j < 2 \/ j = 2
    BY <1>4, <1>8
  <2>2. j = 2 => buf[1] # crlf
    <3>1. 1 \in 1..6 /\ (j = 2 => 1 \in 1..j)
      OBVIOUS
    <3>2. Preface[1] # crlf
      BY PrefaceIs DEF Token, crlf
    <3> QED
      BY <1>3, <1>5, <3>1, <3>2
  <2> QED
    BY <1>4, <2>1, <2>2, NoHeaderEnd
<1>10. ~(j > MaxHead)
  BY <1>4, <1>8, DispatchAssumption
<1> QED
  BY <1>4, <1>8, <1>9, <1>10 DEF TooLong

(* And of one that is not: no head in it is a request.                     *)
LEMMA BadSeen ==
  ASSUME NEW t \in Talks, t.line = "none", ~Good(t), NEW j \in 0..Len(Bytes(t)),
         NEW buf, buf = Pre(t, j)
  PROVE  /\ ~HasPreface(buf)
         /\ HeaderEnd(buf) # -1 => ~DetectUpgrade(buf) /\ Http1(buf) = Reply("refuse", 0)
<1>1. PICK B : B = Bytes(t)
  OBVIOUS
<1>2. /\ B # <<>> => B[1].k \notin {"request", "short", "pri"}
      /\ \A i \in 1..Len(B) : B[i].k \notin HeaderKinds
      /\ B \in Seq(Tokens)
  BY <1>1, NoHead, BytesType
<1>3. Starts(buf, B, j) /\ j \in Nat /\ buf \in Seq(Tokens) /\ Len(buf) = j
  BY <1>1, PreIs
<1>4. \A i \in 1..j : buf[i] = B[i]
  BY <1>3 DEF Starts
<1>5. j <= Len(B) /\ Len(B) \in Nat
  BY <1>1, <1>2
<1>6. j >= 1 => buf[1].k \notin {"request", "short", "pri"}
  <2>1. j >= 1 => 1 \in 1..j /\ B # <<>>
    BY <1>2, <1>3, <1>5
  <2> QED
    BY <1>2, <1>4, <2>1
<1>7. ~HasPreface(buf)
  <2>1. IsPrefix(Preface, buf) => Len(buf) >= 6 /\ buf[1].k = "pri"
    BY <1>3, HasPrefaceIs
  <2> QED
    BY <1>3, <1>6, <2>1 DEF HasPreface
<1>8. ASSUME HeaderEnd(buf) # -1 PROVE ~DetectUpgrade(buf) /\ Http1(buf) = Reply("refuse", 0)
  <2>1. j >= 1
    BY <1>3, <1>8, NoHeaderEnd
  <2>2. Http1(buf) = Reply("refuse", 0)
    BY <1>3, <1>6, <1>8, <2>1, NoRequest
  <2>3. ~DetectUpgrade(buf)
    <3>1. PICK end : end = HeaderEnd(buf)
      OBVIOUS
    <3>2. end \in Nat
      BY <1>3, <1>8, <3>1, HeaderEndType
    <3>3. PICK head : head = SubSeq(buf, 1, end)
      OBVIOUS
    <3>4. \A i \in 2..Len(head) : head[i].k \notin HeaderKinds
      <4>1. end <= j
        BY <1>3, <3>1, <3>2, HeaderEndInside
      <4>2. end \in 0..Len(buf)
        BY <1>3, <3>2, <4>1
      <4>3. Len(head) = end /\ \A i \in 1..end : head[i] = buf[i]
        BY <1>3, <3>3, <4>2, PrefixIs
      <4>4. \A i \in 2..end : i \in 1..end /\ i \in 1..j /\ i \in 1..Len(B)
        BY <1>3, <1>5, <3>2, <4>1
      <4> QED
        BY <1>2, <1>4, <4>3, <4>4
    <3>5. ~\E i \in 2..Len(head) : head[i - 1] = crlf /\ head[i].k = "upgrade"
      BY <3>4 DEF HeaderKinds
    <3> QED
      BY <3>1, <3>3, <3>5 DEF DetectUpgrade
  <2> QED
    BY <2>2, <2>3
<1> QED
  BY <1>7, <1>8

(* The read ended within the preface.                                      *)
Halfway(S, data) ==
  S.mode = "unknown" /\ S.rxBuf \o data \in {SubSeq(Preface, 1, i) : i \in 3..5}

(* What there is of it is taken for a head of HTTP/1 and refused.          *)
LEMMA HalfwayStep ==
  ASSUME NEW S, GoodState(S), ~S.closing, NEW data \in Seq(Tokens), Halfway(S, data),
         NEW f, NEW r \in DispatchPlain(S, data, f)
  PROVE  r.st.closing = TRUE /\ r.sent = <<>>
<1>0. PICK i \in 3..5 : S.rxBuf \o data = SubSeq(Preface, 1, i)
  BY DEF Halfway
<1>1. S \in States /\ S.mode = "unknown"
  BY DEF GoodState, Halfway
<1>2. PICK buf : buf = S.rxBuf \o data /\ buf = SubSeq(Preface, 1, i)
  BY <1>0
<1>3. buf \in Seq(Tokens) /\ Len(buf) = i /\ \A x \in 1..i : buf[x] = Preface[x]
  <2>1. i \in 0..Len(Preface) /\ Preface \in Seq(Tokens)
    BY PrefaceIs
  <2> QED
    BY ONLY <1>2, <2>1, PrefixIs
<1>4. buf[1] # crlf /\ buf[2] = crlf /\ buf[3] = crlf
  <2>1. Preface[1] # crlf
    BY PrefaceIs DEF Token, crlf
  <2>2. 1 \in 1..i /\ 2 \in 1..i /\ 3 \in 1..i
    OBVIOUS
  <2> QED
    BY <1>3, <2>1, <2>2, PrefaceIs
<1>5. ~HasPreface(buf)
  BY <1>3, HasPrefaceIs DEF HasPreface
<1>6. HeaderEnd(buf) = 1
  <2>1. PICK ends : ends = {x \in 1..i - 1 : buf[x] = crlf /\ buf[x + 1] = crlf}
    OBVIOUS
  <2>2. 2 \in ends /\ ends \subseteq Nat /\ \A x \in ends : 2 <= x
    BY <1>4, <2>1
  <2>3. Min(ends) = 2
    <3>1. ends \in SUBSET Nat /\ ends # {}
      BY <2>2
    <3>2. PICK m : m = Min(ends) /\ m \in ends /\ \A x \in ends : m <= x
      BY <3>1, MinExists
    <3>3. m <= 2 /\ 2 <= m /\ m \in Nat
      BY <2>2, <3>2
    <3> QED
      BY ONLY <3>2, <3>3
  <2>4. HeaderEnd(buf) = Min(ends) - 1
    BY <1>3, <2>1, <2>2 DEF HeaderEnd
  <2> QED
    BY <2>3, <2>4
<1>7. PICK raw : raw = SubSeq(buf, 1, 1)
  OBVIOUS
<1>8. Len(raw) = 1
  <2>1. 1 \in 0..Len(buf)
    BY <1>3
  <2> QED
    BY ONLY <1>3, <1>7, <2>1, PrefixIs
<1>9. ~DetectUpgrade(buf)
  BY <1>6, <1>7, <1>8 DEF DetectUpgrade
<1>10. Http1(buf) = Reply("refuse", 0)
  <2>1. ~Request(raw).ok
    BY <1>8 DEF Request
  <2> QED
    BY <1>6, <1>7, <2>1 DEF Http1
<1>11. PICK st : st = [S EXCEPT !.rxBuf = buf]
  OBVIOUS
<1>12. /\ st \in States /\ st.rxBuf = buf /\ st = [S EXCEPT !.rxBuf = @ \o data]
  BY ONLY <1>1, <1>2, <1>3, <1>11 DEF States
<1>13. PICK v : v = [st EXCEPT !.mode = "http1"]
  OBVIOUS
<1>14. v \in States /\ v.rxBuf = buf
  BY ONLY <1>12, <1>13 DEF States
<1>15. r \in ServeHTTP1Plain(v, f)
  <2>1. PICK w : w = [st EXCEPT !.mode = "http2", !.rxBuf = <<>>]
    OBVIOUS
  <2>2. r \in IF HasPreface(buf) THEN FeedPlain(w, buf, <<>>, f)
              ELSE IF HeaderEnd(buf) = -1
                THEN {Done(IF TooLong(buf) THEN CloseConn(st) ELSE st, <<>>)}
              ELSE IF DetectUpgrade(buf)
                THEN BeginH2CUpgrade(st, HeaderEnd(buf) + 2, f)
              ELSE ServeHTTP1Plain(v, f)
    BY <1>1, <1>12, <1>13, <2>1 DEF DispatchPlain, IsClosing
  <2> QED
    BY <1>5, <1>6, <1>9, <2>2
<1>16. PICK a : a = Http1(v.rxBuf)
  OBVIOUS
<1>17. a.k = "refuse"
  BY <1>10, <1>14, <1>16 DEF Reply
<1>18. r = Done(CloseConn(v), <<>>)
  BY <1>15, <1>16, <1>17 DEF ServeHTTP1Plain
<1>19. r.st = CloseConn(v) /\ r.sent = <<>>
  BY <1>18 DEF Done
<1> QED
  BY ONLY <1>14, <1>19 DEF CloseConn, States

LEMMA PlainH2Step ==
  ASSUME NEW t \in Talks, t.line = "none",
         NEW j \in 0..Len(Bytes(t)), NEW g \in 0..j,
         NEW data, data = SubSeq(Bytes(t), g + 1, j),
         NEW f, f = FALSE, NEW S, GoodState(S), NEW u, IsSeq(u), PlainH2(t, g, S, u),
         ~Halfway(S, data), NEW r \in DispatchPlain(S, data, f)
  PROVE  PlainH2(t, j, r.st, u \o r.sent)
<1>0. S \in States /\ S.closing \in BOOLEAN
  BY DEF GoodState, States
<1>1. CASE S.closing
  <2>1. r.st = S /\ r.sent = <<>>
    BY <1>1, ClosingStep
  <2>2. u \o r.sent = u
    BY <2>1, NothingMore
  <2> QED
    BY <1>1, <2>1, <2>2 DEF PlainH2
<1>2. CASE ~S.closing /\ S.mode = "http2"
  <2>1. Good(t) /\ Sending(t, Bytes(t), g, S.h2, <<>>, u)
    BY <1>2 DEF PlainH2
  <2>2. r \in FeedPlain(S, data, <<>>, f)
    BY <1>2 DEF DispatchPlain, IsClosing
  <2>3. Stream(Bytes(t), t.frames, Good(t))
    BY NoHead
  <2>4. FedPlain(t, Bytes(t), j, S, <<>>, u, <<>>, r)
    BY <1>0, <2>1, <2>2, <2>3, EmptyReplies, FeedPlainStep
  <2> QED
    BY <1>2, <2>1, <2>4, FedIsPlainH2
<1>3. CASE ~S.closing /\ S.mode # "http2"
  <2>1. S.mode = "unknown" /\ S.rxBuf = Pre(t, g) /\ u = <<>> /\ S.h2 = NewH2
    BY <1>3 DEF PlainH2
  <2>2. data \in Seq(Tokens) /\ Pre(t, g) \o data = Pre(t, j)
    BY PieceIs
  <2>3. PICK buf : buf = Pre(t, j)
    OBVIOUS
  <2>4. buf \in Seq(Tokens) /\ Len(buf) = j
    BY <2>3, PreIs
  <2>5. PICK st : st = [S EXCEPT !.rxBuf = buf]
    OBVIOUS
  <2>6. st \in States /\ st.mode = "unknown" /\ ~st.closing /\ st.rxBuf = buf /\ st.h2 = S.h2
    BY ONLY <1>0, <1>3, <2>1, <2>4, <2>5 DEF States
  <2>7. st = [S EXCEPT !.rxBuf = @ \o data]
    BY <2>1, <2>2, <2>3, <2>5
  <2>8. PICK w : w = [st EXCEPT !.mode = "http2", !.rxBuf = <<>>]
    OBVIOUS
  <2>9. PICK v : v = [st EXCEPT !.mode = "http1"]
    OBVIOUS
  <2>10. r \in IF HasPreface(buf) THEN FeedPlain(w, buf, <<>>, f)
               ELSE IF HeaderEnd(buf) = -1
                 THEN {Done(IF TooLong(buf) THEN CloseConn(st) ELSE st, <<>>)}
               ELSE IF DetectUpgrade(buf)
                 THEN BeginH2CUpgrade(st, HeaderEnd(buf) + 2, f)
               ELSE ServeHTTP1Plain(v, f)
    BY <1>3, <2>1, <2>6, <2>7, <2>8, <2>9 DEF DispatchPlain, IsClosing
  <2>11. buf \notin {SubSeq(Preface, 1, i) : i \in 3..5}
    BY <2>1, <2>2, <2>3 DEF Halfway
  <2>12. <<>> \o <<>> = <<>>
    BY EmptyIsSeq, NothingMore
  <2>13. ASSUME NEW x \in States, r = Done(CloseConn(x), <<>>), ~Good(t)
         PROVE  PlainH2(t, j, r.st, u \o r.sent)
    <3>1. r.st = CloseConn(x) /\ r.sent = <<>>
      BY <2>13 DEF Done
    <3>2. r.st.closing = TRUE
      BY <2>13, <3>1 DEF CloseConn, States
    <3>3. DueOf(t) = <<>>
      BY <2>13 DEF DueOf
    <3> QED
      BY <2>1, <2>12, <3>1, <3>2, <3>3 DEF PlainH2
  <2>14. ASSUME r = Done(st, <<>>), Good(t) => j < 3
         PROVE  PlainH2(t, j, r.st, u \o r.sent)
    <3>1. r.st = st /\ r.sent = <<>>
      BY <2>14 DEF Done
    <3> QED
      BY <2>1, <2>3, <2>6, <2>12, <2>14, <3>1 DEF PlainH2
  <2>15. CASE HasPreface(buf)
    <3>1. Good(t)
      BY <2>3, <2>15, BadSeen
    <3>2. r \in FeedPlain(w, buf, <<>>, f)
      BY <2>10, <2>15
    <3>3. w \in States /\ w.mode = "http2" /\ w.h2 = NewH2
      <4>1. PICK e \in Seq(Tokens) : e = <<>>
        BY EmptyTokens, Zenon
      <4>2. w = [st EXCEPT !.mode = "http2", !.rxBuf = e]
        BY <2>8, <4>1, Zenon
      <4>3. w \in States /\ w.mode = "http2" /\ w.h2 = st.h2
        BY ONLY <2>6, <4>2, e \in Seq(Tokens) DEF States
      <4> QED
        BY <2>1, <2>6, <4>3
    <3>4. PICK B : B = Bytes(t)
      OBVIOUS
    <3>5. Stream(B, t.frames, Good(t))
      BY <3>4, NoHead
    <3>6. Sending(t, B, 0, w.h2, <<>>, u)
      BY <2>1, <3>3, <3>5, EmptyReplies, SendingStarts
    <3>7. buf = SubSeq(B, 0 + 1, j) /\ j \in 0..Len(B) /\ 0 \in 0..j
      <4>1. j \in Nat /\ 0 + 1 = 1
        BY PreIs
      <4> QED
        BY <2>3, <3>4, <4>1 DEF Pre
    <3>8. FedPlain(t, B, j, w, <<>>, u, <<>>, r)
      BY <3>2, <3>3, <3>5, <3>6, <3>7, EmptyReplies, FeedPlainStep
    <3> QED
      BY <3>1, <3>3, <3>4, <3>8, FedIsPlainH2
  <2>16. CASE ~HasPreface(buf) /\ Good(t)
    <3>1. j < 3 /\ HeaderEnd(buf) = -1 /\ ~TooLong(buf)
      BY <2>3, <2>11, <2>16, GoodSeen
    <3>2. r = Done(st, <<>>)
      BY <2>10, <2>16, <3>1
    <3> QED
      BY <2>14, <3>1, <3>2
  <2>17. CASE ~HasPreface(buf) /\ ~Good(t)
    <3>1. HeaderEnd(buf) # -1 => ~DetectUpgrade(buf) /\ Http1(buf) = Reply("refuse", 0)
      BY <2>3, <2>17, BadSeen
    <3>2. CASE HeaderEnd(buf) = -1
      <4>1. r = Done(CloseConn(st), <<>>) \/ r = Done(st, <<>>)
        BY <2>10, <2>17, <3>2
      <4> QED
        BY <2>6, <2>13, <2>14, <2>17, <4>1
    <3>3. CASE HeaderEnd(buf) # -1
      <4>1. v \in States /\ v.rxBuf = buf
        BY ONLY <2>6, <2>9 DEF States
      <4>2. r \in ServeHTTP1Plain(v, f)
        BY <2>10, <2>17, <3>1, <3>3
      <4>3. PICK a : a = Http1(v.rxBuf)
        OBVIOUS
      <4>4. a.k = "refuse"
        BY <3>1, <3>3, <4>1, <4>3 DEF Reply
      <4>5. r = Done(CloseConn(v), <<>>)
        BY <4>2, <4>3, <4>4 DEF ServeHTTP1Plain
      <4> QED
        BY <2>13, <2>17, <4>1, <4>5
    <3> QED
      BY <3>2, <3>3
  <2> QED
    BY <2>15, <2>16, <2>17
<1> QED
  BY <1>0, <1>1, <1>2, <1>3

--------------------------------------------------------------------------------
(***************************************************************************)
(* An upgrade on plain TCP                                                 *)
(***************************************************************************)

Begun == <<Reply("101", 0), Reply("settings", 0), Reply("h2", 0)>>

(* A connection on plain TCP whose talk asks for the upgrade in a head     *)
(* that fits.                                                              *)
PlainUp(t, g, S, u) ==
  IF S.closing THEN u = IF Parses(t) THEN Begun \o DueOf(t) ELSE <<>>
  ELSE IF g < HeadLen(t) THEN S.mode = "unknown" /\ S.rxBuf = Pre(t, g) /\ u = <<>>
  ELSE /\ S.mode = "http2" /\ Parses(t)
       /\ Sending(t, Tail3(t), g - HeadLen(t), S.h2, Begun, u)

LEMMA BegunIs ==
  /\ Begun \in Seq(AllReplies)
  /\ Begun = (<<Reply("101", 0)>> \o <<Reply("settings", 0)>>) \o <<Reply("h2", 0)>>
<1>1. PICK a, b, c : a = Reply("101", 0) /\ b = Reply("settings", 0) /\ c = Reply("h2", 0)
  OBVIOUS
<1>2. a \in AllReplies /\ b \in AllReplies /\ c \in AllReplies
  BY <1>1 DEF AllReplies, Replies
<1>3. Begun = <<a, b, c>>
  BY <1>1 DEF Begun
<1>4. PICK T : T = AllReplies
  OBVIOUS
<1>5. <<a, b, c>> \in Seq(T)
  BY ONLY <1>2, <1>4
<1>6. PICK p \in Seq(T), q \in Seq(T), r \in Seq(T), d \in Seq(T), e \in Seq(T) :
        p = <<a>> /\ q = <<b>> /\ r = <<c>> /\ d = <<a, b>> /\ e = <<a, b, c>>
  <2>1. /\ <<a>> \in Seq(T) /\ <<b>> \in Seq(T) /\ <<c>> \in Seq(T)
        /\ <<a, b>> \in Seq(T) /\ <<a, b, c>> \in Seq(T)
    BY ONLY <1>2, <1>4
  <2> QED
    BY ONLY <2>1, Zenon
<1>7. /\ Len(p) = 1 /\ p[1] = a /\ Len(q) = 1 /\ q[1] = b /\ Len(r) = 1 /\ r[1] = c
      /\ Len(d) = 2 /\ d[1] = a /\ d[2] = b
      /\ Len(e) = 3 /\ e[1] = a /\ e[2] = b /\ e[3] = c
  BY ONLY <1>6
<1>8. p \o q = d
  <2>1. PICK x : x = p \o q
    OBVIOUS
  <2>2. Joined(T, p, q, x, 1, 1)
    BY <1>7, <2>1, JoinIs
  <2>3. x \in Seq(T) /\ Len(x) = 2 /\ x[1] = a /\ x[2] = b
    BY <1>7, <2>2 DEF Joined
  <2>4. \A i \in 1..Len(x) : x[i] = d[i]
    BY <1>7, <2>3
  <2> QED
    BY <1>7, <2>1, <2>3, <2>4, SeqEqual
<1>9. d \o r = e
  <2>1. PICK x : x = d \o r
    OBVIOUS
  <2>2. Joined(T, d, r, x, 2, 1)
    BY <1>7, <2>1, JoinIs
  <2>3. x \in Seq(T) /\ Len(x) = 3 /\ x[1] = a /\ x[2] = b /\ x[3] = c
    BY <1>7, <2>2 DEF Joined
  <2>4. \A i \in 1..Len(x) : x[i] = e[i]
    BY <1>7, <2>3
  <2> QED
    BY <1>7, <2>1, <2>3, <2>4, SeqEqual
<1> QED
  BY <1>1, <1>3, <1>4, <1>5, <1>6, <1>8, <1>9

(* Tokens of a talk from beyond its head are tokens of what follows it.    *)
LEMMA BeyondHead ==
  ASSUME NEW t \in Talks, NEW T, T = Tail3(t), NEW B, B = Bytes(t), NEW h, h = HeadLen(t)
  PROVE  /\ B \in Seq(Tokens) /\ T \in Seq(Tokens) /\ h \in Nat
         /\ Len(T) \in Nat /\ Len(B) = h + Len(T)
         /\ \A x \in 1..Len(T) : B[h + x] = T[x]
<1>1. PICK H : H = HeadOf(t)
  OBVIOUS
<1>2. Stream(T, t.frames, Good(t)) /\ B = H \o T
  BY <1>1, TailIs
<1>3. T \in Seq(Tokens)
  BY <1>2 DEF Stream
<1>4. H \in Seq(Tokens)
  <2>1. CASE t.line = "none"
    BY <1>1, <2>1, EmptyTokens DEF HeadOf
  <2>2. CASE t.line # "none"
    BY <1>1, <2>2, HeadIs
  <2> QED
    BY <2>1, <2>2
<1>5. PICK n : n = Len(T)
  OBVIOUS
<1>6. h = Len(H)
  BY <1>1 DEF HeadLen
<1>7. Joined(Tokens, H, T, B, h, n)
  BY <1>2, <1>3, <1>4, <1>5, <1>6, JoinIs, Zenon
<1> QED
  BY <1>3, <1>5, <1>7 DEF Joined

LEMMA TailPiece ==
  ASSUME NEW t \in Talks, NEW j \in 0..Len(Bytes(t)), NEW i \in HeadLen(t)..j
  PROVE  /\ i - HeadLen(t) \in Nat /\ j - HeadLen(t) \in Nat
         /\ j - HeadLen(t) \in 0..Len(Tail3(t)) /\ i - HeadLen(t) \in 0..(j - HeadLen(t))
         /\ SubSeq(Bytes(t), i + 1, j) =
              SubSeq(Tail3(t), (i - HeadLen(t)) + 1, j - HeadLen(t))
<1>0. PICK T, B, h : /\ T = Tail3(t) /\ B = Bytes(t) /\ h = HeadLen(t)
                     /\ j \in 0..Len(B) /\ i \in h..j
  OBVIOUS
<1>1. /\ B \in Seq(Tokens) /\ T \in Seq(Tokens) /\ h \in Nat
      /\ Len(T) \in Nat /\ Len(B) = h + Len(T)
      /\ \A x \in 1..Len(T) : B[h + x] = T[x]
  BY <1>0, BeyondHead
<1>2. PICK a \in Nat, b \in Nat : /\ a = i - h /\ b = j - h /\ a <= b /\ b <= Len(T)
                                  /\ i = h + a /\ b - a = j - i /\ i \in 0..j
                                  /\ j = h + b
  <2>1. PICK n \in Nat : n = Len(T) /\ Len(B) = h + n
    BY <1>1
  <2>2. j \in 0..(h + n)
    BY <1>0, <2>1
  <2>3. PICK k \in Nat : k = h
    BY <1>1
  <2>4. j \in 0..(k + n) /\ i \in k..j
    BY <1>0, <2>2, <2>3
  <2>5. /\ i - k \in Nat /\ j - k \in Nat /\ i - k <= j - k /\ j - k <= n
        /\ i = k + (i - k) /\ (j - k) - (i - k) = j - i /\ i \in 0..j /\ j = k + (j - k)
    BY ONLY <2>4, n \in Nat, k \in Nat
  <2> QED
    BY ONLY <2>1, <2>3, <2>5
<1>3. PICK p : p = SubSeq(B, i + 1, j)
  OBVIOUS
<1>4. p \in Seq(Tokens) /\ Len(p) = j - i /\ \A x \in 1..(j - i) : p[x] = B[i + x]
  <2>1. B \in Seq(Tokens) /\ j \in 0..Len(B) /\ i \in 0..j
    BY <1>0, <1>1, <1>2
  <2> HIDE DEF Tokens
  <2> QED
    BY ONLY <1>3, <2>1, PartIs
<1>5. PICK q : q = SubSeq(T, a + 1, b)
  OBVIOUS
<1>6. q \in Seq(Tokens) /\ Len(q) = b - a /\ \A x \in 1..(b - a) : q[x] = T[a + x]
  <2>1. T \in Seq(Tokens) /\ b \in 0..Len(T) /\ a \in 0..b
    BY <1>1, <1>2
  <2> HIDE DEF Tokens
  <2> QED
    BY ONLY <1>5, <2>1, PartIs
<1>7. ASSUME NEW x \in 1..(b - a) PROVE p[x] = q[x]
  <2>1. a + x \in 1..Len(T) /\ h + (a + x) = i + x /\ x \in 1..(j - i)
    BY ONLY <1>1, <1>2, x \in 1..(b - a)
  <2>2. B[h + (a + x)] = T[a + x]
    BY <1>1, <2>1
  <2> QED
    BY <1>4, <1>6, <2>1, <2>2
<1>8. p = q
  <2>1. Len(p) = Len(q) /\ \A x \in 1..Len(p) : p[x] = q[x]
    BY <1>2, <1>4, <1>6, <1>7
  <2> QED
    BY <1>4, <1>6, <2>1, SeqEqual
<1>9. SubSeq(B, i + 1, j) = SubSeq(T, (i - h) + 1, j - h)
  BY <1>2, <1>3, <1>5, <1>8, Zenon
<1>10. b \in 0..Len(T) /\ a \in 0..b /\ a \in Nat /\ b \in Nat
  BY ONLY <1>1, <1>2
<1>11. i - h = a /\ j - h = b
  BY <1>2
<1> QED
  BY ONLY <1>0, <1>9, <1>10, <1>11

(* What is left over of a buffer after its head.                           *)
LEMMA LeftoverIs ==
  ASSUME NEW t \in Talks, NEW T, T = Tail3(t), NEW h, h = HeadLen(t),
         NEW j \in 0..Len(Bytes(t)), h <= j, NEW buf, buf = Pre(t, j)
  PROVE  SubSeq(buf, h + 1, Len(buf)) = SubSeq(T, 0 + 1, j - h)
<1>1. PICK B : B = Bytes(t)
  OBVIOUS
<1>2. B \in Seq(Tokens) /\ h \in Nat /\ j \in Nat /\ j \in 0..Len(B) /\ h \in 0..j
  BY <1>1, BeyondHead
<1>3. Starts(buf, B, j) /\ buf \in Seq(Tokens) /\ Len(buf) = j
  BY <1>1, PreIs
<1>4. PICK p : p = SubSeq(buf, h + 1, j)
  OBVIOUS
<1>5. p \in Seq(Tokens) /\ Len(p) = j - h /\ \A x \in 1..(j - h) : p[x] = buf[h + x]
  <2>1. j \in 0..Len(buf)
    BY <1>2, <1>3
  <2> QED
    BY ONLY <1>2, <1>3, <1>4, <2>1, PartIs
<1>6. PICK q : q = SubSeq(B, h + 1, j)
  OBVIOUS
<1>7. q \in Seq(Tokens) /\ Len(q) = j - h /\ \A x \in 1..(j - h) : q[x] = B[h + x]
  BY ONLY <1>2, <1>6, PartIs
<1>8. ASSUME NEW x \in 1..(j - h) PROVE p[x] = q[x]
  <2>1. h + x \in 1..j
    BY <1>2
  <2> QED
    BY <1>3, <1>5, <1>7, <2>1 DEF Starts
<1>9. p = q
  <2>1. Len(p) = Len(q) /\ \A x \in 1..Len(p) : p[x] = q[x]
    BY <1>5, <1>7, <1>8
  <2> QED
    BY <1>5, <1>7, <2>1, SeqEqual
<1>10. PICK i : i = h /\ i - HeadLen(t) = 0 /\ i \in HeadLen(t)..j
  BY <1>2
<1>11. SubSeq(Bytes(t), i + 1, j) = SubSeq(Tail3(t), (i - HeadLen(t)) + 1, j - HeadLen(t))
  BY <1>10, TailPiece, Zenon
<1>12. q = SubSeq(T, 0 + 1, j - h)
  BY <1>1, <1>6, <1>10, <1>11
<1> QED
  BY <1>3, <1>4, <1>9, <1>12

(* v and then sent, whatever follows, is u and what follows.               *)
Continues(v, sent, u) == \A w : IsSeq(w) => v \o (sent \o w) = u \o w

LEMMA FedIsPlainUp ==
  ASSUME NEW t \in Talks, Parses(t), NEW j \in Nat, HeadLen(t) <= j,
         NEW st, st.mode = "http2", NEW u, NEW v, NEW sent, NEW r,
         Continues(v, sent, u),
         FedPlain(t, Tail3(t), j - HeadLen(t), st, Begun, u, sent, r)
  PROVE  PlainUp(t, j, r.st, v \o r.sent)
<1>1. PICK w : /\ IsSeq(w) /\ r.sent = sent \o w
               /\ r.st \in States /\ r.st.mode = st.mode
               /\ r.st.closing => u \o w = Begun \o DueOf(t)
               /\ ~r.st.closing =>
                    Sending(t, Tail3(t), j - HeadLen(t), r.st.h2, Begun, u \o w)
  BY DEF FedPlain
<1>2. v \o r.sent = u \o w
  BY <1>1 DEF Continues
<1>3. ~(j < HeadLen(t))
  BY HeadLenType
<1> QED
  BY <1>1, <1>2, <1>3 DEF PlainUp

LEMMA SendHeard ==
  ASSUME NEW x, NEW f, f = FALSE, NEW s \in Send(x, f)
  PROVE  s = <<x>> /\ s # <<>>
<1>1. s = <<x>>
  BY DEF Send
<1> QED
  BY <1>1

(* beginH2CUpgrade on a buffer with the whole head in it.                  *)
LEMMA UpgradeStep ==
  ASSUME NEW t \in Talks, t.line # "none", IsUpgrade(t),
         NEW j \in 0..Len(Bytes(t)), HeadLen(t) <= j,
         NEW st \in States, ~st.closing, st.rxBuf = Pre(t, j), NEW h, h = HeadLen(t),
         NEW f, f = FALSE, NEW r \in BeginH2CUpgrade(st, h, f)
  PROVE  PlainUp(t, j, r.st, r.sent)
<1>1. PICK m, B : m = Len(t.headers) /\ B = Bytes(t)
  OBVIOUS
<1>2. m \in Nat /\ B \in Seq(Tokens) /\ Len(HeadOf(t)) = 2 * m + 3 /\ IsHead(B, t, m)
  BY <1>1, HeadOfBytes
<1>3. h = 2 * m + 3 /\ h \in Nat /\ h \in 0..j /\ j \in Nat
  BY <1>2 DEF HeadLen
<1>4. m >= 1
  <2>1. Named(t, "upgrade") # {}
    BY DEF IsUpgrade
  <2>2. PICK i : i \in DOMAIN t.headers
    BY <2>1 DEF Named
  <2>3. DOMAIN t.headers = 1..m
    BY <1>1, HeadersAre
  <2> QED
    BY <1>2, <2>2, <2>3
<1>5. PICK buf : buf = Pre(t, j)
  OBVIOUS
<1>6. Starts(buf, B, j) /\ buf \in Seq(Tokens) /\ Len(buf) = j
  BY <1>1, <1>5, PreIs
<1>7. PICK raw : raw = SubSeq(buf, 1, h)
  OBVIOUS
<1>8. Starts(raw, B, h)
  BY <1>3, <1>6, <1>7, StartsSub
<1>9. PICK req : req = Request(raw)
  OBVIOUS
<1>10. req.ok <=> Parses(t)
  BY <1>1, <1>2, <1>3, <1>4, <1>8, <1>9, RequestIs
<1>11. PICK leftover : leftover = SubSeq(buf, h + 1, Len(buf))
  OBVIOUS
<1>12. PICK S : S = Tail3(t)
  OBVIOUS
<1>13. leftover = SubSeq(S, 0 + 1, j - h)
  BY <1>5, <1>11, <1>12, LeftoverIs
<1>14. j - h \in 0..Len(S) /\ 0 \in 0..(j - h) /\ S \in Seq(Tokens)
  <2>1. S \in Seq(Tokens) /\ Len(S) \in Nat /\ Len(B) = h + Len(S)
    BY <1>1, <1>12, BeyondHead
  <2> QED
    BY <1>1, <1>3, <2>1
<1>15. PICK served : served = Upgraded(st)
  OBVIOUS
<1>16. served \in States /\ served.mode = "http2" /\ served.h2 = NewH2 /\ ~served.closing
  <2>1. PICK e \in Seq(Tokens) : e = <<>>
    BY EmptyTokens, Zenon
  <2>2. PICK x : x = NewH2
    OBVIOUS
  <2>3. x \in [seen : BOOLEAN, buf : Seq(Tokens)]
    BY <2>2, NewH2IsGood DEF GoodH2
  <2>4. served = [st EXCEPT !.mode = "http2", !.h2 = x, !.rxBuf = e]
    BY <1>15, <2>1, <2>2, Zenon DEF Upgraded
  <2>5. served \in States /\ served.mode = "http2" /\ served.h2 = x /\ served.closing = st.closing
    BY ONLY <2>3, <2>4, st \in States, e \in Seq(Tokens) DEF States
  <2> QED
    BY <2>2, <2>5
<1>17. Stream(S, t.frames, Good(t)) /\ Begun \in Seq(AllReplies)
  BY <1>12, TailIs, BegunIs
<1>18. PICK up : up = [st EXCEPT !.mode = "http2", !.h2 = NewH2]
  OBVIOUS
<1>19. ~(j < HeadLen(t))
  BY <1>3
<1>20. CASE ~req.ok
  <2>1. r = Done(CloseConn(st), <<>>)
    BY <1>5, <1>7, <1>9, <1>20 DEF BeginH2CUpgrade
  <2>2. r.st = CloseConn(st) /\ r.sent = <<>>
    BY <2>1 DEF Done
  <2>3. r.st.closing = TRUE
    BY <2>2 DEF CloseConn, States
  <2> QED
    BY <1>10, <1>20, <2>2, <2>3 DEF PlainUp
<1>21. CASE req.ok
  <2>1. PICK s101 \in Send(Reply("101", 0), f) :
          r \in IF s101 = <<>> THEN {Done(CloseConn(st), <<>>)}
                ELSE UNION {
                  IF set = <<>> THEN {Done(CloseConn(up), s101)}
                  ELSE UNION {
                    IF leftover = <<>> THEN {Done(served, s101 \o set \o ans)}
                    ELSE FeedPlain(served, leftover, s101 \o set \o ans, f) :
                    ans \in Send(Reply("h2", 0), f)} :
                  set \in Send(Reply("settings", 0), f)}
    BY <1>5, <1>7, <1>9, <1>11, <1>15, <1>18, <1>21 DEF BeginH2CUpgrade
  <2>2. s101 = <<Reply("101", 0)>> /\ s101 # <<>>
    BY SendHeard
  <2>3. PICK set \in Send(Reply("settings", 0), f) :
          r \in IF set = <<>> THEN {Done(CloseConn(up), s101)}
                ELSE UNION {
                  IF leftover = <<>> THEN {Done(served, s101 \o set \o ans)}
                  ELSE FeedPlain(served, leftover, s101 \o set \o ans, f) :
                  ans \in Send(Reply("h2", 0), f)}
    BY <2>1, <2>2
  <2>4. set = <<Reply("settings", 0)>> /\ set # <<>>
    BY SendHeard
  <2>5. PICK ans \in Send(Reply("h2", 0), f) :
          r \in IF leftover = <<>> THEN {Done(served, s101 \o set \o ans)}
                ELSE FeedPlain(served, leftover, s101 \o set \o ans, f)
    BY <2>3, <2>4
  <2>6. ans = <<Reply("h2", 0)>>
    BY SendHeard
  <2>7. s101 \o set \o ans = Begun
    BY <2>2, <2>4, <2>6, BegunIs, Zenon
  <2>8. Sending(t, S, 0, served.h2, Begun, Begun)
    BY <1>16, <1>17, SendingStarts
  <2>9. CASE leftover = <<>>
    <3>1. r = Done(served, Begun)
      BY <2>5, <2>7, <2>9
    <3>2. r.st = served /\ r.sent = Begun
      BY <3>1 DEF Done
    <3>3. j - h = 0
      <4>1. PICK n \in Nat : n = j - h /\ n \in 0..Len(S)
        BY <1>3, <1>14
      <4>2. leftover \in Seq(Tokens) /\ Len(leftover) = n
        <5>1. leftover = SubSeq(S, 1, n)
          BY <1>13, <4>1
        <5> QED
          BY ONLY <1>14, <4>1, <5>1, PrefixIs
      <4> QED
        BY <2>9, <4>1, <4>2
    <3> QED
      BY <1>10, <1>12, <1>16, <1>19, <1>21, <2>8, <3>2, <3>3 DEF PlainUp
  <2>10. CASE leftover # <<>>
    <3>1. r \in FeedPlain(served, leftover, Begun, f)
      BY <2>5, <2>7, <2>10
    <3>2. PICK i : i = j - h /\ i \in 0..Len(S) /\ 0 \in 0..i /\ leftover = SubSeq(S, 0 + 1, i)
      BY <1>13, <1>14
    <3>3. FedPlain(t, S, i, served, Begun, Begun, Begun, r)
      BY <1>16, <1>17, <2>8, <3>1, <3>2, FeedPlainStep
    <3>4. Continues(<<>>, Begun, Begun)
      <4>1. IsSeq(Begun)
        BY <1>17, Zenon DEF IsSeq
      <4> QED
        BY <4>1, ConcatIsSeq, NothingBefore DEF Continues
    <3>5. PlainUp(t, j, r.st, <<>> \o r.sent)
      <4>1. FedPlain(t, Tail3(t), j - HeadLen(t), served, Begun, Begun, Begun, r)
        BY <1>12, <3>2, <3>3
      <4>2. j \in Nat /\ Parses(t) /\ served.mode = "http2"
        BY <1>3, <1>10, <1>16, <1>21
      <4> QED
        BY <3>4, <4>1, <4>2, FedIsPlainUp, Zenon
    <3>6. IsSeq(r.sent)
      <4>1. GoodResult(r)
        BY <1>3, UpgradeIsGood
      <4> QED
        BY <4>1 DEF GoodResult
    <3> QED
      BY <3>5, <3>6, NothingBefore
  <2> QED
    BY <2>9, <2>10
<1> QED
  BY <1>20, <1>21

LEMMA PlainUpStep ==
  ASSUME NEW t \in Talks, t.line # "none", IsUpgrade(t), HeadLen(t) <= MaxHead,
         NEW j \in 0..Len(Bytes(t)), NEW g \in 0..j,
         NEW data, data = SubSeq(Bytes(t), g + 1, j),
         NEW f, f = FALSE, NEW S, GoodState(S), NEW u, IsSeq(u), PlainUp(t, g, S, u),
         NEW r \in DispatchPlain(S, data, f)
  PROVE  PlainUp(t, j, r.st, u \o r.sent)
<1>0. /\ S \in States /\ g \in Nat /\ j \in Nat /\ g <= j /\ j <= Len(Bytes(t))
      /\ HeadLen(t) \in Nat /\ Len(Bytes(t)) \in Nat /\ MaxHead \in Nat
  BY HeadLenType, DispatchAssumption DEF GoodState
<1>1. CASE S.closing
  <2>1. r.st = S /\ r.sent = <<>>
    BY <1>1, ClosingStep
  <2>2. u \o r.sent = u
    BY <2>1, NothingMore
  <2> QED
    BY <1>1, <2>1, <2>2 DEF PlainUp
<1>2. CASE ~S.closing /\ ~(g < HeadLen(t))
  <2>1. S.mode = "http2" /\ Parses(t)
    BY <1>2 DEF PlainUp
  <2>2. PICK T, h : T = Tail3(t) /\ h = HeadLen(t)
    OBVIOUS
  <2>3. PICK a, b : /\ a = g - h /\ b = j - h /\ b \in 0..Len(T) /\ a \in 0..b
                    /\ data = SubSeq(T, a + 1, b)
    <3>1. g \in HeadLen(t)..j
      BY <1>0, <1>2
    <3> QED
      BY <2>2, <3>1, TailPiece, Zenon
  <2>4. Sending(t, T, a, S.h2, Begun, u)
    BY <1>2, <2>2, <2>3 DEF PlainUp
  <2>5. r \in FeedPlain(S, data, <<>>, f)
    BY <1>2, <2>1 DEF DispatchPlain, IsClosing
  <2>6. FedPlain(t, T, b, S, Begun, u, <<>>, r)
    <3>1. Stream(T, t.frames, Good(t))
      BY <2>2, TailIs
    <3> QED
      BY <1>0, <2>3, <2>4, <2>5, <3>1, BegunIs, FeedPlainStep
  <2>7. Continues(u, <<>>, u)
    BY NothingBefore DEF Continues
  <2>8. HeadLen(t) <= j
    BY <1>0, <1>2
  <2> QED
    <3>1. FedPlain(t, Tail3(t), j - HeadLen(t), S, Begun, u, <<>>, r)
      BY <2>2, <2>3, <2>6
    <3>2. j \in Nat /\ Parses(t) /\ S.mode = "http2"
      BY <1>0, <2>1
    <3> QED
      BY <2>7, <2>8, <3>1, <3>2, FedIsPlainUp, Zenon
<1>3. CASE ~S.closing /\ g < HeadLen(t)
  <2>1. S.mode = "unknown" /\ S.rxBuf = Pre(t, g) /\ u = <<>>
    BY <1>3 DEF PlainUp
  <2>2. data \in Seq(Tokens) /\ Pre(t, g) \o data = Pre(t, j)
    BY PieceIs
  <2>3. PICK buf : buf = Pre(t, j)
    OBVIOUS
  <2>4. buf \in Seq(Tokens) /\ Len(buf) = j
    BY <2>3, PreIs
  <2>5. PICK st : st = [S EXCEPT !.rxBuf = buf]
    OBVIOUS
  <2>6. st \in States /\ st.mode = "unknown" /\ ~st.closing /\ st.rxBuf = buf
    BY ONLY <1>0, <1>3, <2>1, <2>4, <2>5 DEF States
  <2>7. st = [S EXCEPT !.rxBuf = @ \o data]
    BY <2>1, <2>2, <2>3, <2>5
  <2>8. r \in IF HasPreface(buf)
                THEN FeedPlain([st EXCEPT !.mode = "http2", !.rxBuf = <<>>], buf, <<>>, f)
              ELSE IF HeaderEnd(buf) = -1
                THEN {Done(IF TooLong(buf) THEN CloseConn(st) ELSE st, <<>>)}
              ELSE IF DetectUpgrade(buf)
                THEN BeginH2CUpgrade(st, HeaderEnd(buf) + 2, f)
              ELSE ServeHTTP1Plain([st EXCEPT !.mode = "http1"], f)
    BY <1>3, <2>1, <2>6, <2>7 DEF DispatchPlain, IsClosing
  <2>9. /\ ~HasPreface(buf)
        /\ j < HeadLen(t) => HeaderEnd(buf) = -1
        /\ j >= HeadLen(t) => /\ HeaderEnd(buf) \in Nat /\ HeaderEnd(buf) + 2 = HeadLen(t)
                              /\ DetectUpgrade(buf)
    BY <2>3, HeadSeen
  <2>10. CASE j < HeadLen(t)
    <3>1. ~TooLong(buf)
      BY <1>0, <2>4, <2>10 DEF TooLong
    <3>2. r = Done(st, <<>>)
      BY <2>8, <2>9, <2>10, <3>1
    <3>3. r.st = st /\ r.sent = <<>>
      BY <3>2 DEF Done
    <3>4. u \o r.sent = <<>>
      BY <2>1, <3>3
    <3> QED
      BY <2>3, <2>6, <2>10, <3>3, <3>4 DEF PlainUp
  <2>11. CASE ~(j < HeadLen(t))
    <3>1. HeadLen(t) <= j /\ j >= HeadLen(t)
      BY <1>0, <2>11
    <3>2. PICK h : h = HeadLen(t) /\ r \in BeginH2CUpgrade(st, h, f)
      BY <2>8, <2>9, <3>1
    <3>3. PlainUp(t, j, r.st, r.sent)
      BY <2>3, <2>6, <3>1, <3>2, UpgradeStep
    <3>4. IsSeq(r.sent)
      <4>1. GoodResult(r)
        BY <1>0, <2>6, <3>2, UpgradeIsGood
      <4> QED
        BY <4>1 DEF GoodResult
    <3> QED
      BY <2>1, <3>3, <3>4, NothingBefore
  <2> QED
    BY <2>10, <2>11
<1> QED
  BY <1>1, <1>2, <1>3

--------------------------------------------------------------------------------
(***************************************************************************)
(* The second inductive invariant: what every connection has been sent     *)
(***************************************************************************)

(* The state of a plain connection, or the one it will be given.           *)
StateOf(st) == IF st = None THEN Fresh ELSE st

PlainOk(t, g, f, S, o, u, s) ==
  /\ o = ~S.closing
  /\ t.line # "none" /\ ~IsUpgrade(t) /\ HeadLen(t) <= MaxHead => PlainH1(t, g, f, S, u)
  /\ t.line # "none" /\ IsUpgrade(t) /\ HeadLen(t) <= MaxHead /\ ~f => PlainUp(t, g, S, u)
  /\ t.line = "none" /\ ~f /\ ~s => PlainH2(t, g, S, u)
  /\ t.line = "none" /\ ~f /\ s => S.closing /\ (u = <<>> \/ u = DueOf(t))

(* A goroutine that has read all of an HTTP/1 request has answered it; one *)
(* that has not has it in its buffer.  That is if the client speaks what   *)
(* it has agreed to.                                                       *)
TlsReads(t, g, f, l, u) ==
  IF t.line # "none" THEN l.proto = "h1" /\ l.buf = Pre(t, g) /\ Pending(t, g) /\ u = <<>>
  ELSE l.proto = "h2" /\ (~f => Sending(t, Bytes(t), g, l.h2, Settings, u))
TlsServed(t, g, f, u) ==
  IF t.line # "none" THEN ~Pending(t, g) /\ (~f => u = Served(t))
  ELSE ~f => u = Settings \o DueOf(t)
Agreed(t, l) == l.proto = "h2" <=> t.line = "none"
TlsOk(t, g, f, p, l, o, u) ==
  /\ p = "handshake" => u = <<>> /\ l = NoLocal /\ g = 0
  /\ p = "served" => ~o
  /\ Agreed(t, l) /\ p = "read" => TlsReads(t, g, f, l, u)
  /\ Agreed(t, l) /\ p = "served" => TlsServed(t, g, f, u)

(* The arguments are those of Conn.  A key without a connection, or with   *)
(* one that plain TCP has not heard of, has a fresh state: that is why the *)
(* state that the sweep leaves behind does no harm.                        *)
Meant(d, t, g, f, p, st, l, o, u, s) ==
  /\ d = None => u = <<>> /\ l = NoLocal /\ ~s
  /\ d # None => p # "idle"
  /\ d = None \/ d = "tls" \/ g = 0 => StateOf(st) = Fresh
  /\ d # None /\ d \in {"once", "many"} => PlainOk(t, g, f, StateOf(st), o, u, s)
  /\ d # None /\ d = "tls" => TlsOk(t, g, f, p, l, o, u)

MeantAt(k) == Meant(driver[k], talk[k], got[k], deaf[k], pc[k], states[k], local[k],
                    open[k], out[k], split[k])
AllMeant == \A k \in Keys : MeantAt(k)

LEMMA SettingsIs == Settings \in Seq(AllReplies)
<1>1. PICK x \in AllReplies : x = Reply("settings", 0)
  BY DEF AllReplies
<1>2. PICK T : T = AllReplies
  OBVIOUS
<1>3. <<x>> \in Seq(T)
  BY ONLY <1>2, x \in AllReplies
<1> QED
  BY <1>1, <1>2, <1>3 DEF Settings

LEMMA BecomesMeant ==
  ASSUME Functions, AllMeant, NEW k \in Keys, NEW d, NEW t, NEW g, NEW f, NEW p, NEW st, NEW l,
         NEW o, NEW u, NEW s,
         Becomes(k, d, t, g, f, p, st, l, o, u, s), Meant(d, t, g, f, p, st, l, o, u, s)
  PROVE  AllMeant'
<1>1. /\ driver'[k] = d /\ talk'[k] = t /\ got'[k] = g /\ deaf'[k] = f /\ pc'[k] = p
      /\ states'[k] = st /\ local'[k] = l /\ open'[k] = o /\ out'[k] = u /\ split'[k] = s
  BY DEF Functions, Becomes
<1>2. ASSUME NEW j \in Keys, j # k
      PROVE  /\ driver'[j] = driver[j] /\ talk'[j] = talk[j] /\ got'[j] = got[j]
             /\ deaf'[j] = deaf[j] /\ pc'[j] = pc[j] /\ states'[j] = states[j]
             /\ local'[j] = local[j] /\ open'[j] = open[j] /\ out'[j] = out[j]
             /\ split'[j] = split[j]
  BY <1>2 DEF Functions, Becomes
<1>3. MeantAt(k)'
  BY <1>1 DEF MeantAt
<1>4. ASSUME NEW j \in Keys, j # k PROVE MeantAt(j)'
  BY <1>2, <1>4 DEF MeantAt, AllMeant
<1> QED
  BY <1>3, <1>4 DEF AllMeant

LEMMA FreshState == StateOf(Fresh) = Fresh /\ StateOf(None) = Fresh
BY DEF StateOf

(* A state is not None.                                                    *)
LEMMA StateOfState ==
  ASSUME NEW st, GoodState(st)
  PROVE  StateOf(st) = st
BY NoneIsNothing DEF StateOf, GoodState, States

LEMMA NothingRead ==
  ASSUME NEW t \in Talks
  PROVE  /\ Pre(t, 0) = <<>>
         /\ t.line # "none" => 0 < HeadLen(t) /\ Pending(t, 0)
<1>1. PICK B : B = Bytes(t)
  OBVIOUS
<1>2. B \in Seq(Tokens) /\ 0 \in 0..Len(B)
  BY <1>1, BytesType, LengthOfBytes
<1>3. Pre(t, 0) = <<>>
  BY <1>1, <1>2, PrefixIs DEF Pre
<1>4. ASSUME t.line # "none" PROVE 0 < HeadLen(t)
  <2>1. PICK m \in Nat : Len(HeadOf(t)) = 2 * m + 3
    BY <1>4, HeadOfBytes
  <2> QED
    BY <2>1 DEF HeadLen
<1> QED
  BY <1>3, <1>4 DEF Pending

LEMMA PlainStarts ==
  ASSUME NEW t \in Talks, NEW f
  PROVE  PlainOk(t, 0, f, Fresh, TRUE, <<>>, FALSE)
<1>1. /\ Fresh.mode = "unknown" /\ Fresh.rxBuf = <<>> /\ Fresh.h2 = NewH2
      /\ Fresh.closing = FALSE
  BY DEF Fresh
<1>2. Pre(t, 0) = <<>> /\ (t.line # "none" => 0 < HeadLen(t) /\ Pending(t, 0))
  BY NothingRead
<1>3. t.line # "none" => PlainH1(t, 0, f, Fresh, <<>>) /\ PlainUp(t, 0, Fresh, <<>>)
  BY <1>1, <1>2 DEF PlainH1, PlainUp
<1>4. PlainH2(t, 0, Fresh, <<>>)
  <2>1. PICK n \in Nat : n = 0 /\ n < 3
    OBVIOUS
  <2> QED
    BY <1>1, <1>2, <2>1 DEF PlainH2
<1> QED
  BY <1>1, <1>3, <1>4 DEF PlainOk

--------------------------------------------------------------------------------
(***************************************************************************)
(* The actions keep it                                                     *)
(***************************************************************************)

LEMMA ConnectMeant ==
  ASSUME IInv, AllMeant, NEW k \in Keys, NEW d \in Drivers \ {"tls"}, NEW t \in Talks,
         NEW f \in BOOLEAN, Connect(k, d, t, f)
  PROVE  AllMeant'
<1>1. Functions /\ ConnInv(k) /\ MeantAt(k)
  BY DEF IInv, AllMeant
<1>2. PICK st : /\ states' = [states EXCEPT ![k] = st]
                /\ st = Fresh \/ st = states[k]
  <2>1. CASE UNCHANGED states
    BY <1>1, <2>1, SameDriver
  <2> QED
    BY <2>1 DEF Connect
<1>3. driver[k] = None /\ got[k] = 0
  BY <1>1 DEF Connect, Arrive, ConnInv, Conn
<1>4. out[k] = <<>> /\ local[k] = NoLocal /\ ~split[k] /\ StateOf(states[k]) = Fresh
  BY <1>1, <1>3 DEF MeantAt, Meant
<1>5. StateOf(st) = Fresh
  BY <1>2, <1>4, FreshState
<1>6. Becomes(k, d, t, got[k], f, "read", st, local[k], TRUE, out[k], split[k])
  BY <1>1, <1>2, SameDriver DEF Becomes, Connect, Arrive
<1>7. split[k] = FALSE
  BY <1>1, <1>4 DEF ConnInv, Conn
<1>8. PlainOk(t, got[k], f, StateOf(st), TRUE, out[k], split[k])
  BY <1>3, <1>4, <1>5, <1>7, PlainStarts
<1>9. d # None /\ d # "tls"
  BY NoneIsNothing
<1>10. Meant(d, t, got[k], f, "read", st, local[k], TRUE, out[k], split[k])
  BY <1>5, <1>8, <1>9 DEF Meant
<1> QED
  BY <1>1, <1>6, <1>10, BecomesMeant

LEMMA TlsAcceptMeant ==
  ASSUME IInv, AllMeant, NEW k \in Keys, NEW t \in Talks, NEW f \in BOOLEAN, TlsAccept(k, t, f)
  PROVE  AllMeant'
<1>1. Functions /\ ConnInv(k) /\ MeantAt(k)
  BY DEF IInv, AllMeant
<1>2. driver[k] = None /\ got[k] = 0 /\ "tls" \in Drivers
  BY <1>1 DEF TlsAccept, Arrive, ConnInv, Conn
<1>3. out[k] = <<>> /\ local[k] = NoLocal /\ StateOf(states[k]) = Fresh
  BY <1>1, <1>2 DEF MeantAt, Meant
<1>4. Becomes(k, "tls", t, got[k], f, "handshake", states[k], local[k], TRUE, out[k], split[k])
  BY <1>1, SameDriver DEF Becomes, TlsAccept, Arrive
<1>5. TlsOk(t, got[k], f, "handshake", local[k], TRUE, out[k])
  BY <1>2, <1>3 DEF TlsOk
<1>6. "tls" # None
  BY <1>2, NoneIsNothing
<1>7. Meant("tls", t, got[k], f, "handshake", states[k], local[k], TRUE, out[k], split[k])
  BY <1>3, <1>5, <1>6 DEF Meant
<1> QED
  BY <1>1, <1>4, <1>7, BecomesMeant

LEMMA GoneMeant ==
  ASSUME IInv, AllMeant, NEW k \in Keys, Gone(k), NEW st, StateOf(st) = Fresh,
         states' = [states EXCEPT ![k] = st]
  PROVE  AllMeant'
<1>1. Becomes(k, None, None, 0, FALSE, "idle", st, NoLocal, FALSE, <<>>, FALSE)
  BY DEF Becomes, Gone
<1>2. Meant(None, None, 0, FALSE, "idle", st, NoLocal, FALSE, <<>>, FALSE)
  BY DEF Meant
<1> QED
  BY <1>1, <1>2, BecomesMeant DEF IInv

(* What a read brings, as a piece of the talk.                             *)
LEMMA ReadPiece ==
  ASSUME NEW k \in Keys, ConnInv(k), pc[k] = "read", NEW n \in 1..ReadSize, n <= Left(k),
         NEW j, j = got[k] + n
  PROVE  /\ driver[k] # None /\ driver[k] \in Drivers /\ talk[k] \in Talks
         /\ j \in 0..Len(Bytes(talk[k])) /\ got[k] \in 0..j /\ j # 0
         /\ Coming(k, n) = SubSeq(Bytes(talk[k]), got[k] + 1, j)
<1>1. driver[k] # None /\ j \in 0..Len(Bytes(talk[k]))
  BY ReadFacts
<1>2. driver[k] \in Drivers /\ talk[k] \in Talks /\ got[k] \in 0..Len(Bytes(talk[k]))
  BY <1>1 DEF ConnInv, Conn
<1>3. got[k] \in Nat /\ n \in Nat /\ n # 0
  <2>1. ReadSize \in Nat
    BY DispatchAssumption
  <2> QED
    BY <1>2, <2>1
<1>4. got[k] \in 0..j /\ j # 0
  BY <1>3
<1> QED
  BY <1>1, <1>2, <1>4 DEF Coming

(* split misses no read that ends within the preface, and no other sets it. *)
Recalls(ss, s, S, data) == ss <=> s \/ Halfway(S, data)

LEMMA PlainStep ==
  ASSUME NEW t \in Talks, NEW j \in 0..Len(Bytes(t)), NEW g \in 0..j,
         NEW data, data = SubSeq(Bytes(t), g + 1, j),
         data \in Seq(Tokens),
         NEW f \in BOOLEAN, NEW S, GoodState(S), NEW o, NEW u, IsSeq(u), NEW s,
         PlainOk(t, g, f, S, o, u, s), NEW r \in DispatchPlain(S, data, f),
         NEW v, v = u \o r.sent, NEW ss, Recalls(ss, s, S, data)
  PROVE  PlainOk(t, j, f, r.st, ~r.st.closing, v, ss)
<1>2. ASSUME t.line # "none", ~IsUpgrade(t), HeadLen(t) <= MaxHead
      PROVE  PlainH1(t, j, f, r.st, v)
  <2>1. PlainH1(t, g, f, S, u)
    BY <1>2 DEF PlainOk
  <2> QED
    BY <1>2, <2>1, PlainH1Step
<1>3. ASSUME t.line # "none", IsUpgrade(t), HeadLen(t) <= MaxHead, ~f
      PROVE  PlainUp(t, j, r.st, v)
  <2>1. PlainUp(t, g, S, u)
    BY <1>3 DEF PlainOk
  <2>2. f = FALSE
    BY <1>3
  <2> QED
    BY <1>3, <2>1, <2>2, PlainUpStep
<1>4. ASSUME t.line = "none", ~f, ~ss
      PROVE  PlainH2(t, j, r.st, v)
  <2>0. ~s /\ ~Halfway(S, data)
    BY <1>4 DEF Recalls
  <2>1. PlainH2(t, g, S, u)
    BY <1>4, <2>0 DEF PlainOk
  <2>2. f = FALSE
    BY <1>4
  <2> QED
    BY <1>4, <2>0, <2>1, <2>2, PlainH2Step
<1>5. ASSUME t.line = "none", ~f, ss
      PROVE  r.st.closing /\ (v = <<>> \/ v = DueOf(t))
  <2>1. S.closing => r.st = S /\ v = u
    BY ClosingStep, NothingMore
  <2>2. CASE s
    <3>1. S.closing /\ (u = <<>> \/ u = DueOf(t))
      BY <1>5, <2>2 DEF PlainOk
    <3> QED
      BY <2>1, <3>1
  <2>3. CASE ~s
    <3>1. PlainH2(t, g, S, u) /\ Halfway(S, data)
      BY <1>5, <2>3 DEF PlainOk, Recalls
    <3>2. CASE S.closing
      BY <2>1, <3>1, <3>2 DEF PlainH2
    <3>3. CASE ~S.closing
      <4>1. u = <<>>
        BY <3>1, <3>3 DEF PlainH2, Halfway
      <4>2. r.st.closing = TRUE /\ r.sent = <<>>
        BY <3>1, <3>3, HalfwayStep
      <4>3. u \o <<>> = u
        BY NothingMore
      <4> QED
        BY <4>1, <4>2, <4>3
    <3> QED
      BY <3>2, <3>3
  <2> QED
    BY <2>2, <2>3
<1> QED
  BY <1>2, <1>3, <1>4, <1>5 DEF PlainOk

LEMMA DataMeant ==
  ASSUME IInv, AllMeant, NEW k \in Keys, NEW n \in 1..ReadSize, Data(k, n)
  PROVE  AllMeant'
<1>1. Functions /\ ConnInv(k) /\ MeantAt(k)
  BY DEF IInv, AllMeant
<1>2. pc[k] = "read" /\ driver[k] \in {"once", "many"} /\ n <= Left(k)
  BY DEF Data
<1>3. PICK j, t, g, f, data : /\ j = got[k] + n /\ t = talk[k] /\ g = got[k] /\ f = deaf[k]
                              /\ data = Coming(k, n)
  OBVIOUS
<1>4. /\ driver[k] # None /\ t \in Talks
      /\ j \in 0..Len(Bytes(t)) /\ g \in 0..j /\ j # 0
      /\ data = SubSeq(Bytes(t), g + 1, j)
  BY <1>1, <1>2, <1>3, ReadPiece
<1>5. PICK S : S = StateOf(states[k])
  OBVIOUS
<1>6. GoodState(S)
  BY <1>1, <1>5, FreshIsGood DEF ConnInv, Conn, StateOf
<1>7. PICK r \in DispatchPlain(S, data, f) :
        /\ states' = [states EXCEPT ![k] = r.st]
        /\ out' = [out EXCEPT ![k] = @ \o r.sent]
        /\ open' = [open EXCEPT ![k] = @ /\ ~r.st.closing]
  BY <1>3, <1>5 DEF Data, StateOf
<1>8. GoodResult(r)
  <2>1. data \in Seq(Tokens)
    BY <1>1, <1>2, <1>3, ReadFacts
  <2> QED
    BY <1>6, <2>1, DispatchIsGood
<1>9. PICK u, s, o : u = out[k] /\ s = split[k] /\ o = open[k]
  OBVIOUS
<1>10. IsSeq(u) /\ f \in BOOLEAN
  BY <1>1, <1>3, <1>9 DEF ConnInv, Conn
<1>11. PlainOk(t, g, f, S, o, u, s)
  BY <1>1, <1>2, <1>3, <1>4, <1>5, <1>9 DEF MeantAt, Meant
<1>12. PICK uu, ss, oo : uu = u \o r.sent /\ ss = (s \/ Halfway(S, data)) /\ oo = ~r.st.closing
  OBVIOUS
<1>13. PlainOk(t, j, f, r.st, oo, uu, ss) /\ (S.closing => r.st = S) /\ o = ~S.closing
  <2>1. r \in DispatchPlain(S, data, f) /\ Recalls(ss, s, S, data)
    BY <1>12 DEF Recalls
  <2>2. PlainOk(t, j, f, r.st, ~r.st.closing, uu, ss)
    <3>1. data \in Seq(Tokens)
      BY <1>1, <1>2, <1>3, ReadFacts
    <3> QED
      BY <1>4, <1>6, <1>10, <1>11, <1>12, <2>1, <3>1, PlainStep
  <2>3. S.closing => r.st = S
    BY ClosingStep
  <2>4. o = ~S.closing
    BY <1>11 DEF PlainOk
  <2> QED
    BY <1>12, <2>2, <2>3, <2>4
<1>14. PICK p : p # "idle" /\ pc' = [pc EXCEPT ![k] = p]
  BY DEF Data
<1>15. split' = [split EXCEPT ![k] = ss]
  BY <1>3, <1>5, <1>9, <1>12 DEF Data, StateOf, Halfway
<1>16. Becomes(k, driver[k], t, j, f, p, r.st, local[k], oo, uu, ss)
  <2>1. UNCHANGED <<driver, talk, deaf, local>> /\ got' = [got EXCEPT ![k] = j]
    BY <1>3 DEF Data, clientVars
  <2>2. out' = [out EXCEPT ![k] = uu] /\ open' = [open EXCEPT ![k] = oo]
    <3>1. (o /\ ~r.st.closing) = oo
      BY <1>12, <1>13
    <3> QED
      BY <1>7, <1>9, <1>12, <3>1
  <2> QED
    BY <1>1, <1>3, <1>7, <1>14, <1>15, <2>1, <2>2, SameDriver DEF Becomes
<1>17. StateOf(r.st) = r.st
  BY <1>8, StateOfState DEF GoodResult
<1>18. driver[k] # "tls"
  BY <1>2
<1>19. Meant(driver[k], t, j, f, p, r.st, local[k], oo, uu, ss)
  BY <1>4, <1>13, <1>14, <1>17, <1>18 DEF Meant
<1> QED
  BY <1>1, <1>16, <1>19, BecomesMeant

LEMMA HandshakeStep ==
  ASSUME NEW t \in Talks, NEW f \in BOOLEAN, NEW proto,
         proto \in {"h1", "h2"},
         NEW s \in IF proto = "h2" THEN Send(Reply("settings", 0), f) ELSE {<<>>},
         NEW o, o = (proto = "h1" \/ s # <<>>), NEW p, p = IF o THEN "read" ELSE "served",
         NEW l, l = [NoLocal EXCEPT !.proto = proto]
  PROVE  TlsOk(t, 0, f, p, l, o, s)
<1>1. l.proto = proto /\ l.buf = <<>> /\ l.h2 = NewH2
  BY DEF NoLocal
<1>2. p # "handshake" /\ (p = "read" <=> o) /\ (p = "served" <=> ~o)
  OBVIOUS
<1>3. CASE t.line # "none" /\ proto = "h1"
  <2>1. s = <<>> /\ o
    BY <1>3
  <2>2. Pre(t, 0) = <<>> /\ Pending(t, 0)
    BY <1>3, NothingRead
  <2> QED
    BY <1>1, <1>2, <1>3, <2>1, <2>2 DEF TlsOk, TlsReads
<1>4. CASE t.line = "none" /\ proto = "h2"
  <2>1. s \in Send(Reply("settings", 0), f) /\ (o <=> s # <<>>)
    BY <1>4
  <2>2. ASSUME ~f PROVE s = Settings /\ o /\ Sending(t, Bytes(t), 0, NewH2, Settings, s)
    <3>1. f = FALSE
      BY <2>2
    <3>2. s = Settings /\ o
      BY <2>1, <3>1, SendHeard DEF Settings
    <3>3. Settings \in Seq(AllReplies)
      BY SettingsIs
    <3>4. PICK B : B = Bytes(t) /\ Stream(B, t.frames, Good(t))
      BY <1>4, NoHead
    <3> QED
      BY <3>2, <3>3, <3>4, SendingStarts
  <2> QED
    BY <1>1, <1>2, <1>4, <2>1, <2>2 DEF TlsOk, TlsReads, TlsServed
<1>5. CASE ~Agreed(t, l)
  BY <1>2, <1>5 DEF TlsOk
<1> QED
  BY <1>1, <1>3, <1>4, <1>5 DEF Agreed

LEMMA TlsHandshakeMeant ==
  ASSUME IInv, AllMeant, NEW k \in Keys, NEW proto \in {"h1", "h2"}, TlsHandshake(k, proto)
  PROVE  AllMeant'
<1>1. Functions /\ ConnInv(k) /\ MeantAt(k)
  BY DEF IInv, AllMeant
<1>2. pc[k] = "handshake" /\ driver[k] = "tls" /\ driver[k] # None
  BY <1>1 DEF TlsHandshake, ConnInv, Conn
<1>3. PICK t, f : t = talk[k] /\ f = deaf[k]
  OBVIOUS
<1>4. t \in Talks /\ f \in BOOLEAN
  BY <1>1, <1>2, <1>3 DEF ConnInv, Conn
<1>5. got[k] = 0 /\ local[k] = NoLocal /\ StateOf(states[k]) = Fresh
  BY <1>1, <1>2 DEF MeantAt, Meant, TlsOk
<1>7. PICK s \in IF proto = "h2" THEN Send(Reply("settings", 0), f) ELSE {<<>>} :
        /\ out' = [out EXCEPT ![k] = s]
        /\ open' = [open EXCEPT ![k] = proto = "h1" \/ s # <<>>]
  BY <1>3 DEF TlsHandshake
<1>8. PICK o : o = (proto = "h1" \/ s # <<>>)
  OBVIOUS
<1>9. open' = [open EXCEPT ![k] = o] /\ open'[k] = o
  BY <1>1, <1>7, <1>8 DEF Functions
<1>10. PICK p : p = IF o THEN "read" ELSE "served"
  OBVIOUS
<1>11. PICK l : l = [NoLocal EXCEPT !.proto = proto]
  OBVIOUS
<1>12. Becomes(k, driver[k], t, 0, f, p, states[k], l, o, s, split[k])
  <2>1. UNCHANGED <<driver, talk, got, deaf, states, split>>
    BY DEF TlsHandshake, clientVars
  <2>2. pc' = [pc EXCEPT ![k] = p]
    BY <1>9, <1>10 DEF TlsHandshake
  <2>3. local' = [local EXCEPT ![k] = l]
    BY <1>3, <1>5, <1>11 DEF TlsHandshake
  <2> QED
    BY <1>1, <1>3, <1>5, <1>7, <1>9, <2>1, <2>2, <2>3, SameDriver DEF Becomes
<1>13. TlsOk(t, 0, f, p, l, o, s)
  BY <1>4, <1>8, <1>10, <1>11, HandshakeStep
<1>14. driver[k] \notin {"once", "many"} /\ p # "idle"
  BY <1>2, <1>10
<1>15. Meant(driver[k], t, 0, f, p, states[k], l, o, s, split[k])
  BY <1>2, <1>5, <1>13, <1>14 DEF Meant
<1> QED
  BY <1>1, <1>12, <1>15, BecomesMeant

(* serveH1OverConn with the next bytes.                                    *)
LEMMA TlsH1Step ==
  ASSUME NEW t \in Talks, t.line # "none", NEW j \in 0..Len(Bytes(t)),
         NEW f \in BOOLEAN, NEW a, a = Http1(Pre(t, j)),
         NEW s \in IF a.k = "answer" THEN Send([a EXCEPT !.k = "h1"], f) ELSE {<<>>},
         NEW o, o = (a.k = "wait"), NEW p, p = IF o THEN "read" ELSE "served",
         NEW l, l.proto = "h1", l.buf = Pre(t, j)
  PROVE  TlsOk(t, j, f, p, l, o, s)
<1>1. PICK buf : buf = SubSeq(Bytes(t), 1, j) /\ a = Http1(buf)
  BY DEF Pre
<1>2. IF Pending(t, j) THEN a.k = "wait" ELSE a.k \in {"refuse", "answer"} /\ Answered(t, a)
  BY <1>1, Http1Is
<1>3. CASE Pending(t, j)
  <2>1. a.k = "wait" /\ o /\ p = "read" /\ s = <<>>
    BY <1>2, <1>3
  <2> QED
    BY <1>3, <2>1 DEF TlsOk, TlsReads
<1>4. CASE ~Pending(t, j)
  <2>1. a.k \in {"refuse", "answer"} /\ ~o /\ p = "served" /\ Answered(t, a)
    BY <1>2, <1>4
  <2>2. ASSUME ~f PROVE s = Served(t)
    <3>1. f = FALSE
      BY <2>2
    <3>2. CASE a.k = "answer"
      <4>1. PICK x : x = [a EXCEPT !.k = "h1"] /\ s \in Send(x, f)
        BY <3>2
      <4>2. s = <<x>>
        BY <3>1, <4>1, SendHeard
      <4> QED
        BY <2>1, <3>2, <4>1, <4>2 DEF Answered
    <3>3. CASE a.k # "answer"
      BY <2>1, <3>3 DEF Answered
    <3> QED
      BY <3>2, <3>3
  <2> QED
    BY <1>4, <2>1, <2>2 DEF TlsOk, TlsServed
<1> QED
  BY <1>3, <1>4

(* serveH2OverConn with the next bytes.                                    *)
LEMMA TlsH2Step ==
  ASSUME NEW t \in Talks, t.line = "none", NEW j \in 0..Len(Bytes(t)), NEW g \in 0..j,
         NEW data, data = SubSeq(Bytes(t), g + 1, j), NEW f \in BOOLEAN,
         NEW l, NEW u, TlsReads(t, g, f, l, u), NEW r \in Feed(l.h2, data, f),
         NEW o, o = ~r.err, NEW p, p = IF o THEN "read" ELSE "served",
         NEW new, new.proto = "h2", new.h2 = r.h2
  PROVE  TlsOk(t, j, f, p, new, o, u \o r.sent)
<1>1. ASSUME ~f PROVE /\ r.err => u \o r.sent = Settings \o DueOf(t)
                      /\ ~r.err => Sending(t, Bytes(t), j, r.h2, Settings, u \o r.sent)
  <2>1. PICK h2, S : h2 = l.h2 /\ S = Bytes(t)
    OBVIOUS
  <2>2. Sending(t, S, g, h2, Settings, u) /\ Stream(S, t.frames, Good(t))
    BY <1>1, <2>1, NoHead DEF TlsReads
  <2>3. r \in Feed(h2, data, FALSE)
    BY <1>1, <2>1
  <2>4. j \in 0..Len(S) /\ data = SubSeq(S, g + 1, j)
    BY <2>1
  <2>5. /\ r.err => u \o r.sent = Settings \o DueOf(t)
        /\ ~r.err => Sending(t, S, j, r.h2, Settings, u \o r.sent)
    BY <2>2, <2>3, <2>4, SettingsIs, SendingGoesOn
  <2> QED
    BY <2>1, <2>5
<1>2. CASE r.err
  <2>1. ~o /\ p = "served"
    BY <1>2
  <2> QED
    BY <1>1, <1>2, <2>1 DEF TlsOk, TlsServed
<1>3. CASE ~r.err
  <2>1. p = "read"
    BY <1>3
  <2> QED
    BY <1>1, <1>3, <2>1 DEF TlsOk, TlsReads
<1> QED
  BY <1>2, <1>3

LEMMA TlsReadMeant ==
  ASSUME IInv, AllMeant, NEW k \in Keys, NEW n \in 1..ReadSize, TlsRead(k, n)
  PROVE  AllMeant'
<1>1. Functions /\ ConnInv(k) /\ MeantAt(k)
  BY DEF IInv, AllMeant
<1>2. pc[k] = "read" /\ driver[k] = "tls" /\ n <= Left(k)
  BY DEF TlsRead
<1>3. PICK j, t, g, f, data : /\ j = got[k] + n /\ t = talk[k] /\ g = got[k] /\ f = deaf[k]
                              /\ data = Coming(k, n)
  OBVIOUS
<1>4. /\ driver[k] # None /\ t \in Talks
      /\ j \in 0..Len(Bytes(t)) /\ g \in 0..j /\ j # 0
      /\ data = SubSeq(Bytes(t), g + 1, j)
  BY <1>1, <1>2, <1>3, ReadPiece
<1>5. PICK l, u : l = local[k] /\ u = out[k]
  OBVIOUS
<1>6. f \in BOOLEAN
  BY <1>1, <1>3 DEF ConnInv, Conn
<1>7. (Agreed(t, l) => TlsReads(t, g, f, l, u)) /\ StateOf(states[k]) = Fresh
  BY <1>1, <1>2, <1>3, <1>4, <1>5 DEF MeantAt, Meant, TlsOk
<1>8. l \in Locals
  BY <1>1, <1>5 DEF ConnInv, Conn
<1>9. PICK new, o, v :
        /\ local' = [local EXCEPT ![k] = new]
        /\ open' = [open EXCEPT ![k] = o]
        /\ out' = [out EXCEPT ![k] = v]
        /\ TlsOk(t, j, f, IF o THEN "read" ELSE "served", new, o, v)
  <2>1. PICK buf : buf = l.buf \o data
    OBVIOUS
  <2>2. PICK a : a = Http1(buf)
    OBVIOUS
  <2>3. \/ /\ l.proto = "h1"
           /\ local' = [local EXCEPT ![k].buf = buf]
           /\ open' = [open EXCEPT ![k] = a.k = "wait"]
           /\ \E s \in IF a.k = "answer" THEN Send([a EXCEPT !.k = "h1"], f) ELSE {<<>>} :
                out' = [out EXCEPT ![k] = s]
        \/ /\ l.proto = "h2"
           /\ \E r \in Feed(l.h2, data, f) :
                /\ local' = [local EXCEPT ![k].h2 = r.h2]
                /\ open' = [open EXCEPT ![k] = ~r.err]
                /\ out' = [out EXCEPT ![k] = @ \o r.sent]
    BY <1>3, <1>5, <2>1, <2>2 DEF TlsRead
  <2>4. CASE t.line # "none" /\ Agreed(t, l)
    <3>1. l.proto = "h1" /\ l.buf = Pre(t, g)
      BY <1>7, <2>4 DEF TlsReads
    <3>2. buf = Pre(t, j)
      BY <1>4, <2>1, <3>1, PieceIs
    <3>3. /\ local' = [local EXCEPT ![k].buf = buf]
          /\ open' = [open EXCEPT ![k] = a.k = "wait"]
      BY <2>3, <3>1
    <3>4. PICK s \in IF a.k = "answer" THEN Send([a EXCEPT !.k = "h1"], f) ELSE {<<>>} :
            out' = [out EXCEPT ![k] = s]
      BY <2>3, <3>1
    <3>5. PICK new : new = [l EXCEPT !.buf = buf]
      OBVIOUS
    <3>6. new.proto = "h1" /\ new.buf = buf
      BY <1>8, <3>1, <3>5 DEF Locals
    <3>7. PICK o : o = (a.k = "wait")
      OBVIOUS
    <3>8. PICK p : p = IF o THEN "read" ELSE "served"
      OBVIOUS
    <3>9. TlsOk(t, j, f, p, new, o, s)
      BY <1>4, <1>6, <2>2, <2>4, <3>2, <3>6, <3>7, <3>8, TlsH1Step
    <3>10. local' = [local EXCEPT ![k] = new]
      BY <1>5, <3>3, <3>5
    <3>11. open' = [open EXCEPT ![k] = o]
      BY <3>3, <3>7
    <3> QED
      BY <3>4, <3>8, <3>9, <3>10, <3>11
  <2>5. CASE t.line = "none" /\ Agreed(t, l)
    <3>1. l.proto = "h2"
      BY <1>7, <2>5 DEF TlsReads
    <3>2. PICK r \in Feed(l.h2, data, f) :
                /\ local' = [local EXCEPT ![k].h2 = r.h2]
                /\ open' = [open EXCEPT ![k] = ~r.err]
                /\ out' = [out EXCEPT ![k] = @ \o r.sent]
      BY <2>3, <3>1
    <3>3. PICK new : new = [l EXCEPT !.h2 = r.h2]
      OBVIOUS
    <3>4. new.proto = "h2" /\ new.h2 = r.h2
      BY <1>8, <3>1, <3>3 DEF Locals
    <3>5. PICK o : o = ~r.err
      OBVIOUS
    <3>6. PICK p : p = IF o THEN "read" ELSE "served"
      OBVIOUS
    <3>7. PICK v : v = u \o r.sent
      OBVIOUS
    <3>8. TlsOk(t, j, f, p, new, o, v)
      BY <1>4, <1>6, <1>7, <2>5, <3>4, <3>5, <3>6, <3>7, TlsH2Step
    <3>9. local' = [local EXCEPT ![k] = new]
      BY <1>5, <3>2, <3>3
    <3>10. open' = [open EXCEPT ![k] = o] /\ out' = [out EXCEPT ![k] = v]
      BY <1>5, <3>2, <3>5, <3>7
    <3> QED
      BY <3>6, <3>8, <3>9, <3>10
  <2>6. CASE ~Agreed(t, l)
    <3>1. PICK new, o, v :
            /\ local' = [local EXCEPT ![k] = new] /\ new.proto = l.proto
            /\ open' = [open EXCEPT ![k] = o]
            /\ out' = [out EXCEPT ![k] = v]
      <4>1. CASE l.proto = "h1"
        <5>1. PICK new : new = [l EXCEPT !.buf = buf]
          OBVIOUS
        <5>2. new.proto = l.proto
          BY <1>8, <5>1 DEF Locals
        <5>3. /\ local' = [local EXCEPT ![k].buf = buf]
              /\ open' = [open EXCEPT ![k] = a.k = "wait"]
              /\ \E s : out' = [out EXCEPT ![k] = s]
          BY <2>3, <4>1
        <5>4. local' = [local EXCEPT ![k] = new]
          BY <1>5, <5>1, <5>3
        <5> QED
          BY <5>2, <5>3, <5>4
      <4>2. CASE l.proto = "h2"
        <5>1. PICK r : /\ local' = [local EXCEPT ![k].h2 = r.h2]
                       /\ open' = [open EXCEPT ![k] = ~r.err]
                       /\ out' = [out EXCEPT ![k] = @ \o r.sent]
          BY <2>3, <4>2
        <5>2. PICK new : new = [l EXCEPT !.h2 = r.h2]
          OBVIOUS
        <5>3. new.proto = l.proto
          BY <1>8, <5>2 DEF Locals
        <5> QED
          BY <1>5, <5>1, <5>2, <5>3
      <4> QED
        BY <2>3, <4>1, <4>2
    <3>2. ~Agreed(t, new)
      BY <2>6, <3>1 DEF Agreed
    <3>3. TlsOk(t, j, f, IF o THEN "read" ELSE "served", new, o, v)
      BY <3>2 DEF TlsOk
    <3> QED
      BY <3>1, <3>3
  <2> QED
    BY <2>4, <2>5, <2>6
<1>10. PICK p : p = IF o THEN "read" ELSE "served"
  OBVIOUS
<1>11. Becomes(k, driver[k], t, j, f, p, states[k], new, o, v, split[k])
  <2>1. /\ UNCHANGED <<driver, talk, deaf, states, split>>
        /\ got' = [got EXCEPT ![k] = j]
    BY <1>3 DEF TlsRead, clientVars
  <2>2. open'[k] = o
    BY <1>1, <1>9 DEF Functions
  <2>3. pc' = [pc EXCEPT ![k] = p]
    BY <1>10, <2>2 DEF TlsRead
  <2> QED
    BY <1>1, <1>3, <1>9, <2>1, <2>3, SameDriver DEF Becomes
<1>12. driver[k] \notin {"once", "many"} /\ p # "idle"
  BY <1>2, <1>10
<1>13. Meant(driver[k], t, j, f, p, states[k], new, o, v, split[k])
  BY <1>4, <1>7, <1>9, <1>10, <1>12 DEF Meant
<1> QED
  BY <1>1, <1>11, <1>13, BecomesMeant

LEMMA InitMeant == Init => AllMeant
<1> SUFFICES ASSUME Init PROVE AllMeant
  OBVIOUS
<1>1. ASSUME NEW k \in Keys PROVE MeantAt(k)
  <2>1. StateOf(states[k]) = Fresh
    BY FreshState DEF Init
  <2> QED
    BY <2>1 DEF Init, MeantAt, Meant
<1> QED
  BY <1>1 DEF AllMeant

LEMMA NextMeans == IInv /\ AllMeant /\ [Next]_vars => AllMeant'
<1> SUFFICES ASSUME IInv, AllMeant, [Next]_vars PROVE AllMeant'
  OBVIOUS
<1>1. Functions /\ \A k \in Keys : MeantAt(k)
  BY DEF IInv, AllMeant
<1>2. CASE \E k \in Keys, t \in Talks, f \in BOOLEAN :
             \/ \E d \in Drivers \ {"tls"} : Connect(k, d, t, f)
             \/ TlsAccept(k, t, f)
  BY <1>2, ConnectMeant, TlsAcceptMeant
<1>3. CASE \E k \in Keys, n \in 1..ReadSize : Data(k, n) \/ TlsRead(k, n)
  BY <1>3, DataMeant, TlsReadMeant
<1>4. CASE \E k \in Keys : Disconnect(k)
  <2>1. PICK k \in Keys : Disconnect(k)
    BY <1>4
  <2> QED
    BY <2>1, GoneMeant, FreshState DEF Disconnect
<1>5. CASE \E k \in Keys : Swept(k) \/ TlsClose(k)
  <2>1. PICK k \in Keys : Gone(k) /\ UNCHANGED states /\ (got[k] = 0 \/ driver[k] = "tls")
    BY <1>5 DEF Swept, TlsClose
  <2>2. states' = [states EXCEPT ![k] = states[k]]
    BY <1>1, <2>1, SameDriver
  <2>3. StateOf(states[k]) = Fresh
    BY <1>1, <2>1 DEF MeantAt, Meant
  <2> QED
    BY <2>1, <2>2, <2>3, GoneMeant
<1>6. CASE \E k \in Keys, proto \in {"h1", "h2"} : TlsHandshake(k, proto)
  BY <1>6, TlsHandshakeMeant
<1>7. CASE TlsAcceptFails \/ UNCHANGED vars
  <2>1. UNCHANGED <<driver, talk, got, deaf, pc, states, local, open, out, split>>
    BY <1>7 DEF TlsAcceptFails, vars
  <2> QED
    BY <1>1, <2>1 DEF AllMeant, MeantAt
<1> QED
  BY <1>2, <1>3, <1>4, <1>5, <1>6, <1>7 DEF Next

--------------------------------------------------------------------------------
(***************************************************************************)
(* What the second invariant says of answers and of closing                *)
(***************************************************************************)

(* After g tokens of t, u is a beginning of x, and all of it at the end.   *)
Answering(t, g, u, x) == IsPrefix(u, x) /\ (g = Len(Bytes(t)) => u = x)

LEMMA NoneSent ==
  ASSUME NEW t, NEW g, NEW x, IsSeq(x), g = Len(Bytes(t)) => x = <<>>
  PROVE  Answering(t, g, <<>>, x)
<1>1. PICK S : x \in Seq(S)
  BY DEF IsSeq
<1>2. PICK e : e = <<>>
  OBVIOUS
<1>3. Len(e) = 0 /\ Len(x) \in Nat
  BY ONLY <1>1, <1>2
<1>4. SubSeq(e, 1, 0) = <<>> /\ SubSeq(x, 1, 0) = <<>>
  <2>1. e \in Seq(S)
    BY ONLY <1>2
  <2>2. 0 \in 0..Len(e) /\ 0 \in 0..Len(x)
    BY ONLY <1>3
  <2>3. \A q \in Seq(S) : 0 \in 0..Len(q) => SubSeq(q, 1, 0) = <<>>
    BY PrefixIs
  <2> QED
    BY ONLY <1>1, <2>1, <2>2, <2>3
<1>5. IsPrefix(e, x)
  BY ONLY <1>3, <1>4 DEF IsPrefix
<1> QED
  BY <1>2, <1>5 DEF Answering

LEMMA AllSent ==
  ASSUME NEW t, NEW g, NEW x, IsSeq(x)
  PROVE  Answering(t, g, x, x)
<1>1. PICK S : x \in Seq(S)
  BY DEF IsSeq
<1>2. Len(x) <= Len(x)
  BY ONLY <1>1
<1> QED
  BY <1>2 DEF Answering, IsPrefix

LEMMA BothArePrefixes ==
  ASSUME NEW x, IsSeq(x)
  PROVE  IsPrefix(<<>>, x) /\ IsPrefix(x, x)
<1>1. PICK t, g : g # Len(Bytes(t))
  <2>1. 0 # Len(Bytes(x)) \/ 1 # Len(Bytes(x))
    OBVIOUS
  <2> QED
    BY <2>1
<1> QED
  BY <1>1, NoneSent, AllSent DEF Answering

LEMMA OnlyEmpty ==
  ASSUME NEW u, IsSeq(u), IsPrefix(u, <<>>)
  PROVE  u = <<>>
<1>1. PICK S : u \in Seq(S)
  BY DEF IsSeq
<1>2. Len(u) <= 0
  BY DEF IsPrefix
<1> QED
  BY ONLY <1>1, <1>2

LEMMA ServedIsSeq == ASSUME NEW t PROVE IsSeq(Served(t))
BY EmptyIsSeq, SingleIsSeq DEF Served

(* A talk with a head that has been served, and one that has not.          *)
LEMMA Http1AsMeant ==
  ASSUME NEW t \in Talks, NEW g, NEW u,
         u = Served(t) \/ (Pending(t, g) /\ u = <<>>)
  PROVE  Answering(t, g, u, Served(t))
<1>1. IsSeq(Served(t))
  BY ServedIsSeq
<1>2. CASE u = Served(t)
  BY <1>1, <1>2, AllSent
<1>3. CASE Pending(t, g) /\ u = <<>>
  <2>1. g = Len(Bytes(t)) => Served(t) = <<>>
    BY <1>3, PendingAtTheEnd
  <2> QED
    BY <1>1, <1>3, <2>1, NoneSent
<1> QED
  BY <1>2, <1>3

LEMMA PlainH1AsMeant ==
  ASSUME NEW t \in Talks, NEW g, NEW f, f = FALSE, NEW S, NEW u, PlainH1(t, g, f, S, u)
  PROVE  Answering(t, g, u, Served(t))
BY Http1AsMeant DEF PlainH1

LEMMA PlainH2AsMeant ==
  ASSUME NEW t \in Talks, t.line = "none", NEW g \in 0..Len(Bytes(t)), NEW S, NEW u,
         PlainH2(t, g, S, u)
  PROVE  Answering(t, g, u, DueOf(t))
<1>1. IsSeq(DueOf(t)) /\ Stream(Bytes(t), t.frames, Good(t))
  BY DueIsSeq, NoHead
<1>2. CASE u = DueOf(t)
  BY <1>1, <1>2, AllSent
<1>3. CASE u = <<>> /\ (Good(t) => g < 3)
  <2>1. ASSUME g = Len(Bytes(t)) PROVE DueOf(t) = <<>>
    <3>1. Len(t.frames) \in Nat
      BY TalkIs DEF TalkParts
    <3>2. Good(t) => Len(Bytes(t)) = 6 + Len(t.frames)
      BY <1>1 DEF Stream
    <3>3. ~Good(t)
      BY <1>3, <2>1, <3>1, <3>2
    <3> QED
      BY <3>3 DEF DueOf
  <2> QED
    BY <1>1, <1>3, <2>1, NoneSent
<1>4. CASE Sending(t, Bytes(t), g, S.h2, <<>>, u)
  <2>1. <<>> \o DueOf(t) = DueOf(t)
    BY <1>1, NothingBefore
  <2>2. IsPrefix(u, <<>> \o DueOf(t)) /\ (g = Len(Bytes(t)) => u = <<>> \o DueOf(t))
    BY <1>1, <1>4, EmptyReplies, SendingIsDue, ZenonT(30)
  <2> QED
    BY <2>1, <2>2 DEF Answering
<1> QED
  BY <1>2, <1>3, <1>4 DEF PlainH2

LEMMA PlainUpAsMeant ==
  ASSUME NEW t \in Talks, NEW g \in 0..Len(Bytes(t)), NEW S, NEW u, PlainUp(t, g, S, u),
         NEW x, x = IF Parses(t) THEN Begun \o DueOf(t) ELSE <<>>
  PROVE  Answering(t, g, u, x)
<1>1. IsSeq(Begun)
  BY BegunIs, Zenon DEF IsSeq
<1>2. IsSeq(x)
  <2>1. IsSeq(DueOf(t))
    BY DueIsSeq
  <2>2. IsSeq(Begun \o DueOf(t))
    BY <1>1, <2>1, ConcatIsSeq
  <2> QED
    BY <2>2, EmptyIsSeq
<1>3. CASE u = x
  BY <1>2, <1>3, AllSent
<1>4. CASE g < HeadLen(t) /\ u = <<>>
  <2>1. g # Len(Bytes(t))
    BY <1>4, HeadLenType
  <2> QED
    BY <1>2, <1>4, <2>1, NoneSent
<1>5. CASE ~(g < HeadLen(t)) /\ Parses(t)
           /\ Sending(t, Tail3(t), g - HeadLen(t), S.h2, Begun, u)
  <2>1. PICK h \in Nat : h = HeadLen(t) /\ h <= g /\ g \in h..g
    BY <1>5, HeadLenType
  <2>2. PICK i : i = g - h
    OBVIOUS
  <2>3. i \in 0..Len(Tail3(t)) /\ Len(Bytes(t)) = h + Len(Tail3(t)) /\ Len(Tail3(t)) \in Nat
    <3>1. Len(Tail3(t)) \in Nat /\ Len(Bytes(t)) = HeadLen(t) + Len(Tail3(t))
      BY BeyondHead
    <3> QED
      BY <2>1, <2>2, <3>1
  <2>4. Sending(t, Tail3(t), i, S.h2, Begun, u) /\ Stream(Tail3(t), t.frames, Good(t))
    BY <1>5, <2>1, <2>2, TailIs
  <2>5. IsPrefix(u, Begun \o DueOf(t)) /\ (i = Len(Tail3(t)) => u = Begun \o DueOf(t))
    <3>1. PICK T : T = Tail3(t)
      OBVIOUS
    <3>2. PICK b, h2 : b = Begun /\ h2 = S.h2
      OBVIOUS
    <3>3. /\ i \in 0..Len(T) /\ Stream(T, t.frames, Good(t)) /\ b \in Seq(AllReplies)
          /\ Sending(t, T, i, h2, b, u)
      BY <2>3, <2>4, <3>1, <3>2, BegunIs
    <3>4. IsPrefix(u, b \o DueOf(t)) /\ (i = Len(T) => u = b \o DueOf(t))
      BY ONLY <3>3, t \in Talks, SendingIsDue
    <3> QED
      BY <3>1, <3>2, <3>4
  <2>6. x = Begun \o DueOf(t)
    BY <1>5
  <2>7. g = Len(Bytes(t)) => i = Len(Tail3(t))
    BY <2>1, <2>2, <2>3
  <2> QED
    BY <2>5, <2>6, <2>7 DEF Answering
<1> QED
  BY <1>3, <1>4, <1>5 DEF PlainUp

LEMMA TlsAsMeant ==
  ASSUME NEW t \in Talks, NEW g \in 0..Len(Bytes(t)), NEW f, f = FALSE, NEW l, NEW u,
         TlsReads(t, g, f, l, u) \/ TlsServed(t, g, f, u)
  PROVE  Answering(t, g, u, IF t.line # "none" THEN Served(t) ELSE Settings \o DueOf(t))
<1>1. CASE t.line # "none"
  <2>1. u = Served(t) \/ (Pending(t, g) /\ u = <<>>)
    BY <1>1 DEF TlsReads, TlsServed
  <2> QED
    BY <1>1, <2>1, Http1AsMeant
<1>2. CASE t.line = "none" /\ u = Settings \o DueOf(t)
  <2>1. IsSeq(Settings) /\ IsSeq(DueOf(t))
    BY SettingsIs, DueIsSeq, Zenon DEF IsSeq
  <2>2. IsSeq(Settings \o DueOf(t))
    BY <2>1, ConcatIsSeq
  <2> QED
    BY <1>2, <2>2, AllSent
<1>3. CASE t.line = "none" /\ Sending(t, Bytes(t), g, l.h2, Settings, u)
  <2>1. Stream(Bytes(t), t.frames, Good(t))
    BY <1>3, NoHead
  <2>2. IsPrefix(u, Settings \o DueOf(t)) /\ (g = Len(Bytes(t)) => u = Settings \o DueOf(t))
    BY <1>3, <2>1, SettingsIs, SendingIsDue
  <2> QED
    BY <1>3, <2>2 DEF Answering
<1>4. t.line # "none" \/ u = Settings \o DueOf(t)
      \/ Sending(t, Bytes(t), g, l.h2, Settings, u)
  BY DEF TlsReads, TlsServed
<1> QED
  BY <1>1, <1>2, <1>3, <1>4

(* What the code sends on a talk, whatever the talk means.                 *)
SentTo(d, t) ==
  CASE t.line = "none" -> IF d = "tls" THEN Settings \o DueOf(t) ELSE DueOf(t)
    [] t.line # "none" /\ (d = "tls" \/ ~IsUpgrade(t)) -> Served(t)
    [] OTHER -> IF Parses(t) THEN Begun \o DueOf(t) ELSE <<>>

LEMMA SentToIs ==
  ASSUME NEW d, NEW t \in Talks
  PROVE  /\ d = "tls" => SentTo(d, t) = IF t.line # "none" THEN Served(t)
                                        ELSE Settings \o DueOf(t)
         /\ d # "tls" /\ t.line = "none" => SentTo(d, t) = DueOf(t)
         /\ d # "tls" /\ t.line # "none" /\ ~IsUpgrade(t) => SentTo(d, t) = Served(t)
         /\ d # "tls" /\ t.line # "none" /\ IsUpgrade(t) =>
              SentTo(d, t) = IF Parses(t) THEN Begun \o DueOf(t) ELSE <<>>
BY DEF SentTo

LEMMA TailAfterOne ==
  ASSUME NEW x, NEW q, IsSeq(q)
  PROVE  Tail(<<x>> \o q) = q
<1>1. PICK S : q \in Seq(S)
  BY DEF IsSeq
<1>2. PICK T : T = S \cup {x}
  OBVIOUS
<1>3. q \in Seq(T) /\ <<x>> \in Seq(T)
  BY ONLY <1>1, <1>2
<1> QED
  BY ONLY <1>3

(* Where a talk has at least one header line, the code reads its head and  *)
(* its body as they are meant.                                             *)
LEMMA ReadAsMeant ==
  ASSUME NEW t, t.line = "request" => t.headers # <<>>
  PROVE  /\ Parses(t) <=> WellFormed(t)
         /\ BodyRead(t) = BodyOf(t)
         /\ Served(t) = HandlerAnswer("h1", t)
<1>1. Parses(t) <=> WellFormed(t)
  BY DEF Parses, WellFormed
<1>2. BodyRead(t) = BodyOf(t)
  <2>1. ~WellFormed(t) => BodyOf(t) = {}
    BY DEF BodyOf
  <2> QED
    BY <1>1, <2>1 DEF BodyRead
<1>3. Served(t) = HandlerAnswer("h1", t)
  BY <1>2 DEF Served, HandlerAnswer
<1> QED
  BY <1>1, <1>2, <1>3

(* The answer to an upgraded request without a body.                       *)
LEMMA BegunWithoutBody ==
  ASSUME NEW t \in Talks, BodyOf(t) = {0}
  PROVE  /\ (<<Reply("101", 0)>> \o Settings) \o HandlerAnswer("h2", t) = Begun
         /\ IsSeq(HandlerAnswer("h2", t)) /\ IsSeq(<<Reply("101", 0)>> \o Settings)
<1>1. 0 <= After(t)
  <2>1. PICK h \in Nat, b \in Nat : h = HeadLen(t) /\ b = Len(Bytes(t)) /\ h <= b
    BY HeadLenType
  <2>2. After(t) = b - h
    BY <2>1 DEF After, HeadLen
  <2> QED
    BY <2>1, <2>2
<1>2. \E n \in BodyOf(t) : n <= After(t)
  BY <1>1
<1>3. (CHOOSE n \in BodyOf(t) : TRUE) = 0
  OBVIOUS
<1>4. HandlerAnswer("h2", t) = <<Reply("h2", 0)>>
  BY <1>1, <1>2, <1>3 DEF HandlerAnswer
<1>5. (<<Reply("101", 0)>> \o Settings) \o HandlerAnswer("h2", t) = Begun
  BY <1>4, BegunIs DEF Settings
<1>6. IsSeq(<<Reply("101", 0)>>) /\ IsSeq(Settings)
  BY SingleIsSeq, Zenon DEF Settings
<1>7. IsSeq(<<Reply("101", 0)>> \o Settings)
  BY <1>6, ConcatIsSeq
<1>8. IsSeq(HandlerAnswer("h2", t))
  BY <1>4, SingleIsSeq, Zenon
<1> QED
  BY <1>5, <1>7, <1>8

(* What the code sends is what the talk means, but for the departures and  *)
(* the SETTINGS.                                                           *)
LEMMA SentIsMeant ==
  ASSUME NEW k \in Keys, talk[k] \in Talks, ~IsBare(k), ~UpgradesWithBody(k)
  PROVE  SentTo(driver[k], talk[k]) = Meaning(k)
<1>1. PICK d, t : d = driver[k] /\ t = talk[k] /\ t \in Talks
  OBVIOUS
<1>2. /\ Parses(t) <=> WellFormed(t)
      /\ BodyRead(t) = BodyOf(t)
      /\ Served(t) = HandlerAnswer("h1", t)
  <2>1. t.line = "request" => t.headers # <<>>
    BY <1>1 DEF IsBare
  <2> QED
    BY <2>1, ReadAsMeant
<1>3. DueOf(t) = IF t.h2 /\ t.body = 0 THEN FrameAnswers(t) ELSE <<>>
  BY Zenon DEF DueOf, Good
<1>4. IsSeq(DueOf(t)) /\ IsSeq(Settings)
  BY <1>1, DueIsSeq, SettingsIs, Zenon DEF IsSeq
<1>5. HasPriorKnowledge(k) <=> d # "tls" /\ t.line = "none" /\ t.h2 /\ t.body = 0
  BY <1>1 DEF HasPriorKnowledge
<1>9. Meaning(k) = IF HasPriorKnowledge(k) THEN Tail(Expected(d, t)) ELSE Expected(d, t)
  BY <1>1 DEF Meaning
<1> HIDE DEF DueOf
<1>6. CASE t.line = "none"
  <2>1. CASE t.h2 /\ t.body = 0
    <3>1. Expected(d, t) = Settings \o DueOf(t)
      BY <1>3, <1>6, <2>1 DEF Expected
    <3>2. Tail(Settings \o DueOf(t)) = DueOf(t)
      BY <1>4, TailAfterOne DEF Settings
    <3>3. SentTo(d, t) = IF d = "tls" THEN Settings \o DueOf(t) ELSE DueOf(t)
      BY <1>6 DEF SentTo
    <3> QED
      BY <1>1, <1>5, <1>6, <1>9, <2>1, <3>1, <3>2, <3>3
  <2>2. CASE ~(t.h2 /\ t.body = 0)
    <3>1. Expected(d, t) = IF d = "tls" THEN Settings ELSE <<>>
      BY <1>6, <2>2 DEF Expected
    <3>2. DueOf(t) = <<>> /\ Settings \o <<>> = Settings
      BY <1>3, <1>4, <2>2, NothingMore
    <3>3. SentTo(d, t) = IF d = "tls" THEN Settings \o <<>> ELSE <<>>
      BY <1>6, <3>2 DEF SentTo
    <3>4. ~HasPriorKnowledge(k)
      BY <1>5, <2>2
    <3> QED
      BY <1>1, <1>9, <3>1, <3>2, <3>3, <3>4
  <2> QED
    BY <2>1, <2>2
<1>7. CASE t.line # "none" /\ (d = "tls" \/ ~IsUpgrade(t))
  <2>1. Expected(d, t) = HandlerAnswer("h1", t) /\ SentTo(d, t) = Served(t)
    BY <1>7 DEF Expected, SentTo
  <2> QED
    BY <1>1, <1>2, <1>5, <1>7, <1>9, <2>1
<1>8. CASE t.line # "none" /\ d # "tls" /\ IsUpgrade(t)
  <2>1. SentTo(d, t) = IF Parses(t) THEN Begun \o DueOf(t) ELSE <<>>
    BY <1>8 DEF SentTo
  <2>2. CASE ~WellFormed(t)
    <3>1. BodyOf(t) = {}
      BY <2>2 DEF BodyOf
    <3>2. Expected(d, t) = <<>>
      BY <1>8, <3>1 DEF Expected
    <3> QED
      BY <1>1, <1>2, <1>5, <1>8, <1>9, <2>1, <2>2, <3>2
  <2>3. CASE WellFormed(t)
    <3>1. BodyOf(t) = {0}
      <4>1. UpgradesWithBody(k) <=> d # "tls" /\ IsUpgrade(t) /\ WellFormed(t) /\ BodyOf(t) # {0}
        BY <1>1, Zenon DEF UpgradesWithBody
      <4> QED
        BY <1>8, <2>3, <4>1, Zenon
    <3>2. PICK a, h, x : a = <<Reply("101", 0)>> /\ h = HandlerAnswer("h2", t) /\ x = DueOf(t)
      OBVIOUS
    <3>3. (a \o Settings) \o h = Begun /\ IsSeq(h) /\ IsSeq(a \o Settings)
      BY <1>1, <3>1, <3>2, BegunWithoutBody
    <3>4. t.body \in BodyOf(t) <=> t.body = 0
      BY <3>1
    <3>5. Expected(d, t) = a \o Settings \o h \o x
      <4>1. x = IF t.h2 /\ t.body \in BodyOf(t) THEN FrameAnswers(t) ELSE <<>>
        BY <1>3, <3>2, <3>4
      <4>2. BodyOf(t) # {}
        BY <3>1
      <4> QED
        BY <1>8, <3>2, <4>1, <4>2 DEF Expected
    <3>6. Expected(d, t) = Begun \o x
      BY <3>3, <3>5
    <3> QED
      BY <1>1, <1>2, <1>5, <1>8, <1>9, <2>1, <2>3, <3>2, <3>6
  <2> QED
    BY <2>2, <2>3
<1> QED
  BY <1>6, <1>7, <1>8

(* A request without header lines is never sent anything.                  *)
LEMMA BareIsRefused ==
  ASSUME NEW k \in Keys, talk[k] \in Talks, IsBare(k)
  PROVE  SentTo(driver[k], talk[k]) = <<>> /\ IsSeq(Meaning(k))
<1>1. PICK d, t : d = driver[k] /\ t = talk[k] /\ t \in Talks
  OBVIOUS
<1>2. t.line = "request" /\ t.headers = <<>>
  BY <1>1 DEF IsBare
<1>3. ~Parses(t) /\ BodyRead(t) = {}
  BY <1>2 DEF Parses, BodyRead
<1>4. ~IsUpgrade(t)
  BY <1>2 DEF IsUpgrade, Named
<1>5. SentTo(d, t) = <<>>
  BY <1>2, <1>3, <1>4 DEF SentTo, Served
<1>6. ~HasPriorKnowledge(k)
  BY <1>1, <1>2 DEF HasPriorKnowledge
<1>7. Meaning(k) = HandlerAnswer("h1", t)
  BY <1>1, <1>2, <1>4, <1>6 DEF Meaning, Expected
<1>8. IsSeq(HandlerAnswer("h1", t))
  BY EmptyIsSeq, SingleIsSeq DEF HandlerAnswer
<1> QED
  BY <1>1, <1>5, <1>7, <1>8

(* A connection that is served, or will be.                                *)
LEMMA UnderWay ==
  ASSUME IInv, AllMeant, NEW k \in Keys, pc[k] \in {"read", "served"}
  PROVE  /\ driver[k] # None /\ talk[k] \in Talks /\ got[k] \in 0..Len(Bytes(talk[k]))
         /\ driver[k] # "tls" => PlainOk(talk[k], got[k], deaf[k], StateOf(states[k]), open[k],
                                         out[k], split[k])
         /\ driver[k] = "tls" =>
              /\ TlsOk(talk[k], got[k], deaf[k], pc[k], local[k], open[k], out[k])
              /\ pc[k] = "read" => open[k] = TRUE
         /\ open[k] \in BOOLEAN
<1>1. ConnInv(k) /\ MeantAt(k)
  BY DEF IInv, AllMeant
<1>2. driver[k] # None
  BY <1>1 DEF ConnInv, Conn
<1>3. driver[k] \in {"once", "many", "tls"}
  BY <1>1, <1>2, DispatchAssumption DEF ConnInv, Conn
<1>4. /\ talk[k] \in Talks /\ got[k] \in 0..Len(Bytes(talk[k])) /\ open[k] \in BOOLEAN
      /\ driver[k] = "tls" /\ pc[k] = "read" => open[k] = TRUE
  BY <1>1, <1>2 DEF ConnInv, Conn
<1>5. driver[k] # "tls" => driver[k] \in {"once", "many"}
  BY <1>3
<1> QED
  BY <1>1, <1>2, <1>4, <1>5 DEF MeantAt, Meant

LEMMA InvAnswered == IInv /\ AllMeant => AnsweredAsMeant
<1> SUFFICES ASSUME IInv, AllMeant, NEW k \in Keys, pc[k] \in {"read", "served"},
                    ~deaf[k], HeadFits(k), SpeaksProto(k), ~UpgradesWithBody(k)
             PROVE  /\ IsPrefix(out[k], Meaning(k))
                    /\ Left(k) = 0 /\ ~IsBare(k) /\ ~split[k] => out[k] = Meaning(k)
  BY DEF AnsweredAsMeant, Attends
<1>1. PICK d, t, g, S, u : /\ d = driver[k] /\ t = talk[k] /\ g = got[k] /\ u = out[k]
                           /\ S = StateOf(states[k])
  OBVIOUS
<1>2. PICK f : f = deaf[k] /\ f = FALSE
  <2>1. deaf[k] \in BOOLEAN
    BY DEF IInv, ConnInv, Conn
  <2> QED
    BY <2>1
<1>3. /\ t \in Talks /\ g \in 0..Len(Bytes(t))
      /\ d # "tls" => PlainOk(t, g, f, S, open[k], u, split[k])
      /\ d = "tls" => TlsOk(t, g, f, pc[k], local[k], open[k], u)
  BY <1>1, <1>2, UnderWay
<1>4. d # "tls" => HeadLen(t) <= MaxHead
  BY <1>1 DEF HeadFits, HeadLen
<1>5. IsPrefix(u, SentTo(d, t)) /\ (g = Len(Bytes(t)) /\ ~split[k] => u = SentTo(d, t))
  <2>1. CASE d = "tls"
    <3>1. TlsReads(t, g, f, local[k], u) \/ TlsServed(t, g, f, u)
      BY <1>1, <1>3, <2>1 DEF TlsOk, SpeaksProto, Agreed
    <3>2. Answering(t, g, u, IF t.line # "none" THEN Served(t) ELSE Settings \o DueOf(t))
      BY <1>2, <1>3, <3>1, TlsAsMeant
    <3> QED
      BY <1>3, <2>1, <3>2, SentToIs DEF Answering
  <2>2. CASE d # "tls" /\ t.line = "none" /\ ~split[k]
    <3>1. PlainH2(t, g, S, u)
      BY <1>2, <1>3, <2>2 DEF PlainOk
    <3>2. Answering(t, g, u, DueOf(t))
      BY <1>3, <2>2, <3>1, PlainH2AsMeant
    <3> QED
      BY <1>3, <2>2, <3>2, SentToIs DEF Answering
  <2>5. CASE d # "tls" /\ t.line = "none" /\ split[k]
    <3>1. u = <<>> \/ u = DueOf(t)
      BY <1>2, <1>3, <2>5 DEF PlainOk
    <3>2. IsPrefix(<<>>, DueOf(t)) /\ IsPrefix(DueOf(t), DueOf(t))
      BY <1>3, DueIsSeq, BothArePrefixes
    <3> QED
      BY <1>3, <2>5, <3>1, <3>2, SentToIs
  <2>3. CASE d # "tls" /\ t.line # "none" /\ ~IsUpgrade(t)
    <3>1. PlainH1(t, g, f, S, u)
      BY <1>3, <1>4, <2>3 DEF PlainOk
    <3>2. Answering(t, g, u, Served(t))
      BY <1>2, <1>3, <3>1, PlainH1AsMeant
    <3> QED
      BY <1>3, <2>3, <3>2, SentToIs DEF Answering
  <2>4. CASE d # "tls" /\ t.line # "none" /\ IsUpgrade(t)
    <3>1. PlainUp(t, g, S, u)
      BY <1>2, <1>3, <1>4, <2>4 DEF PlainOk
    <3>2. PICK x : x = IF Parses(t) THEN Begun \o DueOf(t) ELSE <<>>
      OBVIOUS
    <3>3. Answering(t, g, u, x)
      BY <1>3, <3>1, <3>2, PlainUpAsMeant
    <3>4. SentTo(d, t) = x
      BY <1>3, <2>4, <3>2, SentToIs
    <3> QED
      BY <3>3, <3>4 DEF Answering
  <2> QED
    BY <2>1, <2>2, <2>3, <2>4, <2>5
<1>6. Left(k) = 0 => g = Len(Bytes(t))
  <2>1. g \in Nat /\ Len(Bytes(t)) \in Nat
    BY <1>3, LengthOfBytes
  <2> QED
    BY <1>1, <2>1 DEF Left
<1>7. /\ IsPrefix(out[k], SentTo(driver[k], talk[k]))
      /\ Left(k) = 0 /\ ~split[k] => out[k] = SentTo(driver[k], talk[k])
  BY <1>1, <1>5, <1>6
<1>8. CASE ~IsBare(k)
  <2>1. SentTo(driver[k], talk[k]) = Meaning(k)
    BY <1>1, <1>3, <1>8, SentIsMeant
  <2> QED
    BY <1>7, <2>1
<1>9. CASE IsBare(k)
  <2>1. SentTo(driver[k], talk[k]) = <<>> /\ IsSeq(Meaning(k))
    BY <1>1, <1>3, <1>9, BareIsRefused
  <2>2. out[k] = <<>>
    <3>1. IsPrefix(u, <<>>) /\ IsSeq(u)
      BY <1>1, <1>7, <2>1 DEF IInv, ConnInv, Conn
    <3> QED
      BY <1>1, <3>1, OnlyEmpty
  <2>3. IsPrefix(<<>>, Meaning(k))
    BY <2>1, BothArePrefixes
  <2> QED
    BY <1>9, <2>2, <2>3
<1> QED
  BY <1>8, <1>9

(* A request without header lines waits for no body, whether it is taken   *)
(* for a request or not.                                                   *)
LEMMA LackingAsMeant ==
  ASSUME NEW t \in Talks
  PROVE  Lacking(t) <=> WaitsForBody(t)
<1>1. CASE t.line = "request" => t.headers # <<>>
  BY <1>1, ReadAsMeant DEF Lacking, WaitsForBody
<1>2. CASE t.line = "request" /\ t.headers = <<>>
  <2>1. ~Lacking(t)
    BY <1>2 DEF Lacking, BodyRead, Parses
  <2>2. BodyOf(t) \subseteq {0}
    <3>1. Named(t, "length") = {}
      BY <1>2 DEF Named
    <3> QED
      BY <3>1 DEF BodyOf
  <2>3. PICK h \in Nat, b \in Nat : h = HeadLen(t) /\ b = Len(Bytes(t)) /\ h <= b
    BY HeadLenType
  <2>4. After(t) = b - h
    BY <2>3 DEF After, HeadLen
  <2> QED
    BY <2>1, <2>2, <2>3, <2>4 DEF WaitsForBody
<1> QED
  BY <1>1, <1>2

LEMMA InvDecided == IInv /\ AllMeant => ClosedWhenDecided
<1> SUFFICES ASSUME IInv, AllMeant, NEW k \in Keys, pc[k] \in {"read", "served"}, Left(k) = 0,
                    HeadFits(k), SpeaksProto(k), talk[k].line # "none",
                    driver[k] = "tls" \/ ~IsUpgrade(talk[k])
             PROVE  open[k] <=> WaitsForBody(talk[k])
  BY DEF ClosedWhenDecided
<1>1. PICK d, t, g, S : d = driver[k] /\ t = talk[k] /\ g = got[k] /\ S = StateOf(states[k])
  OBVIOUS
<1>2. /\ t \in Talks /\ g \in 0..Len(Bytes(t))
      /\ d # "tls" => PlainOk(t, g, deaf[k], S, open[k], out[k], split[k])
      /\ d = "tls" => /\ TlsOk(t, g, deaf[k], pc[k], local[k], open[k], out[k])
                      /\ pc[k] = "read" => open[k] = TRUE
  BY <1>1, UnderWay
<1>3. g = Len(Bytes(t))
  <2>1. g \in Nat /\ Len(Bytes(t)) \in Nat
    BY <1>2, LengthOfBytes
  <2> QED
    BY <1>1, <2>1 DEF Left
<1>4. Pending(t, g) <=> WaitsForBody(t)
  BY <1>2, <1>3, PendingAtTheEnd, LackingAsMeant
<1>5. open[k] <=> Pending(t, g)
  <2>1. CASE d = "tls" /\ pc[k] = "read"
    BY <1>1, <1>2, <2>1 DEF TlsOk, TlsReads, SpeaksProto, Agreed
  <2>2. CASE d = "tls" /\ pc[k] = "served"
    BY <1>1, <1>2, <2>2 DEF TlsOk, TlsServed, SpeaksProto, Agreed
  <2>3. CASE d # "tls"
    <3>1. HeadLen(t) <= MaxHead /\ t.line # "none" /\ ~IsUpgrade(t)
      BY <1>1, <2>3 DEF HeadFits, HeadLen
    <3>2. open[k] = ~S.closing /\ PlainH1(t, g, deaf[k], S, out[k])
      BY <1>2, <2>3, <3>1 DEF PlainOk
    <3> QED
      BY <3>2 DEF PlainH1
  <2> QED
    BY <2>1, <2>2, <2>3
<1> QED
  BY <1>1, <1>4, <1>5

--------------------------------------------------------------------------------
(***************************************************************************)
(* Answers, and closing                                                    *)
(***************************************************************************)

(* A talk is answered by what it means, however its bytes are cut: never   *)
(* with anything else, and in full once all of it has been delivered; the  *)
(* handler gets the body at its full length, the frames after an upgrade   *)
(* are answered in order, and what a swept connection leaves in the map    *)
(* states does the next one no harm (dispatchPlain, serveHTTP1Plain,       *)
(* beginH2CUpgrade, serveH1OverConn and serveH2OverConn of                 *)
(* httpserver.go).  Where the code leaves what a talk means is named in    *)
(* the property: IsBare, UpgradesWithBody, HasPriorKnowledge, split.       *)
THEOREM TalksAreAnsweredAsMeant == Spec => []AnsweredAsMeant
<1>1. Kept => IInv'
  BY DEF Kept
<1> QED
  BY InitInv, InitMeant, NextKeeps, NextMeans, InvAnswered, <1>1, PTL DEF Spec

(* With all of an HTTP/1 talk delivered the connection is closed if it was *)
(* answered or makes no request, and open if its body is still short:      *)
(* closeConn of serveHTTP1Plain and the return of serveH1OverConn come     *)
(* when the request is decided, neither earlier nor later.                 *)
THEOREM DecidedIsClosed == Spec => []ClosedWhenDecided
<1>1. Kept => IInv'
  BY DEF Kept
<1> QED
  BY InitInv, InitMeant, NextKeeps, NextMeans, InvDecided, <1>1, PTL DEF Spec
================================================================================
