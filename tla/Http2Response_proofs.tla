------------------------- MODULE Http2Response_proofs -------------------------
(***************************************************************************)
(* What Http2Conn answers: WriteData by induction, and the theorem about   *)
(* responses.                                                              *)
(***************************************************************************)
EXTENDS Http2Conn, SequenceTheorems, LeastNumber, TLAPS

--------------------------------------------------------------------------------
(***************************************************************************)
(* WriteData is well defined                                               *)
(***************************************************************************)

(* The loop of WriteData once, with g for what comes after.                *)
Once(g, n) ==
  IF n > MaxFrameSize
    THEN <<Response("data", MaxFrameSize, FALSE)>> \o g[n - MaxFrameSize]
    ELSE <<Response("data", n, TRUE)>>

(* g does what WriteData does for bodies of up to n bytes.                 *)
Writes(g, n) == \A i \in 0..n : g[i] = Once(g, i)

LEMMA SameOnce ==
  ASSUME NEW n \in Nat, NEW g, NEW h, \A i \in Nat : i < n => g[i] = h[i]
  PROVE  Once(g, n) = Once(h, n)
<1>1. MaxFrameSize \in Nat \ {0}
  BY Http2Assumption
<1>2. n > MaxFrameSize => n - MaxFrameSize \in Nat /\ n - MaxFrameSize < n
  BY <1>1
<1> QED
  BY <1>2 DEF Once

LEMMA WritesSame ==
  ASSUME NEW a \in Nat, NEW g, NEW h, Writes(g, a), NEW b \in Nat, Writes(h, b)
  PROVE  \A n \in Nat : n <= a /\ n <= b => g[n] = h[n]
<1> DEFINE S == {n \in Nat : n <= a /\ n <= b /\ g[n] # h[n]}
<1>1. SUFFICES ASSUME S # {} PROVE FALSE
  OBVIOUS
<1>2. PICK n \in S : \A m \in S : n <= m
  <2>1. S \in SUBSET Nat
    OBVIOUS
  <2> HIDE DEF S
  <2> QED
    BY <1>1, <2>1, LeastNumber
<1>3. n \in Nat /\ n \in 0..a /\ n \in 0..b /\ g[n] # h[n]
  OBVIOUS
<1>4. \A i \in Nat : i < n => g[i] = h[i]
  BY <1>2, <1>3
<1>5. Once(g, n) = Once(h, n)
  BY <1>3, <1>4, SameOnce
<1> QED
  BY <1>3, <1>5 DEF Writes

LEMMA WritesExist == \A n \in Nat : \E g : Writes(g, n)
<1> DEFINE S == {n \in Nat : ~\E g : Writes(g, n)}
<1>1. SUFFICES ASSUME S # {} PROVE FALSE
  OBVIOUS
<1>2. PICK n \in S : \A m \in S : n <= m
  <2>1. S \in SUBSET Nat
    OBVIOUS
  <2> HIDE DEF S
  <2> QED
    BY <1>1, <2>1, LeastNumber
<1>3. n \in Nat /\ ~\E g : Writes(g, n)
  OBVIOUS
<1>4. PICK g : n # 0 => Writes(g, n - 1)
  <2>1. CASE n = 0
    BY <2>1
  <2>2. CASE n # 0
    <3>1. n - 1 \in Nat /\ ~(n <= n - 1)
      BY <1>3, <2>2
    <3>2. n - 1 \notin S
      BY <1>2, <3>1
    <3> QED
      BY <3>1, <3>2
  <2> QED
    BY <2>1, <2>2
<1>5. PICK h : h = [i \in 0..n |-> IF i = n THEN Once(g, n) ELSE g[i]]
  OBVIOUS
<1>6. \A i \in Nat : i < n => h[i] = g[i]
  BY <1>3, <1>5
<1>7. h[n] = Once(g, n)
  BY <1>3, <1>5
<1>8. ASSUME NEW i \in 0..n PROVE h[i] = Once(h, i)
  <2>1. \A j \in Nat : j < i => h[j] = g[j]
    BY <1>3, <1>6
  <2>2. Once(h, i) = Once(g, i)
    BY <2>1, SameOnce
  <2>3. CASE i = n
    BY <1>7, <2>2, <2>3
  <2>4. CASE i # n
    <3>1. i < n /\ n # 0 /\ i \in 0..(n - 1)
      BY <1>3, <2>4
    <3> QED
      BY <1>4, <1>6, <2>2, <3>1 DEF Writes
  <2> QED
    BY <2>3, <2>4
<1> QED
  BY <1>3, <1>8 DEF Writes

LEMMA WriteDataIsOnce == \A n \in Nat : WriteData[n] = Once(WriteData, n)
<1> DEFINE G(n) == CHOOSE g : Writes(g, n)
<1>1. PICK w : w = [n \in Nat |-> G(n)[n]]
  OBVIOUS
<1>2. ASSUME NEW n \in Nat PROVE Writes(G(n), n)
  BY WritesExist
<1> HIDE DEF G
<1>3. ASSUME NEW n \in Nat PROVE w[n] = Once(w, n)
  <2>1. G(n)[n] = Once(G(n), n)
    BY <1>2 DEF Writes
  <2>2. ASSUME NEW i \in Nat, i < n PROVE w[i] = G(n)[i]
    <3>1. Writes(G(i), i) /\ Writes(G(n), n)
      BY <1>2
    <3>2. G(i)[i] = G(n)[i]
      BY <2>2, <3>1, WritesSame
    <3> QED
      BY <1>1, <3>2
  <2>3. Once(w, n) = Once(G(n), n)
    BY <2>2, SameOnce
  <2> QED
    BY <1>1, <2>1, <2>3
<1>4. w = [n \in Nat |-> Once(w, n)]
  BY <1>1, <1>3
<1>5. w = [n \in Nat |-> IF n > MaxFrameSize
                THEN <<Response("data", MaxFrameSize, FALSE)>> \o w[n - MaxFrameSize]
                ELSE <<Response("data", n, TRUE)>>]
  BY <1>4 DEF Once
<1>6. WriteData = [n \in Nat |-> IF n > MaxFrameSize
        THEN <<Response("data", MaxFrameSize, FALSE)>> \o WriteData[n - MaxFrameSize]
        ELSE <<Response("data", n, TRUE)>>]
  BY <1>5, Zenon DEF WriteData
<1>7. WriteData = [n \in Nat |-> Once(WriteData, n)]
  BY <1>6, Zenon DEF Once
<1> QED
  BY <1>7

--------------------------------------------------------------------------------
(***************************************************************************)
(* What is written                                                         *)
(***************************************************************************)

Responses == [type : {"headers", "data"}, len : Nat, endStream : BOOLEAN]

LEMMA ResponseType ==
  ASSUME NEW type \in {"headers", "data"}, NEW len \in Nat, NEW endStream \in BOOLEAN,
         NEW r, r = Response(type, len, endStream)
  PROVE  /\ r \in Responses
         /\ r.type = type /\ r.len = len /\ r.endStream = endStream
BY DEF Response, Responses

(* DATA frames that fit, with END_STREAM on the last only.                 *)
IsBody(r) ==
  /\ r \in Seq(Responses) /\ Len(r) \in Nat \ {0}
  /\ \A k \in 1..Len(r) : /\ r[k].type = "data"
                          /\ r[k].len <= MaxFrameSize
                          /\ r[k].endStream <=> k = Len(r)

LEMMA Single ==
  ASSUME NEW x \in Responses, NEW r, r = <<x>>
  PROVE  r \in Seq(Responses) /\ Len(r) = 1 /\ r[1] = x
OBVIOUS

(* One frame in front of others.                                           *)
LEMMA InFront ==
  ASSUME NEW x \in Responses, NEW q \in Seq(Responses), NEW n \in Nat, Len(q) = n,
         NEW r, r = <<x>> \o q
  PROVE  /\ r \in Seq(Responses) /\ Len(r) = n + 1
         /\ r[1] = x
         /\ \A k \in 2..(n + 1) : k - 1 \in 1..n /\ r[k] = q[k - 1]
<1>1. PICK p \in Seq(Responses) : p = <<x>> /\ Len(p) = 1 /\ p[1] = x
  BY Single
<1>2. r = p \o q
  BY <1>1
<1>3. /\ r \in Seq(Responses) /\ Len(r) = 1 + n
      /\ \A k \in 1..1 : r[k] = p[k]
      /\ \A k \in 1..n : r[1 + k] = q[k]
  BY <1>1, <1>2, ConcatProperties
<1>4. 1 \in 1..1 /\ 1 + n = n + 1
  OBVIOUS
<1>5. \A k \in 2..(n + 1) : k - 1 \in 1..n /\ 1 + (k - 1) = k
  OBVIOUS
<1> QED
  BY <1>1, <1>3, <1>4, <1>5

(* WriteData, for bodies of every length.                                  *)
LEMMA WriteDataIsBody == \A n \in Nat : IsBody(WriteData[n])
<1> DEFINE S == {n \in Nat : ~IsBody(WriteData[n])}
<1>0. MaxFrameSize \in Nat \ {0}
  BY Http2Assumption
<1>1. SUFFICES ASSUME S # {} PROVE FALSE
  OBVIOUS
<1>2. PICK n \in S : \A m \in S : n <= m
  <2>1. S \in SUBSET Nat
    OBVIOUS
  <2> HIDE DEF S
  <2> QED
    BY <1>1, <2>1, LeastNumber
<1>3. n \in Nat /\ ~IsBody(WriteData[n])
  OBVIOUS
<1>4. PICK r : r = WriteData[n] /\ r = Once(WriteData, n)
  BY <1>3, WriteDataIsOnce
<1>5. CASE n <= MaxFrameSize
  <2>1. PICK x \in Responses : /\ x = Response("data", n, TRUE)
                               /\ x.type = "data" /\ x.len = n /\ x.endStream = TRUE
    BY <1>3, ResponseType
  <2>2. r = <<x>>
    <3>1. ~(n > MaxFrameSize)
      BY ONLY <1>0, <1>3, <1>5
    <3> QED
      BY <1>4, <2>1, <3>1, Zenon DEF Once
  <2>3. r \in Seq(Responses) /\ Len(r) = 1 /\ r[1] = x
    BY <2>2, Single
  <2>4. ASSUME NEW k \in 1..1
        PROVE  r[k].type = "data" /\ r[k].len <= MaxFrameSize /\ (r[k].endStream <=> k = 1)
    <3>1. k = 1
      BY ONLY <2>4
    <3> QED
      BY ONLY <1>5, <2>1, <2>3, <3>1
  <2>5. IsBody(r)
    BY <2>3, <2>4 DEF IsBody
  <2> QED
    BY <1>3, <1>4, <2>5
<1>6. CASE n > MaxFrameSize
  <2>1. PICK m \in Nat : m = n - MaxFrameSize /\ m < n
    BY <1>0, <1>3, <1>6
  <2>2. m \notin S
    BY <1>2, <1>3, <2>1
  <2>3. IsBody(WriteData[m])
    BY <2>2
  <2>4. PICK q : q = WriteData[m]
    OBVIOUS
  <2>5. PICK x \in Responses :
          /\ x = Response("data", MaxFrameSize, FALSE)
          /\ x.type = "data" /\ x.len = MaxFrameSize /\ x.endStream = FALSE
    <3>1. PICK x : x = Response("data", MaxFrameSize, FALSE)
      OBVIOUS
    <3>2. MaxFrameSize \in Nat
      BY ONLY <1>0
    <3>3. x \in Responses /\ x.type = "data" /\ x.len = MaxFrameSize /\ x.endStream = FALSE
      BY ONLY <3>1, <3>2 DEF Response, Responses
    <3> QED
      BY <3>1, <3>3, Zenon
  <2>6. r = <<x>> \o q
    BY <1>4, <1>6, <2>1, <2>4, <2>5 DEF Once
  <2>7. PICK l \in Nat \ {0} : l = Len(q)
    BY <2>3, <2>4 DEF IsBody
  <2>8. q \in Seq(Responses) /\ \A k \in 1..l : /\ q[k].type = "data"
                                                /\ q[k].len <= MaxFrameSize
                                                /\ q[k].endStream <=> k = l
    BY <2>3, <2>4, <2>7 DEF IsBody
  <2>9. /\ r \in Seq(Responses) /\ Len(r) = l + 1 /\ r[1] = x
        /\ \A k \in 2..(l + 1) : k - 1 \in 1..l /\ r[k] = q[k - 1]
    BY <2>6, <2>7, <2>8, InFront
  <2>10. ASSUME NEW k \in 1..(l + 1)
         PROVE  /\ r[k].type = "data"
                /\ r[k].len <= MaxFrameSize
                /\ r[k].endStream <=> k = l + 1
    <3>1. CASE k = 1
      <4>1. k # l + 1 /\ MaxFrameSize <= MaxFrameSize
        BY ONLY <1>0, <2>7, <3>1
      <4> QED
        BY <2>5, <2>9, <3>1, <4>1, Zenon
    <3>2. CASE k # 1
      <4>1. k \in 2..(l + 1) /\ (k - 1 = l <=> k = l + 1)
        BY <2>7, <3>2
      <4> QED
        BY <2>8, <2>9, <4>1
    <3> QED
      BY <3>1, <3>2
  <2>11. l + 1 \in Nat \ {0}
    BY <2>7
  <2>12. IsBody(r)
    BY <2>9, <2>10, <2>11 DEF IsBody
  <2> QED
    BY <1>3, <1>4, <2>12
<1> QED
  BY <1>0, <1>3, <1>5, <1>6

(* A whole response: HEADERS, then that.                                   *)
IsResponse(r) ==
  /\ r \in Seq(Responses) /\ Len(r) \in Nat \ {0}
  /\ \A k \in 1..Len(r) : /\ r[k].type = "headers" <=> k = 1
                          /\ r[k].len <= MaxFrameSize
                          /\ r[k].endStream <=> k = Len(r)

LEMMA SimpleResponseIsResponse ==
  ASSUME NEW n \in Nat, NEW r, r = SimpleResponse(n)
  PROVE  IsResponse(r)
<1>0. MaxFrameSize \in Nat \ {0}
  BY Http2Assumption
<1>1. PICK e \in BOOLEAN : e = (n = 0)
  OBVIOUS
<1>2. PICK x \in Responses : /\ x = Response("headers", 0, e)
                             /\ x.type = "headers" /\ x.len = 0 /\ x.endStream = e
  BY ResponseType
<1>3. r = <<x>> \o (IF n = 0 THEN <<>> ELSE WriteData[n])
  BY <1>1, <1>2 DEF SimpleResponse, WriteHeaders
<1>4. CASE n = 0
  <2>1. r = <<x>>
    BY <1>3, <1>4
  <2>2. r \in Seq(Responses) /\ Len(r) = 1 /\ r[1] = x
    BY <2>1, Single
  <2>3. ASSUME NEW k \in 1..1
        PROVE  /\ r[k].type = "headers" <=> k = 1
               /\ r[k].len <= MaxFrameSize
               /\ r[k].endStream <=> k = 1
    <3>1. k = 1 /\ 0 <= MaxFrameSize
      BY ONLY <1>0, <2>3
    <3> QED
      BY <1>1, <1>2, <1>4, <2>2, <3>1, Zenon
  <2> QED
    BY <2>2, <2>3 DEF IsResponse
<1>5. CASE n # 0
  <2>1. PICK q : q = WriteData[n]
    OBVIOUS
  <2>2. IsBody(q)
    BY <2>1, WriteDataIsBody
  <2>3. PICK l \in Nat \ {0} : l = Len(q)
    BY <2>2 DEF IsBody
  <2>4. q \in Seq(Responses) /\ \A k \in 1..l : /\ q[k].type = "data"
                                                /\ q[k].len <= MaxFrameSize
                                                /\ q[k].endStream <=> k = l
    BY <2>2, <2>3 DEF IsBody
  <2>5. r = <<x>> \o q
    BY <1>3, <1>5, <2>1
  <2>6. /\ r \in Seq(Responses) /\ Len(r) = l + 1 /\ r[1] = x
        /\ \A k \in 2..(l + 1) : k - 1 \in 1..l /\ r[k] = q[k - 1]
    BY <2>3, <2>4, <2>5, InFront
  <2>7. ASSUME NEW k \in 1..(l + 1)
        PROVE  /\ r[k].type = "headers" <=> k = 1
               /\ r[k].len <= MaxFrameSize
               /\ r[k].endStream <=> k = l + 1
    <3>1. CASE k = 1
      <4>1. k # l + 1 /\ 0 <= MaxFrameSize
        BY ONLY <1>0, <2>3, <3>1
      <4> QED
        BY <1>1, <1>2, <1>5, <2>6, <3>1, <4>1, Zenon
    <3>2. CASE k # 1
      <4>1. k \in 2..(l + 1) /\ (k - 1 = l <=> k = l + 1)
        BY <2>3, <3>2
      <4> QED
        BY <2>4, <2>6, <3>2, <4>1
    <3> QED
      BY <3>1, <3>2
  <2>8. l + 1 \in Nat \ {0}
    BY <2>3
  <2> QED
    BY <2>6, <2>7, <2>8 DEF IsResponse
<1> QED
  BY <1>4, <1>5

--------------------------------------------------------------------------------
(***************************************************************************)
(* The theorem                                                             *)
(***************************************************************************)

(* What may stand under a stream: a beginning of a response, the whole of  *)
(* it unless the client has gone.                                          *)
EndsOnce(r, left) ==
  /\ \A k \in DOMAIN r : /\ (r[k].type = "headers") <=> (k = 1)
                         /\ r[k].len <= MaxFrameSize
                         /\ r[k].endStream => k = Len(r)
  /\ r # <<>> /\ ~left => r[Len(r)].endStream

LEMMA Written ==
  ASSUME NEW n \in Nat, NEW k \in 0..Len(SimpleResponse(n)), NEW left,
         left \/ k = Len(SimpleResponse(n)),
         NEW q, q = SubSeq(SimpleResponse(n), 1, k)
  PROVE  EndsOnce(q, left)
<1>1. PICK r : r = SimpleResponse(n)
  OBVIOUS
<1>2. IsResponse(r)
  BY <1>1, SimpleResponseIsResponse
<1>3. PICK l \in Nat \ {0} : l = Len(r)
  BY <1>2 DEF IsResponse
<1>4. r \in Seq(Responses) /\ \A i \in 1..l : /\ r[i].type = "headers" <=> i = 1
                                              /\ r[i].len <= MaxFrameSize
                                              /\ r[i].endStream <=> i = l
  BY <1>2, <1>3 DEF IsResponse
<1>5. k \in 0..l /\ (left \/ k = l) /\ q = SubSeq(r, 1, k)
  BY <1>1, <1>3
<1>6. /\ q \in Seq(Responses) /\ Len(q) = k /\ DOMAIN q = 1..k
      /\ \A i \in 1..k : q[i] = r[i]
  <2>1. r \in Seq(Responses) /\ k \in 0..Len(r)
    BY <1>3, <1>4, <1>5
  <2> QED
    BY ONLY <2>1, <1>5
<1>7. \A i \in 1..k : i \in 1..l /\ (i = l => i = k)
  BY <1>3, <1>5
<1>8. \A i \in DOMAIN q : /\ (q[i].type = "headers") <=> (i = 1)
                          /\ q[i].len <= MaxFrameSize
                          /\ q[i].endStream => i = Len(q)
  BY <1>4, <1>6, <1>7
<1>9. q # <<>> /\ ~left => q[Len(q)].endStream
  <2>1. SUFFICES ASSUME ~left PROVE q[Len(q)].endStream
    OBVIOUS
  <2>2. k = l /\ l \in 1..l
    BY <1>3, <1>5, <2>1
  <2> QED
    BY <1>4, <1>6, <2>2
<1> QED
  BY <1>8, <1>9 DEF EndsOnce

ResponseInv ==
  /\ responses = [s \in StreamIds |-> responses[s]]
  /\ \A s \in StreamIds : EndsOnce(responses[s], gone)

LEMMA InvokeEnds ==
  ASSUME ResponseInv, NEW s, NEW fields, NEW body, Invoke(s, fields, body),
         UNCHANGED gone
  PROVE  ResponseInv'
<1>0. PICK n \in BodySizes : \E k \in 0..Len(SimpleResponse(n)) :
        /\ gone \/ k = Len(SimpleResponse(n))
        /\ responses' = [responses EXCEPT ![s] = SubSeq(SimpleResponse(n), 1, k)]
  BY DEF Invoke
<1>1. PICK k \in 0..Len(SimpleResponse(n)) :
        /\ gone \/ k = Len(SimpleResponse(n))
        /\ responses' = [responses EXCEPT ![s] = SubSeq(SimpleResponse(n), 1, k)]
  BY <1>0
<1>2. PICK q : q = SubSeq(SimpleResponse(n), 1, k)
  OBVIOUS
<1>3. n \in Nat
  BY Http2Assumption
<1>4. EndsOnce(q, gone)
  BY <1>1, <1>2, <1>3, Written
<1>5. responses' = [responses EXCEPT ![s] = q]
  BY <1>1, <1>2
<1>6. PICK f : f = responses /\ f = [t \in StreamIds |-> f[t]]
  BY DEF ResponseInv
<1>7. responses' = [t \in StreamIds |-> IF t = s THEN q ELSE f[t]]
  BY ONLY <1>5, <1>6
<1>8. \A t \in StreamIds : EndsOnce(responses'[t], gone)
  BY <1>4, <1>6, <1>7 DEF ResponseInv
<1>9. responses' = [t \in StreamIds |-> responses'[t]]
  BY ONLY <1>7
<1> QED
  BY <1>8, <1>9 DEF ResponseInv, EndsOnce

LEMMA ServerAnswers ==
  ASSUME Server
  PROVE  /\ UNCHANGED gone
         /\ UNCHANGED responses \/ \E s, fields, body : Invoke(s, fields, body)
<1>1. \A why : Fail(why) => UNCHANGED <<gone, responses>>
  BY DEF Fail, clientVars
<1>2. Write => UNCHANGED <<gone, responses>>
  BY <1>1 DEF Write, clientVars, historyVars
<1>3. \A s, block, e : FinishHeaders(s, block, e) =>
        UNCHANGED gone /\ (UNCHANGED responses \/ \E t, fields, body : Invoke(t, fields, body))
  BY <1>1 DEF FinishHeaders, clientVars
<1>4. \A s, block, e : KeepBlock(s, block, e) => UNCHANGED <<gone, responses>>
  BY DEF KeepBlock, clientVars, historyVars
<1>5. CASE OnHeaders
  BY <1>1, <1>3, <1>4, <1>5 DEF OnHeaders
<1>6. CASE OnContinuation
  BY <1>1, <1>3, <1>4, <1>6 DEF OnContinuation
<1>7. CASE OnData
  BY <1>1, <1>7 DEF OnData, clientVars
<1>8. CASE OnSettings \/ OnPing \/ OnGoAway
  BY <1>1, <1>2, <1>8 DEF OnSettings, OnPing, OnGoAway
<1>9. CASE OnOther \/ OnReset \/ OnDataUnknown
  BY <1>9 DEF OnOther, OnReset, OnDataUnknown, clientVars, historyVars
<1>10. CASE Start \/ ReadEnds \/ FeedPreface \/ FeedDone
  BY <1>1, <1>10 DEF Start, ReadEnds, FeedPreface, FeedDone, clientVars, historyVars
<1>11. CASE \E n \in 1..ReadSize : Read(n)
  BY <1>11 DEF Read, historyVars
<1> QED
  BY <1>5, <1>6, <1>7, <1>8, <1>9, <1>10, <1>11 DEF Server, HandleFrame

(* A response is HEADERS, then DATA frames no longer than MaxFrameSize,    *)
(* for every length of body, with END_STREAM on the last frame and no      *)
(* other; only a client that has gone may get less (SimpleResponse,        *)
(* WriteHeaders and the loop of WriteData in http2.go).                    *)
THEOREM EveryResponseEnds == Spec => []ResponsesEndOnce
<1>1. Init => ResponseInv
  BY DEF Init, ResponseInv, EndsOnce
<1>2. ResponseInv /\ [Next]_vars => ResponseInv'
  <2> SUFFICES ASSUME ResponseInv, [Next]_vars PROVE ResponseInv'
    OBVIOUS
  <2>1. ASSUME UNCHANGED responses, gone => gone'
        PROVE  ResponseInv'
    BY <2>1 DEF ResponseInv, EndsOnce
  <2>2. CASE Client /\ UNCHANGED responses
    <3>1. gone => gone'
      BY <2>2 DEF Client, SendHeaders, SendTrailers, SendContinuation, SendData,
         SendReset, SendPing, SendGoAway, SendRogue, ClientClose
    <3> QED
      BY <2>1, <2>2, <3>1
  <2>3. CASE Server
    BY <2>1, <2>3, ServerAnswers, InvokeEnds
  <2>4. CASE UNCHANGED vars
    BY <2>1, <2>4 DEF vars
  <2> QED
    BY <2>2, <2>3, <2>4 DEF Next, Closed, historyVars
<1>3. ResponseInv => ResponsesEndOnce
  BY DEF ResponseInv, ResponsesEndOnce, EndsOnce
<1> QED
  BY <1>1, <1>2, <1>3, PTL DEF Spec
================================================================================
