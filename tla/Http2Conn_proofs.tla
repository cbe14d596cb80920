-------------------------- MODULE Http2Conn_proofs --------------------------
(***************************************************************************)
(* Theorems about Http2Conn, for any streams, any lengths of frames and    *)
(* buffers, and any number of frames.                                      *)
(***************************************************************************)
EXTENDS Http2Conn, SequenceTheorems, TLAPS

--------------------------------------------------------------------------------
(***************************************************************************)
(* The inductive invariant: whatever clients send                          *)
(***************************************************************************)

(* What the client has written and feed has not handled yet, wherever it   *)
(* is, and the places in it where a frame begins.                          *)
Wire == rxBuf \o transit
Heads(w) == {k \in DOMAIN w : w[k].at = 1}

(* The cells of a frame are together, in order and all there, and the      *)
(* first cell begins one.                                                  *)
Aligned(w) ==
  /\ \A k \in DOMAIN w :
       /\ w[k].at <= FrameLen(w[k].of)
       /\ w[k].at <= k
       /\ k - w[k].at + FrameLen(w[k].of) <= Len(w)
       /\ \A i \in 1..FrameLen(w[k].of) :
            w[k - w[k].at + i] = [of |-> w[k].of, at |-> i]
  /\ w # <<>> => w[1].at = 1

(* The preface comes first, and only once.                                 *)
PrefaceInv(w) ==
  /\ ~prefaceSeen => w # <<>> /\ w[1].of.type = "preface"
  /\ \A k \in Heads(w) : w[k].of.type = "preface" => k = 1 /\ ~prefaceSeen

(* The header block the client has not finished is its last.               *)
ClientInv ==
  InBlock # {} =>
    /\ blocks # <<>>
    /\ InBlock = {blocks[Len(blocks)].id}
    /\ blocks[Len(blocks)].parts < MaxParts

(* NoMixing, from the frames to the handler.                               *)
Fragment(f) == f.type \in {"headers", "continuation"}
OwnLoad(f) ==
  /\ (Fragment(f) \/ f.type = "data") => f.bad \/ f.load[3] = f.id
  /\ f.type = "continuation" => ~f.bad
OwnLoads(w) == \A k \in Heads(w) : OwnLoad(w[k].of)
AllOf(q, s) == \A k \in DOMAIN q : q[k][3] = s
OwnParts ==
  /\ AllOf(headersBlock, headersStream)
  /\ \A s \in StreamIds : streams[s] # None =>
       AllOf(streams[s].fields, s) /\ AllOf(streams[s].body, s)

(* The wire as a whole.                                                    *)
WireInv(w) == Aligned(w) /\ PrefaceInv(w) /\ OwnLoads(w)

IInv ==
  /\ TypeOK
  /\ ClientInv
  /\ WireInv(Wire)
  /\ OwnParts
  /\ NoMixing
  /\ pc = "start" => rxBuf = <<>>
  /\ CaughtUp

--------------------------------------------------------------------------------
(***************************************************************************)
(* The inductive invariant: clients that keep to the protocol              *)
(***************************************************************************)

(* Block n is not finished.                                                *)
Open(n) == n = Len(blocks) /\ InBlock # {}

(* Part p of block n has been sent and has not been handled yet.           *)
Due(n, p) ==
  /\ n \in DOMAIN blocks
  /\ p \in 1..blocks[n].parts
  /\ n > decoded
  /\ n = decoded + 1 => p > Len(headersBlock)

Carries(f, n, p) == Fragment(f) /\ f.load = <<n, p, f.id>>
Before(f, g) ==
  \/ f.load[1] < g.load[1]
  \/ f.load[1] = g.load[1] /\ f.load[2] < g.load[2]

(* A fragment that is due, with the flags of its place in the block.       *)
LawfulPart(f, n, p) ==
  /\ f.load = <<n, p, f.id>>
  /\ Due(n, p)
  /\ f.id = blocks[n].id
  /\ f.type = "headers" <=> p = 1
  /\ f.endHeaders <=> p = blocks[n].parts /\ ~Open(n)

Lawful(f) ==
  /\ ~f.bad
  /\ f.type = "preface" => f = Preface
  /\ Fragment(f) => LawfulPart(f, f.load[1], f.load[2])

(* Of the header blocks, what has not been handled is under way, in order. *)
AllLawful(w) == \A k \in Heads(w) : Lawful(w[k].of)
AllDue(w) ==
  \A n \in Nat : \A p \in Nat : Due(n, p) => \E k \in Heads(w) : Carries(w[k].of, n, p)
InOrder(w) ==
  \A j \in Heads(w) : \A k \in Heads(w) :
    j < k /\ Fragment(w[j].of) /\ Fragment(w[k].of) => Before(w[j].of, w[k].of)

(* What has been handled is all blocks up to decoded and the beginning of  *)
(* the next.                                                               *)
BlockState ==
  /\ decoded <= Len(blocks)
  /\ InBlock # {} => decoded < Len(blocks)
  /\ \A k \in DOMAIN headersBlock :
       headersBlock[k] = <<decoded + 1, k, headersStream>>
  /\ headersStream # 0 =>
       /\ decoded < Len(blocks)
       /\ headersStream = blocks[decoded + 1].id
       /\ headersBlock # <<>>
       /\ Len(headersBlock) <= blocks[decoded + 1].parts
       /\ Len(headersBlock) = blocks[decoded + 1].parts => Open(decoded + 1)

BlockInv(w) ==
  rogue = 0 => /\ AllLawful(w)
               /\ AllDue(w)
               /\ InOrder(w)
               /\ BlockState
               /\ failure # "protocol"

--------------------------------------------------------------------------------
(***************************************************************************)
(* The inductive invariant: requests without trailers                      *)
(***************************************************************************)

Decoded(n) == n <= decoded
Ended(s) == client[s] \in {"ended", "reset"}
Done(s) == \E i \in DOMAIN handled : handled[i].id = s

(* The server still has to do with s: its header block has to be decoded,  *)
(* or its stream is in the table.                                          *)
Waiting(s) == \E n \in BlocksOf(s) : ~Decoded(n)
Pending(s) == Waiting(s) \/ streams[s] # None

(* The pieces of the body of s that are there, and one that is not yet.    *)
Got(s) == IF streams[s] # None THEN Len(streams[s].body) ELSE 0
Missing(s, d) == Pending(s) /\ d \in (Got(s) + 1)..datas[s]
ResetDue(s) == client[s] = "reset" /\ Pending(s)

(* END_STREAM on the HEADERS frame of block n (e) says that the request    *)
(* has no body.                                                            *)
EndMatches(n, e) == LET s == blocks[n].id IN
  /\ e => datas[s] = 0 /\ (IF Open(n) THEN ending ELSE Ended(s))
  /\ Open(n) /\ ending => e
  /\ client[s] = "ended" /\ datas[s] = 0 => e

(* A frame under way as the request it belongs to wants it.                *)
ProperData(f, s, d) ==
  /\ s \in StreamIds
  /\ f.load = <<0, d, s>>
  /\ Missing(s, d)
  /\ client[s] \in {"open", "ended", "reset"}
  /\ f.endStream => d = datas[s] /\ Ended(s)
  /\ client[s] = "ended" /\ d = datas[s] => f.endStream
ProperReset(s) == s \in StreamIds /\ client[s] = "reset"
Proper(f) ==
  /\ f.type = "headers" => EndMatches(f.load[1], f.endStream)
  /\ f.type = "data" => ProperData(f, f.id, f.load[2])
  /\ f.type = "rst" => ProperReset(f.id)

(* g may come behind f, a DATA or RST_STREAM frame.                        *)
Late(f) == f.type \in {"data", "rst"}
MayFollow(f, g) ==
  g.id = f.id =>
    /\ f.type = "data"
    /\ Late(g)
    /\ g.type = "data" => f.load[2] < g.load[2]

IsPiece(f, s, d) == f.type = "data" /\ f.id = s /\ f.load[2] = d
IsReset(f, s) == f.type = "rst" /\ f.id = s

(* Of the bodies and resets, what has not been handled is under way, in    *)
(* order and behind the header blocks.                                     *)
AllProper(w) == \A k \in Heads(w) : Proper(w[k].of)
AllFollow(w) == \A j \in Heads(w) : \A k \in Heads(w) :
  j < k /\ Late(w[j].of) => MayFollow(w[j].of, w[k].of)
AllMissing(w) == \A s \in StreamIds : \A d \in Nat :
  Missing(s, d) => \E k \in Heads(w) : IsPiece(w[k].of, s, d)
AllResets(w) == \A s \in StreamIds :
  ResetDue(s) => \E k \in Heads(w) : IsReset(w[k].of, s)

(* What is kept of a request is what was sent of it.                       *)
Kept(s, st) ==
  /\ \E n \in BlocksOf(s) : Decoded(n) /\ st.fields = WholeBlock(n)
  /\ client[s] \in {"open", "ended", "reset"}
  /\ Len(st.body) <= datas[s]
  /\ client[s] = "ended" => Len(st.body) < datas[s]
  /\ \A k \in DOMAIN st.body : st.body[k] = <<0, k, s>>
  /\ ~Done(s)

(* A request is one header block, and it is waited for until it ends.      *)
StreamInv(s) ==
  /\ \A m \in BlocksOf(s) : \A n \in BlocksOf(s) : m = n
  /\ client[s] = "idle" => BlocksOf(s) = {}
  /\ client[s] # "trailers"
  /\ client[s] \in {"idle", "block"} => datas[s] = 0
  /\ client[s] \in {"block", "open"} => Pending(s)
  /\ streams[s] # None => Kept(s, streams[s])

(* A request that has been handled is over, and was handled as sent.       *)
AsSent(h) ==
  /\ Ended(h.id)
  /\ ~Pending(h.id)
  /\ \E n \in BlocksOf(h.id) : Decoded(n) /\ h.fields = WholeBlock(n)
  /\ h.body = [k \in 1..datas[h.id] |-> <<0, k, h.id>>]

AllSent ==
  /\ \A i \in DOMAIN handled : \A j \in DOMAIN handled :
       handled[i].id = handled[j].id => i = j
  /\ \A i \in DOMAIN handled : AsSent(handled[i])

HeldEnd == headersStream # 0 => EndMatches(decoded + 1, headersEnd)
RequestState == (\A s \in StreamIds : StreamInv(s)) /\ HeldEnd /\ AllSent

RequestInv(w) ==
  rogue = 0 => /\ AllProper(w)
               /\ AllFollow(w)
               /\ AllMissing(w)
               /\ AllResets(w)
               /\ RequestState

--------------------------------------------------------------------------------
(***************************************************************************)
(* Lemmas about sequences, frames and the wire                             *)
(***************************************************************************)

(* What Drop does to the places of a sequence.                             *)
LEMMA DropFacts ==
  ASSUME NEW q \in Seq(Cells), NEW n \in 0..Len(q)
  PROVE  /\ Drop(q, n) \in Seq(Cells)
         /\ Len(Drop(q, n)) = Len(q) - n
         /\ \A i \in 1..(Len(q) - n) : Drop(q, n)[i] = q[n + i]
BY DEF Drop

LEMMA SameSequence ==
  ASSUME NEW p \in Seq(Cells), NEW q \in Seq(Cells), Len(p) = Len(q),
         \A i \in 1..Len(p) : p[i] = q[i]
  PROVE  p = q
BY SeqEqual

(* A frame has at least one cell; its cells are numbered from one.         *)
LEMMA FrameLenPositive ==
  ASSUME NEW f
  PROVE  FrameLen(f) \in Nat \ {0}
BY Http2Assumption DEF FrameLen

LEMMA CellsFacts ==
  ASSUME NEW f \in Frames
  PROVE  /\ CellsOf(f) \in Seq(Cells)
         /\ Len(CellsOf(f)) = FrameLen(f)
         /\ \A i \in 1..FrameLen(f) : CellsOf(f)[i] = [of |-> f, at |-> i]
<1>1. FrameLen(f) \in Nat \ {0}
  BY FrameLenPositive
<1>2. \A i \in 1..FrameLen(f) : [of |-> f, at |-> i] \in Cells
  BY <1>1 DEF Cells
<1> QED
  BY <1>1, <1>2 DEF CellsOf

(* Writing appends to the wire, reading leaves it as it is, handling a     *)
(* frame takes it away at the front.                                       *)
LEMMA WirePut ==
  ASSUME NEW q \in Seq(Cells), NEW t \in Seq(Cells), NEW c \in Seq(Cells)
  PROVE  q \o (t \o c) = (q \o t) \o c
BY ConcatAssociative

LEMMA Rejoined ==
  ASSUME NEW t \in Seq(Cells), NEW n \in 0..Len(t)
  PROVE  SubSeq(t, 1, n) \o Drop(t, n) = t
<1>1. 1 \in 1..(Len(t) + 1) /\ n \in (1 - 1)..Len(t) /\ Len(t) \in n..Len(t)
  OBVIOUS
<1>2. SubSeq(t, 1, n) \o SubSeq(t, n + 1, Len(t)) = SubSeq(t, 1, Len(t))
  BY <1>1, ConcatAdjacentSubSeq
<1>3. SubSeq(t, 1, Len(t)) = t
  BY SubSeqFull
<1> QED
  BY <1>2, <1>3 DEF Drop

LEMMA WireRead ==
  ASSUME NEW q \in Seq(Cells), NEW t \in Seq(Cells), NEW n \in 0..Len(t)
  PROVE  /\ (q \o SubSeq(t, 1, n)) \o Drop(t, n) = q \o t
         /\ q \o SubSeq(t, 1, n) \in Seq(Cells)
         /\ Drop(t, n) \in Seq(Cells)
<1>0. /\ SubSeq(t, 1, n) \in Seq(Cells)
      /\ Len(SubSeq(t, 1, n)) = n
      /\ \A i \in 1..n : SubSeq(t, 1, n)[i] = t[i]
  OBVIOUS
<1>1. PICK a \in Seq(Cells) :
        /\ a = SubSeq(t, 1, n)
        /\ Len(a) = n
        /\ \A i \in 1..n : a[i] = t[i]
  BY <1>0
<1>2. PICK b \in Seq(Cells) :
        /\ b = Drop(t, n)
        /\ Len(b) = Len(t) - n
        /\ \A i \in 1..(Len(t) - n) : b[i] = t[n + i]
  BY DropFacts
<1>3. a \o b = t
  <2>1. SubSeq(t, 1, n) \o Drop(t, n) = t
    BY Rejoined
  <2> QED
    BY <2>1, <1>1, <1>2
<1>4. (q \o a) \o b = q \o (a \o b)
  BY ConcatAssociative
<1>5. q \o a \in Seq(Cells)
  BY ConcatProperties
<1> QED
  BY <1>1, <1>2, <1>3, <1>4, <1>5

LEMMA WireDrop ==
  ASSUME NEW q \in Seq(Cells), NEW t \in Seq(Cells), NEW n \in 0..Len(q)
  PROVE  /\ Drop(q, n) \o t = Drop(q \o t, n)
         /\ Drop(q, n) \in Seq(Cells)
<1>0. /\ SubSeq(q, 1, n) \in Seq(Cells)
      /\ Len(SubSeq(q, 1, n)) = n
      /\ \A i \in 1..n : SubSeq(q, 1, n)[i] = q[i]
  OBVIOUS
<1>1. PICK a \in Seq(Cells) :
        /\ a = SubSeq(q, 1, n)
        /\ Len(a) = n
        /\ \A i \in 1..n : a[i] = q[i]
  BY <1>0
<1>2. PICK b \in Seq(Cells) :
        /\ b = Drop(q, n)
        /\ Len(b) = Len(q) - n
        /\ \A i \in 1..(Len(q) - n) : b[i] = q[n + i]
  BY DropFacts
<1>3. a \o b = q
  <2>1. SubSeq(q, 1, n) \o Drop(q, n) = q
    BY Rejoined
  <2> QED
    BY <2>1, <1>1, <1>2
<1>4. PICK r \in Seq(Cells) : r = b \o t
  BY ConcatProperties
<1>5. q \o t = a \o r
  <2>1. a \in Seq(Cells) /\ b \in Seq(Cells) /\ t \in Seq(Cells)
    OBVIOUS
  <2>2. (a \o b) \o t = a \o (b \o t)
    BY <2>1, WirePut
  <2> QED
    BY <2>2, <1>3, <1>4
<1>6. /\ a \o r \in Seq(Cells)
      /\ Len(a \o r) = n + Len(r)
      /\ \A i \in 1..Len(r) : (a \o r)[n + i] = r[i]
  <2>1. /\ a \o r \in Seq(Cells)
        /\ Len(a \o r) = Len(a) + Len(r)
        /\ \A i \in 1..Len(r) : (a \o r)[Len(a) + i] = r[i]
    BY ConcatProperties
  <2> QED
    BY <2>1, <1>1
<1>7. PICK w \in Seq(Cells) : /\ w = q \o t
                              /\ Len(w) = n + Len(r)
                              /\ \A i \in 1..Len(r) : w[n + i] = r[i]
  BY <1>5, <1>6
<1>8. n \in 0..Len(w) /\ Len(w) - n = Len(r)
  BY <1>7
<1>9. PICK e \in Seq(Cells) : /\ e = Drop(w, n)
                              /\ Len(e) = Len(w) - n
                              /\ \A i \in 1..(Len(w) - n) : e[i] = w[n + i]
  BY <1>8, DropFacts
<1>10. e = r
  <2>1. Len(e) = Len(r) /\ \A i \in 1..Len(e) : e[i] = r[i]
    BY <1>7, <1>8, <1>9
  <2> QED
    BY <2>1, SameSequence
<1> QED
  BY <1>2, <1>4, <1>7, <1>9, <1>10

(* The wire with one more frame.                                           *)
LEMMA PutFacts ==
  ASSUME NEW w \in Seq(Cells), NEW f \in Frames
  PROVE  \E v \in Seq(Cells) :
           /\ v = w \o CellsOf(f)
           /\ Len(v) = Len(w) + FrameLen(f)
           /\ \A i \in 1..Len(w) : v[i] = w[i]
           /\ \A i \in 1..FrameLen(f) : v[Len(w) + i] = [of |-> f, at |-> i]
<1>1. PICK c \in Seq(Cells) :
        /\ c = CellsOf(f)
        /\ Len(c) = FrameLen(f)
        /\ \A i \in 1..FrameLen(f) : c[i] = [of |-> f, at |-> i]
  BY CellsFacts
<1>2. /\ w \o c \in Seq(Cells)
      /\ Len(w \o c) = Len(w) + Len(c)
      /\ \A i \in 1..Len(w) : (w \o c)[i] = w[i]
      /\ \A i \in 1..Len(c) : (w \o c)[Len(w) + i] = c[i]
  BY ConcatProperties
<1>3. PICK v \in Seq(Cells) :
        /\ v = w \o c
        /\ Len(v) = Len(w) + Len(c)
        /\ \A i \in 1..Len(w) : v[i] = w[i]
        /\ \A i \in 1..Len(c) : v[Len(w) + i] = c[i]
  BY <1>2
<1>4. /\ v = w \o CellsOf(f)
      /\ Len(v) = Len(w) + FrameLen(f)
      /\ \A i \in 1..FrameLen(f) : v[Len(w) + i] = [of |-> f, at |-> i]
  BY <1>1, <1>3
<1> QED
  BY <1>3, <1>4

LEMMA CellFacts ==
  ASSUME NEW w \in Seq(Cells), NEW k \in DOMAIN w
  PROVE  /\ w[k].at \in Nat \ {0}
         /\ w[k].of \in Frames
         /\ FrameLen(w[k].of) \in Nat \ {0}
         /\ w[k] = [of |-> w[k].of, at |-> w[k].at]
         /\ k \in 1..Len(w)
<1>1. w[k] \in Cells
  OBVIOUS
<1> QED
  BY <1>1, FrameLenPositive DEF Cells

(* A whole frame at the end keeps the cells aligned.                       *)
LEMMA AlignedPut ==
  ASSUME NEW w \in Seq(Cells), Aligned(w), NEW f \in Frames
  PROVE  Aligned(w \o CellsOf(f))
<1>1. PICK v \in Seq(Cells) :
        /\ v = w \o CellsOf(f)
        /\ Len(v) = Len(w) + FrameLen(f)
        /\ \A i \in 1..Len(w) : v[i] = w[i]
        /\ \A i \in 1..FrameLen(f) : v[Len(w) + i] = [of |-> f, at |-> i]
  BY PutFacts
<1>2. FrameLen(f) \in Nat \ {0}
  BY FrameLenPositive
<1>3. ASSUME NEW k \in DOMAIN v
      PROVE  /\ v[k].at <= FrameLen(v[k].of)
             /\ v[k].at <= k
             /\ k - v[k].at + FrameLen(v[k].of) <= Len(v)
             /\ \A i \in 1..FrameLen(v[k].of) :
                  v[k - v[k].at + i] = [of |-> v[k].of, at |-> i]
  <2>0. k \in 1..Len(v)
    OBVIOUS
  <2>1. CASE k <= Len(w)
    <3>1. k \in DOMAIN w /\ v[k] = w[k] /\ k \in 1..Len(w)
      BY <2>0, <2>1, <1>1
    <3>2. PICK a \in Nat \ {0}, L \in Nat \ {0} :
            a = w[k].at /\ L = FrameLen(w[k].of)
      BY <3>1, CellFacts
    <3>3. /\ a <= L
          /\ a <= k
          /\ k - a + L <= Len(w)
          /\ \A i \in 1..L : w[k - a + i] = [of |-> w[k].of, at |-> i]
      BY <3>1, <3>2 DEF Aligned
    <3>4. ASSUME NEW i \in 1..L
          PROVE  v[k - a + i] = [of |-> w[k].of, at |-> i]
      <4>1. k - a + i \in 1..Len(w)
        BY <3>1, <3>3
      <4>2. v[k - a + i] = w[k - a + i]
        BY <4>1, <1>1
      <4> QED
        BY <4>2, <3>3
    <3>5. k - a + L <= Len(v)
      BY <3>1, <3>3, <1>1, <1>2
    <3> QED
      BY <3>1, <3>2, <3>3, <3>4, <3>5
  <2>2. CASE k > Len(w)
    <3>1. k - Len(w) \in 1..FrameLen(f) /\ k = Len(w) + (k - Len(w))
      BY <2>0, <2>2, <1>1, <1>2
    <3>2. v[k] = [of |-> f, at |-> k - Len(w)]
      BY <3>1, <1>1
    <3>3. v[k].of = f /\ v[k].at = k - Len(w)
      BY <3>2
    <3>5. k - (k - Len(w)) = Len(w)
      BY <2>0
    <3>4. /\ k - Len(w) <= FrameLen(f)
          /\ k - Len(w) <= k
          /\ Len(w) + FrameLen(f) <= Len(v)
      BY <3>1, <1>1, <1>2
    <3> QED
      BY <3>3, <3>4, <3>5, <1>1
  <2> QED
    BY <2>0, <2>1, <2>2
<1>4. v[1].at = 1
  <2>1. CASE w = <<>>
    <3>1. 1 \in 1..FrameLen(f) /\ Len(w) + 1 = 1
      BY <2>1, <1>2
    <3>2. v[Len(w) + 1] = [of |-> f, at |-> 1]
      BY <3>1, <1>1
    <3> QED
      BY <3>1, <3>2
  <2>2. CASE w # <<>>
    <3>1. 1 \in 1..Len(w) /\ w[1].at = 1
      BY <2>2 DEF Aligned
    <3> QED
      BY <3>1, <1>1
  <2> QED
    BY <2>1, <2>2
<1>5. Aligned(v)
  BY <1>3, <1>4 DEF Aligned
<1> QED
  BY <1>1, <1>5

(* Every cell behind the first frame belongs to a later one.               *)
LEMMA BehindTheFirst ==
  ASSUME NEW w \in Seq(Cells), Aligned(w), w # <<>>,
         NEW n, n = FrameLen(w[1].of)
  PROVE  /\ n \in 1..Len(w)
         /\ \A i \in 1..n : w[i] = [of |-> w[1].of, at |-> i]
         /\ \A k \in DOMAIN w : k > n => w[k].at <= k - n
<1>1. n \in Nat \ {0}
  BY FrameLenPositive
<1>2. 1 \in DOMAIN w /\ w[1].at = 1
  BY DEF Aligned
<1>3. /\ 1 - w[1].at + n <= Len(w)
      /\ \A i \in 1..n : w[1 - w[1].at + i] = [of |-> w[1].of, at |-> i]
  BY <1>2 DEF Aligned
<1>4. n \in 1..Len(w) /\ \A i \in 1..n : w[i] = [of |-> w[1].of, at |-> i]
  BY <1>1, <1>2, <1>3
<1>5. ASSUME NEW k \in DOMAIN w, k > n, ~(w[k].at <= k - n)
      PROVE  FALSE
  <2> DEFINE a == w[k].at
             f == w[k].of
             j == k - a + 1
  <2>1. a \in Nat \ {0} /\ FrameLen(f) \in Nat \ {0}
    BY CellFacts
  <2>2. /\ a <= FrameLen(f) /\ a <= k
        /\ \A i \in 1..FrameLen(f) : w[k - a + i] = [of |-> f, at |-> i]
    BY DEF Aligned
  <2>3. 1 \in 1..FrameLen(f)
    BY <2>1
  <2>4. w[j] = [of |-> f, at |-> 1]
    BY <2>2, <2>3
  <2>5. j \in 1..n
    BY <2>1, <2>2, <1>5, <1>4
  <2>6. w[j] = [of |-> w[1].of, at |-> j]
    BY <2>5, <1>4
  <2>7. j = 1 /\ f = w[1].of
    BY <2>4, <2>6
  <2>8. k = a
    BY <2>1, <2>7
  <2> QED
    BY <2>2, <2>7, <2>8, <1>5, <2>1
<1> QED
  BY <1>4, <1>5

(* The wire without its first frame.                                       *)
LEMMA TakenFacts ==
  ASSUME NEW w \in Seq(Cells), Aligned(w), w # <<>>,
         NEW n, n = FrameLen(w[1].of)
  PROVE  \E v \in Seq(Cells) :
           /\ v = Drop(w, n)
           /\ Len(v) = Len(w) - n
           /\ \A i \in 1..(Len(w) - n) : v[i] = w[n + i]
<1>1. n \in 0..Len(w)
  BY BehindTheFirst
<1> QED
  BY <1>1, DropFacts

(* It is aligned still.                                                    *)
LEMMA AlignedDrop ==
  ASSUME NEW w \in Seq(Cells), Aligned(w), w # <<>>,
         NEW n, n = FrameLen(w[1].of)
  PROVE  Aligned(Drop(w, n))
<1>1. /\ n \in 1..Len(w)
      /\ \A k \in DOMAIN w : k > n => w[k].at <= k - n
  BY BehindTheFirst
<1>0. n \in Nat /\ Len(w) \in Nat
  BY <1>1
<1>2. PICK v \in Seq(Cells) :
        /\ v = Drop(w, n)
        /\ Len(v) = Len(w) - n
        /\ \A i \in 1..(Len(w) - n) : v[i] = w[n + i]
  BY TakenFacts
<1>3. ASSUME NEW k \in DOMAIN v
      PROVE  /\ v[k].at <= FrameLen(v[k].of)
             /\ v[k].at <= k
             /\ k - v[k].at + FrameLen(v[k].of) <= Len(v)
             /\ \A i \in 1..FrameLen(v[k].of) :
                  v[k - v[k].at + i] = [of |-> v[k].of, at |-> i]
  <2>1. k \in 1..(Len(w) - n)
    BY <1>2
  <2>2. PICK m \in DOMAIN w : m = n + k /\ m > n /\ m - n = k
    BY <2>1, <1>1
  <2>9. k \in Nat /\ m \in Nat
    BY <2>1
  <2>3. v[k] = w[m]
    BY <2>1, <2>2, <1>2
  <2>4. PICK a \in Nat \ {0}, L \in Nat \ {0} :
          a = w[m].at /\ L = FrameLen(w[m].of)
    BY CellFacts
  <2>5. /\ a <= L
        /\ m - a + L <= Len(w)
        /\ \A i \in 1..L : w[m - a + i] = [of |-> w[m].of, at |-> i]
    BY <2>4 DEF Aligned
  <2>6. a <= k
    BY <2>2, <2>4, <1>1
  <2>10. PICK D \in Nat : D = Len(w)
    OBVIOUS
  <2>7. ASSUME NEW i \in 1..L
        PROVE  v[k - a + i] = [of |-> w[m].of, at |-> i]
    <3>1. k - a + i \in 1..(Len(w) - n)
      <4>1. m - a + i <= Len(w)
        <5>1. i \in Nat /\ i <= L
          OBVIOUS
        <5>2. m - a + L <= D
          BY <2>5, <2>10
        <5>3. m - a + i <= D
          BY <5>1, <5>2, <2>9
        <5> QED
          BY <5>3, <2>10
      <4>2. i \in Nat /\ i >= 1
        OBVIOUS
      <4>3. m = n + k /\ n \in Nat /\ k \in Nat
        BY <2>2, <2>9, <1>0
      <4>4. k - a + i >= 1 /\ k - a + i <= D - n /\ k - a + i \in Int
        <5>1. a \in Nat /\ n + k - a + i <= D
          BY <4>1, <4>3, <2>10
        <5>2. k - a \in Nat
          BY ONLY <2>6, <4>3, a \in Nat \ {0}
        <5>3. PICK x \in Nat : x = k - a
          BY <5>2
        <5>4. n + x + i <= D
          BY ONLY <5>1, <5>3, <4>2, <4>3, D \in Nat
        <5>5. x + i >= 1 /\ x + i <= D - n /\ x + i \in Int
          BY ONLY <5>4, <4>2, <4>3, x \in Nat, D \in Nat
        <5> QED
          BY <5>3, <5>5
      <4> QED
        BY <4>3, <4>4, <2>10
    <3>2. n + (k - a + i) = m - a + i
      BY <2>1, <2>2, <1>1
    <3>3. v[k - a + i] = w[n + (k - a + i)]
      BY <3>1, <1>2
    <3> QED
      BY <3>2, <3>3, <2>5
  <2>8. k - a + L <= Len(v)
    <3>1. m = n + k /\ n \in Nat /\ k \in Nat /\ m - a + L <= D
      BY <2>2, <2>9, <1>0, <2>5, <2>10
    <3>2. a \in Int /\ L \in Int
      OBVIOUS
    <3>3. k - a + L <= D - n
      BY ONLY <3>1, <3>2, D \in Nat
    <3> QED
      BY <3>3, <1>2, <2>10
  <2> QED
    BY <2>3, <2>4, <2>5, <2>6, <2>7, <2>8
<1>4. v # <<>> => v[1].at = 1
  <2>1. SUFFICES ASSUME v # <<>> PROVE v[1].at = 1
    OBVIOUS
  <2>2. 1 \in DOMAIN v
    BY <2>1
  <2>3. v[1].at <= 1 /\ v[1].at \in Nat \ {0}
    BY <2>2, <1>3, CellFacts
  <2> QED
    BY <2>3
<1>5. Aligned(v)
  BY <1>3, <1>4 DEF Aligned
<1> QED
  BY <1>2, <1>5

(* The frames of the wire after each of the two.                           *)
Appended(w, f, v) ==
  /\ v \in Seq(Cells)
  /\ Heads(v) = Heads(w) \cup {Len(w) + 1}
  /\ \A k \in Heads(w) : k \in Nat /\ k < Len(w) + 1 /\ v[k] = w[k]
  /\ v[Len(w) + 1].of = f

Taken(w, n, v) ==
  /\ v \in Seq(Cells)
  /\ 1 \in Heads(w)
  /\ n \in Nat
  /\ \A k \in Heads(w) : k \in Nat /\ k >= 1
  /\ \A k \in Heads(w) : k # 1 => k - n \in Heads(v) /\ v[k - n] = w[k]
  /\ \A k \in Heads(v) : /\ k \in Nat /\ k >= 1
                         /\ n + k \in Heads(w) /\ n + k > 1
                         /\ v[k] = w[n + k]

LEMMA HeadsPut ==
  ASSUME NEW w \in Seq(Cells), NEW f \in Frames
  PROVE  Appended(w, f, w \o CellsOf(f))
<1>1. PICK v \in Seq(Cells) :
        /\ v = w \o CellsOf(f)
        /\ Len(v) = Len(w) + FrameLen(f)
        /\ \A i \in 1..Len(w) : v[i] = w[i]
        /\ \A i \in 1..FrameLen(f) : v[Len(w) + i] = [of |-> f, at |-> i]
  BY PutFacts
<1>2. FrameLen(f) \in Nat \ {0}
  BY FrameLenPositive
<1>3. v[Len(w) + 1] = [of |-> f, at |-> 1] /\ Len(w) + 1 \in DOMAIN v
  BY <1>1, <1>2
<1>4. ASSUME NEW k \in Heads(v)
      PROVE  k \in Heads(w) \cup {Len(w) + 1}
  <2>0. k \in 1..Len(v) /\ v[k].at = 1
    BY DEF Heads
  <2>1. CASE k <= Len(w)
    <3>1. k \in 1..Len(w) /\ v[k] = w[k]
      BY <2>0, <2>1, <1>1
    <3> QED
      BY <3>1, <2>0 DEF Heads
  <2>2. CASE k > Len(w)
    <3>1. k - Len(w) \in 1..FrameLen(f) /\ Len(w) + (k - Len(w)) = k
      BY <2>0, <2>2, <1>1, <1>2
    <3>2. v[k] = [of |-> f, at |-> k - Len(w)]
      BY <3>1, <1>1
    <3>3. k - Len(w) = 1
      BY <2>0, <3>2
    <3> QED
      BY <3>1, <3>3
  <2> QED
    BY <2>0, <2>1, <2>2
<1>5. \A k \in Heads(w) : k \in 1..Len(w) /\ k < Len(w) + 1 /\ v[k] = w[k]
  BY <1>1 DEF Heads
<1>6. Heads(w) \subseteq Heads(v)
  BY <1>5, <1>1, <1>2 DEF Heads
<1>7. Heads(v) = Heads(w) \cup {Len(w) + 1}
  BY <1>3, <1>4, <1>6 DEF Heads
<1>8. v[Len(w) + 1].of = f /\ \A k \in Heads(w) : k \in Nat
  BY <1>3, <1>5
<1>9. Appended(w, f, v)
  BY <1>5, <1>7, <1>8 DEF Appended
<1> QED
  BY <1>1, <1>9

LEMMA HeadsDrop ==
  ASSUME NEW w \in Seq(Cells), Aligned(w), w # <<>>,
         NEW n, n = FrameLen(w[1].of)
  PROVE  Taken(w, n, Drop(w, n))
<1>1. /\ n \in 1..Len(w)
      /\ \A i \in 1..n : w[i] = [of |-> w[1].of, at |-> i]
      /\ \A k \in DOMAIN w : k > n => w[k].at <= k - n
  BY BehindTheFirst
<1>2. PICK v \in Seq(Cells) :
        /\ v = Drop(w, n)
        /\ Len(v) = Len(w) - n
        /\ \A i \in 1..(Len(w) - n) : v[i] = w[n + i]
  BY TakenFacts
<1>3. 1 \in Heads(w)
  BY DEF Heads, Aligned
<1>4. ASSUME NEW k \in Heads(w), k # 1
      PROVE  k - n \in Heads(v) /\ v[k - n] = w[k]
  <2>1. k \in 1..Len(w) /\ w[k].at = 1
    BY DEF Heads
  <2>2. k > n
    <3>1. SUFFICES ASSUME k <= n PROVE FALSE
      BY <2>1, <1>1
    <3>2. k \in 1..n
      BY <3>1, <2>1, <1>1
    <3>3. w[k] = [of |-> w[1].of, at |-> k]
      BY <3>2, <1>1
    <3> QED
      BY <3>3, <2>1, <1>4
  <2>3. k - n \in 1..(Len(w) - n) /\ n + (k - n) = k
    BY <2>1, <2>2, <1>1
  <2>4. v[k - n] = w[k]
    BY <2>3, <1>2
  <2> QED
    BY <2>1, <2>3, <2>4, <1>2 DEF Heads
<1>5. ASSUME NEW k \in Heads(v)
      PROVE  /\ k \in Nat /\ k >= 1
             /\ n + k \in Heads(w) /\ n + k > 1 /\ v[k] = w[n + k]
  <2>1. k \in 1..(Len(w) - n) /\ v[k].at = 1
    BY <1>2 DEF Heads
  <2>2. v[k] = w[n + k] /\ n + k \in 1..Len(w) /\ n + k > 1
    BY <2>1, <1>1, <1>2
  <2> QED
    BY <2>1, <2>2 DEF Heads
<1>6. \A k \in Heads(w) : k \in Nat /\ k >= 1
  BY DEF Heads
<1>7. n \in Nat
  BY <1>1
<1>8. Taken(w, n, v)
  BY <1>3, <1>4, <1>5, <1>6, <1>7 DEF Taken
<1> QED
  BY <1>2, <1>8

--------------------------------------------------------------------------------
(***************************************************************************)
(* Type correctness                                                        *)
(***************************************************************************)

serverVars == <<rxBuf, prefaceSeen, streams, blockVars, pc, readErr, historyVars>>

LEMMA FrameType ==
  ASSUME NEW type \in FrameTypes, NEW id \in StreamIds \cup {0},
         NEW endStream \in BOOLEAN, NEW endHeaders \in BOOLEAN, NEW load \in Loads
  PROVE  Frame(type, id, endStream, endHeaders, load) \in Frames
BY DEF Frame, Frames

LEMMA LoadType ==
  ASSUME NEW n \in Nat, NEW k \in Nat, NEW s \in StreamIds \cup {0}
  PROVE  <<n, k, s>> \in Loads
BY Http2Assumption DEF Loads

LEMMA PlainType ==
  ASSUME NEW type \in FrameTypes, NEW id \in StreamIds \cup {0}
  PROVE  Plain(type, id) \in Frames
BY LoadType, FrameType DEF Plain, NoLoad

LEMMA RogueType == RogueFrames \subseteq Frames
<1> DEFINE Any == StreamIds \cup {0}
<1>1. \A s \in Any : <<0, 0, s>> \in Loads
  BY LoadType
<1>2. \A s \in Any, e, h \in BOOLEAN : Frame("headers", s, e, h, <<0, 0, s>>) \in Frames
  BY <1>1, FrameType DEF FrameTypes
<1>3. \A s \in Any, h \in BOOLEAN :
        Frame("continuation", s, FALSE, h, <<0, 0, s>>) \in Frames
  BY <1>1, FrameType DEF FrameTypes
<1>4. \A s \in Any, e \in BOOLEAN : Frame("data", s, e, FALSE, <<0, 0, s>>) \in Frames
  BY <1>1, FrameType DEF FrameTypes
<1>5. \A f \in Frames : [f EXCEPT !.bad = TRUE] \in Frames
  BY DEF Frames
<1>6. \A type \in {"headers", "data"}, s \in StreamIds :
        [Plain(type, s) EXCEPT !.bad = TRUE] \in Frames
  BY <1>5, PlainType DEF FrameTypes
<1>7. \A type \in {"settings", "ping"} : [Plain(type, 0) EXCEPT !.bad = TRUE] \in Frames
  BY <1>5, PlainType DEF FrameTypes
<1> DEFINE F1 == {Frame("headers", s, endStream, endHeaders, <<0, 0, s>>) :
                    s \in Any, endStream, endHeaders \in BOOLEAN}
           F2 == {Frame("continuation", s, FALSE, endHeaders, <<0, 0, s>>) :
                    s \in Any, endHeaders \in BOOLEAN}
           F3 == {Frame("data", s, endStream, FALSE, <<0, 0, s>>) :
                    s \in Any, endStream \in BOOLEAN}
           F4 == {[Plain(type, s) EXCEPT !.bad = TRUE] :
                    type \in {"headers", "data"}, s \in StreamIds}
           F5 == {[Plain(type, 0) EXCEPT !.bad = TRUE] : type \in {"settings", "ping"}}
<1>8. RogueFrames = F1 \cup F2 \cup F3 \cup F4 \cup F5
  BY DEF RogueFrames
<1> HIDE DEF F1, F2, F3, F4, F5
<1>9. F1 \subseteq Frames
  <2>1. SUFFICES ASSUME NEW f \in F1 PROVE f \in Frames
    OBVIOUS
  <2>2. PICK s \in Any, endStream \in BOOLEAN, endHeaders \in BOOLEAN :
          f = Frame("headers", s, endStream, endHeaders, <<0, 0, s>>)
    BY <2>1 DEF F1
  <2> QED
    BY <1>2, <2>2
<1>10. F2 \subseteq Frames
  <2>1. SUFFICES ASSUME NEW f \in F2 PROVE f \in Frames
    OBVIOUS
  <2>2. PICK s \in Any, endHeaders \in BOOLEAN :
          f = Frame("continuation", s, FALSE, endHeaders, <<0, 0, s>>)
    BY <2>1 DEF F2, Frame
  <2> QED
    BY <1>3, <2>2
<1>11. F3 \subseteq Frames
  <2>1. SUFFICES ASSUME NEW f \in F3 PROVE f \in Frames
    OBVIOUS
  <2>2. PICK s \in Any, endStream \in BOOLEAN :
          f = Frame("data", s, endStream, FALSE, <<0, 0, s>>)
    BY <2>1 DEF F3, Frame
  <2> QED
    BY <1>4, <2>2
<1>12. F4 \subseteq Frames
  BY <1>6 DEF F4
<1>13. F5 \subseteq Frames
  BY <1>7 DEF F5
<1> QED
  BY <1>8, <1>9, <1>10, <1>11, <1>12, <1>13

(* The wire after a write, a read, and a frame that has been handled.      *)
LEMMA PutWire ==
  ASSUME TypeOK, NEW f \in Frames, Put(f), UNCHANGED rxBuf
  PROVE  transit' \in Seq(Cells) /\ Wire' = Wire \o CellsOf(f)
<1>1. /\ transit \in Seq(Cells) /\ rxBuf \in Seq(Cells)
      /\ CellsOf(f) \in Seq(Cells)
  BY CellsFacts DEF TypeOK
<1>2. transit' = transit \o CellsOf(f)
  BY DEF Put
<1>3. transit \o CellsOf(f) \in Seq(Cells)
  BY <1>1, ConcatProperties
<1>4. rxBuf \o (transit \o CellsOf(f)) = (rxBuf \o transit) \o CellsOf(f)
  BY <1>1, WirePut
<1> QED
  BY <1>2, <1>3, <1>4 DEF Wire

LEMMA ReadWire ==
  ASSUME TypeOK, NEW n \in Nat, Read(n)
  PROVE  transit' \in Seq(Cells) /\ rxBuf' \in Seq(Cells) /\ Wire' = Wire
<1>1. transit \in Seq(Cells) /\ rxBuf \in Seq(Cells) /\ n \in 0..Len(transit)
  BY DEF TypeOK, Read
<1>2. rxBuf' = rxBuf \o SubSeq(transit, 1, n) /\ transit' = Drop(transit, n)
  BY DEF Read
<1> QED
  BY <1>1, <1>2, WireRead DEF Wire

LEMMA WireType == TypeOK => Wire \in Seq(Cells)
<1>1. SUFFICES ASSUME TypeOK PROVE rxBuf \o transit \in Seq(Cells)
  BY DEF Wire
<1> QED
  BY <1>1, ConcatProperties DEF TypeOK

LEMMA HeadOfWire ==
  ASSUME TypeOK, Complete
  PROVE  /\ rxBuf # <<>> /\ Wire # <<>> /\ Wire[1] = rxBuf[1]
         /\ Frm \in Frames
         /\ FrameLen(Frm) \in 0..Len(rxBuf)
<1>1. rxBuf \in Seq(Cells) /\ transit \in Seq(Cells)
  BY DEF TypeOK
<1>2. FrameHeader \in Nat \ {0}
  BY Http2Assumption
<1>3. Len(rxBuf) >= 1 /\ Len(rxBuf) \in Nat
  BY <1>1, <1>2 DEF Complete
<1>4. 1 \in 1..Len(rxBuf) /\ rxBuf # <<>>
  BY <1>1, <1>3
<1>5. /\ Len(Wire) = Len(rxBuf) + Len(transit)
      /\ \A i \in 1..Len(rxBuf) : Wire[i] = rxBuf[i]
  BY <1>1, ConcatProperties DEF Wire
<1>6. Len(Wire) # 0
  BY <1>1, <1>3, <1>5
<1>7. Wire # <<>>
  BY <1>6
<1>8. rxBuf[1] \in Cells
  BY <1>1, <1>4
<1>9. Frm \in Frames
  BY <1>8 DEF Frm, Cells
<1>10. FrameLen(Frm) \in Nat /\ FrameLen(Frm) <= Len(rxBuf)
  BY FrameLenPositive DEF Complete, Frm
<1> QED
  BY <1>3, <1>4, <1>5, <1>7, <1>9, <1>10

LEMMA ConsumeWire ==
  ASSUME TypeOK, Complete, Consume, UNCHANGED transit
  PROVE  /\ rxBuf' \in Seq(Cells)
         /\ Wire' = Drop(Wire, FrameLen(Wire[1].of))
<1>1. rxBuf \in Seq(Cells) /\ transit \in Seq(Cells)
  BY DEF TypeOK
<1>2. FrameLen(Frm) \in 0..Len(rxBuf) /\ Frm = Wire[1].of
  BY HeadOfWire DEF Frm
<1>3. /\ Drop(rxBuf, FrameLen(Frm)) \o transit = Drop(rxBuf \o transit, FrameLen(Frm))
      /\ Drop(rxBuf, FrameLen(Frm)) \in Seq(Cells)
  BY <1>1, <1>2, WireDrop
<1> QED
  BY <1>2, <1>3 DEF Wire, Consume

(* What a client does keeps its own variables in their types, and its last *)
(* block the only unfinished one.                                          *)
LEMMA ClientType ==
  ASSUME TypeOK, ClientInv, Client, UNCHANGED serverVars
  PROVE  TypeOK' /\ ClientInv'
<1> USE DEF serverVars, blockVars, historyVars
<1>0. /\ Http2Assumption /\ 0 \in StreamIds \cup {0}
      /\ \A s \in StreamIds : s \in StreamIds \cup {0}
      /\ MaxParts \in Nat \ {0}
      /\ MaxData \in Nat /\ MaxPings \in Nat /\ MaxRogue \in Nat
  BY Http2Assumption
<1>1. blocks # <<>> =>
        /\ Len(blocks) \in Nat \ {0}
        /\ blocks[Len(blocks)] \in [id : StreamIds, parts : 1..MaxParts]
  <2>1. ASSUME blocks # <<>>
        PROVE  /\ Len(blocks) \in Nat \ {0}
               /\ blocks[Len(blocks)] \in [id : StreamIds, parts : 1..MaxParts]
    <3>1. Len(blocks) \in 1..Len(blocks)
      BY <2>1 DEF TypeOK
    <3> DEFINE B == [id : StreamIds, parts : 1..MaxParts]
    <3>2. blocks \in Seq(B)
      BY DEF TypeOK
    <3> HIDE DEF B
    <3>3. blocks[Len(blocks)] \in B
      BY <3>1, <3>2, ElementOfSeq
    <3> QED
      BY <3>1, <3>3 DEF B
  <2> QED
    BY <2>1
<1>2. ASSUME NEW s \in StreamIds, NEW f \in Frames, Put(f), MayWrite,
             NEW endHeaders \in BOOLEAN, endHeaders \/ MaxParts > 1,
             blocks' = Append(blocks, [id |-> s, parts |-> 1]),
             client' = [client EXCEPT ![s] = client'[s]],
             client'[s] \in {"block", "open", "trailers", "ended"},
             client'[s] \in {"block", "trailers"} <=> ~endHeaders,
             ending' \in BOOLEAN,
             UNCHANGED <<datas, pings, rogue, gone>>
      PROVE  TypeOK' /\ ClientInv'
  <2>1. transit' \in Seq(Cells)
    BY <1>2, PutWire
  <2>2. [id |-> s, parts |-> 1] \in [id : StreamIds, parts : 1..MaxParts]
    BY <1>0
  <2>3. /\ blocks' \in Seq([id : StreamIds, parts : 1..MaxParts])
        /\ blocks' # <<>>
        /\ blocks'[Len(blocks')] = [id |-> s, parts |-> 1]
    <3>1. blocks \in Seq([id : StreamIds, parts : 1..MaxParts])
      BY DEF TypeOK
    <3> DEFINE B == [id : StreamIds, parts : 1..MaxParts]
               b == [id |-> s, parts |-> 1]
    <3>2. blocks \in Seq(B) /\ b \in B /\ blocks' = Append(blocks, b)
      BY <3>1, <2>2, <1>2
    <3> HIDE DEF B, b
    <3>3. /\ blocks' \in Seq(B)
          /\ blocks' # <<>>
          /\ Len(blocks') = Len(blocks) + 1
          /\ blocks'[Len(blocks) + 1] = b
      BY <3>2, AppendProperties
    <3> QED
      BY <3>3 DEF B, b
  <2>4. client' \in [StreamIds -> {"idle", "block", "open", "trailers", "ended", "reset"}]
    BY <1>2 DEF TypeOK
  <2>5. TypeOK'
    BY <1>2, <2>1, <2>3, <2>4 DEF TypeOK
  <2>6. InBlock' # {} => InBlock' = {s} /\ MaxParts > 1
    BY <1>2 DEF InBlock, MayWrite, TypeOK
  <2>7. ClientInv'
    BY <2>3, <2>6 DEF ClientInv
  <2> QED
    BY <2>5, <2>7
<1>3. ASSUME NEW s \in StreamIds, NEW endStream \in BOOLEAN, NEW endHeaders \in BOOLEAN,
             SendHeaders(s, endStream, endHeaders)
      PROVE  TypeOK' /\ ClientInv'
  <2>1. <<Len(blocks) + 1, 1, s>> \in Loads
    BY LoadType DEF TypeOK
  <2>2. Frame("headers", s, endStream, endHeaders, <<Len(blocks) + 1, 1, s>>) \in Frames
    BY <2>1, FrameType DEF FrameTypes
  <2>3. client'[s] = IF ~endHeaders THEN "block"
                     ELSE IF endStream THEN "ended" ELSE "open"
    BY <1>3 DEF SendHeaders, TypeOK
  <2>4. client' = [client EXCEPT ![s] = client'[s]]
    BY <1>3, <2>3 DEF SendHeaders
  <2>5. ending' \in BOOLEAN /\ MayWrite /\ (endHeaders \/ MaxParts > 1)
    BY <1>3 DEF SendHeaders
  <2>6. /\ client'[s] \in {"block", "open", "trailers", "ended"}
        /\ client'[s] \in {"block", "trailers"} <=> ~endHeaders
    BY <2>3
  <2>7. /\ Put(Frame("headers", s, endStream, endHeaders, <<Len(blocks) + 1, 1, s>>))
        /\ blocks' = Append(blocks, [id |-> s, parts |-> 1])
        /\ UNCHANGED <<datas, pings, rogue, gone>>
    BY <1>3 DEF SendHeaders
  <2> QED
    BY <1>2, <2>2, <2>4, <2>5, <2>6, <2>7
<1>4. ASSUME NEW s \in StreamIds, NEW endHeaders \in BOOLEAN, SendTrailers(s, endHeaders)
      PROVE  TypeOK' /\ ClientInv'
  <2>1. <<Len(blocks) + 1, 1, s>> \in Loads
    BY LoadType DEF TypeOK
  <2>2. Frame("headers", s, TRUE, endHeaders, <<Len(blocks) + 1, 1, s>>) \in Frames
    BY <2>1, FrameType DEF FrameTypes
  <2>3. client'[s] = IF endHeaders THEN "ended" ELSE "trailers"
    BY <1>4 DEF SendTrailers, TypeOK
  <2>4. client' = [client EXCEPT ![s] = client'[s]]
    BY <1>4, <2>3 DEF SendTrailers
  <2>5. ending' \in BOOLEAN /\ MayWrite /\ (endHeaders \/ MaxParts > 1)
    BY <1>4 DEF SendTrailers
  <2>6. /\ client'[s] \in {"block", "open", "trailers", "ended"}
        /\ client'[s] \in {"block", "trailers"} <=> ~endHeaders
    BY <2>3
  <2>7. /\ Put(Frame("headers", s, TRUE, endHeaders, <<Len(blocks) + 1, 1, s>>))
        /\ blocks' = Append(blocks, [id |-> s, parts |-> 1])
        /\ UNCHANGED <<datas, pings, rogue, gone>>
    BY <1>4 DEF SendTrailers
  <2> QED
    BY <1>2, <2>2, <2>4, <2>5, <2>6, <2>7
<1>5. ASSUME NEW s \in StreamIds, NEW endHeaders \in BOOLEAN,
             SendContinuation(s, endHeaders)
      PROVE  TypeOK' /\ ClientInv'
  <2> DEFINE n == Len(blocks)
             k == blocks[n].parts + 1
  <2>1. /\ n \in Nat \ {0} /\ blocks[n] \in [id : StreamIds, parts : 1..MaxParts]
        /\ s \in InBlock /\ InBlock = {blocks[n].id} /\ blocks[n].parts < MaxParts
    BY <1>1, <1>5 DEF SendContinuation, ClientInv, TypeOK
  <2>2. k \in 1..MaxParts /\ (endHeaders \/ k < MaxParts)
    BY <1>0, <1>5, <2>1 DEF SendContinuation
  <2>3. <<n, k, s>> \in Loads
    BY <2>1, <2>2, LoadType
  <2>4. Frame("continuation", s, FALSE, endHeaders, <<n, k, s>>) \in Frames
    BY <2>3, FrameType DEF FrameTypes
  <2>5. transit' \in Seq(Cells)
    BY <1>5, <2>4, PutWire DEF SendContinuation
  <2>6. blocks' = [blocks EXCEPT ![n] = [blocks[n] EXCEPT !.parts = k]]
    BY <1>5 DEF SendContinuation
  <2>7. [blocks[n] EXCEPT !.parts = k] \in [id : StreamIds, parts : 1..MaxParts]
    BY <2>1, <2>2
  <2>8. n \in 1..Len(blocks)
    BY <2>1
  <2>9. /\ blocks' \in Seq([id : StreamIds, parts : 1..MaxParts])
        /\ Len(blocks') = n
        /\ blocks'[n] = [blocks[n] EXCEPT !.parts = k]
    <3> DEFINE B == [id : StreamIds, parts : 1..MaxParts]
               b == [blocks[n] EXCEPT !.parts = k]
    <3>1. blocks \in Seq(B) /\ b \in B /\ blocks' = [blocks EXCEPT ![n] = b]
      BY <2>6, <2>7 DEF TypeOK
    <3> HIDE DEF B, b
    <3>2. /\ blocks' \in Seq(B)
          /\ Len(blocks') = n
          /\ blocks'[n] = b
      BY <2>8, <3>1, ExceptSeq
    <3> QED
      BY <3>2 DEF B, b
  <2>10. client' \in [StreamIds -> {"idle", "block", "open", "trailers", "ended", "reset"}]
    BY <1>5 DEF SendContinuation, TypeOK
  <2>11. TypeOK'
    BY <1>5, <2>5, <2>9, <2>10 DEF SendContinuation, TypeOK
  <2>12. InBlock' # {} => ~endHeaders /\ InBlock' = {s}
    <3>1. /\ client'[s] = IF ~endHeaders THEN client[s] ELSE IF ending THEN "ended" ELSE "open"
          /\ \A t \in StreamIds : t # s => client'[t] = client[t]
      BY <1>5 DEF SendContinuation, TypeOK
    <3>2. InBlock = {s}
      BY <2>1
    <3> QED
      BY <3>1, <3>2 DEF InBlock
  <2>13. blocks'[n].id = s /\ blocks'[n].parts = k /\ blocks' # <<>>
    BY <2>1, <2>9
  <2>14. ClientInv'
    BY <2>2, <2>9, <2>12, <2>13 DEF ClientInv
  <2> QED
    BY <2>11, <2>14
<1>6. ASSUME NEW s \in StreamIds, NEW endStream \in BOOLEAN, SendData(s, endStream)
      PROVE  TypeOK' /\ ClientInv'
  <2>1. datas[s] \in 0..MaxData /\ MaxData \in Nat /\ datas[s] + 1 \in 0..MaxData
    BY <1>6, <1>0 DEF SendData, TypeOK
  <2>2. <<0, datas[s] + 1, s>> \in Loads
    BY <2>1, LoadType
  <2>3. Frame("data", s, endStream, FALSE, <<0, datas[s] + 1, s>>) \in Frames
    BY <2>2, FrameType DEF FrameTypes
  <2>4. transit' \in Seq(Cells)
    BY <1>6, <2>3, PutWire DEF SendData
  <2>5. datas' \in [StreamIds -> 0..MaxData]
    BY <1>6, <2>1 DEF SendData, TypeOK
  <2>6. client' \in [StreamIds -> {"idle", "block", "open", "trailers", "ended", "reset"}]
    BY <1>6 DEF SendData, TypeOK
  <2>7. TypeOK'
    BY <1>6, <2>4, <2>5, <2>6 DEF SendData, TypeOK
  <2>8. InBlock' = {}
    BY <1>6 DEF SendData, MayWrite, InBlock, TypeOK
  <2> QED
    BY <2>7, <2>8 DEF ClientInv
<1>7. ASSUME NEW s \in StreamIds, SendReset(s)
      PROVE  TypeOK' /\ ClientInv'
  <2>1. Plain("rst", s) \in Frames
    BY PlainType DEF FrameTypes
  <2>2. transit' \in Seq(Cells)
    BY <1>7, <2>1, PutWire DEF SendReset
  <2>3. client' \in [StreamIds -> {"idle", "block", "open", "trailers", "ended", "reset"}]
    BY <1>7 DEF SendReset, TypeOK
  <2>4. TypeOK'
    BY <1>7, <2>2, <2>3 DEF SendReset, TypeOK
  <2>5. InBlock' = {}
    BY <1>7 DEF SendReset, MayWrite, InBlock, TypeOK
  <2> QED
    BY <2>4, <2>5 DEF ClientInv
<1>8. ASSUME NEW f \in Frames, Put(f), UNCHANGED <<client, blocks, datas, ending>>,
             pings' \in 0..MaxPings, rogue' \in 0..MaxRogue, gone' \in BOOLEAN
      PROVE  TypeOK' /\ ClientInv'
  <2>1. transit' \in Seq(Cells)
    BY <1>8, PutWire
  <2>2. TypeOK'
    BY <1>8, <2>1 DEF TypeOK
  <2>3. InBlock' = InBlock
    BY <1>8 DEF InBlock
  <2>4. ClientInv'
    BY <1>8, <2>3 DEF ClientInv
  <2> QED
    BY <2>2, <2>4
<1>9. CASE SendPing
  <2>1. \A type \in {"ping", "other"} : Plain(type, 0) \in Frames
    BY PlainType DEF FrameTypes
  <2>2. pings' \in 0..MaxPings
    BY <1>0, <1>9 DEF SendPing, TypeOK
  <2> QED
    BY <1>8, <1>9, <2>1, <2>2 DEF SendPing, TypeOK
<1>10. CASE SendGoAway
  <2>1. Plain("goaway", 0) \in Frames
    BY PlainType DEF FrameTypes
  <2> QED
    BY <1>8, <1>10, <2>1 DEF SendGoAway, TypeOK
<1>11. CASE ClientClose
  <2>1. InBlock' = InBlock
    BY <1>11 DEF ClientClose, InBlock
  <2> QED
    BY <1>11, <2>1 DEF ClientClose, TypeOK, ClientInv
<1>12. ASSUME NEW f \in RogueFrames, SendRogue(f)
       PROVE  TypeOK' /\ ClientInv'
  <2>1. f \in Frames
    BY RogueType
  <2>2. rogue' \in 0..MaxRogue
    BY <1>0, <1>12 DEF SendRogue, TypeOK
  <2> QED
    BY <1>8, <1>12, <2>1, <2>2 DEF SendRogue, TypeOK
<1> QED
  BY <1>3, <1>4, <1>5, <1>6, <1>7, <1>9, <1>10, <1>11, <1>12 DEF Client

(* What the server does keeps its variables in their types.                *)
LEMMA FailType ==
  ASSUME TypeOK, NEW why \in {"protocol", "write", "eof"}, Fail(why)
  PROVE  TypeOK'
BY DEF Fail, clientVars, blockVars, TypeOK

LEMMA ConsumeType ==
  ASSUME TypeOK, Complete, Consume,
         UNCHANGED <<clientVars, prefaceSeen, pc, readErr, failure>>,
         streams' \in [StreamIds -> [fields : Seq(Loads), body : Seq(Loads)] \cup {None}],
         headersStream' \in StreamIds \cup {0},
         headersBlock' \in Seq(Loads),
         headersStream' = 0 => headersBlock' = <<>>,
         headersEnd' \in BOOLEAN,
         decoded' \in Nat,
         handled' \in Seq([id : StreamIds, fields : Seq(Loads), body : Seq(Loads)])
  PROVE  TypeOK'
<1>1. rxBuf' \in Seq(Cells)
  BY ConsumeWire DEF clientVars
<1> QED
  BY <1>1 DEF TypeOK, clientVars

LEMMA InvokeType ==
  ASSUME TypeOK, NEW s \in StreamIds, NEW fields \in Seq(Loads),
         NEW body \in Seq(Loads), Invoke(s, fields, body)
  PROVE  handled' \in Seq([id : StreamIds, fields : Seq(Loads), body : Seq(Loads)])
<1> DEFINE R == [id : StreamIds, fields : Seq(Loads), body : Seq(Loads)]
           r == [id |-> s, fields |-> fields, body |-> body]
<1>1. handled \in Seq(R) /\ r \in R /\ handled' = Append(handled, r)
  BY DEF TypeOK, Invoke
<1> HIDE DEF R, r
<1>2. handled' \in Seq(R)
  BY <1>1, AppendProperties
<1> QED
  BY <1>2 DEF R

LEMMA FinishType ==
  ASSUME TypeOK, Complete, NEW s \in StreamIds, NEW block \in Seq(Loads),
         NEW endStream \in BOOLEAN, FinishHeaders(s, block, endStream)
  PROVE  TypeOK'
<1>1. CASE ~Decodable(block) /\ Fail("protocol")
  BY <1>1, FailType
<1>2. CASE /\ decoded' = decoded + 1
           /\ IF endStream
                THEN Invoke(s, block, <<>>) /\ Delete(s)
                ELSE /\ streams' = [streams EXCEPT ![s] =
                                      [fields |-> block, body |-> <<>>]]
                     /\ UNCHANGED <<handled, responses>>
           /\ headersStream' = 0
           /\ ResetBlock
           /\ headersEnd' = endStream
           /\ Consume
           /\ UNCHANGED <<clientVars, prefaceSeen, pc, readErr, failure>>
  <2>1. decoded' \in Nat /\ headersBlock' \in Seq(Loads) /\ headersBlock' = <<>>
    BY <1>2 DEF TypeOK, ResetBlock
  <2>2. CASE endStream
    <3>1. <<>> \in Seq(Loads)
      OBVIOUS
    <3>2. handled' \in Seq([id : StreamIds, fields : Seq(Loads), body : Seq(Loads)])
      BY <1>2, <2>2, <3>1, InvokeType
    <3>3. streams' \in [StreamIds -> [fields : Seq(Loads), body : Seq(Loads)] \cup {None}]
      BY <1>2, <2>2 DEF Delete, TypeOK
    <3> QED
      BY <1>2, <2>1, <3>2, <3>3, ConsumeType
  <2>3. CASE ~endStream
    <3>1. [fields |-> block, body |-> <<>>] \in [fields : Seq(Loads), body : Seq(Loads)]
      OBVIOUS
    <3>2. streams' \in [StreamIds -> [fields : Seq(Loads), body : Seq(Loads)] \cup {None}]
      BY <1>2, <2>3, <3>1 DEF TypeOK
    <3>3. handled' \in Seq([id : StreamIds, fields : Seq(Loads), body : Seq(Loads)])
      BY <1>2, <2>3 DEF TypeOK
    <3> QED
      BY <1>2, <2>1, <3>2, <3>3, ConsumeType
  <2> QED
    BY <2>2, <2>3
<1> QED
  BY <1>1, <1>2 DEF FinishHeaders

LEMMA KeepType ==
  ASSUME TypeOK, Complete, NEW s \in StreamIds, NEW block \in Seq(Loads),
         NEW endStream \in BOOLEAN, KeepBlock(s, block, endStream)
  PROVE  TypeOK'
<1>1. s # 0
  BY Http2Assumption
<1> QED
  BY <1>1, ConsumeType DEF KeepBlock, TypeOK, historyVars

LEMMA FrmType ==
  ASSUME TypeOK, Complete
  PROVE  /\ Frm.id \in StreamIds \cup {0} /\ Frm.load \in Loads
         /\ Frm.endStream \in BOOLEAN /\ Frm.endHeaders \in BOOLEAN
         /\ Frm.type \in FrameTypes /\ Frm.bad \in BOOLEAN
BY HeadOfWire DEF Frames

LEMMA LoadsAppend ==
  ASSUME NEW q \in Seq(Loads), NEW x \in Loads
  PROVE  Append(q, x) \in Seq(Loads) /\ <<x>> \in Seq(Loads)
BY AppendProperties

LEMMA ServerType ==
  ASSUME TypeOK, Server
  PROVE  TypeOK'
<1>1. CASE Start
  BY <1>1 DEF Start, TypeOK, clientVars, blockVars, historyVars
<1>2. ASSUME NEW n \in 1..ReadSize, Read(n)
      PROVE  TypeOK'
  <2>1. n \in Nat
    BY Http2Assumption
  <2>2. transit' \in Seq(Cells) /\ rxBuf' \in Seq(Cells)
    BY <1>2, <2>1, ReadWire
  <2>3. readErr' \in BOOLEAN /\ pc' = "feed"
    BY <1>2, <2>1 DEF Read, TypeOK
  <2> QED
    BY <1>2, <2>2, <2>3 DEF Read, TypeOK, blockVars, historyVars
<1>3. CASE ReadEnds
  BY <1>3 DEF ReadEnds, TypeOK, clientVars, blockVars, historyVars
<1>4. CASE FeedPreface
  <2>1. CASE Fail("protocol")
    BY <2>1, FailType
  <2>2. CASE /\ prefaceSeen' = TRUE
             /\ rxBuf' = Drop(rxBuf, PrefaceLen)
             /\ UNCHANGED <<clientVars, streams, blockVars, pc, readErr, historyVars>>
    <3>1. PrefaceLen \in 0..Len(rxBuf)
      BY <1>4, Http2Assumption DEF FeedPreface, TypeOK
    <3>2. rxBuf' \in Seq(Cells)
      BY <2>2, <3>1, DropFacts DEF TypeOK
    <3> QED
      BY <2>2, <3>2 DEF TypeOK, clientVars, blockVars, historyVars
  <2> QED
    BY <1>4, <2>1, <2>2 DEF FeedPreface
<1>5. CASE FeedDone
  BY <1>5 DEF FeedDone, TypeOK, clientVars, blockVars, historyVars
<1>6. ASSUME Complete, Write
      PROVE  TypeOK'
  BY <1>6, FailType, ConsumeType DEF Write, TypeOK, blockVars, historyVars
<1>7. CASE OnSettings \/ OnPing
  BY <1>6, <1>7, FailType DEF OnSettings, OnPing, Received
<1>8. CASE OnOther \/ OnDataUnknown
  BY <1>8, ConsumeType DEF OnOther, OnDataUnknown, Received, TypeOK, blockVars, historyVars
<1>9. CASE OnReset
  <2>1. streams' \in [StreamIds -> [fields : Seq(Loads), body : Seq(Loads)] \cup {None}]
    BY <1>9 DEF OnReset, Delete, TypeOK
  <2> QED
    BY <1>9, <2>1, ConsumeType DEF OnReset, Received, TypeOK, blockVars, historyVars
<1>10. CASE OnGoAway
  BY <1>10, FailType DEF OnGoAway
<1>11. CASE OnHeaders
  <2>1. Complete
    BY <1>11 DEF OnHeaders, Received
  <2>2. CASE Fail("protocol")
    BY <2>2, FailType
  <2>3. CASE ~(Frm.id = 0 \/ Frm.bad)
    <3>1. Frm.id \in StreamIds /\ <<Frm.load>> \in Seq(Loads) /\ Frm.endStream \in BOOLEAN
      BY <2>1, <2>3, FrmType
    <3>2. \/ FinishHeaders(Frm.id, <<Frm.load>>, Frm.endStream)
          \/ KeepBlock(Frm.id, <<Frm.load>>, Frm.endStream)
      BY <1>11, <2>3 DEF OnHeaders
    <3> QED
      BY <2>1, <3>1, <3>2, FinishType, KeepType
  <2> QED
    BY <1>11, <2>2, <2>3 DEF OnHeaders
<1>12. CASE OnContinuation
  <2>1. Complete
    BY <1>12 DEF OnContinuation, Received
  <2>2. CASE Fail("protocol")
    BY <2>2, FailType
  <2>3. CASE Belongs(Frm)
    <3>1. /\ headersStream \in StreamIds /\ Append(headersBlock, Frm.load) \in Seq(Loads)
          /\ Latched(Frm) \in BOOLEAN
      BY <2>1, <2>3, FrmType, LoadsAppend DEF Belongs, Latched, TypeOK
    <3>2. \/ FinishHeaders(headersStream, Append(headersBlock, Frm.load), Latched(Frm))
          \/ KeepBlock(headersStream, Append(headersBlock, Frm.load), Latched(Frm))
      BY <1>12, <2>3 DEF OnContinuation
    <3> QED
      BY <2>1, <3>1, <3>2, FinishType, KeepType
  <2> QED
    BY <1>12, <2>2, <2>3 DEF OnContinuation
<1>13. CASE OnData
  <2>1. Complete /\ Known(Frm.id)
    BY <1>13 DEF OnData, Received
  <2>2. CASE Fail("protocol")
    BY <2>2, FailType
  <2>3. CASE ~Frm.bad
    <3> DEFINE s == Frm.id
               body == AppendBody(streams[s].body, Frm.load)
    <3>1. /\ s \in StreamIds
          /\ streams[s] \in [fields : Seq(Loads), body : Seq(Loads)]
      BY <2>1 DEF Known, TypeOK
    <3>2. streams[s].fields \in Seq(Loads) /\ streams[s].body \in Seq(Loads)
      BY <3>1
    <3>3. body \in Seq(Loads)
      BY <2>1, <3>2, FrmType, LoadsAppend DEF AppendBody
    <3>4. /\ Consume
          /\ UNCHANGED <<clientVars, prefaceSeen, blockVars, pc, readErr, failure>>
      BY <1>13, <2>3 DEF OnData
    <3>5. CASE Frm.endStream
      <4>1. Invoke(s, streams[s].fields, body) /\ Delete(s)
        BY <1>13, <2>3, <3>5 DEF OnData
      <4>2. handled' \in Seq([id : StreamIds, fields : Seq(Loads), body : Seq(Loads)])
        BY <3>1, <3>2, <3>3, <4>1, InvokeType
      <4>3. streams' \in [StreamIds -> [fields : Seq(Loads), body : Seq(Loads)] \cup {None}]
        BY <4>1 DEF Delete, TypeOK
      <4> QED
        BY <2>1, <3>4, <4>2, <4>3, ConsumeType DEF TypeOK, blockVars
    <3>6. CASE ~Frm.endStream
      <4>1. streams' = [streams EXCEPT ![s].body = body] /\ UNCHANGED handled
        BY <1>13, <2>3, <3>6 DEF OnData
      <4>2. [streams[s] EXCEPT !.body = body] \in [fields : Seq(Loads), body : Seq(Loads)]
        BY <3>1, <3>3
      <4>3. streams' \in [StreamIds -> [fields : Seq(Loads), body : Seq(Loads)] \cup {None}]
        <5>1. streams' = [streams EXCEPT ![s] = [streams[s] EXCEPT !.body = body]]
          BY <4>1
        <5> QED
          BY <3>1, <4>2, <5>1 DEF TypeOK
      <4> QED
        BY <2>1, <3>4, <4>1, <4>3, ConsumeType DEF TypeOK, blockVars
    <3> QED
      BY <3>5, <3>6
  <2> QED
    BY <1>13, <2>2, <2>3 DEF OnData
<1> QED
  BY <1>1, <1>2, <1>3, <1>4, <1>5, <1>7, <1>8, <1>9, <1>10, <1>11, <1>12, <1>13
  DEF Server, HandleFrame

--------------------------------------------------------------------------------
(***************************************************************************)
(* Whatever clients send                                                   *)
(***************************************************************************)

(* A frame that comes after the preface, with a load that is its own.      *)
Sendable(f) == f \in Frames /\ f.type # "preface" /\ OwnLoad(f)

LEMMA RogueIsSendable ==
  ASSUME NEW f \in RogueFrames
  PROVE  Sendable(f)
<1> DEFINE Any == StreamIds \cup {0}
           S(g) == g.type # "preface" /\ OwnLoad(g)
           F1 == {Frame("headers", s, endStream, endHeaders, <<0, 0, s>>) :
                    s \in Any, endStream, endHeaders \in BOOLEAN}
           F2 == {Frame("continuation", s, FALSE, endHeaders, <<0, 0, s>>) :
                    s \in Any, endHeaders \in BOOLEAN}
           F3 == {Frame("data", s, endStream, FALSE, <<0, 0, s>>) :
                    s \in Any, endStream \in BOOLEAN}
           F4 == {[Plain(type, s) EXCEPT !.bad = TRUE] :
                    type \in {"headers", "data"}, s \in StreamIds}
           F5 == {[Plain(type, 0) EXCEPT !.bad = TRUE] : type \in {"settings", "ping"}}
<1>1. RogueFrames = F1 \cup F2 \cup F3 \cup F4 \cup F5
  BY DEF RogueFrames
<1> HIDE DEF F1, F2, F3, F4, F5
<1>2. f \in F1 => S(f)
  BY DEF F1, Frame, OwnLoad, Fragment
<1>3. f \in F2 => S(f)
  BY DEF F2, Frame, OwnLoad, Fragment
<1>4. f \in F3 => S(f)
  BY DEF F3, Frame, OwnLoad, Fragment
<1>5. f \in F4 => S(f)
  <2>1. SUFFICES ASSUME f \in F4 PROVE S(f)
    OBVIOUS
  <2>2. PICK type \in {"headers", "data"}, s \in StreamIds :
          f = [Plain(type, s) EXCEPT !.bad = TRUE]
    BY <2>1 DEF F4
  <2>3. f.type = type /\ f.bad
    BY <2>2 DEF Plain, Frame
  <2> QED
    BY <2>3 DEF OwnLoad
<1>6. f \in F5 => S(f)
  BY DEF F5, Frame, Plain, OwnLoad, Fragment
<1> QED
  BY <1>1, <1>2, <1>3, <1>4, <1>5, <1>6, RogueType DEF Sendable

(* What a client does to the wire.                                         *)
LEMMA ClientWire ==
  ASSUME TypeOK, ClientInv, Client, UNCHANGED serverVars
  PROVE  \/ Wire' = Wire
         \/ \E f \in Frames : Sendable(f) /\ Wire' = Wire \o CellsOf(f)
<1>0. UNCHANGED rxBuf
  BY DEF serverVars
<1>1. ASSUME NEW f \in Frames, f.type # "preface", OwnLoad(f), Put(f)
      PROVE  \E g \in Frames : Sendable(g) /\ Wire' = Wire \o CellsOf(g)
  BY <1>0, <1>1, PutWire DEF Sendable
<1>2. ASSUME NEW s \in StreamIds, NEW endStream \in BOOLEAN, NEW endHeaders \in BOOLEAN,
             Put(Frame("headers", s, endStream, endHeaders, <<Len(blocks) + 1, 1, s>>))
      PROVE  \E g \in Frames : Sendable(g) /\ Wire' = Wire \o CellsOf(g)
  <2> DEFINE f == Frame("headers", s, endStream, endHeaders, <<Len(blocks) + 1, 1, s>>)
  <2>1. <<Len(blocks) + 1, 1, s>> \in Loads
    BY LoadType DEF TypeOK
  <2>2. f \in Frames
    BY <2>1, FrameType DEF FrameTypes
  <2>3. f.type # "preface" /\ OwnLoad(f)
    BY DEF Frame, OwnLoad, Fragment
  <2> QED
    BY <1>1, <1>2, <2>2, <2>3
<1>3. ASSUME NEW s \in StreamIds, NEW endHeaders \in BOOLEAN,
             SendContinuation(s, endHeaders)
      PROVE  \E g \in Frames : Sendable(g) /\ Wire' = Wire \o CellsOf(g)
  <2> DEFINE n == Len(blocks)
             k == blocks[n].parts + 1
             f == Frame("continuation", s, FALSE, endHeaders, <<n, k, s>>)
  <2>1. n \in Nat /\ blocks # <<>> /\ n \in 1..Len(blocks)
    BY <1>3 DEF SendContinuation, ClientInv, TypeOK
  <2>2. blocks[n] \in [id : StreamIds, parts : 1..MaxParts]
    BY <2>1, ElementOfSeq DEF TypeOK
  <2>3. k \in Nat
    BY <2>2
  <2>4. <<n, k, s>> \in Loads
    BY <2>1, <2>3, LoadType
  <2>5. f \in Frames
    BY <2>4, FrameType DEF FrameTypes
  <2>6. f.type # "preface" /\ OwnLoad(f)
    BY DEF Frame, OwnLoad, Fragment
  <2>7. Put(f)
    BY <1>3 DEF SendContinuation
  <2> QED
    BY <1>1, <2>5, <2>6, <2>7
<1>4. ASSUME NEW s \in StreamIds, NEW endStream \in BOOLEAN, SendData(s, endStream)
      PROVE  \E g \in Frames : Sendable(g) /\ Wire' = Wire \o CellsOf(g)
  <2> DEFINE f == Frame("data", s, endStream, FALSE, <<0, datas[s] + 1, s>>)
  <2>1. datas[s] + 1 \in Nat
    BY Http2Assumption DEF TypeOK
  <2>2. <<0, datas[s] + 1, s>> \in Loads
    BY <2>1, LoadType
  <2>3. f \in Frames
    BY <2>2, FrameType DEF FrameTypes
  <2>4. f.type # "preface" /\ OwnLoad(f)
    BY DEF Frame, OwnLoad, Fragment
  <2>5. Put(f)
    BY <1>4 DEF SendData
  <2> QED
    BY <1>1, <2>3, <2>4, <2>5
<1>5. ASSUME NEW type \in {"rst", "ping", "other", "goaway"},
             NEW s \in StreamIds \cup {0}, Put(Plain(type, s))
      PROVE  \E g \in Frames : Sendable(g) /\ Wire' = Wire \o CellsOf(g)
  <2> DEFINE f == Plain(type, s)
  <2>1. f \in Frames
    BY PlainType DEF FrameTypes
  <2>2. f.type # "preface" /\ OwnLoad(f)
    BY DEF Frame, Plain, OwnLoad, Fragment
  <2> QED
    BY <1>1, <1>5, <2>1, <2>2
<1>6. ASSUME NEW s \in StreamIds, SendReset(s)
      PROVE  \E g \in Frames : Sendable(g) /\ Wire' = Wire \o CellsOf(g)
  BY <1>5, <1>6 DEF SendReset
<1>7. SendPing \/ SendGoAway =>
        \E g \in Frames : Sendable(g) /\ Wire' = Wire \o CellsOf(g)
  BY <1>5 DEF SendPing, SendGoAway
<1>8. ClientClose => Wire' = Wire
  BY <1>0 DEF ClientClose, Wire
<1>9. ASSUME NEW f \in RogueFrames, SendRogue(f)
      PROVE  \E g \in Frames : Sendable(g) /\ Wire' = Wire \o CellsOf(g)
  BY <1>1, <1>9, RogueIsSendable DEF SendRogue, Sendable
<1>10. ASSUME NEW s \in StreamIds, NEW endStream \in BOOLEAN, NEW endHeaders \in BOOLEAN,
              SendHeaders(s, endStream, endHeaders)
       PROVE  \E g \in Frames : Sendable(g) /\ Wire' = Wire \o CellsOf(g)
  BY <1>2, <1>10 DEF SendHeaders
<1>11. ASSUME NEW s \in StreamIds, NEW endHeaders \in BOOLEAN, SendTrailers(s, endHeaders)
       PROVE  \E g \in Frames : Sendable(g) /\ Wire' = Wire \o CellsOf(g)
  BY <1>2, <1>11 DEF SendTrailers
<1> QED
  BY <1>3, <1>4, <1>6, <1>7, <1>8, <1>9, <1>10, <1>11 DEF Client

(* The wire keeps its shape when a frame is appended,                      *)
LEMMA WireInvPut ==
  ASSUME TypeOK, WireInv(Wire), NEW f \in Frames, Sendable(f),
         Wire' = Wire \o CellsOf(f), UNCHANGED prefaceSeen
  PROVE  WireInv(Wire)'
<1>1. Wire \in Seq(Cells)
  BY WireType
<1>2. PICK w \in Seq(Cells) : w = Wire
  BY <1>1
<1>3. Aligned(w) /\ PrefaceInv(w) /\ OwnLoads(w)
  BY <1>2 DEF WireInv
<1>4. PICK v : v = w \o CellsOf(f) /\ Appended(w, f, v)
  BY HeadsPut
<1>5. Wire' = v /\ Aligned(v)
  BY <1>2, <1>3, <1>4, AlignedPut
<1>6. \A k \in Heads(v) : v[k].of = f \/ (k \in Heads(w) /\ v[k] = w[k])
  BY <1>4 DEF Appended
<1>7. \A k \in Heads(v) : OwnLoad(v[k].of)
  BY <1>3, <1>6 DEF OwnLoads, Sendable
<1>8. \A k \in Heads(v) : v[k].of.type = "preface" => k = 1 /\ ~prefaceSeen
  BY <1>3, <1>6 DEF PrefaceInv, Sendable
<1>9. w # <<>> => 1 \in Heads(w) /\ v # <<>>
  <2>1. w # <<>> => 1 \in Heads(w)
    BY <1>3 DEF Aligned, Heads
  <2>2. 1 \in Heads(v) => v # <<>>
    BY DEF Heads
  <2> QED
    BY <2>1, <2>2, <1>4 DEF Appended
<1>10. ~prefaceSeen => v # <<>> /\ v[1].of.type = "preface"
  BY <1>3, <1>4, <1>9 DEF PrefaceInv, Appended
<1> QED
  BY <1>5, <1>7, <1>8, <1>10 DEF WireInv, PrefaceInv, OwnLoads

(* and when its first one is taken away, after the preface.                *)
LEMMA WireInvDrop ==
  ASSUME TypeOK, WireInv(Wire), Wire # <<>>,
         Wire' = Drop(Wire, FrameLen(Wire[1].of)), prefaceSeen'
  PROVE  WireInv(Wire)'
<1>1. Wire \in Seq(Cells) /\ Aligned(Wire) /\ PrefaceInv(Wire) /\ OwnLoads(Wire)
  BY WireType DEF WireInv
<1>2. Aligned(Wire')
  BY <1>1, AlignedDrop
<1>3. \A k \in Heads(Wire') : \E l \in Heads(Wire) : l > 1 /\ Wire'[k] = Wire[l]
  <2>1. PICK n : n = FrameLen(Wire[1].of)
    OBVIOUS
  <2>2. Taken(Wire, n, Drop(Wire, n))
    BY <1>1, <2>1, HeadsDrop
  <2>3. Taken(Wire, n, Wire')
    BY <2>1, <2>2
  <2> QED
    BY <2>3 DEF Taken
<1>4. \A k \in Heads(Wire') : OwnLoad(Wire'[k].of)
  BY <1>1, <1>3 DEF OwnLoads
<1>5. \A k \in Heads(Wire') : Wire'[k].of.type # "preface"
  BY <1>1, <1>3 DEF PrefaceInv
<1> QED
  BY <1>2, <1>4, <1>5 DEF WireInv, PrefaceInv, OwnLoads

(* The frame at the head of the wire.                                      *)
LEMMA HeadFrame ==
  ASSUME TypeOK, WireInv(Wire), Complete
  PROVE  /\ 1 \in Heads(Wire)
         /\ Frm = Wire[1].of
         /\ OwnLoad(Frm)
         /\ rxBuf[1].at = 1
         /\ prefaceSeen => Frm.type # "preface"
<1>1. /\ Wire # <<>> /\ Wire[1] = rxBuf[1] /\ Wire \in Seq(Cells)
      /\ Aligned(Wire) /\ PrefaceInv(Wire) /\ OwnLoads(Wire)
  BY HeadOfWire, WireType DEF WireInv
<1>2. 1 \in Heads(Wire) /\ Wire[1].at = 1
  BY <1>1 DEF Heads, Aligned
<1> QED
  BY <1>1, <1>2 DEF Frm, PrefaceInv, OwnLoads

(* What the server does to the wire.                                       *)
LEMMA ServerWire ==
  ASSUME TypeOK, WireInv(Wire), Server
  PROVE  WireInv(Wire)'
<1>1. ASSUME UNCHANGED <<rxBuf, transit, prefaceSeen>>
      PROVE  WireInv(Wire)'
  BY <1>1 DEF WireInv, PrefaceInv, Wire
<1>2. ASSUME Complete, Consume, UNCHANGED <<transit, prefaceSeen>>, prefaceSeen
      PROVE  WireInv(Wire)'
  BY <1>2, ConsumeWire, HeadOfWire, WireInvDrop
<1>3. CASE Start \/ ReadEnds \/ FeedDone
  BY <1>1, <1>3 DEF Start, ReadEnds, FeedDone, clientVars
<1>4. ASSUME NEW n \in 1..ReadSize, Read(n)
      PROVE  WireInv(Wire)'
  <2>1. n \in Nat
    BY Http2Assumption
  <2>2. Wire' = Wire /\ UNCHANGED prefaceSeen
    BY <1>4, <2>1, ReadWire DEF Read
  <2> QED
    BY <2>2 DEF WireInv, PrefaceInv
<1>5. \A why : Fail(why) => WireInv(Wire)'
  BY <1>1 DEF Fail, clientVars
<1>6. CASE FeedPreface
  <2>1. CASE Fail("protocol")
    BY <1>5, <2>1
  <2>2. CASE prefaceSeen' = TRUE /\ rxBuf' = Drop(rxBuf, PrefaceLen) /\ UNCHANGED transit
    <3>1. /\ rxBuf \in Seq(Cells) /\ transit \in Seq(Cells)
          /\ PrefaceLen \in 0..Len(rxBuf)
          /\ ~prefaceSeen
      BY <1>6, Http2Assumption DEF FeedPreface, TypeOK
    <3>2. Wire' = Drop(Wire, PrefaceLen)
      BY <2>2, <3>1, WireDrop DEF Wire
    <3>3. Wire # <<>> /\ Wire[1].of.type = "preface"
      BY <3>1 DEF WireInv, PrefaceInv
    <3>4. FrameLen(Wire[1].of) = PrefaceLen
      BY <3>3 DEF FrameLen
    <3> QED
      BY <2>2, <3>2, <3>3, <3>4, WireInvDrop
  <2> QED
    BY <1>6, <2>1, <2>2 DEF FeedPreface, clientVars
<1>7. CASE OnSettings \/ OnPing
  BY <1>2, <1>5, <1>7 DEF OnSettings, OnPing, Received, Write, clientVars
<1>8. CASE OnOther \/ OnDataUnknown \/ OnReset
  BY <1>2, <1>8 DEF OnOther, OnDataUnknown, OnReset, Received, clientVars
<1>9. CASE OnGoAway
  BY <1>5, <1>9 DEF OnGoAway
<1>10. CASE OnHeaders
  BY <1>2, <1>5, <1>10 DEF OnHeaders, Received, FinishHeaders, KeepBlock, clientVars
<1>11. CASE OnContinuation
  BY <1>2, <1>5, <1>11 DEF OnContinuation, Received, FinishHeaders, KeepBlock, clientVars
<1>12. CASE OnData
  BY <1>2, <1>5, <1>12 DEF OnData, Received, clientVars
<1> QED
  BY <1>3, <1>4, <1>6, <1>7, <1>8, <1>9, <1>10, <1>11, <1>12 DEF Server, HandleFrame

(* What the handler is given, and what is kept for it, is all of one       *)
(* stream.                                                                 *)
LEMMA AllOfAppend ==
  ASSUME NEW q \in Seq(Loads), NEW x \in Loads, NEW s, AllOf(q, s), x[3] = s
  PROVE  AllOf(Append(q, x), s) /\ AllOf(<<x>>, s) /\ AllOf(<<>>, s)
<1>1. /\ Append(q, x) \in Seq(Loads)
      /\ Len(Append(q, x)) = Len(q) + 1
      /\ \A i \in 1..Len(q) : Append(q, x)[i] = q[i]
      /\ Append(q, x)[Len(q) + 1] = x
  BY AppendProperties
<1>2. \A k \in 1..(Len(q) + 1) : k \in 1..Len(q) \/ k = Len(q) + 1
  OBVIOUS
<1>3. AllOf(Append(q, x), s)
  BY <1>1, <1>2 DEF AllOf
<1> QED
  BY <1>3 DEF AllOf

LEMMA InvokeOwn ==
  ASSUME TypeOK, NoMixing, NEW s \in StreamIds, NEW fields \in Seq(Loads),
         NEW body \in Seq(Loads), AllOf(fields, s), AllOf(body, s),
         Invoke(s, fields, body)
  PROVE  NoMixing'
<1> DEFINE R == [id : StreamIds, fields : Seq(Loads), body : Seq(Loads)]
           r == [id |-> s, fields |-> fields, body |-> body]
<1>1. handled \in Seq(R) /\ r \in R /\ handled' = Append(handled, r)
  BY DEF TypeOK, Invoke
<1>2. r.id = s /\ r.fields = fields /\ r.body = body
  OBVIOUS
<1> HIDE DEF R, r
<1>3. /\ handled' \in Seq(R) /\ Len(handled') = Len(handled) + 1
      /\ \A i \in 1..Len(handled) : handled'[i] = handled[i]
      /\ handled'[Len(handled) + 1] = r
  BY <1>1, AppendProperties
<1>4. ASSUME NEW i \in DOMAIN handled'
      PROVE  /\ \A k \in DOMAIN handled'[i].fields :
                  handled'[i].fields[k][3] = handled'[i].id
             /\ \A k \in DOMAIN handled'[i].body :
                  handled'[i].body[k][3] = handled'[i].id
  <2>1. CASE i \in 1..Len(handled)
    <3>1. i \in DOMAIN handled /\ handled'[i] = handled[i]
      BY <1>1, <1>3, <2>1
    <3> QED
      BY <3>1 DEF NoMixing
  <2>2. CASE i = Len(handled) + 1
    BY <1>2, <1>3, <2>2 DEF AllOf
  <2> QED
    BY <1>1, <1>3, <2>1, <2>2
<1> QED
  BY <1>4 DEF NoMixing

LEMMA FinishOwn ==
  ASSUME TypeOK, OwnParts, NoMixing, NEW s \in StreamIds, NEW block \in Seq(Loads),
         AllOf(block, s), NEW endStream \in BOOLEAN,
         FinishHeaders(s, block, endStream)
  PROVE  OwnParts' /\ NoMixing'
<1>1. CASE Fail("protocol")
  BY <1>1 DEF Fail, OwnParts, NoMixing, blockVars
<1>2. CASE /\ IF endStream
                THEN Invoke(s, block, <<>>) /\ Delete(s)
                ELSE /\ streams' = [streams EXCEPT ![s] =
                                      [fields |-> block, body |-> <<>>]]
                     /\ UNCHANGED <<handled, responses>>
           /\ ResetBlock
  <2>1. AllOf(<<>>, s)
    BY DEF AllOf
  <2>2. AllOf(headersBlock', headersStream')
    BY <1>2 DEF AllOf, ResetBlock
  <2>3. \A t \in StreamIds : t # s => streams'[t] = streams[t]
    BY <1>2 DEF Delete, TypeOK
  <2>4. streams'[s] = None \/ (AllOf(streams'[s].fields, s) /\ AllOf(streams'[s].body, s))
    <3>1. endStream => streams'[s] = None
      BY <1>2 DEF Delete, TypeOK
    <3>2. ~endStream => streams'[s] = [fields |-> block, body |-> <<>>]
      BY <1>2 DEF TypeOK
    <3> QED
      BY <2>1, <3>1, <3>2
  <2>5. OwnParts'
    BY <2>2, <2>3, <2>4 DEF OwnParts
  <2>6. NoMixing'
    <3>1. CASE endStream
      <4>1. <<>> \in Seq(Loads)
        OBVIOUS
      <4> QED
        BY <1>2, <2>1, <3>1, <4>1, InvokeOwn
    <3>2. CASE ~endStream
      BY <1>2, <3>2 DEF NoMixing
    <3> QED
      BY <3>1, <3>2
  <2> QED
    BY <2>5, <2>6
<1> QED
  BY <1>1, <1>2 DEF FinishHeaders

LEMMA ServerOwn ==
  ASSUME TypeOK, WireInv(Wire), OwnParts, NoMixing, Server
  PROVE  OwnParts' /\ NoMixing'
<1>1. ASSUME UNCHANGED <<streams, headersBlock, headersStream, handled>>
      PROVE  OwnParts' /\ NoMixing'
  BY <1>1 DEF OwnParts, NoMixing
<1>2. \A why : Fail(why) => OwnParts' /\ NoMixing'
  BY <1>1 DEF Fail, blockVars
<1>3. CASE Start \/ ReadEnds \/ FeedDone \/ FeedPreface
  BY <1>1, <1>2, <1>3
  DEF Start, ReadEnds, FeedDone, FeedPreface, blockVars, historyVars
<1>4. ASSUME NEW n \in 1..ReadSize, Read(n)
      PROVE  OwnParts' /\ NoMixing'
  BY <1>1, <1>4 DEF Read, blockVars, historyVars
<1>5. CASE OnSettings \/ OnPing
  BY <1>1, <1>2, <1>5 DEF OnSettings, OnPing, Write, blockVars, historyVars
<1>6. CASE OnOther \/ OnDataUnknown
  BY <1>1, <1>6 DEF OnOther, OnDataUnknown, blockVars, historyVars
<1>7. CASE OnReset
  <2>1. \A s \in StreamIds : streams'[s] = None \/ streams'[s] = streams[s]
    BY <1>7 DEF OnReset, Delete, TypeOK
  <2> QED
    BY <1>7, <2>1 DEF OnReset, OwnParts, NoMixing, blockVars, historyVars
<1>8. CASE OnGoAway
  BY <1>2, <1>8 DEF OnGoAway
<1>9. CASE OnHeaders
  <2>1. Complete /\ Frm.type = "headers"
    BY <1>9 DEF OnHeaders, Received, Frm
  <2>2. CASE Fail("protocol")
    BY <1>2, <2>2
  <2>3. CASE ~(Frm.id = 0 \/ Frm.bad)
    <3>1. /\ Frm.id \in StreamIds /\ Frm.load \in Loads
          /\ <<Frm.load>> \in Seq(Loads) /\ Frm.endStream \in BOOLEAN
      BY <2>1, <2>3, FrmType
    <3>2. Frm.load[3] = Frm.id
      BY <2>1, <2>3, HeadFrame DEF OwnLoad, Fragment
    <3>3. AllOf(<<Frm.load>>, Frm.id)
      BY <3>2 DEF AllOf
    <3>4. CASE FinishHeaders(Frm.id, <<Frm.load>>, Frm.endStream)
      BY <3>1, <3>3, <3>4, FinishOwn
    <3>5. CASE KeepBlock(Frm.id, <<Frm.load>>, Frm.endStream)
      BY <3>3, <3>5 DEF KeepBlock, OwnParts, NoMixing, historyVars
    <3> QED
      BY <1>9, <2>3, <3>4, <3>5 DEF OnHeaders
  <2> QED
    BY <1>9, <2>2, <2>3 DEF OnHeaders
<1>10. CASE OnContinuation
  <2> DEFINE block == Append(headersBlock, Frm.load)
  <2>1. Complete /\ Frm.type = "continuation"
    BY <1>10 DEF OnContinuation, Received, Frm
  <2>2. CASE Fail("protocol")
    BY <1>2, <2>2
  <2>3. CASE Belongs(Frm)
    <3>1. /\ headersStream \in StreamIds /\ Frm.load \in Loads
          /\ headersBlock \in Seq(Loads) /\ block \in Seq(Loads)
          /\ Latched(Frm) \in BOOLEAN
      BY <2>1, <2>3, FrmType, LoadsAppend DEF Belongs, Latched, TypeOK
    <3>2. Frm.load[3] = headersStream
      BY <2>1, <2>3, HeadFrame DEF OwnLoad, Fragment, Belongs
    <3>3. AllOf(block, headersStream)
      BY <3>1, <3>2, AllOfAppend DEF OwnParts
    <3>4. CASE FinishHeaders(headersStream, block, Latched(Frm))
      BY <3>1, <3>3, <3>4, FinishOwn
    <3>5. CASE KeepBlock(headersStream, block, Latched(Frm))
      BY <3>3, <3>5 DEF KeepBlock, OwnParts, NoMixing, historyVars
    <3> QED
      BY <1>10, <2>3, <3>4, <3>5 DEF OnContinuation
  <2> QED
    BY <1>10, <2>2, <2>3 DEF OnContinuation
<1>11. CASE OnData
  <2>1. Complete /\ Frm.type = "data" /\ Known(Frm.id)
    BY <1>11 DEF OnData, Received, Frm
  <2>2. CASE Fail("protocol")
    BY <1>2, <2>2
  <2>3. CASE ~Frm.bad
    <3> DEFINE s == Frm.id
               body == AppendBody(streams[s].body, Frm.load)
    <3>1. /\ s \in StreamIds /\ streams[s] # None
          /\ streams[s] \in [fields : Seq(Loads), body : Seq(Loads)]
      BY <2>1 DEF Known, TypeOK
    <3>2. streams[s].fields \in Seq(Loads) /\ streams[s].body \in Seq(Loads)
      BY <3>1
    <3>3. Frm.load \in Loads /\ Frm.load[3] = s
      BY <2>1, <2>3, FrmType, HeadFrame DEF OwnLoad
    <3>4. AllOf(streams[s].fields, s) /\ AllOf(streams[s].body, s)
      BY <3>1 DEF OwnParts
    <3>5. body \in Seq(Loads) /\ AllOf(body, s)
      BY <3>2, <3>3, <3>4, LoadsAppend, AllOfAppend DEF AppendBody
    <3>6. UNCHANGED blockVars
      BY <1>11, <2>3 DEF OnData
    <3>7. CASE Frm.endStream
      <4>1. Invoke(s, streams[s].fields, body) /\ Delete(s)
        BY <1>11, <2>3, <3>7 DEF OnData
      <4>2. NoMixing'
        BY <3>1, <3>2, <3>4, <3>5, <4>1, InvokeOwn
      <4>3. \A t \in StreamIds : streams'[t] = None \/ streams'[t] = streams[t]
        BY <4>1 DEF Delete, TypeOK
      <4> QED
        BY <3>6, <4>2, <4>3 DEF OwnParts, blockVars
    <3>8. CASE ~Frm.endStream
      <4>1. /\ streams' = [streams EXCEPT ![s] = [streams[s] EXCEPT !.body = body]]
            /\ UNCHANGED handled
        BY <1>11, <2>3, <3>8 DEF OnData
      <4>2. \A t \in StreamIds : t # s => streams'[t] = streams[t]
        BY <4>1 DEF TypeOK
      <4>3. streams'[s].fields = streams[s].fields /\ streams'[s].body = body
        BY <3>1, <4>1 DEF TypeOK
      <4> QED
        BY <3>4, <3>5, <3>6, <4>1, <4>2, <4>3 DEF OwnParts, NoMixing, blockVars
    <3> QED
      BY <3>7, <3>8
  <2> QED
    BY <1>11, <2>2, <2>3 DEF OnData
<1> QED
  BY <1>3, <1>4, <1>5, <1>6, <1>7, <1>8, <1>9, <1>10, <1>11 DEF Server, HandleFrame


LEMMA WireOfInit ==
  ASSUME Init
  PROVE  WireInv(Wire)
<1> DEFINE first == [Preface EXCEPT !.bad = (rogue # 0)]
           second == Plain("settings", 0)
<1>1. /\ first \in Frames /\ first.type = "preface"
      /\ second \in Frames /\ second.type = "settings" /\ OwnLoad(second)
      /\ OwnLoad(first)
  <2>1. Preface \in Frames /\ Preface.type = "preface" /\ second \in Frames
    BY PlainType DEF Preface, Plain, Frame, FrameTypes
  <2>2. (rogue # 0) \in BOOLEAN
    OBVIOUS
  <2>3. first \in Frames /\ first.type = "preface"
    BY <2>1, <2>2 DEF Frames
  <2>4. second.type = "settings"
    BY DEF Plain, Frame
  <2> QED
    BY <2>1, <2>3, <2>4 DEF OwnLoad, Fragment
<1>2. transit = CellsOf(first) \o CellsOf(second) /\ rxBuf = <<>> /\ ~prefaceSeen
  BY DEF Init
<1> HIDE DEF first, second
<1>3. PICK e \in Seq(Cells) : e = <<>> /\ Heads(e) = {} /\ Aligned(e)
  <2>1. <<>> \in Seq(Cells) /\ DOMAIN <<>> = {}
    OBVIOUS
  <2>2. Heads(<<>>) = {} /\ Aligned(<<>>)
    BY <2>1 DEF Heads, Aligned
  <2> QED
    BY <2>1, <2>2
<1>4. PICK w \in Seq(Cells) : w = CellsOf(first)
  BY <1>1, CellsFacts
<1>5. e \o w = w
  BY <1>3, ConcatEmptySeq
<1>6. Appended(e, first, w) /\ Aligned(w)
  BY <1>1, <1>3, <1>4, <1>5, HeadsPut, AlignedPut
<1>7. Heads(w) = {1} /\ w[1].of = first
  <2>1. Len(e) + 1 = 1
    BY <1>3
  <2> QED
    BY <1>3, <1>6, <2>1 DEF Appended
<1>8. PICK v \in Seq(Cells) : v = w \o CellsOf(second) /\ Appended(w, second, v) /\ Aligned(v)
  BY <1>1, <1>6, HeadsPut, AlignedPut DEF Appended
<1>9. Wire = v
  BY <1>2, <1>4, <1>8, ConcatEmptySeq DEF Wire
<1>10. /\ v[1].of = first /\ v # <<>>
       /\ \A k \in Heads(v) : k = 1 \/ v[k].of = second
  <2>1. 1 \in Heads(v) /\ v[1] = w[1]
    BY <1>7, <1>8 DEF Appended
  <2>2. v # <<>>
    BY <2>1 DEF Heads
  <2> QED
    BY <1>7, <1>8, <2>1, <2>2 DEF Appended
<1>11. OwnLoads(v)
  BY <1>1, <1>10 DEF OwnLoads
<1>12. PrefaceInv(v)
  BY <1>1, <1>2, <1>10 DEF PrefaceInv
<1> QED
  BY <1>8, <1>9, <1>11, <1>12 DEF WireInv

LEMMA InitInv == Init => IInv
<1> SUFFICES ASSUME Init PROVE IInv
  OBVIOUS
<1>1. TypeOK
  <2>1. /\ MaxData \in Nat /\ MaxPings \in Nat /\ MaxRogue \in Nat
    BY Http2Assumption
  <2>2. transit \in Seq(Cells)
    <3>1. /\ [Preface EXCEPT !.bad = (rogue # 0)] \in Frames
          /\ Plain("settings", 0) \in Frames
      <4>1. Preface \in Frames /\ Plain("settings", 0) \in Frames
        BY PlainType DEF Preface, FrameTypes
      <4>2. (rogue # 0) \in BOOLEAN
        OBVIOUS
      <4> QED
        BY <4>1, <4>2 DEF Frames
    <3> QED
      BY <3>1, CellsFacts, ConcatProperties DEF Init
  <2>3. /\ blocks \in Seq([id : StreamIds, parts : 1..MaxParts])
        /\ rxBuf \in Seq(Cells)
        /\ headersBlock \in Seq(Loads)
        /\ handled \in Seq([id : StreamIds, fields : Seq(Loads), body : Seq(Loads)])
    BY DEF Init
  <2>4. /\ client \in [StreamIds ->
             {"idle", "block", "open", "trailers", "ended", "reset"}]
        /\ datas \in [StreamIds -> 0..MaxData]
        /\ streams \in [StreamIds -> [fields : Seq(Loads), body : Seq(Loads)] \cup {None}]
    BY <2>1 DEF Init
  <2>5. pings \in 0..MaxPings /\ rogue \in 0..MaxRogue
    BY <2>1 DEF Init
  <2> QED
    BY <2>2, <2>3, <2>4, <2>5 DEF Init, TypeOK
<1>2. ClientInv
  BY DEF Init, ClientInv, InBlock
<1>3. OwnParts /\ NoMixing
  BY DEF Init, OwnParts, NoMixing, AllOf
<1> QED
  BY <1>1, <1>2, <1>3, WireOfInit DEF Init, IInv, CaughtUp

(* feed stops short of a frame only.                                       *)
LEMMA ServerCaughtUp ==
  ASSUME IInv, Server
  PROVE  CaughtUp' /\ (pc' = "start" => rxBuf' = <<>>)
<1>0. TypeOK /\ WireInv(Wire) /\ CaughtUp /\ (pc = "start" => rxBuf = <<>>)
  BY DEF IInv
<1>1. ASSUME pc' \in {"feed", "closed"} PROVE CaughtUp' /\ (pc' = "start" => rxBuf' = <<>>)
  BY <1>1 DEF CaughtUp
<1>2. CASE Start
  BY <1>0, <1>2 DEF Start, CaughtUp
<1>3. ASSUME NEW n \in 1..ReadSize, Read(n)
      PROVE  CaughtUp' /\ (pc' = "start" => rxBuf' = <<>>)
  BY <1>1, <1>3 DEF Read
<1>4. CASE ReadEnds \/ FeedPreface
  BY <1>1, <1>4 DEF ReadEnds, FeedPreface, Fail
<1>5. CASE HandleFrame
  <2>1. pc = "feed"
    BY <1>5 DEF HandleFrame, OnSettings, OnPing, OnOther, OnReset, OnGoAway, OnHeaders,
         OnContinuation, OnDataUnknown, OnData, Received
  <2>2. pc' = pc \/ pc' = "closed"
    BY <1>5 DEF HandleFrame, OnSettings, OnPing, OnOther, OnReset, OnGoAway, OnHeaders,
         OnContinuation, OnDataUnknown, OnData, Write, Fail, FinishHeaders, KeepBlock
  <2> QED
    BY <1>1, <2>1, <2>2
<1>6. CASE FeedDone
  <2>1. rxBuf' = rxBuf /\ pc' # "start"
    BY <1>6 DEF FeedDone
  <2>2. SUFFICES ASSUME rxBuf # <<>>
                 PROVE  rxBuf[1].at = 1 /\ Len(rxBuf) < FrameLen(rxBuf[1].of)
    BY <2>1 DEF CaughtUp
  <2>3. /\ rxBuf \in Seq(Cells) /\ transit \in Seq(Cells) /\ Wire \in Seq(Cells)
        /\ 1 \in 1..Len(rxBuf)
    BY <1>0, <2>2, WireType DEF TypeOK
  <2>4. Wire[1] = rxBuf[1] /\ Wire # <<>>
    <3>1. /\ Len(Wire) = Len(rxBuf) + Len(transit)
          /\ \A i \in 1..Len(rxBuf) : Wire[i] = rxBuf[i]
      BY <2>3, ConcatProperties DEF Wire
    <3> QED
      BY <2>3, <3>1
  <2>5. rxBuf[1].at = 1
    BY <1>0, <2>4 DEF WireInv, Aligned
  <2>6. CASE ~prefaceSeen
    <3>1. rxBuf[1].of.type = "preface" /\ Len(rxBuf) < PrefaceLen
      BY <1>0, <1>6, <2>4, <2>6 DEF WireInv, PrefaceInv, FeedDone
    <3> QED
      BY <2>5, <3>1 DEF FrameLen
  <2>7. CASE prefaceSeen
    <3>1. 1 \in Heads(Wire)
      BY <2>3, <2>4, <2>5 DEF Heads
    <3>2. rxBuf[1].of.type # "preface"
      BY <1>0, <2>4, <2>7, <3>1 DEF WireInv, PrefaceInv
    <3>3. FrameLen(rxBuf[1].of) \in Nat /\ FrameLen(rxBuf[1].of) >= FrameHeader
      BY <3>2, Http2Assumption DEF FrameLen
    <3>4. ~Complete
      BY <1>6, <2>7 DEF FeedDone
    <3> QED
      BY <2>3, <2>5, <3>3, <3>4, Http2Assumption DEF Complete
  <2> QED
    BY <2>6, <2>7
<1> QED
  BY <1>2, <1>3, <1>4, <1>5, <1>6 DEF Server

LEMMA ServerFrame ==
  ASSUME Server
  PROVE  UNCHANGED <<client, blocks, datas, ending, pings, rogue, gone>>
BY DEF Server, Start, Read, ReadEnds, FeedPreface, FeedDone, HandleFrame, OnSettings,
   OnPing, OnOther, OnReset, OnGoAway, OnHeaders, OnContinuation, OnDataUnknown,
   OnData, Write, Fail, FinishHeaders, KeepBlock, clientVars

LEMMA NextInv == IInv /\ [Next]_vars => IInv'
<1> SUFFICES ASSUME IInv, [Next]_vars PROVE IInv'
  OBVIOUS
<1>0. TypeOK /\ ClientInv /\ WireInv(Wire) /\ OwnParts /\ NoMixing
  BY DEF IInv
<1>1. CASE Client /\ UNCHANGED serverVars
  <2>1. TypeOK' /\ ClientInv'
    BY <1>0, <1>1, ClientType
  <2>2. UNCHANGED <<rxBuf, prefaceSeen, streams, headersStream, headersBlock, pc, handled>>
    BY <1>1 DEF serverVars, blockVars, historyVars
  <2>3. WireInv(Wire)'
    <3>1. CASE Wire' = Wire
      BY <1>0, <2>2, <3>1 DEF WireInv, PrefaceInv
    <3> QED
      BY <1>0, <1>1, <2>2, <3>1, ClientWire, WireInvPut
  <2>4. OwnParts' /\ NoMixing' /\ CaughtUp' /\ (pc' = "start" => rxBuf' = <<>>)
    BY <2>2 DEF IInv, OwnParts, NoMixing, CaughtUp
  <2> QED
    BY <2>1, <2>3, <2>4 DEF IInv
<1>2. CASE Server
  <2>1. ClientInv'
    BY <1>0, <1>2, ServerFrame DEF ClientInv, InBlock
  <2> QED
    BY <1>0, <1>2, <2>1, ServerType, ServerWire, ServerOwn, ServerCaughtUp DEF IInv
<1>3. CASE UNCHANGED vars
  <2>1. TypeOK' /\ ClientInv'
    BY <1>0, <1>3 DEF vars, TypeOK, ClientInv, InBlock
  <2>2. WireInv(Wire)'
    BY <1>0, <1>3 DEF vars, WireInv, PrefaceInv, Wire
  <2>3. OwnParts' /\ NoMixing' /\ CaughtUp' /\ (pc' = "start" => rxBuf' = <<>>)
    BY <1>3 DEF vars, IInv, OwnParts, NoMixing, CaughtUp
  <2> QED
    BY <2>1, <2>2, <2>3 DEF IInv
<1> QED
  BY <1>1, <1>2, <1>3 DEF Next, Closed, serverVars

(* Every variable keeps to its type: frames are frames wherever the stream *)
(* cuts them, and no header block outlives its stream.                     *)
THEOREM Http2TypeCorrect == Spec => []TypeOK
<1>1. IInv => TypeOK
  BY DEF IInv
<1> QED
  BY InitInv, NextInv, <1>1, PTL DEF Spec

(* Nothing of one stream's headers or body gets into another's request,    *)
(* whatever the client sends and however the stream is cut: onHeaders,     *)
(* onContinuation and onData of http2.go keep the streams apart.           *)
THEOREM StreamsNeverMix == Spec => []NoMixing
<1>1. IInv => NoMixing
  BY DEF IInv
<1> QED
  BY InitInv, NextInv, <1>1, PTL DEF Spec

(* Before it waits for more bytes feed has handled every frame it has: it  *)
(* never loses its place in the byte stream.                               *)
THEOREM FeedCatchesUp == Spec => []CaughtUp
<1>1. IInv => CaughtUp
  BY DEF IInv
<1> QED
  BY InitInv, NextInv, <1>1, PTL DEF Spec

--------------------------------------------------------------------------------
(***************************************************************************)
(* Clients that keep to the protocol                                       *)
(***************************************************************************)

LEMMA BlocksType ==
  ASSUME TypeOK
  PROVE  /\ Len(blocks) \in Nat /\ DOMAIN blocks = 1..Len(blocks)
         /\ \A n \in 1..Len(blocks) :
              /\ blocks[n].id \in StreamIds
              /\ blocks[n].parts \in Nat \ {0}
         /\ headersBlock \in Seq(Loads) /\ Len(headersBlock) \in Nat
         /\ decoded \in Nat
         /\ 0 \notin StreamIds
<1>1. blocks \in Seq([id : StreamIds, parts : 1..MaxParts])
  BY DEF TypeOK
<1>2. \A n \in 1..Len(blocks) : blocks[n] \in [id : StreamIds, parts : 1..MaxParts]
  BY <1>1, ElementOfSeq
<1>3. \A n \in 1..Len(blocks) : blocks[n].id \in StreamIds /\ blocks[n].parts \in Nat \ {0}
  BY <1>2, Http2Assumption
<1>4. headersBlock \in Seq(Loads) /\ Len(headersBlock) \in Nat /\ decoded \in Nat
  BY DEF TypeOK
<1> QED
  BY <1>1, <1>3, <1>4, Http2Assumption

(* A client begins a header block, or goes on with its last one.           *)
LEMMA NewBlock ==
  ASSUME TypeOK, NEW s \in StreamIds, blocks' = Append(blocks, [id |-> s, parts |-> 1]),
         NEW n, n = Len(blocks) + 1
  PROVE  /\ Len(blocks') = n /\ DOMAIN blocks' = 1..n
         /\ blocks'[n].id = s /\ blocks'[n].parts = 1
         /\ \A m \in 1..Len(blocks) : blocks'[m] = blocks[m]
<1> DEFINE B == [id : StreamIds, parts : 1..MaxParts]
           b == [id |-> s, parts |-> 1]
<1>1. blocks \in Seq(B) /\ b \in B /\ blocks' = Append(blocks, b)
  <2>1. 1 \in 1..MaxParts
    BY Http2Assumption
  <2>2. b \in B
    BY <2>1
  <2> QED
    BY <2>2 DEF TypeOK
<1>2. b.id = s /\ b.parts = 1
  OBVIOUS
<1> HIDE DEF B, b
<1>3. /\ blocks' \in Seq(B)
      /\ Len(blocks') = Len(blocks) + 1
      /\ \A i \in 1..Len(blocks) : blocks'[i] = blocks[i]
      /\ blocks'[Len(blocks) + 1] = b
  BY <1>1, AppendProperties
<1>4. DOMAIN blocks' = 1..Len(blocks')
  BY <1>3
<1> QED
  BY <1>2, <1>3, <1>4

LEMMA GrownBlock ==
  ASSUME TypeOK, NEW n, n = Len(blocks), blocks # <<>>,
         NEW k, blocks' = [blocks EXCEPT ![n].parts = k]
  PROVE  /\ Len(blocks') = n /\ DOMAIN blocks' = 1..n
         /\ blocks'[n].parts = k
         /\ \A m \in 1..n : m # n => blocks'[m] = blocks[m]
         /\ \A m \in 1..n : blocks'[m].id = blocks[m].id
<1>0. /\ DOMAIN blocks = 1..n /\ n \in 1..n
      /\ blocks \in Seq([id : StreamIds, parts : 1..MaxParts])
  BY BlocksType DEF TypeOK
<1>1. blocks' = [blocks EXCEPT ![n] = [blocks[n] EXCEPT !.parts = k]]
  OBVIOUS
<1>2. /\ DOMAIN blocks' = 1..n
      /\ blocks'[n] = [blocks[n] EXCEPT !.parts = k]
      /\ \A m \in 1..n : m # n => blocks'[m] = blocks[m]
  BY <1>0, <1>1
<1>3. blocks[n] \in [id : StreamIds, parts : 1..MaxParts]
  BY <1>0, ElementOfSeq
<1>4. blocks'[n].id = blocks[n].id /\ blocks'[n].parts = k
  BY <1>2, <1>3
<1>5. Len(blocks') = n
  BY <1>0, <1>1, ExceptSeq, LenProperties
<1> QED
  BY <1>2, <1>4, <1>5

(* The fragment at the head of the wire is the next one due.               *)
LEMMA NextFragment ==
  ASSUME TypeOK, AllLawful(Wire), AllDue(Wire), InOrder(Wire), BlockState,
         NEW f, f = Wire[1].of, 1 \in Heads(Wire), Fragment(f)
  PROVE  /\ decoded < Len(blocks)
         /\ f.load = <<decoded + 1, Len(headersBlock) + 1, f.id>>
         /\ LawfulPart(f, decoded + 1, Len(headersBlock) + 1)
         /\ headersBlock # <<>> => headersStream = f.id
<1>n. PICK n, p, q : n = f.load[1] /\ p = f.load[2] /\ q = Len(headersBlock) + 1
  OBVIOUS
<1>0. /\ Len(blocks) \in Nat /\ DOMAIN blocks = 1..Len(blocks)
      /\ decoded \in Nat /\ Len(headersBlock) \in Nat
      /\ \A m \in 1..Len(blocks) : blocks[m].parts \in Nat \ {0}
      /\ headersBlock = <<>> <=> Len(headersBlock) = 0
      /\ headersStream = 0 => headersBlock = <<>>
  BY BlocksType DEF TypeOK
<1>1. LawfulPart(f, n, p)
  BY <1>n DEF AllLawful, Lawful
<1>2. /\ f.load = <<n, p, f.id>> /\ n \in 1..Len(blocks) /\ p \in 1..blocks[n].parts
      /\ n > decoded /\ (n = decoded + 1 => p >= q)
      /\ n \in Nat /\ p \in Nat /\ q \in Nat \ {0} /\ q - 1 = Len(headersBlock)
  <2>1. q \in Nat \ {0} /\ q - 1 = Len(headersBlock)
    BY <1>n, <1>0
  <2>2. /\ f.load = <<n, p, f.id>> /\ n \in 1..Len(blocks) /\ p \in 1..blocks[n].parts
        /\ n > decoded /\ (n = decoded + 1 => p > Len(headersBlock))
    BY <1>n, <1>0, <1>1 DEF LawfulPart, Due
  <2>3. n \in Nat /\ p \in Nat
    BY <2>2
  <2> QED
    BY <1>n, <1>0, <2>1, <2>2, <2>3
<1>3. decoded + 1 \in 1..Len(blocks)
  <2>1. decoded + 1 <= n /\ n <= Len(blocks)
    BY <1>0, <1>2
  <2> QED
    BY <1>0, <1>2, <2>1
<1>4. \A m \in Nat, r \in Nat : Due(m, r) => (m = n /\ r = p) \/ n < m \/ (n = m /\ p < r)
  <2>1. SUFFICES ASSUME NEW m \in Nat, NEW r \in Nat, Due(m, r)
                 PROVE  (m = n /\ r = p) \/ n < m \/ (n = m /\ p < r)
    OBVIOUS
  <2>2. PICK k \in Heads(Wire) : Carries(Wire[k].of, m, r)
    BY <2>1 DEF AllDue
  <2>3. Wire[k].of.load[1] = m /\ Wire[k].of.load[2] = r /\ Fragment(Wire[k].of)
    BY <2>2 DEF Carries
  <2>4. CASE k = 1
    BY <1>n, <2>3, <2>4
  <2>5. CASE 1 < k
    BY <1>n, <2>3, <2>5 DEF InOrder, Before
  <2>6. k \in Nat /\ k >= 1
    BY WireType DEF Heads
  <2> QED
    BY <2>4, <2>5, <2>6
<1>5. CASE q \in 1..blocks[decoded + 1].parts
  <2>1. Due(decoded + 1, q)
    BY <1>0, <1>2, <1>3, <1>5 DEF Due
  <2>2. decoded + 1 \in Nat /\ q \in Nat
    BY <1>0, <1>2
  <2>3. n = decoded + 1 /\ p = q
    <3>1. (decoded + 1 = n /\ q = p) \/ n < decoded + 1 \/ (n = decoded + 1 /\ p < q)
      BY <1>4, <2>1, <2>2
    <3> QED
      BY <1>0, <1>2, <3>1
  <2>4. headersBlock # <<>> => headersStream = f.id
    BY <1>0, <1>1, <2>3 DEF LawfulPart, BlockState
  <2>5. decoded < Len(blocks)
    BY <1>0, <1>3
  <2> QED
    BY <1>n, <1>1, <1>2, <2>3, <2>4, <2>5
<1>6. CASE q \notin 1..blocks[decoded + 1].parts
  <2>0. PICK e \in Nat \ {0} : e = blocks[decoded + 1].parts
    BY <1>0, <1>3
  <2>7. q > e
    BY <1>2, <1>6, <2>0
  <2>1. headersBlock # <<>> /\ headersStream # 0
    BY <1>0, <1>2, <2>7
  <2>2. /\ Len(headersBlock) <= blocks[decoded + 1].parts
        /\ Len(headersBlock) = blocks[decoded + 1].parts => Open(decoded + 1)
    BY <2>1 DEF BlockState
  <2>3. Len(headersBlock) = blocks[decoded + 1].parts /\ Open(decoded + 1)
    <3>1. Len(headersBlock) = e
      <4>1. Len(headersBlock) \in Nat /\ q \in Nat /\ q - 1 = Len(headersBlock)
        BY <1>0, <1>2
      <4>2. Len(headersBlock) <= e
        BY <2>0, <2>2
      <4> QED
        BY ONLY <4>1, <4>2, <2>7, e \in Nat \ {0}
    <3> QED
      BY <2>0, <2>2, <3>1
  <2>4. n = decoded + 1
    <3>1. decoded + 1 = Len(blocks)
      BY <2>3 DEF Open
    <3>2. n \in Nat /\ n <= Len(blocks) /\ n > decoded
      BY <1>2
    <3> QED
      BY <1>0, <3>1, <3>2
  <2>5. FALSE
    BY <1>0, <1>2, <1>6, <2>4
  <2> QED
    BY <2>5
<1> QED
  BY <1>5, <1>6

(* A step that leaves blocks and header blocks alone keeps what was said   *)
(* of any one frame.                                                       *)
blockState == <<blocks, decoded, headersBlock, headersStream>>

LEMMA SameBlocks ==
  ASSUME UNCHANGED blockState, InBlock' = InBlock
  PROVE  /\ \A n : Open(n)' <=> Open(n)
         /\ \A n, p : Due(n, p)' <=> Due(n, p)
         /\ \A f : Lawful(f)' <=> Lawful(f)
         /\ BlockState => BlockState'
<1> USE DEF blockState
<1>1. \A n : Open(n)' <=> Open(n)
  BY DEF Open
<1>2. \A n, p : Due(n, p)' <=> Due(n, p)
  BY DEF Due
<1>3. \A f, n, p : LawfulPart(f, n, p)' <=> LawfulPart(f, n, p)
  BY <1>1, <1>2 DEF LawfulPart
<1>4. \A f : Lawful(f)' <=> Lawful(f)
  BY <1>3 DEF Lawful
<1>5. BlockState => BlockState'
  BY <1>1 DEF BlockState
<1> QED
  BY <1>1, <1>2, <1>4, <1>5

(* The part still due is under way in v, and nothing else of the blocks.   *)
NoneBut(f) == \A n \in Nat : \A p \in Nat : Due(n, p)' => Due(n, p) \/ Carries(f, n, p)
AllStillLawful(w) == \A k \in Heads(w) : Lawful(w[k].of)'
StillInvOf(v) ==
  /\ \A k \in Heads(v) : Lawful(v[k].of)'
  /\ \A n \in Nat : \A p \in Nat :
       Due(n, p)' => \E k \in Heads(v) : Carries(v[k].of, n, p)
  /\ InOrder(v)
AllBefore(w, f) == \A k \in Heads(w) : Fragment(w[k].of) /\ Fragment(f) => Before(w[k].of, f)

(* Another frame goes under way: the ones before it have their places, it  *)
(* is lawful, it carries what is due newly.                                *)
LEMMA PutBlocks ==
  ASSUME NEW w \in Seq(Cells), NEW f, NEW v, Appended(w, f, v),
         AllLawful(w), AllDue(w), InOrder(w),
         AllStillLawful(w), Lawful(f)', NoneBut(f), AllBefore(w, f)
  PROVE  StillInvOf(v)
<1>1. /\ Heads(v) = Heads(w) \cup {Len(w) + 1}
      /\ \A k \in Heads(w) : k \in Nat /\ k < Len(w) + 1 /\ v[k] = w[k]
      /\ v[Len(w) + 1].of = f
      /\ Len(w) \in Nat
  BY DEF Appended
<1>2. \A k \in Heads(v) : Lawful(v[k].of)'
  BY <1>1 DEF AllStillLawful
<1>3. ASSUME NEW n \in Nat, NEW p \in Nat, Due(n, p)'
      PROVE  \E k \in Heads(v) : Carries(v[k].of, n, p)
  <2>1. CASE Due(n, p)
    <3>1. PICK k \in Heads(w) : Carries(w[k].of, n, p)
      BY <2>1 DEF AllDue
    <3> QED
      BY <1>1, <3>1
  <2>2. CASE Carries(f, n, p)
    BY <1>1, <2>2
  <2> QED
    BY <1>3, <2>1, <2>2 DEF NoneBut
<1>4. ASSUME NEW j \in Heads(v), NEW k \in Heads(v), j < k,
             Fragment(v[j].of), Fragment(v[k].of)
      PROVE  Before(v[j].of, v[k].of)
  <2>1. CASE k \in Heads(w)
    <3>1. j \in Heads(w)
      BY <1>1, <1>4, <2>1
    <3> QED
      BY <1>1, <1>4, <2>1, <3>1 DEF InOrder
  <2>2. CASE k = Len(w) + 1
    <3>1. j \in Heads(w)
      BY <1>1, <1>4, <2>2
    <3> QED
      BY <1>1, <1>4, <2>2, <3>1 DEF AllBefore
  <2> QED
    BY <1>1, <2>1, <2>2
<1> QED
  BY <1>2, <1>3, <1>4 DEF InOrder, StillInvOf

NoneOf(f) == \A n \in Nat : \A p \in Nat : Due(n, p)' => Due(n, p) /\ ~Carries(f, n, p)
OthersStillLawful(w) == \A k \in Heads(w) : k > 1 => Lawful(w[k].of)'

(* The first frame is handled: the ones behind it are still lawful, and it *)
(* did not carry what is still due.                                        *)
LEMMA TakeBlocks ==
  ASSUME NEW w \in Seq(Cells), NEW n, NEW v, Taken(w, n, v),
         AllLawful(w), AllDue(w), InOrder(w),
         OthersStillLawful(w), NoneOf(w[1].of)
  PROVE  StillInvOf(v)
<1>1. \A k \in Heads(v) : Lawful(v[k].of)'
  BY DEF Taken, OthersStillLawful
<1>2. ASSUME NEW m \in Nat, NEW p \in Nat, Due(m, p)'
      PROVE  \E k \in Heads(v) : Carries(v[k].of, m, p)
  <2>1. PICK k \in Heads(w) : Carries(w[k].of, m, p)
    BY <1>2 DEF AllDue, NoneOf
  <2>2. k # 1
    BY <1>2, <2>1 DEF NoneOf
  <2> QED
    BY <2>1, <2>2 DEF Taken
<1>3. ASSUME NEW j \in Heads(v), NEW k \in Heads(v), j < k,
             Fragment(v[j].of), Fragment(v[k].of)
      PROVE  Before(v[j].of, v[k].of)
  <2>1. /\ n + j \in Heads(w) /\ n + k \in Heads(w) /\ n + j < n + k
        /\ v[j] = w[n + j] /\ v[k] = w[n + k]
    BY <1>3 DEF Taken
  <2> QED
    BY <1>3, <2>1 DEF InOrder
<1> QED
  BY <1>1, <1>2, <1>3 DEF InOrder, StillInvOf

LEMMA PutInv ==
  ASSUME TypeOK, BlockInv(Wire), rogue = 0,
         NEW f \in Frames, Wire' = Wire \o CellsOf(f), UNCHANGED failure,
         \A g : Lawful(g) => Lawful(g)',
         Lawful(f)',
         NoneBut(f),
         \A g : Lawful(g) /\ Fragment(g) /\ Fragment(f) => Before(g, f),
         BlockState'
  PROVE  BlockInv(Wire)'
<1>1. PICK w \in Seq(Cells) : w = Wire
  BY WireType
<1>2. AllLawful(w) /\ AllDue(w) /\ InOrder(w) /\ failure # "protocol"
  BY <1>1 DEF BlockInv
<1>3. PICK v : v = w \o CellsOf(f) /\ Appended(w, f, v)
  BY HeadsPut
<1>4. AllStillLawful(w) /\ AllBefore(w, f)
  BY <1>2 DEF AllLawful, AllStillLawful, AllBefore
<1>5. StillInvOf(v)
  BY <1>2, <1>3, <1>4, PutBlocks
<1>6. Wire' = v
  BY <1>1, <1>3
<1>7. AllLawful(Wire)'
  BY <1>5, <1>6 DEF AllLawful, StillInvOf
<1>8. AllDue(Wire)'
  BY <1>5, <1>6 DEF AllDue, StillInvOf
<1>9. InOrder(Wire)'
  BY <1>5, <1>6 DEF InOrder, StillInvOf
<1> QED
  BY <1>2, <1>7, <1>8, <1>9 DEF BlockInv

(* A frame of another type than HEADERS or CONTINUATION.                   *)
LEMMA PutOther ==
  ASSUME TypeOK, BlockInv(Wire), rogue = 0,
         NEW f \in Frames, Wire' = Wire \o CellsOf(f), UNCHANGED failure,
         ~Fragment(f), f.type # "preface", ~f.bad,
         UNCHANGED blockState, InBlock' = InBlock
  PROVE  BlockInv(Wire)'
<1>1. Lawful(f)'
  BY DEF Lawful, Fragment
<1>2. BlockState
  BY DEF BlockInv
<1>3. NoneBut(f)
  BY SameBlocks DEF NoneBut
<1> QED
  BY <1>1, <1>2, <1>3, SameBlocks, PutInv

(* The first fragment of a block.                                          *)
LEMMA PutFirst ==
  ASSUME TypeOK, BlockInv(Wire), rogue = 0, InBlock = {},
         NEW s \in StreamIds, NEW endStream \in BOOLEAN, NEW endHeaders \in BOOLEAN,
         NEW f \in Frames,
         f = Frame("headers", s, endStream, endHeaders, <<Len(blocks) + 1, 1, s>>),
         Wire' = Wire \o CellsOf(f), UNCHANGED failure,
         blocks' = Append(blocks, [id |-> s, parts |-> 1]),
         UNCHANGED <<decoded, headersBlock, headersStream>>,
         InBlock' # {} <=> ~endHeaders
  PROVE  BlockInv(Wire)'
<1>0. /\ Len(blocks) \in Nat /\ DOMAIN blocks = 1..Len(blocks)
      /\ \A n \in 1..Len(blocks) : blocks[n].parts \in Nat \ {0}
      /\ headersBlock \in Seq(Loads) /\ Len(headersBlock) \in Nat
      /\ decoded \in Nat
      /\ headersStream = 0 => headersBlock = <<>>
  BY BlocksType DEF TypeOK
<1>1. PICK n \in Nat \ {0} : n = Len(blocks) + 1
  BY <1>0
<1>2. /\ Len(blocks') = n /\ DOMAIN blocks' = 1..n
      /\ blocks'[n].id = s /\ blocks'[n].parts = 1
      /\ \A m \in 1..Len(blocks) : blocks'[m] = blocks[m]
  BY <1>1, NewBlock
<1>3. BlockState
  BY DEF BlockInv
<1>4. \A m \in 1..Len(blocks) : m # n /\ m \in 1..n /\ m < n
  BY <1>0, <1>1
<1>5. /\ \A m : ~Open(m)
      /\ \A m \in 1..Len(blocks) : ~Open(m)'
      /\ Open(n)' <=> ~endHeaders
  BY <1>2, <1>4 DEF Open
<1>6. \A m \in 1..Len(blocks) : \A p : Due(m, p)' <=> Due(m, p)
  BY <1>0, <1>2, <1>4 DEF Due
<1>7. \A m, p : Due(m, p)' => m \in 1..Len(blocks) \/ (m = n /\ p = 1)
  <2>1. \A m \in 1..n : m \in 1..Len(blocks) \/ m = n
    BY <1>0, <1>1
  <2>2. \A p \in 1..1 : p = 1
    OBVIOUS
  <2> QED
    BY <1>2, <2>1, <2>2 DEF Due
<1>8. Due(n, 1)'
  <2>1. n > decoded /\ (n = decoded + 1 => decoded = Len(blocks))
    <3>1. decoded <= Len(blocks)
      BY <1>3 DEF BlockState
    <3>2. decoded \in Nat /\ Len(blocks) \in Nat /\ n = Len(blocks) + 1
      BY <1>0, <1>1
    <3> QED
      BY ONLY <3>1, <3>2
  <2>2. decoded = Len(blocks) => headersStream = 0
    BY <1>0, <1>3 DEF BlockState
  <2>3. n = decoded + 1 => 1 > Len(headersBlock)
    <3>1. headersBlock = <<>> => Len(headersBlock) = 0
      OBVIOUS
    <3> QED
      BY <1>0, <2>1, <2>2, <3>1
  <2>4. n \in 1..n /\ 1 \in 1..1
    OBVIOUS
  <2> QED
    BY <1>2, <2>1, <2>3, <2>4 DEF Due
<1>9. ASSUME NEW g, Lawful(g)
      PROVE  Lawful(g)' /\ (Fragment(g) => Before(g, f))
  <2>1. CASE Fragment(g)
    <3>1. PICK m, p : m = g.load[1] /\ p = g.load[2] /\ LawfulPart(g, m, p)
      BY <1>9, <2>1 DEF Lawful
    <3>2. m \in 1..Len(blocks)
      BY <1>0, <3>1 DEF LawfulPart, Due
    <3>3. LawfulPart(g, m, p)'
      BY <1>2, <1>5, <1>6, <3>1, <3>2 DEF LawfulPart
    <3>4. f.load[1] = n
      BY <1>1 DEF Frame
    <3>5. Before(g, f)
      BY <1>4, <3>1, <3>2, <3>4 DEF Before
    <3> QED
      BY <1>9, <3>1, <3>3, <3>5 DEF Lawful
  <2>2. CASE ~Fragment(g)
    BY <1>9, <2>2 DEF Lawful
  <2> QED
    BY <2>1, <2>2
<1>10. /\ f.type = "headers" /\ f.id = s /\ f.endHeaders = endHeaders /\ ~f.bad
       /\ f.load = <<n, 1, s>> /\ f.load[1] = n /\ f.load[2] = 1
  BY <1>1 DEF Frame
<1>11. Lawful(f)'
  <2>1. LawfulPart(f, n, 1)'
    BY <1>2, <1>5, <1>8, <1>10 DEF LawfulPart
  <2> QED
    BY <1>10, <2>1 DEF Lawful
<1>12. NoneBut(f)
  BY <1>6, <1>7, <1>10 DEF NoneBut, Carries, Fragment
<1>13. BlockState'
  <2>1. decoded' <= Len(blocks') /\ decoded' < Len(blocks')
    BY <1>0, <1>1, <1>2, <1>3 DEF BlockState
  <2>2. headersStream # 0 => decoded + 1 \in 1..Len(blocks)
    BY <1>0, <1>3 DEF BlockState
  <2> QED
    BY <1>2, <1>3, <1>5, <2>1, <2>2 DEF BlockState
<1> QED
  BY <1>9, <1>11, <1>12, <1>13, PutInv

(* Another fragment of the last block.                                     *)
LEMMA PutMore ==
  ASSUME TypeOK, ClientInv, BlockInv(Wire), rogue = 0,
         NEW s \in StreamIds, NEW endHeaders \in BOOLEAN,
         NEW n, n = Len(blocks), NEW k, k = blocks[n].parts + 1,
         InBlock = {s},
         NEW f \in Frames,
         f = Frame("continuation", s, FALSE, endHeaders, <<n, k, s>>),
         Wire' = Wire \o CellsOf(f), UNCHANGED failure,
         blocks' = [blocks EXCEPT ![n].parts = k],
         UNCHANGED <<decoded, headersBlock, headersStream>>,
         InBlock' # {} <=> ~endHeaders
  PROVE  BlockInv(Wire)'
<1>0. /\ Len(blocks) \in Nat /\ DOMAIN blocks = 1..Len(blocks)
      /\ \A m \in 1..Len(blocks) : blocks[m].parts \in Nat \ {0}
      /\ headersBlock \in Seq(Loads) /\ Len(headersBlock) \in Nat
      /\ decoded \in Nat
      /\ headersStream = 0 => headersBlock = <<>>
  BY BlocksType DEF TypeOK
<1>1. blocks # <<>> /\ blocks[n].id = s
  BY DEF ClientInv
<1>2. n \in Nat \ {0} /\ n \in 1..Len(blocks)
  BY <1>0, <1>1
<1>3. PICK e \in Nat \ {0} : e = blocks[n].parts /\ k = e + 1
  BY <1>0, <1>2
<1>4. /\ Len(blocks') = n /\ DOMAIN blocks' = 1..n
      /\ blocks'[n].id = s /\ blocks'[n].parts = k
      /\ \A m \in 1..n : m # n => blocks'[m] = blocks[m]
      /\ \A m \in 1..n : blocks'[m].id = blocks[m].id
  BY <1>1, GrownBlock
<1>5. BlockState /\ decoded < n
  BY DEF BlockInv, BlockState
<1>6. /\ \A m \in 1..n : Open(m) <=> m = n
      /\ \A m \in 1..n : Open(m)' <=> m = n /\ ~endHeaders
  BY <1>4 DEF Open
<1>7. \A m, p : Due(m, p) => Due(m, p)'
  <2>1. 1..e \subseteq 1..k
    BY <1>3
  <2> QED
    BY <1>0, <1>2, <1>3, <1>4, <2>1 DEF Due
<1>8. \A m, p : Due(m, p)' => Due(m, p) \/ (m = n /\ p = k)
  <2>1. \A p \in 1..k : p \in 1..e \/ p = k
    BY <1>3
  <2> QED
    BY <1>0, <1>2, <1>3, <1>4, <2>1 DEF Due
<1>9. Due(n, k)'
  <2>1. n = decoded + 1 => k > Len(headersBlock)
    <3>1. CASE headersStream = 0
      <4>1. Len(headersBlock) = 0
        BY <1>0, <3>1
      <4> QED
        BY <1>3, <4>1
    <3>2. CASE headersStream # 0 /\ n = decoded + 1
      <4>1. Len(headersBlock) <= e
        BY <1>3, <1>5, <3>2 DEF BlockState
      <4> QED
        BY <1>0, <1>3, <4>1
    <3> QED
      BY <3>1, <3>2
  <2>2. k \in 1..k /\ n > decoded
    BY <1>0, <1>2, <1>3, <1>5
  <2> QED
    BY <1>2, <1>4, <2>1, <2>2 DEF Due
<1>10. /\ f.type = "continuation" /\ f.id = s /\ f.endHeaders = endHeaders /\ ~f.bad
       /\ f.load = <<n, k, s>> /\ f.load[1] = n /\ f.load[2] = k
  BY DEF Frame
<1>11. ASSUME NEW g, Lawful(g)
       PROVE  Lawful(g)' /\ (Fragment(g) => Before(g, f))
  <2>1. CASE Fragment(g)
    <3>1. PICK m, p : m = g.load[1] /\ p = g.load[2] /\ LawfulPart(g, m, p)
      BY <1>11, <2>1 DEF Lawful
    <3>2. m \in 1..n /\ p \in 1..blocks[m].parts /\ blocks[m].parts \in Nat \ {0}
      BY <1>0, <3>1 DEF LawfulPart, Due
    <3>3. m < n \/ (m = n /\ p < k)
      BY <1>2, <1>3, <3>2
    <3>4. g.endHeaders <=> p = blocks'[m].parts /\ ~Open(m)'
      <4>1. CASE m = n
        <5>1. p # k
          BY <1>2, <1>3, <3>3, <4>1, <3>2
        <5> QED
          BY <1>4, <1>6, <3>1, <3>2, <4>1, <5>1 DEF LawfulPart
      <4>2. CASE m # n
        BY <1>4, <1>6, <3>1, <3>2, <4>2 DEF LawfulPart
      <4> QED
        BY <4>1, <4>2
    <3>5. LawfulPart(g, m, p)'
      BY <1>4, <1>7, <3>1, <3>2, <3>4 DEF LawfulPart
    <3>6. Before(g, f)
      BY <1>10, <3>1, <3>3 DEF Before
    <3> QED
      BY <1>11, <3>1, <3>5, <3>6 DEF Lawful
  <2>2. CASE ~Fragment(g)
    BY <1>11, <2>2 DEF Lawful
  <2> QED
    BY <2>1, <2>2
<1>12. Lawful(f)'
  <2>1. k # 1
    BY <1>3
  <2>2. Open(n)' <=> ~endHeaders
    BY <1>2, <1>6
  <2>3. LawfulPart(f, n, k)'
    BY <1>4, <1>9, <1>10, <2>1, <2>2 DEF LawfulPart
  <2> QED
    BY <1>10, <2>3 DEF Lawful
<1>13. NoneBut(f)
  BY <1>8, <1>10 DEF NoneBut, Carries, Fragment
<1>14. BlockState'
  <2>1. decoded' <= Len(blocks') /\ decoded' < Len(blocks')
    BY <1>0, <1>2, <1>4, <1>5
  <2>2. headersStream # 0 => decoded + 1 \in 1..n
    BY <1>0, <1>2, <1>5
  <2>3. ASSUME headersStream # 0
        PROVE  /\ headersStream = blocks'[decoded + 1].id
               /\ headersBlock # <<>>
               /\ Len(headersBlock) <= blocks'[decoded + 1].parts
               /\ Len(headersBlock) = blocks'[decoded + 1].parts => Open(decoded + 1)'
    <3>1. /\ headersStream = blocks[decoded + 1].id
          /\ headersBlock # <<>>
          /\ Len(headersBlock) <= blocks[decoded + 1].parts
          /\ Len(headersBlock) = blocks[decoded + 1].parts => Open(decoded + 1)
      BY <1>5, <2>3 DEF BlockState
    <3>2. CASE decoded + 1 = n
      <4>1. Len(headersBlock) <= e
        BY <1>3, <3>1, <3>2
      <4>2. Len(headersBlock) <= k /\ Len(headersBlock) # k
        <5>1. Len(headersBlock) \in Nat /\ k = e + 1
          BY <1>0, <1>3
        <5> QED
          BY ONLY <4>1, <5>1, e \in Nat \ {0}
      <4> QED
        BY <1>4, <2>2, <2>3, <3>1, <3>2, <4>2
    <3>3. CASE decoded + 1 # n
      <4>1. blocks'[decoded + 1] = blocks[decoded + 1] /\ ~Open(decoded + 1)
        BY <1>4, <1>6, <2>2, <2>3, <3>3
      <4> QED
        BY <3>1, <4>1
    <3> QED
      BY <3>2, <3>3
  <2>4. \A i \in DOMAIN headersBlock' :
          headersBlock'[i] = <<decoded' + 1, i, headersStream'>>
    BY <1>5 DEF BlockState
  <2> QED
    BY <2>1, <2>3, <2>4 DEF BlockState
<1> QED
  BY <1>11, <1>12, <1>13, <1>14, PutInv

(* What the client does.                                                   *)
LEMMA ClientBlocks ==
  ASSUME TypeOK, ClientInv, BlockInv(Wire), Client, UNCHANGED serverVars
  PROVE  BlockInv(Wire)'
<1> SUFFICES ASSUME rogue' = 0 PROVE BlockInv(Wire)'
  BY DEF BlockInv
<1>1. rogue = 0 /\ ~\E f \in RogueFrames : SendRogue(f)
  <2>1. rogue \in Nat
    BY Http2Assumption DEF TypeOK
  <2>2. rogue' = rogue \/ rogue' = rogue + 1
    BY DEF Client, SendHeaders, SendTrailers, SendContinuation, SendData, SendReset,
       SendPing, SendGoAway, SendRogue, ClientClose
  <2>3. \A f \in RogueFrames : SendRogue(f) => rogue' = rogue + 1
    BY DEF SendRogue
  <2> QED
    BY <2>1, <2>2, <2>3
<1>2. /\ UNCHANGED <<rxBuf, failure, decoded, headersBlock, headersStream>>
      /\ \A s \in StreamIds : s \in StreamIds \cup {0}
  BY DEF serverVars, blockVars, historyVars
<1>3. ASSUME NEW f \in Frames, Put(f), f.type \notin {"preface", "headers", "continuation"},
             ~f.bad, UNCHANGED blocks, InBlock' = InBlock
      PROVE  BlockInv(Wire)'
  <2>1. Wire' = Wire \o CellsOf(f)
    BY <1>2, <1>3, PutWire
  <2>2. UNCHANGED blockState
    BY <1>2, <1>3 DEF blockState
  <2> QED
    BY <1>1, <1>2, <1>3, <2>1, <2>2, PutOther DEF Fragment
<1>4. ASSUME NEW s \in StreamIds, NEW endStream \in BOOLEAN, NEW endHeaders \in BOOLEAN,
             Put(Frame("headers", s, endStream, endHeaders, <<Len(blocks) + 1, 1, s>>)),
             blocks' = Append(blocks, [id |-> s, parts |-> 1]),
             InBlock = {}, InBlock' # {} <=> ~endHeaders
      PROVE  BlockInv(Wire)'
  <2>1. <<Len(blocks) + 1, 1, s>> \in Loads
    BY LoadType DEF TypeOK
  <2>2. PICK f \in Frames :
          f = Frame("headers", s, endStream, endHeaders, <<Len(blocks) + 1, 1, s>>)
    BY <1>2, <2>1, FrameType DEF FrameTypes
  <2>3. Wire' = Wire \o CellsOf(f)
    BY <1>2, <1>4, <2>2, PutWire
  <2> QED
    BY <1>1, <1>2, <1>4, <2>2, <2>3, PutFirst
<1>5. ASSUME NEW s \in StreamIds, NEW endStream \in BOOLEAN, NEW endHeaders \in BOOLEAN,
             SendHeaders(s, endStream, endHeaders)
      PROVE  BlockInv(Wire)'
  <2>1. InBlock = {}
    BY <1>5 DEF SendHeaders, MayWrite
  <2>2. client'[s] = IF ~endHeaders THEN "block" ELSE IF endStream THEN "ended" ELSE "open"
    BY <1>5 DEF SendHeaders, TypeOK
  <2>3. \A t \in StreamIds : t # s => client'[t] = client[t]
    BY <1>5 DEF SendHeaders, TypeOK
  <2>4. InBlock' # {} <=> ~endHeaders
    BY <2>1, <2>2, <2>3 DEF InBlock
  <2> QED
    BY <1>4, <1>5, <2>1, <2>4 DEF SendHeaders
<1>6. ASSUME NEW s \in StreamIds, NEW endHeaders \in BOOLEAN, SendTrailers(s, endHeaders)
      PROVE  BlockInv(Wire)'
  <2>1. InBlock = {}
    BY <1>6 DEF SendTrailers, MayWrite
  <2>2. client'[s] = IF endHeaders THEN "ended" ELSE "trailers"
    BY <1>6 DEF SendTrailers, TypeOK
  <2>3. \A t \in StreamIds : t # s => client'[t] = client[t]
    BY <1>6 DEF SendTrailers, TypeOK
  <2>4. InBlock' # {} <=> ~endHeaders
    BY <2>1, <2>2, <2>3 DEF InBlock
  <2> QED
    BY <1>4, <1>6, <2>1, <2>4 DEF SendTrailers
<1>7. ASSUME NEW s \in StreamIds, NEW endHeaders \in BOOLEAN,
             SendContinuation(s, endHeaders)
      PROVE  BlockInv(Wire)'
  <2>1. PICK n, k : n = Len(blocks) /\ k = blocks[n].parts + 1
    OBVIOUS
  <2>2. /\ Put(Frame("continuation", s, FALSE, endHeaders, <<n, k, s>>))
        /\ blocks' = [blocks EXCEPT ![n].parts = k]
        /\ s \in InBlock
    BY <1>7, <2>1 DEF SendContinuation
  <2>3. InBlock = {s} /\ n \in Nat /\ n \in 1..Len(blocks)
    <3>1. InBlock = {s} /\ blocks # <<>>
      BY <2>2 DEF ClientInv
    <3>2. Len(blocks) \in Nat /\ Len(blocks) # 0
      BY <3>1, BlocksType DEF TypeOK
    <3> QED
      BY <2>1, <3>1, <3>2
  <2>4. k \in Nat
    BY <2>1, <2>3, BlocksType
  <2>5. <<n, k, s>> \in Loads
    BY <2>3, <2>4, LoadType
  <2>6. PICK f \in Frames : f = Frame("continuation", s, FALSE, endHeaders, <<n, k, s>>)
    BY <1>2, <2>5, FrameType DEF FrameTypes
  <2>7. Wire' = Wire \o CellsOf(f)
    BY <1>2, <2>2, <2>6, PutWire
  <2>8. client'[s] = IF ~endHeaders THEN client[s] ELSE IF ending THEN "ended" ELSE "open"
    BY <1>7 DEF SendContinuation, TypeOK
  <2>9. \A t \in StreamIds : t # s => client'[t] = client[t]
    BY <1>7 DEF SendContinuation, TypeOK
  <2>10. InBlock' # {} <=> ~endHeaders
    BY <2>3, <2>8, <2>9 DEF InBlock
  <2> QED
    BY <1>1, <1>2, <2>1, <2>2, <2>3, <2>6, <2>7, <2>10, PutMore
<1>8. ASSUME NEW s \in StreamIds, NEW endStream \in BOOLEAN, SendData(s, endStream)
      PROVE  BlockInv(Wire)'
  <2>1. datas[s] + 1 \in Nat
    BY Http2Assumption DEF TypeOK
  <2>2. <<0, datas[s] + 1, s>> \in Loads
    BY <2>1, LoadType
  <2>3. PICK f \in Frames : f = Frame("data", s, endStream, FALSE, <<0, datas[s] + 1, s>>)
    BY <1>2, <2>2, FrameType DEF FrameTypes
  <2>4. f.type = "data" /\ ~f.bad
    BY <2>3 DEF Frame
  <2>5. InBlock' = InBlock
    BY <1>8 DEF SendData, MayWrite, InBlock, TypeOK
  <2> QED
    BY <1>3, <1>8, <2>3, <2>4, <2>5 DEF SendData
<1>9. ASSUME NEW type \in {"rst", "ping", "other", "goaway"},
             NEW s \in StreamIds \cup {0}, Put(Plain(type, s)),
             UNCHANGED blocks, InBlock' = InBlock
      PROVE  BlockInv(Wire)'
  <2>1. PICK f \in Frames : f = Plain(type, s)
    BY PlainType DEF FrameTypes
  <2>2. f.type = type /\ ~f.bad
    BY <2>1 DEF Plain, Frame
  <2> QED
    BY <1>3, <1>9, <2>1, <2>2
<1>10. ASSUME NEW s \in StreamIds, SendReset(s)
       PROVE  BlockInv(Wire)'
  <2>1. InBlock' = InBlock
    BY <1>10 DEF SendReset, MayWrite, InBlock, TypeOK
  <2> QED
    BY <1>9, <1>10, <2>1 DEF SendReset
<1>11. CASE SendPing \/ SendGoAway
  <2>1. InBlock' = InBlock
    BY <1>11 DEF SendPing, SendGoAway, InBlock
  <2> QED
    BY <1>9, <1>11, <2>1 DEF SendPing, SendGoAway
<1>12. CASE ClientClose
  <2>1. UNCHANGED blockState /\ InBlock' = InBlock /\ Wire' = Wire
    BY <1>2, <1>12 DEF ClientClose, blockState, InBlock, Wire
  <2>2. AllLawful(Wire)' /\ BlockState'
    BY <1>1, <2>1, SameBlocks DEF BlockInv, AllLawful
  <2>3. AllDue(Wire)' /\ InOrder(Wire)'
    BY <1>1, <2>1, SameBlocks DEF BlockInv, AllDue, InOrder
  <2> QED
    BY <1>1, <1>2, <2>2, <2>3 DEF BlockInv
<1> QED
  BY <1>1, <1>5, <1>6, <1>7, <1>8, <1>10, <1>11, <1>12 DEF Client

(* Nothing of the header blocks changes.                                   *)
LEMMA StayBlocks ==
  ASSUME BlockInv(Wire), rogue = 0, Wire' = Wire, UNCHANGED blockState,
         InBlock' = InBlock, failure' # "protocol"
  PROVE  BlockInv(Wire)'
<1>1. AllLawful(Wire)' /\ BlockState'
  BY SameBlocks DEF BlockInv, AllLawful
<1>2. AllDue(Wire)' /\ InOrder(Wire)'
  BY SameBlocks DEF BlockInv, AllDue, InOrder
<1> QED
  BY <1>1, <1>2 DEF BlockInv

(* The first frame is handled.                                             *)
LEMMA DropInv ==
  ASSUME TypeOK, WireInv(Wire), Wire # <<>>, BlockInv(Wire), rogue = 0,
         NEW f, f = Wire[1].of, Wire' = Drop(Wire, FrameLen(f)),
         UNCHANGED failure,
         \A g : Lawful(g) /\ (Fragment(f) /\ Fragment(g) => Before(f, g)) => Lawful(g)',
         NoneOf(f), BlockState'
  PROVE  BlockInv(Wire)'
<1>1. PICK w \in Seq(Cells) : w = Wire
  BY WireType
<1>2. /\ AllLawful(w) /\ AllDue(w) /\ InOrder(w) /\ failure # "protocol"
      /\ Aligned(w) /\ w # <<>> /\ f = w[1].of
  BY <1>1 DEF BlockInv, WireInv
<1>3. PICK n, v : n = FrameLen(f) /\ v = Drop(w, n) /\ Taken(w, n, v)
  BY <1>2, HeadsDrop
<1>4. OthersStillLawful(w) /\ NoneOf(w[1].of)
  <2>1. 1 \in Heads(w)
    BY <1>3 DEF Taken
  <2> QED
    BY <1>2, <2>1 DEF AllLawful, InOrder, OthersStillLawful
<1>5. StillInvOf(v)
  BY <1>2, <1>3, <1>4, TakeBlocks
<1>6. Wire' = v
  BY <1>1, <1>3
<1>7. AllLawful(Wire)'
  BY <1>5, <1>6 DEF AllLawful, StillInvOf
<1>8. AllDue(Wire)'
  BY <1>5, <1>6 DEF AllDue, StillInvOf
<1>9. InOrder(Wire)'
  BY <1>5, <1>6 DEF InOrder, StillInvOf
<1> QED
  BY <1>2, <1>7, <1>8, <1>9 DEF BlockInv

LEMMA DropOther ==
  ASSUME TypeOK, WireInv(Wire), Wire # <<>>, BlockInv(Wire), rogue = 0,
         ~Fragment(Wire[1].of), Wire' = Drop(Wire, FrameLen(Wire[1].of)),
         UNCHANGED failure, UNCHANGED blockState, InBlock' = InBlock
  PROVE  BlockInv(Wire)'
<1>1. PICK f : f = Wire[1].of
  OBVIOUS
<1>2. NoneOf(f)
  BY <1>1, SameBlocks DEF NoneOf, Carries
<1>3. BlockState'
  BY SameBlocks DEF BlockInv
<1> QED
  BY <1>1, <1>2, <1>3, SameBlocks, DropInv

(* The fragment at the head of the wire: it is as the protocol wants it,   *)
(* and goes to the end of what has been handled of its block.              *)
LEMMA HeadPart ==
  ASSUME TypeOK, WireInv(Wire), BlockInv(Wire), rogue = 0, Wire # <<>>,
         NEW f, f = Wire[1].of, Fragment(f), NEW p, p = Len(headersBlock) + 1
  PROVE  /\ ~f.bad /\ f.load \in Loads
         /\ f.id \in StreamIds /\ f.id # 0
         /\ decoded + 1 \in 1..Len(blocks)
         /\ f.id = blocks[decoded + 1].id
         /\ p \in 1..blocks[decoded + 1].parts
         /\ f.load = <<decoded + 1, p, f.id>>
         /\ f.type = "headers" <=> p = 1
         /\ f.endHeaders <=> p = blocks[decoded + 1].parts /\ ~Open(decoded + 1)
         /\ f.type = "headers" => headersBlock = <<>>
         /\ f.type = "continuation" => Belongs(f)
<1>0. /\ Len(blocks) \in Nat /\ DOMAIN blocks = 1..Len(blocks)
      /\ \A m \in 1..Len(blocks) : blocks[m].id \in StreamIds
      /\ headersBlock \in Seq(Loads) /\ Len(headersBlock) \in Nat
      /\ decoded \in Nat /\ 0 \notin StreamIds
      /\ headersBlock = <<>> <=> Len(headersBlock) = 0
  BY BlocksType
<1>1. 1 \in Heads(Wire) /\ Wire \in Seq(Cells)
  BY WireType DEF WireInv, Aligned, Heads
<1>2. f \in Frames
  <2>1. 1 \in DOMAIN Wire
    BY <1>1 DEF Heads
  <2> QED
    BY <1>1, <2>1, CellFacts
<1>3. /\ decoded < Len(blocks)
      /\ f.load = <<decoded + 1, p, f.id>>
      /\ LawfulPart(f, decoded + 1, p)
      /\ headersBlock # <<>> => headersStream = f.id
  BY <1>1, NextFragment DEF BlockInv
<1>4. ~f.bad
  BY <1>1 DEF BlockInv, AllLawful, Lawful
<1>5. /\ decoded + 1 \in 1..Len(blocks)
      /\ p \in 1..blocks[decoded + 1].parts
      /\ f.id = blocks[decoded + 1].id
      /\ f.type = "headers" <=> p = 1
      /\ f.endHeaders <=> p = blocks[decoded + 1].parts /\ ~Open(decoded + 1)
  BY <1>0, <1>3 DEF LawfulPart, Due
<1>6. f.id \in StreamIds /\ f.id # 0
  BY <1>0, <1>5
<1>7. p = 1 <=> headersBlock = <<>>
  BY <1>0
<1>8. f.type = "headers" => headersBlock = <<>>
  BY <1>5, <1>7
<1>9. f.type = "continuation" => Belongs(f)
  BY <1>3, <1>5, <1>6, <1>7 DEF Belongs
<1>10. f.load \in Loads
  BY <1>2 DEF Frames
<1> QED
  BY <1>3, <1>4, <1>5, <1>6, <1>8, <1>9, <1>10

(* The block with that fragment.                                           *)
FirstParts(block, p, s) ==
  /\ block \in Seq(Loads) /\ Len(block) = p /\ DOMAIN block = 1..p
  /\ \A k \in 1..p : block[k] = <<decoded + 1, k, s>>

LEMMA LongerBlock ==
  ASSUME TypeOK, WireInv(Wire), BlockInv(Wire), rogue = 0, Wire # <<>>,
         NEW f, f = Wire[1].of, Fragment(f),
         NEW p, p = Len(headersBlock) + 1,
         NEW block, block = Append(headersBlock, f.load)
  PROVE  FirstParts(block, p, f.id)
<1>0. headersBlock \in Seq(Loads) /\ Len(headersBlock) \in Nat /\ f.load \in Loads
  BY BlocksType, HeadPart
<1>1. /\ block \in Seq(Loads) /\ Len(block) = p
      /\ \A k \in 1..Len(headersBlock) : block[k] = headersBlock[k]
      /\ block[p] = f.load
  BY <1>0, AppendProperties
<1>2. \A k \in DOMAIN headersBlock : headersBlock[k] = <<decoded + 1, k, headersStream>>
  BY DEF BlockInv, BlockState
<1>3. f.load = <<decoded + 1, p, f.id>> /\ f.id = blocks[decoded + 1].id
  BY HeadPart
<1>4. headersBlock # <<>> => headersStream = f.id
  BY <1>3 DEF BlockInv, BlockState, TypeOK
<1>5. ASSUME NEW k \in 1..p
      PROVE  block[k] = <<decoded + 1, k, f.id>>
  <2>1. CASE k = p
    BY <1>1, <1>3, <2>1
  <2>2. CASE k \in 1..Len(headersBlock)
    <3>1. k \in DOMAIN headersBlock /\ headersBlock # <<>>
      BY <1>0, <2>2
    <3> QED
      BY <1>1, <1>2, <1>4, <2>2, <3>1
  <2>3. k = p \/ k \in 1..Len(headersBlock)
    BY <1>0
  <2> QED
    BY <2>1, <2>2, <2>3
<1>6. DOMAIN block = 1..p
  BY <1>1
<1> QED
  BY <1>1, <1>5, <1>6 DEF FirstParts

(* If it is the last one DecodeFull must accept the block.                 *)
LEMMA LastDecodable ==
  ASSUME TypeOK, WireInv(Wire), BlockInv(Wire), rogue = 0, Wire # <<>>,
         NEW f, f = Wire[1].of, Fragment(f), f.endHeaders
  PROVE  Decodable(Append(headersBlock, f.load))
<1>1. PICK p, block : p = Len(headersBlock) + 1 /\ block = Append(headersBlock, f.load)
  OBVIOUS
<1>2. /\ block \in Seq(Loads) /\ DOMAIN block = 1..p
      /\ \A k \in 1..p : block[k] = <<decoded + 1, k, f.id>>
  <2>1. FirstParts(block, p, f.id)
    BY <1>1, LongerBlock
  <2> QED
    BY <2>1 DEF FirstParts
<1>3. /\ decoded + 1 \in 1..Len(blocks)
      /\ f.id = blocks[decoded + 1].id
      /\ p = blocks[decoded + 1].parts
  BY <1>1, HeadPart
<1>4. decoded < Len(blocks)
  BY <1>3, BlocksType
<1>5. block = [k \in 1..p |-> <<decoded + 1, k, f.id>>]
  <2>1. block = [k \in DOMAIN block |-> block[k]]
    BY <1>2
  <2> QED
    BY <1>2, <2>1
<1> QED
  BY <1>1, <1>3, <1>4, <1>5 DEF Decodable

(* It is the last one: the block is decoded.                               *)
LEMMA FinishBlocks ==
  ASSUME TypeOK, WireInv(Wire), BlockInv(Wire), rogue = 0, Wire # <<>>,
         NEW f, f = Wire[1].of, Fragment(f), f.endHeaders,
         Wire' = Drop(Wire, FrameLen(f)), UNCHANGED failure,
         decoded' = decoded + 1, headersBlock' = <<>>, headersStream' = 0,
         UNCHANGED <<blocks, client>>
  PROVE  BlockInv(Wire)'
<1>0. /\ Len(blocks) \in Nat /\ DOMAIN blocks = 1..Len(blocks) /\ decoded \in Nat
      /\ Len(headersBlock) \in Nat /\ Len(headersBlock') = 0
  BY BlocksType
<1>1. PICK p : p = Len(headersBlock) + 1
  OBVIOUS
<1>2. PICK n \in Nat : n = decoded + 1
  BY <1>0
<1>3. /\ n \in 1..Len(blocks)
      /\ p \in 1..blocks[n].parts /\ p = blocks[n].parts /\ ~Open(n)
      /\ f.load = <<n, p, f.id>>
  BY <1>1, <1>2, HeadPart
<1>4. BlockState
  BY DEF BlockInv
<1>5. \A m : Open(m)' <=> Open(m)
  BY DEF Open, InBlock
<1>6. ASSUME NEW m, NEW q
      PROVE  Due(m, q)' <=> Due(m, q) /\ m # n
  <2>1. SUFFICES ASSUME m \in 1..Len(blocks), q \in 1..blocks[m].parts
                 PROVE  Due(m, q)' <=> Due(m, q) /\ m # n
    BY <1>0 DEF Due
  <2>2. q > 0
    BY BlocksType, <2>1
  <2>3. m > decoded' <=> m > decoded /\ m # n
    BY <1>0, <1>2, <2>1
  <2> QED
    BY <1>0, <1>2, <2>1, <2>2, <2>3 DEF Due
<1>7. ASSUME NEW g, Lawful(g), Fragment(f) /\ Fragment(g) => Before(f, g)
      PROVE  Lawful(g)'
  <2>1. CASE Fragment(g)
    <3>1. PICK m, q : m = g.load[1] /\ q = g.load[2] /\ LawfulPart(g, m, q)
      BY <1>7, <2>1 DEF Lawful
    <3>2. Due(m, q) /\ m \in 1..Len(blocks) /\ q \in 1..blocks[m].parts
      BY <1>0, <3>1 DEF LawfulPart, Due
    <3>3. n < m \/ (n = m /\ p < q)
      BY <1>3, <1>7, <2>1, <3>1 DEF Before
    <3>4. m # n
      <4>1. m = n => q <= p
        BY <1>3, <3>2, BlocksType
      <4>2. p \in Nat /\ q \in Nat /\ m \in Nat
        BY <1>3, <3>2, BlocksType
      <4> QED
        BY <3>3, <4>1, <4>2
    <3>5. LawfulPart(g, m, q)'
      BY <1>5, <1>6, <3>1, <3>2, <3>4 DEF LawfulPart
    <3> QED
      BY <1>7, <3>1, <3>5 DEF Lawful
  <2>2. CASE ~Fragment(g)
    BY <1>7, <2>2 DEF Lawful
  <2> QED
    BY <2>1, <2>2
<1>8. NoneOf(f)
  <2>1. \A m \in Nat, q \in Nat : Carries(f, m, q) => m = n
    BY <1>3 DEF Carries
  <2> QED
    BY <1>6, <2>1 DEF NoneOf
<1>9. BlockState'
  <2>1. decoded' <= Len(blocks)
    BY <1>0, <1>2, <1>3
  <2>2. InBlock' # {} => decoded' < Len(blocks)
    <3>1. InBlock # {} => n # Len(blocks)
      BY <1>3 DEF Open
    <3>2. decoded' = n /\ n <= Len(blocks) /\ InBlock' = InBlock
      BY <1>2, <1>3 DEF InBlock
    <3>3. n # Len(blocks) => n < Len(blocks)
      <4>1. Len(blocks) \in Nat /\ n <= Len(blocks)
        BY <1>0, <3>2
      <4> QED
        BY ONLY <4>1, n \in Nat
    <3> QED
      BY <3>1, <3>2, <3>3
  <2> QED
    BY <2>1, <2>2 DEF BlockState
<1> QED
  BY <1>7, <1>8, <1>9, DropInv

(* It is not: the block is kept.                                           *)
LEMMA KeepBlocks ==
  ASSUME TypeOK, WireInv(Wire), BlockInv(Wire), rogue = 0, Wire # <<>>,
         NEW f, f = Wire[1].of, Fragment(f), ~f.endHeaders,
         Wire' = Drop(Wire, FrameLen(f)), UNCHANGED failure,
         headersBlock' = Append(headersBlock, f.load), headersStream' = f.id,
         UNCHANGED <<blocks, client, decoded>>
  PROVE  BlockInv(Wire)'
<1>0. /\ Len(blocks) \in Nat /\ DOMAIN blocks = 1..Len(blocks) /\ decoded \in Nat
      /\ Len(headersBlock) \in Nat
  BY BlocksType
<1>1. PICK p : p = Len(headersBlock) + 1
  OBVIOUS
<1>2. PICK n \in Nat : n = decoded + 1
  BY <1>0
<1>3. /\ n \in 1..Len(blocks) /\ f.id = blocks[n].id
      /\ p \in 1..blocks[n].parts /\ ~(p = blocks[n].parts /\ ~Open(n))
      /\ f.load = <<n, p, f.id>> /\ f.id # 0
  BY <1>1, <1>2, HeadPart
<1>4. BlockState
  BY DEF BlockInv
<1>5. \A m : Open(m)' <=> Open(m)
  BY DEF Open, InBlock
<1>6. FirstParts(headersBlock', p, f.id)
  BY <1>1, LongerBlock
<1>7. /\ Len(headersBlock') = p /\ DOMAIN headersBlock' = 1..p
       /\ \A k \in 1..p : headersBlock'[k] = <<decoded + 1, k, f.id>>
       /\ p \in Nat \ {0}
  BY <1>0, <1>1, <1>6 DEF FirstParts
<1>8. ASSUME NEW m, NEW q
      PROVE  Due(m, q)' <=> Due(m, q) /\ ~(m = n /\ q = p)
  <2>1. SUFFICES ASSUME m \in 1..Len(blocks), q \in 1..blocks[m].parts, q \in Nat
                 PROVE  Due(m, q)' <=> Due(m, q) /\ ~(m = n /\ q = p)
    BY <1>0, BlocksType DEF Due
  <2>2. q > Len(headersBlock') <=> q > Len(headersBlock) /\ q # p
    BY <1>0, <1>1, <1>7, <2>1
  <2> QED
    BY <1>0, <1>2, <2>1, <2>2 DEF Due
<1>9. ASSUME NEW g, Lawful(g), Fragment(f) /\ Fragment(g) => Before(f, g)
      PROVE  Lawful(g)'
  <2>1. CASE Fragment(g)
    <3>1. PICK m, q : m = g.load[1] /\ q = g.load[2] /\ LawfulPart(g, m, q)
      BY <1>9, <2>1 DEF Lawful
    <3>2. Due(m, q) /\ m \in 1..Len(blocks) /\ q \in 1..blocks[m].parts
      BY <1>0, <3>1 DEF LawfulPart, Due
    <3>3. n < m \/ (n = m /\ p < q)
      BY <1>3, <1>9, <2>1, <3>1 DEF Before
    <3>4. ~(m = n /\ q = p)
      <4>1. p \in Nat /\ q \in Nat /\ m \in Nat
        BY <1>7, <3>2, BlocksType
      <4> QED
        BY <3>3, <4>1, <1>2
    <3>5. LawfulPart(g, m, q)'
      BY <1>5, <1>8, <3>1, <3>2, <3>4 DEF LawfulPart
    <3> QED
      BY <1>9, <3>1, <3>5 DEF Lawful
  <2>2. CASE ~Fragment(g)
    BY <1>9, <2>2 DEF Lawful
  <2> QED
    BY <2>1, <2>2
<1>10. NoneOf(f)
  <2>1. \A m \in Nat, q \in Nat : Carries(f, m, q) => m = n /\ q = p
    BY <1>3 DEF Carries
  <2>2. \A m \in Nat, q \in Nat : m = n /\ q = p => Carries(f, m, q)
    BY <1>3 DEF Carries
  <2> QED
    BY <1>8, <2>1, <2>2 DEF NoneOf
<1>11. BlockState'
  <2>1. decoded' <= Len(blocks) /\ (InBlock' # {} => decoded' < Len(blocks))
    BY <1>4 DEF BlockState, InBlock
  <2>2. decoded' < Len(blocks)
    BY <1>0, <1>2, <1>3
  <2>3. headersBlock' # <<>>
    BY <1>7
  <2>4. Len(headersBlock') <= blocks[n].parts
    BY <1>3, <1>7, BlocksType
  <2>5. Len(headersBlock') = blocks[n].parts => Open(n)'
    BY <1>3, <1>5, <1>7
  <2> QED
    BY <1>2, <1>3, <1>7, <2>1, <2>2, <2>3, <2>4, <2>5 DEF BlockState
<1> QED
  BY <1>9, <1>10, <1>11, DropInv

(* The preface is right.                                                   *)
LEMMA RightPreface ==
  ASSUME TypeOK, WireInv(Wire), BlockInv(Wire), rogue = 0,
         ~prefaceSeen, Len(rxBuf) >= PrefaceLen
  PROVE  SubSeq(rxBuf, 1, PrefaceLen) = CellsOf(Preface)
<1>1. /\ rxBuf \in Seq(Cells) /\ transit \in Seq(Cells) /\ Wire \in Seq(Cells)
      /\ PrefaceLen \in Nat \ {0} /\ PrefaceLen \in 0..Len(rxBuf)
  BY WireType, Http2Assumption DEF TypeOK
<1>2. \A i \in 1..Len(rxBuf) : Wire[i] = rxBuf[i]
  BY <1>1, ConcatProperties DEF Wire
<1>3. /\ Wire # <<>> /\ Wire[1].of.type = "preface" /\ Aligned(Wire)
      /\ 1 \in Heads(Wire)
  BY <1>1 DEF WireInv, PrefaceInv, Aligned, Heads
<1>4. Wire[1].of = Preface
  BY <1>3 DEF BlockInv, AllLawful, Lawful
<1>5. FrameLen(Preface) = PrefaceLen
  BY <1>3, <1>4 DEF FrameLen
<1>6. \A i \in 1..PrefaceLen : Wire[i] = [of |-> Preface, at |-> i]
  BY <1>1, <1>3, <1>4, <1>5, BehindTheFirst
<1>7. PICK a \in Seq(Cells) : /\ a = SubSeq(rxBuf, 1, PrefaceLen)
                              /\ Len(a) = PrefaceLen
                              /\ \A i \in 1..PrefaceLen : a[i] = rxBuf[i]
  <2>1. /\ SubSeq(rxBuf, 1, PrefaceLen) \in Seq(Cells)
        /\ Len(SubSeq(rxBuf, 1, PrefaceLen)) = PrefaceLen
        /\ \A i \in 1..PrefaceLen : SubSeq(rxBuf, 1, PrefaceLen)[i] = rxBuf[i]
    BY <1>1
  <2> QED
    BY <2>1
<1>8. PICK c \in Seq(Cells) : /\ c = CellsOf(Preface)
                              /\ Len(c) = PrefaceLen
                              /\ \A i \in 1..PrefaceLen : c[i] = [of |-> Preface, at |-> i]
  <2>1. Preface \in Frames
    BY PlainType DEF Preface, FrameTypes
  <2> QED
    BY <1>5, <2>1, CellsFacts
<1>9. \A i \in 1..PrefaceLen : i \in 1..Len(rxBuf)
  BY <1>1
<1>10. a = c
  BY <1>2, <1>6, <1>7, <1>8, <1>9, SameSequence
<1> QED
  BY <1>7, <1>8, <1>10

(* What the server does.                                                   *)
LEMMA ServerBlocks ==
  ASSUME TypeOK, WireInv(Wire), BlockInv(Wire), Server
  PROVE  BlockInv(Wire)'
<1> SUFFICES ASSUME rogue = 0 PROVE BlockInv(Wire)'
  BY ServerFrame DEF BlockInv
<1>0. /\ UNCHANGED <<client, blocks>> /\ InBlock' = InBlock /\ failure # "protocol"
  BY ServerFrame DEF InBlock, BlockInv
<1>1. ASSUME UNCHANGED <<rxBuf, transit, decoded, headersBlock, headersStream>>,
             failure' # "protocol"
      PROVE  BlockInv(Wire)'
  <2>1. Wire' = Wire /\ UNCHANGED blockState
    BY <1>0, <1>1 DEF Wire, blockState
  <2> QED
    BY <1>0, <1>1, <2>1, StayBlocks
<1>2. \A why : Fail(why) /\ why # "protocol" => BlockInv(Wire)'
  BY <1>1 DEF Fail, clientVars, blockVars
<1>3. ASSUME Complete, Consume, UNCHANGED transit
      PROVE  Wire # <<>> /\ Wire[1].of = Frm /\ Wire' = Drop(Wire, FrameLen(Frm))
  BY <1>3, HeadOfWire, ConsumeWire DEF Frm
<1>4. ASSUME Complete, Consume, ~Fragment(Frm),
             UNCHANGED <<transit, decoded, headersBlock, headersStream, failure>>
      PROVE  BlockInv(Wire)'
  <2>1. UNCHANGED blockState
    BY <1>0, <1>4 DEF blockState
  <2> QED
    BY <1>0, <1>3, <1>4, <2>1, DropOther
<1>5. ASSUME Complete
      PROVE  ~Frm.bad
  <2>1. 1 \in Heads(Wire) /\ Frm = Wire[1].of
    BY <1>5, HeadFrame
  <2> QED
    BY <2>1 DEF BlockInv, AllLawful, Lawful
<1>6. CASE Start \/ ReadEnds \/ FeedDone
  BY <1>0, <1>1, <1>6 DEF Start, ReadEnds, FeedDone, clientVars, blockVars, historyVars
<1>7. ASSUME NEW n \in 1..ReadSize, Read(n)
      PROVE  BlockInv(Wire)'
  <2>1. n \in Nat
    BY Http2Assumption
  <2>2. Wire' = Wire
    BY <1>7, <2>1, ReadWire
  <2>3. UNCHANGED blockState /\ failure' # "protocol"
    BY <1>0, <1>7 DEF Read, blockState, blockVars, historyVars
  <2> QED
    BY <1>0, <2>2, <2>3, StayBlocks
<1>8. CASE FeedPreface
  <2>1. ~prefaceSeen /\ Len(rxBuf) >= PrefaceLen
    BY <1>8 DEF FeedPreface
  <2>2. /\ rxBuf' = Drop(rxBuf, PrefaceLen)
        /\ UNCHANGED <<clientVars, streams, blockVars, pc, readErr, historyVars>>
    BY <1>8, <2>1, RightPreface DEF FeedPreface
  <2>3. Wire # <<>> /\ Wire[1].of.type = "preface" /\ FrameLen(Wire[1].of) = PrefaceLen
    BY <2>1 DEF WireInv, PrefaceInv, FrameLen
  <2>4. rxBuf \in Seq(Cells) /\ transit \in Seq(Cells) /\ PrefaceLen \in 0..Len(rxBuf)
    BY <2>1, Http2Assumption DEF TypeOK
  <2>5. Wire' = Drop(Wire, FrameLen(Wire[1].of))
    BY <2>2, <2>3, <2>4, WireDrop DEF Wire, clientVars
  <2>6. UNCHANGED blockState /\ UNCHANGED failure
    BY <1>0, <2>2 DEF blockState, blockVars, historyVars
  <2>7. ~Fragment(Wire[1].of)
    BY <2>3 DEF Fragment
  <2> QED
    BY <1>0, <2>3, <2>5, <2>6, <2>7, DropOther
<1>9. CASE OnSettings \/ OnPing
  <2>1. Complete /\ ~Fragment(Frm) /\ Write
    BY <1>5, <1>9 DEF OnSettings, OnPing, Received, Fragment, Frm
  <2> QED
    BY <1>2, <1>4, <2>1 DEF Write, clientVars, blockVars, historyVars
<1>10. CASE OnOther \/ OnDataUnknown \/ OnReset
  <2>1. Complete /\ ~Fragment(Frm) /\ Consume
    BY <1>10 DEF OnOther, OnDataUnknown, OnReset, Received, Fragment, Frm
  <2> QED
    BY <1>4, <1>10, <2>1
    DEF OnOther, OnDataUnknown, OnReset, clientVars, blockVars, historyVars
<1>11. CASE OnGoAway
  BY <1>2, <1>11 DEF OnGoAway
<1>12. CASE OnData
  <2>1. Complete /\ ~Fragment(Frm) /\ ~Frm.bad
    BY <1>5, <1>12 DEF OnData, Received, Fragment, Frm
  <2> QED
    BY <1>4, <1>12, <2>1 DEF OnData, clientVars, blockVars
<1>13. ASSUME Complete, Fragment(Frm), NEW s, s = Frm.id, NEW block,
              block = Append(headersBlock, Frm.load), NEW endStream,
              \/ Frm.endHeaders /\ FinishHeaders(s, block, endStream)
              \/ ~Frm.endHeaders /\ KeepBlock(s, block, endStream)
       PROVE  BlockInv(Wire)'
  <2>1. Wire # <<>> /\ Wire[1].of = Frm
    BY <1>13, HeadOfWire DEF Frm
  <2>2. CASE Frm.endHeaders /\ FinishHeaders(s, block, endStream)
    <3>1. Decodable(block)
      BY <1>13, <2>1, <2>2, LastDecodable
    <3>2. /\ decoded' = decoded + 1 /\ headersStream' = 0 /\ headersBlock' = <<>>
          /\ Consume /\ UNCHANGED transit /\ UNCHANGED failure
      BY <2>2, <3>1 DEF FinishHeaders, ResetBlock, clientVars
    <3>3. Wire' = Drop(Wire, FrameLen(Frm))
      BY <1>3, <1>13, <3>2
    <3> QED
      BY <1>0, <1>13, <2>1, <2>2, <3>2, <3>3, FinishBlocks
  <2>3. CASE ~Frm.endHeaders /\ KeepBlock(s, block, endStream)
    <3>1. /\ headersStream' = s /\ headersBlock' = block /\ decoded' = decoded
          /\ Consume /\ UNCHANGED transit /\ UNCHANGED failure
      BY <2>3 DEF KeepBlock, clientVars, historyVars
    <3>2. Wire' = Drop(Wire, FrameLen(Frm))
      BY <1>3, <1>13, <3>1
    <3> QED
      BY <1>0, <1>13, <2>1, <2>3, <3>1, <3>2, KeepBlocks
  <2> QED
    BY <1>13, <2>2, <2>3
<1>14. ASSUME Complete, Fragment(Frm)
       PROVE  /\ Frm.id # 0 /\ ~Frm.bad /\ Frm.load \in Loads
              /\ Frm.type = "headers" => headersBlock = <<>>
              /\ Frm.type = "continuation" => Belongs(Frm)
  <2>1. Wire # <<>> /\ Wire[1].of = Frm
    BY <1>14, HeadOfWire DEF Frm
  <2> QED
    BY <1>14, <2>1, HeadPart
<1>15. CASE OnHeaders
  <2>1. Complete /\ Fragment(Frm) /\ Frm.type = "headers"
    BY <1>15 DEF OnHeaders, Received, Fragment, Frm
  <2>2. Frm.id # 0 /\ ~Frm.bad /\ headersBlock = <<>> /\ Frm.load \in Loads
    BY <1>14, <2>1
  <2>3. <<Frm.load>> = Append(headersBlock, Frm.load)
    BY <2>2
  <2>4. \/ Frm.endHeaders /\ FinishHeaders(Frm.id, <<Frm.load>>, Frm.endStream)
        \/ ~Frm.endHeaders /\ KeepBlock(Frm.id, <<Frm.load>>, Frm.endStream)
    BY <1>15, <2>2 DEF OnHeaders
  <2> QED
    BY <1>13, <2>1, <2>3, <2>4
<1>16. CASE OnContinuation
  <2>1. Complete /\ Fragment(Frm) /\ Frm.type = "continuation"
    BY <1>16 DEF OnContinuation, Received, Fragment, Frm
  <2>2. Belongs(Frm) /\ headersStream = Frm.id
    BY <1>14, <2>1 DEF Belongs
  <2>3. PICK block : block = Append(headersBlock, Frm.load)
    OBVIOUS
  <2>4. \/ Frm.endHeaders /\ FinishHeaders(headersStream, block, Latched(Frm))
        \/ ~Frm.endHeaders /\ KeepBlock(headersStream, block, Latched(Frm))
    BY <1>16, <2>2, <2>3 DEF OnContinuation
  <2> QED
    BY <1>13, <2>1, <2>2, <2>3, <2>4
<1> QED
  BY <1>6, <1>7, <1>8, <1>9, <1>10, <1>11, <1>12, <1>15, <1>16 DEF Server, HandleFrame

LEMMA FramesOfInit ==
  ASSUME Init, rogue = 0
  PROVE  \A k \in Heads(Wire) : Wire[k].of = Preface \/ Wire[k].of = Plain("settings", 0)
<1>1. Preface \in Frames /\ Plain("settings", 0) \in Frames
  BY PlainType DEF Preface, FrameTypes
<1>2. [Preface EXCEPT !.bad = (rogue # 0)] = Preface
  <2>1. (rogue # 0) = FALSE
    OBVIOUS
  <2>2. Preface.bad = FALSE
    BY DEF Preface, Plain, Frame
  <2>3. \A f \in Frames : [f EXCEPT !.bad = f.bad] = f
    BY DEF Frames
  <2>4. [Preface EXCEPT !.bad = Preface.bad] = Preface
    BY <1>1, <2>3
  <2> QED
    BY <2>1, <2>2, <2>4
<1>3. transit = CellsOf(Preface) \o CellsOf(Plain("settings", 0)) /\ rxBuf = <<>>
  BY <1>2 DEF Init
<1>4. PICK e \in Seq(Cells) : e = <<>> /\ Heads(e) = {}
  <2>1. <<>> \in Seq(Cells) /\ DOMAIN <<>> = {}
    OBVIOUS
  <2>2. Heads(<<>>) = {}
    BY <2>1 DEF Heads
  <2> QED
    BY <2>1, <2>2
<1>5. PICK w \in Seq(Cells) : w = CellsOf(Preface)
  BY <1>1, CellsFacts
<1>6. e \o w = w
  BY <1>4, ConcatEmptySeq
<1>7. Appended(e, Preface, w)
  BY <1>1, <1>5, <1>6, HeadsPut
<1>8. \A k \in Heads(w) : w[k].of = Preface
  BY <1>4, <1>7 DEF Appended
<1>9. PICK v \in Seq(Cells) : /\ v = w \o CellsOf(Plain("settings", 0))
                              /\ Appended(w, Plain("settings", 0), v)
  BY <1>1, HeadsPut DEF Appended
<1>10. Wire = v
  BY <1>3, <1>5, <1>9, ConcatEmptySeq DEF Wire
<1> QED
  BY <1>8, <1>9, <1>10 DEF Appended

LEMMA BlocksOfInit ==
  ASSUME Init
  PROVE  BlockInv(Wire)
<1> SUFFICES ASSUME rogue = 0 PROVE BlockInv(Wire)
  BY DEF BlockInv
<1>1. \A k \in Heads(Wire) : Wire[k].of = Preface \/ Wire[k].of = Plain("settings", 0)
  BY FramesOfInit
<1>2. AllLawful(Wire)
  <2>1. Lawful(Preface) /\ Lawful(Plain("settings", 0))
    BY DEF Lawful, Fragment, Preface, Plain, Frame
  <2> QED
    BY <1>1, <2>1 DEF AllLawful
<1>3. InOrder(Wire)
  <2>1. ~Fragment(Preface) /\ ~Fragment(Plain("settings", 0))
    BY DEF Fragment, Preface, Plain, Frame
  <2> QED
    BY <1>1, <2>1 DEF InOrder
<1>4. DOMAIN blocks = {} /\ Len(blocks) = 0 /\ headersBlock = <<>> /\ decoded = 0
      /\ headersStream = 0 /\ failure = "none" /\ InBlock = {}
  BY DEF Init, InBlock
<1>5. AllDue(Wire)
  BY <1>4 DEF AllDue, Due
<1>6. BlockState
  BY <1>4 DEF BlockState
<1> QED
  BY <1>2, <1>3, <1>4, <1>5, <1>6 DEF BlockInv

LEMMA NextBlocks == IInv /\ BlockInv(Wire) /\ [Next]_vars => BlockInv(Wire)'
<1> SUFFICES ASSUME IInv, BlockInv(Wire), [Next]_vars PROVE BlockInv(Wire)'
  OBVIOUS
<1>0. TypeOK /\ ClientInv /\ WireInv(Wire)
  BY DEF IInv
<1>1. CASE Client /\ UNCHANGED serverVars
  BY <1>0, <1>1, ClientBlocks
<1>2. CASE Server
  BY <1>0, <1>2, ServerBlocks
<1>3. CASE UNCHANGED vars
  <2>1. Wire' = Wire /\ UNCHANGED blockState /\ InBlock' = InBlock /\ UNCHANGED <<rogue, failure>>
    BY <1>3 DEF vars, Wire, blockState, InBlock
  <2>2. CASE rogue # 0
    BY <2>1, <2>2 DEF BlockInv
  <2>3. CASE rogue = 0
    <3>1. failure' # "protocol"
      BY <2>1, <2>3 DEF BlockInv
    <3> QED
      BY <2>1, <2>3, <3>1, StayBlocks
  <2> QED
    BY <2>2, <2>3
<1> QED
  BY <1>1, <1>2, <1>3 DEF Next, Closed, serverVars

(* A client that keeps to the protocol is never turned away: every frame   *)
(* is found where it begins, and every header block reaches DecodeFull     *)
(* whole and in the order the client encoded them, however the frames are  *)
(* cut and whatever lies between them (feed, onHeaders and onContinuation  *)
(* of http2.go).                                                           *)
THEOREM LegalClientsAreServed == Spec => []LegalNeverFails
<1>1. Init => IInv /\ BlockInv(Wire)
  BY InitInv, BlocksOfInit
<1>2. IInv /\ BlockInv(Wire) /\ [Next]_vars => (IInv /\ BlockInv(Wire))'
  BY NextInv, NextBlocks
<1>3. IInv /\ BlockInv(Wire) => LegalNeverFails
  BY DEF BlockInv, LegalNeverFails
<1> QED
  BY <1>1, <1>2, <1>3, PTL DEF Spec

--------------------------------------------------------------------------------
(***************************************************************************)
(* Requests                                                                *)
(***************************************************************************)

LEMMA HandledType ==
  ASSUME TypeOK, NEW i \in DOMAIN handled
  PROVE  handled[i].id \in StreamIds
<1> DEFINE H == [id : StreamIds, fields : Seq(Loads), body : Seq(Loads)]
<1>1. handled \in Seq(H)
  BY DEF TypeOK
<1> HIDE DEF H
<1>2. handled[i] \in H
  BY <1>1, ElementOfSeq
<1> QED
  BY <1>2 DEF H

(* A step that does nothing to stream t keeps all that was said of it.     *)
Untouched(t) ==
  /\ client'[t] = client[t] /\ datas'[t] = datas[t] /\ streams'[t] = streams[t]
  /\ BlocksOf(t)' = BlocksOf(t)
  /\ \A n \in BlocksOf(t) : WholeBlock(n)' = WholeBlock(n)
  /\ \A n \in BlocksOf(t) : Decoded(n)' <=> Decoded(n)
  /\ Done(t)' <=> Done(t)

LEMMA UntouchedState ==
  ASSUME NEW t, Untouched(t)
  PROVE  /\ Ended(t)' <=> Ended(t)
         /\ Pending(t)' <=> Pending(t)
         /\ \A d : Missing(t, d)' <=> Missing(t, d)
         /\ ResetDue(t)' <=> ResetDue(t)
<1>1. Ended(t)' <=> Ended(t)
  BY DEF Ended, Untouched
<1>2. Waiting(t)' <=> Waiting(t)
  BY DEF Waiting, Untouched
<1>3. Pending(t)' <=> Pending(t)
  BY <1>2 DEF Pending, Untouched
<1>4. Got(t)' = Got(t)
  BY DEF Got, Untouched
<1>5. \A d : Missing(t, d)' <=> Missing(t, d)
  BY <1>3, <1>4 DEF Missing, Untouched
<1>6. ResetDue(t)' <=> ResetDue(t)
  BY <1>3 DEF ResetDue, Untouched
<1> QED
  BY <1>1, <1>3, <1>5, <1>6

LEMMA UntouchedStream ==
  ASSUME NEW t, Untouched(t), StreamInv(t)
  PROVE  StreamInv(t)'
<1>1. \A st : Kept(t, st) => Kept(t, st)'
  BY DEF Kept, Untouched
<1>2. Pending(t)' <=> Pending(t)
  BY UntouchedState
<1> QED
  BY <1>1, <1>2 DEF StreamInv, Untouched

LEMMA UntouchedSent ==
  ASSUME NEW h, Untouched(h.id), AsSent(h)
  PROVE  AsSent(h)'
<1>1. Ended(h.id)' /\ ~Pending(h.id)'
  BY UntouchedState DEF AsSent
<1>2. PICK n \in BlocksOf(h.id) : Decoded(n) /\ h.fields = WholeBlock(n)
  BY DEF AsSent
<1>3. n \in BlocksOf(h.id)' /\ Decoded(n)' /\ h.fields = WholeBlock(n)'
  BY <1>2 DEF Untouched
<1>4. datas'[h.id] = datas[h.id]
  BY DEF Untouched
<1> QED
  BY <1>1, <1>3, <1>4 DEF AsSent

LEMMA UntouchedFrame ==
  ASSUME NEW f, Late(f), Untouched(f.id), Proper(f)
  PROVE  Proper(f)'
<1>1. f.type # "headers"
  BY DEF Late
<1>2. f.type = "data" => ProperData(f, f.id, f.load[2])'
  BY UntouchedState DEF Proper, ProperData, Untouched
<1>3. f.type = "rst" => ProperReset(f.id)'
  BY DEF Proper, ProperReset, Untouched
<1> QED
  BY <1>1, <1>2, <1>3 DEF Proper

(* The wire and what is still to come, after a write.                      *)
StillProper(w) == \A k \in Heads(w) : Proper(w[k].of)'
OthersStillProper(w) == \A k \in Heads(w) : k > 1 => Proper(w[k].of)'
MissingBut(f) == \A s \in StreamIds : \A d \in Nat :
  Missing(s, d)' => Missing(s, d) \/ IsPiece(f, s, d)
ResetsBut(f) == \A s \in StreamIds : ResetDue(s)' => ResetDue(s) \/ IsReset(f, s)
AllPrecede(w, f) == \A k \in Heads(w) : Late(w[k].of) => MayFollow(w[k].of, f)
StillRequests(v) ==
  /\ \A k \in Heads(v) : Proper(v[k].of)'
  /\ AllFollow(v)
  /\ \A s \in StreamIds : \A d \in Nat :
       Missing(s, d)' => \E k \in Heads(v) : IsPiece(v[k].of, s, d)
  /\ \A s \in StreamIds : ResetDue(s)' => \E k \in Heads(v) : IsReset(v[k].of, s)

LEMMA PutRequests ==
  ASSUME NEW w \in Seq(Cells), NEW f, NEW v, Appended(w, f, v),
         AllFollow(w), AllMissing(w), AllResets(w),
         StillProper(w), Proper(f)', MissingBut(f), ResetsBut(f), AllPrecede(w, f)
  PROVE  StillRequests(v)
<1>1. /\ Heads(v) = Heads(w) \cup {Len(w) + 1}
      /\ \A k \in Heads(w) : k \in Nat /\ k < Len(w) + 1 /\ v[k] = w[k]
      /\ v[Len(w) + 1].of = f
      /\ Len(w) \in Nat
  BY DEF Appended
<1>2. \A k \in Heads(v) : Proper(v[k].of)'
  BY <1>1 DEF StillProper
<1>3. ASSUME NEW s \in StreamIds, NEW d \in Nat, Missing(s, d)'
      PROVE  \E k \in Heads(v) : IsPiece(v[k].of, s, d)
  <2>1. CASE Missing(s, d)
    <3>1. PICK k \in Heads(w) : IsPiece(w[k].of, s, d)
      BY <2>1 DEF AllMissing
    <3> QED
      BY <1>1, <3>1
  <2>2. CASE IsPiece(f, s, d)
    BY <1>1, <2>2
  <2> QED
    BY <1>3, <2>1, <2>2 DEF MissingBut
<1>4. ASSUME NEW s \in StreamIds, ResetDue(s)'
      PROVE  \E k \in Heads(v) : IsReset(v[k].of, s)
  <2>1. CASE ResetDue(s)
    <3>1. PICK k \in Heads(w) : IsReset(w[k].of, s)
      BY <2>1 DEF AllResets
    <3> QED
      BY <1>1, <3>1
  <2>2. CASE IsReset(f, s)
    BY <1>1, <2>2
  <2> QED
    BY <1>4, <2>1, <2>2 DEF ResetsBut
<1>5. ASSUME NEW j \in Heads(v), NEW k \in Heads(v), j < k, Late(v[j].of)
      PROVE  MayFollow(v[j].of, v[k].of)
  <2>1. CASE k \in Heads(w)
    <3>1. j \in Heads(w)
      BY <1>1, <1>5, <2>1
    <3> QED
      BY <1>1, <1>5, <2>1, <3>1 DEF AllFollow
  <2>2. CASE k = Len(w) + 1
    <3>1. j \in Heads(w)
      BY <1>1, <1>5, <2>2
    <3> QED
      BY <1>1, <1>5, <2>2, <3>1 DEF AllPrecede
  <2> QED
    BY <1>1, <2>1, <2>2
<1> QED
  BY <1>2, <1>3, <1>4, <1>5 DEF AllFollow, StillRequests

MissingNot(f) == \A s \in StreamIds : \A d \in Nat :
  Missing(s, d)' => Missing(s, d) /\ ~IsPiece(f, s, d)
ResetsNot(f) == \A s \in StreamIds : ResetDue(s)' => ResetDue(s) /\ ~IsReset(f, s)

LEMMA TakeRequests ==
  ASSUME NEW w \in Seq(Cells), NEW n, NEW v, Taken(w, n, v),
         AllFollow(w), AllMissing(w), AllResets(w),
         OthersStillProper(w), MissingNot(w[1].of), ResetsNot(w[1].of)
  PROVE  StillRequests(v)
<1>1. \A k \in Heads(v) : Proper(v[k].of)'
  BY DEF Taken, OthersStillProper
<1>2. ASSUME NEW s \in StreamIds, NEW d \in Nat, Missing(s, d)'
      PROVE  \E k \in Heads(v) : IsPiece(v[k].of, s, d)
  <2>1. PICK k \in Heads(w) : IsPiece(w[k].of, s, d)
    BY <1>2 DEF AllMissing, MissingNot
  <2>2. k # 1
    BY <1>2, <2>1 DEF MissingNot
  <2> QED
    BY <2>1, <2>2 DEF Taken
<1>3. ASSUME NEW s \in StreamIds, ResetDue(s)'
      PROVE  \E k \in Heads(v) : IsReset(v[k].of, s)
  <2>1. PICK k \in Heads(w) : IsReset(w[k].of, s)
    BY <1>3 DEF AllResets, ResetsNot
  <2>2. k # 1
    BY <1>3, <2>1 DEF ResetsNot
  <2> QED
    BY <2>1, <2>2 DEF Taken
<1>4. ASSUME NEW j \in Heads(v), NEW k \in Heads(v), j < k, Late(v[j].of)
      PROVE  MayFollow(v[j].of, v[k].of)
  <2>1. /\ n + j \in Heads(w) /\ n + k \in Heads(w) /\ n + j < n + k
        /\ v[j] = w[n + j] /\ v[k] = w[n + k]
    BY <1>4 DEF Taken
  <2> QED
    BY <1>4, <2>1 DEF AllFollow
<1> QED
  BY <1>1, <1>2, <1>3, <1>4 DEF AllFollow, StillRequests

(* A frame is written.                                                     *)
StayProper == \A g : Lawful(g) /\ Proper(g) => Proper(g)'
Behind(f) == \A g : Late(g) /\ Proper(g) => MayFollow(g, f)

LEMMA PutRequestInv ==
  ASSUME TypeOK, BlockInv(Wire), RequestInv(Wire), rogue = 0,
         NEW f \in Frames, Wire' = Wire \o CellsOf(f),
         StayProper, Behind(f), Proper(f)', MissingBut(f), ResetsBut(f),
         RequestState'
  PROVE  RequestInv(Wire)'
<1>1. PICK w \in Seq(Cells) : w = Wire
  BY WireType
<1>2. AllProper(w) /\ AllFollow(w) /\ AllMissing(w) /\ AllResets(w) /\ AllLawful(w)
  BY <1>1 DEF RequestInv, BlockInv
<1>3. PICK v : v = w \o CellsOf(f) /\ Appended(w, f, v)
  BY HeadsPut
<1>4. StillProper(w) /\ AllPrecede(w, f)
  BY <1>2 DEF AllProper, AllLawful, StillProper, AllPrecede, StayProper, Behind
<1>5. StillRequests(v)
  BY <1>2, <1>3, <1>4, PutRequests
<1>6. Wire' = v
  BY <1>1, <1>3
<1>7. AllProper(Wire)' /\ AllFollow(Wire)'
  BY <1>5, <1>6 DEF AllProper, AllFollow, StillRequests
<1>8. AllMissing(Wire)' /\ AllResets(Wire)'
  BY <1>5, <1>6 DEF AllMissing, AllResets, StillRequests
<1> QED
  BY <1>7, <1>8 DEF RequestInv

(* The first frame is handled.                                             *)
LeftProper(f) ==
  \A g : Lawful(g) /\ Proper(g) /\ (Late(f) => MayFollow(f, g)) => Proper(g)'

LEMMA DropRequestInv ==
  ASSUME TypeOK, WireInv(Wire), Wire # <<>>, BlockInv(Wire), RequestInv(Wire), rogue = 0,
         NEW f, f = Wire[1].of, Wire' = Drop(Wire, FrameLen(f)),
         LeftProper(f), MissingNot(f), ResetsNot(f), RequestState'
  PROVE  RequestInv(Wire)'
<1>1. PICK w \in Seq(Cells) : w = Wire
  BY WireType
<1>2. /\ AllProper(w) /\ AllFollow(w) /\ AllMissing(w) /\ AllResets(w) /\ AllLawful(w)
      /\ Aligned(w) /\ w # <<>> /\ f = w[1].of
  BY <1>1 DEF RequestInv, BlockInv, WireInv
<1>3. PICK n, v : n = FrameLen(f) /\ v = Drop(w, n) /\ Taken(w, n, v)
  BY <1>2, HeadsDrop
<1>4. OthersStillProper(w)
  <2>1. 1 \in Heads(w)
    BY <1>3 DEF Taken
  <2> QED
    BY <1>2, <2>1 DEF AllProper, AllLawful, AllFollow, OthersStillProper, LeftProper
<1>5. StillRequests(v)
  BY <1>2, <1>3, <1>4, TakeRequests
<1>6. Wire' = v
  BY <1>1, <1>3
<1>7. AllProper(Wire)' /\ AllFollow(Wire)'
  BY <1>5, <1>6 DEF AllProper, AllFollow, StillRequests
<1>8. AllMissing(Wire)' /\ AllResets(Wire)'
  BY <1>5, <1>6 DEF AllMissing, AllResets, StillRequests
<1> QED
  BY <1>7, <1>8 DEF RequestInv

(* A step that leaves what has been handled.                               *)
LEMMA StillSent ==
  ASSUME AllSent, UNCHANGED handled,
         \A i \in DOMAIN handled : \A h : h = handled[i] /\ AsSent(h) => AsSent(h)'
  PROVE  AllSent'
<1>1. (\A i \in DOMAIN handled : AsSent(handled[i]))'
  <2>1. ASSUME NEW i \in DOMAIN handled PROVE AsSent(handled[i])'
    <3>1. PICK h : h = handled[i]
      OBVIOUS
    <3>2. AsSent(h)'
      BY <3>1 DEF AllSent
    <3>3. handled'[i] = h
      BY <3>1
    <3> QED
      BY <3>2, <3>3
  <2> QED
    BY <2>1
<1>2. \A i \in DOMAIN handled' : \A j \in DOMAIN handled' :
        handled'[i].id = handled'[j].id => i = j
  BY DEF AllSent
<1> QED
  BY <1>1, <1>2 DEF AllSent

(* A step that does nothing to any request.                                *)
requestState == <<client, blocks, datas, ending, decoded, headersStream,
                  headersEnd, streams, handled>>

LEMMA SameRequests ==
  ASSUME UNCHANGED requestState
  PROVE  /\ \A g : Proper(g)' <=> Proper(g)
         /\ \A s, d : Missing(s, d)' <=> Missing(s, d)
         /\ \A s : ResetDue(s)' <=> ResetDue(s)
         /\ RequestState => RequestState'
<1> USE DEF requestState
<1>1. /\ \A s : BlocksOf(s)' = BlocksOf(s)
      /\ \A n : WholeBlock(n)' = WholeBlock(n)
      /\ \A n : Open(n)' <=> Open(n)
      /\ \A n : Decoded(n)' <=> Decoded(n)
      /\ \A s : Done(s)' <=> Done(s)
  BY DEF BlocksOf, WholeBlock, Open, InBlock, Decoded, Done
<1>2. \A s : Untouched(s)
  BY <1>1 DEF Untouched
<1>3. \A s, d : Missing(s, d)' <=> Missing(s, d)
  BY <1>2, UntouchedState
<1>4. \A s : ResetDue(s)' <=> ResetDue(s)
  BY <1>2, UntouchedState
<1>5. \A n, e : EndMatches(n, e)' <=> EndMatches(n, e)
  BY <1>1 DEF EndMatches, Ended
<1>6. \A g : ProperData(g, g.id, g.load[2])' <=> ProperData(g, g.id, g.load[2])
  BY <1>3 DEF ProperData, Ended
<1>7. \A g : Proper(g)' <=> Proper(g)
  BY <1>5, <1>6 DEF Proper, ProperReset
<1>8. \A s : StreamInv(s) => StreamInv(s)'
  BY <1>2, UntouchedStream
<1>9. \A h : AsSent(h) => AsSent(h)'
  BY <1>2, UntouchedSent
<1>10. RequestState => RequestState'
  <2>1. SUFFICES ASSUME RequestState PROVE RequestState'
    OBVIOUS
  <2>2. \A s \in StreamIds : StreamInv(s)'
    BY <1>8, <2>1 DEF RequestState
  <2>3. HeldEnd'
    BY <1>5, <2>1 DEF RequestState, HeldEnd
  <2>4. AllSent'
    BY <1>9, <2>1, StillSent DEF RequestState
  <2> QED
    BY <2>2, <2>3, <2>4 DEF RequestState
<1> QED
  BY <1>3, <1>4, <1>7, <1>10

LEMMA StayRequests ==
  ASSUME RequestInv(Wire), rogue = 0, Wire' = Wire, UNCHANGED requestState
  PROVE  RequestInv(Wire)'
<1>1. AllProper(Wire)' /\ AllFollow(Wire)'
  BY SameRequests DEF RequestInv, AllProper, AllFollow
<1>2. AllMissing(Wire)' /\ AllResets(Wire)'
  BY SameRequests DEF RequestInv, AllMissing, AllResets
<1>3. RequestState'
  BY SameRequests DEF RequestInv
<1> QED
  BY <1>1, <1>2, <1>3 DEF RequestInv

LEMMA PutAside ==
  ASSUME TypeOK, BlockInv(Wire), RequestInv(Wire), rogue = 0,
         NEW f \in Frames, Wire' = Wire \o CellsOf(f),
         f.type \notin {"headers", "data", "rst"}, f.id \notin StreamIds,
         UNCHANGED requestState
  PROVE  RequestInv(Wire)'
<1>1. StayProper /\ RequestState'
  BY SameRequests DEF StayProper, RequestInv
<1>2. Proper(f)'
  BY DEF Proper
<1>3. Behind(f)
  BY DEF Behind, Late, Proper, ProperData, ProperReset, MayFollow
<1>4. MissingBut(f) /\ ResetsBut(f)
  BY SameRequests DEF MissingBut, ResetsBut
<1> QED
  BY <1>1, <1>2, <1>3, <1>4, PutRequestInv

LEMMA DropAside ==
  ASSUME TypeOK, WireInv(Wire), Wire # <<>>, BlockInv(Wire), RequestInv(Wire), rogue = 0,
         ~Late(Wire[1].of), Wire' = Drop(Wire, FrameLen(Wire[1].of)),
         UNCHANGED requestState
  PROVE  RequestInv(Wire)'
<1>1. PICK f : f = Wire[1].of
  OBVIOUS
<1>2. LeftProper(f) /\ RequestState'
  BY SameRequests DEF LeftProper, RequestInv
<1>3. MissingNot(f) /\ ResetsNot(f)
  BY <1>1, SameRequests DEF MissingNot, ResetsNot, IsPiece, IsReset, Late
<1> QED
  BY <1>1, <1>2, <1>3, DropRequestInv

(* A client writes a frame of stream s.                                    *)
SameEnds == \A n \in DOMAIN blocks : \A e : EndMatches(n, e) => EndMatches(n, e)'
OthersUntouched(s) == \A t \in StreamIds : t # s => Untouched(t)
Yields(s, f) ==
  \A g : g.id = s /\ Late(g) /\ Proper(g) => Proper(g)' /\ MayFollow(g, f)
MissingButOf(s, f) == \A d \in Nat : Missing(s, d)' => Missing(s, d) \/ IsPiece(f, s, d)

LEMMA StillEnds ==
  ASSUME SameEnds, NEW n \in DOMAIN blocks, NEW e, EndMatches(n, e)
  PROVE  EndMatches(n, e)'
BY DEF SameEnds

LEMMA PutTouched ==
  ASSUME TypeOK, BlockInv(Wire), RequestInv(Wire), rogue = 0,
         NEW s \in StreamIds, NEW f \in Frames, f.id = s, Wire' = Wire \o CellsOf(f),
         OthersUntouched(s), SameEnds, Yields(s, f), Proper(f)', MissingButOf(s, f),
         ResetDue(s)' => ResetDue(s) \/ IsReset(f, s),
         StreamInv(s)',
         \A h : h.id = s /\ AsSent(h) => AsSent(h)',
         UNCHANGED <<headersStream, headersEnd, decoded, handled>>
  PROVE  RequestInv(Wire)'
<1>1. ASSUME NEW g, Proper(g), Late(g)
      PROVE  Proper(g)' /\ MayFollow(g, f)
  <2>1. g.id \in StreamIds
    BY <1>1 DEF Late, Proper, ProperData, ProperReset
  <2>2. CASE g.id = s
    BY <1>1, <2>2 DEF Yields
  <2>3. CASE g.id # s
    <3>1. Untouched(g.id)
      BY <2>1, <2>3 DEF OthersUntouched
    <3>2. MayFollow(g, f)
      BY <2>3 DEF MayFollow
    <3> QED
      BY <1>1, <3>1, <3>2, UntouchedFrame
  <2> QED
    BY <2>2, <2>3
<1>2. Behind(f)
  BY <1>1 DEF Behind
<1>3. ASSUME NEW g, Lawful(g), Proper(g)
      PROVE  Proper(g)'
  <2>1. CASE Late(g)
    BY <1>1, <1>3, <2>1
  <2>2. CASE g.type = "headers"
    <3>1. PICK n, e : n = g.load[1] /\ e = g.endStream
      OBVIOUS
    <3>2. n \in DOMAIN blocks
      BY <1>3, <2>2, <3>1 DEF Lawful, LawfulPart, Due, Fragment
    <3>3. EndMatches(n, e)'
      BY <1>3, <2>2, <3>1, <3>2, StillEnds DEF Proper
    <3> QED
      BY <2>2, <3>1, <3>3 DEF Proper
  <2>3. CASE ~Late(g) /\ g.type # "headers"
    BY <2>3 DEF Late, Proper
  <2> QED
    BY <2>1, <2>2, <2>3
<1>4. StayProper
  BY <1>3 DEF StayProper
<1>5. MissingBut(f)
  BY UntouchedState DEF MissingBut, MissingButOf, OthersUntouched
<1>6. ResetsBut(f)
  BY UntouchedState DEF ResetsBut, OthersUntouched
<1>7. RequestState /\ BlockState
  BY DEF RequestInv, BlockInv
<1>8. ASSUME NEW t \in StreamIds
      PROVE  StreamInv(t)'
  <2>1. StreamInv(t)
    BY <1>7 DEF RequestState
  <2> QED
    BY <2>1, UntouchedStream DEF OthersUntouched
<1>9. HeldEnd'
  <2>1. SUFFICES ASSUME headersStream # 0
                 PROVE  EndMatches(decoded + 1, headersEnd)'
    BY DEF HeldEnd
  <2>2. PICK n, e : n = decoded + 1 /\ e = headersEnd
    OBVIOUS
  <2>3. n \in DOMAIN blocks
    BY <1>7, <2>1, <2>2, BlocksType DEF BlockState
  <2>4. EndMatches(n, e)
    BY <1>7, <2>1, <2>2 DEF RequestState, HeldEnd
  <2>5. EndMatches(n, e)'
    BY <2>3, <2>4, StillEnds
  <2>6. n = decoded' + 1 /\ e = headersEnd'
    BY <2>2
  <2> QED
    BY <2>5, <2>6
<1>10. AllSent'
  <2>1. ASSUME NEW i \in DOMAIN handled, NEW h, h = handled[i], AsSent(h)
        PROVE  AsSent(h)'
    <3>1. h.id \in StreamIds
      BY <2>1, HandledType
    <3> QED
      BY <2>1, <3>1, UntouchedSent DEF OthersUntouched
  <2> QED
    BY <1>7, <2>1, StillSent DEF RequestState
<1>11. RequestState'
  BY <1>8, <1>9, <1>10 DEF RequestState
<1> QED
  BY <1>2, <1>4, <1>5, <1>6, <1>11, PutRequestInv

LEMMA ClientUntouched ==
  ASSUME UNCHANGED serverVars, NEW t,
         client'[t] = client[t], datas'[t] = datas[t], BlocksOf(t)' = BlocksOf(t),
         \A n \in BlocksOf(t) : blocks'[n] = blocks[n]
  PROVE  Untouched(t)
BY DEF serverVars, blockVars, historyVars, Untouched, WholeBlock, Decoded, Done

(* A stream on which no request has begun is unknown to the server.        *)
LEMMA IdleStream ==
  ASSUME RequestState, NEW s \in StreamIds, client[s] \in {"idle", "block"}
  PROVE  /\ StreamInv(s) /\ datas[s] = 0 /\ streams[s] = None /\ ~Done(s)
         /\ \A g : g.id = s /\ Late(g) => ~Proper(g)
         /\ \A h : h.id = s => ~AsSent(h)
<1>1. StreamInv(s) /\ datas[s] = 0 /\ streams[s] = None
  BY DEF RequestState, StreamInv, Kept
<1>2. \A g : g.id = s /\ Late(g) => ~Proper(g)
  BY DEF Late, Proper, ProperData, ProperReset
<1>3. \A h : h.id = s => ~AsSent(h)
  BY DEF AsSent, Ended
<1>4. ~Done(s)
  BY <1>3 DEF Done, RequestState, AllSent
<1> QED
  BY <1>1, <1>2, <1>3, <1>4

LEMMA RequestBegins ==
  ASSUME TypeOK, BlockInv(Wire), RequestInv(Wire), rogue = 0, UNCHANGED serverVars,
         NEW s \in StreamIds, NEW endStream \in BOOLEAN, NEW endHeaders \in BOOLEAN,
         SendHeaders(s, endStream, endHeaders)
  PROVE  RequestInv(Wire)'
<1>0. /\ Len(blocks) \in Nat /\ DOMAIN blocks = 1..Len(blocks) /\ decoded \in Nat
      /\ decoded <= Len(blocks)
      /\ \A m \in 1..Len(blocks) : blocks[m].id \in StreamIds
      /\ UNCHANGED <<rxBuf, streams, decoded, headersStream, headersEnd, handled>>
      /\ RequestState
  BY BlocksType DEF serverVars, blockVars, historyVars, BlockInv, BlockState, RequestInv
<1>1. /\ client[s] = "idle" /\ InBlock = {} /\ UNCHANGED datas /\ ending' = endStream
      /\ client'[s] = IF ~endHeaders THEN "block" ELSE IF endStream THEN "ended" ELSE "open"
      /\ \A t \in StreamIds : t # s => client'[t] = client[t]
      /\ blocks' = Append(blocks, [id |-> s, parts |-> 1])
  BY DEF SendHeaders, MayWrite, TypeOK
<1>2. PICK n \in Nat : n = Len(blocks) + 1
  BY <1>0
<1>3. /\ Len(blocks') = n /\ DOMAIN blocks' = 1..n
      /\ blocks'[n].id = s
      /\ \A m \in 1..Len(blocks) : blocks'[m] = blocks[m]
  BY <1>1, <1>2, NewBlock
<1>4. /\ \A m \in 1..n : m \in 1..Len(blocks) \/ m = n
      /\ \A m \in 1..Len(blocks) : m \in 1..n /\ m # n
      /\ n \in 1..n /\ n # Len(blocks) /\ ~(n <= decoded)
  <2>1. PICK L : L = Len(blocks)
    OBVIOUS
  <2>3. L \in Nat /\ n = L + 1 /\ decoded <= L /\ decoded \in Nat
    BY <1>0, <1>2, <2>1
  <2>2. /\ \A m \in 1..n : m \in 1..L \/ m = n
        /\ \A m \in 1..L : m \in 1..n /\ m # n
        /\ n \in 1..n /\ n # L /\ ~(n <= decoded)
    BY ONLY <2>3, n \in Nat
  <2> QED
    BY <2>1, <2>2
<1>5. /\ StreamInv(s) /\ BlocksOf(s) = {} /\ datas[s] = 0 /\ streams[s] = None
      /\ \A g : g.id = s /\ Late(g) => ~Proper(g)
      /\ \A h : h.id = s => ~AsSent(h)
      /\ ~Done(s)
  BY <1>0, <1>1, IdleStream DEF StreamInv
<1>6. BlocksOf(s)' = {n}
  BY <1>0, <1>3, <1>4, <1>5 DEF BlocksOf
<1>7. ASSUME NEW t \in StreamIds, t # s
      PROVE  Untouched(t)
  <2>1. BlocksOf(t)' = BlocksOf(t)
    BY <1>0, <1>3, <1>4, <1>7 DEF BlocksOf
  <2>2. \A m \in BlocksOf(t) : blocks'[m] = blocks[m]
    BY <1>0, <1>3 DEF BlocksOf
  <2> QED
    BY <1>1, <1>7, <2>1, <2>2, ClientUntouched
<1>8. /\ \A m \in 1..Len(blocks) : ~Open(m) /\ ~Open(m)'
      /\ Open(n)' <=> ~endHeaders
  <2>1. InBlock' # {} <=> ~endHeaders
    BY <1>1 DEF InBlock
  <2> QED
    BY <1>1, <1>3, <1>4, <2>1 DEF Open
<1>9. SameEnds
  <2>1. ASSUME NEW m \in 1..Len(blocks) PROVE blocks[m].id \in StreamIds /\ blocks[m].id # s
    BY <1>0, <1>5 DEF BlocksOf
  <2> QED
    BY <1>0, <1>1, <1>3, <1>8, <2>1 DEF SameEnds, EndMatches, Ended
<1>10. Waiting(s)'
  <2>1. n \in BlocksOf(s)' /\ ~Decoded(n)'
    <3>1. decoded' = decoded
      BY <1>0
    <3>2. ~Decoded(n)'
      BY <1>4, <3>1 DEF Decoded
    <3> QED
      BY <1>6, <3>2
  <2> QED
    BY <2>1 DEF Waiting
<1>11. StreamInv(s)'
  BY <1>0, <1>1, <1>5, <1>6, <1>10 DEF StreamInv, Pending
<1>12. PICK f \in Frames :
         f = Frame("headers", s, endStream, endHeaders, <<Len(blocks) + 1, 1, s>>)
  <2>1. <<Len(blocks) + 1, 1, s>> \in Loads
    BY LoadType DEF TypeOK
  <2>2. s \in StreamIds \cup {0}
    OBVIOUS
  <2> QED
    BY <2>1, <2>2, FrameType DEF FrameTypes
<1>13. /\ f.type = "headers" /\ f.id = s /\ f.endStream = endStream /\ f.load = <<n, 1, s>>
       /\ Wire' = Wire \o CellsOf(f)
  <2>1. Put(f)
    BY <1>12 DEF SendHeaders
  <2> QED
    BY <1>0, <1>2, <1>12, <2>1, PutWire DEF Frame
<1>14. Proper(f)'
  <2>1. EndMatches(n, endStream)'
    BY <1>1, <1>3, <1>5, <1>8 DEF EndMatches, Ended
  <2> QED
    BY <1>13, <2>1 DEF Proper
<1>15. MissingButOf(s, f)
  <2>1. \A d : ~Missing(s, d)'
    BY <1>0, <1>1, <1>5 DEF Missing, Got
  <2> QED
    BY <2>1 DEF MissingButOf
<1>16. ~ResetDue(s)'
  BY <1>1 DEF ResetDue
<1>17. OthersUntouched(s) /\ Yields(s, f)
  BY <1>5, <1>7 DEF OthersUntouched, Yields
<1>18. \A h : h.id = s /\ AsSent(h) => AsSent(h)'
  BY <1>5
<1> QED
  BY <1>0, <1>9, <1>11, <1>13, <1>14, <1>15, <1>16, <1>17, <1>18, PutTouched

LEMMA RequestGoesOn ==
  ASSUME TypeOK, ClientInv, BlockInv(Wire), RequestInv(Wire), rogue = 0,
         UNCHANGED serverVars,
         NEW s \in StreamIds, NEW endHeaders \in BOOLEAN, SendContinuation(s, endHeaders)
  PROVE  RequestInv(Wire)'
<1>0. /\ Len(blocks) \in Nat /\ DOMAIN blocks = 1..Len(blocks)
      /\ \A m \in 1..Len(blocks) : blocks[m].id \in StreamIds
      /\ UNCHANGED <<rxBuf, streams, decoded, headersStream, headersEnd, handled>>
      /\ RequestState
  BY BlocksType DEF serverVars, blockVars, historyVars, RequestInv
<1>1. PICK n, k : n = Len(blocks) /\ k = blocks[n].parts + 1
  OBVIOUS
<1>2. /\ s \in InBlock /\ UNCHANGED <<datas, ending>>
      /\ client'[s] = IF ~endHeaders THEN client[s] ELSE IF ending THEN "ended" ELSE "open"
      /\ \A t \in StreamIds : t # s => client'[t] = client[t]
      /\ blocks' = [blocks EXCEPT ![n].parts = k]
      /\ Put(Frame("continuation", s, FALSE, endHeaders, <<n, k, s>>))
  BY <1>1 DEF SendContinuation, TypeOK
<1>3. /\ InBlock = {s} /\ blocks # <<>> /\ blocks[n].id = s
      /\ n \in 1..n /\ n \in Nat /\ k \in Nat
      /\ DOMAIN blocks = 1..n /\ \A m \in 1..n : blocks[m].id \in StreamIds
  BY <1>0, <1>1, <1>2, BlocksType DEF ClientInv
<1>4. /\ StreamInv(s) /\ client[s] = "block"
  BY <1>0, <1>2 DEF RequestState, StreamInv, InBlock
<1>5. /\ datas[s] = 0 /\ streams[s] = None
      /\ \A g : g.id = s /\ Late(g) => ~Proper(g)
      /\ \A h : h.id = s => ~AsSent(h)
      /\ ~Done(s)
  BY <1>0, <1>4, IdleStream
<1>6. /\ Len(blocks') = n /\ DOMAIN blocks' = 1..n
      /\ \A m \in 1..n : m # n => blocks'[m] = blocks[m]
      /\ \A m \in 1..n : blocks'[m].id = blocks[m].id
  BY <1>1, <1>2, <1>3, GrownBlock
<1>7. \A t : BlocksOf(t)' = BlocksOf(t)
  BY <1>3, <1>6 DEF BlocksOf
<1>8. ASSUME NEW t \in StreamIds, t # s
      PROVE  Untouched(t)
  <2>1. \A m \in BlocksOf(t) : blocks'[m] = blocks[m]
    BY <1>3, <1>6, <1>8 DEF BlocksOf
  <2> QED
    BY <1>2, <1>7, <1>8, <2>1, ClientUntouched
<1>9. /\ \A m \in 1..n : Open(m) <=> m = n
      /\ \A m \in 1..n : Open(m)' <=> m = n /\ ~endHeaders
  <2>1. InBlock' # {} <=> ~endHeaders
    BY <1>2, <1>3, <1>4 DEF InBlock
  <2> QED
    BY <1>1, <1>3, <1>6, <2>1 DEF Open
<1>10. SameEnds
  <2>1. SUFFICES ASSUME NEW m \in 1..n, NEW e, EndMatches(m, e)
                 PROVE  EndMatches(m, e)'
    BY <1>3 DEF SameEnds
  <2>2. blocks'[m].id = blocks[m].id /\ blocks[m].id \in StreamIds
    BY <1>3, <1>6
  <2>3. CASE m = n
    BY <1>2, <1>3, <1>4, <1>5, <1>9, <2>1, <2>2, <2>3 DEF EndMatches, Ended
  <2>4. CASE m # n
    <3>1. blocks[m].id # s
      BY <1>3, <1>4, <2>4 DEF StreamInv, BlocksOf
    <3> QED
      BY <1>2, <1>9, <2>1, <2>2, <2>4, <3>1 DEF EndMatches, Ended
  <2> QED
    BY <2>3, <2>4
<1>11. StreamInv(s)'
  <2>1. Waiting(s)
    BY <1>4, <1>5 DEF StreamInv, Pending
  <2>2. Waiting(s)'
    BY <1>0, <1>7, <2>1 DEF Waiting, Decoded
  <2>3. client'[s] \in {"block", "open", "ended"}
    BY <1>2, <1>4
  <2> QED
    BY <1>0, <1>2, <1>4, <1>5, <1>7, <2>2, <2>3 DEF StreamInv, Pending
<1>12. PICK f \in Frames : f = Frame("continuation", s, FALSE, endHeaders, <<n, k, s>>)
  <2>1. <<n, k, s>> \in Loads
    BY <1>3, LoadType
  <2>2. s \in StreamIds \cup {0}
    OBVIOUS
  <2> QED
    BY <2>1, <2>2, FrameType DEF FrameTypes
<1>13. f.type = "continuation" /\ f.id = s /\ Wire' = Wire \o CellsOf(f)
  BY <1>0, <1>2, <1>12, PutWire DEF Frame
<1>14. Proper(f)'
  BY <1>13 DEF Proper
<1>15. MissingButOf(s, f)
  <2>1. \A d : ~Missing(s, d)'
    BY <1>0, <1>2, <1>5 DEF Missing, Got
  <2> QED
    BY <2>1 DEF MissingButOf
<1>16. ~ResetDue(s)'
  BY <1>2, <1>4 DEF ResetDue
<1>17. OthersUntouched(s) /\ Yields(s, f)
  BY <1>5, <1>8 DEF OthersUntouched, Yields
<1>18. \A h : h.id = s /\ AsSent(h) => AsSent(h)'
  BY <1>5
<1> QED
  BY <1>0, <1>10, <1>11, <1>13, <1>14, <1>15, <1>16, <1>17, <1>18, PutTouched

(* Between header blocks: a step of the client that begins none.           *)
LEMMA NoBlockBegins ==
  ASSUME TypeOK, UNCHANGED serverVars, UNCHANGED blocks, NEW s \in StreamIds,
         InBlock = {}, client'[s] \notin {"block", "trailers"},
         \A t \in StreamIds : t # s => client'[t] = client[t] /\ datas'[t] = datas[t]
  PROVE  /\ OthersUntouched(s)
         /\ \A n : ~Open(n) /\ ~Open(n)'
         /\ \A t : BlocksOf(t)' = BlocksOf(t)
         /\ \A t : Waiting(t)' <=> Waiting(t)
         /\ \A n : WholeBlock(n)' = WholeBlock(n)
         /\ \A n : Decoded(n)' <=> Decoded(n)
         /\ \A t : Done(t)' <=> Done(t)
         /\ streams' = streams
<1>1. \A t : BlocksOf(t)' = BlocksOf(t)
  BY DEF BlocksOf
<1>2. \A n : WholeBlock(n)' = WholeBlock(n)
  BY DEF WholeBlock
<1>3. \A n : Decoded(n)' <=> Decoded(n)
  BY DEF Decoded, serverVars, blockVars
<1>4. (\A t : Done(t)' <=> Done(t)) /\ streams' = streams
  BY DEF Done, serverVars, historyVars
<1>5. \A t : Waiting(t)' <=> Waiting(t)
  BY <1>1, <1>3 DEF Waiting
<1>6. InBlock' = {}
  BY DEF InBlock
<1>7. \A n : ~Open(n) /\ ~Open(n)'
  BY <1>6 DEF Open
<1>8. OthersUntouched(s)
  BY <1>1, <1>2, <1>3, <1>4 DEF OthersUntouched, Untouched
<1> QED
  BY <1>1, <1>2, <1>3, <1>4, <1>5, <1>7, <1>8

LEMMA BodyLengths ==
  ASSUME TypeOK, RequestState, NEW s \in StreamIds
  PROVE  /\ datas[s] \in Nat /\ Got(s) \in Nat /\ Got(s) <= datas[s]
         /\ streams[s] # None => /\ streams[s].body \in Seq(Loads)
                                 /\ streams[s].fields \in Seq(Loads)
                                 /\ Len(streams[s].body) \in Nat
<1>1. datas[s] \in Nat
  BY Http2Assumption DEF TypeOK
<1>2. CASE streams[s] = None
  BY <1>1, <1>2 DEF Got
<1>3. CASE streams[s] # None
  <2>1. streams[s] \in [fields : Seq(Loads), body : Seq(Loads)]
    BY <1>3 DEF TypeOK
  <2>2. streams[s].body \in Seq(Loads) /\ streams[s].fields \in Seq(Loads)
    BY <2>1
  <2>3. Len(streams[s].body) \in Nat
    BY <2>2
  <2>4. Len(streams[s].body) <= datas[s]
    BY <1>3 DEF RequestState, StreamInv, Kept
  <2> QED
    BY <1>1, <1>3, <2>2, <2>3, <2>4 DEF Got
<1> QED
  BY <1>2, <1>3

LEMMA RequestHasBody ==
  ASSUME TypeOK, BlockInv(Wire), RequestInv(Wire), rogue = 0, UNCHANGED serverVars,
         NEW s \in StreamIds, NEW endStream \in BOOLEAN, SendData(s, endStream)
  PROVE  RequestInv(Wire)'
<1>0. /\ UNCHANGED <<rxBuf, streams, decoded, headersStream, headersEnd, handled>>
      /\ RequestState
  BY DEF serverVars, blockVars, historyVars, RequestInv
<1>1. PICK d : d = datas[s] + 1
  OBVIOUS
<1>2. /\ client[s] = "open" /\ InBlock = {} /\ UNCHANGED <<blocks, ending>>
      /\ client'[s] = IF endStream THEN "ended" ELSE "open"
      /\ datas'[s] = d
      /\ \A t \in StreamIds : t # s => client'[t] = client[t] /\ datas'[t] = datas[t]
      /\ Put(Frame("data", s, endStream, FALSE, <<0, d, s>>))
  BY <1>1 DEF SendData, MayWrite, TypeOK
<1>3. /\ datas[s] \in Nat /\ d \in Nat \ {0} /\ d > datas[s]
      /\ Got(s) \in Nat /\ Got(s) <= datas[s] /\ Got(s)' = Got(s)
      /\ streams[s] # None => Len(streams[s].body) = Got(s)
  BY <1>0, <1>1, BodyLengths DEF Got
<1>4. /\ OthersUntouched(s)
      /\ \A n : ~Open(n) /\ ~Open(n)'
      /\ BlocksOf(s)' = BlocksOf(s)
      /\ Waiting(s)' <=> Waiting(s)
      /\ \A n : WholeBlock(n)' = WholeBlock(n)
      /\ \A n : Decoded(n)' <=> Decoded(n)
      /\ Done(s)' <=> Done(s)
  BY <1>2, NoBlockBegins
<1>5. StreamInv(s) /\ Pending(s) /\ Pending(s)'
  BY <1>0, <1>2, <1>4 DEF RequestState, StreamInv, Pending
<1>6. SameEnds
  <2>1. SUFFICES ASSUME NEW m \in DOMAIN blocks, NEW e, EndMatches(m, e)
                 PROVE  EndMatches(m, e)'
    BY DEF SameEnds
  <2>2. blocks[m].id \in StreamIds
    BY BlocksType
  <2>3. CASE blocks[m].id = s
    BY <1>2, <1>3, <1>4, <2>1, <2>3 DEF EndMatches, Ended
  <2>4. CASE blocks[m].id # s
    BY <1>2, <1>4, <2>1, <2>2, <2>4 DEF EndMatches, Ended
  <2> QED
    BY <2>3, <2>4
<1>7. ASSUME NEW st, st = streams[s], st # None
      PROVE  Kept(s, st)'
  <2>1. Kept(s, st) /\ Len(st.body) = Got(s)
    BY <1>3, <1>5, <1>7 DEF StreamInv
  <2>2. Len(st.body) <= datas'[s] /\ Len(st.body) < datas'[s]
    BY <1>2, <1>3, <2>1
  <2>3. client'[s] \in {"open", "ended", "reset"}
    BY <1>2
  <2> QED
    BY <1>4, <2>1, <2>2, <2>3 DEF Kept
<1>8. StreamInv(s)'
  <2>1. client'[s] \notin {"idle", "block", "trailers"}
    BY <1>2
  <2> QED
    BY <1>0, <1>4, <1>5, <1>7, <2>1 DEF StreamInv
<1>9. PICK f \in Frames : f = Frame("data", s, endStream, FALSE, <<0, d, s>>)
  <2>1. <<0, d, s>> \in Loads
    BY <1>3, LoadType
  <2>2. s \in StreamIds \cup {0}
    OBVIOUS
  <2> QED
    BY <2>1, <2>2, FrameType DEF FrameTypes
<1>10. /\ f.type = "data" /\ f.id = s /\ f.load = <<0, d, s>> /\ f.endStream = endStream
       /\ Wire' = Wire \o CellsOf(f)
  BY <1>0, <1>2, <1>9, PutWire DEF Frame
<1>11. \A x : Missing(s, x)' <=> Missing(s, x) \/ x = d
  <2>1. \A x : x \in (Got(s) + 1)..d <=> x \in (Got(s) + 1)..datas[s] \/ x = d
    BY <1>1, <1>3
  <2> QED
    BY <1>2, <1>3, <1>5, <2>1 DEF Missing
<1>12. Proper(f)'
  <2>1. ProperData(f, s, d)'
    BY <1>2, <1>10, <1>11 DEF ProperData, Ended
  <2> QED
    BY <1>10, <2>1 DEF Proper
<1>13. ASSUME NEW g, g.id = s, Late(g), Proper(g)
       PROVE  Proper(g)' /\ MayFollow(g, f)
  <2>1. g.type = "data"
    BY <1>2, <1>13 DEF Late, Proper, ProperReset
  <2>2. PICK x : x = g.load[2]
    OBVIOUS
  <2>3. ProperData(g, s, x)
    BY <1>13, <2>1, <2>2 DEF Proper
  <2>4. x < d /\ x # d
    BY <1>3, <2>3 DEF ProperData, Missing
  <2>5. ~g.endStream
    BY <1>2, <2>3 DEF ProperData, Ended
  <2>6. ProperData(g, s, x)'
    BY <1>2, <1>11, <2>3, <2>4, <2>5 DEF ProperData
  <2>7. Proper(g)'
    BY <1>13, <2>1, <2>2, <2>6 DEF Proper
  <2>8. MayFollow(g, f)
    BY <1>10, <2>1, <2>2, <2>4 DEF MayFollow, Late
  <2> QED
    BY <2>7, <2>8
<1>14. Yields(s, f)
  BY <1>13 DEF Yields
<1>15. MissingButOf(s, f)
  BY <1>10, <1>11 DEF MissingButOf, IsPiece
<1>16. ~ResetDue(s)'
  BY <1>2 DEF ResetDue
<1>17. \A h : h.id = s /\ AsSent(h) => AsSent(h)'
  BY <1>2 DEF AsSent, Ended
<1> QED
  BY <1>0, <1>4, <1>6, <1>8, <1>10, <1>12, <1>14, <1>15, <1>16, <1>17, PutTouched

LEMMA RequestIsReset ==
  ASSUME TypeOK, BlockInv(Wire), RequestInv(Wire), rogue = 0, UNCHANGED serverVars,
         NEW s \in StreamIds, SendReset(s)
  PROVE  RequestInv(Wire)'
<1>0. /\ UNCHANGED <<rxBuf, streams, decoded, headersStream, headersEnd, handled>>
      /\ RequestState
  BY DEF serverVars, blockVars, historyVars, RequestInv
<1>1. /\ client[s] \in {"open", "ended"} /\ InBlock = {} /\ UNCHANGED <<blocks, ending, datas>>
      /\ client'[s] = "reset"
      /\ \A t \in StreamIds : t # s => client'[t] = client[t] /\ datas'[t] = datas[t]
      /\ Put(Plain("rst", s))
  BY DEF SendReset, MayWrite, TypeOK
<1>2. /\ OthersUntouched(s)
      /\ \A n : ~Open(n) /\ ~Open(n)'
      /\ BlocksOf(s)' = BlocksOf(s)
      /\ Waiting(s)' <=> Waiting(s)
      /\ \A n : WholeBlock(n)' = WholeBlock(n)
      /\ \A n : Decoded(n)' <=> Decoded(n)
      /\ Done(s)' <=> Done(s)
  BY <1>1, NoBlockBegins
<1>3. StreamInv(s) /\ (Pending(s)' <=> Pending(s)) /\ (\A x : Missing(s, x)' <=> Missing(s, x))
  BY <1>0, <1>1, <1>2 DEF RequestState, Pending, Missing, Got
<1>4. SameEnds
  <2>1. SUFFICES ASSUME NEW m \in DOMAIN blocks, NEW e, EndMatches(m, e)
                 PROVE  EndMatches(m, e)'
    BY DEF SameEnds
  <2>2. blocks[m].id \in StreamIds
    BY BlocksType
  <2>3. CASE blocks[m].id = s
    BY <1>1, <1>2, <2>1, <2>3 DEF EndMatches, Ended
  <2>4. CASE blocks[m].id # s
    BY <1>1, <1>2, <2>1, <2>2, <2>4 DEF EndMatches, Ended
  <2> QED
    BY <2>3, <2>4
<1>5. \A st : Kept(s, st) => Kept(s, st)'
  BY <1>1, <1>2 DEF Kept
<1>6. StreamInv(s)'
  BY <1>0, <1>1, <1>2, <1>3, <1>5 DEF StreamInv
<1>7. PICK f \in Frames : f = Plain("rst", s)
  BY PlainType DEF FrameTypes
<1>8. f.type = "rst" /\ f.id = s /\ Wire' = Wire \o CellsOf(f)
  BY <1>0, <1>1, <1>7, PutWire DEF Plain, Frame
<1>9. Proper(f)'
  BY <1>1, <1>8 DEF Proper, ProperReset
<1>10. ASSUME NEW g, g.id = s, Late(g), Proper(g)
       PROVE  Proper(g)' /\ MayFollow(g, f)
  <2>1. g.type = "data"
    BY <1>1, <1>10 DEF Late, Proper, ProperReset
  <2>2. PICK x : x = g.load[2]
    OBVIOUS
  <2>3. ProperData(g, s, x)
    BY <1>10, <2>1, <2>2 DEF Proper
  <2>4. ProperData(g, s, x)'
    BY <1>1, <1>3, <2>3 DEF ProperData, Ended
  <2>5. Proper(g)'
    BY <1>10, <2>1, <2>2, <2>4 DEF Proper
  <2>6. MayFollow(g, f)
    BY <1>8, <2>1 DEF MayFollow, Late
  <2> QED
    BY <2>5, <2>6
<1>11. Yields(s, f)
  BY <1>10 DEF Yields
<1>12. MissingButOf(s, f)
  BY <1>3 DEF MissingButOf
<1>13. IsReset(f, s)
  BY <1>8 DEF IsReset
<1>14. \A h : h.id = s /\ AsSent(h) => AsSent(h)'
  BY <1>1, <1>2, <1>3 DEF AsSent, Ended
<1> QED
  BY <1>0, <1>2, <1>4, <1>6, <1>8, <1>9, <1>11, <1>12, <1>13, <1>14, PutTouched

(* What the client does.                                                   *)
LEMMA ClientRequests ==
  ASSUME ~Trailers, TypeOK, ClientInv, BlockInv(Wire), RequestInv(Wire),
         Client, UNCHANGED serverVars
  PROVE  RequestInv(Wire)'
<1> SUFFICES ASSUME rogue' = 0 PROVE RequestInv(Wire)'
  BY DEF RequestInv
<1>1. rogue = 0 /\ ~\E f \in RogueFrames : SendRogue(f)
  <2>1. rogue \in Nat
    BY Http2Assumption DEF TypeOK
  <2>2. rogue' = rogue \/ rogue' = rogue + 1
    BY DEF Client, SendHeaders, SendTrailers, SendContinuation, SendData, SendReset,
       SendPing, SendGoAway, SendRogue, ClientClose
  <2>3. \A f \in RogueFrames : SendRogue(f) => rogue' = rogue + 1
    BY DEF SendRogue
  <2> QED
    BY <2>1, <2>2, <2>3
<1>2. \A s, endHeaders : ~SendTrailers(s, endHeaders)
  BY DEF SendTrailers
<1>3. ASSUME SendPing \/ SendGoAway
      PROVE  RequestInv(Wire)'
  <2>1. PICK type \in {"ping", "other", "goaway"} : Put(Plain(type, 0))
    BY <1>3 DEF SendPing, SendGoAway
  <2>2. PICK f \in Frames : f = Plain(type, 0)
    BY PlainType DEF FrameTypes
  <2>3. f.type = type /\ f.id = 0
    BY <2>2 DEF Plain, Frame
  <2>4. UNCHANGED requestState /\ UNCHANGED rxBuf
    BY <1>3 DEF SendPing, SendGoAway, requestState, serverVars, blockVars, historyVars
  <2>5. Wire' = Wire \o CellsOf(f)
    BY <2>1, <2>2, <2>4, PutWire
  <2>6. f.id \notin StreamIds
    BY <2>3, Http2Assumption
  <2> QED
    BY <1>1, <2>3, <2>4, <2>5, <2>6, PutAside
<1>4. CASE ClientClose
  <2>1. UNCHANGED requestState /\ Wire' = Wire
    BY <1>4 DEF ClientClose, requestState, Wire, serverVars, blockVars, historyVars
  <2> QED
    BY <1>1, <2>1, StayRequests
<1> QED
  BY <1>1, <1>2, <1>3, <1>4, RequestBegins, RequestGoesOn, RequestHasBody, RequestIsReset
  DEF Client

(* A block that is not decoded has its last fragment under way.            *)
LEMMA HeaderBlockComes ==
  ASSUME TypeOK, BlockInv(Wire), rogue = 0,
         NEW n \in DOMAIN blocks, ~Decoded(n), ~Open(n)
  PROVE  \E k \in Heads(Wire) : Fragment(Wire[k].of) /\ Wire[k].of.id = blocks[n].id
<1>0. /\ n \in 1..Len(blocks) /\ n \in Nat /\ decoded \in Nat /\ n > decoded
      /\ blocks[n].parts \in Nat \ {0}
      /\ Len(headersBlock) \in Nat
      /\ headersStream = 0 => headersBlock = <<>>
  BY BlocksType DEF TypeOK, Decoded
<1>1. PICK p \in Nat \ {0} : p = blocks[n].parts
  BY <1>0
<1>2. AllLawful(Wire) /\ AllDue(Wire) /\ BlockState
  BY DEF BlockInv
<1>3. n = decoded + 1 => p > Len(headersBlock)
  <2>1. CASE headersStream = 0
    <3>1. Len(headersBlock) = 0
      BY <1>0, <2>1
    <3> QED
      BY <1>1, <3>1
  <2>2. CASE headersStream # 0 /\ n = decoded + 1
    <3>1. Len(headersBlock) <= p /\ Len(headersBlock) # p
      BY <1>1, <1>2, <2>2 DEF BlockState
    <3> QED
      BY <1>0, <3>1
  <2> QED
    BY <2>1, <2>2
<1>4. Due(n, p)
  BY <1>0, <1>1, <1>3 DEF Due
<1>5. PICK k \in Heads(Wire) : Carries(Wire[k].of, n, p)
  BY <1>0, <1>2, <1>4 DEF AllDue
<1>6. PICK f : f = Wire[k].of
  OBVIOUS
<1>7. Fragment(f) /\ f.load = <<n, p, f.id>> /\ Lawful(f)
  BY <1>2, <1>5, <1>6 DEF Carries, AllLawful
<1>8. f.id = blocks[n].id
  BY <1>7 DEF Lawful, LawfulPart
<1> QED
  BY <1>6, <1>7, <1>8

(* A DATA or RST_STREAM frame at the head of the wire finds the header     *)
(* block of its stream decoded; a DATA frame finds its stream.             *)
LEMMA HeadIsLate ==
  ASSUME TypeOK, WireInv(Wire), ClientInv, Wire # <<>>, BlockInv(Wire),
         RequestInv(Wire), rogue = 0, NEW f, f = Wire[1].of, Late(f)
  PROVE  /\ f.id \in StreamIds /\ Proper(f) /\ Lawful(f)
         /\ ~Waiting(f.id)
         /\ f.type = "data" => streams[f.id] # None
<1>1. /\ 1 \in Heads(Wire) /\ \A k \in Heads(Wire) : k = 1 \/ 1 < k
  BY WireType DEF WireInv, Aligned, Heads
<1>2. Proper(f) /\ Lawful(f) /\ AllFollow(Wire)
  BY <1>1 DEF RequestInv, AllProper, BlockInv, AllLawful
<1>3. PICK s : s = f.id
  OBVIOUS
<1>4. s \in StreamIds /\ client[s] \in {"open", "ended", "reset"}
  BY <1>2, <1>3 DEF Late, Proper, ProperData, ProperReset
<1>5. ~Waiting(s)
  <2>1. SUFFICES ASSUME NEW n \in BlocksOf(s), ~Decoded(n) PROVE FALSE
    BY DEF Waiting
  <2>2. n \in DOMAIN blocks /\ blocks[n].id = s
    BY <2>1 DEF BlocksOf
  <2>3. ~Open(n)
    <3>1. InBlock # {} => InBlock = {blocks[Len(blocks)].id}
      BY DEF ClientInv
    <3>2. s \notin InBlock
      BY <1>4 DEF InBlock
    <3> QED
      BY <2>2, <3>1, <3>2 DEF Open
  <2>4. PICK k \in Heads(Wire) : Fragment(Wire[k].of) /\ Wire[k].of.id = s
    BY <2>1, <2>2, <2>3, HeaderBlockComes
  <2>5. k # 1
    BY <2>4 DEF Late, Fragment
  <2>6. MayFollow(f, Wire[k].of)
    BY <1>1, <1>2, <2>5 DEF AllFollow
  <2>7. Late(Wire[k].of)
    BY <1>3, <2>4, <2>6 DEF MayFollow
  <2> QED
    BY <2>4, <2>7 DEF Late, Fragment
<1>6. f.type = "data" => streams[s] # None
  BY <1>2, <1>3, <1>5 DEF Proper, ProperData, Missing, Pending
<1> QED
  BY <1>2, <1>3, <1>4, <1>5, <1>6

(* A request is handled.                                                   *)
Requests == [id : StreamIds, fields : Seq(Loads), body : Seq(Loads)]
OldSent == \A i \in DOMAIN handled : \A h : h = handled[i] /\ AsSent(h) => AsSent(h)'

LEMMA OneMoreDone ==
  ASSUME TypeOK, NEW h \in Requests, handled' = Append(handled, h)
  PROVE  \A t : Done(t)' <=> Done(t) \/ t = h.id
<1>1. handled \in Seq(Requests)
  BY DEF TypeOK, Requests
<1>2. PICK n \in Nat : n = Len(handled)
  BY <1>1
<1>3. /\ DOMAIN handled = 1..n /\ DOMAIN handled' = 1..(n + 1)
      /\ \A i \in 1..n : handled'[i] = handled[i]
      /\ handled'[n + 1] = h
  BY <1>1, <1>2, AppendProperties
<1>4. /\ \A i \in 1..(n + 1) : i \in 1..n \/ i = n + 1
      /\ \A i \in 1..n : i \in 1..(n + 1)
      /\ n + 1 \in 1..(n + 1)
  OBVIOUS
<1> QED
  BY <1>3, <1>4 DEF Done

LEMMA OneMoreSent ==
  ASSUME TypeOK, NEW h \in Requests, handled' = Append(handled, h),
         AllSent, ~Done(h.id), AsSent(h)', OldSent
  PROVE  AllSent'
<1>1. handled \in Seq(Requests)
  BY DEF TypeOK, Requests
<1>2. PICK n \in Nat : n = Len(handled)
  BY <1>1
<1>3. /\ DOMAIN handled = 1..n /\ DOMAIN handled' = 1..(n + 1)
      /\ \A i \in 1..n : handled'[i] = handled[i]
      /\ handled'[n + 1] = h
  BY <1>1, <1>2, AppendProperties
<1>4. /\ \A i \in 1..(n + 1) : i \in 1..n \/ i = n + 1
      /\ \A i \in 1..n : i \in 1..(n + 1)
      /\ n + 1 \in 1..(n + 1)
  OBVIOUS
<1>5. \A i \in 1..n : handled[i].id # h.id
  BY <1>3 DEF Done
<1>6. \A i \in DOMAIN handled' : \A j \in DOMAIN handled' :
        handled'[i].id = handled'[j].id => i = j
  BY <1>3, <1>4, <1>5 DEF AllSent
<1>7. (\A i \in DOMAIN handled : AsSent(handled[i]))'
  <2>1. ASSUME NEW i \in 1..(n + 1) PROVE AsSent(handled[i])'
    <3>1. CASE i = n + 1
      <4>1. handled'[i] = h
        BY <1>3, <3>1
      <4> QED
        BY <4>1
    <3>2. CASE i \in 1..n
      <4>1. PICK g : g = handled[i]
        OBVIOUS
      <4>2. AsSent(g)'
        BY <1>3, <3>2, <4>1 DEF AllSent, OldSent
      <4>3. handled'[i] = g
        BY <1>3, <3>2, <4>1
      <4> QED
        BY <4>2, <4>3
    <3> QED
      BY <1>4, <3>1, <3>2
  <2> QED
    BY <1>3, <2>1
<1> QED
  BY <1>6, <1>7 DEF AllSent

LEMMA OldStaySent ==
  ASSUME TypeOK, NEW s, OthersUntouched(s), \A h : h.id = s /\ AsSent(h) => AsSent(h)'
  PROVE  OldSent
<1>1. ASSUME NEW i \in DOMAIN handled, NEW h, h = handled[i], AsSent(h)
      PROVE  AsSent(h)'
  <2>1. h.id \in StreamIds
    BY <1>1, HandledType
  <2> QED
    BY <1>1, <2>1, UntouchedSent DEF OthersUntouched
<1> QED
  BY <1>1 DEF OldSent

(* A frame of stream s is handled.                                         *)
Passes(s, f) ==
  \A g : g.id = s /\ Late(g) /\ Proper(g) /\ (Late(f) => MayFollow(f, g)) => Proper(g)'
MissingNotOf(s, f) == \A d \in Nat : Missing(s, d)' => Missing(s, d) /\ ~IsPiece(f, s, d)

LEMMA DropTouched ==
  ASSUME TypeOK, WireInv(Wire), Wire # <<>>, BlockInv(Wire), RequestInv(Wire), rogue = 0,
         NEW f, f = Wire[1].of, Wire' = Drop(Wire, FrameLen(f)),
         NEW s \in StreamIds, f.id = s, OthersUntouched(s),
         UNCHANGED <<client, blocks, datas, ending>>,
         Passes(s, f), MissingNotOf(s, f),
         ResetDue(s)' => ResetDue(s) /\ ~IsReset(f, s),
         StreamInv(s)', HeldEnd', AllSent'
  PROVE  RequestInv(Wire)'
<1>1. \A n, e : EndMatches(n, e)' <=> EndMatches(n, e)
  BY DEF EndMatches, Open, InBlock, Ended
<1>2. ASSUME NEW g, Lawful(g), Proper(g), Late(f) => MayFollow(f, g)
      PROVE  Proper(g)'
  <2>1. CASE Late(g)
    <3>1. g.id \in StreamIds
      BY <1>2, <2>1 DEF Late, Proper, ProperData, ProperReset
    <3> QED
      BY <1>2, <2>1, <3>1, UntouchedFrame DEF Passes, OthersUntouched
  <2>2. CASE ~Late(g)
    BY <1>1, <1>2, <2>2 DEF Proper, Late
  <2> QED
    BY <2>1, <2>2
<1>3. LeftProper(f)
  BY <1>2 DEF LeftProper
<1>4. MissingNot(f)
  BY UntouchedState DEF MissingNot, MissingNotOf, OthersUntouched, IsPiece
<1>5. ResetsNot(f)
  BY UntouchedState DEF ResetsNot, OthersUntouched, IsReset
<1>6. \A t \in StreamIds : StreamInv(t)'
  BY UntouchedStream DEF RequestInv, RequestState, OthersUntouched
<1>7. RequestState'
  BY <1>6 DEF RequestState
<1> QED
  BY <1>3, <1>4, <1>5, <1>7, DropRequestInv

LEMMA ServerUntouched ==
  ASSUME UNCHANGED <<client, blocks, datas>>, NEW t, streams'[t] = streams[t],
         \A n \in BlocksOf(t) : Decoded(n)' <=> Decoded(n), Done(t)' <=> Done(t)
  PROVE  Untouched(t)
BY DEF Untouched, BlocksOf, WholeBlock

(* RST_STREAM: nothing more comes of the stream.                           *)
LEMMA ResetHandled ==
  ASSUME TypeOK, ClientInv, WireInv(Wire), Wire # <<>>, BlockInv(Wire),
         RequestInv(Wire), rogue = 0,
         NEW f, f = Wire[1].of, f.type = "rst", Wire' = Drop(Wire, FrameLen(f)),
         NEW s, s = f.id, streams' = [streams EXCEPT ![s] = None],
         UNCHANGED <<client, blocks, datas, ending, decoded, headersStream, headersEnd,
                     handled>>
  PROVE  RequestInv(Wire)'
<1>1. s \in StreamIds /\ Proper(f) /\ ~Waiting(s)
  BY HeadIsLate DEF Late
<1>2. client[s] = "reset"
  BY <1>1 DEF Proper, ProperReset
<1>3. streams'[s] = None /\ \A t \in StreamIds : t # s => streams'[t] = streams[t]
  BY <1>1 DEF TypeOK
<1>4. /\ \A t : BlocksOf(t)' = BlocksOf(t)
      /\ \A n : Decoded(n)' <=> Decoded(n)
      /\ \A t : Done(t)' <=> Done(t)
      /\ \A n : WholeBlock(n)' = WholeBlock(n)
  BY DEF BlocksOf, Decoded, Done, WholeBlock
<1>5. OthersUntouched(s)
  BY <1>3, <1>4, ServerUntouched DEF OthersUntouched
<1>6. ~Pending(s)'
  BY <1>1, <1>3, <1>4 DEF Pending, Waiting
<1>7. Passes(s, f)
  BY DEF Passes, Late, MayFollow
<1>8. MissingNotOf(s, f) /\ ~ResetDue(s)'
  BY <1>6 DEF MissingNotOf, Missing, ResetDue
<1>9. RequestState
  BY DEF RequestInv
<1>10. StreamInv(s)'
  <2>1. StreamInv(s)
    BY <1>1, <1>9 DEF RequestState
  <2>2. /\ client'[s] = client[s] /\ datas'[s] = datas[s]
        /\ BlocksOf(s)' = BlocksOf(s)
    BY <1>4
  <2> QED
    BY <1>2, <1>3, <2>1, <2>2 DEF StreamInv
<1>11. HeldEnd'
  BY <1>9 DEF RequestState, HeldEnd, EndMatches, Open, InBlock, Ended
<1>12. \A h : h.id = s /\ AsSent(h) => AsSent(h)'
  BY <1>4, <1>6 DEF AsSent, Ended
<1>13. AllSent'
  BY <1>5, <1>9, <1>12, OldStaySent, StillSent DEF RequestState, OldSent
<1> QED
  BY <1>1, <1>5, <1>7, <1>8, <1>10, <1>11, <1>13, DropTouched

(* DATA of a known stream carries the next piece of its body.              *)
LEMMA NextPiece ==
  ASSUME TypeOK, ClientInv, WireInv(Wire), Wire # <<>>, BlockInv(Wire),
         RequestInv(Wire), rogue = 0, NEW f, f = Wire[1].of, f.type = "data",
         NEW s, s = f.id
  PROVE  /\ s \in StreamIds /\ streams[s] # None /\ ~Waiting(s) /\ ~f.bad
         /\ f.load = <<0, Got(s) + 1, s>>
         /\ Got(s) = Len(streams[s].body)
         /\ ProperData(f, s, Got(s) + 1)
<1>1. s \in StreamIds /\ Proper(f) /\ Lawful(f) /\ ~Waiting(s) /\ streams[s] # None
  BY HeadIsLate DEF Late
<1>2. PICK d : d = f.load[2]
  OBVIOUS
<1>3. ProperData(f, s, d)
  BY <1>1, <1>2 DEF Proper
<1>4. PICK c \in Nat : c = Got(s)
  BY <1>1, BodyLengths DEF RequestInv
<1>5. PICK D \in Nat : D = datas[s]
  BY <1>1, BodyLengths DEF RequestInv
<1>6. d \in (c + 1)..D /\ d \in Nat /\ c + 1 \in (c + 1)..D /\ c + 1 \in Nat
  <2>1. d \in (c + 1)..D
    BY <1>3, <1>4, <1>5 DEF ProperData, Missing
  <2> QED
    BY ONLY <2>1, c \in Nat, D \in Nat
<1>7. Missing(s, c + 1)
  BY <1>3, <1>4, <1>5, <1>6 DEF ProperData, Missing
<1>8. PICK k \in Heads(Wire) : IsPiece(Wire[k].of, s, c + 1)
  BY <1>1, <1>6, <1>7 DEF RequestInv, AllMissing
<1>9. 1 \in Heads(Wire) /\ (k = 1 \/ 1 < k)
  BY WireType DEF WireInv, Aligned, Heads
<1>10. d = c + 1
  <2>1. CASE k = 1
    BY <1>2, <1>8, <2>1 DEF IsPiece
  <2>2. CASE 1 < k
    <3>1. MayFollow(f, Wire[k].of)
      BY <1>9, <2>2 DEF RequestInv, AllFollow, Late
    <3>2. d < c + 1
      BY <1>2, <1>8, <3>1 DEF IsPiece, MayFollow
    <3> QED
      BY <1>6, <3>2
  <2> QED
    BY <1>9, <2>1, <2>2
<1>11. ~f.bad
  BY <1>1 DEF Lawful
<1>12. f.load = <<0, d, s>>
  BY <1>3 DEF ProperData
<1>13. Got(s) = Len(streams[s].body)
  BY <1>1 DEF Got
<1> QED
  BY <1>1, <1>3, <1>4, <1>10, <1>11, <1>12, <1>13

(* The body with that piece.                                               *)
BodyWith(s, f) == Append(streams[s].body, f.load)

LEMMA LongerBody ==
  ASSUME TypeOK, ClientInv, WireInv(Wire), Wire # <<>>, BlockInv(Wire),
         RequestInv(Wire), rogue = 0, NEW f, f = Wire[1].of, f.type = "data",
         NEW s, s = f.id, NEW body, body = BodyWith(s, f)
  PROVE  /\ body \in Seq(Loads) /\ Len(body) = Got(s) + 1
         /\ DOMAIN body = 1..(Got(s) + 1)
         /\ \A k \in 1..(Got(s) + 1) : body[k] = <<0, k, s>>
<1>0. RequestState
  BY DEF RequestInv
<1>1. /\ s \in StreamIds /\ streams[s] # None
      /\ f.load = <<0, Got(s) + 1, s>> /\ Got(s) = Len(streams[s].body)
  BY NextPiece
<1>2. PICK c : c = Got(s)
  OBVIOUS
<1>3. PICK b : b = streams[s].body
  OBVIOUS
<1>4. c \in Nat /\ b \in Seq(Loads) /\ Len(b) = c
  BY <1>0, <1>1, <1>2, <1>3, BodyLengths
<1>5. StreamInv(s)
  BY <1>0, <1>1 DEF RequestState
<1>6. \A k \in DOMAIN b : b[k] = <<0, k, s>>
  <2>1. Kept(s, streams[s])
    BY <1>1, <1>5 DEF StreamInv
  <2>2. PICK st : st = streams[s]
    OBVIOUS
  <2>3. Kept(s, st)
    BY <2>1, <2>2
  <2>4. b = st.body
    BY <1>3, <2>2
  <2> QED
    BY ONLY <2>3, <2>4 DEF Kept
<1>7. PICK l \in Loads : l = <<0, c + 1, s>> /\ l = f.load
  <2>1. <<0, c + 1, s>> \in Loads
    BY <1>1, <1>4, LoadType
  <2> QED
    BY <1>1, <1>2, <2>1
<1>8. DOMAIN b = 1..c
  BY <1>4
<1>9. body = Append(b, l)
  <2>1. body = Append(streams[s].body, f.load)
    BY ONLY body = BodyWith(s, f) DEF BodyWith
  <2> QED
    BY ONLY <1>3, <1>7, <2>1
<1>10. /\ body \in Seq(Loads) /\ Len(body) = c + 1 /\ DOMAIN body = 1..(c + 1)
       /\ \A k \in 1..c : body[k] = b[k]
       /\ body[c + 1] = l
  BY ONLY <1>4, <1>8, <1>9, <1>7, AppendProperties
<1>11. \A k \in 1..(c + 1) : k \in 1..c \/ k = c + 1
  BY ONLY <1>4
<1>12. \A k \in 1..(c + 1) : body[k] = <<0, k, s>>
  BY <1>6, <1>7, <1>8, <1>10, <1>11
<1> QED
  BY <1>2, <1>10, <1>12

(* Steps of the server that leave the client and the decoder alone.        *)
streamless == <<client, blocks, datas, ending, decoded, headersStream, headersEnd>>

LEMMA OnlyStreams ==
  ASSUME UNCHANGED streamless
  PROVE  /\ \A t : BlocksOf(t)' = BlocksOf(t)
         /\ \A n : Decoded(n)' <=> Decoded(n)
         /\ \A n : WholeBlock(n)' = WholeBlock(n)
         /\ \A t : Waiting(t)' <=> Waiting(t)
         /\ \A t : Ended(t)' <=> Ended(t)
         /\ HeldEnd => HeldEnd'
<1>1. /\ \A t : BlocksOf(t)' = BlocksOf(t)
      /\ \A n : Decoded(n)' <=> Decoded(n)
      /\ \A n : WholeBlock(n)' = WholeBlock(n)
      /\ \A t : Ended(t)' <=> Ended(t)
  BY DEF streamless, BlocksOf, Decoded, WholeBlock, Ended
<1>2. \A t : Waiting(t)' <=> Waiting(t)
  BY <1>1 DEF Waiting
<1>3. \A n, e : EndMatches(n, e)' <=> EndMatches(n, e)
  BY <1>1 DEF EndMatches, Open, InBlock, streamless
<1>4. HeldEnd => HeldEnd'
  BY <1>3 DEF HeldEnd, streamless
<1> QED
  BY <1>1, <1>2, <1>4

(* It is kept in the table.                                                *)
Stored(s, body) == streams' = [streams EXCEPT ![s].body = body]

LEMMA StoredFacts ==
  ASSUME TypeOK, NEW s \in StreamIds, streams[s] # None, NEW body \in Seq(Loads),
         Stored(s, body)
  PROVE  /\ streams'[s] # None
         /\ streams'[s].body = body /\ streams'[s].fields = streams[s].fields
         /\ \A t \in StreamIds : t # s => streams'[t] = streams[t]
<1> DEFINE R == [fields : Seq(Loads), body : Seq(Loads)]
<1>1. PICK st \in R : st = streams[s]
  BY DEF TypeOK
<1>2. streams'[s] = [st EXCEPT !.body = body]
  BY <1>1 DEF Stored, TypeOK
<1>3. PICK new : new = [st EXCEPT !.body = body]
  OBVIOUS
<1>4. new \in R /\ new.body = body /\ new.fields = st.fields
  BY <1>3
<1>5. None \notin R
  BY NoneIsNoStream
<1>6. \A t \in StreamIds : t # s => streams'[t] = streams[t]
  BY DEF Stored, TypeOK
<1> HIDE DEF R
<1> QED
  BY <1>1, <1>2, <1>3, <1>4, <1>5, <1>6

LEMMA DataStored ==
  ASSUME TypeOK, ClientInv, WireInv(Wire), Wire # <<>>, BlockInv(Wire),
         RequestInv(Wire), rogue = 0,
         NEW f, f = Wire[1].of, f.type = "data", ~f.endStream,
         Wire' = Drop(Wire, FrameLen(f)),
         NEW s, s = f.id, NEW body, body = BodyWith(s, f), Stored(s, body),
         UNCHANGED streamless, UNCHANGED handled
  PROVE  RequestInv(Wire)'
<1>0. RequestState /\ AllSent
  BY DEF RequestInv, RequestState
<1>1. /\ s \in StreamIds /\ streams[s] # None /\ ~Waiting(s)
      /\ f.load = <<0, Got(s) + 1, s>> /\ ProperData(f, s, Got(s) + 1)
  BY NextPiece
<1>2. PICK c : c = Got(s)
  OBVIOUS
<1>3. PICK D : D = datas[s]
  OBVIOUS
<1>4. c \in Nat /\ D \in Nat
  BY <1>0, <1>1, <1>2, <1>3, BodyLengths
<1>5. /\ c + 1 \in (c + 1)..D /\ client[s] \in {"open", "ended", "reset"}
      /\ client[s] = "ended" => c + 1 # D
  BY <1>1, <1>2, <1>3 DEF ProperData, Missing
<1>6. /\ body \in Seq(Loads) /\ Len(body) = c + 1 /\ DOMAIN body = 1..(c + 1)
      /\ \A k \in 1..(c + 1) : body[k] = <<0, k, s>>
  BY <1>1, <1>2, LongerBody
<1>7. PICK fields, new : fields = streams[s].fields /\ new = streams'[s]
  OBVIOUS
<1>8. /\ new # None /\ new.body = body /\ new.fields = fields
      /\ \A t \in StreamIds : t # s => streams'[t] = streams[t]
  BY <1>1, <1>6, <1>7, StoredFacts
<1>9. /\ \A t : Done(t)' <=> Done(t)
      /\ UNCHANGED <<client, blocks, datas, ending>>
  BY DEF Done, streamless
<1>10. OthersUntouched(s)
  BY <1>8, <1>9, OnlyStreams, ServerUntouched DEF OthersUntouched
<1>11. Pending(s) /\ Pending(s)'
  BY <1>1, <1>7, <1>8 DEF Pending
<1>12. Got(s)' = c + 1
  BY <1>6, <1>7, <1>8 DEF Got
<1>13. ASSUME NEW d
       PROVE  /\ Missing(s, d) <=> d \in (c + 1)..D
              /\ Missing(s, d)' <=> d \in (c + 1 + 1)..D
  BY <1>2, <1>3, <1>9, <1>11, <1>12 DEF Missing
<1>14. \A d \in (c + 1)..D : d \in Nat /\ (c + 1 < d => d \in (c + 1 + 1)..D)
  BY ONLY <1>4
<1>15. \A d \in (c + 1 + 1)..D : d \in (c + 1)..D /\ d # c + 1
  BY ONLY <1>4
<1>16. Passes(s, f)
  <2>1. SUFFICES ASSUME NEW g, g.id = s, Late(g), Proper(g), MayFollow(f, g)
                 PROVE  Proper(g)'
    BY <1>1 DEF Passes, Late
  <2>2. CASE g.type = "data"
    <3>1. PICK d : d = g.load[2]
      OBVIOUS
    <3>2. ProperData(g, s, d)
      BY <2>1, <2>2, <3>1 DEF Proper
    <3>3. c + 1 < d
      BY <1>1, <1>2, <2>1, <2>2, <3>1 DEF MayFollow
    <3>4. Missing(s, d)'
      BY <1>13, <1>14, <3>2, <3>3 DEF ProperData
    <3>5. ProperData(g, s, d)'
      BY <1>9, <3>2, <3>4 DEF ProperData, Ended
    <3> QED
      BY <2>1, <2>2, <3>1, <3>5 DEF Proper
  <2>3. CASE g.type = "rst"
    BY <1>9, <2>1, <2>3 DEF Proper, ProperReset
  <2> QED
    BY <2>1, <2>2, <2>3 DEF Late
<1>17. MissingNotOf(s, f)
  BY <1>1, <1>2, <1>13, <1>15 DEF MissingNotOf, IsPiece
<1>18. ResetDue(s)' => ResetDue(s) /\ ~IsReset(f, s)
  BY <1>9, <1>11 DEF ResetDue, IsReset
<1>19. StreamInv(s)'
  <2>1. StreamInv(s) /\ Kept(s, streams[s])
    BY <1>0, <1>1 DEF RequestState, StreamInv
  <2>2. (\E n \in BlocksOf(s) : Decoded(n) /\ fields = WholeBlock(n)) /\ ~Done(s)
    BY <1>7, <2>1 DEF Kept
  <2>3. (\E n \in BlocksOf(s) : Decoded(n) /\ fields = WholeBlock(n))' /\ ~Done(s)'
    BY <1>9, <2>2, OnlyStreams
  <2>4. c + 1 <= D /\ (client[s] = "ended" => c + 1 < D)
    BY <1>4, <1>5
  <2>5. Kept(s, new)'
    BY <1>3, <1>5, <1>6, <1>8, <1>9, <2>3, <2>4 DEF Kept
  <2>6. BlocksOf(s)' = BlocksOf(s) /\ client'[s] = client[s] /\ datas'[s] = datas[s]
    BY <1>9, OnlyStreams
  <2>7. new = streams'[s]
    BY <1>7
  <2> QED
    BY <1>11, <2>1, <2>5, <2>6, <2>7 DEF StreamInv
<1>20. HeldEnd'
  BY <1>0, OnlyStreams DEF RequestState
<1>21. AllSent'
  <2>1. \A h : h.id = s => ~AsSent(h)
    BY <1>11 DEF AsSent
  <2> QED
    BY <1>0, <1>10, <2>1, OldStaySent, StillSent DEF OldSent
<1> QED
  BY <1>1, <1>9, <1>10, <1>16, <1>17, <1>18, <1>19, <1>20, <1>21, DropTouched

(* It was the last: the request is handled.                                *)
Answered(h) == handled' = Append(handled, h)

LEMMA DataEnds ==
  ASSUME TypeOK, ClientInv, WireInv(Wire), Wire # <<>>, BlockInv(Wire),
         RequestInv(Wire), rogue = 0,
         NEW f, f = Wire[1].of, f.type = "data", f.endStream,
         Wire' = Drop(Wire, FrameLen(f)),
         NEW s, s = f.id, NEW h, Answered(h), h.id = s,
         h.fields = streams[s].fields, h.body = BodyWith(s, f), h \in Requests,
         streams' = [streams EXCEPT ![s] = None], UNCHANGED streamless
  PROVE  RequestInv(Wire)'
<1>0. RequestState
  BY DEF RequestInv
<1>1. /\ s \in StreamIds /\ streams[s] # None /\ ~Waiting(s)
      /\ ProperData(f, s, Got(s) + 1)
  BY NextPiece
<1>2. PICK D : D = datas[s]
  OBVIOUS
<1>3. /\ Got(s) + 1 = D /\ Ended(s) /\ D \in Nat
  BY <1>0, <1>1, <1>2, BodyLengths DEF ProperData
<1>4. PICK body : body = h.body
  OBVIOUS
<1>5. /\ body \in Seq(Loads) /\ DOMAIN body = 1..D
      /\ \A k \in 1..D : body[k] = <<0, k, s>>
  BY <1>3, <1>4, LongerBody
<1>6. body = [k \in 1..D |-> <<0, k, s>>]
  <2>1. body = [k \in DOMAIN body |-> body[k]]
    BY <1>5
  <2> QED
    BY <1>5, <2>1
<1>7. /\ UNCHANGED <<client, blocks, datas, ending>>
      /\ streams'[s] = None
      /\ \A t \in StreamIds : t # s => streams'[t] = streams[t]
  BY <1>1 DEF streamless, TypeOK
<1>8. \A t : Done(t)' <=> Done(t) \/ t = s
  BY OneMoreDone DEF Answered
<1>9. OthersUntouched(s)
  BY <1>7, <1>8, OnlyStreams, ServerUntouched DEF OthersUntouched
<1>10. ~Pending(s)' /\ Pending(s)
  BY <1>1, <1>7, OnlyStreams DEF Pending
<1>11. StreamInv(s) /\ Kept(s, streams[s])
  BY <1>0, <1>1 DEF RequestState, StreamInv
<1>12. AsSent(h)'
  <2>1. PICK n \in BlocksOf(s) : Decoded(n) /\ h.fields = WholeBlock(n)
    BY <1>11 DEF Kept
  <2>2. n \in BlocksOf(s)' /\ Decoded(n)' /\ h.fields = WholeBlock(n)'
    BY <2>1, OnlyStreams
  <2>3. Ended(s)' /\ datas'[s] = D
    BY <1>2, <1>3, <1>7, OnlyStreams
  <2> QED
    BY <1>4, <1>6, <1>10, <2>2, <2>3 DEF AsSent
<1>13. AllSent'
  <2>1. \A g : g.id = s => ~AsSent(g)
    BY <1>10 DEF AsSent
  <2>2. OldSent
    BY <1>9, <2>1, OldStaySent
  <2>3. ~Done(h.id)
    BY <1>11 DEF Kept
  <2> QED
    BY <1>0, <1>12, <2>2, <2>3, OneMoreSent DEF RequestState, Answered
<1>14. StreamInv(s)'
  <2>1. /\ client'[s] = client[s] /\ datas'[s] = datas[s]
        /\ BlocksOf(s)' = BlocksOf(s)
    BY <1>7, OnlyStreams
  <2> QED
    BY <1>3, <1>7, <1>11, <2>1 DEF StreamInv, Ended
<1>15. Passes(s, f)
  <2>1. SUFFICES ASSUME NEW g, g.id = s, Late(g), Proper(g), MayFollow(f, g)
                 PROVE  Proper(g)'
    BY <1>1 DEF Passes, Late
  <2>2. g.type # "data"
    <3>1. SUFFICES ASSUME g.type = "data" PROVE FALSE
      OBVIOUS
    <3>2. PICK d : d = g.load[2]
      OBVIOUS
    <3>3. Missing(s, d) /\ f.load[2] < d
      BY <2>1, <3>1, <3>2 DEF Proper, ProperData, MayFollow
    <3>4. d \in (Got(s) + 1)..D /\ f.load = <<0, Got(s) + 1, s>>
      BY <1>2, <3>3, NextPiece DEF Missing
    <3>5. d \in D..D /\ D < d
      BY <1>3, <3>3, <3>4
    <3> QED
      BY ONLY <1>3, <3>5
  <2> QED
    BY <1>7, <2>1, <2>2 DEF Late, Proper, ProperReset
<1>16. MissingNotOf(s, f) /\ ~ResetDue(s)'
  BY <1>10 DEF MissingNotOf, Missing, ResetDue
<1>17. HeldEnd'
  BY <1>0, OnlyStreams DEF RequestState
<1> QED
  BY <1>1, <1>7, <1>9, <1>13, <1>14, <1>15, <1>16, <1>17, DropTouched

(* A fragment: what was said of END_STREAM is right.                       *)
EndOf(f) == IF f.type = "headers" THEN f.endStream ELSE headersEnd

LEMMA HeadEnd ==
  ASSUME TypeOK, WireInv(Wire), Wire # <<>>, BlockInv(Wire), RequestInv(Wire), rogue = 0,
         NEW f, f = Wire[1].of, Fragment(f), NEW n, n = decoded + 1,
         NEW e, e = EndOf(f)
  PROVE  EndMatches(n, e)
<1>1. PICK p : p = Len(headersBlock) + 1
  OBVIOUS
<1>2. /\ f.load = <<n, p, f.id>> /\ f.id # 0
      /\ f.type = "continuation" => Belongs(f)
  BY <1>1, HeadPart
<1>3. CASE f.type = "headers"
  <2>1. 1 \in Heads(Wire)
    BY WireType DEF WireInv, Aligned, Heads
  <2>2. Proper(f)
    BY <2>1 DEF RequestInv, AllProper
  <2>3. f.load[1] = n
    BY <1>2
  <2> QED
    BY <1>3, <2>2, <2>3 DEF Proper, EndOf
<1>4. CASE f.type = "continuation"
  <2>1. headersStream # 0
    BY <1>2, <1>4 DEF Belongs
  <2>2. HeldEnd
    BY DEF RequestInv, RequestState
  <2> QED
    BY <1>4, <2>1, <2>2 DEF HeldEnd, EndOf
<1> QED
  BY <1>3, <1>4 DEF Fragment

LEMMA AllParts ==
  ASSUME NEW n, n = decoded + 1, NEW p, p = blocks[n].parts, NEW s, s = blocks[n].id,
         NEW block, FirstParts(block, p, s)
  PROVE  block \in Seq(Loads) /\ block = WholeBlock(n)
<1>1. /\ block \in Seq(Loads) /\ DOMAIN block = 1..p
      /\ \A k \in 1..p : block[k] = <<n, k, s>>
  BY DEF FirstParts
<1>2. block = [k \in DOMAIN block |-> block[k]]
  BY <1>1
<1>3. block = [k \in 1..p |-> <<n, k, s>>]
  BY <1>1, <1>2
<1> QED
  BY <1>1, <1>3 DEF WholeBlock

(* The last fragment of a header block: the request begins there, and the  *)
(* server knows nothing else of its stream.                                *)
LastOf(n, s, block, e) ==
  /\ s \in StreamIds /\ s # 0
  /\ n \in Nat /\ n = decoded + 1
  /\ n \in BlocksOf(s) /\ \A m \in BlocksOf(s) : m = n
  /\ ~Decoded(n) /\ Waiting(s)
  /\ streams[s] = None /\ ~Done(s)
  /\ block \in Seq(Loads) /\ block = WholeBlock(n)
  /\ client[s] \in {"open", "ended", "reset"}
  /\ e => datas[s] = 0 /\ Ended(s)
  /\ client[s] = "ended" /\ datas[s] = 0 => e

LEMMA HeadIsLast ==
  ASSUME TypeOK, ClientInv, WireInv(Wire), Wire # <<>>, BlockInv(Wire),
         RequestInv(Wire), rogue = 0,
         NEW f, f = Wire[1].of, Fragment(f), f.endHeaders,
         NEW n, n = decoded + 1, NEW s, s = f.id,
         NEW block, block = Append(headersBlock, f.load), NEW e, e = EndOf(f)
  PROVE  LastOf(n, s, block, e)
<1>0. /\ Len(blocks) \in Nat /\ DOMAIN blocks = 1..Len(blocks) /\ decoded \in Nat
  BY BlocksType
<1>1. PICK p : p = Len(headersBlock) + 1
  OBVIOUS
<1>2. /\ s \in StreamIds /\ s # 0
      /\ n \in 1..Len(blocks) /\ s = blocks[n].id
      /\ p = blocks[n].parts /\ ~Open(n)
  BY <1>1, HeadPart
<1>3. RequestState /\ StreamInv(s)
  BY <1>2 DEF RequestInv, RequestState
<1>4. n \in BlocksOf(s) /\ n \in Nat /\ ~Decoded(n)
  BY <1>0, <1>2 DEF BlocksOf, Decoded
<1>5. Waiting(s) /\ \A m \in BlocksOf(s) : m = n
  BY <1>3, <1>4 DEF Waiting, StreamInv
<1>6. streams[s] = None
  BY <1>3, <1>4, <1>5 DEF StreamInv, Kept
<1>7. ~Done(s)
  <2>1. \A i \in DOMAIN handled : AsSent(handled[i])
    BY <1>3 DEF RequestState, AllSent
  <2> QED
    BY <1>5, <2>1 DEF Done, AsSent, Pending
<1>8. block \in Seq(Loads) /\ block = WholeBlock(n)
  <2>1. FirstParts(block, p, s)
    BY <1>1, LongerBlock
  <2> QED
    BY <1>2, <2>1, AllParts
<1>9. client[s] \in {"open", "ended", "reset"}
  <2>1. client[s] \notin {"idle", "trailers"}
    BY <1>3, <1>4 DEF StreamInv
  <2>2. client[s] # "block"
    <3>1. SUFFICES ASSUME client[s] = "block" PROVE FALSE
      OBVIOUS
    <3>2. s \in InBlock
      BY <1>2, <3>1 DEF InBlock
    <3>3. blocks # <<>> /\ s = blocks[Len(blocks)].id
      BY <3>2 DEF ClientInv
    <3>4. Len(blocks) \in DOMAIN blocks
      <4>1. Len(blocks) >= 1
        BY <1>0, <1>2
      <4> QED
        BY <1>0, <4>1
    <3>5. Len(blocks) = n
      BY <1>5, <3>3, <3>4 DEF BlocksOf
    <3> QED
      BY <1>2, <3>2, <3>5 DEF Open
  <2> QED
    BY <1>2, <2>1, <2>2 DEF TypeOK
<1>10. EndMatches(n, e)
  BY HeadEnd
<1>11. e => datas[s] = 0 /\ Ended(s)
  BY <1>2, <1>10 DEF EndMatches
<1>12. client[s] = "ended" /\ datas[s] = 0 => e
  BY <1>2, <1>10 DEF EndMatches
<1> QED
  BY <1>2, <1>4, <1>5, <1>6, <1>7, <1>8, <1>9, <1>11, <1>12 DEF LastOf

(* The block is decoded.                                                   *)
LEMMA BlockDecoded ==
  ASSUME TypeOK, NEW n, NEW s, NEW block, NEW e, LastOf(n, s, block, e),
         decoded' = decoded + 1, headersStream' = 0,
         UNCHANGED <<client, blocks, datas, ending>>,
         \A t \in StreamIds : t # s => streams'[t] = streams[t] /\ (Done(t)' <=> Done(t))
  PROVE  /\ OthersUntouched(s)
         /\ \A t : BlocksOf(t)' = BlocksOf(t)
         /\ WholeBlock(n)' = WholeBlock(n)
         /\ Decoded(n)' /\ ~Waiting(s)' /\ HeldEnd'
         /\ Ended(s)' <=> Ended(s)
<1>0. n \in Nat /\ decoded \in Nat /\ n = decoded + 1 /\ n \in BlocksOf(s)
  BY DEF LastOf, TypeOK
<1>1. \A t : BlocksOf(t)' = BlocksOf(t)
  BY DEF BlocksOf
<1>2. \A m : WholeBlock(m)' = WholeBlock(m)
  BY DEF WholeBlock
<1>3. ASSUME NEW t, t # s, NEW m \in BlocksOf(t)
      PROVE  Decoded(m)' <=> Decoded(m)
  <2>1. m \in Nat /\ m # n
    BY <1>0, <1>3, BlocksType DEF BlocksOf
  <2> QED
    BY <1>0, <2>1 DEF Decoded
<1>4. OthersUntouched(s)
  BY <1>1, <1>2, <1>3 DEF OthersUntouched, Untouched
<1>5. Decoded(n)'
  BY <1>0 DEF Decoded
<1>6. ~Waiting(s)'
  BY <1>1, <1>5 DEF Waiting, LastOf
<1>7. HeldEnd' /\ (Ended(s)' <=> Ended(s))
  BY DEF HeldEnd, Ended
<1> QED
  BY <1>1, <1>2, <1>4, <1>5, <1>6, <1>7

(* A request with a body is kept in the table.                             *)
Begun(s, block) == streams' = [streams EXCEPT ![s] = [fields |-> block, body |-> <<>>]]

LEMMA BegunFacts ==
  ASSUME TypeOK, NEW s \in StreamIds, NEW block \in Seq(Loads), Begun(s, block)
  PROVE  /\ streams'[s] # None
         /\ streams'[s].fields = block /\ streams'[s].body = <<>>
         /\ \A t \in StreamIds : t # s => streams'[t] = streams[t]
<1> DEFINE R == [fields : Seq(Loads), body : Seq(Loads)]
<1>1. PICK new : new = [fields |-> block, body |-> <<>>]
  OBVIOUS
<1>2. new \in R /\ new.fields = block /\ new.body = <<>>
  BY <1>1
<1>3. None \notin R
  BY NoneIsNoStream
<1>4. streams'[s] = new /\ \A t \in StreamIds : t # s => streams'[t] = streams[t]
  BY <1>1 DEF Begun, TypeOK
<1> HIDE DEF R
<1> QED
  BY <1>2, <1>3, <1>4

LEMMA RequestKept ==
  ASSUME TypeOK, WireInv(Wire), Wire # <<>>, BlockInv(Wire),
         RequestInv(Wire), rogue = 0,
         NEW f, f = Wire[1].of, Fragment(f), Wire' = Drop(Wire, FrameLen(f)),
         NEW n, NEW s, s = f.id, NEW block, LastOf(n, s, block, FALSE),
         decoded' = decoded + 1, headersStream' = 0,
         UNCHANGED <<client, blocks, datas, ending, handled>>, Begun(s, block)
  PROVE  RequestInv(Wire)'
<1>0. /\ RequestState
      /\ s \in StreamIds /\ Waiting(s) /\ streams[s] = None /\ ~Done(s)
      /\ n \in BlocksOf(s) /\ block \in Seq(Loads) /\ block = WholeBlock(n)
      /\ client[s] \in {"open", "ended", "reset"}
      /\ client[s] = "ended" => datas[s] # 0
  BY DEF RequestInv, LastOf
<1>1. /\ \A t : Done(t)' <=> Done(t)
      /\ UNCHANGED <<client, blocks, datas, ending>>
  BY DEF Done
<1>2. PICK new : new = streams'[s]
  OBVIOUS
<1>3. /\ new # None /\ new.fields = block /\ new.body = <<>>
      /\ \A t \in StreamIds : t # s => streams'[t] = streams[t]
  BY <1>0, <1>2, BegunFacts
<1>4. /\ OthersUntouched(s)
      /\ BlocksOf(s)' = BlocksOf(s) /\ WholeBlock(n)' = WholeBlock(n)
      /\ Decoded(n)' /\ HeldEnd'
  BY <1>1, <1>3, BlockDecoded
<1>5. Pending(s) /\ Pending(s)'
  BY <1>0, <1>2, <1>3 DEF Pending
<1>6. Got(s) = 0 /\ Got(s)' = 0
  BY <1>0, <1>2, <1>3 DEF Got
<1>7. \A d : Missing(s, d)' <=> Missing(s, d)
  BY <1>1, <1>5, <1>6 DEF Missing
<1>8. Passes(s, f)
  <2>1. SUFFICES ASSUME NEW g, g.id = s, Late(g), Proper(g)
                 PROVE  Proper(g)'
    BY DEF Passes
  <2>2. CASE g.type = "data"
    BY <1>1, <1>7, <2>1, <2>2 DEF Proper, ProperData, Ended
  <2>3. CASE g.type = "rst"
    BY <1>1, <2>1, <2>3 DEF Proper, ProperReset
  <2> QED
    BY <2>1, <2>2, <2>3 DEF Late
<1>9. MissingNotOf(s, f)
  BY <1>7 DEF MissingNotOf, IsPiece, Fragment
<1>10. ResetDue(s)' => ResetDue(s) /\ ~IsReset(f, s)
  BY <1>1, <1>5 DEF ResetDue, IsReset, Fragment
<1>11. StreamInv(s)'
  <2>1. StreamInv(s)
    BY <1>0 DEF RequestState
  <2>2. datas[s] \in Nat
    BY <1>0, BodyLengths
  <2>3. 0 <= datas[s] /\ (client[s] = "ended" => 0 < datas[s])
    BY <1>0, <2>2
  <2>4. Kept(s, new)'
    <3>1. n \in BlocksOf(s)' /\ Decoded(n)' /\ new.fields = WholeBlock(n)'
      BY <1>0, <1>3, <1>4
    <3>2. DOMAIN new.body = {} /\ Len(new.body) = 0
      BY <1>3
    <3>3. client'[s] = client[s] /\ datas'[s] = datas[s] /\ ~Done(s)'
      BY <1>0, <1>1
    <3> QED
      BY <1>0, <2>3, <3>1, <3>2, <3>3 DEF Kept
  <2> QED
    BY <1>0, <1>1, <1>2, <1>4, <1>5, <2>1, <2>4 DEF StreamInv
<1>12. AllSent'
  <2>1. \A h : h.id = s => ~AsSent(h)
    BY <1>5 DEF AsSent
  <2> QED
    BY <1>0, <1>4, <2>1, OldStaySent, StillSent DEF RequestState, OldSent
<1> QED
  BY <1>0, <1>1, <1>4, <1>8, <1>9, <1>10, <1>11, <1>12, DropTouched

(* A request without a body is handled.                                    *)
LEMMA RequestWhole ==
  ASSUME TypeOK, WireInv(Wire), Wire # <<>>, BlockInv(Wire),
         RequestInv(Wire), rogue = 0,
         NEW f, f = Wire[1].of, Fragment(f), Wire' = Drop(Wire, FrameLen(f)),
         NEW n, NEW s, s = f.id, NEW block, LastOf(n, s, block, TRUE),
         decoded' = decoded + 1, headersStream' = 0,
         UNCHANGED <<client, blocks, datas, ending>>,
         NEW h, Answered(h), h.id = s, h.fields = block, h.body = <<>>, h \in Requests,
         streams' = [streams EXCEPT ![s] = None]
  PROVE  RequestInv(Wire)'
<1>0. /\ RequestState
      /\ s \in StreamIds /\ Waiting(s) /\ streams[s] = None /\ ~Done(s)
      /\ n \in BlocksOf(s) /\ block = WholeBlock(n)
      /\ client[s] \in {"open", "ended", "reset"}
      /\ datas[s] = 0 /\ Ended(s)
  BY DEF RequestInv, LastOf
<1>1. /\ streams'[s] = None
      /\ \A t \in StreamIds : t # s => streams'[t] = streams[t]
      /\ UNCHANGED <<client, blocks, datas, ending>>
  BY <1>0 DEF TypeOK
<1>2. \A t : Done(t)' <=> Done(t) \/ t = s
  BY OneMoreDone DEF Answered
<1>3. /\ OthersUntouched(s)
      /\ BlocksOf(s)' = BlocksOf(s) /\ WholeBlock(n)' = WholeBlock(n)
      /\ Decoded(n)' /\ HeldEnd' /\ ~Waiting(s)' /\ Ended(s)'
  BY <1>0, <1>1, <1>2, BlockDecoded
<1>4. Pending(s) /\ ~Pending(s)'
  BY <1>0, <1>1, <1>3 DEF Pending
<1>5. Passes(s, f)
  <2>1. SUFFICES ASSUME NEW g, g.id = s, Late(g), Proper(g)
                 PROVE  Proper(g)'
    BY DEF Passes
  <2>2. g.type # "data"
    <3>1. \A d : ~Missing(s, d)
      <4>1. Got(s) = 0
        BY <1>0 DEF Got
      <4>2. \A d : d \notin (0 + 1)..0
        OBVIOUS
      <4> QED
        BY <1>0, <4>1, <4>2 DEF Missing
    <3> QED
      BY <2>1, <3>1 DEF Proper, ProperData
  <2> QED
    BY <1>1, <2>1, <2>2 DEF Late, Proper, ProperReset
<1>6. MissingNotOf(s, f) /\ ~ResetDue(s)'
  BY <1>4 DEF MissingNotOf, Missing, ResetDue
<1>7. StreamInv(s)'
  <2>1. StreamInv(s)
    BY <1>0 DEF RequestState
  <2> QED
    BY <1>0, <1>1, <1>3, <2>1 DEF StreamInv, Ended
<1>8. AsSent(h)'
  <2>1. n \in BlocksOf(s)' /\ Decoded(n)' /\ h.fields = WholeBlock(n)'
    BY <1>0, <1>3
  <2>2. <<>> = [k \in 1..0 |-> <<0, k, s>>]
    OBVIOUS
  <2>3. datas'[s] = 0
    BY <1>0
  <2> QED
    BY <1>3, <1>4, <2>1, <2>2, <2>3 DEF AsSent
<1>9. AllSent'
  <2>1. \A g : g.id = s => ~AsSent(g)
    BY <1>4 DEF AsSent
  <2>2. OldSent
    BY <1>0, <1>3, <2>1, OldStaySent
  <2> QED
    BY <1>0, <1>8, <2>2, OneMoreSent DEF RequestState, Answered
<1> QED
  BY <1>0, <1>1, <1>3, <1>5, <1>6, <1>7, <1>9, DropTouched

(* A fragment that is not the last: the block is kept.                     *)
LEMMA PartKept ==
  ASSUME TypeOK, WireInv(Wire), Wire # <<>>, BlockInv(Wire),
         RequestInv(Wire), rogue = 0,
         NEW f, f = Wire[1].of, Fragment(f), Wire' = Drop(Wire, FrameLen(f)),
         headersEnd' = EndOf(f),
         UNCHANGED <<client, blocks, datas, ending, decoded, streams, handled>>
  PROVE  RequestInv(Wire)'
<1>0. RequestState
  BY DEF RequestInv
<1>1. PICK s : s = f.id
  OBVIOUS
<1>2. s \in StreamIds
  <2>1. PICK p : p = Len(headersBlock) + 1
    OBVIOUS
  <2> QED
    BY <1>1, <2>1, HeadPart
<1>3. \A t : Untouched(t)
  BY DEF Untouched, BlocksOf, WholeBlock, Decoded, Done
<1>4. OthersUntouched(s)
  BY <1>3 DEF OthersUntouched
<1>5. Passes(s, f)
  BY <1>3, UntouchedFrame DEF Passes
<1>6. MissingNotOf(s, f)
  BY <1>3, UntouchedState DEF MissingNotOf, IsPiece, Fragment
<1>7. ResetDue(s)' => ResetDue(s) /\ ~IsReset(f, s)
  BY <1>3, UntouchedState DEF IsReset, Fragment
<1>8. StreamInv(s)'
  BY <1>0, <1>2, <1>3, UntouchedStream DEF RequestState
<1>9. HeldEnd'
  <2>1. PICK n, e : n = decoded + 1 /\ e = EndOf(f)
    OBVIOUS
  <2>2. EndMatches(n, e)
    BY <2>1, HeadEnd
  <2>3. EndMatches(n, e)'
    BY <2>2 DEF EndMatches, Open, InBlock, Ended
  <2>4. n = decoded' + 1 /\ e = headersEnd'
    BY <2>1
  <2> QED
    BY <2>3, <2>4 DEF HeldEnd
<1>10. AllSent'
  <2>1. \A h : h.id = s /\ AsSent(h) => AsSent(h)'
    BY <1>3, UntouchedSent
  <2> QED
    BY <1>0, <1>4, <2>1, OldStaySent, StillSent DEF RequestState, OldSent
<1> QED
  BY <1>1, <1>2, <1>4, <1>5, <1>6, <1>7, <1>8, <1>9, <1>10, DropTouched

(* What feed does with a frame, as the lemmas above see it.                *)
LEMMA Invoked ==
  ASSUME NEW s \in StreamIds, NEW fields \in Seq(Loads), NEW body \in Seq(Loads),
         Invoke(s, fields, body)
  PROVE  \E h \in Requests :
           Answered(h) /\ h.id = s /\ h.fields = fields /\ h.body = body
<1>1. PICK h : h = [id |-> s, fields |-> fields, body |-> body]
  OBVIOUS
<1>2. h \in Requests /\ h.id = s /\ h.fields = fields /\ h.body = body
  BY <1>1 DEF Requests
<1>3. Answered(h)
  BY <1>1 DEF Invoke, Answered
<1> QED
  BY <1>2, <1>3

LEMMA HeaderRequests ==
  ASSUME TypeOK, ClientInv, WireInv(Wire), Wire # <<>>, BlockInv(Wire),
         RequestInv(Wire), rogue = 0,
         NEW f, f = Wire[1].of, Fragment(f), Wire' = Drop(Wire, FrameLen(f)),
         NEW s, s = f.id, NEW block, block = Append(headersBlock, f.load),
         NEW e, e = EndOf(f), UNCHANGED <<client, blocks, datas, ending>>,
         \/ f.endHeaders /\ FinishHeaders(s, block, e)
         \/ ~f.endHeaders /\ KeepBlock(s, block, e)
  PROVE  RequestInv(Wire)'
<1>1. PICK n : n = decoded + 1
  OBVIOUS
<1>2. CASE f.endHeaders /\ FinishHeaders(s, block, e)
  <2>1. Decodable(block)
    BY <1>2, LastDecodable
  <2>2. decoded' = decoded + 1 /\ headersStream' = 0
    BY <1>2, <2>1 DEF FinishHeaders
  <2>3. LastOf(n, s, block, e)
    BY <1>1, <1>2, HeadIsLast
  <2>4. s \in StreamIds /\ block \in Seq(Loads)
    BY <2>3 DEF LastOf
  <2>5. CASE e
    <3>1. LastOf(n, s, block, TRUE)
      BY <2>3, <2>5 DEF LastOf
    <3>2. Invoke(s, block, <<>>) /\ streams' = [streams EXCEPT ![s] = None]
      BY <1>2, <2>1, <2>5 DEF FinishHeaders, Delete
    <3>3. PICK body : body = <<>>
      OBVIOUS
    <3>4. body \in Seq(Loads)
      BY ONLY <3>3
    <3>5. Invoke(s, block, body)
      BY <3>2, <3>3
    <3>6. PICK h \in Requests :
            Answered(h) /\ h.id = s /\ h.fields = block /\ h.body = body
      BY ONLY <2>4, <3>4, <3>5, Invoked
    <3>7. h.body = <<>>
      BY <3>3, <3>6
    <3> QED
      BY <2>2, <3>1, <3>2, <3>6, <3>7, RequestWhole
  <2>6. CASE ~e
    <3>1. LastOf(n, s, block, FALSE)
      BY <2>3, <2>6 DEF LastOf
    <3>2. Begun(s, block) /\ UNCHANGED handled
      BY <1>2, <2>1, <2>6 DEF FinishHeaders, Begun
    <3> QED
      BY <2>2, <3>1, <3>2, RequestKept
  <2> QED
    BY <2>5, <2>6
<1>3. CASE ~f.endHeaders /\ KeepBlock(s, block, e)
  <2>1. headersEnd' = EndOf(f) /\ UNCHANGED <<decoded, streams, handled>>
    BY <1>3 DEF KeepBlock, historyVars
  <2> QED
    BY <2>1, PartKept
<1> QED
  BY <1>2, <1>3

LEMMA DataRequests ==
  ASSUME TypeOK, ClientInv, WireInv(Wire), BlockInv(Wire), RequestInv(Wire), rogue = 0,
         OnData
  PROVE  RequestInv(Wire)'
<1>1. Complete /\ Frm.type = "data"
  BY DEF OnData, Received, Frm
<1>2. PICK f, s : f = Frm /\ s = f.id
  OBVIOUS
<1>3. Wire # <<>> /\ f = Wire[1].of
  BY <1>1, <1>2, HeadOfWire DEF Frm
<1>4. f.type = "data" /\ s \in StreamIds /\ streams[s] # None /\ ~f.bad
  BY <1>1, <1>2, <1>3, NextPiece
<1>5. PICK body : body = BodyWith(s, f)
  OBVIOUS
<1>6. /\ Consume /\ UNCHANGED transit /\ UNCHANGED streamless
      /\ IF f.endStream THEN Invoke(s, streams[s].fields, body) /\ Delete(s)
         ELSE Stored(s, body) /\ UNCHANGED handled
  BY <1>2, <1>4, <1>5
  DEF OnData, AppendBody, BodyWith, Stored, streamless, clientVars, blockVars
<1>7. Wire' = Drop(Wire, FrameLen(f))
  BY <1>1, <1>3, <1>6, ConsumeWire
<1>8. CASE f.endStream
  <2>1. streams[s].fields \in Seq(Loads) /\ body \in Seq(Loads)
    BY <1>2, <1>3, <1>4, <1>5, BodyLengths, LongerBody DEF RequestInv
  <2>2. PICK h \in Requests :
          /\ Answered(h) /\ h.id = s
          /\ h.fields = streams[s].fields /\ h.body = body
    BY <1>4, <1>6, <1>8, <2>1, Invoked
  <2>3. streams' = [streams EXCEPT ![s] = None]
    BY <1>6, <1>8 DEF Delete
  <2> QED
    BY <1>2, <1>3, <1>4, <1>5, <1>6, <1>7, <1>8, <2>2, <2>3, DataEnds
<1>9. CASE ~f.endStream
  BY <1>2, <1>3, <1>4, <1>5, <1>6, <1>7, <1>9, DataStored
<1> QED
  BY <1>8, <1>9

LEMMA ServerRequests ==
  ASSUME TypeOK, ClientInv, WireInv(Wire), BlockInv(Wire), RequestInv(Wire), Server
  PROVE  RequestInv(Wire)'
<1> SUFFICES ASSUME rogue = 0 PROVE RequestInv(Wire)'
  BY ServerFrame DEF RequestInv
<1>0. UNCHANGED <<client, blocks, datas, ending>>
  BY ServerFrame
<1>1. ASSUME UNCHANGED <<rxBuf, transit, decoded, headersStream, headersEnd,
                         streams, handled>>
      PROVE  RequestInv(Wire)'
  <2>1. Wire' = Wire /\ UNCHANGED requestState
    BY <1>0, <1>1 DEF Wire, requestState
  <2> QED
    BY <2>1, StayRequests
<1>2. \A why : Fail(why) => RequestInv(Wire)'
  BY <1>1 DEF Fail, clientVars, blockVars
<1>3. ASSUME Complete, Consume, UNCHANGED transit
      PROVE  Wire # <<>> /\ Wire[1].of = Frm /\ Wire' = Drop(Wire, FrameLen(Frm))
  BY <1>3, HeadOfWire, ConsumeWire DEF Frm
<1>4. ASSUME Complete, Consume, ~Late(Frm),
             UNCHANGED <<transit, decoded, headersStream, headersEnd, streams, handled>>
      PROVE  RequestInv(Wire)'
  <2>1. UNCHANGED requestState
    BY <1>0, <1>4 DEF requestState
  <2> QED
    BY <1>3, <1>4, <2>1, DropAside
<1>5. CASE Start \/ ReadEnds \/ FeedDone
  BY <1>1, <1>5 DEF Start, ReadEnds, FeedDone, clientVars, blockVars, historyVars
<1>6. ASSUME NEW n \in 1..ReadSize, Read(n)
      PROVE  RequestInv(Wire)'
  <2>1. n \in Nat
    BY Http2Assumption
  <2>2. Wire' = Wire
    BY <1>6, <2>1, ReadWire
  <2>3. UNCHANGED requestState
    BY <1>0, <1>6 DEF Read, requestState, blockVars, historyVars
  <2> QED
    BY <2>2, <2>3, StayRequests
<1>7. CASE FeedPreface
  <2>1. ~prefaceSeen /\ Len(rxBuf) >= PrefaceLen
    BY <1>7 DEF FeedPreface
  <2>2. /\ rxBuf' = Drop(rxBuf, PrefaceLen)
        /\ UNCHANGED <<clientVars, streams, blockVars, pc, readErr, historyVars>>
    BY <1>7, <2>1, RightPreface DEF FeedPreface
  <2>3. Wire # <<>> /\ Wire[1].of.type = "preface" /\ FrameLen(Wire[1].of) = PrefaceLen
    BY <2>1 DEF WireInv, PrefaceInv, FrameLen
  <2>4. rxBuf \in Seq(Cells) /\ transit \in Seq(Cells) /\ PrefaceLen \in 0..Len(rxBuf)
    BY <2>1, Http2Assumption DEF TypeOK
  <2>5. Wire' = Drop(Wire, FrameLen(Wire[1].of))
    BY <2>2, <2>3, <2>4, WireDrop DEF Wire, clientVars
  <2>6. UNCHANGED requestState
    BY <1>0, <2>2 DEF requestState, blockVars, historyVars
  <2>7. ~Late(Wire[1].of)
    BY <2>3 DEF Late
  <2> QED
    BY <2>3, <2>5, <2>6, <2>7, DropAside
<1>8. CASE OnSettings \/ OnPing
  <2>1. Complete /\ ~Late(Frm) /\ (Write \/ \E why : Fail(why))
    BY <1>8 DEF OnSettings, OnPing, Received, Late, Frm
  <2> QED
    BY <1>2, <1>4, <2>1 DEF Write, clientVars, blockVars, historyVars
<1>9. CASE OnOther
  <2>1. Complete /\ ~Late(Frm) /\ Consume
    BY <1>9 DEF OnOther, Received, Late, Frm
  <2> QED
    BY <1>4, <1>9, <2>1 DEF OnOther, clientVars, blockVars, historyVars
<1>10. CASE OnGoAway
  BY <1>2, <1>10 DEF OnGoAway
<1>11. CASE OnReset
  <2>1. Complete /\ Frm.type = "rst" /\ Consume
    BY <1>11 DEF OnReset, Received, Frm
  <2>2. PICK f, s : f = Frm /\ s = f.id
    OBVIOUS
  <2>3. streams' = [streams EXCEPT ![s] = None]
    BY <1>11, <2>2 DEF OnReset, Delete
  <2>4. UNCHANGED <<transit, decoded, headersStream, headersEnd, handled>>
    BY <1>11 DEF OnReset, clientVars, blockVars, historyVars
  <2>5. Wire # <<>> /\ f = Wire[1].of /\ Wire' = Drop(Wire, FrameLen(f))
    BY <1>3, <2>1, <2>2, <2>4
  <2> QED
    BY <1>0, <2>1, <2>2, <2>3, <2>4, <2>5, ResetHandled
<1>12. CASE OnDataUnknown
  <2>1. Complete /\ Frm.type = "data" /\ ~Known(Frm.id)
    BY <1>12 DEF OnDataUnknown, Received, Frm
  <2>2. Wire # <<>> /\ Frm = Wire[1].of
    BY <2>1, HeadOfWire DEF Frm
  <2> QED
    BY <2>1, <2>2, NextPiece DEF Known
<1>13. ASSUME Complete, Fragment(Frm), Consume, UNCHANGED transit, NEW e, e = EndOf(Frm),
              NEW s, s = Frm.id, NEW block, block = Append(headersBlock, Frm.load),
              \/ Frm.endHeaders /\ FinishHeaders(s, block, e)
              \/ ~Frm.endHeaders /\ KeepBlock(s, block, e)
       PROVE  RequestInv(Wire)'
  <2>1. PICK f : f = Frm
    OBVIOUS
  <2>2. Wire # <<>> /\ f = Wire[1].of /\ Wire' = Drop(Wire, FrameLen(f))
    BY <1>3, <1>13, <2>1
  <2> QED
    BY <1>0, <1>13, <2>1, <2>2, HeaderRequests
<1>14. ASSUME Complete, Fragment(Frm)
       PROVE  /\ Frm.id # 0 /\ ~Frm.bad /\ Frm.load \in Loads
              /\ Frm.type = "headers" => headersBlock = <<>>
              /\ Frm.type = "continuation" => Belongs(Frm)
  <2>1. Wire # <<>> /\ Wire[1].of = Frm
    BY <1>14, HeadOfWire DEF Frm
  <2> QED
    BY <1>14, <2>1, HeadPart
<1>15. ASSUME NEW s, NEW block, NEW e,
              FinishHeaders(s, block, e) \/ KeepBlock(s, block, e)
       PROVE  (Consume /\ UNCHANGED transit) \/ \E why : Fail(why)
  BY <1>15 DEF FinishHeaders, KeepBlock, clientVars
<1>16. CASE OnHeaders
  <2>1. Complete /\ Fragment(Frm) /\ Frm.type = "headers"
    BY <1>16 DEF OnHeaders, Received, Fragment, Frm
  <2>2. Frm.id # 0 /\ ~Frm.bad /\ headersBlock = <<>> /\ Frm.load \in Loads
    BY <1>14, <2>1
  <2>3. <<Frm.load>> = Append(headersBlock, Frm.load)
    BY <2>2
  <2>4. PICK s, block, e : s = Frm.id /\ block = <<Frm.load>> /\ e = Frm.endStream
    OBVIOUS
  <2>5. \/ Frm.endHeaders /\ FinishHeaders(s, block, e)
        \/ ~Frm.endHeaders /\ KeepBlock(s, block, e)
    BY <1>16, <2>2, <2>4 DEF OnHeaders
  <2>6. e = EndOf(Frm)
    BY <2>1, <2>4 DEF EndOf
  <2> QED
    BY <1>2, <1>13, <1>15, <2>1, <2>3, <2>4, <2>5, <2>6
<1>17. CASE OnContinuation
  <2>1. Complete /\ Fragment(Frm) /\ Frm.type = "continuation"
    BY <1>17 DEF OnContinuation, Received, Fragment, Frm
  <2>2. Belongs(Frm) /\ headersStream = Frm.id
    BY <1>14, <2>1 DEF Belongs
  <2>3. PICK s, block, e : /\ s = Frm.id /\ e = Latched(Frm)
                           /\ block = Append(headersBlock, Frm.load)
    OBVIOUS
  <2>4. \/ Frm.endHeaders /\ FinishHeaders(s, block, e)
        \/ ~Frm.endHeaders /\ KeepBlock(s, block, e)
    BY <1>17, <2>2, <2>3 DEF OnContinuation
  <2>5. e = EndOf(Frm)
    BY <2>1, <2>3 DEF EndOf, Latched
  <2> QED
    BY <1>2, <1>13, <1>15, <2>1, <2>3, <2>4, <2>5
<1>18. CASE OnData
  BY <1>18, DataRequests
<1> QED
  BY <1>5, <1>6, <1>7, <1>8, <1>9, <1>10, <1>11, <1>12, <1>16, <1>17, <1>18
  DEF Server, HandleFrame

LEMMA RequestsOfInit ==
  ASSUME Init
  PROVE  RequestInv(Wire)
<1> SUFFICES ASSUME rogue = 0 PROVE RequestInv(Wire)
  BY DEF RequestInv
<1>0. /\ \A s \in StreamIds : client[s] = "idle" /\ datas[s] = 0 /\ streams[s] = None
      /\ DOMAIN blocks = {} /\ DOMAIN handled = {} /\ headersStream = 0
  BY DEF Init
<1>1. \A s : BlocksOf(s) = {}
  BY <1>0 DEF BlocksOf
<1>2. \A s \in StreamIds : ~Pending(s)
  BY <1>0, <1>1 DEF Pending, Waiting
<1>3. AllMissing(Wire) /\ AllResets(Wire)
  BY <1>2 DEF AllMissing, AllResets, Missing, ResetDue
<1>4. AllProper(Wire) /\ AllFollow(Wire)
  <2>1. \A f : f = Preface \/ f = Plain("settings", 0) => Proper(f) /\ ~Late(f)
    BY DEF Proper, Late, Preface, Plain, Frame
  <2> QED
    BY <2>1, FramesOfInit DEF AllProper, AllFollow
<1>5. \A s \in StreamIds : StreamInv(s)
  BY <1>0, <1>1 DEF StreamInv
<1>6. HeldEnd /\ AllSent
  BY <1>0 DEF HeldEnd, AllSent
<1> QED
  BY <1>3, <1>4, <1>5, <1>6 DEF RequestInv, RequestState

LEMMA NextRequests ==
  ASSUME ~Trailers, IInv, BlockInv(Wire), RequestInv(Wire), [Next]_vars
  PROVE  RequestInv(Wire)'
<1>0. TypeOK /\ ClientInv /\ WireInv(Wire)
  BY DEF IInv
<1>1. CASE Client /\ UNCHANGED serverVars
  BY <1>0, <1>1, ClientRequests
<1>2. CASE Server
  BY <1>0, <1>2, ServerRequests
<1>3. CASE UNCHANGED vars
  <2>1. Wire' = Wire /\ UNCHANGED requestState /\ UNCHANGED rogue
    BY <1>3 DEF vars, Wire, requestState
  <2>2. CASE rogue # 0
    BY <2>1, <2>2 DEF RequestInv
  <2>3. CASE rogue = 0
    BY <2>1, <2>3, StayRequests
  <2> QED
    BY <2>2, <2>3
<1> QED
  BY <1>1, <1>2, <1>3 DEF Next, Closed, serverVars

LEMMA RequestsCorrect ==
  ASSUME ~Trailers
  PROVE  Spec => [](IInv /\ BlockInv(Wire) /\ RequestInv(Wire))
<1>1. Init => IInv /\ BlockInv(Wire) /\ RequestInv(Wire)
  BY InitInv, BlocksOfInit, RequestsOfInit
<1>2. IInv /\ BlockInv(Wire) /\ RequestInv(Wire) /\ [Next]_vars
        => (IInv /\ BlockInv(Wire) /\ RequestInv(Wire))'
  BY NextInv, NextBlocks, NextRequests
<1> QED
  BY <1>1, <1>2, PTL DEF Spec

(* What the invariant says of requests.                                    *)
LEMMA HandledAsSent ==
  ASSUME IInv, RequestInv(Wire)
  PROVE  DeliveredAsSent
<1>1. SUFFICES ASSUME rogue = 0
      PROVE  /\ \A i \in DOMAIN handled : \A j \in DOMAIN handled :
                  handled[i].id = handled[j].id => i = j
             /\ \A i \in DOMAIN handled : LET h == handled[i] IN
                  /\ client[h.id] \in {"ended", "reset"}
                  /\ \E n \in BlocksOf(h.id) :
                       /\ \A m \in BlocksOf(h.id) : n <= m
                       /\ h.fields = WholeBlock(n)
                  /\ h.body = [k \in 1..datas[h.id] |-> <<0, k, h.id>>]
  BY DEF DeliveredAsSent
<1>2. TypeOK /\ RequestState /\ AllSent
  BY <1>1 DEF IInv, RequestInv, RequestState
<1>3. ASSUME NEW h, AsSent(h), h.id \in StreamIds
      PROVE  /\ client[h.id] \in {"ended", "reset"}
             /\ \E n \in BlocksOf(h.id) :
                  /\ \A m \in BlocksOf(h.id) : n <= m
                  /\ h.fields = WholeBlock(n)
             /\ h.body = [k \in 1..datas[h.id] |-> <<0, k, h.id>>]
  <2>1. PICK n \in BlocksOf(h.id) : h.fields = WholeBlock(n)
    BY <1>3 DEF AsSent
  <2>2. \A m \in BlocksOf(h.id) : m = n
    BY <1>2, <1>3, <2>1 DEF RequestState, StreamInv
  <2>3. n \in Nat
    BY <1>2, <2>1, BlocksType DEF BlocksOf
  <2>4. \A m \in BlocksOf(h.id) : n <= m
    BY <2>2, <2>3
  <2> QED
    BY <1>3, <2>1, <2>4 DEF AsSent, Ended
<1> QED
  BY <1>2, <1>3, HandledType DEF AllSent

LEMMA KeptForAFrame ==
  ASSUME IInv, RequestInv(Wire)
  PROVE  StreamsAreDeleted
<1>1. SUFFICES ASSUME NEW s \in StreamIds, rogue = 0, streams[s] # None,
                      client[s] \in {"ended", "reset"}
               PROVE  \E q \in {transit, rxBuf} : \E k \in DOMAIN q : q[k].of.id = s
  BY DEF StreamsAreDeleted
<1>2. TypeOK /\ RequestState /\ AllMissing(Wire) /\ AllResets(Wire)
  BY <1>1 DEF IInv, RequestInv
<1>3. Pending(s) /\ Kept(s, streams[s])
  BY <1>1, <1>2 DEF Pending, RequestState, StreamInv
<1>4. PICK k \in Heads(Wire) : Wire[k].of.id = s
  <2>1. CASE client[s] = "reset"
    BY <1>2, <1>3, <2>1 DEF ResetDue, AllResets, IsReset
  <2>2. CASE client[s] = "ended"
    <3>1. PICK c, D : c = Got(s) /\ D = datas[s]
      OBVIOUS
    <3>2. c \in Nat /\ D \in Nat
      BY <1>2, <3>1, BodyLengths
    <3>3. c < D
      <4>1. PICK b : b = streams[s].body
        OBVIOUS
      <4>2. Len(b) < D /\ c = Len(b)
        BY <1>1, <1>3, <2>2, <3>1, <4>1 DEF Kept, Got
      <4> QED
        BY <4>2
    <3>4. c + 1 \in (c + 1)..D /\ c + 1 \in Nat
      BY ONLY <3>2, <3>3
    <3>5. Missing(s, c + 1)
      BY <1>3, <3>1, <3>4 DEF Missing
    <3> QED
      BY <1>2, <3>4, <3>5 DEF AllMissing, IsPiece
  <2> QED
    BY <1>1, <2>1, <2>2
<1>5. /\ rxBuf \in Seq(Cells) /\ transit \in Seq(Cells)
      /\ Wire = rxBuf \o transit /\ k \in DOMAIN Wire
  BY <1>2, <1>4 DEF TypeOK, Heads, Wire
<1>6. PICK a, b : a = Len(rxBuf) /\ b = Len(transit)
  OBVIOUS
<1>7. /\ a \in Nat /\ b \in Nat /\ k \in 1..(a + b)
      /\ DOMAIN rxBuf = 1..a /\ DOMAIN transit = 1..b
      /\ \A i \in 1..a : Wire[i] = rxBuf[i]
      /\ \A i \in 1..b : Wire[a + i] = transit[i]
  BY <1>5, <1>6, ConcatProperties
<1>8. k \in 1..a \/ \E i \in 1..b : k = a + i
  <2>1. k \in 1..a \/ (k - a \in 1..b /\ k = a + (k - a))
    BY ONLY <1>7
  <2> QED
    BY <2>1
<1> QED
  BY <1>4, <1>7, <1>8

(* The handler sees every request as it was sent, once and after its end,  *)
(* with its own headers and the whole of its body, however the frames are  *)
(* cut and the frames of other streams lie between (onHeaders, onData and  *)
(* invokeHandler of http2.go).  Requests with trailers are the exception:  *)
(* their second header block replaces the first.                           *)
THEOREM RequestsAreDelivered ==
  ASSUME ~Trailers
  PROVE  Spec => []DeliveredAsSent
<1>1. IInv /\ BlockInv(Wire) /\ RequestInv(Wire) => DeliveredAsSent
  BY HandledAsSent
<1> QED
  BY <1>1, RequestsCorrect, PTL

(* The stream table does not grow: what is kept under a stream that the    *)
(* client has ended or reset is deleted when the last frame under way on   *)
(* it is handled (the deletes of onHeaders, onData and handleFrame in      *)
(* http2.go).                                                              *)
THEOREM StreamsAreForgotten ==
  ASSUME ~Trailers
  PROVE  Spec => []StreamsAreDeleted
<1>1. IInv /\ BlockInv(Wire) /\ RequestInv(Wire) => StreamsAreDeleted
  BY KeptForAFrame
<1> QED
  BY <1>1, RequestsCorrect, PTL
================================================================================
