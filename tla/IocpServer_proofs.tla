--------------------------- MODULE IocpServer_proofs ---------------------------
(***************************************************************************)
(* Theorems about IocpServer, for any number of servers, connections,      *)
(* handles and accept slots and any limits.                                *)
(***************************************************************************)
EXTENDS IocpServer, FiniteSetTheorems, FunctionTheorems, TLAPS

--------------------------------------------------------------------------------
(***************************************************************************)
(* The inductive invariant: what the kernel holds                          *)
(***************************************************************************)

(* The types of the tables and queues of the kernel, from TypeOK.          *)
KernelTypes ==
  /\ htab \in [Handles -> Conns \cup {Blank, None}]
  /\ assoc \in [Handles -> SUBSET Ports]
  /\ ops \in [Ids -> Ops \cup {None}]
  /\ cq \in [Ports -> Seq(Ids)]
  /\ \A p \in Ports : \A k \in DOMAIN cq[p] :
       ops[cq[p][k]] # None /\ ops[cq[p][k]].res \in {"ok", "data", "nothing"}

(* The accepts that can still take a client. *)
Open(i) == ops[i] # None /\ ops[i].kind = "accept" /\ ops[i].res = "pending"

(* An operation, by its kind. *)
OpInv ==
  \A i \in Ids : ops[i] # None =>
    /\ \A p, q \in ops[i].port : p = q
    /\ ops[i].kind = "accept" =>
         /\ ops[i].listener \in Servers
         /\ ops[i].res \in {"pending", "doomed", "ok", "nothing"}
         /\ ops[i].res = "ok" <=> ops[i].conn \in Conns
    /\ ops[i].kind = "recv" =>
         /\ ops[i].listener = None
         /\ ops[i].conn \in Conns
         /\ ops[i].res \in {"pending", "data", "nothing"}

(* Accepts that can still take a client have blank sockets of their own. *)
SlotInv ==
  /\ \A i \in Ids : Open(i) => htab[ops[i].sock] = Blank
  /\ \A i, j \in Ids : Open(i) /\ Open(j) /\ ops[i].sock = ops[j].sock => i = j

(* A handle has one port at most, and an address is queued once. *)
QueueInv ==
  /\ \A p, q \in Ports : \A k \in DOMAIN cq[p], l \in DOMAIN cq[q] :
       cq[p][k] = cq[q][l] => p = q /\ k = l
  /\ \A h \in Handles : \A p, q \in assoc[h] : p = q

KernelInv == KernelTypes /\ OpInv /\ SlotInv /\ QueueInv

--------------------------------------------------------------------------------
(***************************************************************************)
(* What the calls of the program and the kernel do to it                   *)
(***************************************************************************)

(* An operation is pinned at an address that was free. *)
LEMMA Posted ==
  ASSUME KernelTypes, NEW op \in Ops, Post(op), \E j \in Ids : ops[j] = None
  PROVE  \E i \in Ids : /\ ops[i] = None
                        /\ ops' \in [Ids -> Ops \cup {None}]
                        /\ \A j \in Ids : ops'[j] = IF j = i THEN op ELSE ops[j]
                        /\ \A p \in Ports : \A k \in DOMAIN cq[p] : cq[p][k] # i
<1> DEFINE i == CHOOSE j \in Ids : ops[j] = None
<1>1. i \in Ids /\ ops[i] = None
  OBVIOUS
<1>2. ops' = [ops EXCEPT ![i] = op]
  BY DEF Post
<1> HIDE DEF i
<1>3. ops' \in [Ids -> Ops \cup {None}] /\ \A j \in Ids : ops'[j] = IF j = i THEN op ELSE ops[j]
  BY <1>1, <1>2 DEF KernelTypes
<1> QED
  BY <1>1, <1>3 DEF KernelTypes

(* closesocket. *)
LEMMA ClosesKernel ==
  ASSUME KernelInv, NEW H \in SUBSET Handles, Closesocket(H), UNCHANGED cq
  PROVE  /\ KernelInv'
         /\ \A i \in Ids : /\ ops'[i] = None <=> ops[i] = None
                           /\ ops[i] # None =>
                                /\ ops'[i].kind = ops[i].kind
                                /\ ops'[i].sock = ops[i].sock
                                /\ ops'[i].listener = ops[i].listener
                                /\ ops'[i].conn = ops[i].conn
                                /\ \/ ops'[i].res = ops[i].res
                                   \/ /\ ops[i].kind = "accept" /\ ops[i].sock \in H
                                      /\ ops[i].res = "pending" /\ ops'[i].res = "doomed"
<1>1. \A i \in Ids :
        ops'[i] = IF Open(i) /\ ops[i].sock \in H
                    THEN [ops[i] EXCEPT !.res = "doomed"] ELSE ops[i]
  <2>1. \A i \in Ids : i \in UNION {Accepts(s) : s \in Servers} <=>
                         ops[i] # None /\ ops[i].kind = "accept"
    <3> SUFFICES ASSUME NEW i \in Ids
                 PROVE  (\E s \in Servers : ops[i] # None /\ ops[i].listener = s) <=>
                          ops[i] # None /\ ops[i].kind = "accept"
      BY DEF Accepts
    <3>1. ops[i] # None => ops[i].kind \in {"accept", "recv"}
      BY DEF KernelInv, KernelTypes, Ops
    <3> QED
      BY <3>1, IocpAssumption DEF KernelInv, OpInv
  <2> QED
    BY <2>1 DEF Closesocket, Open
<1>2. \A i \in Ids : ops[i] # None => ops[i] \in Ops
  BY DEF KernelInv, KernelTypes
<1>3. ASSUME NEW i \in Ids, Open(i), ops[i].sock \in H
      PROVE  /\ ops'[i] \in Ops /\ ops'[i] # None
             /\ ops'[i].kind = ops[i].kind /\ ops'[i].sock = ops[i].sock
             /\ ops'[i].listener = ops[i].listener /\ ops'[i].conn = ops[i].conn
             /\ ops'[i].port = ops[i].port /\ ops'[i].res = "doomed"
  <2>1. ops[i] \in Ops
    BY <1>2, <1>3 DEF Open
  <2>2. ops'[i] = [ops[i] EXCEPT !.res = "doomed"]
    BY <1>1, <1>3
  <2> QED
    BY <2>1, <2>2, NoneIsNoOp DEF Ops
<1>4. \A i \in Ids : ~(Open(i) /\ ops[i].sock \in H) => ops'[i] = ops[i]
  BY <1>1
<1>5. KernelTypes'
  <2>1. ops' \in [Ids -> Ops \cup {None}]
    <3>1. \E f : ops' = [i \in Ids |-> f[i]]
      BY DEF Closesocket
    <3> QED
      BY <1>2, <1>3, <1>4, <3>1
  <2>2. htab' \in [Handles -> Conns \cup {Blank, None}] /\ assoc' \in [Handles -> SUBSET Ports]
    BY DEF Closesocket, KernelInv, KernelTypes
  <2>3. \A p \in Ports : \A k \in DOMAIN cq[p] : ops'[cq[p][k]] = ops[cq[p][k]]
    BY <1>4 DEF KernelInv, KernelTypes, Open
  <2> QED
    BY <2>1, <2>2, <2>3 DEF KernelInv, KernelTypes
<1>6. OpInv'
  <2> SUFFICES ASSUME NEW i \in Ids, Open(i), ops[i].sock \in H
               PROVE  /\ ops[i].conn \notin Conns
                      /\ ops[i].kind = "accept" /\ ops[i].listener \in Servers
                      /\ \A p, q \in ops[i].port : p = q
    BY <1>3, <1>4 DEF KernelInv, OpInv
  <2> QED
    BY DEF KernelInv, OpInv, Open
<1>7. SlotInv'
  <2>1. \A i \in Ids : Open(i)' => Open(i) /\ ops[i].sock \notin H /\ ops'[i] = ops[i]
    BY <1>3, <1>4 DEF Open
  <2>2. \A h \in Handles : h \notin H => htab'[h] = htab[h]
    BY DEF Closesocket
  <2>3. \A i \in Ids : Open(i)' => ops[i].sock \in Handles
    BY <1>2, <2>1 DEF Open, Ops
  <2> QED
    BY <2>1, <2>2, <2>3 DEF KernelInv, SlotInv
<1>8. QueueInv'
  <2>1. \A h \in Handles : assoc'[h] \in {{}, assoc[h]}
    BY DEF Closesocket
  <2> QED
    BY <2>1 DEF KernelInv, QueueInv
<1> QED
  BY <1>3, <1>4, <1>5, <1>6, <1>7, <1>8 DEF KernelInv, Open

(* A new socket and AcceptEx on it. *)
LEMMA PostsAcceptKernel ==
  ASSUME KernelInv, NEW s \in Servers, PostAccept(s), UNCHANGED <<assoc, cq>>,
         \E j \in Ids : ops[j] = None
  PROVE  \E i \in Ids, h \in Handles :
           /\ KernelInv'
           /\ ops[i] = None /\ htab[h] = None /\ htab' = [htab EXCEPT ![h] = Blank]
           /\ \A j \in Ids : ops'[j] = IF j = i THEN AcceptOp(h, s) ELSE ops[j]
<1>1. PICK h \in Handles : /\ htab[h] = None
                           /\ htab' = [htab EXCEPT ![h] = Blank]
                           /\ Post(AcceptOp(h, s))
  BY DEF PostAccept
<1> DEFINE op == AcceptOp(h, s)
<1>2. /\ op \in Ops /\ op # None /\ op.kind = "accept" /\ op.sock = h /\ op.port = {s}
      /\ op.listener = s /\ op.conn = None /\ op.res = "pending"
  BY NoneIsNoOp DEF AcceptOp, Ops, Ports
<1> HIDE DEF op
<1>3. PICK i \in Ids : /\ ops[i] = None
                       /\ ops' \in [Ids -> Ops \cup {None}]
                       /\ \A j \in Ids : ops'[j] = IF j = i THEN op ELSE ops[j]
                       /\ \A p \in Ports : \A k \in DOMAIN cq[p] : cq[p][k] # i
  BY <1>1, <1>2, Posted DEF KernelInv, op
<1>4. KernelTypes'
  BY <1>1, <1>3 DEF KernelInv, KernelTypes
<1>5. OpInv'
  BY <1>2, <1>3, IocpAssumption DEF KernelInv, OpInv
<1>6. SlotInv'
  <2>1. \A j \in Ids : Open(j)' <=> j = i \/ Open(j)
    BY <1>2, <1>3 DEF Open
  <2>2. \A j \in Ids : Open(j) => /\ ops[j].sock \in Handles /\ ops[j].sock # h
                                  /\ ops'[j] = ops[j]
    <3> SUFFICES ASSUME NEW j \in Ids, Open(j)
                 PROVE  ops[j].sock \in Handles /\ ops[j].sock # h /\ ops'[j] = ops[j]
      OBVIOUS
    <3>1. ops[j] \in Ops /\ htab[ops[j].sock] = Blank
      BY DEF Open, KernelInv, KernelTypes, SlotInv
    <3> QED
      BY <1>1, <1>3, <3>1, IocpAssumption DEF Open, Ops
  <2>3. htab'[h] = Blank /\ \A g \in Handles : g # h => htab'[g] = htab[g]
    BY <1>1 DEF KernelInv, KernelTypes
  <2> QED
    BY <1>2, <1>3, <2>1, <2>2, <2>3 DEF KernelInv, SlotInv
<1>7. QueueInv'
  BY DEF KernelInv, QueueInv
<1> QED
  BY <1>1, <1>3, <1>4, <1>5, <1>6, <1>7 DEF KernelInv, op

(* WSARecv on a connected socket. *)
LEMMA PostsRecvKernel ==
  ASSUME KernelInv, NEW h \in Handles, htab[h] \in Conns, Post(RecvOp(h)),
         UNCHANGED <<htab, assoc, cq>>, \E j \in Ids : ops[j] = None
  PROVE  \E i \in Ids :
           /\ KernelInv'
           /\ ops[i] = None
           /\ \A j \in Ids : ops'[j] = IF j = i THEN RecvOp(h) ELSE ops[j]
<1> DEFINE op == RecvOp(h)
<1>1. /\ op \in Ops /\ op # None /\ op.kind = "recv" /\ op.sock = h
      /\ op.port = assoc[h] /\ op.listener = None /\ op.conn = htab[h]
      /\ op.res = "pending"
  BY NoneIsNoOp DEF RecvOp, Ops, KernelInv, KernelTypes
<1> HIDE DEF op
<1>2. PICK i \in Ids : /\ ops[i] = None
                       /\ ops' \in [Ids -> Ops \cup {None}]
                       /\ \A j \in Ids : ops'[j] = IF j = i THEN op ELSE ops[j]
                       /\ \A p \in Ports : \A k \in DOMAIN cq[p] : cq[p][k] # i
  BY <1>1, Posted DEF KernelInv, op
<1>3. KernelTypes'
  BY <1>2 DEF KernelInv, KernelTypes
<1>4. OpInv'
  BY <1>1, <1>2 DEF KernelInv, OpInv, QueueInv
<1>5. SlotInv'
  <2>1. \A j \in Ids : Open(j)' => Open(j) /\ ops'[j] = ops[j]
    BY <1>1, <1>2 DEF Open
  <2> QED
    BY <2>1 DEF KernelInv, SlotInv
<1>6. QueueInv'
  BY DEF KernelInv, QueueInv
<1> QED
  BY <1>2, <1>3, <1>4, <1>5, <1>6 DEF KernelInv, op

LEMMA TailMeans ==
  ASSUME NEW S, NEW t \in Seq(S), t # <<>>
  PROVE  \A k \in DOMAIN Tail(t) : /\ k \in Nat /\ k + 1 \in DOMAIN t /\ k + 1 # 1
                                   /\ Tail(t)[k] = t[k + 1]
OBVIOUS

(* A completion is taken from a port. *)
LEMMA TakesKernel ==
  ASSUME KernelInv, NEW p \in Ports, cq[p] # <<>>,
         ops' = [ops EXCEPT ![Head(cq[p])] = None],
         cq' = [cq EXCEPT ![p] = Tail(cq[p])], UNCHANGED <<htab, assoc>>
  PROVE  /\ KernelInv'
         /\ Head(cq[p]) \in Ids
         /\ ops[Head(cq[p])] \in Ops
         /\ ops[Head(cq[p])].res \in {"ok", "data", "nothing"}
<1> DEFINE i == Head(cq[p])
<1>1. /\ i \in Ids /\ ops[i] # None /\ ops[i].res \in {"ok", "data", "nothing"}
      /\ 1 \in DOMAIN cq[p] /\ i = cq[p][1]
  BY DEF KernelInv, KernelTypes
<1>2. \A q \in Ports : \A k \in DOMAIN cq'[q] :
        \/ q # p /\ k \in DOMAIN cq[q] /\ cq'[q][k] = cq[q][k]
        \/ /\ q = p /\ k \in Nat /\ k + 1 \in DOMAIN cq[p] /\ k + 1 # 1
           /\ cq'[p][k] = cq[p][k + 1]
  <2> SUFFICES ASSUME NEW q \in Ports, NEW k \in DOMAIN cq'[q]
               PROVE  \/ q # p /\ k \in DOMAIN cq[q] /\ cq'[q][k] = cq[q][k]
                      \/ /\ q = p /\ k \in Nat /\ k + 1 \in DOMAIN cq[p] /\ k + 1 # 1
                         /\ cq'[p][k] = cq[p][k + 1]
    OBVIOUS
  <2>1. CASE q # p
    BY <2>1 DEF KernelInv, KernelTypes
  <2>2. CASE q = p
    <3>1. cq[p] \in Seq(Ids) /\ cq'[p] = Tail(cq[p])
      BY DEF KernelInv, KernelTypes
    <3> QED
      BY <2>2, <3>1, TailMeans
  <2> QED
    BY <2>1, <2>2
<1>3. \A q \in Ports : \A k \in DOMAIN cq'[q] : cq'[q][k] # i
  BY <1>1, <1>2 DEF KernelInv, QueueInv
<1>4. cq' \in [Ports -> Seq(Ids)]
  BY DEF KernelInv, KernelTypes
<1> HIDE DEF i
<1>5. /\ ops' \in [Ids -> Ops \cup {None}]
      /\ \A j \in Ids : ops'[j] = IF j = i THEN None ELSE ops[j]
  BY <1>1 DEF KernelInv, KernelTypes, i
<1>6. KernelTypes'
  <2> SUFFICES ASSUME NEW q \in Ports, NEW k \in DOMAIN cq'[q]
               PROVE  /\ ops'[cq'[q][k]] # None
                      /\ ops'[cq'[q][k]].res \in {"ok", "data", "nothing"}
    BY <1>4, <1>5 DEF KernelInv, KernelTypes
  <2>1. PICK r \in Ports : \E l \in DOMAIN cq[r] : cq'[q][k] = cq[r][l]
    BY <1>2
  <2>2. /\ ops[cq'[q][k]] # None
        /\ ops[cq'[q][k]].res \in {"ok", "data", "nothing"}
        /\ cq'[q][k] \in Ids
    BY <2>1 DEF KernelInv, KernelTypes
  <2> QED
    BY <1>3, <1>5, <2>2
<1>7. OpInv'
  BY <1>5 DEF KernelInv, OpInv
<1>8. SlotInv'
  <2>1. \A j \in Ids : Open(j)' => Open(j) /\ ops'[j] = ops[j]
    BY <1>5 DEF Open
  <2> QED
    BY <2>1 DEF KernelInv, SlotInv
<1>9. QueueInv'
  <2> SUFFICES ASSUME NEW q \in Ports, NEW r \in Ports, NEW k \in DOMAIN cq'[q],
                      NEW l \in DOMAIN cq'[r], cq'[q][k] = cq'[r][l]
               PROVE  q = r /\ k = l
    BY DEF KernelInv, QueueInv
  <2>1. CASE q = p /\ r = p
    <3>1. k + 1 = l + 1 /\ k \in Nat /\ l \in Nat
      BY <1>2, <2>1 DEF KernelInv, QueueInv
    <3> QED
      BY <2>1, <3>1
  <2>2. CASE q # p \/ r # p
    BY <1>2, <2>2 DEF KernelInv, QueueInv
  <2> QED
    BY <2>1, <2>2
<1> QED
  BY <1>1, <1>6, <1>7, <1>8, <1>9 DEF KernelInv, KernelTypes, i

(* A socket is attached to a port. *)
LEMMA AttachesKernel ==
  ASSUME KernelInv, NEW h \in Handles, NEW p \in Ports,
         assoc' = [assoc EXCEPT ![h] = {p}], UNCHANGED <<htab, ops, cq>>
  PROVE  KernelInv'
<1>1. KernelTypes'
  BY DEF KernelInv, KernelTypes
<1>2. OpInv' /\ SlotInv'
  BY DEF KernelInv, OpInv, SlotInv, Open
<1>3. QueueInv'
  <2>1. \A g \in Handles : assoc'[g] = IF g = h THEN {p} ELSE assoc[g]
    BY DEF KernelInv, KernelTypes
  <2> QED
    BY <2>1 DEF KernelInv, QueueInv
<1> QED
  BY <1>1, <1>2, <1>3 DEF KernelInv

(* An operation under way completes, an accept with a client or without. *)
LEMMA CompletesKernel ==
  ASSUME KernelInv, NEW i \in Ids, ops[i] # None, ops[i].res \in {"pending", "doomed"},
         NEW r \in {"ok", "data", "nothing"}, NEW c \in Conns \cup {None},
         Complete(i, r, c), UNCHANGED assoc,
         ops[i].kind = "accept" => r \in {"ok", "nothing"} /\ (r = "ok" <=> c \in Conns),
         ops[i].kind = "recv" => r \in {"data", "nothing"} /\ c = ops[i].conn,
         \/ UNCHANGED htab
         \/ /\ ops[i].kind = "accept" /\ ops[i].res = "pending" /\ c \in Conns
            /\ htab' = [htab EXCEPT ![ops[i].sock] = c]
  PROVE  /\ KernelInv'
         /\ \A j \in Ids : j # i => ops'[j] = ops[j]
         /\ ops'[i] # None /\ ops'[i] \in Ops
         /\ ops'[i].kind = ops[i].kind /\ ops'[i].sock = ops[i].sock
         /\ ops'[i].listener = ops[i].listener
         /\ ops'[i].conn = c /\ ops'[i].res = r
<1>1. ops[i] \in Ops
  BY DEF KernelInv, KernelTypes
<1>2. /\ ops' \in [Ids -> Ops \cup {None}]
      /\ \A j \in Ids : j # i => ops'[j] = ops[j]
      /\ ops'[i] # None /\ ops'[i] \in Ops
      /\ ops'[i].kind = ops[i].kind /\ ops'[i].sock = ops[i].sock
      /\ ops'[i].listener = ops[i].listener /\ ops'[i].port = ops[i].port
      /\ ops'[i].conn = c /\ ops'[i].res = r
  <2> DEFINE m == [ops[i] EXCEPT !.res = r, !.conn = c]
  <2>0. m = [ops[i] EXCEPT !.res = r, !.conn = c]
    OBVIOUS
  <2>2. ops' = [ops EXCEPT ![i] = m]
    BY <1>1 DEF Complete, KernelInv, KernelTypes, Ops
  <2> HIDE DEF m
  <2>1. /\ m \in Ops /\ m # None /\ m.kind = ops[i].kind /\ m.sock = ops[i].sock
        /\ m.listener = ops[i].listener /\ m.port = ops[i].port /\ m.conn = c /\ m.res = r
    <3>1. [ops[i] EXCEPT !.res = r] \in Ops
      BY <1>1 DEF Ops
    <3>2. \A d \in Ops : [d EXCEPT !.conn = c] \in Ops
      BY DEF Ops
    <3>3. m = [[ops[i] EXCEPT !.res = r] EXCEPT !.conn = c]
      BY <2>0
    <3>4. m \in Ops
      BY <3>1, <3>2, <3>3
    <3> QED
      BY <1>1, <2>0, <3>4, NoneIsNoOp DEF Ops
  <2> QED
    BY <2>1, <2>2 DEF KernelInv, KernelTypes
<1>3. \A q \in Ports : \A k \in DOMAIN cq[q] : cq[q][k] # i
  BY DEF KernelInv, KernelTypes
<1>4. /\ cq' \in [Ports -> Seq(Ids)]
      /\ \A q \in Ports : \A k \in DOMAIN cq'[q] :
           \/ k \in DOMAIN cq[q] /\ cq'[q][k] = cq[q][k]
           \/ q \in ops[i].port /\ k = Len(cq[q]) + 1 /\ cq'[q][k] = i
  <2>1. cq' = [p \in Ports |-> IF p \in ops[i].port THEN Append(cq[p], i) ELSE cq[p]]
    BY DEF Complete
  <2>2. ASSUME NEW q \in Ports
        PROVE  /\ cq'[q] \in Seq(Ids)
               /\ \A k \in DOMAIN cq'[q] :
                    \/ k \in DOMAIN cq[q] /\ cq'[q][k] = cq[q][k]
                    \/ q \in ops[i].port /\ k = Len(cq[q]) + 1 /\ cq'[q][k] = i
    <3>1. cq[q] \in Seq(Ids)
      BY DEF KernelInv, KernelTypes
    <3>2. cq'[q] = IF q \in ops[i].port THEN Append(cq[q], i) ELSE cq[q]
      BY <2>1
    <3> QED
      BY <3>1, <3>2
  <2> QED
    BY <2>1, <2>2
<1>5. KernelTypes'
  <2>1. htab' \in [Handles -> Conns \cup {Blank, None}]
    BY DEF KernelInv, KernelTypes
  <2>2. ASSUME NEW q \in Ports, NEW k \in DOMAIN cq'[q]
        PROVE  ops'[cq'[q][k]] # None /\ ops'[cq'[q][k]].res \in {"ok", "data", "nothing"}
    <3>1. CASE cq'[q][k] = i
      BY <1>2, <3>1
    <3>2. CASE k \in DOMAIN cq[q] /\ cq'[q][k] = cq[q][k]
      <4>1. cq[q][k] \in Ids /\ cq[q][k] # i
        BY <1>3, <3>2 DEF KernelInv, KernelTypes
      <4> QED
        BY <1>2, <3>2, <4>1 DEF KernelInv, KernelTypes
    <3> QED
      BY <1>4, <3>1, <3>2
  <2> QED
    BY <1>2, <1>4, <2>1, <2>2 DEF KernelInv, KernelTypes
<1>6. OpInv'
  <2> SUFFICES ASSUME NEW j \in Ids, ops'[j] # None
               PROVE  /\ \A p, q \in ops'[j].port : p = q
                      /\ ops'[j].kind = "accept" =>
                           /\ ops'[j].listener \in Servers
                           /\ ops'[j].res \in {"pending", "doomed", "ok", "nothing"}
                           /\ ops'[j].res = "ok" <=> ops'[j].conn \in Conns
                      /\ ops'[j].kind = "recv" =>
                           /\ ops'[j].listener = None
                           /\ ops'[j].conn \in Conns
                           /\ ops'[j].res \in {"pending", "data", "nothing"}
    BY DEF OpInv
  <2>1. CASE j = i
    BY <1>2, <2>1 DEF KernelInv, OpInv
  <2>2. CASE j # i
    BY <1>2, <2>2 DEF KernelInv, OpInv
  <2> QED
    BY <2>1, <2>2
<1>7. SlotInv'
  <2>1. \A j \in Ids : Open(j)' => j # i /\ Open(j) /\ ops'[j] = ops[j] /\ ops[j].sock \in Handles
    BY <1>2 DEF Open, KernelInv, KernelTypes, Ops
  <2>2. \A j \in Ids : Open(j)' => htab'[ops[j].sock] = htab[ops[j].sock]
    <3> SUFFICES ASSUME NEW j \in Ids, Open(j)',
                        Open(i), htab' = [htab EXCEPT ![ops[i].sock] = c]
                 PROVE  htab'[ops[j].sock] = htab[ops[j].sock]
      BY <2>1 DEF Open
    <3>1. ops[i].sock # ops[j].sock
      BY <2>1 DEF KernelInv, SlotInv
    <3> QED
      BY <2>1, <3>1 DEF KernelInv, KernelTypes
  <2> QED
    BY <2>1, <2>2 DEF KernelInv, SlotInv
<1>8. QueueInv'
  <2>1. \A p, q \in ops[i].port : p = q
    BY DEF KernelInv, OpInv
  <2> SUFFICES ASSUME NEW p \in Ports, NEW q \in Ports, NEW k \in DOMAIN cq'[p],
                      NEW l \in DOMAIN cq'[q], cq'[p][k] = cq'[q][l]
               PROVE  p = q /\ k = l
    BY DEF KernelInv, QueueInv
  <2>2. CASE cq'[p][k] = i
    <3>1. p \in ops[i].port /\ k = Len(cq[p]) + 1
      <4>1. ~(k \in DOMAIN cq[p] /\ cq'[p][k] = cq[p][k])
        BY <1>3, <2>2
      <4> QED
        BY <1>4, <4>1
    <3>2. q \in ops[i].port /\ l = Len(cq[q]) + 1
      <4>1. ~(l \in DOMAIN cq[q] /\ cq'[q][l] = cq[q][l])
        BY <1>3, <2>2
      <4> QED
        BY <1>4, <4>1
    <3> QED
      BY <2>1, <3>1, <3>2
  <2>3. CASE cq'[p][k] # i
    BY <1>4, <2>3 DEF KernelInv, QueueInv
  <2> QED
    BY <2>2, <2>3
<1> QED
  BY <1>2, <1>5, <1>6, <1>7, <1>8 DEF KernelInv

--------------------------------------------------------------------------------
(***************************************************************************)
(* The inductive invariant: the loops, and how many operations there are   *)
(***************************************************************************)

(* What a loop has in hand, by where it is. *)
HandInv ==
  \A s \in Servers :
    /\ cur[s] # None <=> pc[s] \in {"accepted", "recv", "replenish", "received",
                                    "early", "finish"}
    /\ pc[s] \in {"accepted", "recv", "replenish"} =>
         /\ cur[s].kind = "accept"
         /\ cur[s].listener \in Servers
         /\ cur[s].res = "ok" => cur[s].conn \in Conns
    /\ pc[s] = "recv" => cur[s].res = "ok"
    /\ pc[s] \in {"received", "early", "finish"} =>
         /\ cur[s].kind = "recv"
         /\ cur[s].listener = None
         /\ cur[s].conn \in Conns

(* The operation i leads to the close of h. *)
Holds(i, h) ==
  /\ ops[i] # None /\ ops[i].sock = h
  /\ htab[h] = Blank => ops[i].kind = "accept"
  /\ htab[h] \in Conns => ops[i].conn = htab[h]
  /\ ops[i].kind = "recv" => \E s \in Servers : deadlines[s][h] # None

(* NoHandleLeak, but a loop that has only the next accept left to post does *)
(* not count.                                                               *)
HeldInv ==
  \A h \in Handles : htab[h] # None =>
    \/ \E s \in Servers : InHand(s, h) /\ pc[s] # "replenish"
    \/ \E i \in Ids : Holds(i, h)

(* The loops that have an accept of s in hand. *)
Hands(s) == {t \in Servers : cur[t] # None /\ cur[t].listener = s}

(* The operations that stand for an accepted connection, the loops that    *)
(* have one in hand, and the connections.                                  *)
Busy == {i \in Ids : ops[i] # None /\ (ops[i].kind = "recv" \/ ops[i].res = "ok")}
Carrying(s) == pc[s] = "recv" \/ (pc[s] = "accepted" /\ cur[s].res = "ok")
Carriers == {s \in Servers : Carrying(s)}
Arrived == {c \in Conns : phase[c] = "accepted"}

(* There are never more operations than accept slots and connections.      *)
CountInv ==
  /\ AcceptSlotsKept
  /\ Cardinality(Busy) + Cardinality(Carriers) <= Cardinality(Arrived)
  /\ \A s \in Servers :
       /\ pc[s] = "start" => posted[s] = 0
       /\ pc[s] = "post" => posted[s] < AcceptSlots

IInv == TypeOK /\ OpInv /\ SlotInv /\ QueueInv /\ HandInv /\ HeldInv /\ CountInv

LEMMA IInvKernel == ASSUME IInv PROVE KernelInv
BY DEF IInv, KernelInv, KernelTypes, TypeOK

--------------------------------------------------------------------------------
(***************************************************************************)
(* The count                                                               *)
(***************************************************************************)

(* What is counted can be counted. *)
LEMMA Finite ==
  /\ IsFiniteSet(Busy) /\ IsFiniteSet(Carriers) /\ IsFiniteSet(Arrived)
  /\ \A s : IsFiniteSet(Accepts(s)) /\ IsFiniteSet(Hands(s))
  /\ Cardinality(Busy) \in Nat /\ Cardinality(Carriers) \in Nat
  /\ Cardinality(Arrived) \in Nat /\ Cardinality(Arrived) <= Cardinality(Conns)
  /\ \A s : Cardinality(Accepts(s)) \in Nat /\ Cardinality(Hands(s)) \in Nat
<1>1. /\ IsFiniteSet(Busy) /\ IsFiniteSet(Carriers) /\ IsFiniteSet(Arrived)
      /\ Cardinality(Arrived) <= Cardinality(Conns)
  BY IocpAssumption, FS_Subset DEF Busy, Carriers, Arrived
<1>2. \A s : IsFiniteSet(Accepts(s)) /\ IsFiniteSet(Hands(s))
  BY IocpAssumption, FS_Subset DEF Accepts, Hands
<1> QED
  BY <1>1, <1>2, FS_CardinalityType

(* A pigeon hole: one address is free as long as one accept slot is not    *)
(* used, or one connection has no operation.                               *)
LEMMA FreeId ==
  ASSUME KernelInv,
         \A s \in Servers : Cardinality(Accepts(s)) <= AcceptSlots,
         Cardinality(Busy) <= Cardinality(Conns),
         \/ \E l \in Servers : Cardinality(Accepts(l)) < AcceptSlots
         \/ Cardinality(Busy) < Cardinality(Conns)
  PROVE  \E j \in Ids : ops[j] = None
<1> SUFFICES ASSUME \A j \in Ids : ops[j] # None PROVE FALSE
  OBVIOUS
<1> DEFINE A == {i \in Ids : ops[i].kind = "accept"}
           slots == Servers \X (1..AcceptSlots)
           ranks(s) == Injection(Accepts(s), 1..Cardinality(Accepts(s)))
           rank(s) == CHOOSE e : e \in ranks(s)
           code == [i \in A |-> <<ops[i].listener, rank(ops[i].listener)[i]>>]
<1>1. \A s : rank(s) \in ranks(s)
  <2> SUFFICES ASSUME NEW s PROVE ranks(s) # {}
    OBVIOUS
  <2>1. ExistsBijection(1..Cardinality(Accepts(s)), Accepts(s))
    BY Finite, FS_CardinalityType
  <2>2. ExistsBijection(Accepts(s), 1..Cardinality(Accepts(s)))
    BY <2>1, Fun_ExistsBijSymmetric
  <2> QED
    BY <2>2 DEF ExistsBijection, Bijection
<1>2. \A i \in A : /\ ops[i].listener \in Servers
                   /\ i \in Accepts(ops[i].listener)
  BY DEF KernelInv, OpInv, Accepts
<1>3. ASSUME NEW s \in Servers
      PROVE  /\ \A i \in Accepts(s) : /\ rank(s)[i] \in 1..AcceptSlots
                                      /\ rank(s)[i] <= Cardinality(Accepts(s))
             /\ \A i, j \in Accepts(s) : rank(s)[i] = rank(s)[j] => i = j
  <2>1. rank(s) \in ranks(s)
    BY <1>1
  <2> HIDE DEF rank
  <2> QED
    BY <2>1, Finite, IocpAssumption DEF Injection, IsInjective
<1> HIDE DEF rank
<1>4. code \in Injection(A, slots)
  <2>1. code \in [A -> slots]
    BY <1>2, <1>3
  <2>2. \A i, j \in A : code[i] = code[j] => i = j
    BY <1>2, <1>3
  <2> QED
    BY <2>1, <2>2 DEF Injection, IsInjective
<1>5. /\ IsFiniteSet(slots)
      /\ Cardinality(slots) = Cardinality(Servers) * AcceptSlots
  <2>1. IsFiniteSet(1..AcceptSlots) /\ Cardinality(1..AcceptSlots) = AcceptSlots
    BY IocpAssumption, FS_Interval
  <2> QED
    BY <2>1, IocpAssumption, FS_Product
<1>6. /\ IsFiniteSet(A) /\ Cardinality(A) <= Cardinality(slots)
      /\ Cardinality(A) = Cardinality(slots) <=> code \in Surjection(A, slots)
  BY <1>4, <1>5, FS_Injection
<1>7. ASSUME NEW l \in Servers, Cardinality(Accepts(l)) < AcceptSlots
      PROVE  Cardinality(A) # Cardinality(slots)
  <2>1. <<l, AcceptSlots>> \in slots
    BY IocpAssumption
  <2>2. \A i \in A : code[i] # <<l, AcceptSlots>>
    BY <1>2, <1>3, <1>7, Finite, IocpAssumption
  <2> HIDE DEF code, slots, A
  <2> QED
    BY <1>6, <2>1, <2>2 DEF Surjection
<1>8. Ids = A \cup Busy
  BY DEF Busy, KernelInv, KernelTypes, Ops
<1> HIDE DEF A, slots
<1>9. Cardinality(Ids) <= Cardinality(A) + Cardinality(Busy)
  <2>1. Cardinality(A \cup Busy) = Cardinality(A) + Cardinality(Busy) - Cardinality(A \cap Busy)
    BY <1>6, Finite, FS_Union
  <2>2. IsFiniteSet(A \cap Busy)
    BY <1>6, FS_Subset
  <2> QED
    BY <1>6, <1>8, <2>1, <2>2, Finite, FS_CardinalityType
<1>10. /\ Cardinality(A) \in Nat /\ Cardinality(slots) \in Nat
       /\ Cardinality(Conns) \in Nat /\ Cardinality(Ids) \in Nat
  BY <1>5, <1>6, IocpAssumption, FS_CardinalityType
<1> QED
  BY <1>5, <1>6, <1>7, <1>9, <1>10, Finite, IocpAssumption

(* A loop that is about to post an operation finds an address for it.      *)
LEMMA RoomToPost ==
  ASSUME IInv, \E s \in Servers : pc[s] \in {"post", "replenish", "recv"}
  PROVE  \E j \in Ids : ops[j] = None
<1>1. KernelInv
  BY IInvKernel
<1>2. \A s \in Servers : /\ Cardinality(Accepts(s)) + lost[s] + Cardinality(Hands(s)) = posted[s]
                         /\ lost[s] \in Nat /\ posted[s] \in 0..AcceptSlots
  BY IocpAssumption DEF IInv, TypeOK, CountInv, AcceptSlotsKept, Hands
<1>3. \A s \in Servers : Cardinality(Accepts(s)) <= AcceptSlots
  BY <1>2, Finite, IocpAssumption
<1>4. Cardinality(Conns) \in Nat
  BY IocpAssumption, FS_CardinalityType
<1>5. Cardinality(Busy) + Cardinality(Carriers) <= Cardinality(Arrived)
  BY DEF IInv, CountInv
<1>6. Cardinality(Busy) <= Cardinality(Conns)
  BY <1>4, <1>5, Finite
<1> PICK s \in Servers : pc[s] \in {"post", "replenish", "recv"}
  OBVIOUS
<1>7. CASE pc[s] = "post"
  <2>1. Cardinality(Accepts(s)) < AcceptSlots
    BY <1>2, <1>7, Finite, IocpAssumption DEF IInv, CountInv
  <2> QED
    BY <1>1, <1>3, <1>6, <2>1, FreeId
<1>8. CASE pc[s] = "replenish"
  <2>1. PICK l \in Servers : s \in Hands(l)
    BY <1>8 DEF IInv, HandInv, Hands
  <2>2. Cardinality(Hands(l)) # 0
    BY <2>1, Finite, FS_EmptySet
  <2>3. Cardinality(Accepts(l)) < AcceptSlots
    BY <1>2, <2>2, Finite, IocpAssumption
  <2> QED
    BY <1>1, <1>3, <1>6, <2>3, FreeId
<1>9. CASE pc[s] = "recv"
  <2>1. s \in Carriers
    BY <1>9 DEF Carriers, Carrying
  <2>2. Cardinality(Carriers) # 0
    BY <2>1, Finite, FS_EmptySet
  <2>3. Cardinality(Busy) < Cardinality(Conns)
    BY <1>4, <1>5, <2>2, Finite
  <2> QED
    BY <1>1, <1>3, <1>6, <2>3, FreeId
<1> QED
  BY <1>7, <1>8, <1>9

(* Steps that neither post nor take an operation, accept a client or lose  *)
(* an accept.                                                              *)
LEMMA CountsKept ==
  ASSUME IInv, UNCHANGED <<posted, lost>>,
         \A i \in Ids : /\ ops'[i] = None <=> ops[i] = None
                        /\ ops[i] # None => /\ ops'[i].kind = ops[i].kind
                                            /\ ops'[i].listener = ops[i].listener
                                            /\ ops'[i].res = "ok" => ops[i].res = "ok",
         \A s \in Servers :
           /\ \A l \in Servers : s \in Hands(l)' <=> s \in Hands(l)
           /\ Carrying(s)' => Carrying(s)
           /\ pc'[s] = "start" => pc[s] = "start"
           /\ pc'[s] = "post" => pc[s] \in {"start", "post"},
         \A c \in Conns : phase[c] = "accepted" => phase'[c] = "accepted"
  PROVE  CountInv'
<1>1. AcceptSlotsKept'
  <2> SUFFICES ASSUME NEW s \in Servers
               PROVE  Cardinality(Accepts(s))' + lost'[s] + Cardinality(Hands(s))' = posted'[s]
    BY DEF AcceptSlotsKept, Hands
  <2>1. Accepts(s)' = Accepts(s)
    BY DEF Accepts
  <2>2. Hands(s)' = Hands(s)
    BY DEF Hands
  <2> QED
    BY <2>1, <2>2 DEF IInv, CountInv, AcceptSlotsKept, Hands
<1>2. Cardinality(Busy)' + Cardinality(Carriers)' <= Cardinality(Arrived)'
  <2>1. Busy' \subseteq Busy
    BY DEF Busy
  <2>2. Carriers' \subseteq Carriers
    BY DEF Carriers
  <2>3. Arrived \subseteq Arrived' /\ IsFiniteSet(Arrived')
    BY IocpAssumption, FS_Subset DEF Arrived
  <2>4. /\ Cardinality(Busy') <= Cardinality(Busy) /\ Cardinality(Busy') \in Nat
        /\ Cardinality(Carriers') <= Cardinality(Carriers) /\ Cardinality(Carriers') \in Nat
        /\ Cardinality(Arrived) <= Cardinality(Arrived') /\ Cardinality(Arrived') \in Nat
    BY <2>1, <2>2, <2>3, Finite, FS_Subset, FS_CardinalityType
  <2> QED
    BY <2>4, Finite DEF IInv, CountInv
<1>3. \A s \in Servers : /\ pc'[s] = "start" => posted'[s] = 0
                         /\ pc'[s] = "post" => posted'[s] < AcceptSlots
  BY IocpAssumption DEF IInv, CountInv
<1> QED
  BY <1>1, <1>2, <1>3 DEF CountInv

(* Steps that post, take or complete nothing and close the handles in H.   *)
LEMMA ClosesHeld ==
  ASSUME IInv, NEW H \in SUBSET Handles, Closesocket(H), UNCHANGED cq,
         \A s \in Servers : \A h \in Handles \ H :
           /\ InHand(s, h) /\ pc[s] # "replenish" => InHand(s, h)' /\ pc'[s] # "replenish"
           /\ deadlines[s][h] # None => deadlines'[s][h] # None
  PROVE  HeldInv'
<1>1. \A i \in Ids : /\ ops'[i] = None <=> ops[i] = None
                     /\ ops[i] # None => /\ ops'[i].kind = ops[i].kind
                                         /\ ops'[i].sock = ops[i].sock
                                         /\ ops'[i].conn = ops[i].conn
  BY IInvKernel, ClosesKernel
<1>2. \A h \in Handles : htab'[h] = IF h \in H THEN None ELSE htab[h]
  BY DEF Closesocket
<1> SUFFICES ASSUME NEW h \in Handles \ H, htab[h] # None
             PROVE  \/ \E s \in Servers : InHand(s, h)' /\ pc'[s] # "replenish"
                    \/ \E i \in Ids : Holds(i, h)'
  BY <1>2 DEF HeldInv
<1>3. CASE \E s \in Servers : InHand(s, h) /\ pc[s] # "replenish"
  BY <1>3
<1>4. CASE \E i \in Ids : Holds(i, h)
  <2> PICK i \in Ids : Holds(i, h)
    BY <1>4
  <2> Holds(i, h)'
    BY <1>1, <1>2 DEF Holds
  <2> QED
    OBVIOUS
<1> QED
  BY <1>3, <1>4 DEF IInv, HeldInv

(* The types of the rest, from TypeOK. *)
LoopTypes ==
  /\ phase \in [Conns -> {"new", "backlog", "accepted", "dropped"}]
  /\ at \in [Conns -> Servers \cup {None}]
  /\ sent \in SUBSET Conns
  /\ gone \in SUBSET Conns
  /\ iocp \in Ports
  /\ pc \in [Servers -> {"start", "post", "call", "wait", "sweep", "accepted",
                         "recv", "replenish", "received", "early", "finish",
                         "returned"}]
  /\ posted \in [Servers -> 0..AcceptSlots]
  /\ port \in [Servers -> Ports]
  /\ cur \in [Servers -> Ops \cup {None}]
  /\ deadlines \in [Servers -> [Handles -> (-1..IdleTimeout) \cup {None}]]
  /\ nextSweep \in [Servers -> 0..SweepTick]
  /\ stage \in [Conns -> {"none", "connect", "data", "disconnect"}]
  /\ swept \in BOOLEAN
  /\ unposted \in SUBSET Conns
  /\ lost \in [Servers -> 0..AcceptSlots]
  /\ replies \in SUBSET (Conns \X Conns)

LEMMA Types == TypeOK <=> KernelTypes /\ LoopTypes
BY DEF TypeOK, KernelTypes, LoopTypes

LEMMA IInvParts ==
  IInv' <=> KernelInv' /\ LoopTypes' /\ HandInv' /\ HeldInv' /\ CountInv'
<1>1. TypeOK' <=> KernelTypes' /\ LoopTypes'
  BY DEF TypeOK, KernelTypes, LoopTypes
<1> QED
  BY <1>1 DEF IInv, KernelInv

--------------------------------------------------------------------------------
(***************************************************************************)
(* Every step keeps it                                                     *)
(***************************************************************************)

(* Steps that leave the kernel and what the loops have in hand alone.      *)
LEMMA Quiet ==
  ASSUME IInv, UNCHANGED <<kernelVars, cur, posted, lost>>, LoopTypes', HandInv',
         \A s \in Servers : /\ Carrying(s)' => Carrying(s)
                            /\ pc'[s] = "start" => pc[s] = "start"
                            /\ pc'[s] = "post" => pc[s] \in {"start", "post"}
                            /\ pc'[s] = "replenish" => pc[s] = "replenish",
         \A c \in Conns : phase[c] = "accepted" => phase'[c] = "accepted",
         \A s \in Servers : \A h \in Handles :
           deadlines[s][h] # None =>
             \/ deadlines'[s][h] # None
             \/ \E t \in Servers : InHand(t, h) /\ pc'[t] # "replenish"
  PROVE  IInv'
<1>1. KernelInv'
  BY IInvKernel DEF kernelVars, KernelInv, KernelTypes, OpInv, SlotInv, Open, QueueInv
<1>2. CountInv'
  BY CountsKept DEF kernelVars, Hands
<1>3. HeldInv'
  <2> SUFFICES ASSUME NEW h \in Handles, htab[h] # None,
                      ~ \E s \in Servers : InHand(s, h) /\ pc'[s] # "replenish"
               PROVE  \E i \in Ids : Holds(i, h)'
    BY DEF HeldInv, InHand, kernelVars
  <2>1. PICK i \in Ids : Holds(i, h)
    BY DEF IInv, HeldInv
  <2>2. Holds(i, h)'
    BY <2>1 DEF Holds, kernelVars
  <2> QED
    BY <2>2
<1> QED
  BY <1>1, <1>2, <1>3, IInvParts

LEMMA QuietLoop ==
  ASSUME IInv, NEW s \in Servers,
         \/ Start(s) \/ StartFails(s) \/ PostInitialFails(s) \/ Gqcs(s)
         \/ TimedOut(s) \/ NoSweep(s)
  PROVE  IInv'
<1> USE DEF Goto, clientVars, kernelVars, historyVars
<1>1. LoopTypes
  BY Types DEF IInv
<1>2. /\ UNCHANGED <<kernelVars, cur, posted, lost>>
      /\ UNCHANGED <<phase, deadlines>>
  BY DEF Start, StartFails, PostInitialFails, Gqcs, TimedOut, NoSweep
<1>3. /\ pc[s] \in {"start", "post", "call", "wait", "sweep"}
      /\ \E l \in {"post", "returned", "wait", "sweep", "call"} :
           pc' = [pc EXCEPT ![s] = l] /\ (l = "post" => pc[s] = "start")
  BY DEF Start, StartFails, PostInitialFails, Gqcs, TimedOut, NoSweep
<1>4. LoopTypes'
  <2>1. iocp' \in Ports /\ port' \in [Servers -> Ports]
    BY <1>1 DEF LoopTypes, Ports, Start, StartFails, PostInitialFails, Gqcs, TimedOut, NoSweep
  <2>2. UNCHANGED <<at, sent, gone, nextSweep, stage, swept, unposted, replies>>
    BY DEF Start, StartFails, PostInitialFails, Gqcs, TimedOut, NoSweep
  <2>3. pc' \in [Servers -> {"start", "post", "call", "wait", "sweep", "accepted",
                         "recv", "replenish", "received", "early", "finish",
                         "returned"}]
    BY <1>1, <1>3 DEF LoopTypes
  <2> QED
    BY <1>1, <1>2, <2>1, <2>2, <2>3 DEF LoopTypes
<1>5. HandInv'
  BY <1>1, <1>2, <1>3 DEF LoopTypes, IInv, HandInv
<1>6. \A t \in Servers : /\ Carrying(t)' => Carrying(t)
                         /\ pc'[t] = "start" => pc[t] = "start"
                         /\ pc'[t] = "post" => pc[t] \in {"start", "post"}
                         /\ pc'[t] = "replenish" => pc[t] = "replenish"
  BY <1>1, <1>2, <1>3 DEF LoopTypes, Carrying
<1> QED
  BY <1>2, <1>4, <1>5, <1>6, Quiet

LEMMA DataCallbackStep ==
  ASSUME IInv, NEW s \in Servers, DataCallback(s)
  PROVE  IInv'
<1> USE DEF Goto, clientVars, kernelVars, historyVars
<1>1. LoopTypes /\ KernelTypes
  BY Types DEF IInv
<1>2. /\ UNCHANGED <<kernelVars, cur, posted, lost>>
      /\ UNCHANGED phase
  BY DEF DataCallback
<1>3. /\ pc[s] = "received"
      /\ \E l \in {"finish", "early"} : pc' = [pc EXCEPT ![s] = l]
  BY DEF DataCallback
<1>4. /\ cur[s] \in Ops /\ cur[s] # None /\ cur[s].sock \in Handles
  BY <1>1, <1>3 DEF LoopTypes, IInv, HandInv, Ops
<1>5. /\ deadlines' \in [Servers -> [Handles -> (-1..IdleTimeout) \cup {None}]]
      /\ \A t \in Servers : \A h \in Handles :
           deadlines'[t][h] = IF t = s /\ h = cur[s].sock THEN None ELSE deadlines[t][h]
  BY <1>1, <1>4 DEF DataCallback, Forget, LoopTypes
<1>6. LoopTypes'
  <2>1. UNCHANGED <<at, sent, gone, iocp, port, nextSweep, swept, unposted>>
    BY DEF DataCallback
  <2>2. pc' \in [Servers -> {"start", "post", "call", "wait", "sweep", "accepted",
                         "recv", "replenish", "received", "early", "finish",
                         "returned"}]
    BY <1>1, <1>3 DEF LoopTypes
  <2>3. stage' \in [Conns -> {"none", "connect", "data", "disconnect"}]
    BY <1>1 DEF DataCallback, Fire, LoopTypes
  <2>4. replies' \in SUBSET (Conns \X Conns)
    <3>1. cur[s].conn \in Conns
      BY <1>3 DEF IInv, HandInv
    <3> QED
      BY <1>1, <3>1 DEF DataCallback, LoopTypes
  <2> QED
    BY <1>1, <1>2, <1>5, <2>1, <2>2, <2>3, <2>4 DEF LoopTypes
<1>7. HandInv'
  BY <1>1, <1>2, <1>3 DEF LoopTypes, IInv, HandInv
<1>8. \A t \in Servers : /\ Carrying(t)' => Carrying(t)
                         /\ pc'[t] = "start" => pc[t] = "start"
                         /\ pc'[t] = "post" => pc[t] \in {"start", "post"}
                         /\ pc'[t] = "replenish" => pc[t] = "replenish"
  BY <1>1, <1>2, <1>3 DEF LoopTypes, Carrying
<1>9. InHand(s, cur[s].sock) /\ pc'[s] # "replenish"
  BY <1>1, <1>3, <1>4 DEF InHand, LoopTypes
<1> QED
  BY <1>2, <1>5, <1>6, <1>7, <1>8, <1>9, Quiet

LEMMA OthersStep ==
  ASSUME IInv,
         \/ \E c \in Conns, s \in Servers : ClientConnect(c, s)
         \/ \E c \in Conns : ClientSend(c) \/ ClientClose(c)
         \/ Tick \/ UNCHANGED vars
  PROVE  IInv'
<1>1. LoopTypes
  BY Types DEF IInv
<1>2. UNCHANGED <<kernelVars, cur, posted, lost, pc, iocp, port, stage, swept, unposted, replies>>
  BY DEF ClientConnect, ClientSend, ClientClose, Tick, vars, kernelVars, loopVars, historyVars
<1>3. /\ phase' \in [Conns -> {"new", "backlog", "accepted", "dropped"}]
      /\ \A c \in Conns : phase[c] = "accepted" => phase'[c] = "accepted"
      /\ at' \in [Conns -> Servers \cup {None}] /\ sent' \in SUBSET Conns /\ gone' \in SUBSET Conns
  <2>1. CASE \E c \in Conns, s \in Servers : ClientConnect(c, s)
    <3> PICK c \in Conns, s \in Servers : ClientConnect(c, s)
      BY <2>1
    <3>1. /\ phase[c] = "new" /\ phase' = [phase EXCEPT ![c] = "backlog"]
          /\ at' = [at EXCEPT ![c] = s] /\ sent' = sent /\ gone' = gone
      BY DEF ClientConnect
    <3> QED
      BY <1>1, <3>1 DEF LoopTypes
  <2>2. CASE \E c \in Conns : ClientSend(c) \/ ClientClose(c)
    BY <1>1, <2>2 DEF ClientSend, ClientClose, LoopTypes
  <2>3. CASE Tick \/ UNCHANGED vars
    <3>1. UNCHANGED <<phase, at, sent, gone>>
      BY <2>3 DEF Tick, vars, clientVars
    <3> QED
      BY <1>1, <3>1 DEF LoopTypes
  <2> QED
    BY <2>1, <2>2, <2>3
<1>4. /\ deadlines' \in [Servers -> [Handles -> (-1..IdleTimeout) \cup {None}]]
      /\ nextSweep' \in [Servers -> 0..SweepTick]
      /\ \A s \in Servers : \A h \in Handles : deadlines[s][h] # None => deadlines'[s][h] # None
  <2>1. CASE Tick
    <3>1. \A s \in Servers : \A h \in Handles :
            deadlines'[s][h] = IF deadlines[s][h] \in {None, -1}
                                 THEN deadlines[s][h] ELSE deadlines[s][h] - 1
      BY <2>1 DEF Tick
    <3>2. \A s \in Servers : \A h \in Handles :
            deadlines[s][h] \in -1..IdleTimeout \/ deadlines[s][h] = None
      BY <1>1 DEF LoopTypes
    <3>3. None \notin Int
      BY IocpAssumption
    <3>4. \A s \in Servers : \A h \in Handles :
            /\ deadlines'[s][h] \in (-1..IdleTimeout) \cup {None}
            /\ deadlines[s][h] # None => deadlines'[s][h] # None
      BY <3>1, <3>2, <3>3, IocpAssumption
    <3>5. deadlines' \in [Servers -> [Handles -> (-1..IdleTimeout) \cup {None}]]
      <4>1. \A s \in Servers : \A h \in Handles :
              (IF deadlines[s][h] \in {None, -1}
                 THEN deadlines[s][h] ELSE deadlines[s][h] - 1) \in (-1..IdleTimeout) \cup {None}
        BY <3>1, <3>4
      <4> QED
        BY <2>1, <4>1 DEF Tick
    <3>6. nextSweep' \in [Servers -> 0..SweepTick]
      <4>1. \A s \in Servers :
              (IF pc[s] \in {"start", "post"} \/ nextSweep[s] = 0
                 THEN nextSweep[s] ELSE nextSweep[s] - 1) \in 0..SweepTick
        <5>1. \A s \in Servers : nextSweep[s] \in 0..SweepTick
          BY <1>1 DEF LoopTypes
        <5>2. SweepTick \in Nat
          BY IocpAssumption
        <5> QED
          BY <5>1, <5>2
      <4> QED
        BY <2>1, <4>1 DEF Tick
    <3> QED
      BY <3>4, <3>5, <3>6
  <2>2. CASE ~Tick
    <3>1. UNCHANGED <<deadlines, nextSweep>>
      BY <2>2 DEF ClientConnect, ClientSend, ClientClose, loopVars, vars
    <3> QED
      BY <1>1, <3>1 DEF LoopTypes
  <2> QED
    BY <2>1, <2>2
<1>5. LoopTypes'
  BY <1>1, <1>2, <1>3, <1>4 DEF LoopTypes
<1>6. HandInv'
  BY <1>2 DEF IInv, HandInv
<1> QED
  BY <1>2, <1>3, <1>4, <1>5, <1>6, Quiet DEF Carrying

(* Steps that close the handles in H. *)
LEMMA Closes ==
  ASSUME IInv, NEW H \in SUBSET Handles, Closesocket(H),
         UNCHANGED <<phase, cq, posted, lost>>, LoopTypes', HandInv',
         \A s \in Servers :
           /\ \A l \in Servers : s \in Hands(l)' <=> s \in Hands(l)
           /\ Carrying(s)' => Carrying(s)
           /\ pc'[s] = "start" => pc[s] = "start"
           /\ pc'[s] = "post" => pc[s] \in {"start", "post"},
         \A s \in Servers : \A h \in Handles \ H :
           /\ InHand(s, h) /\ pc[s] # "replenish" => InHand(s, h)' /\ pc'[s] # "replenish"
           /\ deadlines[s][h] # None => deadlines'[s][h] # None
  PROVE  IInv'
<1>1. KernelInv'
  BY IInvKernel, ClosesKernel
<1>2. \A i \in Ids : /\ ops'[i] = None <=> ops[i] = None
                     /\ ops[i] # None => /\ ops'[i].kind = ops[i].kind
                                         /\ ops'[i].listener = ops[i].listener
                                         /\ ops'[i].res = "ok" => ops[i].res = "ok"
  BY IInvKernel, ClosesKernel
<1>3. CountInv'
  BY <1>2, CountsKept
<1>4. HeldInv'
  BY ClosesHeld
<1> QED
  BY <1>1, <1>3, <1>4, IInvParts

LEMMA SweepStep ==
  ASSUME IInv, NEW s \in Servers, Sweep(s)
  PROVE  IInv'
<1>1. LoopTypes
  BY Types DEF IInv
<1>2. /\ pc[s] = "sweep" /\ pc' = [pc EXCEPT ![s] = "call"] /\ Closesocket(Expired(s))
      /\ UNCHANGED <<phase, at, sent, gone, cq, iocp, posted, port, cur, stage,
                     unposted, lost, replies>>
      /\ swept' \in BOOLEAN
      /\ nextSweep' = [nextSweep EXCEPT ![s] = SweepTick]
  BY DEF Sweep, Goto, clientVars
<1>3. /\ deadlines' \in [Servers -> [Handles -> (-1..IdleTimeout) \cup {None}]]
      /\ \A t \in Servers : \A h \in Handles \ Expired(s) : deadlines'[t][h] = deadlines[t][h]
  <2> DEFINE m == [h \in Handles |-> IF h \in Expired(s) THEN None ELSE deadlines[s][h]]
  <2>1. deadlines' = [deadlines EXCEPT ![s] = m]
    BY <1>1 DEF Sweep, LoopTypes
  <2>2. m \in [Handles -> (-1..IdleTimeout) \cup {None}]
    BY <1>1 DEF LoopTypes
  <2>3. \A h \in Handles \ Expired(s) : m[h] = deadlines[s][h]
    OBVIOUS
  <2> HIDE DEF m
  <2> QED
    BY <1>1, <2>1, <2>2, <2>3 DEF LoopTypes
<1>4. LoopTypes'
  <2>1. nextSweep' \in [Servers -> 0..SweepTick]
    BY <1>1, <1>2, IocpAssumption DEF LoopTypes
  <2> QED
    BY <1>1, <1>2, <1>3, <2>1 DEF LoopTypes
<1>5. HandInv'
  BY <1>1, <1>2 DEF LoopTypes, IInv, HandInv
<1>6. \A t \in Servers :
        /\ \A l \in Servers : t \in Hands(l)' <=> t \in Hands(l)
        /\ Carrying(t)' => Carrying(t)
        /\ pc'[t] = "start" => pc[t] = "start"
        /\ pc'[t] = "post" => pc[t] \in {"start", "post"}
        /\ pc'[t] = "replenish" => pc[t] = "replenish"
  BY <1>1, <1>2 DEF LoopTypes, Carrying, Hands
<1>7. Expired(s) \in SUBSET Handles
  BY DEF Expired
<1> QED
  BY <1>2, <1>3, <1>4, <1>5, <1>6, <1>7, Closes DEF InHand

(* The closes of a loop that keeps what it has in hand.                    *)
LEMMA CloseStep ==
  ASSUME IInv, NEW s \in Servers,
         \/ AcceptError(s) \/ AttachFails(s) \/ PostRecvFails(s) \/ EarlyClose(s)
  PROVE  IInv'
<1>1. LoopTypes
  BY Types DEF IInv
<1>2. /\ Closesocket({cur[s].sock})
      /\ UNCHANGED <<phase, at, sent, gone, cq, iocp, posted, port, cur, deadlines,
                     nextSweep, stage, swept, lost, replies>>
      /\ \/ pc[s] \in {"accepted", "recv"} /\ pc' = [pc EXCEPT ![s] = "replenish"]
         \/ pc[s] = "early" /\ pc' = [pc EXCEPT ![s] = "finish"]
  BY DEF AcceptError, AttachFails, PostRecvFails, EarlyClose, Goto, clientVars, historyVars
<1>3. /\ cur[s] \in Ops /\ cur[s] # None /\ cur[s].sock \in Handles
      /\ cur[s].conn \in Conns \cup {None}
      /\ pc[s] = "recv" => cur[s].conn \in Conns
  BY <1>1, <1>2 DEF LoopTypes, IInv, HandInv, Ops
<1>4. LoopTypes'
  <2>1. unposted' \in SUBSET Conns
    BY <1>1, <1>3 DEF LoopTypes, AcceptError, AttachFails, PostRecvFails, EarlyClose, Goto, historyVars
  <2>2. pc' \in [Servers -> {"start", "post", "call", "wait", "sweep", "accepted",
                         "recv", "replenish", "received", "early", "finish",
                         "returned"}]
    BY <1>1, <1>2 DEF LoopTypes
  <2> QED
    BY <1>1, <1>2, <2>1, <2>2 DEF LoopTypes
<1>5. HandInv'
  BY <1>1, <1>2 DEF LoopTypes, IInv, HandInv
<1>6. \A t \in Servers :
        /\ \A l \in Servers : t \in Hands(l)' <=> t \in Hands(l)
        /\ Carrying(t)' => Carrying(t)
        /\ pc'[t] = "start" => pc[t] = "start"
        /\ pc'[t] = "post" => pc[t] \in {"start", "post"}
        /\ t # s => pc'[t] = pc[t]
  BY <1>1, <1>2 DEF LoopTypes, Carrying, Hands
<1>7. \A t \in Servers : \A h \in Handles \ {cur[s].sock} : InHand(t, h) => t # s
  BY DEF InHand
<1> QED
  BY <1>2, <1>3, <1>4, <1>5, <1>6, <1>7, Closes DEF InHand

(* The closes of a loop that is done with a connection.                    *)
LEMMA DoneStep ==
  ASSUME IInv, NEW s \in Servers, HangUp(s) \/ Finish(s)
  PROVE  IInv'
<1>1. LoopTypes
  BY Types DEF IInv
<1>2. /\ Closesocket({cur[s].sock})
      /\ UNCHANGED <<phase, at, sent, gone, cq, iocp, posted, port,
                     nextSweep, swept, unposted, lost, replies>>
      /\ pc[s] \in {"received", "finish"} /\ pc' = [pc EXCEPT ![s] = "call"]
      /\ cur' = [cur EXCEPT ![s] = None]
      /\ Fire(cur[s].conn, "disconnect")
  BY DEF HangUp, Finish, Goto, clientVars
<1>3. /\ cur[s] \in Ops /\ cur[s] # None /\ cur[s].sock \in Handles
      /\ cur[s].listener = None
  BY <1>1, <1>2 DEF LoopTypes, IInv, HandInv, Ops
<1>4. /\ deadlines' \in [Servers -> [Handles -> (-1..IdleTimeout) \cup {None}]]
      /\ \A t \in Servers : \A h \in Handles \ {cur[s].sock} : deadlines'[t][h] = deadlines[t][h]
  <2>1. CASE HangUp(s)
    BY <1>1, <1>3, <2>1 DEF HangUp, Forget, LoopTypes
  <2>2. CASE Finish(s)
    BY <1>1, <2>2 DEF Finish, LoopTypes
  <2> QED
    BY <2>1, <2>2
<1>5. LoopTypes'
  <2>1. stage' \in [Conns -> {"none", "connect", "data", "disconnect"}]
    BY <1>1, <1>2 DEF Fire, LoopTypes
  <2> QED
    BY <1>1, <1>2, <1>4, <2>1 DEF LoopTypes
<1>6. HandInv'
  BY <1>1, <1>2 DEF LoopTypes, IInv, HandInv
<1>7. \A t \in Servers : /\ cur'[t] = IF t = s THEN None ELSE cur[t]
                         /\ pc'[t] = IF t = s THEN "call" ELSE pc[t]
  BY <1>1, <1>2 DEF LoopTypes
<1>8. \A t \in Servers :
        /\ \A l \in Servers : t \in Hands(l)' <=> t \in Hands(l)
        /\ Carrying(t)' => Carrying(t)
        /\ pc'[t] = "start" => pc[t] = "start"
        /\ pc'[t] = "post" => pc[t] \in {"start", "post"}
  <2>1. None \notin Servers
    BY IocpAssumption
  <2> QED
    BY <1>3, <1>7, <2>1 DEF Carrying, Hands
<1>9. \A t \in Servers : \A h \in Handles \ {cur[s].sock} : InHand(t, h) => t # s
  BY DEF InHand
<1> QED
  BY <1>2, <1>3, <1>4, <1>5, <1>6, <1>7, <1>8, <1>9, Closes DEF InHand

LEMMA AttachStep ==
  ASSUME IInv, NEW s \in Servers, Attach(s)
  PROVE  IInv'
<1>1. LoopTypes
  BY Types DEF IInv
<1>2. /\ pc[s] = "accepted" /\ pc' = [pc EXCEPT ![s] = "recv"] /\ cur[s].res = "ok"
      /\ UNCHANGED <<phase, at, sent, gone, htab, ops, cq, iocp, posted, port, cur,
                     deadlines, nextSweep, swept, unposted, lost, replies>>
      /\ assoc' = [assoc EXCEPT ![cur[s].sock] = {iocp}]
      /\ Fire(cur[s].conn, "connect")
  BY DEF Attach, Goto, clientVars
<1>3. /\ cur[s] \in Ops /\ cur[s] # None /\ cur[s].sock \in Handles
  BY <1>1, <1>2 DEF LoopTypes, IInv, HandInv, Ops
<1>4. KernelInv'
  <2>1. iocp \in Ports
    BY <1>1 DEF LoopTypes
  <2> QED
    BY <1>2, <1>3, <2>1, IInvKernel, AttachesKernel
<1>5. LoopTypes'
  <2>1. stage' \in [Conns -> {"none", "connect", "data", "disconnect"}]
    BY <1>1, <1>2 DEF Fire, LoopTypes
  <2>2. pc' \in [Servers -> {"start", "post", "call", "wait", "sweep", "accepted",
                         "recv", "replenish", "received", "early", "finish",
                         "returned"}]
    BY <1>1, <1>2 DEF LoopTypes
  <2> QED
    BY <1>1, <1>2, <2>1, <2>2 DEF LoopTypes
<1>6. HandInv'
  BY <1>1, <1>2 DEF LoopTypes, IInv, HandInv
<1>7. \A t \in Servers :
        /\ \A l \in Servers : t \in Hands(l)' <=> t \in Hands(l)
        /\ Carrying(t)' => Carrying(t)
        /\ pc'[t] = "start" => pc[t] = "start"
        /\ pc'[t] = "post" => pc[t] \in {"start", "post"}
        /\ pc'[t] = "replenish" => pc[t] = "replenish"
  BY <1>1, <1>2 DEF LoopTypes, Carrying, Hands
<1>8. CountInv'
  BY <1>2, <1>7, CountsKept
<1>9. HeldInv'
  BY <1>2, <1>7 DEF IInv, HeldInv, InHand, Holds
<1> QED
  BY <1>4, <1>5, <1>6, <1>8, <1>9, IInvParts

LEMMA ReplenishFailsStep ==
  ASSUME IInv, NEW s \in Servers, ReplenishFails(s)
  PROVE  IInv'
<1> DEFINE l == cur[s].listener
<1>1. LoopTypes
  BY Types DEF IInv
<1>2. /\ pc[s] = "replenish" /\ pc' = [pc EXCEPT ![s] = "call"]
      /\ UNCHANGED <<phase, at, sent, gone, htab, assoc, ops, cq, iocp, posted, port,
                     deadlines, nextSweep, stage, swept, unposted, replies>>
      /\ cur' = [cur EXCEPT ![s] = None]
      /\ lost' = [lost EXCEPT ![l] = @ + 1]
  BY DEF ReplenishFails, Goto, clientVars, kernelVars
<1>3. /\ cur[s] \in Ops /\ cur[s] # None /\ l \in Servers /\ cur[s].listener = l
  BY <1>1, <1>2 DEF LoopTypes, IInv, HandInv, Ops
<1> HIDE DEF l
<1>4. \A t \in Servers : /\ cur'[t] = IF t = s THEN None ELSE cur[t]
                         /\ pc'[t] = IF t = s THEN "call" ELSE pc[t]
                         /\ lost'[t] = IF t = l THEN lost[l] + 1 ELSE lost[t]
  BY <1>1, <1>2, <1>3 DEF LoopTypes
<1>5. \A t \in Servers : /\ Cardinality(Accepts(t)) + lost[t] + Cardinality(Hands(t)) = posted[t]
                         /\ lost[t] \in Nat /\ posted[t] \in 0..AcceptSlots
  BY <1>1, IocpAssumption DEF IInv, LoopTypes, CountInv, AcceptSlotsKept, Hands
<1>6. \A t \in Servers : /\ t = l => s \in Hands(t) /\ Hands(t)' = Hands(t) \ {s}
                         /\ t # l => Hands(t)' = Hands(t)
  <2> SUFFICES ASSUME NEW t \in Servers
               PROVE  /\ t = l => s \in Hands(t) /\ Hands(t)' = Hands(t) \ {s}
                      /\ t # l => Hands(t)' = Hands(t)
    OBVIOUS
  <2>1. \A r : r \in Hands(t)' <=> r \in Hands(t) /\ r # s
    BY <1>4 DEF Hands
  <2>2. s \in Hands(t) <=> t = l
    BY <1>3 DEF Hands
  <2>3. Hands(t)' = Hands(t) \ {s}
    BY <2>1
  <2> QED
    BY <2>2, <2>3
<1>7. \A t \in Servers :
        Cardinality(Hands(t)') = IF t = l THEN Cardinality(Hands(t)) - 1
                                          ELSE Cardinality(Hands(t))
  BY <1>6, Finite, FS_RemoveElement
<1>8. lost[l] < AcceptSlots
  <2>1. Cardinality(Hands(l)) # 0
    BY <1>3, <1>6, Finite, FS_EmptySet
  <2>2. Cardinality(Accepts(l)) \in Nat /\ Cardinality(Hands(l)) \in Nat /\ AcceptSlots \in Nat
    BY Finite, IocpAssumption
  <2>3. /\ Cardinality(Accepts(l)) + lost[l] + Cardinality(Hands(l)) = posted[l]
        /\ lost[l] \in Nat /\ posted[l] \in 0..AcceptSlots
    BY <1>3, <1>5
  <2> QED
    BY <2>1, <2>2, <2>3
<1>9. AcceptSlotsKept'
  <2> SUFFICES ASSUME NEW t \in Servers
               PROVE  Cardinality(Accepts(t))' + lost'[t] + Cardinality(Hands(t))' = posted'[t]
    BY DEF AcceptSlotsKept, Hands
  <2>1. Accepts(t)' = Accepts(t)
    BY <1>2 DEF Accepts
  <2> QED
    BY <1>2, <1>4, <1>5, <1>7, <2>1, Finite
<1>10. CountInv'
  <2>1. Busy' = Busy /\ Arrived' = Arrived
    BY <1>2 DEF Busy, Arrived
  <2>2. Carriers' = Carriers
    BY <1>2, <1>4 DEF Carriers, Carrying
  <2>3. \A t \in Servers : /\ pc'[t] = "start" => posted'[t] = 0
                           /\ pc'[t] = "post" => posted'[t] < AcceptSlots
    BY <1>2, <1>4 DEF IInv, CountInv
  <2> QED
    BY <1>9, <2>1, <2>2, <2>3 DEF IInv, CountInv
<1>11. KernelInv'
  BY <1>2, IInvKernel DEF KernelInv, KernelTypes, OpInv, SlotInv, Open, QueueInv
<1>12. LoopTypes'
  <2>1. lost' \in [Servers -> 0..AcceptSlots]
    BY <1>1, <1>2, <1>3, <1>5, <1>8, IocpAssumption DEF LoopTypes
  <2>2. pc' \in [Servers -> {"start", "post", "call", "wait", "sweep", "accepted",
                         "recv", "replenish", "received", "early", "finish",
                         "returned"}]
    BY <1>1, <1>2 DEF LoopTypes
  <2> QED
    BY <1>1, <1>2, <2>1, <2>2 DEF LoopTypes
<1>13. HandInv'
  BY <1>4 DEF IInv, HandInv
<1>14. HeldInv'
  BY <1>2, <1>4 DEF IInv, HeldInv, InHand, Holds
<1> QED
  BY <1>10, <1>11, <1>12, <1>13, <1>14, IInvParts

(* A socket is made and AcceptEx posted on it for the listener of l: what  *)
(* the two steps that do so have in common.                                *)
LEMMA PostsAccept ==
  ASSUME IInv, NEW l \in Servers, PostAccept(l), UNCHANGED <<phase, assoc, cq, deadlines>>,
         \E j \in Ids : ops[j] = None,
         \A s \in Servers : \A h \in Handles :
           InHand(s, h) /\ pc[s] # "replenish" => InHand(s, h)' /\ pc'[s] # "replenish",
         \A s \in Servers : Carrying(s)' => Carrying(s)
  PROVE  /\ KernelInv' /\ HeldInv'
         /\ \A s \in Servers : Cardinality(Accepts(s)') =
              IF s = l THEN Cardinality(Accepts(s)) + 1 ELSE Cardinality(Accepts(s))
         /\ Cardinality(Busy)' + Cardinality(Carriers)' <= Cardinality(Arrived)'
<1>1. PICK i \in Ids, h \in Handles :
        /\ KernelInv'
        /\ ops[i] = None /\ htab[h] = None /\ htab' = [htab EXCEPT ![h] = Blank]
        /\ \A j \in Ids : ops'[j] = IF j = i THEN AcceptOp(h, l) ELSE ops[j]
  BY IInvKernel, PostsAcceptKernel
<1> DEFINE op == AcceptOp(h, l)
<1>2. /\ op # None /\ op.kind = "accept" /\ op.sock = h /\ op.listener = l
      /\ op.conn = None /\ op.res = "pending"
  <2>1. op \in Ops
    BY DEF AcceptOp, Ops, Ports
  <2> QED
    BY <2>1, NoneIsNoOp DEF AcceptOp
<1>3. \A j \in Ids : ops'[j] = IF j = i THEN op ELSE ops[j]
  BY <1>1
<1> HIDE DEF op
<1>4. \A g \in Handles : htab'[g] = IF g = h THEN Blank ELSE htab[g]
  BY <1>1 DEF IInv, TypeOK
<1>5. HeldInv'
  <2> SUFFICES ASSUME NEW g \in Handles, htab'[g] # None,
                      ~ \E s \in Servers : InHand(s, g)' /\ pc'[s] # "replenish"
               PROVE  \E j \in Ids : Holds(j, g)'
    BY DEF HeldInv
  <2>1. CASE g = h
    <3>1. Holds(i, h)'
      BY <1>2, <1>3, <1>4, IocpAssumption DEF Holds
    <3> QED
      BY <2>1, <3>1
  <2>2. CASE g # h
    <3>1. htab[g] # None /\ ~ \E s \in Servers : InHand(s, g) /\ pc[s] # "replenish"
      BY <1>4, <2>2
    <3>2. PICK j \in Ids : Holds(j, g)
      BY <3>1 DEF IInv, HeldInv
    <3>3. Holds(j, g)'
      BY <1>1, <1>3, <1>4, <2>2, <3>2 DEF Holds
    <3> QED
      BY <3>3
  <2> QED
    BY <2>1, <2>2
<1>6. /\ i \notin Accepts(l) /\ Accepts(l)' = Accepts(l) \cup {i}
      /\ \A s \in Servers \ {l} : Accepts(s)' = Accepts(s)
  BY <1>1, <1>2, <1>3 DEF Accepts
<1>7. \A s \in Servers : Cardinality(Accepts(s)') =
        IF s = l THEN Cardinality(Accepts(s)) + 1 ELSE Cardinality(Accepts(s))
  BY <1>6, Finite, FS_AddElement
<1>8. Cardinality(Busy)' + Cardinality(Carriers)' <= Cardinality(Arrived)'
  <2>1. Busy' = Busy
    BY <1>1, <1>2, <1>3 DEF Busy
  <2>2. Arrived' = Arrived
    BY DEF Arrived
  <2>3. Carriers' \subseteq Carriers
    BY DEF Carriers
  <2>4. Cardinality(Carriers') <= Cardinality(Carriers) /\ Cardinality(Carriers') \in Nat
    BY <2>3, Finite, FS_Subset, FS_CardinalityType
  <2> QED
    BY <2>1, <2>2, <2>4, Finite DEF IInv, CountInv
<1> QED
  BY <1>1, <1>5, <1>7, <1>8

LEMMA PostInitialStep ==
  ASSUME IInv, NEW s \in Servers, PostInitial(s)
  PROVE  IInv'
<1>1. LoopTypes
  BY Types DEF IInv
<1>2. /\ pc[s] = "post"
      /\ pc' = [pc EXCEPT ![s] = IF posted[s] + 1 = AcceptSlots THEN "call" ELSE "post"]
      /\ PostAccept(s)
      /\ posted' = [posted EXCEPT ![s] = @ + 1]
      /\ UNCHANGED <<phase, at, sent, gone, assoc, cq, iocp, port, cur, deadlines,
                     nextSweep, stage, swept, unposted, lost, replies>>
  BY DEF PostInitial, Goto, clientVars, historyVars
<1>3. posted[s] < AcceptSlots /\ posted[s] \in Nat /\ AcceptSlots \in Nat
  BY <1>1, <1>2, IocpAssumption DEF LoopTypes, IInv, CountInv
<1>4. \A t \in Servers :
        /\ posted'[t] = IF t = s THEN posted[s] + 1 ELSE posted[t]
        /\ pc'[t] = IF t # s THEN pc[t]
                    ELSE IF posted[s] + 1 = AcceptSlots THEN "call" ELSE "post"
  BY <1>1, <1>2 DEF LoopTypes
<1>5. /\ KernelInv' /\ HeldInv'
      /\ \A t \in Servers : Cardinality(Accepts(t)') =
           IF t = s THEN Cardinality(Accepts(t)) + 1 ELSE Cardinality(Accepts(t))
      /\ Cardinality(Busy)' + Cardinality(Carriers)' <= Cardinality(Arrived)'
  <2>1. \E j \in Ids : ops[j] = None
    BY <1>2, RoomToPost
  <2>2. \A t \in Servers : Carrying(t)' => Carrying(t)
    BY <1>2, <1>4 DEF Carrying
  <2>3. \A t \in Servers : \A h \in Handles :
          InHand(t, h) /\ pc[t] # "replenish" => InHand(t, h)' /\ pc'[t] # "replenish"
    BY <1>2, <1>4 DEF InHand
  <2> QED
    BY <1>2, <2>1, <2>2, <2>3, PostsAccept
<1>6. LoopTypes'
  <2>1. posted' \in [Servers -> 0..AcceptSlots]
    BY <1>1, <1>2, <1>3 DEF LoopTypes
  <2>2. pc' \in [Servers -> {"start", "post", "call", "wait", "sweep", "accepted",
                         "recv", "replenish", "received", "early", "finish",
                         "returned"}]
    BY <1>1, <1>2 DEF LoopTypes
  <2> QED
    BY <1>1, <1>2, <2>1, <2>2 DEF LoopTypes
<1>7. HandInv'
  BY <1>2, <1>4 DEF IInv, HandInv
<1>8. AcceptSlotsKept'
  <2> SUFFICES ASSUME NEW t \in Servers
               PROVE  Cardinality(Accepts(t))' + lost'[t] + Cardinality(Hands(t))' = posted'[t]
    BY DEF AcceptSlotsKept, Hands
  <2>1. Hands(t)' = Hands(t)
    BY <1>2 DEF Hands
  <2>2. /\ Cardinality(Accepts(t)) + lost[t] + Cardinality(Hands(t)) = posted[t]
        /\ lost[t] \in Nat /\ posted[t] \in Nat
    BY <1>1, IocpAssumption DEF LoopTypes, IInv, CountInv, AcceptSlotsKept, Hands
  <2> QED
    BY <1>2, <1>4, <1>5, <2>1, <2>2, Finite
<1>9. \A t \in Servers : /\ pc'[t] = "start" => posted'[t] = 0
                         /\ pc'[t] = "post" => posted'[t] < AcceptSlots
  BY <1>3, <1>4 DEF IInv, CountInv
<1>10. CountInv'
  BY <1>5, <1>8, <1>9 DEF CountInv
<1> QED
  BY <1>5, <1>6, <1>7, <1>10, IInvParts

LEMMA ReplenishStep ==
  ASSUME IInv, NEW s \in Servers, Replenish(s)
  PROVE  IInv'
<1> DEFINE l == cur[s].listener
<1>1. LoopTypes
  BY Types DEF IInv
<1>2. /\ pc[s] = "replenish" /\ pc' = [pc EXCEPT ![s] = "call"]
      /\ PostAccept(l)
      /\ cur' = [cur EXCEPT ![s] = None]
      /\ UNCHANGED <<phase, at, sent, gone, assoc, cq, iocp, posted, port, deadlines,
                     nextSweep, stage, swept, unposted, lost, replies>>
  BY DEF Replenish, Goto, clientVars, historyVars
<1>3. /\ cur[s] \in Ops /\ cur[s] # None /\ l \in Servers /\ cur[s].listener = l
  BY <1>1, <1>2 DEF LoopTypes, IInv, HandInv, Ops
<1> HIDE DEF l
<1>4. \A t \in Servers : /\ cur'[t] = IF t = s THEN None ELSE cur[t]
                         /\ pc'[t] = IF t = s THEN "call" ELSE pc[t]
  BY <1>1, <1>2 DEF LoopTypes
<1>5. /\ KernelInv' /\ HeldInv'
      /\ \A t \in Servers : Cardinality(Accepts(t)') =
           IF t = l THEN Cardinality(Accepts(t)) + 1 ELSE Cardinality(Accepts(t))
      /\ Cardinality(Busy)' + Cardinality(Carriers)' <= Cardinality(Arrived)'
  <2>1. \E j \in Ids : ops[j] = None
    BY <1>2, RoomToPost
  <2>2. \A t \in Servers : Carrying(t)' => Carrying(t)
    BY <1>2, <1>4 DEF Carrying
  <2>3. \A t \in Servers : \A h \in Handles :
          InHand(t, h) /\ pc[t] # "replenish" => InHand(t, h)' /\ pc'[t] # "replenish"
    BY <1>2, <1>4 DEF InHand
  <2> QED
    BY <1>2, <1>3, <2>1, <2>2, <2>3, PostsAccept
<1>6. LoopTypes'
  <2>1. cur' \in [Servers -> Ops \cup {None}]
    BY <1>1, <1>2 DEF LoopTypes
  <2>2. pc' \in [Servers -> {"start", "post", "call", "wait", "sweep", "accepted",
                         "recv", "replenish", "received", "early", "finish",
                         "returned"}]
    BY <1>1, <1>2 DEF LoopTypes
  <2> QED
    BY <1>1, <1>2, <2>1, <2>2 DEF LoopTypes
<1>7. HandInv'
  BY <1>4 DEF IInv, HandInv
<1>8. \A t \in Servers : /\ t = l => s \in Hands(t) /\ Hands(t)' = Hands(t) \ {s}
                         /\ t # l => Hands(t)' = Hands(t)
  <2> SUFFICES ASSUME NEW t \in Servers
               PROVE  /\ t = l => s \in Hands(t) /\ Hands(t)' = Hands(t) \ {s}
                      /\ t # l => Hands(t)' = Hands(t)
    OBVIOUS
  <2>1. \A r : r \in Hands(t)' <=> r \in Hands(t) /\ r # s
    BY <1>4 DEF Hands
  <2>2. s \in Hands(t) <=> t = l
    BY <1>3 DEF Hands
  <2>3. Hands(t)' = Hands(t) \ {s}
    BY <2>1
  <2> QED
    BY <2>2, <2>3
<1>9. \A t \in Servers :
        Cardinality(Hands(t)') = IF t = l THEN Cardinality(Hands(t)) - 1
                                          ELSE Cardinality(Hands(t))
  BY <1>8, Finite, FS_RemoveElement
<1>10. AcceptSlotsKept'
  <2> SUFFICES ASSUME NEW t \in Servers
               PROVE  Cardinality(Accepts(t))' + lost'[t] + Cardinality(Hands(t))' = posted'[t]
    BY DEF AcceptSlotsKept, Hands
  <2>1. /\ Cardinality(Accepts(t)) + lost[t] + Cardinality(Hands(t)) = posted[t]
        /\ lost[t] \in Nat /\ posted[t] \in Nat
    BY <1>1, IocpAssumption DEF LoopTypes, IInv, CountInv, AcceptSlotsKept, Hands
  <2> QED
    BY <1>2, <1>5, <1>9, <2>1, Finite
<1>11. \A t \in Servers : /\ pc'[t] = "start" => posted'[t] = 0
                          /\ pc'[t] = "post" => posted'[t] < AcceptSlots
  BY <1>2, <1>4 DEF IInv, CountInv
<1>12. CountInv'
  BY <1>5, <1>10, <1>11 DEF CountInv
<1> QED
  BY <1>5, <1>6, <1>7, <1>12, IInvParts

LEMMA PostRecvStep ==
  ASSUME IInv, NEW s \in Servers, PostRecv(s)
  PROVE  IInv'
<1> DEFINE h == cur[s].sock
<1>1. LoopTypes /\ KernelTypes
  BY Types DEF IInv
<1>2. /\ pc[s] = "recv" /\ pc' = [pc EXCEPT ![s] = "replenish"]
      /\ htab[h] \in Conns /\ Post(RecvOp(h))
      /\ deadlines' = [deadlines EXCEPT ![s][h] = IdleTimeout]
      /\ UNCHANGED <<phase, at, sent, gone, htab, assoc, cq, iocp, posted, port, cur,
                     nextSweep, stage, swept, lost, replies>>
  BY DEF PostRecv, Goto, clientVars
<1>3. /\ cur[s] \in Ops /\ cur[s] # None /\ h \in Handles /\ cur[s].conn \in Conns
      /\ cur[s].sock = h
  BY <1>1, <1>2 DEF LoopTypes, IInv, HandInv, Ops
<1>4. unposted' \in SUBSET Conns
  BY <1>1, <1>3 DEF PostRecv, LoopTypes
<1> HIDE DEF h
<1>5. PICK i \in Ids : /\ KernelInv' /\ ops[i] = None
                       /\ \A j \in Ids : ops'[j] = IF j = i THEN RecvOp(h) ELSE ops[j]
  <2>1. \E j \in Ids : ops[j] = None
    BY <1>2, RoomToPost
  <2> QED
    BY <1>2, <1>3, <2>1, IInvKernel, PostsRecvKernel
<1> DEFINE op == RecvOp(h)
<1>6. /\ op # None /\ op.kind = "recv" /\ op.sock = h
      /\ op.listener = None /\ op.conn = htab[h]
  <2>1. op \in Ops
    BY <1>1, <1>2, <1>3 DEF RecvOp, Ops, KernelTypes
  <2> QED
    BY <2>1, NoneIsNoOp DEF RecvOp
<1>7. \A j \in Ids : ops'[j] = IF j = i THEN op ELSE ops[j]
  BY <1>5
<1> HIDE DEF op
<1>8. \A t \in Servers : pc'[t] = IF t = s THEN "replenish" ELSE pc[t]
  BY <1>1, <1>2 DEF LoopTypes
<1>9. /\ deadlines' \in [Servers -> [Handles -> (-1..IdleTimeout) \cup {None}]]
      /\ \A t \in Servers : \A g \in Handles :
           deadlines'[t][g] = IF t = s /\ g = h THEN IdleTimeout ELSE deadlines[t][g]
      /\ IdleTimeout # None
  <2>1. IdleTimeout \in -1..IdleTimeout /\ IdleTimeout # None
    BY IocpAssumption
  <2> QED
    BY <1>1, <1>2, <1>3, <2>1 DEF LoopTypes
<1>10. LoopTypes'
  <2>1. pc' \in [Servers -> {"start", "post", "call", "wait", "sweep", "accepted",
                         "recv", "replenish", "received", "early", "finish",
                         "returned"}]
    BY <1>1, <1>2 DEF LoopTypes
  <2> QED
    BY <1>1, <1>2, <1>4, <1>9, <2>1 DEF LoopTypes
<1>11. HandInv'
  BY <1>2, <1>8 DEF IInv, HandInv
<1>12. HeldInv'
  <2> SUFFICES ASSUME NEW g \in Handles, htab'[g] # None,
                      ~ \E t \in Servers : InHand(t, g)' /\ pc'[t] # "replenish"
               PROVE  \E j \in Ids : Holds(j, g)'
    BY DEF HeldInv
  <2>1. CASE g = h
    <3>1. ops'[i] = op
      BY <1>7
    <3>2. deadlines'[s][g] # None
      BY <1>3, <1>9, <2>1
    <3>3. htab'[g] = op.conn /\ op.conn # Blank /\ op.conn # None
      BY <1>2, <1>6, <2>1, IocpAssumption
    <3>4. Holds(i, g)'
      BY <1>6, <2>1, <3>1, <3>2, <3>3 DEF Holds
    <3> QED
      BY <3>4
  <2>2. CASE g # h
    <3>1. htab[g] # None /\ ~ \E t \in Servers : InHand(t, g) /\ pc[t] # "replenish"
      BY <1>2, <1>3, <1>8, <2>2 DEF InHand
    <3>2. PICK j \in Ids : Holds(j, g)
      BY <3>1 DEF IInv, HeldInv
    <3>3. Holds(j, g)'
      BY <1>2, <1>5, <1>7, <1>9, <2>2, <3>2 DEF Holds
    <3> QED
      BY <3>3
  <2> QED
    BY <2>1, <2>2
<1>13. AcceptSlotsKept'
  <2> SUFFICES ASSUME NEW t \in Servers
               PROVE  Cardinality(Accepts(t))' + lost'[t] + Cardinality(Hands(t))' = posted'[t]
    BY DEF AcceptSlotsKept, Hands
  <2>1. Accepts(t)' = Accepts(t)
    <3>1. t # None
      BY IocpAssumption
    <3> QED
      BY <1>5, <1>6, <1>7, <3>1 DEF Accepts
  <2>2. Hands(t)' = Hands(t)
    BY <1>2 DEF Hands
  <2> QED
    BY <1>2, <2>1, <2>2 DEF IInv, CountInv, AcceptSlotsKept, Hands
<1>14. Cardinality(Busy)' + Cardinality(Carriers)' <= Cardinality(Arrived)'
  <2>1. Busy' = Busy \cup {i} /\ i \notin Busy
    BY <1>5, <1>6, <1>7 DEF Busy
  <2>2. Carriers' = Carriers \ {s} /\ s \in Carriers
    BY <1>2, <1>8 DEF Carriers, Carrying
  <2>3. Arrived' = Arrived
    BY <1>2 DEF Arrived
  <2>4. /\ Cardinality(Busy') = Cardinality(Busy) + 1
        /\ Cardinality(Carriers') = Cardinality(Carriers) - 1
    BY <2>1, <2>2, Finite, FS_AddElement, FS_RemoveElement
  <2> QED
    BY <2>3, <2>4, Finite DEF IInv, CountInv
<1>15. \A t \in Servers : /\ pc'[t] = "start" => posted'[t] = 0
                          /\ pc'[t] = "post" => posted'[t] < AcceptSlots
  BY <1>2, <1>8 DEF IInv, CountInv
<1> QED
  BY <1>5, <1>10, <1>11, <1>12, <1>13, <1>14, <1>15, IInvParts DEF CountInv

LEMMA TakeStep ==
  ASSUME IInv, NEW s \in Servers, Take(s)
  PROVE  IInv'
<1> DEFINE i == Head(cq[port[s]])
           o == ops[i]
<1>1. LoopTypes /\ KernelTypes
  BY Types DEF IInv
<1>2. /\ pc[s] = "wait"
      /\ pc' = [pc EXCEPT ![s] = IF o.kind = "accept" THEN "accepted" ELSE "received"]
      /\ cur' = [cur EXCEPT ![s] = o]
      /\ ops' = [ops EXCEPT ![i] = None]
      /\ UNCHANGED <<phase, at, sent, gone, htab, assoc, iocp, posted, port, deadlines,
                     nextSweep, stage, swept, unposted, lost, replies>>
  BY DEF Take, Goto, clientVars, historyVars
<1>3. /\ KernelInv' /\ i \in Ids /\ o \in Ops
      /\ o.res \in {"ok", "data", "nothing"}
  <2>1. port[s] \in Ports /\ cq[port[s]] # <<>> /\ cq' = [cq EXCEPT ![port[s]] = Tail(cq[port[s]])]
    BY <1>1 DEF Take, LoopTypes
  <2> QED
    BY <1>2, <2>1, IInvKernel, TakesKernel
<1>4. ops[i] = o
  OBVIOUS
<1> HIDE DEF i, o
<1>5. /\ o # None /\ o.kind \in {"accept", "recv"}
      /\ o.kind = "accept" => /\ o.listener \in Servers
                              /\ o.res = "ok" => o.conn \in Conns
      /\ o.kind = "recv" => o.listener = None /\ o.conn \in Conns
  BY <1>3, <1>4, NoneIsNoOp DEF IInv, OpInv, Ops
<1>6. /\ \A t \in Servers :
           /\ cur'[t] = IF t = s THEN o ELSE cur[t]
           /\ pc'[t] = IF t # s THEN pc[t]
                       ELSE IF o.kind = "accept" THEN "accepted" ELSE "received"
      /\ \A j \in Ids : ops'[j] = IF j = i THEN None ELSE ops[j]
  BY <1>1, <1>2, <1>3 DEF LoopTypes, KernelTypes
<1>7. cur[s] = None
  BY <1>2 DEF IInv, HandInv
<1>8. LoopTypes'
  <2>1. cur' \in [Servers -> Ops \cup {None}]
    BY <1>1, <1>2, <1>3 DEF LoopTypes
  <2>2. pc' \in [Servers -> {"start", "post", "call", "wait", "sweep", "accepted",
                         "recv", "replenish", "received", "early", "finish",
                         "returned"}]
    BY <1>1, <1>2 DEF LoopTypes
  <2> QED
    BY <1>1, <1>2, <2>1, <2>2 DEF LoopTypes
<1>9. HandInv'
  BY <1>5, <1>6 DEF IInv, HandInv
<1>10. HeldInv'
  <2> SUFFICES ASSUME NEW h \in Handles, htab[h] # None,
                      ~ \E t \in Servers : InHand(t, h)' /\ pc'[t] # "replenish"
               PROVE  \E j \in Ids : Holds(j, h)'
    BY <1>2 DEF HeldInv
  <2>1. ~ \E t \in Servers : InHand(t, h) /\ pc[t] # "replenish"
    BY <1>6, <1>7 DEF InHand
  <2>2. PICK j \in Ids : Holds(j, h)
    BY <2>1 DEF IInv, HeldInv
  <2>3. j # i
    <3> SUFFICES ASSUME j = i PROVE FALSE
      OBVIOUS
    <3>1. o.sock = h
      BY <1>4, <2>2 DEF Holds
    <3>2. InHand(s, h)' /\ pc'[s] # "replenish"
      BY <1>5, <1>6, <3>1 DEF InHand
    <3> QED
      BY <3>2
  <2>4. Holds(j, h)'
    BY <1>2, <1>6, <2>2, <2>3 DEF Holds
  <2> QED
    BY <2>4
<1>11. AcceptSlotsKept'
  <2> SUFFICES ASSUME NEW t \in Servers
               PROVE  Cardinality(Accepts(t))' + lost'[t] + Cardinality(Hands(t))' = posted'[t]
    BY DEF AcceptSlotsKept, Hands
  <2>1. /\ Cardinality(Accepts(t)) + lost[t] + Cardinality(Hands(t)) = posted[t]
        /\ lost[t] \in Nat /\ posted[t] \in Nat
    BY <1>1, IocpAssumption DEF LoopTypes, IInv, CountInv, AcceptSlotsKept, Hands
  <2>2. CASE o.listener = t
    <3>1. i \in Accepts(t) /\ Accepts(t)' = Accepts(t) \ {i}
      BY <1>3, <1>4, <1>5, <1>6, <2>2 DEF Accepts
    <3>2. s \notin Hands(t) /\ Hands(t)' = Hands(t) \cup {s}
      BY <1>5, <1>6, <1>7, <2>2 DEF Hands
    <3>3. Cardinality(Accepts(t)') = Cardinality(Accepts(t)) - 1
      BY <3>1, Finite, FS_RemoveElement
    <3>4. Cardinality(Hands(t)') = Cardinality(Hands(t)) + 1
      BY <3>2, Finite, FS_AddElement
    <3>5. Cardinality(Accepts(t)) \in Nat /\ Cardinality(Hands(t)) \in Nat
      BY Finite
    <3> QED
      BY <1>2, <2>1, <3>3, <3>4, <3>5
  <2>3. CASE o.listener # t
    <3>1. Accepts(t)' = Accepts(t)
      BY <1>4, <1>6, <2>3 DEF Accepts
    <3>2. Hands(t)' = Hands(t)
      BY <1>6, <1>7, <2>3 DEF Hands
    <3> QED
      BY <1>2, <2>1, <3>1, <3>2
  <2> QED
    BY <2>2, <2>3
<1>12. Cardinality(Busy)' + Cardinality(Carriers)' <= Cardinality(Arrived)'
  <2>1. Busy' = Busy \ {i}
    BY <1>6 DEF Busy
  <2>2. Arrived' = Arrived
    BY <1>2 DEF Arrived
  <2>3. s \notin Carriers
    BY <1>2 DEF Carriers, Carrying
  <2>4. CASE i \in Busy
    <3>1. Carriers' \subseteq Carriers \cup {s}
      BY <1>6 DEF Carriers, Carrying
    <3>2. /\ IsFiniteSet(Carriers \cup {s})
          /\ Cardinality(Carriers \cup {s}) = Cardinality(Carriers) + 1
      BY <2>3, Finite, FS_AddElement
    <3>3. Cardinality(Carriers') <= Cardinality(Carriers) + 1 /\ Cardinality(Carriers') \in Nat
      BY <3>1, <3>2, FS_Subset, FS_CardinalityType
    <3>4. Cardinality(Busy') = Cardinality(Busy) - 1
      BY <2>1, <2>4, Finite, FS_RemoveElement
    <3> QED
      BY <2>2, <3>3, <3>4, Finite DEF IInv, CountInv
  <2>5. CASE i \notin Busy
    <3>1. ~(o.kind = "recv" \/ o.res = "ok")
      BY <1>3, <1>4, <1>5, <2>5 DEF Busy
    <3>2. Carriers' = Carriers
      BY <1>2, <1>5, <1>6, <3>1 DEF Carriers, Carrying
    <3>3. Busy' = Busy
      BY <2>1, <2>5
    <3> QED
      BY <2>2, <3>2, <3>3 DEF IInv, CountInv
  <2> QED
    BY <2>4, <2>5
<1>13. \A t \in Servers : /\ pc'[t] = "start" => posted'[t] = 0
                          /\ pc'[t] = "post" => posted'[t] < AcceptSlots
  BY <1>2, <1>6 DEF IInv, CountInv
<1> QED
  BY <1>3, <1>8, <1>9, <1>10, <1>11, <1>12, <1>13, IInvParts DEF CountInv

(* The kernel completes the operation at i. *)
LEMMA KernelStep ==
  ASSUME IInv, Kernel
  PROVE  IInv'
<1>1. LoopTypes /\ KernelTypes /\ KernelInv
  BY Types, IInvKernel DEF IInv
<1>2. PICK i \in Ids :
        \/ \E c \in Conns : KernelAccept(i, c) \/ KernelReset(i, c)
        \/ KernelAbort(i) \/ KernelRecv(i)
  BY DEF Kernel
<1>3. PICK r \in {"ok", "data", "nothing"}, c \in Conns \cup {None} :
        /\ ops[i] # None /\ ops[i].res \in {"pending", "doomed"}
        /\ Complete(i, r, c)
        /\ UNCHANGED <<at, sent, gone, assoc, iocp, loopVars, historyVars>>
        /\ \/ /\ ops[i].kind = "accept" /\ ops[i].res = "pending" /\ r = "ok" /\ c \in Conns
              /\ phase[c] = "backlog" /\ phase' = [phase EXCEPT ![c] = "accepted"]
              /\ htab' = [htab EXCEPT ![ops[i].sock] = c]
           \/ /\ ops[i].kind = "accept" /\ r = "nothing" /\ c = None /\ UNCHANGED htab
              /\ \/ UNCHANGED phase
                 \/ \E d \in Conns : /\ phase[d] = "backlog"
                                     /\ phase' = [phase EXCEPT ![d] = "dropped"]
           \/ /\ ops[i].kind = "recv" /\ r \in {"data", "nothing"} /\ c = ops[i].conn
              /\ UNCHANGED <<htab, phase>>
  <2>1. CASE \E c \in Conns : KernelAccept(i, c)
    BY <2>1 DEF KernelAccept, Waiting
  <2>2. CASE \E c \in Conns : KernelReset(i, c)
    BY <2>2 DEF KernelReset, Waiting
  <2>3. CASE KernelAbort(i)
    <3>1. ops[i].kind = "accept"
      BY <1>1, <2>3 DEF KernelAbort, KernelInv, OpInv, KernelTypes, Ops
    <3> QED
      BY <2>3, <3>1 DEF KernelAbort, clientVars
  <2>4. CASE KernelRecv(i)
    <3>1. ops[i].conn \in Conns
      BY <1>1, <2>4 DEF KernelRecv, KernelInv, OpInv
    <3> QED
      BY <2>4, <3>1 DEF KernelRecv, clientVars
  <2> QED
    BY <1>2, <2>1, <2>2, <2>3, <2>4
<1>4. None \notin Conns
  BY IocpAssumption
<1>5. /\ KernelInv'
      /\ \A j \in Ids : j # i => ops'[j] = ops[j]
      /\ ops'[i] # None /\ ops'[i] \in Ops
      /\ ops'[i].kind = ops[i].kind /\ ops'[i].sock = ops[i].sock
      /\ ops'[i].listener = ops[i].listener
      /\ ops'[i].conn = c /\ ops'[i].res = r
  <2>1. /\ ops[i].kind = "accept" => r \in {"ok", "nothing"} /\ (r = "ok" <=> c \in Conns)
        /\ ops[i].kind = "recv" => r \in {"data", "nothing"} /\ c = ops[i].conn
    BY <1>3, <1>4
  <2> QED
    BY <1>1, <1>3, <2>1, CompletesKernel
<1>6. UNCHANGED <<pc, posted, port, cur, deadlines, nextSweep, stage, swept, unposted, lost, replies>>
  BY <1>3 DEF loopVars, historyVars
<1>7. LoopTypes'
  <2>1. phase' \in [Conns -> {"new", "backlog", "accepted", "dropped"}]
    BY <1>1, <1>3 DEF LoopTypes
  <2> QED
    BY <1>1, <1>3, <1>6, <2>1 DEF LoopTypes
<1>8. HandInv'
  BY <1>6 DEF IInv, HandInv
<1>9. HeldInv'
  <2> SUFFICES ASSUME NEW h \in Handles, htab'[h] # None,
                      ~ \E t \in Servers : InHand(t, h) /\ pc[t] # "replenish"
               PROVE  \E j \in Ids : Holds(j, h)'
    BY <1>6 DEF HeldInv, InHand
  <2>1. ASSUME htab'[h] = htab[h] PROVE \E j \in Ids : Holds(j, h)'
    <3>1. PICK j \in Ids : Holds(j, h)
      BY <2>1 DEF IInv, HeldInv
    <3>2. CASE j # i
      BY <1>5, <1>6, <2>1, <3>1, <3>2 DEF Holds
    <3>3. CASE j = i
      <4>1. ops[i].kind = "accept" => htab[h] \notin Conns
        BY <1>1, <1>3, <3>1, <3>3 DEF KernelInv, OpInv, Holds
      <4>2. ops[i].kind = "recv" => c = ops[i].conn
        BY <1>3
      <4>3. ops[i].kind \in {"accept", "recv"}
        BY <1>1, <1>3 DEF KernelTypes, Ops
      <4> QED
        BY <1>5, <1>6, <2>1, <3>1, <3>3, <4>1, <4>2, <4>3 DEF Holds
    <3> QED
      BY <3>2, <3>3
  <2>2. ASSUME htab'[h] # htab[h] PROVE \E j \in Ids : Holds(j, h)'
    <3>1. /\ ops[i].kind = "accept" /\ c \in Conns
          /\ h = ops[i].sock /\ htab'[h] = c
      BY <1>1, <1>3, <2>2 DEF KernelTypes
    <3>2. Holds(i, h)'
      BY <1>4, <1>5, <3>1, IocpAssumption DEF Holds
    <3> QED
      BY <3>2
  <2> QED
    BY <2>1, <2>2
<1>10. AcceptSlotsKept'
  <2> SUFFICES ASSUME NEW t \in Servers
               PROVE  Cardinality(Accepts(t))' + lost'[t] + Cardinality(Hands(t))' = posted'[t]
    BY DEF AcceptSlotsKept, Hands
  <2>1. Accepts(t)' = Accepts(t)
    BY <1>3, <1>5 DEF Accepts
  <2>2. Hands(t)' = Hands(t)
    BY <1>6 DEF Hands
  <2> QED
    BY <1>6, <2>1, <2>2 DEF IInv, CountInv, AcceptSlotsKept, Hands
<1>11. Cardinality(Busy)' + Cardinality(Carriers)' <= Cardinality(Arrived)'
  <2>1. Carriers' = Carriers
    BY <1>6 DEF Carriers, Carrying
  <2>2. CASE r = "ok"
    <3>1. Busy' = Busy \cup {i} /\ i \notin Busy
      BY <1>3, <1>5, <2>2 DEF Busy
    <3>2. Arrived' = Arrived \cup {c} /\ c \notin Arrived
      BY <1>1, <1>3, <2>2 DEF Arrived, LoopTypes
    <3>3. /\ Cardinality(Busy') = Cardinality(Busy) + 1
          /\ Cardinality(Arrived') = Cardinality(Arrived) + 1
      BY <3>1, <3>2, Finite, FS_AddElement
    <3> QED
      BY <2>1, <3>3, Finite DEF IInv, CountInv
  <2>3. CASE r # "ok"
    <3>1. Busy' = Busy
      BY <1>3, <1>5, <2>3 DEF Busy
    <3>2. Arrived' = Arrived
      BY <1>1, <1>3, <2>3 DEF Arrived, LoopTypes
    <3> QED
      BY <2>1, <3>1, <3>2 DEF IInv, CountInv
  <2> QED
    BY <2>2, <2>3
<1>12. CountInv'
  BY <1>6, <1>10, <1>11 DEF IInv, CountInv
<1> QED
  BY <1>5, <1>7, <1>8, <1>9, <1>12, IInvParts

LEMMA Step == IInv /\ [Next]_vars => IInv'
<1> SUFFICES ASSUME IInv, [Next]_vars PROVE IInv'
  OBVIOUS
<1>1. ASSUME NEW s \in Servers, Loop(s) PROVE IInv'
  BY <1>1, QuietLoop, DataCallbackStep, SweepStep, CloseStep, DoneStep, AttachStep,
     ReplenishFailsStep, PostInitialStep, ReplenishStep, PostRecvStep, TakeStep DEF Loop
<1>2. CASE Kernel
  BY <1>2, KernelStep
<1>3. CASE \/ \E c \in Conns, s \in Servers : ClientConnect(c, s)
           \/ \E c \in Conns : ClientSend(c) \/ ClientClose(c)
           \/ Tick \/ UNCHANGED vars
  BY <1>3, OthersStep
<1> QED
  BY <1>1, <1>2, <1>3 DEF Next

LEMMA Starts == Init => IInv
<1> SUFFICES ASSUME Init PROVE IInv
  OBVIOUS
<1>1. KernelTypes
  <2>1. cq = [p \in Ports |-> <<>>] /\ \A p \in Ports : cq[p] = <<>>
    BY DEF Init
  <2> QED
    BY <2>1 DEF Init, KernelTypes
<1>2. LoopTypes
  <2>1. /\ deadlines \in [Servers -> [Handles -> (-1..IdleTimeout) \cup {None}]]
        /\ nextSweep \in [Servers -> 0..SweepTick]
        /\ posted \in [Servers -> 0..AcceptSlots]
        /\ lost \in [Servers -> 0..AcceptSlots]
    <3>1. SweepTick \in 0..SweepTick /\ 0 \in 0..AcceptSlots
      BY IocpAssumption
    <3> QED
      BY <3>1 DEF Init
  <2>2. /\ iocp \in Ports /\ port \in [Servers -> Ports]
        /\ cur \in [Servers -> Ops \cup {None}]
        /\ at \in [Conns -> Servers \cup {None}]
    BY DEF Init, Ports
  <2>3. UNION {sent, gone, unposted, replies} = {} /\ swept \in BOOLEAN
    BY DEF Init
  <2> QED
    BY <2>1, <2>2, <2>3 DEF Init, LoopTypes
<1>3. OpInv /\ SlotInv
  BY DEF Init, OpInv, SlotInv, Open
<1>4. QueueInv
  BY DEF Init, QueueInv
<1>5. HandInv /\ HeldInv
  BY DEF Init, HandInv, HeldInv
<1>6. CountInv
  <2>1. Busy = {} /\ Carriers = {} /\ \A s : Accepts(s) = {}
    BY DEF Init, Busy, Carriers, Carrying, Accepts
  <2>2. \A s : Hands(s) = {}
    BY DEF Init, Hands
  <2>3. Cardinality({}) = 0
    BY FS_EmptySet
  <2>4. \A s \in Servers : lost[s] = 0 /\ posted[s] = 0 /\ pc[s] = "start"
    BY DEF Init
  <2>5. AcceptSlotsKept
    BY <2>1, <2>2, <2>3, <2>4 DEF AcceptSlotsKept, Hands
  <2> QED
    BY <2>1, <2>3, <2>4, <2>5, Finite DEF CountInv
<1> QED
  BY <1>1, <1>2, <1>3, <1>4, <1>5, <1>6, Types DEF IInv

LEMMA Invariant == Spec => []IInv
BY Starts, Step, PTL DEF Spec

--------------------------------------------------------------------------------
(***************************************************************************)
(* The theorems about any servers                                          *)
(***************************************************************************)

(* The variables keep their types: no address is queued twice or with no   *)
(* operation at it, and no more accepts fail to be posted again than there *)
(* were.                                                                   *)
THEOREM IocpTypeCorrect == Spec => []TypeOK
BY Invariant, PTL DEF IInv

(* A server has as many accepts pending, completed or in the hands of a    *)
(* loop as it posted at first, but for those whose postAccept failed       *)
(* (server_windows.go:291), whichever loop takes the completions.          *)
THEOREM SlotsAreKept == Spec => []AcceptSlotsKept
BY Invariant, PTL DEF IInv, CountInv

(* No handle leaks, on any server, sweeps and early closes included.       *)
THEOREM HandlesAreHeld == Spec => []NoHandleLeak
<1>1. IInv => NoHandleLeak
  <2> SUFFICES ASSUME IInv, NEW h \in Handles, htab[h] # None
               PROVE  \/ \E s \in Servers : InHand(s, h)
                      \/ \E i \in Ids : Holds(i, h)
    BY DEF NoHandleLeak, Holds
  <2> QED
    BY DEF IInv, HeldInv
<1> QED
  BY <1>1, Invariant, PTL

--------------------------------------------------------------------------------
(***************************************************************************)
(* One loop, or callbacks that never close: until a sweep                  *)
(***************************************************************************)

(* With two loops and a callback that closes, the second close of one loop *)
(* may hit a socket of the other.                                          *)
SoleLoop == (\A s, t \in Servers : s = t) \/ EarlyClosers = {}

(* The loops whose completion is about the socket they have in hand. *)
Minds(s) == pc[s] \in {"accepted", "recv", "received", "early", "finish"}

(* What the socket of an operation names. *)
Named(o) == IF o.conn = None THEN Blank ELSE o.conn

(* A connection has one socket, once it is accepted. *)
NameInv ==
  /\ \A h \in Handles : htab[h] \in Conns => phase[htab[h]] = "accepted"
  /\ \A g, h \in Handles : htab[g] = htab[h] /\ htab[g] \in Conns => g = h
  /\ \A c \in Conns : phase[c] # "accepted" => stage[c] = "none"

(* A socket belongs to one operation... *)
OpOwn ==
  \A i \in Ids : ops[i] # None =>
    /\ ops[i].res # "doomed"
    /\ htab[ops[i].sock] = Named(ops[i])
    /\ \A j \in Ids : ops[j] # None /\ ops[j].sock = ops[i].sock => j = i

(* ... or to one loop, which knows the connection it is of.                *)
LoopOwn ==
  \A s \in Servers : Minds(s) =>
    /\ \/ htab[cur[s].sock] = Named(cur[s])
       \/ pc[s] = "finish" /\ htab[cur[s].sock] = None /\ s \in EarlyClosers
    /\ pc[s] = "early" => s \in EarlyClosers
    /\ \A h \in Handles : htab[h] \in Conns /\ htab[h] = cur[s].conn => h = cur[s].sock
    /\ \A i \in Ids : ops[i] # None => ops[i].sock # cur[s].sock
    /\ \A t \in Servers : Minds(t) /\ cur[t].sock = cur[s].sock => t = s

(* Each finds its connection where the callback before has left it.        *)
StageInv ==
  /\ \A i \in Ids : ops[i] # None =>
       /\ ops[i].kind = "accept" /\ ops[i].res = "ok" => stage[ops[i].conn] = "none"
       /\ ops[i].kind = "recv" => stage[ops[i].conn] = "connect"
  /\ \A s \in Servers :
       /\ pc[s] = "accepted" /\ cur[s].res = "ok" => stage[cur[s].conn] = "none"
       /\ pc[s] \in {"recv", "received"} => stage[cur[s].conn] = "connect"
       /\ pc[s] \in {"early", "finish"} => stage[cur[s].conn] = "data"

Sound == NameInv /\ OpOwn /\ LoopOwn /\ StageInv /\ RepliesToAsker

(* What the proofs below use of IInv.                                      *)
LEMMA Basics ==
  ASSUME IInv
  PROVE  /\ None \notin Conns /\ Blank \notin Conns /\ None # Blank /\ None \notin Servers
         /\ htab \in [Handles -> Conns \cup {Blank, None}]
         /\ stage \in [Conns -> {"none", "connect", "data", "disconnect"}]
         /\ \A s \in Servers : Minds(s) =>
              /\ cur[s] \in Ops /\ cur[s] # None /\ cur[s].sock \in Handles
              /\ cur[s].conn \in Conns \cup {None}
              /\ pc[s] = "accepted" /\ cur[s].res = "ok" => cur[s].conn \in Conns
              /\ pc[s] \in {"recv", "received", "early", "finish"} => cur[s].conn \in Conns
         /\ \A i \in Ids : ops[i] # None =>
              /\ ops[i] \in Ops /\ ops[i].sock \in Handles
              /\ ops[i].kind \in {"accept", "recv"}
              /\ ops[i].conn \in Conns \cup {None}
              /\ ops[i].kind = "accept" => (ops[i].res = "ok" <=> ops[i].conn \in Conns)
              /\ ops[i].kind = "recv" => ops[i].conn \in Conns
<1>1. \A s \in Servers : Minds(s) =>
        /\ cur[s] \in Ops /\ cur[s] # None
        /\ pc[s] = "accepted" /\ cur[s].res = "ok" => cur[s].conn \in Conns
        /\ pc[s] \in {"recv", "received", "early", "finish"} => cur[s].conn \in Conns
  BY DEF IInv, TypeOK, HandInv, Minds
<1>2. \A i \in Ids : ops[i] # None =>
        /\ ops[i] \in Ops
        /\ ops[i].kind = "accept" => (ops[i].res = "ok" <=> ops[i].conn \in Conns)
        /\ ops[i].kind = "recv" => ops[i].conn \in Conns
  BY DEF IInv, TypeOK, OpInv
<1>3. \A o \in Ops : /\ o.sock \in Handles /\ o.conn \in Conns \cup {None}
                     /\ o.kind \in {"accept", "recv"}
  BY DEF Ops
<1> QED
  BY <1>1, <1>2, <1>3, IocpAssumption DEF IInv, TypeOK

(* A connection in the hand of a loop is nobody else's.                    *)
LEMMA Apart ==
  ASSUME IInv, SoleLoop, Sound, NEW s \in Servers, Minds(s), cur[s].conn \in Conns
  PROVE  /\ \A i \in Ids : ops[i] # None => ops[i].conn # cur[s].conn
         /\ \A t \in Servers : Minds(t) /\ cur[t].conn = cur[s].conn => t = s
<1>1. \A i \in Ids : ops[i] # None => ops[i].conn # cur[s].conn
  <2> SUFFICES ASSUME NEW i \in Ids, ops[i] # None, ops[i].conn = cur[s].conn
               PROVE  FALSE
    OBVIOUS
  <2>1. htab[ops[i].sock] = cur[s].conn /\ ops[i].sock \in Handles
    BY Basics DEF Sound, OpOwn, Named
  <2> QED
    BY <2>1 DEF Sound, LoopOwn
<1>2. \A t \in Servers : Minds(t) /\ cur[t].conn = cur[s].conn => t = s
  <2> SUFFICES ASSUME NEW t \in Servers, Minds(t), cur[t].conn = cur[s].conn, t # s
               PROVE  FALSE
    OBVIOUS
  <2>1. EarlyClosers = {}
    BY DEF SoleLoop
  <2>2. htab[cur[t].sock] = cur[s].conn /\ cur[t].sock \in Handles
    BY <2>1, Basics DEF Sound, LoopOwn, Named
  <2> QED
    BY <2>2 DEF Sound, LoopOwn
<1> QED
  BY <1>1, <1>2

(* The socket it has in hand is closed: no other is, and nothing is lost.  *)
LEMMA ClosesOwn ==
  ASSUME IInv, Sound, NEW s \in Servers, Minds(s), Closesocket({cur[s].sock})
  PROVE  /\ \A h \in Handles : htab'[h] = IF h = cur[s].sock THEN None ELSE htab[h]
         /\ \A i \in Ids : ops'[i] = ops[i]
<1>1. \A i \in Ids : ops[i] # None => ops[i].sock # cur[s].sock
  BY DEF Sound, LoopOwn
<1>2. \A i \in Ids : i \in UNION {Accepts(t) : t \in Servers} => ops[i] # None
  BY DEF Accepts
<1> QED
  BY <1>1, <1>2 DEF Closesocket

(* A loop goes on to l with what it has in hand, or is done with it; the   *)
(* callback leaves the connection at x; the socket may be closed.          *)
GoesTo(s, l, x, closes) ==
  /\ UNCHANGED phase
  /\ \A i \in Ids : ops'[i] = ops[i]
  /\ \A h \in Handles : htab'[h] = IF h = cur[s].sock /\ closes THEN None ELSE htab[h]
  /\ \A t \in Servers : /\ pc'[t] = IF t = s THEN l ELSE pc[t]
                        /\ t # s => cur'[t] = cur[t]
  /\ \A c \in Conns : stage'[c] = IF c = cur[s].conn THEN x ELSE stage[c]
  /\ \/ l \in {"replenish", "call"}
     \/ /\ l = "recv" /\ pc[s] = "accepted" /\ ~closes /\ x = "connect" /\ cur'[s] = cur[s]
        /\ cur[s].res = "ok"
     \/ l = "finish" /\ pc[s] = "received" /\ ~closes /\ x = "data" /\ cur'[s] = cur[s]
     \/ /\ l = "early" /\ pc[s] = "received" /\ ~closes /\ x = "data" /\ cur'[s] = cur[s]
        /\ s \in EarlyClosers
     \/ l = "finish" /\ pc[s] = "early" /\ closes /\ x = "data" /\ cur'[s] = cur[s]

LEMMA GoesOn ==
  ASSUME IInv, SoleLoop, Sound, NEW s \in Servers, Minds(s), NEW l, NEW x,
         NEW closes \in BOOLEAN, GoesTo(s, l, x, closes), RepliesToAsker'
  PROVE  Sound'
<1> USE DEF GoesTo
<1> DEFINE o == cur[s]
<1>1. /\ o.sock \in Handles /\ o.conn \in Conns \cup {None}
      /\ l = "recv" \/ l = "finish" \/ l = "early" => Minds(s)'
      /\ Minds(s)' => l \in {"recv", "finish", "early"} /\ cur'[s] = o
      /\ \A t \in Servers : t # s => (Minds(t)' <=> Minds(t))
  BY Basics DEF Minds
<1>2. o.conn \in Conns => phase[o.conn] = "accepted"
  <2> SUFFICES ASSUME o.conn \in Conns PROVE phase[o.conn] = "accepted"
    OBVIOUS
  <2>1. CASE htab[o.sock] = Named(o)
    BY <1>1, <2>1, Basics DEF Sound, NameInv, Named
  <2>2. CASE pc[s] = "finish"
    BY <2>2 DEF Sound, NameInv, StageInv
  <2> QED
    BY <2>1, <2>2 DEF Sound, LoopOwn
<1>3. /\ \A i \in Ids : ops[i] # None => ops[i].sock # o.sock
      /\ \A t \in Servers : t # s /\ Minds(t) => cur[t].sock # o.sock
      /\ \A h \in Handles : htab[h] \in Conns /\ htab[h] = o.conn => h = o.sock
  BY DEF Sound, LoopOwn
<1>4. /\ \A i \in Ids : ops[i] # None /\ ops[i].conn \in Conns => ops[i].conn # o.conn
      /\ \A t \in Servers : t # s /\ Minds(t) /\ cur[t].conn \in Conns => cur[t].conn # o.conn
  BY Apart
<1>5. /\ htab'[o.sock] = IF closes THEN None ELSE htab[o.sock]
      /\ \A h \in Handles : h # o.sock => htab'[h] = htab[h]
      /\ \A h \in Handles : htab'[h] \in Conns => htab'[h] = htab[h]
  BY <1>1, Basics
<1>6. NameInv'
  BY <1>2, <1>5 DEF Sound, NameInv
<1>7. OpOwn'
  <2> SUFFICES ASSUME NEW i \in Ids, ops[i] # None
               PROVE  htab'[ops[i].sock] = htab[ops[i].sock]
    BY DEF Sound, OpOwn, Named
  <2> QED
    BY <1>3, <1>5, Basics
<1>8. LoopOwn'
  <2> SUFFICES ASSUME NEW t \in Servers, Minds(t)'
               PROVE  /\ \/ htab'[cur'[t].sock] = Named(cur'[t])
                         \/ /\ pc'[t] = "finish" /\ htab'[cur'[t].sock] = None
                            /\ t \in EarlyClosers
                      /\ pc'[t] = "early" => t \in EarlyClosers
                      /\ \A h \in Handles : htab'[h] \in Conns /\ htab'[h] = cur'[t].conn
                                              => h = cur'[t].sock
                      /\ \A i \in Ids : ops'[i] # None => ops'[i].sock # cur'[t].sock
                      /\ \A r \in Servers : Minds(r)' /\ cur'[r].sock = cur'[t].sock => r = t
    BY DEF LoopOwn, Named
  <2>1. CASE t = s
    <3>1. /\ cur'[s] = o /\ l \in {"recv", "finish", "early"} /\ pc'[s] = l
      BY <1>1, <2>1
    <3>2. \/ htab'[o.sock] = Named(o)
          \/ pc'[s] = "finish" /\ htab'[o.sock] = None /\ s \in EarlyClosers
      BY <1>5, <3>1 DEF Sound, LoopOwn
    <3>3. pc'[s] = "early" => s \in EarlyClosers
      BY <3>1
    <3>4. \A r \in Servers : Minds(r)' /\ cur'[r].sock = o.sock => r = s
      BY <1>1, <1>3
    <3> HIDE DEF o
    <3> QED
      BY <1>3, <1>5, <2>1, <3>1, <3>2, <3>3, <3>4
  <2>2. CASE t # s
    <3>1. /\ Minds(t) /\ cur'[t] = cur[t] /\ pc'[t] = pc[t]
      BY <1>1, <2>2
    <3>2. cur[t].sock # o.sock /\ cur[t].sock \in Handles
      BY <1>3, <2>2, <3>1, Basics
    <3>3. htab'[cur[t].sock] = htab[cur[t].sock]
      BY <1>5, <3>2
    <3>4. \A r \in Servers : Minds(r)' /\ cur'[r].sock = cur[t].sock => r = t
      <4> SUFFICES ASSUME NEW r \in Servers, Minds(r)', cur'[r].sock = cur[t].sock
                   PROVE  r = t
        OBVIOUS
      <4>1. r # s
        BY <1>1, <3>2
      <4> QED
        BY <1>1, <3>1, <4>1 DEF Sound, LoopOwn
    <3> HIDE DEF o
    <3> QED
      BY <1>5, <3>1, <3>3, <3>4 DEF Sound, LoopOwn
  <2> QED
    BY <2>1, <2>2
<1>9. StageInv'
  <2>1. ASSUME NEW i \in Ids, ops'[i] # None
        PROVE  /\ ops'[i].kind = "accept" /\ ops'[i].res = "ok" => stage'[ops'[i].conn] = "none"
               /\ ops'[i].kind = "recv" => stage'[ops'[i].conn] = "connect"
    <3>1. ops[i] # None /\ ops'[i] = ops[i]
      BY <2>1
    <3>2. ops[i].conn \in Conns => stage'[ops[i].conn] = stage[ops[i].conn]
      BY <1>4, <3>1
    <3> QED
      BY <3>1, <3>2, Basics DEF Sound, StageInv
  <2>2. ASSUME NEW t \in Servers
        PROVE  /\ pc'[t] = "accepted" /\ cur'[t].res = "ok" => stage'[cur'[t].conn] = "none"
               /\ pc'[t] \in {"recv", "received"} => stage'[cur'[t].conn] = "connect"
               /\ pc'[t] \in {"early", "finish"} => stage'[cur'[t].conn] = "data"
    <3>1. CASE t = s
      <4>1. ASSUME l \in {"recv", "early", "finish"}
            PROVE  cur[s].conn \in Conns
        BY <4>1, Basics
      <4> QED
        BY <1>1, <3>1, <4>1
    <3>2. CASE t # s
      <4>1. pc'[t] = pc[t] /\ cur'[t] = cur[t]
        BY <3>2
      <4>2. Minds(t) /\ cur[t].conn \in Conns => stage'[cur[t].conn] = stage[cur[t].conn]
        BY <1>4, <3>2
      <4> QED
        BY <4>1, <4>2, Basics DEF Sound, StageInv, Minds
    <3> QED
      BY <3>1, <3>2
  <2> QED
    BY <2>1, <2>2 DEF StageInv
<1> QED
  BY <1>6, <1>7, <1>8, <1>9 DEF Sound

(* A new socket and AcceptEx on it, by a loop that minds nothing.          *)
LEMMA PostAcceptIsSound ==
  ASSUME IInv, SoleLoop, Sound, NEW s \in Servers, NEW l \in Servers,
         pc[s] \in {"post", "replenish"}, PostAccept(l),
         UNCHANGED <<phase, assoc, cq, stage, replies>>,
         \A t \in Servers : /\ Minds(t)' <=> Minds(t)
                            /\ Minds(t) => cur'[t] = cur[t] /\ pc'[t] = pc[t]
  PROVE  Sound'
<1>1. PICK i \in Ids, h \in Handles :
        /\ ops[i] = None /\ htab[h] = None /\ htab' = [htab EXCEPT ![h] = Blank]
        /\ \A j \in Ids : ops'[j] = IF j = i THEN AcceptOp(h, l) ELSE ops[j]
  <2>1. \E j \in Ids : ops[j] = None
    BY RoomToPost
  <2> QED
    BY <2>1, IInvKernel, PostsAcceptKernel
<1> DEFINE op == AcceptOp(h, l)
<1>2. /\ op # None /\ op.kind = "accept" /\ op.sock = h
      /\ op.conn = None /\ op.res = "pending"
  <2>1. op \in Ops
    BY DEF AcceptOp, Ops, Ports
  <2> QED
    BY <2>1, NoneIsNoOp DEF AcceptOp
<1>3. \A j \in Ids : ops'[j] = IF j = i THEN op ELSE ops[j]
  BY <1>1
<1> HIDE DEF op
<1>4. \A g \in Handles : htab'[g] = IF g = h THEN Blank ELSE htab[g]
  BY <1>1, Basics
<1>5. \A j \in Ids : ops[j] # None => ops[j].sock # h
  BY <1>1, Basics DEF Sound, OpOwn, Named
<1>6. \A t \in Servers : Minds(t) => /\ cur[t].sock # h /\ cur[t].sock \in Handles
                                     /\ htab[cur[t].sock] = Named(cur[t])
  <2> SUFFICES ASSUME NEW t \in Servers, Minds(t)
               PROVE  /\ cur[t].sock # h /\ cur[t].sock \in Handles
                      /\ htab[cur[t].sock] = Named(cur[t])
    OBVIOUS
  <2>1. t # s
    BY DEF Minds
  <2>2. EarlyClosers = {}
    BY <2>1 DEF SoleLoop
  <2>3. htab[cur[t].sock] = Named(cur[t])
    BY <2>2 DEF Sound, LoopOwn
  <2> QED
    BY <1>1, <2>3, Basics DEF Named
<1>7. NameInv'
  BY <1>4, Basics DEF Sound, NameInv
<1>8. OpOwn'
  <2> SUFFICES ASSUME NEW j \in Ids, ops'[j] # None
               PROVE  /\ ops'[j].res # "doomed"
                      /\ htab'[ops'[j].sock] = Named(ops'[j])
                      /\ \A k \in Ids : ops'[k] # None /\ ops'[k].sock = ops'[j].sock => k = j
    BY DEF OpOwn, Named
  <2>1. CASE j = i
    BY <1>2, <1>3, <1>4, <1>5, <2>1 DEF Named
  <2>2. CASE j # i
    <3>1. ops'[j] = ops[j] /\ ops[j].sock \in Handles /\ ops[j].sock # h
      BY <1>3, <1>5, <2>2, Basics
    <3> QED
      BY <1>2, <1>3, <1>4, <3>1 DEF Sound, OpOwn
  <2> QED
    BY <2>1, <2>2
<1>9. LoopOwn'
  <2> SUFFICES ASSUME NEW t \in Servers, Minds(t)
               PROVE  /\ htab'[cur[t].sock] = Named(cur[t])
                      /\ pc[t] = "early" => t \in EarlyClosers
                      /\ \A g \in Handles : htab'[g] \in Conns /\ htab'[g] = cur[t].conn
                                              => g = cur[t].sock
                      /\ \A j \in Ids : ops'[j] # None => ops'[j].sock # cur[t].sock
                      /\ \A r \in Servers : Minds(r) /\ cur[r].sock = cur[t].sock => r = t
    BY DEF LoopOwn, Named
  <2>1. htab'[cur[t].sock] = Named(cur[t])
    BY <1>4, <1>6
  <2>2. \A j \in Ids : ops'[j] # None => ops'[j].sock # cur[t].sock
    BY <1>2, <1>3, <1>6 DEF Sound, LoopOwn
  <2>3. \A g \in Handles : htab'[g] \in Conns => htab'[g] = htab[g]
    BY <1>4, Basics
  <2> QED
    BY <2>1, <2>2, <2>3 DEF Sound, LoopOwn
<1>10. StageInv'
  <2>1. \A j \in Ids : ops'[j] # None =>
          /\ ops'[j].kind = "accept" /\ ops'[j].res = "ok" => stage[ops'[j].conn] = "none"
          /\ ops'[j].kind = "recv" => stage[ops'[j].conn] = "connect"
    BY <1>2, <1>3 DEF Sound, StageInv
  <2>2. \A t \in Servers :
          /\ pc'[t] = "accepted" /\ cur'[t].res = "ok" => stage[cur'[t].conn] = "none"
          /\ pc'[t] \in {"recv", "received"} => stage[cur'[t].conn] = "connect"
          /\ pc'[t] \in {"early", "finish"} => stage[cur'[t].conn] = "data"
    BY DEF Sound, StageInv, Minds
  <2> QED
    BY <2>1, <2>2 DEF StageInv
<1> QED
  BY <1>7, <1>8, <1>9, <1>10 DEF Sound, RepliesToAsker

(* WSARecv, on the socket the loop minds. *)
LEMMA PostRecvIsSound ==
  ASSUME IInv, Sound, NEW s \in Servers, PostRecv(s)
  PROVE  Sound'
<1> DEFINE h == cur[s].sock
           op == RecvOp(h)
<1>1. /\ pc[s] = "recv" /\ htab[h] \in Conns /\ Minds(s)
      /\ UNCHANGED <<phase, htab, assoc, cq, cur, stage, replies>>
      /\ Post(op)
      /\ \A t \in Servers : pc'[t] = IF t = s THEN "replenish" ELSE pc[t]
  BY DEF PostRecv, Goto, clientVars, Minds, IInv, TypeOK
<1>2. /\ h \in Handles /\ h = cur[s].sock
      /\ htab[h] = cur[s].conn
  <2>1. htab[h] = Named(cur[s])
    BY <1>1 DEF Sound, LoopOwn
  <2> QED
    BY <1>1, <2>1, Basics DEF Named
<1> HIDE DEF h
<1>3. /\ op # None /\ op.kind = "recv" /\ op.sock = h
      /\ op.conn = htab[h] /\ op.res = "pending"
  <2>1. op \in Ops
    BY <1>1, <1>2 DEF RecvOp, Ops, IInv, TypeOK
  <2> QED
    BY <2>1, NoneIsNoOp DEF RecvOp
<1>4. PICK i \in Ids : /\ ops[i] = None
                       /\ \A j \in Ids : ops'[j] = IF j = i THEN op ELSE ops[j]
  <2>1. \E j \in Ids : ops[j] = None
    BY <1>1, RoomToPost
  <2> QED
    BY <1>1, <1>2, <2>1, IInvKernel, PostsRecvKernel
<1> HIDE DEF op
<1>5. \A j \in Ids : ops[j] # None => ops[j].sock # h
  BY <1>1, <1>2 DEF Sound, LoopOwn
<1>6. \A t \in Servers : Minds(t)' => /\ Minds(t) /\ t # s /\ cur[t].sock # h
                                      /\ pc'[t] = pc[t] /\ cur'[t] = cur[t]
  BY <1>1, <1>2 DEF Minds, Sound, LoopOwn
<1>7. NameInv'
  BY <1>1 DEF Sound, NameInv
<1>8. OpOwn'
  <2> SUFFICES ASSUME NEW j \in Ids, ops'[j] # None
               PROVE  /\ ops'[j].res # "doomed"
                      /\ htab[ops'[j].sock] = Named(ops'[j])
                      /\ \A k \in Ids : ops'[k] # None /\ ops'[k].sock = ops'[j].sock => k = j
    BY <1>1 DEF OpOwn, Named
  <2>1. CASE j = i
    <3>1. Named(op) = htab[h]
      BY <1>1, <1>3, Basics DEF Named
    <3>2. ops'[j] = op
      BY <1>4, <2>1
    <3> QED
      BY <1>3, <1>4, <1>5, <2>1, <3>1, <3>2
  <2>2. CASE j # i
    <3>1. ops'[j] = ops[j] /\ ops[j].sock # h
      BY <1>4, <1>5, <2>2
    <3> QED
      BY <1>3, <1>4, <3>1 DEF Sound, OpOwn
  <2> QED
    BY <2>1, <2>2
<1>9. LoopOwn'
  <2> SUFFICES ASSUME NEW t \in Servers, Minds(t)'
               PROVE  /\ \/ htab[cur[t].sock] = Named(cur[t])
                         \/ pc[t] = "finish" /\ htab[cur[t].sock] = None /\ t \in EarlyClosers
                      /\ pc[t] = "early" => t \in EarlyClosers
                      /\ \A g \in Handles : htab[g] \in Conns /\ htab[g] = cur[t].conn
                                              => g = cur[t].sock
                      /\ \A j \in Ids : ops'[j] # None => ops'[j].sock # cur[t].sock
                      /\ \A r \in Servers : Minds(r)' /\ cur[r].sock = cur[t].sock => r = t
    BY <1>1, <1>6 DEF LoopOwn, Named
  <2>1. Minds(t) /\ cur[t].sock # h
    BY <1>6
  <2>2. \A j \in Ids : ops'[j] # None => ops'[j].sock # cur[t].sock
    BY <1>3, <1>4, <2>1 DEF Sound, LoopOwn
  <2>3. \A r \in Servers : Minds(r)' /\ cur[r].sock = cur[t].sock => r = t
    BY <1>6, <2>1 DEF Sound, LoopOwn
  <2> QED
    BY <2>1, <2>2, <2>3 DEF Sound, LoopOwn
<1>10. StageInv'
  <2>1. \A j \in Ids : ops'[j] # None =>
          /\ ops'[j].kind = "accept" /\ ops'[j].res = "ok" => stage[ops'[j].conn] = "none"
          /\ ops'[j].kind = "recv" => stage[ops'[j].conn] = "connect"
    <3>1. stage[op.conn] = "connect"
      BY <1>1, <1>2, <1>3 DEF Sound, StageInv
    <3> QED
      BY <1>3, <1>4, <3>1 DEF Sound, StageInv
  <2>2. \A t \in Servers :
          /\ pc'[t] = "accepted" /\ cur[t].res = "ok" => stage[cur[t].conn] = "none"
          /\ pc'[t] \in {"recv", "received"} => stage[cur[t].conn] = "connect"
          /\ pc'[t] \in {"early", "finish"} => stage[cur[t].conn] = "data"
    BY <1>1 DEF Sound, StageInv
  <2> QED
    BY <1>1, <2>1, <2>2 DEF StageInv
<1> QED
  BY <1>1, <1>7, <1>8, <1>9, <1>10 DEF Sound, RepliesToAsker

(* A completion passes from the port to the loop that takes it. *)
LEMMA TakeIsSound ==
  ASSUME IInv, Sound, NEW s \in Servers, Take(s)
  PROVE  Sound'
<1> DEFINE i == Head(cq[port[s]])
           o == ops[i]
<1>1. i \in Ids /\ o \in Ops /\ ops[i] = o
  <2>1. port[s] \in Ports /\ cq[port[s]] \in Seq(Ids) /\ cq[port[s]] # <<>>
    BY DEF Take, IInv, TypeOK
  <2>2. ops' = [ops EXCEPT ![i] = None] /\ cq' = [cq EXCEPT ![port[s]] = Tail(cq[port[s]])]
        /\ UNCHANGED <<htab, assoc>>
    BY DEF Take
  <2> QED
    BY <2>1, <2>2, IInvKernel, TakesKernel
<1>2. /\ pc[s] = "wait"
      /\ UNCHANGED <<phase, htab, stage, replies>>
      /\ \A j \in Ids : ops'[j] = IF j = i THEN None ELSE ops[j]
      /\ \A t \in Servers :
           /\ cur'[t] = IF t = s THEN o ELSE cur[t]
           /\ pc'[t] = IF t # s THEN pc[t]
                       ELSE IF o.kind = "accept" THEN "accepted" ELSE "received"
  <2>1. /\ pc[s] = "wait"
        /\ UNCHANGED <<phase, htab, stage, replies>>
        /\ ops' = [ops EXCEPT ![i] = None] /\ cur' = [cur EXCEPT ![s] = o]
        /\ pc' = [pc EXCEPT ![s] = IF o.kind = "accept" THEN "accepted" ELSE "received"]
    BY DEF Take, Goto, clientVars, historyVars
  <2> HIDE DEF i, o
  <2> QED
    BY <1>1, <2>1 DEF IInv, TypeOK
<1> HIDE DEF i, o
<1>3. /\ o # None /\ o.sock \in Handles /\ o.kind \in {"accept", "recv"}
      /\ o.conn \in Conns \cup {None}
      /\ o.kind = "recv" => o.conn \in Conns
  BY <1>1, NoneIsNoOp, Basics
<1>4. /\ htab[o.sock] = Named(o)
      /\ \A j \in Ids : ops[j] # None /\ ops[j].sock = o.sock => j = i
      /\ o.kind = "accept" /\ o.res = "ok" => stage[o.conn] = "none"
      /\ o.kind = "recv" => stage[o.conn] = "connect"
  BY <1>1, <1>3 DEF Sound, OpOwn, StageInv
<1>5. /\ Minds(s)' /\ ~Minds(s)
      /\ \A t \in Servers : t # s => (Minds(t)' <=> Minds(t))
      /\ \A t \in Servers : Minds(t) => cur[t].sock # o.sock
  BY <1>1, <1>2, <1>3 DEF Minds, Sound, LoopOwn
<1>6. NameInv' /\ OpOwn'
  BY <1>2 DEF Sound, NameInv, OpOwn, Named
<1>7. LoopOwn'
  <2> SUFFICES ASSUME NEW t \in Servers, Minds(t)'
               PROVE  /\ \/ htab[cur'[t].sock] = Named(cur'[t])
                         \/ pc'[t] = "finish" /\ htab[cur'[t].sock] = None /\ t \in EarlyClosers
                      /\ pc'[t] = "early" => t \in EarlyClosers
                      /\ \A g \in Handles : htab[g] \in Conns /\ htab[g] = cur'[t].conn
                                              => g = cur'[t].sock
                      /\ \A j \in Ids : ops'[j] # None => ops'[j].sock # cur'[t].sock
                      /\ \A r \in Servers : Minds(r)' /\ cur'[r].sock = cur'[t].sock => r = t
    BY <1>2 DEF LoopOwn, Named
  <2>1. CASE t = s
    <3>1. cur'[t] = o /\ pc'[t] \in {"accepted", "received"}
      BY <1>2, <2>1
    <3>2. \A g \in Handles : htab[g] \in Conns /\ htab[g] = o.conn => g = o.sock
      BY <1>3, <1>4, Basics DEF Sound, NameInv, Named
    <3>3. \A j \in Ids : ops'[j] # None => ops'[j].sock # o.sock
      BY <1>2, <1>4
    <3>4. \A r \in Servers : Minds(r)' /\ cur'[r].sock = o.sock => r = s
      BY <1>2, <1>5
    <3> QED
      BY <1>4, <2>1, <3>1, <3>2, <3>3, <3>4
  <2>2. CASE t # s
    <3>1. Minds(t) /\ cur'[t] = cur[t] /\ pc'[t] = pc[t]
      BY <1>2, <1>5, <2>2
    <3>2. \A j \in Ids : ops'[j] # None => ops'[j].sock # cur[t].sock
      BY <1>2, <3>1 DEF Sound, LoopOwn
    <3>3. \A r \in Servers : Minds(r)' /\ cur'[r].sock = cur[t].sock => r = t
      <4> SUFFICES ASSUME NEW r \in Servers, Minds(r)', cur'[r].sock = cur[t].sock
                   PROVE  r = t
        OBVIOUS
      <4>1. r # s
        BY <1>2, <1>5, <3>1
      <4>2. Minds(r) /\ cur'[r] = cur[r]
        BY <1>2, <1>5, <4>1
      <4> QED
        BY <3>1, <4>2 DEF Sound, LoopOwn
    <3> QED
      BY <3>1, <3>2, <3>3 DEF Sound, LoopOwn
  <2> QED
    BY <2>1, <2>2
<1>8. StageInv'
  <2>1. \A j \in Ids : ops'[j] # None =>
          /\ ops'[j].kind = "accept" /\ ops'[j].res = "ok" => stage[ops'[j].conn] = "none"
          /\ ops'[j].kind = "recv" => stage[ops'[j].conn] = "connect"
    BY <1>2 DEF Sound, StageInv
  <2>2. \A t \in Servers :
          /\ pc'[t] = "accepted" /\ cur'[t].res = "ok" => stage[cur'[t].conn] = "none"
          /\ pc'[t] \in {"recv", "received"} => stage[cur'[t].conn] = "connect"
          /\ pc'[t] \in {"early", "finish"} => stage[cur'[t].conn] = "data"
    BY <1>2, <1>3, <1>4 DEF Sound, StageInv
  <2> QED
    BY <1>2, <2>1, <2>2 DEF StageInv
<1> QED
  BY <1>2, <1>6, <1>7, <1>8 DEF Sound, RepliesToAsker

(* The kernel completes the operation at i. *)
LEMMA KernelIsSound ==
  ASSUME IInv, Sound, Kernel
  PROVE  Sound'
<1>1. PICK i \in Ids :
        \/ \E c \in Conns : KernelAccept(i, c) \/ KernelReset(i, c)
        \/ KernelAbort(i) \/ KernelRecv(i)
  BY DEF Kernel
<1>2. ~KernelAbort(i)
  BY DEF KernelAbort, Sound, OpOwn
<1>3. PICK r \in {"ok", "data", "nothing"}, c \in Conns \cup {None} :
        /\ ops[i] # None /\ ops[i].res = "pending"
        /\ Complete(i, r, c)
        /\ UNCHANGED <<pc, cur, stage, replies>>
        /\ \/ /\ ops[i].kind = "accept" /\ r = "ok" /\ c \in Conns
              /\ phase[c] = "backlog" /\ phase' = [phase EXCEPT ![c] = "accepted"]
              /\ htab' = [htab EXCEPT ![ops[i].sock] = c]
           \/ /\ c = ops[i].conn /\ UNCHANGED htab
              /\ ops[i].kind = "accept" => r = "nothing"
              /\ \/ UNCHANGED phase
                 \/ \E d \in Conns : /\ phase[d] = "backlog"
                                     /\ phase' = [phase EXCEPT ![d] = "dropped"]
  <2>1. CASE \E c \in Conns : KernelAccept(i, c)
    BY <2>1 DEF KernelAccept, Waiting, loopVars, historyVars
  <2>2. CASE \E c \in Conns : KernelReset(i, c)
    <3>1. ops[i].conn = None
      BY <2>2, Basics DEF KernelReset
    <3> QED
      BY <2>2, <3>1 DEF KernelReset, Waiting, loopVars, historyVars
  <2>3. CASE KernelRecv(i)
    <3>1. ops[i].conn \in Conns
      BY <2>3, Basics DEF KernelRecv
    <3> QED
      BY <2>3, <3>1 DEF KernelRecv, clientVars, loopVars, historyVars
  <2> QED
    BY <1>1, <1>2, <2>1, <2>2, <2>3
<1> DEFINE h == ops[i].sock
<1>4. /\ \A j \in Ids : j # i => ops'[j] = ops[j]
      /\ ops'[i] # None /\ ops'[i].kind = ops[i].kind /\ ops'[i].sock = h
      /\ ops'[i].conn = c /\ ops'[i].res = r
  <2>1. ops[i] \in Ops
    BY <1>3, Basics
  <2>2. ops' = [ops EXCEPT ![i] = [[ops[i] EXCEPT !.res = r] EXCEPT !.conn = c]]
    BY <1>3 DEF Complete, IInv, TypeOK
  <2>3. [[ops[i] EXCEPT !.res = r] EXCEPT !.conn = c] \in Ops
    BY <2>1 DEF Ops
  <2> QED
    BY <2>1, <2>2, <2>3, NoneIsNoOp DEF Ops, IInv, TypeOK
<1>5. /\ h \in Handles /\ htab[h] = Named(ops[i])
      /\ \A j \in Ids : ops[j] # None /\ ops[j].sock = h => j = i
      /\ \A t \in Servers : Minds(t) => cur[t].sock # h
  BY <1>3, Basics DEF Sound, OpOwn, LoopOwn
<1>6. /\ \A g \in Handles : g # h => htab'[g] = htab[g]
      /\ \/ htab'[h] = htab[h] /\ c = ops[i].conn
         \/ htab'[h] = c /\ c \in Conns /\ phase[c] = "backlog" /\ phase'[c] = "accepted"
            /\ ops[i].kind = "accept" /\ stage[c] = "none"
      /\ htab'[h] = IF c = None THEN Blank ELSE c
  <2>1. c \in Conns /\ phase[c] = "backlog" => stage[c] = "none"
    BY DEF Sound, NameInv
  <2>2. /\ phase \in [Conns -> {"new", "backlog", "accepted", "dropped"}]
        /\ htab \in [Handles -> Conns \cup {Blank, None}]
    BY DEF IInv, TypeOK
  <2> HIDE DEF h
  <2>3. CASE UNCHANGED htab /\ c = ops[i].conn
    BY <1>5, <2>3 DEF Named
  <2>4. CASE /\ ops[i].kind = "accept" /\ r = "ok" /\ c \in Conns
             /\ phase[c] = "backlog" /\ phase' = [phase EXCEPT ![c] = "accepted"]
             /\ htab' = [htab EXCEPT ![h] = c]
    BY <1>5, <2>1, <2>2, <2>4, Basics
  <2> QED
    BY <1>3, <2>3, <2>4 DEF h
<1>7. /\ \A d \in Conns : phase[d] = "accepted" => phase'[d] = "accepted"
      /\ \A d \in Conns : stage[d] # "none" => phase'[d] = "accepted"
  BY <1>3 DEF IInv, TypeOK, Sound, NameInv
<1>8. \A g \in Handles : htab'[g] \in Conns /\ htab'[g] # htab[g] =>
        /\ g = h /\ htab'[g] = c /\ phase[c] = "backlog"
        /\ \A f \in Handles : htab[f] # c
  BY <1>6 DEF Sound, NameInv
<1>9. NameInv'
  <2>1. \A g \in Handles : htab'[g] \in Conns => phase'[htab'[g]] = "accepted"
    BY <1>6, <1>7 DEF Sound, NameInv
  <2>2. \A f, g \in Handles : htab'[f] = htab'[g] /\ htab'[f] \in Conns => f = g
    BY <1>6, <1>8 DEF Sound, NameInv
  <2> QED
    BY <1>3, <1>7, <2>1, <2>2 DEF NameInv
<1>10. OpOwn'
  <2> SUFFICES ASSUME NEW j \in Ids, ops'[j] # None
               PROVE  /\ ops'[j].res # "doomed"
                      /\ htab'[ops'[j].sock] = Named(ops'[j])
                      /\ \A k \in Ids : ops'[k] # None /\ ops'[k].sock = ops'[j].sock => k = j
    BY DEF OpOwn, Named
  <2>1. CASE j = i
    BY <1>4, <1>5, <1>6, <2>1 DEF Named
  <2>2. CASE j # i
    <3>1. /\ ops'[j] = ops[j] /\ ops[j] # None /\ ops[j].sock # h /\ ops[j].sock \in Handles
      BY <1>4, <1>5, <2>2, Basics
    <3>2. htab'[ops[j].sock] = htab[ops[j].sock]
      BY <1>6, <3>1
    <3> HIDE DEF h
    <3> QED
      BY <1>4, <3>1, <3>2 DEF Sound, OpOwn
  <2> QED
    BY <2>1, <2>2
<1>11. LoopOwn'
  <2> SUFFICES ASSUME NEW t \in Servers, Minds(t)
               PROVE  /\ \/ htab'[cur[t].sock] = Named(cur[t])
                         \/ pc[t] = "finish" /\ htab'[cur[t].sock] = None /\ t \in EarlyClosers
                      /\ pc[t] = "early" => t \in EarlyClosers
                      /\ \A g \in Handles : htab'[g] \in Conns /\ htab'[g] = cur[t].conn
                                              => g = cur[t].sock
                      /\ \A j \in Ids : ops'[j] # None => ops'[j].sock # cur[t].sock
                      /\ \A q \in Servers : Minds(q) /\ cur[q].sock = cur[t].sock => q = t
    BY <1>3 DEF LoopOwn, Named, Minds
  <2>1. cur[t].sock # h /\ cur[t].sock \in Handles
    BY <1>5, Basics
  <2>2. htab'[cur[t].sock] = htab[cur[t].sock]
    BY <1>6, <2>1
  <2>3. \A g \in Handles : htab'[g] \in Conns /\ htab'[g] = cur[t].conn => g = cur[t].sock
    <3> SUFFICES ASSUME NEW g \in Handles, htab'[g] \in Conns, htab'[g] = cur[t].conn,
                        htab'[g] # htab[g]
                 PROVE  FALSE
      BY DEF Sound, LoopOwn
    <3>1. cur[t].conn = c /\ phase[c] = "backlog" /\ c \in Conns /\ htab[cur[t].sock] # c
      BY <1>8, <2>1
    <3>2. stage[c] = "none"
      BY <3>1 DEF Sound, NameInv
    <3>3. htab[cur[t].sock] # Named(cur[t])
      BY <3>1, Basics DEF Named
    <3>4. pc[t] = "finish"
      BY <3>3 DEF Sound, LoopOwn
    <3> QED
      BY <3>1, <3>2, <3>4 DEF Sound, StageInv
  <2>4. \A j \in Ids : ops'[j] # None => ops'[j].sock # cur[t].sock
    BY <1>4, <2>1 DEF Sound, LoopOwn
  <2> QED
    BY <2>2, <2>3, <2>4 DEF Sound, LoopOwn
<1>12. StageInv'
  <2>1. ASSUME NEW j \in Ids, ops'[j] # None
        PROVE  /\ ops'[j].kind = "accept" /\ ops'[j].res = "ok" => stage[ops'[j].conn] = "none"
               /\ ops'[j].kind = "recv" => stage[ops'[j].conn] = "connect"
    <3>1. CASE j = i
      <4>1. ops[i].kind = "accept" /\ r = "ok" => stage[c] = "none"
        BY <1>3, <1>6 DEF Sound, NameInv
      <4>2. ops[i].kind = "recv" => c = ops[i].conn
        BY <1>3
      <4> QED
        BY <1>3, <1>4, <3>1, <4>1, <4>2 DEF Sound, StageInv
    <3>2. CASE j # i
      BY <1>4, <2>1, <3>2 DEF Sound, StageInv
    <3> QED
      BY <3>1, <3>2
  <2> QED
    BY <1>3, <2>1 DEF Sound, StageInv
<1> QED
  BY <1>3, <1>9, <1>10, <1>11, <1>12 DEF Sound, RepliesToAsker

(* Steps that touch no operation, no socket and nothing in hand. *)
LEMMA StaysSound ==
  ASSUME IInv, Sound, UNCHANGED <<stage, replies>>,
         \A h \in Handles : htab'[h] = htab[h],
         \A i \in Ids : ops'[i] = ops[i],
         \A s \in Servers : /\ Minds(s)' <=> Minds(s)
                            /\ Minds(s) => cur'[s] = cur[s] /\ pc'[s] = pc[s],
         \A c \in Conns : phase'[c] # "accepted" <=> phase[c] # "accepted"
  PROVE  Sound'
<1>1. NameInv'
  BY DEF Sound, NameInv
<1>2. OpOwn'
  BY Basics DEF Sound, OpOwn, Named
<1>3. LoopOwn'
  <2>1. \A s \in Servers : Minds(s) => cur[s].sock \in Handles
    BY Basics
  <2> QED
    BY <2>1 DEF Sound, LoopOwn, Named
<1>4. StageInv'
  BY DEF Sound, StageInv, Minds
<1> QED
  BY <1>1, <1>2, <1>3, <1>4 DEF Sound, RepliesToAsker

LEMMA QuietIsSound ==
  ASSUME IInv, Sound, ~swept', NEW s \in Servers,
         \/ Start(s) \/ StartFails(s) \/ PostInitialFails(s) \/ Gqcs(s)
         \/ TimedOut(s) \/ NoSweep(s) \/ Sweep(s) \/ ReplenishFails(s)
  PROVE  Sound'
<1>1. /\ UNCHANGED <<phase, stage, replies>>
      /\ pc[s] \in {"start", "post", "call", "wait", "sweep", "replenish"}
      /\ \E l \in {"post", "returned", "wait", "sweep", "call"} : pc' = [pc EXCEPT ![s] = l]
      /\ cur' = cur \/ cur' = [cur EXCEPT ![s] = None]
  BY DEF Start, StartFails, PostInitialFails, Gqcs, TimedOut, NoSweep, Sweep,
         ReplenishFails, Goto, clientVars, historyVars
<1>2. (\A h \in Handles : htab'[h] = htab[h]) /\ \A i \in Ids : ops'[i] = ops[i]
  <2>1. CASE Sweep(s)
    BY <2>1 DEF Sweep, Closesocket
  <2>2. CASE ~Sweep(s)
    <3>1. UNCHANGED kernelVars
      BY <2>2 DEF Start, StartFails, PostInitialFails, Gqcs, TimedOut, NoSweep, ReplenishFails
    <3> QED
      BY <3>1 DEF kernelVars
  <2> QED
    BY <2>1, <2>2
<1>3. \A t \in Servers : /\ Minds(t)' <=> Minds(t)
                         /\ Minds(t) => cur'[t] = cur[t] /\ pc'[t] = pc[t]
  BY <1>1 DEF Minds, IInv, TypeOK
<1> QED
  BY <1>1, <1>2, <1>3, StaysSound

LEMMA PostsAreSound ==
  ASSUME IInv, SoleLoop, Sound, NEW s \in Servers, PostInitial(s) \/ Replenish(s)
  PROVE  Sound'
<1>1. /\ UNCHANGED <<phase, assoc, cq, stage, replies>>
      /\ pc[s] \in {"post", "replenish"}
      /\ \E l \in {"post", "call"} : pc' = [pc EXCEPT ![s] = l]
      /\ cur' = cur \/ cur' = [cur EXCEPT ![s] = None]
  BY DEF PostInitial, Replenish, Goto, clientVars, historyVars
<1>2. PICK l \in Servers : PostAccept(l)
  <2>1. pc[s] = "replenish" => cur[s].listener \in Servers
    BY DEF IInv, HandInv
  <2> QED
    BY <2>1 DEF PostInitial, Replenish, Goto
<1>3. \A t \in Servers : /\ Minds(t)' <=> Minds(t)
                         /\ Minds(t) => cur'[t] = cur[t] /\ pc'[t] = pc[t]
  BY <1>1 DEF Minds, IInv, TypeOK
<1> QED
  BY <1>1, <1>2, <1>3, PostAcceptIsSound

(* What the actions of a loop that minds a connection come to.             *)
LEMMA MindsSteps ==
  ASSUME IInv, SoleLoop, Sound, NEW s \in Servers,
         \/ AcceptError(s) \/ AttachFails(s) \/ PostRecvFails(s) \/ EarlyClose(s)
         \/ Attach(s) \/ DataCallback(s) \/ HangUp(s) \/ Finish(s)
  PROVE  Sound'
<1> USE DEF Goto, clientVars, kernelVars, historyVars
<1>1. /\ pc \in [Servers -> {"start", "post", "call", "wait", "sweep", "accepted",
                             "recv", "replenish", "received", "early", "finish",
                             "returned"}]
      /\ cur \in [Servers -> Ops \cup {None}]
  BY DEF IInv, TypeOK
<1>2. UNCHANGED phase
  BY DEF AcceptError, AttachFails, PostRecvFails, EarlyClose, Attach, DataCallback, HangUp, Finish
<1>3. CASE AcceptError(s) \/ AttachFails(s) \/ PostRecvFails(s) \/ EarlyClose(s)
  <2>1. /\ Minds(s) /\ Closesocket({cur[s].sock}) /\ UNCHANGED <<cur, stage, replies>>
        /\ \/ pc' = [pc EXCEPT ![s] = "replenish"]
           \/ pc[s] = "early" /\ pc' = [pc EXCEPT ![s] = "finish"]
    BY <1>3 DEF AcceptError, AttachFails, PostRecvFails, EarlyClose, Minds
  <2>2. /\ \A h \in Handles : htab'[h] = IF h = cur[s].sock THEN None ELSE htab[h]
        /\ \A i \in Ids : ops'[i] = ops[i]
    BY <2>1, ClosesOwn
  <2> DEFINE x == stage[cur[s].conn]
  <2>3. PICK l \in {"replenish", "finish"} : /\ \A t \in Servers : pc'[t] = IF t = s THEN l ELSE pc[t]
                                             /\ l = "finish" => pc[s] = "early"
    BY <1>1, <2>1
  <2>4. l = "finish" => x = "data"
    BY <2>3 DEF Sound, StageInv
  <2>5. \A c \in Conns : stage'[c] = IF c = cur[s].conn THEN x ELSE stage[c]
    BY <2>1
  <2>6. RepliesToAsker'
    BY <2>1 DEF Sound, RepliesToAsker
  <2> HIDE DEF x
  <2>7. GoesTo(s, l, x, TRUE)
    BY <1>2, <2>1, <2>2, <2>3, <2>4, <2>5 DEF GoesTo
  <2> QED
    BY <2>1, <2>6, <2>7, GoesOn
<1>4. CASE Attach(s)
  <2>1. /\ Minds(s) /\ UNCHANGED <<cur, htab, ops, replies>>
        /\ pc[s] = "accepted" /\ cur[s].res = "ok"
        /\ pc' = [pc EXCEPT ![s] = "recv"]
        /\ \A c \in Conns : stage'[c] = IF c = cur[s].conn THEN "connect" ELSE stage[c]
    BY <1>4 DEF Attach, Minds, Fire
  <2>2. \A t \in Servers : pc'[t] = IF t = s THEN "recv" ELSE pc[t]
    BY <1>1, <2>1
  <2>3. RepliesToAsker'
    BY <2>1 DEF Sound, RepliesToAsker
  <2>4. GoesTo(s, "recv", "connect", FALSE)
    BY <1>2, <2>1, <2>2 DEF GoesTo
  <2> QED
    BY <2>1, <2>3, <2>4, GoesOn
<1>5. CASE DataCallback(s)
  <2>1. /\ Minds(s) /\ UNCHANGED <<cur, htab, ops>>
        /\ pc[s] = "received"
        /\ \A c \in Conns : stage'[c] = IF c = cur[s].conn THEN "data" ELSE stage[c]
    BY <1>5 DEF DataCallback, Minds, Fire
  <2>2. PICK l \in {"finish", "early"} :
          /\ \A t \in Servers : pc'[t] = IF t = s THEN l ELSE pc[t]
          /\ l = "early" => s \in EarlyClosers
    BY <1>1, <1>5 DEF DataCallback
  <2>3. RepliesToAsker'
    <3>1. htab[cur[s].sock] = cur[s].conn
      <4>1. htab[cur[s].sock] = Named(cur[s])
        BY <2>1 DEF Sound, LoopOwn
      <4> QED
        BY <2>1, <4>1, Basics DEF Named
    <3>2. \A r \in replies' : \/ r \in replies
                              \/ r \in {cur[s].conn} \X {cur[s].conn}
      BY <1>5, <3>1 DEF DataCallback
    <3> QED
      BY <3>2 DEF Sound, RepliesToAsker
  <2>4. GoesTo(s, l, "data", FALSE)
    BY <1>2, <2>1, <2>2 DEF GoesTo
  <2> QED
    BY <2>1, <2>3, <2>4, GoesOn
<1>6. CASE HangUp(s) \/ Finish(s)
  <2>1. /\ Minds(s) /\ Closesocket({cur[s].sock}) /\ UNCHANGED replies
        /\ pc' = [pc EXCEPT ![s] = "call"]
        /\ cur' = [cur EXCEPT ![s] = None]
        /\ \A c \in Conns : stage'[c] = IF c = cur[s].conn THEN "disconnect" ELSE stage[c]
    BY <1>6 DEF HangUp, Finish, Minds, Fire
  <2>2. \A t \in Servers : /\ pc'[t] = IF t = s THEN "call" ELSE pc[t]
                           /\ t # s => cur'[t] = cur[t]
    BY <1>1, <2>1
  <2>3. RepliesToAsker'
    BY <2>1 DEF Sound, RepliesToAsker
  <2>4. /\ \A h \in Handles : htab'[h] = IF h = cur[s].sock THEN None ELSE htab[h]
        /\ \A i \in Ids : ops'[i] = ops[i]
    BY <2>1, ClosesOwn
  <2>5. GoesTo(s, "call", "disconnect", TRUE)
    BY <1>2, <2>1, <2>2, <2>4 DEF GoesTo
  <2> QED
    BY <2>1, <2>3, <2>5, GoesOn
<1> QED
  BY <1>3, <1>4, <1>5, <1>6

LEMMA SoundStep ==
  ASSUME SoleLoop, IInv, ~swept => Sound, [Next]_vars, ~swept'
  PROVE  Sound'
<1>1. Sound
  <2>1. ~swept
    BY DEF Next, Loop, Start, StartFails, PostInitial, PostInitialFails, Gqcs, Take,
           TimedOut, Sweep, NoSweep, AcceptError, Attach, AttachFails, PostRecv,
           PostRecvFails, Replenish, ReplenishFails, HangUp, DataCallback, EarlyClose,
           Finish, Kernel, KernelAccept, KernelReset, KernelAbort, KernelRecv,
           ClientConnect, ClientSend, ClientClose, Tick, historyVars, vars
  <2> QED
    BY <2>1
<1>2. ASSUME NEW s \in Servers, Loop(s) PROVE Sound'
  BY <1>1, <1>2, QuietIsSound, PostsAreSound, MindsSteps, PostRecvIsSound, TakeIsSound DEF Loop
<1>3. CASE Kernel
  BY <1>1, <1>3, KernelIsSound
<1>4. CASE \/ \E c \in Conns, s \in Servers : ClientConnect(c, s)
           \/ \E c \in Conns : ClientSend(c) \/ ClientClose(c)
           \/ Tick \/ UNCHANGED vars
  <2>1. UNCHANGED <<htab, ops, cur, pc, stage, replies>>
    BY <1>4 DEF ClientConnect, ClientSend, ClientClose, Tick, vars, kernelVars, loopVars,
                historyVars
  <2>2. \A c \in Conns : phase'[c] # "accepted" <=> phase[c] # "accepted"
    <3>1. phase \in [Conns -> {"new", "backlog", "accepted", "dropped"}]
      BY DEF IInv, TypeOK
    <3>2. \/ UNCHANGED phase
          \/ \E c \in Conns : phase[c] = "new" /\ phase' = [phase EXCEPT ![c] = "backlog"]
      BY <1>4 DEF ClientConnect, ClientSend, ClientClose, Tick, vars, clientVars
    <3> QED
      BY <3>1, <3>2
  <2> QED
    BY <1>1, <2>1, <2>2, StaysSound DEF Minds
<1> QED
  BY <1>2, <1>3, <1>4 DEF Next

LEMMA SoundStarts == Init => Sound
<1> SUFFICES ASSUME Init PROVE Sound
  OBVIOUS
<1>1. /\ \A h \in Handles : htab[h] = None
      /\ \A i \in Ids : ops[i] = None
      /\ \A s \in Servers : pc[s] = "start"
      /\ \A c \in Conns : stage[c] = "none"
      /\ replies = {}
  BY DEF Init
<1> QED
  BY <1>1, IocpAssumption
     DEF Sound, NameInv, OpOwn, LoopOwn, Minds, StageInv, RepliesToAsker

LEMMA SoundInvariant ==
  ASSUME SoleLoop
  PROVE  Spec => [](IInv /\ (~swept => Sound))
<1>1. Init => IInv /\ (~swept => Sound)
  BY Starts, SoundStarts
<1>2. IInv /\ (~swept => Sound) /\ [Next]_vars => (IInv /\ (~swept => Sound))'
  BY Step, SoundStep
<1> QED
  BY <1>1, <1>2, PTL DEF Spec

(* With one loop, or with callbacks that never close: until a sweep has    *)
(* closed something, a completion finds its own connection (or nothing)    *)
(* behind the handle, no accept loses its socket, and answers go to who    *)
(* asked.                                                                  *)
THEOREM SoundBeforeAnySweep ==
  ASSUME SoleLoop
  PROVE  Spec => []SoundUntilSwept
<1>1. IInv /\ (~swept => Sound) => SoundUntilSwept
  <2> SUFFICES ASSUME IInv, Sound
               PROVE  /\ \A s \in Servers :
                           cur[s] # None /\ cur[s].kind = "recv"
                             => htab[cur[s].sock] \in {cur[s].conn, None}
                      /\ \A i \in Ids : ops[i] # None => ops[i].res # "doomed"
                      /\ RepliesToAsker
    BY DEF SoundUntilSwept
  <2>1. ASSUME NEW s \in Servers, cur[s] # None, cur[s].kind = "recv"
        PROVE  htab[cur[s].sock] \in {cur[s].conn, None}
    <3>1. pc[s] \in {"received", "early", "finish"} /\ cur[s].conn \in Conns
      BY <2>1 DEF IInv, HandInv
    <3>2. Minds(s)
      BY <3>1 DEF Minds
    <3> QED
      BY <3>1, <3>2, Basics DEF Sound, LoopOwn, Named
  <2> QED
    BY <2>1 DEF Sound, OpOwn
<1> QED
  BY <1>1, SoundInvariant, PTL

(* Until then, with as many accept slots as there may be, each connection  *)
(* has its callbacks in order: Connect, Data at most once, Disconnect at   *)
(* most once (the order tcp_test.go:12 states).                            *)
THEOREM InOrderBeforeAnySweep ==
  ASSUME SoleLoop
  PROVE  Spec => OrderUntilSwept
<1>1. ASSUME IInv, Sound, Next PROVE InOrder
  <2>1. UNCHANGED stage \/ \E s \in Servers : Attach(s) \/ DataCallback(s) \/ HangUp(s) \/ Finish(s)
    BY <1>1 DEF Next, Loop, Start, StartFails, PostInitial, PostInitialFails, Gqcs, Take,
           TimedOut, Sweep, NoSweep, AcceptError, AttachFails, PostRecv,
           PostRecvFails, Replenish, ReplenishFails, EarlyClose,
           Kernel, KernelAccept, KernelReset, KernelAbort, KernelRecv,
           ClientConnect, ClientSend, ClientClose, Tick, historyVars
  <2>2. ASSUME NEW s \in Servers, Attach(s) \/ DataCallback(s) \/ HangUp(s) \/ Finish(s)
        PROVE  \E x : /\ \A c \in Conns : stage'[c] = IF c = cur[s].conn THEN x ELSE stage[c]
                      /\ <<stage[cur[s].conn], x>> \in
                           {<<"none", "connect">>, <<"connect", "data">>,
                            <<"connect", "disconnect">>, <<"data", "disconnect">>}
    <3>1. /\ pc[s] = "accepted" /\ cur[s].res = "ok" => stage[cur[s].conn] = "none"
          /\ pc[s] = "received" => stage[cur[s].conn] = "connect"
          /\ pc[s] = "finish" => stage[cur[s].conn] = "data"
      BY <1>1 DEF Sound, StageInv
    <3>2. CASE Attach(s)
      BY <3>1, <3>2 DEF Attach, Goto, Fire
    <3>3. CASE DataCallback(s)
      BY <3>1, <3>3 DEF DataCallback, Goto, Fire
    <3>4. CASE HangUp(s)
      BY <3>1, <3>4 DEF HangUp, Goto, Fire
    <3>5. CASE Finish(s)
      BY <3>1, <3>5 DEF Finish, Goto, Fire
    <3> QED
      BY <2>2, <3>2, <3>3, <3>4, <3>5
  <2> QED
    BY <2>1, <2>2 DEF InOrder
<1>2. (IInv /\ (~swept => Sound)) /\ [Next]_vars => [~swept => InOrder]_vars
  BY <1>1
<1> QED
  BY <1>2, SoundInvariant, PTL DEF Spec, OrderUntilSwept
================================================================================
