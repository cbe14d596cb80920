------------------------- MODULE IoUringServer_proofs -------------------------
(***************************************************************************)
(* Theorems about IoUringServer, for any number of connections,            *)
(* descriptors and operations and any limits.                              *)
(***************************************************************************)
EXTENDS IoUringServer, FiniteSetTheorems, TLAPS

--------------------------------------------------------------------------------
(***************************************************************************)
(* The inductive invariant                                                 *)
(***************************************************************************)

(* The completions whose turn has not begun. *)
Live == {cq[k] : k \in {l \in DOMAIN cq : l = 1 => cur = None}}

(* A recv is submitted for a descriptor. *)
RecvHasFd == \A x \in sq : x.kind = "recv" => x.fd \in Fds

(* An id is in one place only: a ring, the hands of the kernel, or once in *)
(* the completions.                                                        *)
UniqueInv ==
  /\ \A x, y \in sq : x.id = y.id => x = y
  /\ \A x, y \in inflight : x.id = y.id => x = y
  /\ \A x \in sq, y \in inflight : x.id # y.id
  /\ \A k, l \in DOMAIN cq : cq[k].id = cq[l].id => k = l
  /\ \A k \in DOMAIN cq : \A x \in sq : cq[k].id # x.id
  /\ \A k \in DOMAIN cq : \A x \in inflight : cq[k].id # x.id

(* The completion e can be one of the operation op. *)
Fits(e, op) ==
  /\ op # None
  /\ e.res \in Fds => op.kind = "accept"
  /\ e.res = "bytes" => op.kind = "recv" /\ e.conn = op.conn

(* What the rings and the kernel hold is registered, as what it is, and    *)
(* nothing else is.  In flight, a recv holds the socket it was made for.   *)
RefInv ==
  /\ \A x \in sq : /\ opMap[x.id] # None
                   /\ opMap[x.id].kind = x.kind
                   /\ opMap[x.id].fd = x.fd
  /\ \A x \in inflight : /\ opMap[x.id] # None
                         /\ opMap[x.id].kind = x.kind
                         /\ opMap[x.id].conn = x.conn
  /\ \A e \in Live : Fits(e, opMap[e.id])
  /\ \A i \in Ids : opMap[i] # None =>
       \/ \E x \in sq : x.id = i
       \/ \E x \in inflight : x.id = i
       \/ \E e \in Live : e.id = i

(* One accept and one timeout are registered from the start on.            *)
KindInv ==
  /\ \A i, j \in Ids :
       opMap[i] # None /\ opMap[j] # None /\ opMap[i].kind = opMap[j].kind
         => i = j \/ opMap[i].kind = "recv"
  /\ pc = "start" => opMap = [i \in Ids |-> None] /\ cq = <<>>
  /\ pc \notin {"start", "returned"} =>
       Alive("accept") # {} /\ Alive("timeout") # {}
  /\ \A i \in Ids : opMap[i] # None =>
       IF opMap[i].kind = "recv"
         THEN opMap[i].fd \in Fds /\ opMap[i].conn \in Conns
         ELSE opMap[i].fd = None /\ opMap[i].conn = None

(* A recv is submitted together with the next accept, and by nothing else; *)
(* so that no connection is accepted before the kernel has taken it.       *)
SqInv ==
  /\ \A x \in sq : x.kind = "recv" => \E y \in sq : y.kind = "accept"
  /\ \A x, y \in sq : x.kind = y.kind => x = y

(* The recv whose callbacks are being fired. *)
CurInv ==
  /\ cur # None <=> pc \in {"early", "finish"}
  /\ cur # None =>
       /\ cur.kind = "recv" /\ cur.fd \in Fds /\ cur.conn \in Conns
       /\ phase[cur.conn] = "accepted"
       /\ stage[cur.conn] \in {"connect", "data"}
       /\ \A i \in Alive("recv") : opMap[i].conn # cur.conn

(* Each connection is at one point of its way: waiting, in the completion  *)
(* of an accept, in a recv, in the hand of the loop, or done.              *)
ConnInv ==
  /\ \A c \in Conns : phase[c] # "accepted" => stage[c] = "none"
  /\ \A e \in Live : e.res \in Fds =>
       /\ e.conn \in Conns
       /\ phase[e.conn] = "accepted"
       /\ stage[e.conn] = "none"
       /\ fdtab[e.res] \in {e.conn, None}
  /\ \A i \in Alive("recv") :
       phase[opMap[i].conn] = "accepted" /\ stage[opMap[i].conn] = "connect"
  /\ \A i, j \in Alive("recv") : opMap[i].conn = opMap[j].conn => i = j
  /\ \A x \in sq : x.kind = "recv" => fdtab[x.fd] \in {opMap[x.id].conn, None}

(* SoundUntilShut, for each of these points. *)
SoundInv ==
  shut = {} =>
    /\ \A r \in replies : r[1] = r[2]
    /\ \A e \in Live : e.res \in Fds => fdtab[e.res] = e.conn
    /\ \A i \in Alive("recv") :
         fdtab[opMap[i].fd] = opMap[i].conn /\ deadlines[opMap[i].fd] # None
    /\ cur # None => fdtab[cur.fd] = cur.conn

(* NoFdLeak, with the completions whose turn has begun left out. *)
HeldInv ==
  \A f \in Fds : fdtab[f] # None =>
     \/ \E e \in Live : e.res = f /\ e.conn = fdtab[f]
     \/ \E i \in Alive("recv") : opMap[i] = RecvOp(f, fdtab[f])
     \/ cur # None /\ cur.fd = f

IInv ==
  /\ TypeOK /\ RecvHasFd /\ UniqueInv /\ RefInv /\ KindInv
  /\ SqInv /\ CurInv /\ ConnInv /\ SoundInv /\ HeldInv

--------------------------------------------------------------------------------
(***************************************************************************)
(* Lemmas about the pieces of the loop                                     *)
(***************************************************************************)

(* Ids given to new operations are ids that nothing refers to any more. *)
LEMMA FreshIds ==
  ASSUME NEW old, HasIds(old)
  PROVE  /\ Id1(old) \in Fresh(old)
         /\ Id2(old) \in Fresh(old)
         /\ Id1(old) # Id2(old)
<1>1. PICK i \in Fresh(old), j \in Fresh(old) : i # j
  BY DEF HasIds
<1>2. Id1(old) \in Fresh(old)
  BY <1>1 DEF Id1
<1>3. \E k \in Fresh(old) \ {Id1(old)} : TRUE
  BY <1>1
<1>4. Id2(old) \in Fresh(old) \ {Id1(old)}
  BY <1>3 DEF Id2
<1> QED
  BY <1>2, <1>4

(* What it means for nothing to refer to an id. *)
LEMMA FreshMeans ==
  ASSUME NEW old, NEW i \in Fresh(old)
  PROVE  /\ i \in Ids
         /\ i # old => /\ opMap[i] = None
                       /\ \A x \in sq : x.id # i
                       /\ \A x \in inflight : x.id # i
                       /\ \A k \in DOMAIN cq : cq[k].id # i
BY DEF Fresh, Used, Referenced

(* Taking the first completion off the ring. *)
LEMMA Popped ==
  ASSUME NEW S, cq \in Seq(S), cq # <<>>, Pop
  PROVE  /\ Done \in S
         /\ cq' \in Seq(S)
         /\ 1 \in DOMAIN cq
         /\ \A k \in DOMAIN cq' : k + 1 \in DOMAIN cq /\ k + 1 # 1
                                    /\ k \in Nat /\ cq'[k] = cq[k + 1]
         /\ \A k \in DOMAIN cq : k # 1 =>
              k - 1 \in DOMAIN cq' /\ cq'[k - 1] = cq[k] /\ k \in Nat
BY DEF Pop, Done

(* Putting a completion on the ring. *)
LEMMA Appended ==
  ASSUME NEW S, cq \in Seq(S), NEW e \in S, cq' = Append(cq, e)
  PROVE  /\ cq' \in Seq(S)
         /\ cq' # <<>>
         /\ Len(cq) + 1 \notin DOMAIN cq
         /\ DOMAIN cq' = DOMAIN cq \cup {Len(cq) + 1}
         /\ \A k \in DOMAIN cq : cq'[k] = cq[k]
         /\ cq'[Len(cq) + 1] = e
OBVIOUS

(* When the first completion is taken off at once, when its turn begins,   *)
(* when its turn ends, and when another one comes in.                      *)
LEMMA LiveTaken ==
  ASSUME TypeOK, UniqueInv, cur = None, cur' = None, cq # <<>>, Pop
  PROVE  /\ Live' = Live \ {Done}
         /\ Done \in Live
         /\ Done \in Cqes
<1>1. /\ Done \in Cqes
      /\ 1 \in DOMAIN cq
      /\ \A k \in DOMAIN cq' : k + 1 \in DOMAIN cq /\ k + 1 # 1
                                 /\ k \in Nat /\ cq'[k] = cq[k + 1]
      /\ \A k \in DOMAIN cq : k # 1 =>
           k - 1 \in DOMAIN cq' /\ cq'[k - 1] = cq[k] /\ k \in Nat
  BY Popped DEF TypeOK
<1>2. Done = cq[1]
  BY DEF Done
<1>3. /\ Live = {cq[k] : k \in DOMAIN cq}
      /\ Live' = {cq'[k] : k \in DOMAIN cq'}
  BY DEF Live
<1>4. \A k \in DOMAIN cq : cq[k] = Done => k = 1
  BY <1>1, <1>2 DEF UniqueInv
<1> QED
  BY <1>1, <1>2, <1>3, <1>4

LEMMA LiveBegun ==
  ASSUME TypeOK, UniqueInv, cur = None, cur' # None, cq # <<>>, UNCHANGED cq
  PROVE  /\ Live' = Live \ {Done}
         /\ Done \in Live
         /\ Done \in Cqes
<1>1. /\ cq[1] \in Cqes
      /\ 1 \in DOMAIN cq
  BY DEF TypeOK
<1>2. /\ Live = {cq[k] : k \in DOMAIN cq}
      /\ Live' = {cq[k] : k \in DOMAIN cq \ {1}}
  BY DEF Live
<1>3. \A k \in DOMAIN cq : cq[k] = cq[1] => k = 1
  BY <1>1 DEF UniqueInv
<1> QED
  BY <1>1, <1>2, <1>3 DEF Done

LEMMA LiveEnded ==
  ASSUME TypeOK, cur # None, cur' = None, cq # <<>>, Pop
  PROVE  Live' = Live
<1>1. /\ 1 \in DOMAIN cq
      /\ \A k \in DOMAIN cq' : k + 1 \in DOMAIN cq /\ k + 1 # 1
                                 /\ k \in Nat /\ cq'[k] = cq[k + 1]
      /\ \A k \in DOMAIN cq : k # 1 =>
           k - 1 \in DOMAIN cq' /\ cq'[k - 1] = cq[k] /\ k \in Nat
  BY Popped DEF TypeOK
<1>2. /\ Live = {cq[k] : k \in DOMAIN cq \ {1}}
      /\ Live' = {cq'[k] : k \in DOMAIN cq'}
  BY DEF Live
<1> QED
  BY <1>1, <1>2

LEMMA LiveAdded ==
  ASSUME TypeOK, CurInv, UNCHANGED cur, NEW e \in Cqes, cq' = Append(cq, e)
  PROVE  Live' = Live \cup {e}
<1>1. /\ Len(cq) + 1 \notin DOMAIN cq
      /\ DOMAIN cq' = DOMAIN cq \cup {Len(cq) + 1}
      /\ \A k \in DOMAIN cq : cq'[k] = cq[k]
      /\ cq'[Len(cq) + 1] = e
  BY Appended DEF TypeOK
<1>2. Len(cq) + 1 = 1 => cur = None
  BY DEF TypeOK, CurInv
<1> QED
  BY <1>1, <1>2 DEF Live

--------------------------------------------------------------------------------
(* The variables keep their types: the inductive step. *)
LEMMA TypeStep == ASSUME TypeOK, RecvHasFd, [Next]_vars PROVE TypeOK'
<1> USE DEF clientVars, ringVars, loopVars, historyVars
<1>1. ASSUME NEW old, NEW new, Post(old, new),
             \A i \in DOMAIN new : i \in Ids /\ new[i] \in Ops
      PROVE  opMap' \in [Ids -> Ops \cup {None}] /\ sq' \in SUBSET Sqes
  BY <1>1 DEF TypeOK, Post, Ops, Sqes
<1>2. ASSUME NEW old, HasIds(old)
      PROVE  /\ \A op \in Ops : LET new == Just(Id1(old), op) IN
                  \A i \in DOMAIN new : i \in Ids /\ new[i] \in Ops
             /\ \A op1, op2 \in Ops : LET new == Pair(Id1(old), op1, Id2(old), op2) IN
                  \A i \in DOMAIN new : i \in Ids /\ new[i] \in Ops
  BY <1>2, FreshIds, FreshMeans DEF Just, Pair
<1>3. /\ AcceptOp \in Ops /\ TimeoutOp \in Ops
      /\ \A f \in Fds, c \in Conns \cup {None} : RecvOp(f, c) \in Ops
  BY DEF AcceptOp, TimeoutOp, RecvOp, Ops, Kinds
<1>4. IdleTimeout \in (-1..IdleTimeout) \cup {None}
  BY IoUringAssumption
<1>5. CASE Start
  <2>1. opMap' \in [Ids -> Ops \cup {None}] /\ sq' \in SUBSET Sqes
    BY <1>1, <1>2, <1>3, <1>5 DEF Start
  <2> QED
    BY <1>5, <2>1 DEF Start, TypeOK
<1>6. CASE StartFails \/ EnterFails \/ Drained \/ Returned \/ UNCHANGED vars
  BY <1>6 DEF StartFails, EnterFails, Drained, Returned, vars, TypeOK
<1>7. CASE Enter
  <2>1. inflight' \in SUBSET Flights
    BY <1>7 DEF Enter, TypeOK, RecvHasFd, Submitted, Flights, Sqes, Kinds
  <2>2. cq' \in Seq(Cqes)
    <3>1. ASSUME NEW x \in sq
          PROVE  [id |-> x.id, res |-> "nothing", conn |-> None] \in Cqes
      BY DEF TypeOK, Sqes, Cqes
    <3> QED
      BY <1>7, <3>1, Appended DEF Enter, TypeOK, Submitted
  <2>3. sq' \in SUBSET Sqes /\ timer' \in 0..SweepTick
    BY <1>7, IoUringAssumption DEF Enter, TypeOK
  <2> QED
    BY <1>7, <2>1, <2>2, <2>3 DEF Enter, TypeOK
<1>8. CASE AcceptDone
  <2>1. Done \in Cqes /\ cq' \in Seq(Cqes)
    BY <1>8, Popped DEF AcceptDone, Handling, TypeOK
  <2>2. Done.conn \in Conns \cup {None} /\ Done.res \in Fds
    BY <1>8, <2>1 DEF AcceptDone, Cqes
  <2>3. opMap' \in [Ids -> Ops \cup {None}] /\ sq' \in SUBSET Sqes
    BY <1>1, <1>2, <1>3, <1>8, <2>2 DEF AcceptDone
  <2> QED
    BY <1>8, <1>4, <2>1, <2>2, <2>3
       DEF AcceptDone, Handling, TypeOK, Fire, Watch
<1>9. CASE AcceptError
  <2>1. cq' \in Seq(Cqes)
    BY <1>9, Popped DEF AcceptError, Handling, TypeOK
  <2>3. opMap' \in [Ids -> Ops \cup {None}] /\ sq' \in SUBSET Sqes
    BY <1>1, <1>2, <1>3, <1>9 DEF AcceptError
  <2> QED
    BY <1>9, <2>1, <2>3 DEF AcceptError, Handling, TypeOK
<1>10. CASE TimerDone
  <2>1. cq' \in Seq(Cqes)
    BY <1>10, Popped DEF TimerDone, Handling, TypeOK
  <2>3. opMap' \in [Ids -> Ops \cup {None}] /\ sq' \in SUBSET Sqes
    BY <1>1, <1>2, <1>3, <1>10 DEF TimerDone
  <2> QED
    BY <1>10, <2>1, <2>3 DEF TimerDone, Handling, TypeOK, Close, Forget
<1>11. CASE RecvNothing \/ RecvBytes
  <2>1. Done \in Cqes
    BY <1>11 DEF RecvNothing, RecvBytes, Handling, TypeOK, Done
  <2>2. Op \in Ops
    BY <1>11, <2>1 DEF RecvNothing, RecvBytes, Handling, TypeOK, Op, Cqes
  <2>3. opMap' \in [Ids -> Ops \cup {None}] /\ sq' \in SUBSET Sqes
    BY <1>1, <1>11 DEF RecvNothing, RecvBytes, Nothing
  <2>4. Op # None
    BY <1>11 DEF RecvNothing, RecvBytes, Handling
  <2>5. replies' \in SUBSET (Conns \X Conns)
    BY <1>11 DEF RecvNothing, RecvBytes, TypeOK, Answer
  <2> QED
    BY <1>11, <2>2, <2>3, <2>4, <2>5
       DEF RecvNothing, RecvBytes, Handling, TypeOK, Forget, Fire
<1>12. CASE EarlyClose
  BY <1>12 DEF EarlyClose, TypeOK, Close
<1>13. CASE Finish
  <2>1. cq' \in Seq(Cqes)
    BY <1>13, Popped DEF Finish, TypeOK
  <2> QED
    BY <1>13, <2>1 DEF Finish, TypeOK, Close, Fire
<1>14. ASSUME NEW x \in inflight, NEW r \in Fds \cup {"bytes", "nothing"},
              NEW c \in Conns \cup {None}, Complete(x, r, c)
       PROVE  /\ inflight' \in SUBSET Flights
              /\ cq' \in Seq(Cqes) /\ cq' # <<>>
  <2>1. [id |-> x.id, res |-> r, conn |-> c] \in Cqes
    BY DEF TypeOK, Flights, Cqes
  <2> QED
    BY <1>14, <2>1, Appended DEF Complete, TypeOK
<1>15. ASSUME NEW c \in Conns, NEW f \in Fds, KernelAccept(c, f)
       PROVE  TypeOK'
  <2>1. /\ inflight' \in SUBSET Flights
        /\ cq' \in Seq(Cqes) /\ cq' # <<>>
    BY <1>14, <1>15 DEF KernelAccept
  <2> QED
    BY <1>15, <2>1 DEF KernelAccept, TypeOK
<1>16. ASSUME \/ KernelAcceptFails \/ KernelTimeout
              \/ \E c \in Conns : KernelRecv(c)
       PROVE  TypeOK'
  <2>1. /\ inflight' \in SUBSET Flights
        /\ cq' \in Seq(Cqes) /\ cq' # <<>>
    BY <1>14, <1>16 DEF KernelAcceptFails, KernelTimeout, KernelRecv
  <2> QED
    BY <1>16, <2>1 DEF KernelAcceptFails, KernelTimeout, KernelRecv, TypeOK
<1>17. ASSUME NEW c \in Conns,
              ClientConnect(c) \/ ClientSend(c) \/ ClientClose(c)
       PROVE  TypeOK'
  BY <1>17 DEF ClientConnect, ClientSend, ClientClose, TypeOK
<1>18. CASE Tick
  <2>1. deadlines' \in [Fds -> (-1..IdleTimeout) \cup {None}]
    <3>1. SUFFICES ASSUME NEW f \in Fds
                   PROVE  (IF deadlines[f] \in {None, -1}
                             THEN deadlines[f] ELSE deadlines[f] - 1)
                            \in (-1..IdleTimeout) \cup {None}
      BY <1>18 DEF Tick
    <3>2. deadlines[f] \in (-1..IdleTimeout) \cup {None}
      BY DEF TypeOK
    <3> QED
      BY <3>2, IoUringAssumption
  <2>2. timer' \in 0..SweepTick
    BY <1>18, IoUringAssumption DEF Tick, TypeOK
  <2> QED
    BY <1>18, <2>1, <2>2 DEF Tick, TypeOK
<1> QED
  BY <1>5, <1>6, <1>7, <1>8, <1>9, <1>10, <1>11, <1>12, <1>13, <1>15, <1>16,
     <1>17, <1>18 DEF Next, Loop, Kernel

--------------------------------------------------------------------------------
(***************************************************************************)
(* The ids, under the three things that happen to operations: their turn   *)
(* in the loop, their completion, their submission                         *)
(***************************************************************************)

(* A completion waiting for its turn has an id of its own. *)
LEMMA LiveIds ==
  ASSUME TypeOK, UniqueInv, NEW e \in Live
  PROVE  /\ e \in Cqes
         /\ e.id \in Ids
         /\ \A x \in sq : x.id # e.id
         /\ \A x \in inflight : x.id # e.id
         /\ \A d \in Live : d.id = e.id => d = e
<1>1. PICK k \in DOMAIN cq : cq[k] = e
  BY DEF Live
<1>2. e \in Cqes
  BY <1>1 DEF TypeOK
<1> QED
  BY <1>1, <1>2 DEF UniqueInv, Live, Cqes

(* A turn that ends in a post keeps ids apart. *)
LEMMA TurnUnique ==
  ASSUME TypeOK, UniqueInv, NEW new, cq # <<>>, Pop, Post(Done.id, new),
         UNCHANGED inflight, DOMAIN new \subseteq Fresh(Done.id)
  PROVE  UniqueInv'
<1>1. /\ Done = cq[1]
      /\ 1 \in DOMAIN cq
      /\ \A k \in DOMAIN cq' : k + 1 \in DOMAIN cq /\ k + 1 # 1
                                 /\ k \in Nat /\ cq'[k] = cq[k + 1]
  BY Popped DEF TypeOK, Done
<1>2. \A i \in DOMAIN new :
        /\ \A x \in sq : x.id # i
        /\ \A x \in inflight : x.id # i
        /\ \A k \in DOMAIN cq : k # 1 => cq[k].id # i
  <2> SUFFICES ASSUME NEW i \in DOMAIN new
               PROVE  /\ \A x \in sq : x.id # i
                      /\ \A x \in inflight : x.id # i
                      /\ \A k \in DOMAIN cq : k # 1 => cq[k].id # i
    OBVIOUS
  <2>1. CASE i = Done.id
    BY <1>1, <2>1 DEF UniqueInv
  <2>2. CASE i # Done.id
    BY <2>2, FreshMeans
  <2> QED
    BY <2>1, <2>2
<1>3. \A x \in sq' : x \in sq \/ (x.id \in DOMAIN new /\
        x = [id |-> x.id, kind |-> new[x.id].kind, fd |-> new[x.id].fd])
  BY DEF Post
<1>4. /\ \A x, y \in sq' : x.id = y.id => x = y
      /\ \A x \in sq', y \in inflight' : x.id # y.id
  BY <1>2, <1>3 DEF UniqueInv
<1>5. \A k, l \in DOMAIN cq' : cq'[k].id = cq'[l].id => k = l
  <2> SUFFICES ASSUME NEW k \in DOMAIN cq', NEW l \in DOMAIN cq',
                      cq'[k].id = cq'[l].id
               PROVE  k = l
    OBVIOUS
  <2>1. k + 1 = l + 1
    BY <1>1 DEF UniqueInv
  <2> QED
    BY <1>1, <2>1
<1>6. /\ \A k \in DOMAIN cq' : \A x \in sq' : cq'[k].id # x.id
      /\ \A k \in DOMAIN cq' : \A x \in inflight' : cq'[k].id # x.id
  BY <1>1, <1>2, <1>3 DEF UniqueInv
<1> QED
  BY <1>4, <1>5, <1>6 DEF UniqueInv

(* A turn keeps the registrations right. *)
LEMMA TurnRef ==
  ASSUME TypeOK, UniqueInv, RefInv, NEW new, Done \in Live,
         Live' = Live \ {Done}, Post(Done.id, new), UNCHANGED inflight,
         DOMAIN new \subseteq Fresh(Done.id), \A i \in DOMAIN new : new[i] # None
  PROVE  RefInv'
<1>1. /\ \A x \in sq : x.id # Done.id /\ x.id \notin DOMAIN new /\ x.id \in Ids
      /\ \A x \in inflight : x.id # Done.id /\ x.id \notin DOMAIN new /\ x.id \in Ids
      /\ \A e \in Live \ {Done} : e.id # Done.id /\ e.id \notin DOMAIN new /\ e.id \in Ids
  <2>1. /\ \A x \in sq : x.id # Done.id /\ x.id \in Ids
        /\ \A x \in inflight : x.id # Done.id /\ x.id \in Ids
        /\ \A e \in Live \ {Done} : e.id # Done.id /\ e.id \in Ids
    BY LiveIds DEF TypeOK, Sqes, Flights
  <2>2. \A e \in Live : \E k \in DOMAIN cq : cq[k] = e
    BY DEF Live
  <2> QED
    BY <2>1, <2>2, FreshMeans
<1>2. \A i \in Ids : opMap'[i] = IF i \in DOMAIN new THEN new[i]
                                 ELSE IF i = Done.id THEN None ELSE opMap[i]
  BY DEF Post
<1>3. DOMAIN new \subseteq Ids
  BY FreshMeans
<1>4. \A x \in sq' : /\ opMap'[x.id] # None
                     /\ opMap'[x.id].kind = x.kind
                     /\ opMap'[x.id].fd = x.fd
  BY <1>1, <1>2, <1>3 DEF Post, RefInv
<1>5. /\ \A x \in inflight' : /\ opMap'[x.id] # None
                              /\ opMap'[x.id].kind = x.kind
                              /\ opMap'[x.id].conn = x.conn
      /\ \A e \in Live' : Fits(e, opMap'[e.id])
  BY <1>1, <1>2 DEF RefInv
<1>6. \A i \in Ids : opMap'[i] # None =>
        \/ \E x \in sq' : x.id = i
        \/ \E x \in inflight' : x.id = i
        \/ \E e \in Live' : e.id = i
  <2> SUFFICES ASSUME NEW i \in Ids, opMap'[i] # None
               PROVE  \/ \E x \in sq' : x.id = i
                      \/ \E x \in inflight' : x.id = i
                      \/ \E e \in Live' : e.id = i
    OBVIOUS
  <2>1. CASE i \in DOMAIN new
    <3>1. [id |-> i, kind |-> new[i].kind, fd |-> new[i].fd] \in sq'
      BY <2>1 DEF Post
    <3> QED
      BY <3>1
  <2>2. CASE i \notin DOMAIN new
    <3>1. opMap[i] # None /\ i # Done.id
      BY <1>2, <2>2
    <3>2. sq \subseteq sq'
      BY DEF Post
    <3> QED
      BY <3>1, <3>2 DEF RefInv
  <2> QED
    BY <2>1, <2>2
<1> QED
  BY <1>4, <1>5, <1>6 DEF RefInv

(* So does the completion of an operation in flight. *)
LEMMA Completed ==
  ASSUME TypeOK, UniqueInv, RefInv, CurInv, NEW x \in inflight,
         NEW r \in Fds \cup {"bytes", "nothing"}, NEW c \in Conns \cup {None},
         Complete(x, r, c), UNCHANGED <<sq, opMap, cur>>,
         r \in Fds => x.kind = "accept",
         r = "bytes" => x.kind = "recv" /\ c = x.conn
  PROVE  /\ UniqueInv' /\ RefInv'
         /\ Live' = Live \cup {[id |-> x.id, res |-> r, conn |-> c]}
<1> DEFINE e == [id |-> x.id, res |-> r, conn |-> c]
<1>1. e \in Cqes /\ e.id = x.id /\ e.res = r /\ e.conn = c
  BY DEF TypeOK, Flights, Cqes
<1>2. cq' = Append(cq, e) /\ inflight' = inflight \ {x}
  BY DEF Complete
<1> HIDE DEF e
<1>3. /\ Len(cq) + 1 \notin DOMAIN cq
      /\ DOMAIN cq' = DOMAIN cq \cup {Len(cq) + 1}
      /\ \A k \in DOMAIN cq : cq'[k] = cq[k]
      /\ cq'[Len(cq) + 1] = e
  BY <1>1, <1>2, Appended DEF TypeOK
<1>4. Live' = Live \cup {e}
  BY <1>1, <1>2, LiveAdded
<1>5. UniqueInv'
  BY <1>1, <1>2, <1>3 DEF UniqueInv
<1>6. RefInv'
  <2>1. Fits(e, opMap[e.id])
    BY <1>1 DEF RefInv, Fits
  <2>2. \A d \in Live' : Fits(d, opMap'[d.id])
    BY <1>4, <2>1 DEF RefInv
  <2>3. \A i \in Ids : opMap'[i] # None =>
          \/ \E y \in sq' : y.id = i
          \/ \E y \in inflight' : y.id = i
          \/ \E d \in Live' : d.id = i
    BY <1>1, <1>2, <1>4 DEF RefInv
  <2> QED
    BY <1>2, <2>2, <2>3 DEF RefInv
<1> QED
  BY <1>4, <1>5, <1>6 DEF e

--------------------------------------------------------------------------------
(***************************************************************************)
(* Every action keeps the invariant                                        *)
(***************************************************************************)

(* The head of the ring, when its operation is to be handled. *)
LEMMA Turn ==
  ASSUME IInv, NEW kind, Handling(kind)
  PROVE  /\ pc = "drain" /\ cur = None /\ cq # <<>>
         /\ Done \in Live /\ Done \in Cqes /\ Done.id \in Ids
         /\ Op = opMap[Done.id] /\ Op # None /\ Op \in Ops /\ Op.kind = kind
         /\ Fits(Done, Op)
         /\ \A x \in sq : x.id # Done.id
<1>1. pc = "drain" /\ cur = None /\ cq # <<>>
  BY DEF Handling, IInv, CurInv
<1>2. Done \in Live
  BY <1>1 DEF Live, Done, IInv, TypeOK
<1>3. Done \in Cqes /\ Done.id \in Ids /\ \A x \in sq : x.id # Done.id
  BY <1>2, LiveIds DEF IInv
<1>4. Op = opMap[Done.id] /\ Op # None /\ Op.kind = kind
  BY DEF Handling, Op
<1>5. Op \in Ops
  BY <1>3, <1>4 DEF IInv, TypeOK
<1>6. Fits(Done, Op)
  BY <1>2, <1>4 DEF IInv, RefInv
<1> QED
  BY <1>1, <1>2, <1>3, <1>4, <1>5, <1>6

(* The loop takes the completion of an accept. *)
LEMMA AcceptDoneStep == ASSUME IInv, AcceptDone PROVE IInv'
<1> USE DEF clientVars, ringVars, loopVars, historyVars
<1> DEFINE old == Done.id
           f == Done.res
           c == Done.conn
           a == Id1(old)
           b == Id2(old)
           new == Pair(a, AcceptOp, b, RecvOp(f, c))
<1>1. /\ pc = "drain" /\ cur = None /\ cq # <<>>
      /\ Done \in Live /\ Done \in Cqes /\ old \in Ids
      /\ opMap[old] # None /\ opMap[old].kind = "accept"
      /\ \A x \in sq : x.id # old
  BY Turn DEF AcceptDone
<1>2. /\ f \in Fds /\ c \in Conns
      /\ phase[c] = "accepted" /\ stage[c] = "none" /\ fdtab[f] \in {c, None}
  BY <1>1 DEF AcceptDone, IInv, ConnInv
<1>3. /\ AcceptOp \in Ops /\ AcceptOp.kind = "accept"
      /\ AcceptOp.fd = None /\ AcceptOp.conn = None
      /\ RecvOp(f, c) \in Ops /\ RecvOp(f, c).kind = "recv"
      /\ RecvOp(f, c).fd = f /\ RecvOp(f, c).conn = c
      /\ AcceptOp # None /\ RecvOp(f, c) # None
  BY <1>2, NoneIsNoOp DEF AcceptOp, RecvOp, Ops, Kinds
<1>4. HasIds(old) /\ Post(old, new)
  BY DEF AcceptDone
<1>5. /\ a \in Fresh(old) /\ b \in Fresh(old) /\ a # b
      /\ a \in Ids /\ b \in Ids
      /\ \A i \in Ids : opMap'[i] = IF i = a THEN AcceptOp
                                    ELSE IF i = b THEN RecvOp(f, c)
                                    ELSE IF i = old THEN None ELSE opMap[i]
      /\ sq' = sq \cup {[id |-> a, kind |-> "accept", fd |-> None],
                        [id |-> b, kind |-> "recv", fd |-> f]}
      /\ DOMAIN new = {a, b} /\ \A i \in {a, b} : new[i] # None
  <2>1. a \in Fresh(old) /\ b \in Fresh(old) /\ a # b /\ a \in Ids /\ b \in Ids
    BY <1>4, FreshIds, FreshMeans
  <2>2. \A i \in Ids : opMap'[i] = IF i = a THEN AcceptOp
                                   ELSE IF i = b THEN RecvOp(f, c)
                                   ELSE IF i = old THEN None ELSE opMap[i]
    BY <1>4, <2>1 DEF Post, Pair
  <2>3. sq' = sq \cup {[id |-> a, kind |-> AcceptOp.kind, fd |-> AcceptOp.fd],
                       [id |-> b, kind |-> RecvOp(f, c).kind,
                        fd |-> RecvOp(f, c).fd]}
    BY <1>4, <2>1 DEF Post, Pair
  <2>4. DOMAIN new = {a, b} /\ \A i \in {a, b} : new[i] # None
    BY <1>3 DEF Pair
  <2> QED
    BY <1>3, <2>1, <2>2, <2>3, <2>4
<1>6. \A i \in {a, b} : i # old => opMap[i] = None
  BY <1>5, FreshMeans
<1>7. UniqueInv'
  BY <1>1, <1>4, <1>5, TurnUnique DEF AcceptDone, IInv
<1>8. Live' = Live \ {Done}
  BY <1>1, LiveTaken DEF AcceptDone, IInv
<1>9. RefInv'
  BY <1>1, <1>4, <1>5, <1>8, TurnRef DEF AcceptDone, IInv
<1>10. /\ stage' = [d \in Conns |-> IF d = c THEN "connect" ELSE stage[d]]
       /\ deadlines' = [deadlines EXCEPT ![f] = IdleTimeout]
       /\ UNCHANGED <<phase, fdtab, inflight, pc, cur, shut, replies>>
  BY DEF AcceptDone, Fire, Watch
<1>11. Done.res = f /\ Done.conn = c /\ Done.id = old
  OBVIOUS
<1> HIDE DEF old, f, c, a, b, new
<1>12. \A i \in Ids : opMap[i] # None /\ i # old =>
         i # a /\ i # b /\ opMap'[i] = opMap[i] /\ opMap[i].kind # "accept"
  BY <1>1, <1>5, <1>6 DEF IInv, KindInv
<1>13. sq = {} \/ \A x \in sq : x.kind = "timeout"
  <2>1. \A x \in sq : x.kind # "accept" /\ x.kind \in Kinds
    BY <1>1, <1>12 DEF IInv, RefInv, TypeOK, Sqes
  <2> QED
    BY <2>1 DEF IInv, SqInv, Kinds
<1>14. TypeOK'
  BY TypeStep DEF IInv, Next, Loop
<1>15. RecvHasFd' /\ SqInv'
  <2> DEFINE sa == [id |-> a, kind |-> "accept", fd |-> None]
             sb == [id |-> b, kind |-> "recv", fd |-> f]
  <2>1. /\ sa.kind = "accept" /\ sb.kind = "recv" /\ sb.fd = f
        /\ sq' = sq \cup {sa, sb}
    BY <1>5
  <2> HIDE DEF sa, sb
  <2>2. \A x \in sq' : x = sa \/ x = sb \/ (x \in sq /\ x.kind = "timeout")
    BY <1>13, <2>1
  <2>3. RecvHasFd'
    BY <1>2, <2>1, <2>2 DEF RecvHasFd
  <2>4. SqInv'
    BY <2>1, <2>2 DEF IInv, SqInv
  <2> QED
    BY <2>3, <2>4
<1>16. KindInv'
  <2>1. \A i, j \in Ids :
          opMap'[i] # None /\ opMap'[j] # None /\ opMap'[i].kind = opMap'[j].kind
            => i = j \/ opMap'[i].kind = "recv"
    BY <1>3, <1>5, <1>12 DEF IInv, KindInv
  <2>2. Alive("accept")' # {} /\ Alive("timeout")' # {}
    <3>1. PICK t \in Ids : opMap[t] # None /\ opMap[t].kind = "timeout"
      BY <1>1 DEF IInv, KindInv, Alive
    <3>2. opMap'[t] = opMap[t]
      BY <1>1, <1>12, <3>1
    <3> QED
      BY <1>3, <1>5, <3>1, <3>2 DEF Alive
  <2>3. \A i \in Ids : opMap'[i] # None =>
          IF opMap'[i].kind = "recv"
            THEN opMap'[i].fd \in Fds /\ opMap'[i].conn \in Conns
            ELSE opMap'[i].fd = None /\ opMap'[i].conn = None
    BY <1>2, <1>3, <1>5, <1>12 DEF IInv, KindInv
  <2> QED
    BY <1>1, <1>10, <2>1, <2>2, <2>3 DEF KindInv
<1>17. CurInv'
  BY <1>1, <1>10 DEF IInv, CurInv
<1>18. \A i \in Alive("recv")' : i = b \/ (i \in Alive("recv") /\ i # b
                                            /\ opMap'[i] = opMap[i])
  BY <1>3, <1>5, <1>12 DEF Alive
<1>19. b \in Alive("recv")' /\ opMap'[b] = RecvOp(f, c)
  BY <1>3, <1>5 DEF Alive
<1>20. \A i \in Alive("recv") : opMap[i].conn # c /\ opMap[i].conn \in Conns
                                  /\ i \in Alive("recv")' /\ opMap'[i] = opMap[i]
  BY <1>1, <1>2, <1>12 DEF IInv, ConnInv, KindInv, Alive
<1>21. \A e \in Live' : e \in Live /\ e.res \notin Fds
  <2> SUFFICES ASSUME NEW e \in Live', e.res \in Fds
               PROVE  FALSE
    BY <1>8
  <2>1. e \in Live /\ e # Done
    BY <1>8
  <2>2. e.id # old /\ e.id \in Ids
    BY <1>1, <1>11, <2>1, LiveIds DEF IInv
  <2>3. opMap[e.id] # None /\ opMap[e.id].kind = "accept"
    BY <2>1 DEF IInv, RefInv, Fits
  <2> QED
    BY <1>12, <2>2, <2>3
<1>22. ConnInv'
  <2>1. \A d \in Conns : phase'[d] # "accepted" => stage'[d] = "none"
    BY <1>2, <1>10 DEF IInv, ConnInv
  <2>2. \A i \in Alive("recv")' :
          phase'[opMap'[i].conn] = "accepted" /\ stage'[opMap'[i].conn] = "connect"
    BY <1>2, <1>3, <1>10, <1>18, <1>19, <1>20 DEF IInv, ConnInv
  <2>3. \A i, j \in Alive("recv")' : opMap'[i].conn = opMap'[j].conn => i = j
    BY <1>3, <1>18, <1>19, <1>20 DEF IInv, ConnInv
  <2>4. \A x \in sq' : x.kind = "recv" => fdtab'[x.fd] \in {opMap'[x.id].conn, None}
    BY <1>2, <1>3, <1>5, <1>10, <1>13
  <2> QED
    BY <1>21, <2>1, <2>2, <2>3, <2>4 DEF ConnInv
<1>23. SoundInv'
  <2> SUFFICES ASSUME shut = {}
               PROVE  /\ \A r \in replies : r[1] = r[2]
                      /\ \A i \in Alive("recv")' :
                           /\ fdtab[opMap'[i].fd] = opMap'[i].conn
                           /\ deadlines'[opMap'[i].fd] # None
    BY <1>1, <1>10, <1>21 DEF SoundInv
  <2>1. fdtab[f] = c
    BY <1>1, <1>2, <1>11 DEF IInv, SoundInv
  <2>2. deadlines'[f] # None
    BY <1>2, <1>10, IoUringAssumption DEF IInv, TypeOK
  <2>3. \A i \in Alive("recv") : opMap[i].fd \in Fds /\ opMap[i].fd # f
    BY <1>20, <2>1 DEF IInv, SoundInv, KindInv, Alive
  <2> QED
    BY <1>3, <1>10, <1>18, <1>19, <2>1, <2>2, <2>3 DEF IInv, SoundInv, TypeOK
<1>24. HeldInv'
  <2> SUFFICES ASSUME NEW g \in Fds, fdtab[g] # None
               PROVE  \E i \in Alive("recv")' : opMap'[i] = RecvOp(g, fdtab[g])
    BY <1>10 DEF HeldInv
  <2>1. CASE \E e \in Live : e.res = g /\ e.conn = fdtab[g]
    BY <1>8, <1>11, <1>19, <1>21, <2>1
  <2>2. CASE \E i \in Alive("recv") : opMap[i] = RecvOp(g, fdtab[g])
    BY <1>20, <2>2
  <2> QED
    BY <1>1, <2>1, <2>2 DEF IInv, HeldInv
<1> QED
  BY <1>7, <1>9, <1>14, <1>15, <1>16, <1>17, <1>22, <1>23, <1>24 DEF IInv

(* The loop takes the failure of an accept. *)
LEMMA AcceptErrorStep == ASSUME IInv, AcceptError PROVE IInv'
<1> USE DEF clientVars, ringVars, loopVars, historyVars
<1> DEFINE old == Done.id
           a == Id1(old)
           new == Just(a, AcceptOp)
<1>1. /\ pc = "drain" /\ cur = None /\ cq # <<>>
      /\ Done \in Live /\ Done \in Cqes /\ old \in Ids
      /\ opMap[old] # None /\ opMap[old].kind = "accept"
      /\ \A x \in sq : x.id # old
  BY Turn DEF AcceptError
<1>2. /\ AcceptOp \in Ops /\ AcceptOp.kind = "accept"
      /\ AcceptOp.fd = None /\ AcceptOp.conn = None /\ AcceptOp # None
  BY NoneIsNoOp DEF AcceptOp, Ops, Kinds
<1>3. HasIds(old) /\ Post(old, new)
  BY DEF AcceptError
<1>4. /\ a \in Fresh(old) /\ a \in Ids
      /\ \A i \in Ids : opMap'[i] = IF i = a THEN AcceptOp
                                    ELSE IF i = old THEN None ELSE opMap[i]
      /\ sq' = sq \cup {[id |-> a, kind |-> "accept", fd |-> None]}
      /\ DOMAIN new = {a} /\ \A i \in {a} : new[i] # None
  <2>1. a \in Fresh(old) /\ a \in Ids
    BY <1>3, FreshIds, FreshMeans
  <2>2. \A i \in Ids : opMap'[i] = IF i = a THEN AcceptOp
                                   ELSE IF i = old THEN None ELSE opMap[i]
    BY <1>3, <2>1 DEF Post, Just
  <2>3. sq' = sq \cup {[id |-> a, kind |-> AcceptOp.kind, fd |-> AcceptOp.fd]}
    BY <1>3, <2>1 DEF Post, Just
  <2>4. DOMAIN new = {a} /\ \A i \in {a} : new[i] # None
    BY <1>2 DEF Just
  <2> QED
    BY <1>2, <2>1, <2>2, <2>3, <2>4
<1>5. UniqueInv'
  BY <1>1, <1>3, <1>4, TurnUnique DEF AcceptError, IInv
<1>6. Live' = Live \ {Done}
  BY <1>1, LiveTaken DEF AcceptError, IInv
<1>7. RefInv'
  BY <1>1, <1>3, <1>4, <1>6, TurnRef DEF AcceptError, IInv
<1>8. \A i \in Ids : opMap[i] # None /\ i # old =>
        i # a /\ opMap'[i] = opMap[i] /\ opMap[i].kind # "accept"
  BY <1>1, <1>4, FreshMeans DEF IInv, KindInv
<1>9. Done.res \notin Fds /\ UNCHANGED <<phase, stage, fdtab, pc, cur, shut,
                                          replies, deadlines>>
  BY DEF AcceptError
<1> HIDE DEF old, a, new
<1>10. \A x \in sq : x.kind # "accept" /\ x.kind # "recv"
  BY <1>1, <1>8 DEF IInv, RefInv, TypeOK, Sqes, SqInv
<1>11. TypeOK'
  BY TypeStep DEF IInv, Next, Loop
<1>12. RecvHasFd' /\ SqInv'
  <2> DEFINE sa == [id |-> a, kind |-> "accept", fd |-> None]
  <2>1. sa.kind = "accept" /\ sq' = sq \cup {sa}
    BY <1>4
  <2> HIDE DEF sa
  <2> QED
    BY <1>10, <2>1 DEF IInv, RecvHasFd, SqInv
<1>13. Alive("recv")' = Alive("recv") /\ \A i \in Alive("recv") : opMap'[i] = opMap[i]
  BY <1>1, <1>2, <1>4, <1>8 DEF Alive
<1>14. KindInv'
  <2>1. \A i, j \in Ids :
          opMap'[i] # None /\ opMap'[j] # None /\ opMap'[i].kind = opMap'[j].kind
            => i = j \/ opMap'[i].kind = "recv"
    BY <1>2, <1>4, <1>8 DEF IInv, KindInv
  <2>2. Alive("accept")' # {} /\ Alive("timeout")' # {}
    <3>1. PICK t \in Ids : opMap[t] # None /\ opMap[t].kind = "timeout"
      BY <1>1 DEF IInv, KindInv, Alive
    <3>2. opMap'[t] = opMap[t]
      BY <1>1, <1>8, <3>1
    <3> QED
      BY <1>2, <1>4, <3>1, <3>2 DEF Alive
  <2>3. \A i \in Ids : opMap'[i] # None =>
          IF opMap'[i].kind = "recv"
            THEN opMap'[i].fd \in Fds /\ opMap'[i].conn \in Conns
            ELSE opMap'[i].fd = None /\ opMap'[i].conn = None
    BY <1>2, <1>4, <1>8 DEF IInv, KindInv
  <2> QED
    BY <1>1, <1>9, <2>1, <2>2, <2>3 DEF KindInv
<1>15. CurInv'
  BY <1>1, <1>9 DEF IInv, CurInv
<1>16. ConnInv'
  <2>1. \A x \in sq' : x.kind # "recv"
    BY <1>4, <1>10
  <2> QED
    BY <1>6, <1>9, <1>13, <2>1 DEF IInv, ConnInv
<1>17. SoundInv'
  BY <1>1, <1>6, <1>9, <1>13 DEF IInv, SoundInv
<1>18. HeldInv'
  BY <1>1, <1>6, <1>9, <1>13 DEF IInv, HeldInv
<1> QED
  BY <1>5, <1>7, <1>11, <1>12, <1>14, <1>15, <1>16, <1>17, <1>18 DEF IInv

(* The timer fires: what is past its deadline is closed. *)
LEMMA TimerDoneStep == ASSUME IInv, TimerDone PROVE IInv'
<1> USE DEF clientVars, ringVars, loopVars, historyVars
<1> DEFINE old == Done.id
           a == Id1(old)
           new == Just(a, TimeoutOp)
<1>1. /\ pc = "drain" /\ cur = None /\ cq # <<>>
      /\ Done \in Live /\ Done \in Cqes /\ old \in Ids
      /\ opMap[old] # None /\ opMap[old].kind = "timeout"
      /\ \A x \in sq : x.id # old
  BY Turn DEF TimerDone
<1>2. /\ TimeoutOp \in Ops /\ TimeoutOp.kind = "timeout"
      /\ TimeoutOp.fd = None /\ TimeoutOp.conn = None /\ TimeoutOp # None
  BY NoneIsNoOp DEF TimeoutOp, Ops, Kinds
<1>3. HasIds(old) /\ Post(old, new)
  BY DEF TimerDone
<1>4. /\ a \in Fresh(old) /\ a \in Ids
      /\ \A i \in Ids : opMap'[i] = IF i = a THEN TimeoutOp
                                    ELSE IF i = old THEN None ELSE opMap[i]
      /\ sq' = sq \cup {[id |-> a, kind |-> "timeout", fd |-> None]}
      /\ DOMAIN new = {a} /\ \A i \in {a} : new[i] # None
  <2>1. a \in Fresh(old) /\ a \in Ids
    BY <1>3, FreshIds, FreshMeans
  <2>2. \A i \in Ids : opMap'[i] = IF i = a THEN TimeoutOp
                                   ELSE IF i = old THEN None ELSE opMap[i]
    BY <1>3, <2>1 DEF Post, Just
  <2>3. sq' = sq \cup {[id |-> a, kind |-> TimeoutOp.kind, fd |-> TimeoutOp.fd]}
    BY <1>3, <2>1 DEF Post, Just
  <2>4. DOMAIN new = {a} /\ \A i \in {a} : new[i] # None
    BY <1>2 DEF Just
  <2> QED
    BY <1>2, <2>1, <2>2, <2>3, <2>4
<1>5. UniqueInv'
  BY <1>1, <1>3, <1>4, TurnUnique DEF TimerDone, IInv
<1>6. Live' = Live \ {Done}
  BY <1>1, LiveTaken DEF TimerDone, IInv
<1>7. RefInv'
  BY <1>1, <1>3, <1>4, <1>6, TurnRef DEF TimerDone, IInv
<1>8. \A i \in Ids : opMap[i] # None /\ i # old =>
        i # a /\ opMap'[i] = opMap[i] /\ opMap[i].kind # "timeout"
  BY <1>1, <1>4, FreshMeans DEF IInv, KindInv
<1>9. /\ fdtab' = [f \in Fds |-> IF f \in Expired THEN None ELSE fdtab[f]]
      /\ deadlines' = [f \in Fds |-> IF f \in Expired THEN None ELSE deadlines[f]]
      /\ shut' = shut \cup {c \in Conns : \E f \in Expired : fdtab[f] = c}
      /\ UNCHANGED <<phase, stage, pc, cur, replies>>
  BY DEF TimerDone, Close, Forget
<1> HIDE DEF old, a, new
<1>10. \A x \in sq : x.kind # "timeout"
  BY <1>1, <1>8 DEF IInv, RefInv, TypeOK, Sqes
<1>11. TypeOK'
  BY TypeStep DEF IInv, Next, Loop
<1> DEFINE sa == [id |-> a, kind |-> "timeout", fd |-> None]
<1>12. sa.kind = "timeout" /\ sq' = sq \cup {sa}
  BY <1>4
<1> HIDE DEF sa
<1>13. RecvHasFd' /\ SqInv'
  BY <1>10, <1>12 DEF IInv, RecvHasFd, SqInv
<1>14. Alive("recv")' = Alive("recv") /\ \A i \in Alive("recv") : opMap'[i] = opMap[i]
  BY <1>1, <1>2, <1>4, <1>8 DEF Alive
<1>15. KindInv'
  <2>1. \A i, j \in Ids :
          opMap'[i] # None /\ opMap'[j] # None /\ opMap'[i].kind = opMap'[j].kind
            => i = j \/ opMap'[i].kind = "recv"
    BY <1>2, <1>4, <1>8 DEF IInv, KindInv
  <2>2. Alive("accept")' # {} /\ Alive("timeout")' # {}
    <3>1. PICK t \in Ids : opMap[t] # None /\ opMap[t].kind = "accept"
      BY <1>1 DEF IInv, KindInv, Alive
    <3>2. opMap'[t] = opMap[t]
      BY <1>1, <1>8, <3>1
    <3> QED
      BY <1>2, <1>4, <3>1, <3>2 DEF Alive
  <2>3. \A i \in Ids : opMap'[i] # None =>
          IF opMap'[i].kind = "recv"
            THEN opMap'[i].fd \in Fds /\ opMap'[i].conn \in Conns
            ELSE opMap'[i].fd = None /\ opMap'[i].conn = None
    BY <1>2, <1>4, <1>8 DEF IInv, KindInv
  <2> QED
    BY <1>1, <1>9, <2>1, <2>2, <2>3 DEF KindInv
<1>16. CurInv'
  BY <1>1, <1>9 DEF IInv, CurInv
<1>17. \A f \in Fds : fdtab'[f] \in {fdtab[f], None}
  BY <1>9
<1>18. ConnInv'
  <2>1. \A x \in sq' : x.kind = "recv" => x \in sq /\ opMap'[x.id] = opMap[x.id]
                                            /\ x.fd \in Fds
    <3> SUFFICES ASSUME NEW x \in sq', x.kind = "recv"
                 PROVE  x \in sq /\ opMap'[x.id] = opMap[x.id] /\ x.fd \in Fds
      OBVIOUS
    <3>1. x \in sq
      BY <1>12
    <3>2. x.id \in Ids /\ opMap[x.id] # None /\ x.id # old
      BY <1>1, <3>1 DEF IInv, RefInv, TypeOK, Sqes
    <3> QED
      BY <1>8, <3>1, <3>2 DEF IInv, RecvHasFd
  <2>2. \A x \in sq' : x.kind = "recv" => fdtab'[x.fd] \in {opMap'[x.id].conn, None}
    BY <1>17, <2>1 DEF IInv, ConnInv
  <2>3. \A e \in Live' : e.res \in Fds =>
          e.conn \in Conns /\ fdtab'[e.res] \in {e.conn, None}
    BY <1>6, <1>17 DEF IInv, ConnInv
  <2> QED
    BY <1>6, <1>9, <1>14, <2>2, <2>3 DEF IInv, ConnInv
<1>19. SoundInv'
  <2> SUFFICES ASSUME shut' = {}
               PROVE  /\ \A r \in replies : r[1] = r[2]
                      /\ \A e \in Live' : e.res \in Fds => fdtab'[e.res] = e.conn
                      /\ \A i \in Alive("recv") :
                           /\ fdtab'[opMap[i].fd] = opMap[i].conn
                           /\ deadlines'[opMap[i].fd] # None
    BY <1>1, <1>9, <1>14 DEF SoundInv
  <2>1. shut = {} /\ \A f \in Expired : fdtab[f] \notin Conns
    BY <1>9
  <2>2. \A f \in Fds : fdtab[f] \in Conns => fdtab'[f] = fdtab[f]
                                               /\ deadlines'[f] = deadlines[f]
    BY <1>9, <2>1
  <2>3. \A e \in Live : e.res \in Fds => e.conn \in Conns /\ fdtab[e.res] = e.conn
    BY <2>1 DEF IInv, SoundInv, ConnInv
  <2>4. \A i \in Alive("recv") : /\ opMap[i].fd \in Fds
                                 /\ opMap[i].conn \in Conns
                                 /\ fdtab[opMap[i].fd] = opMap[i].conn
                                 /\ deadlines[opMap[i].fd] # None
    BY <2>1 DEF IInv, SoundInv, KindInv, Alive
  <2> QED
    BY <1>6, <2>1, <2>2, <2>3, <2>4 DEF IInv, SoundInv
<1>20. HeldInv'
  <2> SUFFICES ASSUME NEW g \in Fds, fdtab'[g] # None
               PROVE  \/ \E e \in Live' : e.res = g /\ e.conn = fdtab'[g]
                      \/ \E i \in Alive("recv") : opMap[i] = RecvOp(g, fdtab'[g])
    BY <1>14 DEF HeldInv
  <2>1. fdtab'[g] = fdtab[g]
    BY <1>17
  <2>2. Done.res \notin Fds
    BY <1>1 DEF IInv, RefInv, Fits, old
  <2> QED
    BY <1>1, <1>6, <2>1, <2>2 DEF IInv, HeldInv
<1> QED
  BY <1>5, <1>7, <1>11, <1>13, <1>15, <1>16, <1>18, <1>19, <1>20 DEF IInv

(* A recv comes back: its operation is unregistered and its callbacks      *)
(* start.                                                                  *)
LEMMA RecvStep == ASSUME IInv, RecvNothing \/ RecvBytes PROVE IInv'
<1> USE DEF clientVars, ringVars, loopVars, historyVars
<1> DEFINE old == Done.id
<1>1. /\ pc = "drain" /\ cur = None /\ cq # <<>>
      /\ Done \in Live /\ Done \in Cqes /\ old \in Ids
      /\ Op = opMap[old] /\ Op # None /\ Op \in Ops /\ Op.kind = "recv"
      /\ Fits(Done, Op)
      /\ \A x \in sq : x.id # old
  BY Turn DEF RecvNothing, RecvBytes
<1>2. /\ Post(old, Nothing) /\ cur' = Op /\ pc' \in {"early", "finish"}
      /\ deadlines' = [f \in Fds |-> IF f \in {Op.fd} THEN None ELSE deadlines[f]]
      /\ stage' \in {stage, [d \in Conns |-> IF d = Op.conn THEN "data" ELSE stage[d]]}
      /\ replies' \in {replies, replies \cup Answer(Op.conn, Op.fd)}
      /\ UNCHANGED <<phase, fdtab, inflight, cq, shut>>
  BY <1>1 DEF RecvNothing, RecvBytes, Forget, Fire, Fits
<1>3. sq' = sq /\ \A i \in Ids : opMap'[i] = IF i = old THEN None ELSE opMap[i]
  BY <1>2 DEF Post, Nothing
<1>4. UniqueInv'
  BY <1>2, <1>3 DEF IInv, UniqueInv
<1>5. Live' = Live \ {Done}
  BY <1>1, <1>2, LiveBegun DEF IInv
<1>6. RefInv'
  <2>1. DOMAIN Nothing = {}
    BY DEF Nothing
  <2> QED
    BY <1>1, <1>2, <1>5, <2>1, TurnRef DEF IInv
<1> HIDE DEF old
<1>7. TypeOK'
  BY TypeStep DEF IInv, Next, Loop
<1>8. RecvHasFd' /\ SqInv'
  BY <1>3 DEF IInv, RecvHasFd, SqInv
<1>9. /\ Op.fd \in Fds /\ Op.conn \in Conns /\ old \in Alive("recv")
      /\ phase[Op.conn] = "accepted" /\ stage[Op.conn] = "connect"
  BY <1>1 DEF IInv, KindInv, ConnInv, Alive
<1>10. Alive("recv")' = Alive("recv") \ {old}
  BY <1>3 DEF Alive
<1>11. \A i \in Alive("recv") \ {old} :
         /\ opMap'[i] = opMap[i]
         /\ opMap[i].conn \in Conns /\ opMap[i].conn # Op.conn
  BY <1>1, <1>3, <1>9 DEF IInv, ConnInv, KindInv, Alive
<1>12. KindInv'
  <2>1. Alive("accept")' = Alive("accept") /\ Alive("timeout")' = Alive("timeout")
    BY <1>1, <1>3 DEF Alive
  <2> QED
    BY <1>1, <1>2, <1>3, <2>1 DEF IInv, KindInv
<1>13. CurInv'
  BY <1>1, <1>2, <1>9, <1>10, <1>11 DEF IInv, CurInv, TypeOK
<1>14. \A d \in Conns : d # Op.conn => stage'[d] = stage[d]
  BY <1>2
<1>15. \A d \in Conns : stage[d] = "none" => stage'[d] = "none"
  BY <1>2, <1>9, <1>14
<1>16. ConnInv'
  <2>1. \A x \in sq : x.kind = "recv" => opMap'[x.id] = opMap[x.id]
    BY <1>1, <1>3 DEF IInv, TypeOK, Sqes
  <2>2. \A i \in Alive("recv")' :
          phase[opMap'[i].conn] = "accepted" /\ stage'[opMap'[i].conn] = "connect"
    BY <1>10, <1>11, <1>14 DEF IInv, ConnInv
  <2>3. \A i, j \in Alive("recv")' : opMap'[i].conn = opMap'[j].conn => i = j
    BY <1>10, <1>11 DEF IInv, ConnInv
  <2> QED
    BY <1>2, <1>3, <1>5, <1>15, <2>1, <2>2, <2>3 DEF IInv, ConnInv
<1>17. SoundInv'
  <2> SUFFICES ASSUME shut = {}
               PROVE  /\ \A r \in replies' : r[1] = r[2]
                      /\ \A i \in Alive("recv")' :
                           /\ fdtab[opMap'[i].fd] = opMap'[i].conn
                           /\ deadlines'[opMap'[i].fd] # None
                      /\ fdtab[Op.fd] = Op.conn
    BY <1>2, <1>5 DEF IInv, SoundInv
  <2>1. fdtab[Op.fd] = Op.conn
    BY <1>1, <1>9 DEF IInv, SoundInv
  <2>2. \A r \in replies' : r[1] = r[2]
    BY <1>2, <2>1 DEF IInv, SoundInv, Answer
  <2>3. \A i \in Alive("recv") \ {old} :
          opMap[i].fd \in Fds /\ opMap[i].fd # Op.fd
    BY <1>11, <2>1 DEF IInv, SoundInv, KindInv, Alive
  <2> QED
    BY <1>2, <1>10, <1>11, <2>1, <2>2, <2>3 DEF IInv, SoundInv
<1>18. HeldInv'
  <2> SUFFICES ASSUME NEW g \in Fds, fdtab[g] # None
               PROVE  \/ \E e \in Live' : e.res = g /\ e.conn = fdtab[g]
                      \/ \E i \in Alive("recv")' : opMap'[i] = RecvOp(g, fdtab[g])
                      \/ Op # None /\ Op.fd = g
    BY <1>2 DEF HeldInv
  <2>1. Done.res \notin Fds
    BY <1>1 DEF Fits
  <2>2. CASE \E e \in Live : e.res = g /\ e.conn = fdtab[g]
    BY <1>5, <2>1, <2>2
  <2>3. CASE \E i \in Alive("recv") : opMap[i] = RecvOp(g, fdtab[g])
    BY <1>1, <1>10, <1>11, <2>3 DEF RecvOp
  <2> QED
    BY <1>1, <2>2, <2>3 DEF IInv, HeldInv
<1> QED
  BY <1>4, <1>6, <1>7, <1>8, <1>12, <1>13, <1>16, <1>17, <1>18 DEF IInv

(* The callback closes its connection. *)
LEMMA EarlyCloseStep == ASSUME IInv, EarlyClose PROVE IInv'
<1> USE DEF clientVars, ringVars, loopVars, historyVars
<1>1. /\ cur # None /\ cur.fd \in Fds /\ cur.conn \in Conns
      /\ pc' = "finish" /\ pc = "early"
      /\ fdtab' = [f \in Fds |-> IF f = cur.fd THEN None ELSE fdtab[f]]
      /\ shut' = shut \cup (Conns \cap {fdtab[cur.fd]})
      /\ UNCHANGED <<phase, sq, inflight, cq, opMap, deadlines, cur, stage, replies>>
  BY DEF EarlyClose, Close, IInv, CurInv
<1>2. Live' = Live /\ Alive("recv")' = Alive("recv")
      /\ Alive("accept")' = Alive("accept") /\ Alive("timeout")' = Alive("timeout")
  BY <1>1 DEF Live, Alive
<1>3. TypeOK'
  BY TypeStep DEF IInv, Next, Loop
<1>4. /\ RecvHasFd' /\ UniqueInv' /\ SqInv'
  BY <1>1 DEF IInv, RecvHasFd, UniqueInv, SqInv
<1>5. RefInv'
  BY <1>1, <1>2 DEF IInv, RefInv
<1>6. KindInv' /\ CurInv'
  BY <1>1, <1>2 DEF IInv, KindInv, CurInv
<1>7. ConnInv'
  BY <1>1, <1>2 DEF IInv, ConnInv, RecvHasFd
<1>8. SoundInv'
  <2>1. shut' = {} => FALSE
    BY <1>1 DEF IInv, SoundInv
  <2> QED
    BY <2>1 DEF SoundInv
<1>9. HeldInv'
  BY <1>1, <1>2 DEF IInv, HeldInv
<1> QED
  BY <1>3, <1>4, <1>5, <1>6, <1>7, <1>8, <1>9 DEF IInv

(* The last close of a connection. *)
LEMMA FinishStep == ASSUME IInv, Finish PROVE IInv'
<1> USE DEF clientVars, ringVars, loopVars, historyVars
<1>1. /\ cur # None /\ cur.fd \in Fds /\ cur.conn \in Conns
      /\ phase[cur.conn] = "accepted" /\ stage[cur.conn] # "none"
      /\ \A i \in Alive("recv") : opMap[i].conn # cur.conn
      /\ pc' = "drain" /\ pc = "finish" /\ cur' = None /\ cq # <<>> /\ Pop
      /\ fdtab' = [f \in Fds |-> IF f = cur.fd THEN None ELSE fdtab[f]]
      /\ stage' = [d \in Conns |-> IF d = cur.conn THEN "disconnect" ELSE stage[d]]
      /\ UNCHANGED <<phase, sq, inflight, opMap, deadlines, shut, replies>>
  BY DEF Finish, Close, Fire, IInv, CurInv, TypeOK
<1>2. Live' = Live /\ Alive("recv")' = Alive("recv")
      /\ Alive("accept")' = Alive("accept") /\ Alive("timeout")' = Alive("timeout")
  BY <1>1, LiveEnded DEF IInv, Alive
<1>3. TypeOK'
  BY TypeStep DEF IInv, Next, Loop
<1>4. /\ RecvHasFd' /\ SqInv'
  BY <1>1 DEF IInv, RecvHasFd, SqInv
<1>5. UniqueInv'
  <2>1. \A k \in DOMAIN cq' : k + 1 \in DOMAIN cq /\ k \in Nat /\ cq'[k] = cq[k + 1]
    BY <1>1, Popped DEF IInv, TypeOK
  <2>2. \A k, l \in DOMAIN cq' : cq'[k].id = cq'[l].id => k = l
    <3> SUFFICES ASSUME NEW k \in DOMAIN cq', NEW l \in DOMAIN cq',
                        cq'[k].id = cq'[l].id
                 PROVE  k = l
      OBVIOUS
    <3>1. k + 1 = l + 1
      BY <2>1 DEF IInv, UniqueInv
    <3> QED
      BY <2>1, <3>1
  <2> QED
    BY <1>1, <2>1, <2>2 DEF IInv, UniqueInv
<1>6. RefInv'
  BY <1>1, <1>2 DEF IInv, RefInv
<1>7. KindInv' /\ CurInv'
  BY <1>1, <1>2 DEF IInv, KindInv, CurInv
<1>8. ConnInv'
  <2>1. \A i \in Alive("recv") : opMap[i].conn \in Conns
    BY DEF IInv, KindInv, Alive
  <2> QED
    BY <1>1, <1>2, <2>1 DEF IInv, ConnInv, RecvHasFd
<1>9. SoundInv'
  <2> SUFFICES ASSUME shut = {}
               PROVE  /\ \A e \in Live : e.res \in Fds => fdtab'[e.res] = e.conn
                      /\ \A i \in Alive("recv") : fdtab'[opMap[i].fd] = opMap[i].conn
    BY <1>1, <1>2 DEF IInv, SoundInv
  <2>1. fdtab[cur.fd] = cur.conn
    BY <1>1 DEF IInv, SoundInv
  <2>2. \A e \in Live : e.res \in Fds => fdtab[e.res] = e.conn /\ e.conn # cur.conn
    BY <1>1 DEF IInv, SoundInv, ConnInv
  <2>3. \A i \in Alive("recv") :
          opMap[i].fd \in Fds /\ fdtab[opMap[i].fd] = opMap[i].conn
    BY DEF IInv, SoundInv, KindInv, Alive
  <2> QED
    BY <1>1, <2>1, <2>2, <2>3
<1>10. HeldInv'
  BY <1>1, <1>2 DEF IInv, HeldInv
<1> QED
  BY <1>3, <1>4, <1>5, <1>6, <1>7, <1>8, <1>9, <1>10 DEF IInv

(* The first accept and the first timeout. *)
LEMMA StartStep == ASSUME IInv, Start PROVE IInv'
<1> USE DEF clientVars, ringVars, loopVars, historyVars
<1> DEFINE a == Id1(None)
           b == Id2(None)
           sa == [id |-> a, kind |-> "accept", fd |-> None]
           sb == [id |-> b, kind |-> "timeout", fd |-> None]
<1>1. /\ opMap = [i \in Ids |-> None] /\ cq = <<>> /\ cur = None
      /\ sq = {} /\ inflight = {} /\ Live = {} /\ pc = "start"
  <2>1. /\ opMap = [i \in Ids |-> None] /\ cq = <<>> /\ cur = None
    BY DEF IInv, KindInv, CurInv, Start
  <2>2. sq = {} /\ inflight = {}
    BY <2>1 DEF IInv, RefInv, TypeOK, Sqes, Flights
  <2> QED
    BY <2>1, <2>2 DEF Live, Start
<1>2. /\ AcceptOp.kind = "accept" /\ AcceptOp.fd = None /\ AcceptOp.conn = None
      /\ TimeoutOp.kind = "timeout" /\ TimeoutOp.fd = None /\ TimeoutOp.conn = None
      /\ AcceptOp # None /\ TimeoutOp # None
  BY NoneIsNoOp DEF AcceptOp, TimeoutOp, Ops, Kinds
<1>3. /\ a # b /\ a \in Ids /\ b \in Ids
      /\ \A i \in Ids : opMap'[i] = IF i = a THEN AcceptOp
                                    ELSE IF i = b THEN TimeoutOp ELSE None
      /\ sq' = {sa, sb}
  <2>1. HasIds(None) /\ Post(None, Pair(a, AcceptOp, b, TimeoutOp))
    BY DEF Start
  <2>2. a # b /\ a \in Ids /\ b \in Ids
    BY <2>1, FreshIds, FreshMeans
  <2>3. sq' = {[id |-> a, kind |-> AcceptOp.kind, fd |-> AcceptOp.fd],
               [id |-> b, kind |-> TimeoutOp.kind, fd |-> TimeoutOp.fd]}
    BY <1>1, <2>1, <2>2 DEF Post, Pair
  <2>4. \A i \in Ids : opMap'[i] = IF i = a THEN AcceptOp
                                   ELSE IF i = b THEN TimeoutOp ELSE None
    BY <1>1, <2>1, <2>2 DEF Post, Pair
  <2> QED
    BY <1>2, <2>2, <2>3, <2>4
<1>4. /\ sa.id = a /\ sa.kind = "accept" /\ sa.fd = None
      /\ sb.id = b /\ sb.kind = "timeout" /\ sb.fd = None
  OBVIOUS
<1>5. /\ pc' = "enter"
      /\ UNCHANGED <<phase, fdtab, inflight, cq, cur, deadlines, stage, shut, replies>>
  BY DEF Start
<1> HIDE DEF a, b, sa, sb
<1>6. Live' = {} /\ Alive("recv") = {} /\ Alive("recv")' = {}
      /\ a \in Alive("accept")' /\ b \in Alive("timeout")'
  BY <1>1, <1>2, <1>3, <1>5 DEF Live, Alive
<1>7. TypeOK'
  BY TypeStep DEF IInv, Next, Loop
<1>8. RecvHasFd' /\ UniqueInv' /\ SqInv'
  BY <1>1, <1>3, <1>4, <1>5 DEF RecvHasFd, UniqueInv, SqInv
<1>9. RefInv'
  BY <1>1, <1>2, <1>3, <1>4, <1>5, <1>6 DEF RefInv
<1>10. KindInv' /\ CurInv'
  BY <1>1, <1>2, <1>3, <1>5, <1>6 DEF KindInv, CurInv
<1>11. ConnInv' /\ SoundInv' /\ HeldInv'
  BY <1>1, <1>3, <1>4, <1>5, <1>6 DEF IInv, ConnInv, SoundInv, HeldInv
<1> QED
  BY <1>7, <1>8, <1>9, <1>10, <1>11 DEF IInv

(* Steps of the loop that only move on. *)
LEMMA MoveOnStep ==
  ASSUME IInv, StartFails \/ EnterFails \/ Drained \/ Returned \/ UNCHANGED vars
  PROVE  IInv'
<1> USE DEF clientVars, ringVars, loopVars, historyVars
<1>1. /\ UNCHANGED <<phase, fdtab, sq, inflight, cq, opMap, deadlines, cur, stage,
                     shut, replies>>
      /\ pc' = pc \/ pc' = "returned" \/ (pc = "drain" /\ pc' = "enter")
      /\ pc' = pc \/ cur = None
  BY DEF StartFails, EnterFails, Drained, Returned, vars, IInv, CurInv
<1>2. Live' = Live /\ \A k : Alive(k)' = Alive(k)
  BY <1>1 DEF Live, Alive
<1>3. TypeOK'
  BY TypeStep DEF IInv, Next, Loop
<1>4. RecvHasFd' /\ UniqueInv' /\ SqInv'
  BY <1>1 DEF IInv, RecvHasFd, UniqueInv, SqInv
<1>5. RefInv'
  BY <1>1, <1>2 DEF IInv, RefInv
<1>6. KindInv'
  BY <1>1, <1>2 DEF IInv, KindInv
<1>7. CurInv'
  BY <1>1, <1>2 DEF IInv, CurInv
<1>8. ConnInv' /\ SoundInv' /\ HeldInv'
  BY <1>1, <1>2 DEF IInv, ConnInv, SoundInv, HeldInv
<1> QED
  BY <1>3, <1>4, <1>5, <1>6, <1>7, <1>8 DEF IInv

(* What clients do, and time going by. *)
LEMMA OutsideStep ==
  ASSUME IInv,
         \/ Tick
         \/ \E c \in Conns : ClientConnect(c) \/ ClientSend(c) \/ ClientClose(c)
  PROVE  IInv'
<1> USE DEF clientVars, ringVars, loopVars, historyVars
<1>1. /\ UNCHANGED <<fdtab, sq, inflight, cq, pc, opMap, cur, stage, shut, replies>>
      /\ \A c \in Conns : phase'[c] = "accepted" <=> phase[c] = "accepted"
  BY DEF Tick, ClientConnect, ClientSend, ClientClose, IInv, TypeOK
<1>2. \A f \in Fds : deadlines'[f] = None <=> deadlines[f] = None
  <2>1. CASE Tick
    <3> SUFFICES ASSUME NEW f \in Fds
                 PROVE  deadlines'[f] = None <=> deadlines[f] = None
      OBVIOUS
    <3>1. deadlines[f] # None => deadlines[f] - 1 # None
      BY IoUringAssumption DEF IInv, TypeOK
    <3> QED
      BY <2>1, <3>1 DEF Tick
  <2>2. CASE UNCHANGED deadlines
    BY <2>2
  <2> QED
    BY <2>1, <2>2 DEF ClientConnect, ClientSend, ClientClose
<1>3. Live' = Live /\ \A k : Alive(k)' = Alive(k)
  BY <1>1 DEF Live, Alive
<1>4. TypeOK'
  BY TypeStep DEF IInv, Next
<1>5. RecvHasFd' /\ UniqueInv' /\ SqInv'
  BY <1>1 DEF IInv, RecvHasFd, UniqueInv, SqInv
<1>6. RefInv' /\ KindInv'
  BY <1>1, <1>3 DEF IInv, RefInv, KindInv
<1>7. CurInv'
  BY <1>1, <1>3 DEF IInv, CurInv
<1>8. \A i \in Alive("recv") : opMap[i].conn \in Conns /\ opMap[i].fd \in Fds
  BY DEF IInv, KindInv, Alive
<1>9. ConnInv'
  BY <1>1, <1>3, <1>8 DEF IInv, ConnInv
<1>10. SoundInv' /\ HeldInv'
  BY <1>1, <1>2, <1>3, <1>8 DEF IInv, SoundInv, HeldInv
<1> QED
  BY <1>4, <1>5, <1>6, <1>7, <1>9, <1>10 DEF IInv

(* The kernel completes an operation with anything but a descriptor. *)
LEMMA CompletedStep ==
  ASSUME IInv, TypeOK', NEW x \in inflight, NEW r \in {"bytes", "nothing"},
         NEW c \in Conns \cup {None}, Complete(x, r, c),
         r = "bytes" => x.kind = "recv" /\ c = x.conn,
         UNCHANGED <<phase, fdtab, sq, pc, opMap, deadlines, cur, stage, shut, replies>>
  PROVE  IInv'
<1>1. r \notin Fds
  BY IoUringAssumption
<1> DEFINE e == [id |-> x.id, res |-> r, conn |-> c]
<1>2. UniqueInv' /\ RefInv' /\ Live' = Live \cup {e}
  BY <1>1, Completed DEF IInv
<1>3. e.res \notin Fds
  BY <1>1
<1> HIDE DEF e
<1>4. \A d \in Live' : d.res \in Fds => d \in Live
  BY <1>2, <1>3
<1>5. \A k : Alive(k)' = Alive(k)
  BY DEF Alive
<1>6. RecvHasFd' /\ SqInv'
  BY DEF IInv, RecvHasFd, SqInv
<1>7. KindInv' /\ CurInv'
  <2>1. pc # "start"
    BY DEF IInv, KindInv, RefInv, TypeOK, Flights
  <2> QED
    BY <1>5, <2>1 DEF IInv, KindInv, CurInv
<1>8. ConnInv' /\ SoundInv'
  BY <1>4, <1>5 DEF IInv, ConnInv, SoundInv
<1>9. HeldInv'
  BY <1>2, <1>5 DEF IInv, HeldInv
<1> QED
  BY <1>2, <1>6, <1>7, <1>8, <1>9 DEF IInv

(* The kernel: nothing to accept a client with, a recv that completes, the *)
(* timer.                                                                  *)
LEMMA KernelOtherStep ==
  ASSUME IInv, KernelAcceptFails \/ KernelTimeout \/ \E c \in Conns : KernelRecv(c)
  PROVE  IInv'
<1> USE DEF clientVars, ringVars, loopVars, historyVars
<1>1. TypeOK'
  BY TypeStep DEF IInv, Next, Kernel
<1>2. UNCHANGED <<phase, fdtab, sq, pc, opMap, deadlines, cur, stage, shut, replies>>
  BY DEF KernelAcceptFails, KernelTimeout, KernelRecv
<1>3. CASE KernelAcceptFails \/ KernelTimeout
  <2>1. PICK x \in inflight : Complete(x, "nothing", None)
    BY <1>3 DEF KernelAcceptFails, KernelTimeout
  <2> QED
    BY <1>1, <1>2, <2>1, CompletedStep
<1>4. ASSUME NEW c \in Conns, KernelRecv(c) PROVE IInv'
  <2>1. PICK x \in inflight : x.conn = c /\ (Complete(x, "bytes", c)
                                              \/ Complete(x, "nothing", c))
    BY <1>4 DEF KernelRecv
  <2>2. opMap[x.id] # None /\ opMap[x.id].kind = x.kind /\ opMap[x.id].conn = c
        /\ x.id \in Ids
    BY <2>1 DEF IInv, RefInv, TypeOK, Flights
  <2>3. x.kind = "recv"
    BY <2>2, IoUringAssumption DEF IInv, KindInv
  <2> QED
    BY <1>1, <1>2, <2>1, <2>3, CompletedStep
<1> QED
  BY <1>3, <1>4

(* The kernel accepts a client. *)
LEMMA KernelAcceptStep ==
  ASSUME IInv, NEW c \in Conns, NEW f \in Fds, KernelAccept(c, f)
  PROVE  IInv'
<1> USE DEF clientVars, ringVars, loopVars, historyVars
<1>1. PICK x \in inflight : x.kind = "accept" /\ Complete(x, f, c)
  BY DEF KernelAccept
<1>2. /\ phase[c] = "backlog" /\ fdtab[f] = None
      /\ fdtab' = [g \in Fds |-> IF g = f THEN c ELSE fdtab[g]]
      /\ phase' = [d \in Conns |-> IF d = c THEN "accepted" ELSE phase[d]]
      /\ UNCHANGED <<sq, pc, opMap, deadlines, cur, stage, shut, replies>>
  BY DEF KernelAccept, InBacklog, IInv, TypeOK
<1>3. TypeOK'
  BY TypeStep DEF IInv, Next, Kernel
<1> DEFINE e == [id |-> x.id, res |-> f, conn |-> c]
<1>4. UniqueInv' /\ RefInv' /\ Live' = Live \cup {e}
  BY <1>1, <1>2, IoUringAssumption, Completed DEF IInv
<1>5. e.res = f /\ e.conn = c
  OBVIOUS
<1> HIDE DEF e
<1>6. x.id \in Ids /\ opMap[x.id] # None /\ opMap[x.id].kind = "accept"
  BY <1>1 DEF IInv, RefInv, TypeOK, Flights
<1>7. \A i \in Ids : opMap[i] # None /\ opMap[i].kind = "accept" => i = x.id
  BY <1>6 DEF IInv, KindInv
<1>8. \A d \in Live : d.res \notin Fds
  <2> SUFFICES ASSUME NEW d \in Live, d.res \in Fds PROVE FALSE
    OBVIOUS
  <2>1. opMap[d.id] # None /\ opMap[d.id].kind = "accept"
    BY DEF IInv, RefInv, Fits
  <2>2. d.id \in Ids /\ d.id # x.id
    BY LiveIds DEF IInv
  <2> QED
    BY <1>7, <2>1, <2>2
<1>9. \A y \in sq : y.kind # "recv"
  <2>1. \A y \in sq : y.kind # "accept"
    <3> SUFFICES ASSUME NEW y \in sq, y.kind = "accept" PROVE FALSE
      OBVIOUS
    <3>1. y.id \in Ids /\ opMap[y.id] # None /\ opMap[y.id].kind = "accept"
      BY DEF IInv, RefInv, TypeOK, Sqes
    <3> QED
      BY <1>7, <3>1 DEF IInv, UniqueInv
  <2> QED
    BY <2>1 DEF IInv, SqInv
<1>10. \A k : Alive(k)' = Alive(k)
  BY <1>2 DEF Alive
<1>11. RecvHasFd' /\ SqInv'
  BY <1>2 DEF IInv, RecvHasFd, SqInv
<1>12. KindInv'
  <2>1. pc # "start"
    BY <1>6 DEF IInv, KindInv
  <2> QED
    BY <1>2, <1>10, <2>1 DEF IInv, KindInv
<1>13. CurInv'
  BY <1>2, <1>10 DEF IInv, CurInv
<1>14. \A i \in Alive("recv") : opMap[i].conn \in Conns /\ opMap[i].fd \in Fds
  BY DEF IInv, KindInv, Alive
<1>15. stage[c] = "none"
  BY <1>2 DEF IInv, ConnInv
<1>16. ConnInv'
  <2>1. \A d \in Conns : phase'[d] # "accepted" => stage'[d] = "none"
    BY <1>2 DEF IInv, ConnInv
  <2>2. \A d \in Live' : d.res \in Fds =>
          /\ d.conn \in Conns
          /\ phase'[d.conn] = "accepted"
          /\ stage'[d.conn] = "none"
          /\ fdtab'[d.res] \in {d.conn, None}
    BY <1>2, <1>4, <1>5, <1>8, <1>15
  <2>3. \A i \in Alive("recv") :
          phase'[opMap[i].conn] = "accepted" /\ stage[opMap[i].conn] = "connect"
    BY <1>2, <1>14 DEF IInv, ConnInv
  <2>4. \A i, j \in Alive("recv") : opMap[i].conn = opMap[j].conn => i = j
    BY DEF IInv, ConnInv
  <2> QED
    BY <1>2, <1>9, <1>10, <2>1, <2>2, <2>3, <2>4 DEF ConnInv
<1>17. SoundInv'
  <2> SUFFICES ASSUME shut = {}
               PROVE  /\ \A r \in replies : r[1] = r[2]
                      /\ \A d \in Live' : d.res \in Fds => fdtab'[d.res] = d.conn
                      /\ \A i \in Alive("recv") :
                           /\ fdtab'[opMap[i].fd] = opMap[i].conn
                           /\ deadlines[opMap[i].fd] # None
                      /\ cur # None => fdtab'[cur.fd] = cur.conn
    BY <1>2, <1>10 DEF SoundInv
  <2>1. \A i \in Alive("recv") : fdtab[opMap[i].fd] = opMap[i].conn /\ opMap[i].fd # f
    BY <1>2, <1>14, IoUringAssumption DEF IInv, SoundInv
  <2>2. cur # None => fdtab[cur.fd] = cur.conn /\ cur.fd # f /\ cur.fd \in Fds
    BY <1>2, IoUringAssumption DEF IInv, SoundInv, CurInv
  <2>3. \A d \in Live' : d.res \in Fds => fdtab'[d.res] = d.conn
    BY <1>2, <1>4, <1>5, <1>8
  <2> QED
    BY <1>2, <1>14, <2>1, <2>2, <2>3 DEF IInv, SoundInv
<1>18. HeldInv'
  <2> SUFFICES ASSUME NEW g \in Fds, fdtab'[g] # None
               PROVE  \/ \E d \in Live' : d.res = g /\ d.conn = fdtab'[g]
                      \/ \E i \in Alive("recv") : opMap[i] = RecvOp(g, fdtab'[g])
                      \/ cur # None /\ cur.fd = g
    BY <1>2, <1>10 DEF HeldInv
  <2>1. CASE g = f
    BY <1>2, <1>4, <1>5, <2>1
  <2>2. CASE g # f
    BY <1>2, <1>4, <2>2 DEF IInv, HeldInv
  <2> QED
    BY <2>1, <2>2
<1> QED
  BY <1>3, <1>4, <1>11, <1>12, <1>13, <1>16, <1>17, <1>18 DEF IInv

(* The kernel takes the submissions. *)
LEMMA EnterStep == ASSUME IInv, Enter PROVE IInv'
<1> USE DEF clientVars, ringVars, loopVars, historyVars
<1> DEFINE refused == {s \in sq : s.kind = "recv" /\ fdtab[s.fd] = None}
           taken == {[id |-> s.id, kind |-> s.kind,
                      conn |-> IF s.kind = "recv" THEN fdtab[s.fd] ELSE None] :
                       s \in sq \ refused}
           Eof(t) == [id |-> t.id, res |-> "nothing", conn |-> None]
<1>1. /\ pc = "enter" /\ pc' = "drain" /\ cur = None /\ sq' = {}
      /\ UNCHANGED <<phase, fdtab, opMap, deadlines, cur, stage, shut, replies>>
      /\ inflight' = inflight \cup taken
      /\ \/ refused = {} /\ cq' = cq
         \/ \E t \in refused : cq' = Append(cq, Eof(t))
  BY DEF Enter, Submitted, IInv, CurInv
<1>2. TypeOK'
  BY TypeStep DEF IInv, Next, Loop
<1>3. \A s \in sq : /\ s.id \in Ids /\ opMap[s.id] # None
                    /\ opMap[s.id].kind = s.kind /\ opMap[s.id].fd = s.fd
  BY DEF IInv, RefInv, TypeOK, Sqes
<1>4. \A s, t \in refused : s = t
  BY DEF IInv, SqInv
<1>5. \A x \in taken : \E s \in sq \ refused :
        x.id = s.id /\ x.kind = s.kind /\ x.conn = opMap[s.id].conn
  <2> SUFFICES ASSUME NEW s \in sq \ refused
               PROVE  (IF s.kind = "recv" THEN fdtab[s.fd] ELSE None) = opMap[s.id].conn
    OBVIOUS
  <2>1. CASE s.kind = "recv"
    BY <2>1 DEF IInv, ConnInv
  <2>2. CASE s.kind # "recv"
    BY <1>3, <2>2 DEF IInv, KindInv
  <2> QED
    BY <2>1, <2>2
<1>6. \A s \in sq \ refused : \E x \in taken : x.id = s.id
  <2> TAKE s \in sq \ refused
  <2> WITNESS [id |-> s.id, kind |-> s.kind,
               conn |-> IF s.kind = "recv" THEN fdtab[s.fd] ELSE None] \in taken
  <2> QED
    OBVIOUS
<1>7. refused \subseteq sq
  OBVIOUS
<1>8. \A t \in refused : Eof(t).id = t.id /\ Eof(t).res = "nothing" /\ Eof(t) \in Cqes
  BY DEF IInv, TypeOK, Sqes, Cqes
<1> HIDE DEF refused, taken, Eof
<1>9. /\ \A k \in DOMAIN cq' :
           \/ k \in DOMAIN cq /\ cq'[k] = cq[k]
           \/ /\ k = Len(cq) + 1 /\ k \notin DOMAIN cq
              /\ \E t \in refused : cq'[k].id = t.id
  <2>1. CASE cq' = cq
    BY <2>1
  <2>2. ASSUME NEW t \in refused, cq' = Append(cq, Eof(t))
        PROVE  <1>9!:
    BY <1>8, <2>2, Appended DEF IInv, TypeOK
  <2> QED
    BY <1>1, <2>1, <2>2
<1>10. /\ Live' = Live \cup {Eof(t) : t \in refused}
       /\ \A t \in refused : Eof(t).res \notin Fds /\ Eof(t).res # "bytes"
  <2>1. CASE refused = {} /\ cq' = cq
    BY <1>1, <2>1 DEF Live
  <2>2. ASSUME NEW t \in refused, cq' = Append(cq, Eof(t))
        PROVE  Live' = Live \cup {Eof(s) : s \in refused}
    <3>1. Live' = Live \cup {Eof(t)}
      BY <1>1, <1>8, <2>2, LiveAdded DEF IInv
    <3>2. refused = {t}
      BY <1>4
    <3> QED
      BY <3>1, <3>2
  <2>3. \A t \in refused : Eof(t).res \notin Fds /\ Eof(t).res # "bytes"
    BY <1>8, IoUringAssumption
  <2> QED
    BY <1>1, <2>1, <2>2, <2>3
<1>11. \A e \in Live' : e.res \in Fds => e \in Live
  BY <1>10
<1>12. \A k : Alive(k)' = Alive(k)
  BY <1>1 DEF Alive
<1>13. UniqueInv'
  <2>1. \A x, y \in inflight' : x.id = y.id => x = y
    <3>1. \A x, y \in taken : x.id = y.id => x = y
      BY DEF taken, IInv, UniqueInv
    <3>2. \A x \in inflight, y \in taken : x.id # y.id
      BY <1>5 DEF IInv, UniqueInv
    <3> QED
      BY <1>1, <3>1, <3>2 DEF IInv, UniqueInv
  <2>2. \A k, l \in DOMAIN cq' : cq'[k].id = cq'[l].id => k = l
    BY <1>7, <1>9 DEF IInv, UniqueInv
  <2>3. \A k \in DOMAIN cq' : \A x \in inflight' : cq'[k].id # x.id
    <3> SUFFICES ASSUME NEW k \in DOMAIN cq', NEW x \in inflight', cq'[k].id = x.id
                 PROVE  FALSE
      OBVIOUS
    <3>1. CASE x \in inflight
      BY <1>7, <1>9, <3>1 DEF IInv, UniqueInv
    <3>2. CASE x \in taken
      <4>1. PICK s \in sq \ refused : x.id = s.id
        BY <1>5, <3>2
      <4> QED
        BY <1>7, <1>9, <4>1 DEF IInv, UniqueInv
    <3> QED
      BY <1>1, <3>1, <3>2
  <2> QED
    BY <1>1, <2>1, <2>2, <2>3 DEF UniqueInv
<1>14. RefInv'
  <2>1. \A x \in inflight' : /\ opMap[x.id] # None
                             /\ opMap[x.id].kind = x.kind
                             /\ opMap[x.id].conn = x.conn
    BY <1>1, <1>3, <1>5 DEF IInv, RefInv
  <2>2. \A e \in Live' : Fits(e, opMap[e.id])
    BY <1>3, <1>7, <1>8, <1>10 DEF IInv, RefInv, Fits
  <2>3. \A i \in Ids : opMap[i] # None =>
          \/ \E x \in inflight' : x.id = i
          \/ \E e \in Live' : e.id = i
    BY <1>1, <1>6, <1>8, <1>10 DEF IInv, RefInv
  <2> QED
    BY <1>1, <2>1, <2>2, <2>3 DEF RefInv
<1>15. RecvHasFd' /\ SqInv'
  BY <1>1 DEF RecvHasFd, SqInv
<1>16. KindInv' /\ CurInv'
  BY <1>1, <1>12 DEF IInv, KindInv, CurInv
<1>17. ConnInv' /\ SoundInv'
  BY <1>1, <1>11, <1>12 DEF IInv, ConnInv, SoundInv
<1>18. HeldInv'
  BY <1>1, <1>10, <1>12 DEF IInv, HeldInv
<1> QED
  BY <1>2, <1>13, <1>14, <1>15, <1>16, <1>17, <1>18 DEF IInv

--------------------------------------------------------------------------------
(***************************************************************************)
(* The invariant of the specification                                      *)
(***************************************************************************)

LEMMA Invariant == Spec => []IInv
<1>1. Init => IInv
  <2> SUFFICES ASSUME Init PROVE IInv
    OBVIOUS
  <2>1. TypeOK
    BY IoUringAssumption DEF Init, TypeOK
  <2>2. Live = {} /\ \A k : Alive(k) = {}
    BY DEF Init, Live, Alive
  <2>3. RecvHasFd /\ UniqueInv /\ SqInv
    BY DEF Init, RecvHasFd, UniqueInv, SqInv
  <2>4. RefInv /\ KindInv /\ CurInv
    BY <2>2 DEF Init, RefInv, KindInv, CurInv
  <2>5. ConnInv /\ SoundInv /\ HeldInv
    BY <2>2 DEF Init, ConnInv, SoundInv, HeldInv
  <2> QED
    BY <2>1, <2>3, <2>4, <2>5 DEF IInv
<1>2. IInv /\ [Next]_vars => IInv'
  <2> SUFFICES ASSUME IInv, [Next]_vars PROVE IInv'
    OBVIOUS
  <2>1. CASE Loop
    BY <2>1, StartStep, MoveOnStep, EnterStep, AcceptDoneStep, AcceptErrorStep,
       TimerDoneStep, RecvStep, EarlyCloseStep, FinishStep DEF Loop
  <2>2. CASE Kernel
    BY <2>2, KernelAcceptStep, KernelOtherStep DEF Kernel
  <2> QED
    BY <2>1, <2>2, OutsideStep, MoveOnStep DEF Next
<1> QED
  BY <1>1, <1>2, PTL DEF Spec

--------------------------------------------------------------------------------
(***************************************************************************)
(* The properties of a run                                                 *)
(***************************************************************************)

(* Every variable keeps its type: no sweep, early close or reuse of an id  *)
(* or a descriptor drives the rings or the maps out of their types.        *)
THEOREM IoTypeCorrect == Spec => []TypeOK
<1>1. IInv => TypeOK
  BY DEF IInv
<1> QED
  BY <1>1, Invariant, PTL

(* opMap holds exactly the operations the rings and the kernel refer to,   *)
(* so that their buffers outlive them; and no id stands for two of them.   *)
THEOREM OpsOutliveTheirUse == Spec => []OpsArePinned
<1>1. ASSUME IInv PROVE OpsArePinned
  <2>1. \A i \in Ids :
          opMap[i] # None <=>
            \/ \E x \in sq \cup inflight : x.id = i /\ x.kind = opMap[i].kind
            \/ \E k \in DOMAIN cq : cq[k].id = i /\ (k = 1 => cur = None)
    <3> SUFFICES ASSUME NEW i \in Ids
                 PROVE  opMap[i] # None <=>
                          \/ \E x \in sq \cup inflight : x.id = i /\ x.kind = opMap[i].kind
                          \/ \E e \in Live : e.id = i
      BY DEF Live
    <3>1. /\ \A x \in sq \cup inflight : opMap[x.id] # None
                                           /\ opMap[x.id].kind = x.kind
          /\ \A e \in Live : opMap[e.id] # None
      BY <1>1 DEF IInv, RefInv, Fits
    <3>2. opMap[i] # None => \/ \E x \in sq \cup inflight : x.id = i
                             \/ \E e \in Live : e.id = i
      BY <1>1 DEF IInv, RefInv
    <3> QED
      BY <3>1, <3>2
  <2> QED
    BY <1>1, <2>1 DEF IInv, UniqueInv, OpsArePinned
<1> QED
  BY <1>1, Invariant, PTL

(* There is one accept and one timeout under way for as long as Run does   *)
(* not return: the loop never goes deaf and never misses its sweep.        *)
THEOREM NeverDeaf == Spec => []OneAcceptOneTimer
<1>1. ASSUME IInv, NEW kind \in {"accept", "timeout"}, Alive(kind) # {}
      PROVE  Cardinality(Alive(kind)) = 1
  <2>1. PICK i : i \in Alive(kind)
    BY <1>1
  <2>2. Alive(kind) = {i}
    BY <1>1, <2>1 DEF IInv, KindInv, Alive
  <2> QED
    BY <2>2, FS_Singleton
<1>2. IInv => OneAcceptOneTimer
  BY <1>1 DEF IInv, KindInv, OneAcceptOneTimer
<1> QED
  BY <1>2, Invariant, PTL

(* getSqe, which checks nothing, never overruns a ring of three slots or   *)
(* more (the code asks for 64): between two calls of io_uring_enter the    *)
(* loop submits at most an accept, a recv and a timeout.                   *)
THEOREM RingNeverOverruns == ASSUME SqEntries >= 3 PROVE Spec => []SqFits
<1>1. ASSUME IInv PROVE SqFits
  <2>1. IsFiniteSet(Kinds) /\ Cardinality(Kinds) <= 3
    <3>1. /\ IsFiniteSet({"accept"}) /\ Cardinality({"accept"}) = 1
      BY FS_Singleton
    <3>2. /\ IsFiniteSet({"accept"} \cup {"recv"})
          /\ Cardinality({"accept"} \cup {"recv"}) = 2
      BY <3>1, FS_AddElement
    <3>3. /\ IsFiniteSet(({"accept"} \cup {"recv"}) \cup {"timeout"})
          /\ Cardinality(({"accept"} \cup {"recv"}) \cup {"timeout"}) = 3
      BY <3>2, FS_AddElement
    <3>4. Kinds = ({"accept"} \cup {"recv"}) \cup {"timeout"}
      BY DEF Kinds
    <3> QED
      BY <3>3, <3>4
  <2> DEFINE kindOf == [x \in sq |-> x.kind]
  <2>2. kindOf \in Injection(sq, Kinds)
    BY <1>1 DEF IInv, SqInv, TypeOK, Sqes, Injection, IsInjective
  <2>3. IsFiniteSet(sq) /\ Cardinality(sq) <= Cardinality(Kinds)
    BY <2>1, <2>2, FS_Injection
  <2> QED
    BY <2>1, <2>3, FS_CardinalityType, IoUringAssumption DEF SqFits
<1> QED
  BY <1>1, Invariant, PTL

(* An open descriptor always has something to come that ends in its close. *)
THEOREM FdsAreHeld == Spec => []NoFdLeak
<1>1. ASSUME IInv PROVE NoFdLeak
  <2> SUFFICES ASSUME NEW f \in Fds, fdtab[f] # None
               PROVE  \/ \E k \in DOMAIN cq : cq[k].res = f /\ cq[k].conn = fdtab[f]
                      \/ \E i \in Alive("recv") : opMap[i] = RecvOp(f, fdtab[f])
                      \/ cur # None /\ cur.fd = f
    BY DEF NoFdLeak
  <2>1. \A e \in Live : \E k \in DOMAIN cq : cq[k] = e
    BY DEF Live
  <2> QED
    BY <1>1, <2>1 DEF IInv, HeldInv
<1> QED
  BY <1>1, Invariant, PTL

(* As long as neither the sweep nor a Data callback has closed anything,   *)
(* answers reach the client that asked and every recv has its deadline.    *)
THEOREM SoundBeforeAnyClose == Spec => []SoundUntilShut
<1>1. IInv => SoundUntilShut
  BY DEF IInv, SoundInv, SoundUntilShut
<1> QED
  BY <1>1, Invariant, PTL

(* Callbacks come in order, also after sweeps, early closes and the reuse  *)
(* of descriptors: the kernel keeps the socket of a recv apart from the    *)
(* number it had.                                                          *)
THEOREM CallbacksComeInOrder == Spec => CallbackOrder
<1> DEFINE Orders == {<<"none", "connect">>, <<"connect", "data">>,
                      <<"connect", "disconnect">>, <<"data", "disconnect">>}
<1>1. ASSUME IInv, [Next]_vars, NEW c \in Conns, stage'[c] # stage[c]
      PROVE  <<stage[c], stage'[c]>> \in Orders
  <2>1. CASE AcceptDone
    <3>1. Done \in Live /\ Done.res \in Fds
      BY <1>1, <2>1, Turn DEF AcceptDone
    <3>2. stage[Done.conn] = "none"
      BY <1>1, <3>1 DEF IInv, ConnInv
    <3> QED
      BY <1>1, <2>1, <3>2 DEF AcceptDone, Fire
  <2>2. CASE RecvBytes
    <3>1. Op # None /\ Op.kind = "recv" /\ Op = opMap[Done.id] /\ Done.id \in Ids
      BY <1>1, <2>2, Turn DEF RecvBytes
    <3>2. stage[Op.conn] = "connect"
      BY <1>1, <3>1 DEF IInv, ConnInv, Alive
    <3> QED
      BY <1>1, <2>2, <3>2 DEF RecvBytes, Fire
  <2>3. CASE Finish
    <3>1. stage[cur.conn] \in {"connect", "data"}
      BY <1>1, <2>3 DEF IInv, CurInv, Finish
    <3> QED
      BY <1>1, <2>3, <3>1 DEF Finish, Fire
  <2>4. AcceptDone \/ RecvBytes \/ Finish
    BY <1>1 DEF Next, Loop, Kernel, Start, StartFails, Enter, EnterFails, Drained,
       AcceptError, TimerDone, RecvNothing, EarlyClose, KernelAccept,
       KernelAcceptFails, KernelRecv, KernelTimeout, ClientConnect, ClientSend,
       ClientClose, Tick, Returned, historyVars, vars
  <2> QED
    BY <2>1, <2>2, <2>3, <2>4
<1>2. IInv /\ [Next]_vars =>
        [\A c \in Conns : stage'[c] # stage[c] => <<stage[c], stage'[c]>> \in Orders]_vars
  BY <1>1
<1> QED
  BY <1>2, Invariant, PTL DEF Spec, CallbackOrder
================================================================================
