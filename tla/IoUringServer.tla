----------------------------- MODULE IoUringServer -----------------------------
(***************************************************************************)
(* The io_uring backend: ioUringServer.Run of                              *)
(* src/server_linux_iouring.go, one server in its process.                 *)
(*                                                                         *)
(* Two actors share two rings.  The loop publishes submissions (SQEs),     *)
(* calls io_uring_enter, and drains the completions (CQEs) it finds; the   *)
(* kernel takes submissions when it is entered and completes them at any   *)
(* later time, in any order, also between two steps of the loop: accept    *)
(* may hand out a descriptor number while the loop is still busy with the  *)
(* connection that had it before.                                          *)
(*                                                                         *)
(* An operation in flight holds its socket, not its descriptor: closing a  *)
(* descriptor neither completes nor cancels the recv that is pending on    *)
(* it, and the socket lives on in the recv.                                *)
(*                                                                         *)
(* Instants are kept as the time left until them, as in EpollServer.  Only *)
(* the outcomes of a CQE the code tells apart are kept: a descriptor,      *)
(* "bytes" (Res > 0) or "nothing" (end of stream, an error, -ETIME).  Two  *)
(* branches of the switch are left out: opSend, which nothing submits, and *)
(* the one for a CQE without an operation, which OpsArePinned rules out.   *)
(***************************************************************************)
EXTENDS Integers, FiniteSets, Sequences

CONSTANTS
  Conns,          \* the TCP connections clients may open
  Fds,            \* descriptor numbers a client socket can be given
  Ids,            \* operation ids: a bound on the operations alive at once
  None,           \* no connection, no descriptor, no operation, no deadline
  ClosesEarly,    \* may the Data callback call conn.Disconnect()?
  Backlog,        \* second argument of listen(2): 128 in the code
  SqEntries,      \* slots of the submission ring: 64 in the code
  IdleTimeout,    \* timeout.go, in units of time
  SweepTick

ASSUME IoUringAssumption ==
  /\ ClosesEarly \in BOOLEAN
  /\ {Backlog, SqEntries, IdleTimeout, SweepTick} \subseteq Nat \ {0}
  /\ None \notin Conns \cup Fds \cup Ids \cup Int
  /\ Fds \cap {"bytes", "nothing"} = {}

VARIABLES
  \* the clients and the kernel
  phase,          \* phase[c]: "new", "backlog" (not accepted yet) or "accepted"
  sent,           \* the connections with request bytes to read
  gone,           \* the connections whose client closed or reset them
  fdtab,          \* the descriptor table: fdtab[f] is the open connection f names
  sq,             \* the submissions the kernel has not taken yet
  inflight,       \* the operations it works on, a recv with its socket
  cq,             \* the completions the loop has not taken yet
  timer,          \* time left until the timeout operation completes
  \* the loop
  pc,
  opMap,          \* opMap[i]: the ioOp registered under i; conn is the
                  \* connection its fd was accepted for
  deadlines,      \* the map deadlines, None where it has no entry
  cur,            \* the recv operation o being handled, once unregistered
  \* history
  stage,          \* the last callback fired for a connection
  shut,           \* the connections the sweep or a Data callback has closed
  replies         \* <<c, d>>: an answer to c was written to connection d

clientVars == <<phase, sent, gone>>
ringVars == <<sq, inflight, cq, timer>>
loopVars == <<pc, opMap, deadlines, cur>>
historyVars == <<stage, shut, replies>>
vars == <<phase, sent, gone, fdtab, sq, inflight, cq, timer, pc, opMap,
          deadlines, cur, stage, shut, replies>>

Kinds == {"accept", "recv", "timeout"}
Ops == [kind : Kinds, fd : Fds \cup {None}, conn : Conns \cup {None}]
ASSUME NoneIsNoOp == None \notin Ops

Sqes == [id : Ids, kind : Kinds, fd : Fds \cup {None}]
Flights == [id : Ids, kind : Kinds, conn : Conns \cup {None}]
Cqes == [id : Ids, res : Fds \cup {"bytes", "nothing"}, conn : Conns \cup {None}]

TypeOK ==
  /\ phase \in [Conns -> {"new", "backlog", "accepted"}]
  /\ sent \in SUBSET Conns
  /\ gone \in SUBSET Conns
  /\ fdtab \in [Fds -> Conns \cup {None}]
  /\ sq \in SUBSET Sqes
  /\ inflight \in SUBSET Flights
  /\ cq \in Seq(Cqes)
  /\ timer \in 0..SweepTick
  /\ pc \in {"start", "enter", "drain", "early", "finish", "returned"}
  /\ opMap \in [Ids -> Ops \cup {None}]
  /\ deadlines \in [Fds -> (-1..IdleTimeout) \cup {None}]
  /\ cur \in Ops \cup {None}
  /\ pc \in {"early", "finish"} => cq # <<>> /\ cur # None
  /\ stage \in [Conns -> {"none", "connect", "data", "disconnect"}]
  /\ shut \in SUBSET Conns
  /\ replies \in SUBSET (Conns \X Conns)

Init ==
  /\ phase = [c \in Conns |-> "new"]
  /\ sent = {}
  /\ gone = {}
  /\ fdtab = [f \in Fds |-> None]
  /\ sq = {}
  /\ inflight = {}
  /\ cq = <<>>
  /\ timer = SweepTick
  /\ pc = "start"
  /\ opMap = [i \in Ids |-> None]
  /\ deadlines = [f \in Fds |-> None]
  /\ cur = None
  /\ stage = [c \in Conns |-> "none"]
  /\ shut = {}
  /\ replies = {}

--------------------------------------------------------------------------------
(***************************************************************************)
(* Small pieces of the loop                                                *)
(***************************************************************************)

IsOpen(c) == \E f \in Fds : fdtab[f] = c

(* The socket of c exists: a descriptor or a pending recv holds it. *)
IsAlive(c) == IsOpen(c) \/ \E x \in inflight : x.conn = c

InBacklog == {c \in Conns : phase[c] = "backlog"}

(* The ids the rings refer to, and those in use. *)
Referenced ==
  {x.id : x \in sq \cup inflight} \cup {cq[k].id : k \in DOMAIN cq}
Used == Referenced \cup {i \in Ids : opMap[i] # None}

(* Slips a change to this code could make; the mutants of PROJECT.json put *)
(* each in the place of the definition it is named after.                  *)
FreshNotIncremented(old) == Ids
PairDropsSecond(i, op1, j, op2) == [k \in {i} |-> op1]
JustNothing(i, op) == [k \in {} |-> op]
PostKeepsOld(old, new) ==
  /\ opMap' = [i \in Ids |-> IF i \in DOMAIN new THEN new[i] ELSE opMap[i]]
  /\ sq' = sq \cup {[id |-> i, kind |-> new[i].kind, fd |-> new[i].fd] :
                      i \in DOMAIN new}
SubmittedOne == {s \in sq : s = CHOOSE t \in sq : TRUE}
CloseIfWatched(F) ==
  fdtab' = [f \in Fds |-> IF f \in F /\ deadlines[f] # None THEN None ELSE fdtab[f]]
WatchTickLonger(f) == deadlines' = [deadlines EXCEPT ![f] = IdleTimeout + SweepTick]
ExpiredNever == {}
FireNoConnect(c, cb) ==
  stage' = [d \in Conns |-> IF d = c /\ cb # "connect" THEN cb ELSE stage[d]]

(* The ids opSeq may give next.  It never repeats one; here an id comes    *)
(* back, but only when neither the rings nor opMap refer to it once the    *)
(* operation old has had its turn.                                         *)
Fresh(old) == Ids \ (Used \ {old})
Id1(old) == CHOOSE i \in Fresh(old) : TRUE
Id2(old) == CHOOSE i \in Fresh(old) \ {Id1(old)} : TRUE

(* The bound on the operations alive at once. *)
HasIds(old) == \E i, j \in Fresh(old) : i # j

AcceptOp == [kind |-> "accept", fd |-> None, conn |-> None]
TimeoutOp == [kind |-> "timeout", fd |-> None, conn |-> None]
RecvOp(f, c) == [kind |-> "recv", fd |-> f, conn |-> c]

(* The operations registered together, under their ids. *)
Just(i, op) == [k \in {i} |-> op]
Pair(i, op1, j, op2) == [k \in {i, j} |-> IF k = i THEN op1 ELSE op2]
Nothing == [k \in {} |-> AcceptOp]

(* unregisterOp of the operation old, then registerOp and submit (getSqe,  *)
(* advanceTail) of the operations in new.                                  *)
Post(old, new) ==
  /\ opMap' = [i \in Ids |-> IF i \in DOMAIN new THEN new[i]
                             ELSE IF i = old THEN None ELSE opMap[i]]
  /\ sq' = sq \cup {[id |-> i, kind |-> new[i].kind, fd |-> new[i].fd] :
                      i \in DOMAIN new}

(* The submissions io_uring_enter takes: all, as it is given SqEntries. *)
Submitted == sq

(* close(2): EBADF for the descriptors that are not open. *)
Close(F) == fdtab' = [f \in Fds |-> IF f \in F THEN None ELSE fdtab[f]]

(* deadlines[client] = now + idleTimeout *)
Watch(f) == deadlines' = [deadlines EXCEPT ![f] = IdleTimeout]

(* delete(deadlines, f) *)
Forget(F) == deadlines' = [f \in Fds |-> IF f \in F THEN None ELSE deadlines[f]]

(* The entries of deadlines the sweep removes: now.After(dl). *)
Expired == {f \in Fds : deadlines[f] = -1}

(* The callback cb is fired with a Conn that stands for connection c. *)
Fire(c, cb) == stage' = [d \in Conns |-> IF d = c THEN cb ELSE stage[d]]

(* conn.Send answers the connection the bytes came from, and reaches the   *)
(* one the descriptor names at that moment.                                *)
Answer(c, f) == (Conns \cap {c}) \X (Conns \cap {fdtab[f]})

(* The CQE at the head of the ring, its operation, and the end of its turn. *)
Done == cq[1]
Op == opMap[Done.id]
Pop == cq' = Tail(cq)

(* The CQE to handle is that of an operation of this kind. *)
Handling(kind) ==
  /\ pc = "drain"
  /\ cq # <<>>
  /\ Op # None
  /\ Op.kind = kind

--------------------------------------------------------------------------------
(***************************************************************************)
(* The worker loop                                                         *)
(***************************************************************************)

(* The listener, the ring, the first accept and the first timeout. *)
Start ==
  /\ pc = "start"
  /\ pc' = "enter"
  /\ HasIds(None)
  /\ Post(None, Pair(Id1(None), AcceptOp, Id2(None), TimeoutOp))
  /\ UNCHANGED <<clientVars, fdtab, inflight, cq, timer, deadlines, cur,
                 historyVars>>

(* Socket, SetsockoptInt, Bind, Listen or newRing fails. *)
StartFails ==
  /\ pc = "start"
  /\ pc' = "returned"
  /\ UNCHANGED <<clientVars, fdtab, ringVars, opMap, deadlines, cur,
                 historyVars>>

(* io_uring_enter takes the submissions.  A recv is bound to the socket    *)
(* its descriptor names now, and completes with EBADF if there is none.    *)
(* There is never a second recv among them (SqFits).  The call may return  *)
(* with no completion to drain, as it does when a signal interrupts it.    *)
Enter ==
  /\ pc = "enter"
  /\ pc' = "drain"
  /\ sq' = sq \ Submitted
  /\ LET refused == {s \in Submitted : s.kind = "recv" /\ fdtab[s.fd] = None}
     IN /\ inflight' = inflight \cup
             {[id |-> s.id, kind |-> s.kind,
               conn |-> IF s.kind = "recv" THEN fdtab[s.fd] ELSE None] :
                s \in Submitted \ refused}
        /\ \/ refused = {} /\ UNCHANGED cq
           \/ \E s \in refused :
                cq' = Append(cq, [id |-> s.id, res |-> "nothing", conn |-> None])
  /\ timer' = IF \E s \in Submitted : s.kind = "timeout" THEN SweepTick ELSE timer
  /\ UNCHANGED <<clientVars, fdtab, opMap, deadlines, cur, historyVars>>

(* Any error of io_uring_enter but EINTR: Run returns, closing nothing. *)
EnterFails ==
  /\ pc = "enter"
  /\ pc' = "returned"
  /\ UNCHANGED <<clientVars, fdtab, ringVars, opMap, deadlines, cur,
                 historyVars>>

(* head == tail: back to io_uring_enter. *)
Drained ==
  /\ pc = "drain"
  /\ cq = <<>>
  /\ pc' = "enter"
  /\ UNCHANGED <<clientVars, fdtab, ringVars, opMap, deadlines, cur,
                 historyVars>>

(* A client was accepted: the Connect callback, a recv on its descriptor,  *)
(* its deadline, and the next accept.                                      *)
AcceptDone ==
  /\ Handling("accept")
  /\ Done.res \in Fds
  /\ HasIds(Done.id)
  /\ Fire(Done.conn, "connect")
  /\ Post(Done.id, Pair(Id1(Done.id), AcceptOp,
                        Id2(Done.id), RecvOp(Done.res, Done.conn)))
  /\ Watch(Done.res)
  /\ Pop
  /\ UNCHANGED <<clientVars, fdtab, inflight, timer, pc, cur, shut, replies>>

(* accept failed: only the next accept. *)
AcceptError ==
  /\ Handling("accept")
  /\ Done.res \notin Fds
  /\ HasIds(Done.id)
  /\ Post(Done.id, Just(Id1(Done.id), AcceptOp))
  /\ Pop
  /\ UNCHANGED <<clientVars, fdtab, inflight, timer, pc, deadlines, cur,
                 historyVars>>

(* The timer fired: close every descriptor past its deadline, without a    *)
(* callback, and submit the next timeout.                                  *)
TimerDone ==
  /\ Handling("timeout")
  /\ HasIds(Done.id)
  /\ Close(Expired)
  /\ shut' = shut \cup {c \in Conns : \E f \in Expired : fdtab[f] = c}
  /\ Forget(Expired)
  /\ Post(Done.id, Just(Id1(Done.id), TimeoutOp))
  /\ Pop
  /\ UNCHANGED <<clientVars, inflight, timer, pc, cur, stage, replies>>

(* recv returned nothing.  The operation is unregistered here, before the  *)
(* Disconnect callback of Finish and not after it: nobody looks between.   *)
RecvNothing ==
  /\ Handling("recv")
  /\ Done.res # "bytes"
  /\ pc' = "finish"
  /\ cur' = Op
  /\ Forget({Op.fd})
  /\ Post(Done.id, Nothing)
  /\ UNCHANGED <<clientVars, fdtab, inflight, cq, timer, historyVars>>

(* recv returned bytes: the Data callback, which writes an answer (one     *)
(* that does not is the same but for replies) and may be about to call     *)
(* conn.Disconnect(), as HTTPServer.closeConn does.                        *)
RecvBytes ==
  /\ Handling("recv")
  /\ Done.res = "bytes"
  /\ pc' \in {"finish"} \cup (IF ClosesEarly THEN {"early"} ELSE {})
  /\ cur' = Op
  /\ Forget({Op.fd})
  /\ Post(Done.id, Nothing)
  /\ Fire(Op.conn, "data")
  /\ replies' = replies \cup Answer(Done.conn, Op.fd)
  /\ UNCHANGED <<clientVars, fdtab, inflight, cq, timer, shut>>

(* Conn.Disconnect called by the Data callback. *)
EarlyClose ==
  /\ pc = "early"
  /\ pc' = "finish"
  /\ Close({cur.fd})
  /\ shut' = shut \cup (Conns \cap {fdtab[cur.fd]})
  /\ UNCHANGED <<clientVars, ringVars, opMap, deadlines, cur, stage, replies>>

(* The Disconnect callback, then close(2) whether or not the Data callback *)
(* has closed the descriptor before.                                       *)
Finish ==
  /\ pc = "finish"
  /\ pc' = "drain"
  /\ Fire(cur.conn, "disconnect")
  /\ Close({cur.fd})
  /\ cur' = None
  /\ Pop
  /\ UNCHANGED <<clientVars, sq, inflight, timer, opMap, deadlines, shut,
                 replies>>

Loop ==
  \/ Start \/ StartFails
  \/ Enter \/ EnterFails \/ Drained
  \/ AcceptDone \/ AcceptError \/ TimerDone
  \/ RecvNothing \/ RecvBytes \/ EarlyClose \/ Finish

--------------------------------------------------------------------------------
(***************************************************************************)
(* The kernel, the clients and the clock                                   *)
(***************************************************************************)

(* The operation x completes. *)
Complete(x, res, c) ==
  /\ inflight' = inflight \ {x}
  /\ cq' = Append(cq, [id |-> x.id, res |-> res, conn |-> c])

KernelAccept(c, f) ==
  /\ \E x \in inflight : x.kind = "accept" /\ Complete(x, f, c)
  /\ c \in InBacklog
  /\ fdtab[f] = None
  /\ fdtab' = [fdtab EXCEPT ![f] = c]
  /\ phase' = [phase EXCEPT ![c] = "accepted"]
  /\ UNCHANGED <<sent, gone, sq, timer, loopVars, historyVars>>

(* EMFILE: the descriptor table is full. *)
KernelAcceptFails ==
  /\ \E x \in inflight : x.kind = "accept" /\ Complete(x, "nothing", None)
  /\ \A f \in Fds : fdtab[f] # None
  /\ UNCHANGED <<clientVars, fdtab, sq, timer, loopVars, historyVars>>

(* recv completes with bytes, or with 0 or an error: end of stream, or     *)
(* ECONNRESET, which drops bytes not yet read.                             *)
KernelRecv(c) ==
  /\ \E x \in inflight :
       /\ x.conn = c
       /\ \/ c \in sent /\ Complete(x, "bytes", c)
          \/ c \in gone /\ Complete(x, "nothing", c)
  /\ UNCHANGED <<clientVars, fdtab, sq, timer, loopVars, historyVars>>

KernelTimeout ==
  /\ timer = 0
  /\ \E x \in inflight : x.kind = "timeout" /\ Complete(x, "nothing", None)
  /\ UNCHANGED <<clientVars, fdtab, sq, timer, loopVars, historyVars>>

ClientConnect(c) ==
  /\ phase[c] = "new"
  /\ pc \notin {"start", "returned"}
  /\ Cardinality(InBacklog) < Backlog
  /\ phase' = [phase EXCEPT ![c] = "backlog"]
  /\ UNCHANGED <<sent, gone, fdtab, ringVars, loopVars, historyVars>>

ClientSend(c) ==
  /\ c \in InBacklog \/ IsAlive(c)
  /\ c \notin sent \cup gone
  /\ sent' = sent \cup {c}
  /\ UNCHANGED <<phase, gone, fdtab, ringVars, loopVars, historyVars>>

ClientClose(c) ==
  /\ c \in InBacklog \/ IsAlive(c)
  /\ c \notin gone
  /\ gone' = gone \cup {c}
  /\ UNCHANGED <<phase, sent, fdtab, ringVars, loopVars, historyVars>>

(* A unit of time goes by, at any point of the loop. *)
Tick ==
  /\ deadlines' = [f \in Fds |-> IF deadlines[f] \in {None, -1}
                                   THEN deadlines[f] ELSE deadlines[f] - 1]
  /\ timer' = IF timer > 0 /\ \E x \in inflight : x.kind = "timeout"
                THEN timer - 1 ELSE timer
  /\ UNCHANGED <<clientVars, fdtab, sq, inflight, cq, pc, opMap, cur,
                 historyVars>>

(* Run has returned. *)
Returned ==
  /\ pc = "returned"
  /\ UNCHANGED vars

Kernel ==
  \/ \E c \in Conns, f \in Fds : KernelAccept(c, f)
  \/ KernelAcceptFails
  \/ \E c \in Conns : KernelRecv(c)
  \/ KernelTimeout

Next ==
  \/ Loop
  \/ Kernel
  \/ \E c \in Conns : ClientConnect(c) \/ ClientSend(c) \/ ClientClose(c)
  \/ Tick
  \/ Returned

(* The loop's goroutine is scheduled, the kernel completes what it can,    *)
(* time goes on.  Clients owe nothing.                                     *)
Fairness ==
  /\ WF_vars(Loop)
  /\ WF_vars(\E c \in Conns, f \in Fds : KernelAccept(c, f))
  /\ \A c \in Conns : WF_vars(KernelRecv(c))
  /\ WF_vars(KernelTimeout)
  /\ WF_vars(Tick)

Spec == Init /\ [][Next]_vars

FairSpec == Spec /\ Fairness

--------------------------------------------------------------------------------
(***************************************************************************)
(* Properties                                                              *)
(***************************************************************************)

Alive(kind) == {i \in Ids : opMap[i] # None /\ opMap[i].kind = kind}

(* An operation stays registered, and its buffer reachable, as long as the *)
(* rings or the kernel hold its id ("keeps Go references alive while       *)
(* kernel holds the pointer", server_linux_iouring.go:320), and no longer. *)
(* Every CQE the loop takes has its operation, and ids are never shared.   *)
OpsArePinned ==
  /\ \A i \in Ids :
       opMap[i] # None <=>
         \/ \E x \in sq \cup inflight : x.id = i /\ x.kind = opMap[i].kind
         \/ \E k \in DOMAIN cq : cq[k].id = i /\ (k = 1 => cur = None)
  /\ \A x, y \in sq \cup inflight : x.id = y.id => x = y
  /\ \A k, l \in DOMAIN cq : cq[k].id = cq[l].id => k = l
  /\ \A k \in DOMAIN cq : \A x \in sq \cup inflight : cq[k].id # x.id

(* As long as Run does, one accept and one timeout are under way: the      *)
(* server never goes deaf, and never accepts twice at a time ("Luôn submit *)
(* accept mới để duy trì backlog", server_linux_iouring.go:405).           *)
OneAcceptOneTimer ==
  pc \notin {"start", "returned"} =>
    /\ Cardinality(Alive("accept")) = 1
    /\ Cardinality(Alive("timeout")) = 1

(* getSqe never overruns the submission ring, which it does not check.     *)
SqFits == Cardinality(sq) <= SqEntries

(* Every open descriptor has a completion to come or under way that ends   *)
(* in its close, also after sweeps and early closes have had their way     *)
(* with its number.                                                        *)
NoFdLeak ==
  \A f \in Fds :
    fdtab[f] # None =>
      \/ \E k \in DOMAIN cq : cq[k].res = f /\ cq[k].conn = fdtab[f]
      \/ \E i \in Alive("recv") : opMap[i] = RecvOp(f, fdtab[f])
      \/ cur # None /\ cur.fd = f

(* Callbacks see a connection in order: Connect, at most one Data, at most *)
(* one Disconnect and nothing after it (TestTCPCallbackOrder).             *)
CallbackOrder ==
  [][\A c \in Conns :
       stage'[c] # stage[c] =>
         <<stage[c], stage'[c]>> \in {<<"none", "connect">>, <<"connect", "data">>,
           <<"connect", "disconnect">>, <<"data", "disconnect">>}]_vars

(* Until the sweep or a Data callback closes a descriptor, answers reach   *)
(* the client that asked, and every connection that waits in a recv has    *)
(* its deadline (Conn.Send, conn_unix.go:10; deadlines,                    *)
(* server_linux_iouring.go:400).                                           *)
SoundUntilShut ==
  shut = {} =>
    /\ \A r \in replies : r[1] = r[2]
    /\ \A i \in Alive("recv") :
         fdtab[opMap[i].fd] = opMap[i].conn /\ deadlines[opMap[i].fd] # None

(* "EBADF ignored if handler already closed" (server_linux_iouring.go:444): *)
(* the close that ends a recv hits its own connection or nothing.           *)
SecondCloseIsEBADF ==
  pc = "finish" => fdtab[cur.fd] \in {None, cur.conn}

(* A client in the accept queue is accepted, unless Run returns, also when *)
(* descriptors run out for a while.                                        *)
BacklogIsAccepted ==
  \A c \in Conns : phase[c] = "backlog" ~> phase[c] = "accepted" \/ pc = "returned"

(* A descriptor is given back whatever its client does. *)
DescriptorIsFreed ==
  \A c \in Conns : IsOpen(c) ~> ~IsOpen(c) \/ pc = "returned"

(* The callbacks of a client that sends or leaves run to their end. *)
TalkerIsServed ==
  \A c \in Conns :
    phase[c] = "accepted" /\ c \in sent \cup gone
      ~> stage[c] = "disconnect" \/ pc = "returned"

(* "idle conn closed after this" (timeout.go:6): the connection of a       *)
(* silent client comes to its end.                                         *)
IdleConnCloses ==
  \A c \in Conns : phase[c] = "accepted" ~> ~IsAlive(c) \/ pc = "returned"
================================================================================
