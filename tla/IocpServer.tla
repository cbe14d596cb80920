------------------------------- MODULE IocpServer -------------------------------
(***************************************************************************)
(* The Windows backend: iocpServer.Run of src/server_windows.go.           *)
(*                                                                         *)
(* A loop posts operations and takes their completions from a completion   *)
(* port.  AcceptSlots AcceptEx are pending on the listener, each with a    *)
(* socket made beforehand for the connection to come; an accepted client   *)
(* gets one WSARecv.  The kernel completes an operation at any time.       *)
(* closesocket frees the handle at once but only starts the abort of what  *)
(* is pending on it: the completion of that comes later, and names a       *)
(* handle that may belong to another socket by then.                       *)
(*                                                                         *)
(* Servers of one process share the handle table and the package variable  *)
(* iocp, which each of them overwrites when it starts and every loop reads *)
(* again before each wait.                                                 *)
(*                                                                         *)
(* Instants are kept as the time left until them, as in EpollServer.  The  *)
(* opSend branch is left out: nothing calls postSend.                      *)
(***************************************************************************)
EXTENDS Integers, FiniteSets, Sequences

CONSTANTS
  Servers,        \* the iocpServer instances of the process
  EarlyClosers,   \* those whose Data callback may call conn.Disconnect()
  Conns,          \* the TCP connections clients may open
  Handles,        \* socket handles, but for the listeners
  Ids,            \* addresses of ioOps: one for each accept slot and connection
  None,           \* nothing
  Blank,          \* a socket made for AcceptEx and not connected yet
  Backlog,        \* second argument of listen: 128 in the code
  AcceptSlots,    \* AcceptEx posted at the start: 8 in the code
  IdleTimeout,    \* timeout.go, in units of time
  SweepTick

ASSUME IocpAssumption ==
  /\ EarlyClosers \subseteq Servers
  /\ IsFiniteSet(Servers) /\ IsFiniteSet(Conns) /\ IsFiniteSet(Ids)
  /\ {Backlog, AcceptSlots, IdleTimeout, SweepTick} \subseteq Nat \ {0}
  /\ {None, Blank} \cap (Conns \cup Handles \cup Ids \cup Servers \cup Int) = {}
  /\ None # Blank
  /\ Cardinality(Ids) >= Cardinality(Servers) * AcceptSlots + Cardinality(Conns)

VARIABLES
  \* the clients and the kernel
  phase,          \* phase[c]: "new", "backlog", "accepted" or "dropped"
  at,             \* at[c]: the server whose port c was opened to
  sent,           \* the connections with request bytes to read
  gone,           \* the connections whose client closed or reset them
  htab,           \* htab[h]: the connection h names, Blank, or None if closed
  assoc,          \* the completion port a handle is attached to, {} if none
  ops,            \* ops[i]: the operation at address i, None if there is none
  cq,             \* cq[p]: the completions queued at port p
  \* the package
  iocp,           \* the port the variable iocp holds: that of a server, or 0
  \* the loop of each server
  pc,
  posted,         \* AcceptEx posted before the loop
  port,           \* the port the loop waits on
  cur,            \* the operation o whose completion it handles
  deadlines,      \* the map deadlines, None where it has no entry
  nextSweep,
  \* history
  stage,          \* the last callback fired for a connection
  swept,          \* a sweep has closed something
  unposted,       \* accepted connections for which no WSARecv was posted
  lost,           \* lost[s]: accepts that could not be posted again
  replies         \* <<c, d>>: an answer to c was written to connection d

clientVars == <<phase, at, sent, gone>>
kernelVars == <<htab, assoc, ops, cq>>
loopVars == <<pc, posted, port, cur, deadlines, nextSweep>>
historyVars == <<stage, swept, unposted, lost, replies>>
vars == <<phase, at, sent, gone, htab, assoc, ops, cq, iocp, pc, posted, port,
          cur, deadlines, nextSweep, stage, swept, unposted, lost, replies>>

(* The port of a server is named after it; None is the one no loop reads   *)
(* (CreateIoCompletionPort with iocp = 0 makes a new one).                 *)
Ports == Servers \cup {None}

(* An accept is "doomed" when its socket is closed under it.               *)
Ops == [kind : {"accept", "recv"}, sock : Handles, port : SUBSET Ports,
        listener : Servers \cup {None}, conn : Conns \cup {None},
        res : {"pending", "doomed", "ok", "data", "nothing"}]
ASSUME NoneIsNoOp == None \notin Ops

TypeOK ==
  /\ phase \in [Conns -> {"new", "backlog", "accepted", "dropped"}]
  /\ at \in [Conns -> Servers \cup {None}]
  /\ sent \in SUBSET Conns
  /\ gone \in SUBSET Conns
  /\ htab \in [Handles -> Conns \cup {Blank, None}]
  /\ assoc \in [Handles -> SUBSET Ports]
  /\ ops \in [Ids -> Ops \cup {None}]
  /\ cq \in [Ports -> Seq(Ids)]
  /\ \A p \in Ports : \A k \in DOMAIN cq[p] :
       ops[cq[p][k]] # None /\ ops[cq[p][k]].res \in {"ok", "data", "nothing"}
  /\ iocp \in Ports
  /\ pc \in [Servers -> {"start", "post", "call", "wait", "sweep", "accepted",
                         "recv", "replenish", "received", "early", "finish",
                         "returned"}]
  /\ posted \in [Servers -> 0..AcceptSlots]
  /\ port \in [Servers -> Ports]
  /\ cur \in [Servers -> Ops \cup {None}]
  /\ deadlines \in [Servers -> [Handles -> (-1..IdleTimeout) \cup {None}]]
  /\ nextSweep \in [Servers -> 0..SweepTick]
  /\ stage \in [Conns -> {"none", "connect", "data", "disconnect"}]
  /\ swept \in BOOLEAN
  /\ unposted \in SUBSET Conns
  /\ lost \in [Servers -> 0..AcceptSlots]
  /\ replies \in SUBSET (Conns \X Conns)

Init ==
  /\ phase = [c \in Conns |-> "new"]
  /\ at = [c \in Conns |-> None]
  /\ sent = {}
  /\ gone = {}
  /\ htab = [h \in Handles |-> None]
  /\ assoc = [h \in Handles |-> {}]
  /\ ops = [i \in Ids |-> None]
  /\ cq = [p \in Ports |-> <<>>]
  /\ iocp = None
  /\ pc = [s \in Servers |-> "start"]
  /\ posted = [s \in Servers |-> 0]
  /\ port = [s \in Servers |-> None]
  /\ cur = [s \in Servers |-> None]
  /\ deadlines = [s \in Servers |-> [h \in Handles |-> None]]
  /\ nextSweep = [s \in Servers |-> SweepTick]
  /\ stage = [c \in Conns |-> "none"]
  /\ swept = FALSE
  /\ unposted = {}
  /\ lost = [s \in Servers |-> 0]
  /\ replies = {}

--------------------------------------------------------------------------------
(***************************************************************************)
(* Small pieces                                                            *)
(***************************************************************************)

IsOpen(c) == \E h \in Handles : htab[h] = c
Waiting(s) == {c \in Conns : phase[c] = "backlog" /\ at[c] = s}
Accepts(s) == {i \in Ids : ops[i] # None /\ ops[i].listener = s}

AcceptOp(h, s) == [kind |-> "accept", sock |-> h, port |-> {s}, listener |-> s,
                   conn |-> None, res |-> "pending"]
RecvOp(h) == [kind |-> "recv", sock |-> h, port |-> assoc[h], listener |-> None,
              conn |-> htab[h], res |-> "pending"]

(* pinOp gives an operation an address that no operation under way has;    *)
(* unpinOp comes with the step that handles its completion.                *)
Post(op) ==
  LET i == CHOOSE j \in Ids : ops[j] = None IN ops' = [ops EXCEPT ![i] = op]

(* The operation at i is queued with result r, at the port of its socket.  *)
Complete(i, r, c) ==
  /\ ops' = [ops EXCEPT ![i].res = r, ![i].conn = c]
  /\ cq' = [p \in Ports |-> IF p \in ops[i].port THEN Append(cq[p], i) ELSE cq[p]]

(* closesocket of the handles in H, WSAENOTSOCK for one that is closed: an *)
(* AcceptEx still pending on one of them can only fail.                    *)
Closesocket(H) ==
  /\ htab' = [h \in Handles |-> IF h \in H THEN None ELSE htab[h]]
  /\ assoc' = [h \in Handles |-> IF h \in H THEN {} ELSE assoc[h]]
  /\ ops' = [i \in Ids |->
               IF i \in UNION {Accepts(s) : s \in Servers}
                    /\ ops[i].sock \in H /\ ops[i].res = "pending"
                 THEN [ops[i] EXCEPT !.res = "doomed"] ELSE ops[i]]

(* A new socket, and AcceptEx on it for the listener of s. *)
PostAccept(s) ==
  \E h \in Handles :
    /\ htab[h] = None
    /\ htab' = [htab EXCEPT ![h] = Blank]
    /\ Post(AcceptOp(h, s))

Expired(s) == {h \in Handles : deadlines[s][h] = -1}

(* delete(deadlines, o.sock) *)
Forget(s) == deadlines' = [deadlines EXCEPT ![s][cur[s].sock] = None]

Fire(c, cb) == stage' = [d \in Conns |-> IF d = c THEN cb ELSE stage[d]]

Goto(s, from, to) ==
  /\ pc[s] = from
  /\ pc' = [pc EXCEPT ![s] = to]

(* Slips a change to this code could make; the mutants of PROJECT.json put *)
(* each in the place of the definition it is named after.                  *)
SweepUnpins(s) ==
  /\ Goto(s, "sweep", "call")
  /\ nextSweep[s] = 0
  /\ htab' = [h \in Handles |-> IF h \in Expired(s) THEN None ELSE htab[h]]
  /\ assoc' = [h \in Handles |-> IF h \in Expired(s) THEN {} ELSE assoc[h]]
  /\ ops' = [i \in Ids |-> IF ops[i] # None /\ ops[i].sock \in Expired(s)
                             THEN None ELSE ops[i]]
  /\ swept' = (swept \/ Expired(s) # {})
  /\ deadlines' = [deadlines EXCEPT ![s] =
                     [h \in Handles |-> IF h \in Expired(s) THEN None ELSE @[h]]]
  /\ nextSweep' = [nextSweep EXCEPT ![s] = SweepTick]
  /\ UNCHANGED <<clientVars, cq, iocp, posted, port, cur, stage, unposted,
                 lost, replies>>
AcceptErrorNoReplenish(s) ==
  /\ Goto(s, "accepted", "call")
  /\ cur[s].res # "ok"
  /\ Closesocket({cur[s].sock})
  /\ cur' = [cur EXCEPT ![s] = None]
  /\ UNCHANGED <<clientVars, cq, iocp, posted, port, deadlines, nextSweep,
                 historyVars>>
PostRecvFailsNoClose(s) ==
  /\ Goto(s, "recv", "replenish")
  /\ unposted' = unposted \cup {cur[s].conn}
  /\ UNCHANGED <<clientVars, kernelVars, iocp, posted, port, cur, deadlines,
                 nextSweep, stage, swept, lost, replies>>
PostRecvNoDeadline(s) ==
  /\ Goto(s, "recv", "replenish")
  /\ htab[cur[s].sock] \in Conns
  /\ Post(RecvOp(cur[s].sock))
  /\ UNCHANGED <<clientVars, htab, assoc, cq, iocp, posted, port, cur,
                 deadlines, nextSweep, historyVars>>
FinishNoDisconnect(s) ==
  /\ Goto(s, "finish", "call")
  /\ Closesocket({cur[s].sock})
  /\ cur' = [cur EXCEPT ![s] = None]
  /\ UNCHANGED <<clientVars, cq, iocp, posted, port, deadlines, nextSweep,
                 historyVars>>
AttachSilent(s) ==
  /\ Goto(s, "accepted", "recv")
  /\ cur[s].res = "ok"
  /\ htab[cur[s].sock] # None /\ assoc[cur[s].sock] = {}
  /\ assoc' = [assoc EXCEPT ![cur[s].sock] = {iocp}]
  /\ UNCHANGED <<clientVars, htab, ops, cq, iocp, posted, port, cur, deadlines,
                 nextSweep, historyVars>>
DataReposts(s) ==
  /\ Goto(s, "received", "finish")
  /\ cur[s].res = "data"
  /\ Forget(s)
  /\ Post([RecvOp(cur[s].sock) EXCEPT !.conn = cur[s].conn])
  /\ Fire(cur[s].conn, "data")
  /\ UNCHANGED <<clientVars, htab, assoc, cq, iocp, posted, port, cur,
                 nextSweep, swept, unposted, lost, replies>>

--------------------------------------------------------------------------------
(***************************************************************************)
(* The loop of server s                                                    *)
(***************************************************************************)

(* WSAStartup to CreateIoCompletionPort. *)
Start(s) ==
  /\ Goto(s, "start", "post")
  /\ iocp' = s
  /\ UNCHANGED <<clientVars, kernelVars, posted, port, cur, deadlines,
                 nextSweep, historyVars>>

(* One of them fails: Run returns.  When it is the last, iocp is now 0.    *)
StartFails(s) ==
  /\ Goto(s, "start", "returned")
  /\ iocp' \in {iocp, None}
  /\ UNCHANGED <<clientVars, kernelVars, posted, port, cur, deadlines,
                 nextSweep, historyVars>>

PostInitial(s) ==
  /\ Goto(s, "post", IF posted[s] + 1 = AcceptSlots THEN "call" ELSE "post")
  /\ posted' = [posted EXCEPT ![s] = @ + 1]
  /\ PostAccept(s)
  /\ UNCHANGED <<clientVars, assoc, cq, iocp, port, cur, deadlines, nextSweep,
                 historyVars>>

PostInitialFails(s) ==
  /\ Goto(s, "post", "returned")
  /\ UNCHANGED <<clientVars, kernelVars, iocp, posted, port, cur, deadlines,
                 nextSweep, historyVars>>

(* GetQueuedCompletionStatus is called with what iocp holds now... *)
Gqcs(s) ==
  /\ Goto(s, "call", "wait")
  /\ port' = [port EXCEPT ![s] = iocp]
  /\ UNCHANGED <<clientVars, kernelVars, iocp, posted, cur, deadlines,
                 nextSweep, historyVars>>

(* ... and returns the oldest completion of that port... *)
Take(s) ==
  /\ port[s] # None /\ cq[port[s]] # <<>>
  /\ LET i == Head(cq[port[s]])
     IN  /\ Goto(s, "wait", IF ops[i].kind = "accept" THEN "accepted" ELSE "received")
         /\ cur' = [cur EXCEPT ![s] = ops[i]]
         /\ ops' = [ops EXCEPT ![i] = None]
         /\ cq' = [cq EXCEPT ![port[s]] = Tail(@)]
  /\ UNCHANGED <<clientVars, htab, assoc, iocp, posted, port, deadlines,
                 nextSweep, historyVars>>

(* ... or none, after sweepTickMs or with an error that is only logged.    *)
TimedOut(s) ==
  /\ port[s] = None \/ cq[port[s]] = <<>>
  /\ Goto(s, "wait", "sweep")
  /\ UNCHANGED <<clientVars, kernelVars, iocp, posted, port, cur, deadlines,
                 nextSweep, historyVars>>

(* Sockets past their deadline are closed, with their WSARecv under way.   *)
Sweep(s) ==
  /\ Goto(s, "sweep", "call")
  /\ nextSweep[s] = 0
  /\ Closesocket(Expired(s))
  /\ swept' = (swept \/ Expired(s) # {})
  /\ deadlines' = [deadlines EXCEPT ![s] =
                     [h \in Handles |-> IF h \in Expired(s) THEN None ELSE @[h]]]
  /\ nextSweep' = [nextSweep EXCEPT ![s] = SweepTick]
  /\ UNCHANGED <<clientVars, cq, iocp, posted, port, cur, stage, unposted,
                 lost, replies>>

NoSweep(s) ==
  /\ Goto(s, "sweep", "call")
  /\ nextSweep[s] # 0
  /\ UNCHANGED <<clientVars, kernelVars, iocp, posted, port, cur, deadlines,
                 nextSweep, historyVars>>

(* The AcceptEx failed. *)
AcceptError(s) ==
  /\ Goto(s, "accepted", "replenish")
  /\ cur[s].res # "ok"
  /\ Closesocket({cur[s].sock})
  /\ UNCHANGED <<clientVars, cq, iocp, posted, port, cur, deadlines, nextSweep,
                 historyVars>>

(* The client socket is attached to the port iocp holds now, and Connect   *)
(* is fired.  A handle is attached once, and only an open one.             *)
Attach(s) ==
  /\ Goto(s, "accepted", "recv")
  /\ cur[s].res = "ok"
  /\ htab[cur[s].sock] # None /\ assoc[cur[s].sock] = {}
  /\ assoc' = [assoc EXCEPT ![cur[s].sock] = {iocp}]
  /\ Fire(cur[s].conn, "connect")
  /\ UNCHANGED <<clientVars, htab, ops, cq, iocp, posted, port, cur, deadlines,
                 nextSweep, swept, unposted, lost, replies>>

AttachFails(s) ==
  /\ Goto(s, "accepted", "replenish")
  /\ cur[s].res = "ok"
  /\ Closesocket({cur[s].sock})
  /\ UNCHANGED <<clientVars, cq, iocp, posted, port, cur, deadlines, nextSweep,
                 historyVars>>

(* postRecv(client), and its deadline.  WSARecv needs a connected socket,  *)
(* and is for the connection the handle names now.                         *)
PostRecv(s) ==
  /\ Goto(s, "recv", "replenish")
  /\ htab[cur[s].sock] \in Conns
  /\ Post(RecvOp(cur[s].sock))
  /\ deadlines' = [deadlines EXCEPT ![s][cur[s].sock] = IdleTimeout]
  /\ unposted' = unposted \cup ({cur[s].conn} \ {htab[cur[s].sock]})
  /\ UNCHANGED <<clientVars, htab, assoc, cq, iocp, posted, port, cur,
                 nextSweep, stage, swept, lost, replies>>

(* It fails: the client is closed without Disconnect. *)
PostRecvFails(s) ==
  /\ Goto(s, "recv", "replenish")
  /\ Closesocket({cur[s].sock})
  /\ unposted' = unposted \cup {cur[s].conn}
  /\ UNCHANGED <<clientVars, cq, iocp, posted, port, cur, deadlines, nextSweep,
                 stage, swept, lost, replies>>

(* postAccept(lh): as many accepts pending as before... *)
Replenish(s) ==
  /\ Goto(s, "replenish", "call")
  /\ PostAccept(cur[s].listener)
  /\ cur' = [cur EXCEPT ![s] = None]
  /\ UNCHANGED <<clientVars, assoc, cq, iocp, posted, port, deadlines,
                 nextSweep, historyVars>>

(* ... unless it fails, which nobody looks at. *)
ReplenishFails(s) ==
  /\ Goto(s, "replenish", "call")
  /\ lost' = [lost EXCEPT ![cur[s].listener] = @ + 1]
  /\ cur' = [cur EXCEPT ![s] = None]
  /\ UNCHANGED <<clientVars, kernelVars, iocp, posted, port, deadlines,
                 nextSweep, stage, swept, unposted, replies>>

(* The WSARecv brought nothing: Disconnect, and the handle is closed.      *)
HangUp(s) ==
  /\ Goto(s, "received", "call")
  /\ cur[s].res = "nothing"
  /\ Forget(s)
  /\ Fire(cur[s].conn, "disconnect")
  /\ Closesocket({cur[s].sock})
  /\ cur' = [cur EXCEPT ![s] = None]
  /\ UNCHANGED <<clientVars, cq, iocp, posted, port, nextSweep, swept,
                 unposted, lost, replies>>

(* It brought bytes: the Data callback.  An answer goes to what the handle *)
(* names now.                                                              *)
DataCallback(s) ==
  /\ \/ Goto(s, "received", "finish")
     \/ s \in EarlyClosers /\ Goto(s, "received", "early")
  /\ cur[s].res = "data"
  /\ Forget(s)
  /\ Fire(cur[s].conn, "data")
  /\ replies' \in {replies,
                   replies \cup ({cur[s].conn} \X (Conns \cap {htab[cur[s].sock]}))}
  /\ UNCHANGED <<clientVars, kernelVars, iocp, posted, port, cur, nextSweep,
                 swept, unposted, lost>>

(* Conn.Disconnect called by the Data callback. *)
EarlyClose(s) ==
  /\ Goto(s, "early", "finish")
  /\ Closesocket({cur[s].sock})
  /\ UNCHANGED <<clientVars, cq, iocp, posted, port, cur, deadlines, nextSweep,
                 historyVars>>

(* The Disconnect callback, and the last close. *)
Finish(s) ==
  /\ Goto(s, "finish", "call")
  /\ Fire(cur[s].conn, "disconnect")
  /\ Closesocket({cur[s].sock})
  /\ cur' = [cur EXCEPT ![s] = None]
  /\ UNCHANGED <<clientVars, cq, iocp, posted, port, deadlines, nextSweep,
                 swept, unposted, lost, replies>>

Loop(s) ==
  \/ Start(s) \/ StartFails(s) \/ PostInitial(s) \/ PostInitialFails(s)
  \/ Gqcs(s) \/ Take(s) \/ TimedOut(s) \/ Sweep(s) \/ NoSweep(s)
  \/ AcceptError(s) \/ Attach(s) \/ AttachFails(s)
  \/ PostRecv(s) \/ PostRecvFails(s) \/ Replenish(s) \/ ReplenishFails(s)
  \/ HangUp(s) \/ DataCallback(s) \/ EarlyClose(s) \/ Finish(s)

--------------------------------------------------------------------------------
(***************************************************************************)
(* The kernel, the clients and the clock                                   *)
(***************************************************************************)

(* A waiting connection gets the socket of the AcceptEx at i. *)
KernelAccept(i, c) ==
  /\ ops[i] # None /\ ops[i].kind = "accept" /\ ops[i].res = "pending"
  /\ c \in Waiting(ops[i].listener)
  /\ Complete(i, "ok", c)
  /\ htab' = [htab EXCEPT ![ops[i].sock] = c]
  /\ phase' = [phase EXCEPT ![c] = "accepted"]
  /\ UNCHANGED <<at, sent, gone, assoc, iocp, loopVars, historyVars>>

(* The AcceptEx fails: its client has reset the connection... *)
KernelReset(i, c) ==
  /\ ops[i] # None /\ ops[i].kind = "accept" /\ ops[i].res = "pending"
  /\ c \in Waiting(ops[i].listener) \cap gone
  /\ Complete(i, "nothing", None)
  /\ phase' = [phase EXCEPT ![c] = "dropped"]
  /\ UNCHANGED <<at, sent, gone, htab, assoc, iocp, loopVars, historyVars>>

(* ... or its socket was closed: ERROR_OPERATION_ABORTED. *)
KernelAbort(i) ==
  /\ ops[i] # None /\ ops[i].res = "doomed"
  /\ Complete(i, "nothing", None)
  /\ UNCHANGED <<clientVars, htab, assoc, iocp, loopVars, historyVars>>

(* The WSARecv at i has bytes, the end of the stream or a reset; or is     *)
(* aborted, some time after its socket was closed.                         *)
KernelRecv(i) ==
  /\ ops[i] # None /\ ops[i].kind = "recv" /\ ops[i].res = "pending"
  /\ LET c == ops[i].conn
         live == htab[ops[i].sock] = c
     IN  \/ live /\ c \in sent /\ Complete(i, "data", c)
         \/ (live => c \in gone) /\ Complete(i, "nothing", c)
  /\ UNCHANGED <<clientVars, htab, assoc, iocp, loopVars, historyVars>>

Kernel ==
  \E i \in Ids :
    \/ \E c \in Conns : KernelAccept(i, c) \/ KernelReset(i, c)
    \/ KernelAbort(i) \/ KernelRecv(i)

ClientConnect(c, s) ==
  /\ phase[c] = "new"
  /\ pc[s] \notin {"start", "returned"}
  /\ Cardinality(Waiting(s)) < Backlog
  /\ phase' = [phase EXCEPT ![c] = "backlog"]
  /\ at' = [at EXCEPT ![c] = s]
  /\ UNCHANGED <<sent, gone, kernelVars, iocp, loopVars, historyVars>>

ClientSend(c) ==
  /\ phase[c] = "backlog" \/ IsOpen(c)
  /\ c \notin sent \cup gone
  /\ sent' = sent \cup {c}
  /\ UNCHANGED <<phase, at, gone, kernelVars, iocp, loopVars, historyVars>>

ClientClose(c) ==
  /\ phase[c] = "backlog" \/ IsOpen(c)
  /\ c \notin gone
  /\ gone' = gone \cup {c}
  /\ UNCHANGED <<phase, at, sent, kernelVars, iocp, loopVars, historyVars>>

Tick ==
  /\ deadlines' = [s \in Servers |-> [h \in Handles |->
                     IF deadlines[s][h] \in {None, -1}
                       THEN deadlines[s][h] ELSE deadlines[s][h] - 1]]
  /\ nextSweep' = [s \in Servers |->
                     IF pc[s] \in {"start", "post"} \/ nextSweep[s] = 0
                       THEN nextSweep[s] ELSE nextSweep[s] - 1]
  /\ UNCHANGED <<clientVars, kernelVars, iocp, pc, posted, port, cur,
                 historyVars>>

Next ==
  \/ \E s \in Servers : Loop(s)
  \/ Kernel
  \/ \E c \in Conns, s \in Servers : ClientConnect(c, s)
  \/ \E c \in Conns : ClientSend(c) \/ ClientClose(c)
  \/ Tick

(* The loops run, time goes on, and the kernel completes what it can.      *)
Fairness ==
  /\ \A s \in Servers : WF_vars(Loop(s))
  /\ WF_vars(Tick)
  /\ WF_vars(Kernel)

Spec == Init /\ [][Next]_vars

FairSpec == Spec /\ Fairness

--------------------------------------------------------------------------------
(***************************************************************************)
(* Properties                                                              *)
(***************************************************************************)

(* Loop s has the socket h in hand. *)
InHand(s, h) == cur[s] # None /\ cur[s].sock = h

(* Once it waits for connections, a server has all its accepts pending,    *)
(* completed or in the hands of a loop that will post them again, but for  *)
(* those whose postAccept failed ("replenish 1 accept slot to keep the     *)
(* backlog", server_windows.go:291).                                       *)
AcceptSlotsKept ==
  \A s \in Servers :
    Cardinality(Accepts(s)) + lost[s]
      + Cardinality({t \in Servers : cur[t] # None /\ cur[t].listener = s})
      = posted[s]

(* No handle leaks: an open socket has an operation under way that will    *)
(* lead to its close, or is in the hand of a loop; and a connection that   *)
(* only waits for bytes has a deadline.                                    *)
NoHandleLeak ==
  \A h \in Handles : htab[h] # None =>
    \/ \E s \in Servers : InHand(s, h)
    \/ \E i \in Ids :
         /\ ops[i] # None /\ ops[i].sock = h
         /\ htab[h] = Blank => ops[i].kind = "accept"
         /\ htab[h] \in Conns => ops[i].conn = htab[h]
         /\ ops[i].kind = "recv" => \E s \in Servers : deadlines[s][h] # None

(* An answer reaches the client that asked for it. *)
RepliesToAsker == \A r \in replies : r[1] = r[2]

(* Until a sweep has closed a socket with its WSARecv under way, a handle  *)
(* in hand still names the connection its completion is of (or nothing     *)
(* once the callback has closed it: "WSAENOTSOCK ignored if handler        *)
(* already closed", server_windows.go:313), no AcceptEx loses its socket,  *)
(* and an answer reaches the client that asked.                            *)
SoundUntilSwept ==
  ~swept =>
    /\ \A s \in Servers :
         cur[s] # None /\ cur[s].kind = "recv"
           => htab[cur[s].sock] \in {cur[s].conn, None}
    /\ \A i \in Ids : ops[i] # None => ops[i].res # "doomed"
    /\ RepliesToAsker

(* Connect comes first, Data at most once after it, Disconnect at most     *)
(* once and last.                                                          *)
InOrder ==
  \A c \in Conns : stage'[c] # stage[c] =>
    <<stage[c], stage'[c]>> \in
      {<<"none", "connect">>, <<"connect", "data">>,
       <<"connect", "disconnect">>, <<"data", "disconnect">>}

(* "Connect fires before Data, Disconnect fires after Data, each exactly   *)
(* once per connection" (tcp_test.go:12).                                  *)
CallbackOrder == [][InOrder]_vars

(* This is so until a sweep has closed a socket with its WSARecv under way *)
(* (the completion then closes whatever has the handle by that time).      *)
OrderUntilSwept == [][~swept => InOrder]_vars

(* What Connect opened Disconnect closes: unlike on epoll the callback     *)
(* comes for a swept connection too, when its WSARecv is aborted, and is   *)
(* missing only when no WSARecv was posted for it (server_windows.go:285,  *)
(* against conn.go:11).                                                    *)
ConnectIsFollowed ==
  \A c \in Conns :
    stage[c] = "connect" ~> stage[c] = "disconnect" \/ c \in unposted

(* Every connection in the accept queue is closed or dropped in the end,   *)
(* unless Run returns or every accept slot has been lost.                  *)
EveryConnCloses ==
  \A c \in Conns :
    phase[c] = "backlog" ~>
      \/ phase[c] = "dropped"
      \/ phase[c] = "accepted" /\ ~IsOpen(c)
      \/ \E s \in Servers : s = at[c] /\ (pc[s] = "returned" \/ lost[s] = AcceptSlots)

(* The callbacks of a connection are those of the server it was opened to. *)
OwnCallbacks ==
  [][\A c \in Conns : stage'[c] # stage[c] =>
       \E s \in Servers : s = at[c] /\ pc'[s] # pc[s]]_vars
================================================================================
