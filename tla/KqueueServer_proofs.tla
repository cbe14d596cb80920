-------------------------- MODULE KqueueServer_proofs --------------------------
(***************************************************************************)
(* The kqueue loop implements the epoll loop, for any number of servers,   *)
(* connections and descriptors.                                            *)
(***************************************************************************)
EXTENDS KqueueServer, EpollServer_proofs

--------------------------------------------------------------------------------
(* A step of this loop is one of EpollServer, or HandleConn. *)
LEMMA KqCases ==
  ASSUME [KqNext]_vars
  PROVE  \/ [Next]_vars
         \/ \E s \in Servers, f \in Fds : HandleConn(s, f)
  BY DEF KqNext, KqLoop, Next, Loop, Listening, ListeningFails, Kevent,
         KeventFails, ListenerEvent, Accept, AcceptBreaks, KqueueAdd,
         KqueueAddFails, HandleRead, HandleData, HandleClose, SweepIdle

(* The variables keep their types. *)
LEMMA KqTypeStep == ASSUME TypeOK, [KqNext]_vars PROVE TypeOK'
<1>1. CASE [Next]_vars
  BY <1>1, TypeStep
<1>2. ASSUME NEW s \in Servers, NEW f \in Fds, HandleConn(s, f)
      PROVE  TypeOK'
  <2>1. f # None /\ None \notin Conns
    BY EpollAssumption
  <2>2. fdtab[f] \in Conns \cup {None}
    BY DEF TypeOK
  <2>3. stage' \in [Conns -> {"none", "connect", "data", "disconnect"}]
    BY <1>2 DEF TypeOK, HandleConn, Fire
  <2> QED
    BY <1>2, <2>1, <2>2, <2>3
       DEF TypeOK, PcValues, Holding, HandleConn, Goto, clientVars
<1> QED
  BY <1>1, <1>2, KqCases

(* TypeOK holds of the kqueue loop too. *)
THEOREM KqTypeCorrect == KqSpec => []TypeOK
<1>1. Init => TypeOK
  BY EpollAssumption DEF Init, TypeOK, PcValues, Holding
<1> QED
  BY <1>1, KqTypeStep, PTL DEF KqSpec

--------------------------------------------------------------------------------
(***************************************************************************)
(* The step simulation.  What the epoll set would hold, EpollSet, differs  *)
(* from the kqueue by the descriptor a handler is working on: it changes   *)
(* with HandleConn, which leaves the kqueue alone, and does not change     *)
(* with the last close, which takes the descriptor out of the kqueue.      *)
(***************************************************************************)

(* A move of loop s that stays outside the handler, or inside it with the  *)
(* same descriptor, and leaves the kqueue alone leaves the epoll set alone. *)
LEMMA SameSet ==
  ASSUME TypeOK, NEW s \in Servers, NEW a, NEW b, Goto(s, a, b),
         UNCHANGED interest,
         \A t \in Servers : t # s => cur'[t] = cur[t],
         \/ {a, b} \cap {"read", "data", "early", "finish"} = {}
         \/ {a, b} \subseteq {"read", "data", "early", "finish"} /\ UNCHANGED cur
  PROVE  UNCHANGED EpollSet
<1>1. ASSUME NEW t \in Servers
      PROVE  (interest[t] \ (IF InHandler(t) THEN {cur[t]} ELSE {}))'
               = interest[t] \ (IF InHandler(t) THEN {cur[t]} ELSE {})
  <2>1. CASE t = s
    BY <2>1 DEF TypeOK, Goto, InHandler
  <2>2. CASE t # s
    BY <2>2 DEF TypeOK, Goto, InHandler
  <2> QED
    BY <2>1, <2>2
<1> QED
  BY <1>1 DEF EpollSet

(* Closing descriptors is the same operation on the epoll set, whichever   *)
(* of them a handler had in its hand.                                      *)
LEMMA CloseMaps ==
  ASSUME TypeOK, NEW F \in SUBSET Fds, Close(F), NEW s \in Servers,
         \A t \in Servers : t # s => pc'[t] = pc[t] /\ cur'[t] = cur[t],
         InHandler(s) => cur[s] \in F \/ (InHandler(s)' /\ cur'[s] = cur[s]),
         InHandler(s)' => cur'[s] = cur[s] /\ InHandler(s)
  PROVE  Epoll!Close(F)
<1>1. ASSUME NEW t \in Servers
      PROVE  (interest[t] \ (IF InHandler(t) THEN {cur[t]} ELSE {}))'
               = (interest[t] \ (IF InHandler(t) THEN {cur[t]} ELSE {})) \ F
  <2>1. interest'[t] = interest[t] \ F
    BY DEF Close
  <2>2. CASE t = s
    BY <2>1, <2>2
  <2>3. CASE t # s
    BY <2>1, <2>3 DEF InHandler
  <2> QED
    BY <2>2, <2>3
<1>2. EpollSet' = [t \in Servers |-> EpollSet[t] \ F]
  BY <1>1 DEF EpollSet
<1> QED
  BY <1>2 DEF Close, Epoll!Close

(* The instance counts as this module does. *)
LEMMA SameCardinality ==
  ASSUME NEW S
  PROVE  Epoll!Cardinality(S) = Cardinality(S)
  BY DEF Cardinality, Epoll!Cardinality

(* Every step of the kqueue loop is a step of the epoll loop, or changes   *)
(* nothing the epoll loop has.                                             *)
LEMMA KqStep ==
  ASSUME TypeOK, [KqNext]_vars
  PROVE  [Epoll!Next]_(Epoll!vars)
<1> USE DEF clientVars, loopVars, historyVars, Epoll!clientVars,
            Epoll!loopVars, Epoll!historyVars
<1>1. ASSUME NEW s \in Servers, KqLoop(s)
      PROVE  Epoll!Loop(s)
  <2>1. CASE Start(s)
    <3>1. UNCHANGED EpollSet
      BY <2>1, SameSet DEF Start
    <3>2. Epoll!Start(s)
      BY <2>1, <3>1
         DEF Start, Epoll!Start, Goto, Epoll!Goto, Rearm, Epoll!Rearm
    <3> QED
      BY <3>2 DEF Epoll!Loop
  <2>2. CASE StartFails(s) \/ EpollWaitFails(s) \/ AcceptStops(s) \/ NoSweep(s)
    <3>1. UNCHANGED EpollSet
      BY <2>2, SameSet DEF StartFails, EpollWaitFails, AcceptStops, NoSweep
    <3>2. \/ Epoll!StartFails(s) \/ Epoll!EpollWaitFails(s)
          \/ Epoll!AcceptStops(s) \/ Epoll!NoSweep(s)
      BY <2>2, <3>1
         DEF StartFails, EpollWaitFails, AcceptStops, NoSweep,
             Epoll!StartFails, Epoll!EpollWaitFails, Epoll!AcceptStops,
             Epoll!NoSweep, Goto, Epoll!Goto, Waiting, Epoll!Waiting
    <3> QED
      BY <3>2 DEF Epoll!Loop
  <2>3. CASE EpollWait(s)
    <3>1. UNCHANGED EpollSet
      BY <2>3, SameSet DEF EpollWait
    <3>2. EpollSet[s] = interest[s]
      BY <2>3 DEF EpollSet, InHandler, EpollWait, Goto
    <3>3. Epoll!Ready(s) = Ready(s)
      BY <3>2
         DEF Ready, Epoll!Ready, Readable, Epoll!Readable, Waiting,
             Epoll!Waiting
    <3>4. Epoll!EpollWait(s)
      BY <2>3, <3>1, <3>3, SameCardinality
         DEF EpollWait, Epoll!EpollWait, Goto, Epoll!Goto
    <3> QED
      BY <3>4 DEF Epoll!Loop
  <2>4. CASE TakeListener(s)
    <3>1. UNCHANGED EpollSet
      BY <2>4, SameSet DEF TakeListener
    <3>2. Epoll!TakeListener(s)
      BY <2>4, <3>1 DEF TakeListener, Epoll!TakeListener, Goto, Epoll!Goto
    <3> QED
      BY <3>2 DEF Epoll!Loop
  <2>5. ASSUME NEW c \in Conns, NEW f \in Fds, Accept4(s, c, f)
        PROVE  Epoll!Loop(s)
    <3>1. \A t \in Servers : t # s => cur'[t] = cur[t]
      BY <2>5 DEF Accept4, TypeOK
    <3>2. UNCHANGED EpollSet
      BY <2>5, <3>1, SameSet DEF Accept4
    <3>3. Epoll!Accept4(s, c, f)
      BY <2>5, <3>2
         DEF Accept4, Epoll!Accept4, Goto, Epoll!Goto, Waiting, Epoll!Waiting
    <3> QED
      BY <3>3 DEF Epoll!Loop
  <2>6. CASE Register(s)
    <3>1. ASSUME NEW t \in Servers
          PROVE  (interest[t] \ (IF InHandler(t) THEN {cur[t]} ELSE {}))'
                   = IF t = s THEN EpollSet[s] \cup {cur[s]} ELSE EpollSet[t]
      <4>1. CASE t = s
        BY <2>6, <4>1
           DEF Register, Watch, TypeOK, Goto, InHandler, EpollSet
      <4>2. CASE t # s
        BY <2>6, <4>2
           DEF Register, Watch, TypeOK, Goto, InHandler, EpollSet
      <4> QED
        BY <4>1, <4>2
    <3>2. EpollSet' = [EpollSet EXCEPT ![s] = @ \cup {cur[s]}]
      BY <3>1 DEF EpollSet
    <3>3. Epoll!Register(s)
      BY <2>6, <3>2
         DEF Register, Epoll!Register, Watch, Epoll!Watch, Goto, Epoll!Goto
    <3> QED
      BY <3>3 DEF Epoll!Loop
  <2>7. CASE RegisterFails(s)
    <3>1. cur[s] \in Fds
      BY <2>7 DEF RegisterFails, Goto, TypeOK, Holding
    <3>2. /\ ~InHandler(s) /\ ~InHandler(s)'
          /\ \A t \in Servers : t # s => pc'[t] = pc[t] /\ cur'[t] = cur[t]
      BY <2>7 DEF RegisterFails, Goto, InHandler, TypeOK
    <3>3. Epoll!Close({cur[s]})
      BY <2>7, <3>1, <3>2, CloseMaps DEF RegisterFails
    <3>4. Epoll!RegisterFails(s)
      BY <2>7, <3>3 DEF RegisterFails, Epoll!RegisterFails, Goto, Epoll!Goto
    <3> QED
      BY <3>4 DEF Epoll!Loop
  <2>8. CASE DataCallback(s)
    <3>1. UNCHANGED EpollSet
      BY <2>8, SameSet DEF DataCallback
    <3>2. Epoll!DataCallback(s)
      BY <2>8, <3>1
         DEF DataCallback, Epoll!DataCallback, Goto, Epoll!Goto, Fire,
             Epoll!Fire, Answer, Epoll!Answer
    <3> QED
      BY <3>2 DEF Epoll!Loop
  <2>9. CASE ReadBytes(s) \/ ReadNothing(s)
    <3>1. UNCHANGED EpollSet
      BY <2>9, SameSet DEF ReadBytes, ReadNothing
    <3>2. Epoll!ReadBytes(s) \/ Epoll!ReadNothing(s)
      BY <2>9, <3>1
         DEF ReadBytes, ReadNothing, Epoll!ReadBytes, Epoll!ReadNothing, Goto,
             Epoll!Goto
    <3> QED
      BY <3>2 DEF Epoll!Loop
  <2>10. CASE EarlyClose(s)
    <3>1. cur[s] \in Fds
      BY <2>10 DEF EarlyClose, Goto, TypeOK, Holding
    <3>2. /\ InHandler(s) /\ InHandler(s)' /\ UNCHANGED cur
          /\ \A t \in Servers : t # s => pc'[t] = pc[t]
      BY <2>10 DEF EarlyClose, Goto, InHandler, TypeOK
    <3>3. Epoll!Close({cur[s]})
      BY <2>10, <3>1, <3>2, CloseMaps DEF EarlyClose
    <3>4. Epoll!EarlyClose(s)
      BY <2>10, <3>3 DEF EarlyClose, Epoll!EarlyClose, Goto, Epoll!Goto
    <3> QED
      BY <3>4 DEF Epoll!Loop
  <2>11. CASE FinishConn(s)
    <3>1. cur[s] \in Fds
      BY <2>11 DEF FinishConn, Goto, TypeOK, Holding
    <3>2. /\ ~InHandler(s)'
          /\ \A t \in Servers : t # s => pc'[t] = pc[t] /\ cur'[t] = cur[t]
      BY <2>11 DEF FinishConn, Goto, InHandler, TypeOK
    <3>3. Epoll!Close({cur[s]})
      BY <2>11, <3>1, <3>2, CloseMaps DEF FinishConn
    <3>4. Epoll!FinishConn(s)
      BY <2>11, <3>3
         DEF FinishConn, Epoll!FinishConn, Goto, Epoll!Goto, Fire, Epoll!Fire
    <3> QED
      BY <3>4 DEF Epoll!Loop
  <2>12. CASE Sweep(s)
    <3>1. Expired(s) \in SUBSET Fds
      BY DEF Expired
    <3>2. /\ ~InHandler(s) /\ ~InHandler(s)' /\ UNCHANGED cur
          /\ \A t \in Servers : t # s => pc'[t] = pc[t]
      BY <2>12 DEF Sweep, Goto, InHandler, TypeOK
    <3>3. Epoll!Close(Expired(s))
      BY <2>12, <3>1, <3>2, CloseMaps DEF Sweep
    <3>4. Epoll!Sweep(s)
      BY <2>12, <3>3
         DEF Sweep, Epoll!Sweep, Goto, Epoll!Goto, Rearm, Epoll!Rearm, Expired,
             Epoll!Expired
    <3> QED
      BY <3>4 DEF Epoll!Loop
  <2>13. ASSUME NEW f \in Fds, HandleConn(s, f)
         PROVE  Epoll!Loop(s)
    <3>1. ASSUME NEW t \in Servers
          PROVE  (interest[t] \ (IF InHandler(t) THEN {cur[t]} ELSE {}))'
                   = IF t = s THEN EpollSet[s] \ {f} ELSE EpollSet[t]
      BY <2>13 DEF HandleConn, Goto, InHandler, EpollSet, TypeOK
    <3>2. EpollSet' = [EpollSet EXCEPT ![s] = @ \ {f}]
      BY <3>1 DEF EpollSet
    <3>3. Epoll!TakeClient(s, f)
      BY <2>13, <3>2
         DEF HandleConn, Epoll!TakeClient, Epoll!Unwatch, Goto, Epoll!Goto,
             Fire, Epoll!Fire
    <3> QED
      BY <3>3 DEF Epoll!Loop
  <2> QED
    BY <1>1, <2>1, <2>2, <2>3, <2>4, <2>5, <2>6, <2>7, <2>8, <2>9, <2>10,
       <2>11, <2>12, <2>13
       DEF KqLoop, Listening, ListeningFails, Kevent, KeventFails,
           ListenerEvent, Accept, AcceptBreaks, KqueueAdd, KqueueAddFails,
           HandleRead, HandleData, HandleClose, SweepIdle
<1>2. ASSUME UNCHANGED <<interest, pc, cur>>
      PROVE  UNCHANGED EpollSet
  BY <1>2 DEF EpollSet, InHandler
<1>3. ASSUME NEW c \in Conns, NEW s \in Servers, ClientConnect(c, s)
      PROVE  Epoll!ClientConnect(c, s)
  BY <1>2, <1>3, SameCardinality
     DEF ClientConnect, Epoll!ClientConnect, Waiting, Epoll!Waiting
<1>4. ASSUME NEW c \in Conns, ClientSend(c) \/ ClientClose(c)
      PROVE  Epoll!ClientSend(c) \/ Epoll!ClientClose(c)
  BY <1>2, <1>4
     DEF ClientSend, ClientClose, Epoll!ClientSend, Epoll!ClientClose, IsOpen,
         Epoll!IsOpen
<1>5. CASE Tick
  BY <1>2, <1>5 DEF Tick, Epoll!Tick, IsOpen, Epoll!IsOpen, Epoll!Next
<1>6. CASE AllReturned \/ UNCHANGED vars
  BY <1>2, <1>6 DEF AllReturned, vars, Epoll!vars
<1> QED
  BY <1>1, <1>3, <1>4, <1>5, <1>6 DEF KqNext, Epoll!Next

(* Every behaviour of the kqueue loop is, with EpollSet for the epoll set, *)
(* a behaviour of the epoll loop: leaving the client's descriptor in the   *)
(* kqueue while handleConn runs (server_darwin.go:111) changes nothing     *)
(* that a client or a callback can see.                                    *)
THEOREM KqueueImplementsEpoll == KqSpec => ImplementsEpoll
<1>1. Init => Epoll!Init
  BY DEF Init, Epoll!Init, EpollSet, InHandler
<1> QED
  BY <1>1, KqStep, KqTypeCorrect, PTL DEF KqSpec, ImplementsEpoll, Epoll!Spec

--------------------------------------------------------------------------------
(***************************************************************************)
(* What is proved of the epoll loop holds of the kqueue loop, under the    *)
(* hypothesis of EpollServer_proofs.                                       *)
(***************************************************************************)

(* An answer of the kqueue loop reaches the connection that asked for it.  *)
THEOREM KqAnswersReachAsker ==
  ASSUME SoleLoop PROVE KqSpec => []RepliesToAsker
<1>1. Epoll!SoleLoop
  BY DEF SoleLoop, Epoll!SoleLoop
<1>2. Epoll!Spec => []Epoll!RepliesToAsker
  BY <1>1, EpollAssumption, Epoll!AnswersReachAsker
<1>3. Epoll!RepliesToAsker => RepliesToAsker
  BY DEF Epoll!RepliesToAsker, RepliesToAsker
<1> QED
  BY <1>2, <1>3, KqueueImplementsEpoll, PTL DEF ImplementsEpoll

(* Every descriptor the kqueue loop has open is in the kqueue with a       *)
(* deadline, or in the hand of the loop.                                   *)
THEOREM KqDescriptorsAreHeld ==
  ASSUME SoleLoop PROVE KqSpec => []NoFdLeak
<1>1. Epoll!SoleLoop
  BY DEF SoleLoop, Epoll!SoleLoop
<1>2. Epoll!Spec => []Epoll!NoFdLeak
  BY <1>1, EpollAssumption, Epoll!DescriptorsAreHeld
<1>3. Epoll!NoFdLeak => NoFdLeak
  BY DEF Epoll!NoFdLeak, NoFdLeak, InHand, Epoll!InHand, EpollSet, Holding,
         Epoll!Holding
<1> QED
  BY <1>2, <1>3, KqueueImplementsEpoll, PTL DEF ImplementsEpoll

(* A connection is closed by the kqueue loop that accepted it.             *)
THEOREM KqOthersKeepOff ==
  ASSUME SoleLoop PROVE KqSpec => ClosedByItsServer
<1>1. Epoll!SoleLoop
  BY DEF SoleLoop, Epoll!SoleLoop
<1>2. Epoll!Spec => Epoll!ClosedByItsServer
  BY <1>1, EpollAssumption, Epoll!OthersKeepOff
<1> DEFINE Rightly(c) == IsOpen(c) /\ ~IsOpen(c)' =>
                           \E s \in Servers : s = at[c] /\ pc'[s] # pc[s]
<1>3. ASSUME [\A c \in Conns : Epoll!IsOpen(c) /\ ~Epoll!IsOpen(c)' =>
                \E s \in Servers : s = at[c] /\ pc'[s] # pc[s]]_(Epoll!vars)
      PROVE  [\A c \in Conns : Rightly(c)]_vars
  BY <1>3 DEF IsOpen, Epoll!IsOpen, Epoll!vars
<1> QED
  BY <1>2, <1>3, KqueueImplementsEpoll, PTL
     DEF ImplementsEpoll, ClosedByItsServer, Epoll!ClosedByItsServer
================================================================================
