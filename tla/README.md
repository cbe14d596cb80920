# io-multiplexing: a TLA+ verification project

This directory holds TLA+ models of the server in this repository, the TLC
configurations that check them on small instances, and proofs, checked by TLAPS,
of what matters most for every size. File and line references are to `src/`.

## 1. The system

The program is a TCP server library with one event loop per platform, and an HTTP
server (HTTP/1.x, h2c, HTTP/2 over TLS) on top of it.

| Component | Source | State | Operations |
|---|---|---|---|
| Callback interface | `conn.go`, `server.go` | three callbacks | `OnConnect`, `OnData`, `OnDisconnect`, `Listen` |
| epoll backend | `server_linux.go` | listener, epoll set, `deadlines`, `nextSweep` | accept loop, `handleConn`, sweep |
| io_uring backend | `server_linux_iouring.go` | two rings shared with the kernel, `opMap`, `opSeq`, `deadlines` | submit, enter, drain, one handler per kind of completion |
| kqueue backend | `server_darwin.go` | as epoll | as epoll, without `EPOLL_CTL_DEL` |
| IOCP backend | `server_windows.go` | completion port (a package variable), pins, `deadlines` | eight posted `AcceptEx`, one recv a client, sweep on time-out |
| `Conn` | `conn_unix.go`, `conn_windows.go` | a descriptor number | `Send`, `Recv`, `Disconnect` |
| HTTP on plain TCP | `httpserver.go` 49-278 | `states` map, `httpConnState` (mode, `rxBuf`, `h2`, `closing`) | `dispatchPlain`, h2c upgrade, `closeConn` |
| HTTP on TLS | `httpserver.go` 77-132, 285-340 | one goroutine per connection | `serveH2OverConn`, `serveH1OverConn` |
| HTTP/2 connection | `http2.go` | `rxBuf`, `prefaceSeen`, `streams`, header block in progress, HPACK state | `feed`, a handler per frame type, the response writer |
| Parsing | `http.go`, `httpserver.go` 342-411 | none | `parseAddr`, `parseHTTP1Request`, `parsePositiveInt` |
| Command line | `main.go` | none | |

How they interact: a backend calls `Connect`, `Data`, `Disconnect` from its loop
with a `*Conn` made afresh around the descriptor number; `HTTPServer` keeps its
state under that number (`states`); the callback may write to the number
(`Conn.Send`) and close it (`Conn.Disconnect`, from `closeConn`), after which the
loop closes it again. On TLS the loop is bypassed: a goroutine reads and feeds.

What is hard here, and what correctness means:

* **Descriptor numbers are reused.** Every map, event and `Conn` names a connection
  by a number the kernel hands out again as soon as it is closed, while other
  servers of the process, or the kernel itself with io_uring, accept connections at
  any moment. Correct: a close, an answer or a sweep reaches the connection it was
  meant for; no descriptor leaks.
* **Deadlines and the sweep** race requests. Correct: only idle connections are
  swept, every idle one is, and no stale deadline survives.
* **Callbacks** come in order and once each, on every path.
* **io_uring**: two actors, completions in any order, operations that outlive the
  descriptor they were posted for, buffers the kernel writes into.
* **IOCP**: as io_uring, with sockets that are made before there is a connection,
  aborts that come after the handle has been given to another socket, and one
  completion port variable for all servers of the process.
* **HTTP bytes come cut anywhere** while the protocol of a connection is still to be
  found out: HTTP/1, an upgrade, or HTTP/2 by its preface. Correct: the answer depends on
  what was said, not on the cuts, and a connection is closed once nothing can follow.
* **HTTP/2 bytes come cut anywhere**, streams interleave, header blocks are
  assembled over frames. Correct: each request is handled once, whole, and its own.

The full list of hazards, with the line each one bites at and the properties that
watch it, is under `hazards` in `PROJECT.json`.

## 2. Modules

| Module | What it is |
|---|---|
| `ConnLifecycle` | abstract specification: what `conn.go` promises the callbacks about one connection |
| `EpollServer` | `epollServer.Run` and `handleConn`, any number of servers in one process, the descriptor table, clients, time |
| `EpollServer_proofs` | inductive invariant and theorems about `EpollServer` |
| `MCEpollServer` | instances of `EpollServer` for TLC |
| `IoUringServer`, `MCIoUringServer` | `ioUringServer.Run`, the rings, and the kernel as a second actor |
| `IoUringServer_proofs` | inductive invariant and theorems about `IoUringServer` |
| `KqueueServer`, `MCKqueueServer` | `kqueueServer.Run`, as an extension of `EpollServer` and a refinement of it |
| `KqueueServer_proofs` | the refinement, and what it carries over from `EpollServer_proofs` |
| `IocpServer`, `MCIocpServer` | `iocpServer.Run`, the completion ports, and the kernel as a second actor |
| `MCIocpOrder` | `IocpServer` with two accept slots, narrowed to the behaviours in which an order of callbacks is decided |
| `IocpServer_proofs` | inductive invariants and theorems about `IocpServer` |
| `HttpDispatch`, `MCHttpDispatch` | `HTTPServer`: the `states` map, `dispatchPlain`, h2c upgrades, HTTP/1 on both paths, the TLS accept loop |
| `HttpDispatch_proofs` | inductive invariants and theorems about `HttpDispatch` |
| `Http2Conn`, `MCHttp2Conn` | `http2Conn`, `serveH2OverConn`, the HTTP/2 client and the byte stream between them |
| `Http2Conn_proofs` | inductive invariants and theorems about what `Http2Conn` makes of the byte stream |
| `Http2Response_proofs` | the theorem about what it answers |
| `LeastNumber` | the least-number principle, which the proofs by induction rest on |

### EpollServer

The variables follow the code: `deadlines`, `nextSweep`, `batch` (the events of the
last `epoll_wait` still to handle), `cur` (`cfd`, `fd`), `interest` (the epoll set).
`fdtab` is the process's descriptor table and the only thing servers share. One
action is one system call of a loop with the bookkeeping around it, so that another
loop, a client or the clock can act between any two calls: `Accept4` and `Register`,
`TakeClient` (`EPOLL_CTL_DEL`, `delete(deadlines)`, Connect), `ReadBytes`/`ReadNothing`,
`DataCallback`, `EarlyClose` (the callback calls `conn.Disconnect()`), `FinishConn`
(Disconnect, close), `Sweep`/`NoSweep`. Error returns are actions too: `StartFails`,
`EpollWaitFails`, `RegisterFails`, `AcceptStops` (`accept4` may fail at any time: EAGAIN,
EMFILE, ECONNABORTED; the code makes no difference between them).

`KeepsLifecycle` compares the loop with `ConnLifecycle`, which is strict: Connect, Data and
Disconnect, and no close without Disconnect but by the callback itself. The loop departs from it
in one way, `DropUnseen`: a connection no callback has been told of is closed without one, by
the sweep or because it could not be registered. The property allows exactly that step (section 3
says what `conn.go` promises instead).

Time is kept as the time left until an instant, counting down to -1 (`now.After(dl)`)
or 0 (`!now.Before(nextSweep)`), so no clock has to be bounded. `Tick` may happen
between any two steps: callbacks may take any time.

Not in the model: the descriptors of the listener and of epoll itself (never closed by
`Run`, never named by a `Conn`), the bytes of requests, the content of answers.
`stage`, `age` and `replies` are history.

### IoUringServer

`sq`, `inflight`, `cq` are the submission ring, what the kernel works on, and the
completion ring; `opMap` is the registry. `Enter` binds a submitted recv to the socket
its number names *then*; from there on the recv holds the socket, and closing the
number neither cancels nor completes it. The kernel's actions (`KernelAccept`,
`KernelRecv`, `KernelTimeout`) may occur between any two steps of the loop and in any
order. `opSeq` is a 64-bit counter that never repeats; the model draws ids from a
finite set and reuses one only when nothing refers to it, and `OpsArePinned` checks
that none is ever shared. The `opSend` branch is left out because nothing in the
program submits a send.

### KqueueServer

`server_darwin.go` is `server_linux.go` with other system calls, so the module extends
`EpollServer` and renames: `Accept` is `Accept4`, `KqueueAdd` is `Register`. One handler
differs: `HandleConn` leaves the descriptor in the kqueue while the callbacks run, and
relies on `close` to take it out. `ImplementsEpoll` is the refinement: under the mapping
that takes the descriptor in hand out of `interest`, every step of the kqueue loop is
a step of `EpollServer`.

### IocpServer

`htab` is the handle table; a handle names a connection, a `Blank` socket (made by
`postAccept` for a connection to come) or nothing. `ops` are the operations under way,
the `ioOp`s that `pins` keeps alive; `cq[p]` is the queue of a completion port. The
kernel completes an accept or a recv at any moment, and aborts one whose socket was closed
some time *after* the close, when the handle may be another socket's (`KernelAbort`, the
second disjunct of `KernelRecv`). `iocp` is read where the code reads it: in `Gqcs`, before
each wait, and in `Attach`. Failures of every call are actions (`AcceptError`,
`AttachFails`, `PostRecvFails`, `ReplenishFails`); `lost` counts the accepts the last one
costs. `TimedOut` may end a wait at any time the queue is empty: after `sweepTickMs`, or with an
error, which the loop only logs.

With two accept slots the module has too many states for TLC, and one slot hides what two do:
a handle closed by a sweep can be given to the *second* accept socket, connect, and be queued
before the first connection's aborted recv. `MCIocpOrder` keeps every action of `IocpServer` and
cuts what that order does not depend on: clients come in a fixed order and say nothing, calls
fail only where the order needs it, and no deadline passes after the first sweep.

### HttpDispatch

A client's talk (`MCHttpDispatch`) is a request line, headers, a body, the HTTP/2 preface,
frames, each a token; a `Content-Length` is a row of digits. Each read brings any number of
tokens. A connection is driven by a backend that calls `Data` once and closes (`once`: the
four backends here), by one that calls it as bytes arrive (`many`: what `rxBuf` and
`conn.go:10` provide for), or by a goroutine on TLS. The code's side (`Request`,
`ParsePositiveInt`, `DetectUpgrade`, `DispatchPlain`) looks at buffers, in the order of the
code; the properties' side (`Expected`) looks at what the talk means: a request line is a request
with or without headers, a body goes to the handler whether the request is upgraded or not, an
HTTP/2 connection begins with SETTINGS. The code departs from that in four ways (section 3), each
named in `AnsweredAsMeant`: `UpgradesWithBody`, which it leaves out; `HasPriorKnowledge`, of which
only the SETTINGS are left out; and `IsBare` and `split`, which are refused, so that of them it says
only that nothing wrong is ever sent. What TLS settles on is drawn at the
handshake, whatever the client says afterwards; of a client that then speaks the other protocol
(`~SpeaksProto`) nothing is expected but that types hold and a closed connection is silent. `int` has 64 bits, as on the
platforms built for (`.github/workflows/`), so `parsePositiveInt` cannot overflow before it tests its limit of 2^30; a
32-bit build is not modelled. A `Send` to a client that
does not read (`deaf`) fails or not. `Swept` closes an idle connection without a callback, as
the sweeps do, and leaves its state in the map. The frames of HTTP/2 are atomic here: their
inside is `Http2Conn`'s.

### Http2Conn

The client writes frames, each a row of cells; `Read(n)` delivers any number of
cells, so frames are cut in their headers, between header and payload, or come several
at a time. `feed` is modelled frame by frame (`OnSettings`, `OnHeaders`,
`OnContinuation`, `OnData`, ...), with `Complete` the test on `rxBuf` before each. A
well-behaved client interleaves two streams, splits header blocks, resets streams,
pings, says GOAWAY and closes at any point; up to `MaxRogue` frames may break the
protocol in any way the handlers distinguish. HPACK is external: a block decodes
surely when it is one of the client's, whole, and next in order, which is what the
shared compression state demands; any other may decode or not. The handler answers
with `SimpleResponse`.

## 3. Runs

Runs that hold stand beside runs marked *violated*: there a line of the repository's comments, docs or tests says what the
code does not do, and TLC finds the behaviour. Each is a finding in `PROJECT.json` that quotes the line.

Small sets are enough because every conflict is between two parties over one number
or one stream: one descriptor with two or three connections already gives reuse and EMFILE; two
descriptors give a batch of events and partial sweeps; with one accept slot and two handles
on IOCP the handle a sweep frees is the next accept socket before its abort arrives; `IdleTimeout` and `SweepTick` of
one or two units give every order of deadline, sweep and request. All runs check
deadlock: a loop that has returned stutters explicitly, or the clock goes on.

| Run | Question | Outcome |
|---|---|---|
| `epoll_one` | one server, two connections, two descriptors, callbacks that close early; fair loop and clock | holds: no leak, no stale deadline, sweep scheduled, only idle connections swept, `ConnLifecycle` implemented but for connections dropped unseen; every connection that reached the accept queue is closed |
| `kqueue_two` | two servers, three connections, one descriptor that travels between them, no early closes | holds: answers reach their asker, only the accepting server closes, `EpollServer` implemented |
| `iouring_one` | two connections over one number, sweeps, early closes; fair loop, kernel and clock | holds: operations pinned and unique, one accept and one timer always under way, ring never overrun, no leak, callbacks in order; until a sweep or a callback closes something, answers reach their asker and every waiting recv has a deadline; every client is accepted, every descriptor given back, every talker's callbacks end |
| `iouring_reuse` | the close after an early close, one server | **violated** (`server_linux_iouring.go:444`) |
| `iouring_idle` | does a silent connection end? | **violated**: its recv is never cancelled and holds the socket (`timeout.go:6`) |
| `iocp_one` | one server, two connections, two handles, one accept slot, every call may fail; fair loop, kernel and clock | holds: accept slots kept but for those a failed `postAccept` loses, no handle leaks, callbacks to their end even when swept, every connection closed; until a sweep closes a socket, callbacks come in order, a completion's handle names its connection and answers reach their asker |
| `iocp_order` | two accept slots: do a connection's callbacks stay in order after a sweep? | **violated** (`server_windows.go:247`): the aborted recv of a swept socket is taken for the connection that has its handle now, which gets Disconnect without Connect |
| `iocp_two` | two servers: are a connection's callbacks those of the server it was opened to? | **violated**: the loops share the variable `iocp` (`server_windows.go:237`) |
| `http_dispatch` | some 450 talks, every cut, three drivers, either protocol of TLS | holds, but for the four departures named below: answered as meant, closed when decided, nothing sent after the close, undecided heads bounded |
| `http2_requests` | two streams, two blocks of two frames, two DATA frames in all, on one stream or on both, every cut, at most one arbitrary frame | holds: a client that keeps to the protocol has its requests handled once and as sent, is never refused, nothing is left unread, streams are deleted; whatever it sends, no request mixes streams |
| `http2_live` | fair server, trailers, clients that leave, failing writes, response bodies of 0, 2 and 3 units with frames of 2 | holds: every complete request is handled; END_STREAM once and last, no frame too long |
| `http2_trailers` | requests with trailers | **violated**: the handler gets the trailers for headers and no body (`http2.go:43-46`) |

Bounds, by name. `Conns`, `Fds`, `Servers`, `StreamIds`: sizes above. `Backlog`,
`MaxEvents`, `SqEntries`, `ReadSize`, `MaxFrameSize`, `IdleTimeout`, `SweepTick`: the
code's constants, small enough to be reached (`SqEntries` is 3 where the code has 64,
and the ring still fits; `AcceptSlots` is 1 or, in `iocp_order`, 2 where it has 8; `ReadSize` of `HttpDispatch` is
more than any talk it reads whole, `MaxHead` one that talks fall short of, meet and pass,
`MaxLength` 12 so that lengths of one and two digits lie on both sides). `Ids`: operations alive at once, always more than there can
be. `Window`: cells under way before the client has to wait. `MaxParts`, `MaxData`,
`MaxPings`, `MaxRogue`: frames of each kind; `MaxPieces`: DATA frames of two requests
together, which keeps `http2_requests`, where an arbitrary frame may come anywhere, to some 2.5
million states. `FrameHeader` and `PrefaceLen` stand for
9 and 24 bytes: a cut falls inside the preface, and inside a frame between its header and its
payload (what is proved, 4, holds for every length). Each client sends once per
connection: the backends read a connection once. Symmetry (connections, descriptors,
servers of one kind) is used in `kqueue_two`, which checks safety only.

Fairness. A loop is one goroutine that nothing blocks for ever but its own wait, so it
gets weak fairness as a whole; the `accept4` of an epoll loop gets strong fairness, since the kernel may fail it any
number of times but not for ever when again and again a client waits and a descriptor is free; the kernel completes what it can (io_uring: each kind of
completion, recv per connection; IOCP: operations, aborts among them); time passes. Clients owe nothing: they may connect
and stay silent for ever.

`iocp_one` is fair to the loop but its clients are finitely many: a sweep that runs only when
the port is empty (`server_windows.go:238`) starves under a load that never ends, which the
model does not show.

Besides the five violated runs there are differences between what the repository says and what it does
that the properties name as exceptions, so that they hold everywhere else:

* **A silent connection is never told of.** `conn.go:16` has Connect fired "when a new connection is
  accepted" and `:11`, `:20` Disconnect "before a connection closes". epoll and kqueue fire Connect at the
  first event (`server_linux.go:148`) and sweep without a callback (`:126`). This is `DropUnseen` in
  `KeepsLifecycle`; without it TLC refutes the property with one client that says nothing. The sweep of
  io_uring is as silent, though Connect has been fired (`iouring_idle`); on IOCP the aborted recv of
  a swept connection brings Disconnect, after the close.
* **The second close of the epoll loop** "EBADF ignored" (`server_linux.go:146`, `:165`) can hit another
  server's connection: `SoleLoop` (section 4) leaves it out of what is proved, `kqueue_two` has no early
  closes. `iouring_reuse` is the same mistake with one server.
* **A late completion of io_uring**: a swept client that sends after all is answered on its old number,
  whoever has it by then (`server_linux_iouring.go:416`, `:427`); `SoundUntilShut` ends at the sweep.
* **IOCP without Disconnect**: when `postRecv` fails after Connect (`server_windows.go:285`, against
  `conn.go:11`); `unposted` in `ConnectIsFollowed`.
* **Requests without a header line are refused** (`IsBare`): `httpserver.go:343-344` asks `parseHTTP1Request`'s
  callers for just the input they give it, but the line end it looks for (`:346-349`) was cut off.
* **The body of an upgraded request** (`UpgradesWithBody`) goes to the frame parser and the handler gets nil
  (`httpserver.go:221-225`), where `http2.go:45-46` says that Body holds it.
* **No SETTINGS by prior knowledge** (`HasPriorKnowledge`): `httpserver.go:170-180` never calls
  `sendInitialSettings`, "the server's connection preface" of `http2.go:82`.
* **A preface cut after its first CRLF CRLF** (`split`) is taken for an HTTP/1 head and refused
  (`httpserver.go:182`), though `rxBuf` is there for a preface that comes in pieces.
* **GOAWAY**: `http2.go:106-107` asks the caller of `feed` to send it after a protocol violation; nothing in
  the program writes that frame, so the model's `Fail` only closes.

## 4. Proofs

`EpollServer_proofs` proves for any servers, connections, descriptors and constants
satisfying `EpollAssumption`:

* `TypeCorrect` and `SweepOnTime`, without further hypotheses;
* under `SoleLoop` (the process has one server, or no callback closes its connection):
  `Invariance` of `IInv`, and from it `DescriptorsAreHeld` (`NoFdLeak`), `NoStaleDeadline`
  (`DeadlinesAreLive`), `AnswersReachAsker`, `OthersKeepOff`
  (`ClosedByItsServer`), `SweepSparesTheRest` (`SweepsOnlyIdle`) and `ImplementsLifecycle`:
  under the mapping `Status` every step is a step of `ConnLifecycle`, a stutter or `DropUnseen`.

`SoleLoop` is not a convenience: with a second loop and a callback that closes, that loop's
`accept4` can come between the two closes of a connection and be given its number, as the
kernel's accept can with one io_uring loop (`iouring_reuse`). The second close then hits the new
connection, against the comments at `server_linux.go:146` and `:165`.

None of these is inductive. That an open descriptor is watched or in hand says nothing
of *which* server watches it, of the events still in a batch, or of callbacks already
fired; `IInv` adds: a connection has at most one descriptor, and one only after it was
accepted; a watched descriptor belongs to the watching server and carries a deadline, and
the reverse; a batch names watched descriptors only; the descriptor in hand is open,
unwatched, not in the batch, of this server, in no other's hand, and names the
connection being served, unless the callback closed it, in which case it names none; a
connection's `stage` matches where its handler stands; and a connection's age and its
deadline add up to `IdleTimeout`. The proof that a step keeps it goes action by action and
conjunct by conjunct. The action properties and the refinement then follow from `IInv`
and one step; the last, temporal step of each theorem is PTL.

**`KqueueServer_proofs`** proves `KqueueImplementsEpoll`, `KqSpec => ImplementsEpoll`, for
every value of the constants and without `SoleLoop`. The mapping takes the descriptor in
hand out of the kqueue; `SameSet` shows which moves of a loop leave the mapped set alone,
`CloseMaps` that a `close` is the same operation on both sets whichever loop had the
descriptor, and `KqStep` goes action by action, with `TypeOK` (`KqTypeCorrect`) as the only
invariant it needs. `KqAnswersReachAsker`, `KqOthersKeepOff` and `KqDescriptorsAreHeld` then
carry three theorems about the epoll loop over to this one; they inherit `SoleLoop`.

**`IoUringServer_proofs`** proves, for any connections, descriptors and ids (`IoUringAssumption`,
and `NoneIsNoOp`: the empty registry entry is not an operation), `IoTypeCorrect`,
`OpsOutliveTheirUse` (`OpsArePinned`), `NeverDeaf` (`OneAcceptOneTimer`), `FdsAreHeld` (`NoFdLeak`),
`RingNeverOverruns` (`SqFits`, from `SqEntries >= 3`; the code has 64),
`SoundBeforeAnyClose` (`SoundUntilShut`) and `CallbacksComeInOrder` (`CallbackOrder`). The invariant accounts for every id wherever it may stand: in the submission
ring, with the kernel, in the completion ring, or in the loop's hand (`UniqueInv`, `RefInv`): each
is in one place only, and is pinned in `opMap` as an operation of its kind (`KindInv`). `SqInv` bounds
the ring by what one pass of the loop can submit; `ConnInv` and `HeldInv` say who holds each socket
(the table, an accept completion not yet taken, a recv under way), which is where a leak would show;
`SoundInv` says, until a sweep or a callback closes something, that a recv's number still names
the connection it was posted for.

**`IocpServer_proofs`** proves for any number of servers, slots and handles `IocpTypeCorrect`,
`SlotsAreKept` (`AcceptSlotsKept`) and `HandlesAreHeld` (`NoHandleLeak`), and for one loop
(`SoleLoop`) `SoundBeforeAnySweep` (`SoundUntilSwept`) and `InOrderBeforeAnySweep` (`OrderUntilSwept`).
`AcceptSlotsKept` needs a count: accepts posted, in the queue or in hand, and those lost, add up to
`AcceptSlots`, for every server; `CountInv` carries it through each action with the library's
cardinality theorems. Its second half, that operations and accept sockets never outnumber what
has arrived, is what makes an unused address exist whenever one is wanted (`FreeId`, a pigeon-hole
argument). `HandInv` and `HeldInv` say who answers for each open handle. The second invariant,
`Sound`, holds until a sweep closes a socket: operations name sockets their own loop made, a
connection's stage matches where its recv stands. `SoleLoop` is needed for the reason it is needed in
`EpollServer_proofs`: TLC refutes `SoundUntilSwept` with two loops and a callback that closes.
That callbacks stay in order *after* a sweep is false with more than one slot: the step of the proof that
could not be closed, an aborted recv whose handle has a new owner, is the run `iocp_order`.

**`Http2Conn_proofs`** proves, for any streams, lengths of frames, buffers and preface, and any number of
frames (`Http2Assumption`, and `NoneIsNoStream`: an absent stream is not a stream):

* whatever the client sends: `Http2TypeCorrect`, `StreamsNeverMix` (`NoMixing`), `FeedCatchesUp` (`CaughtUp`);
* `LegalClientsAreServed` (`LegalNeverFails`), for a client that keeps to the protocol;
* of such a client, unless it sends trailers, `RequestsAreDelivered` (`DeliveredAsSent`) and
  `StreamsAreForgotten` (`StreamsAreDeleted`). With trailers the first is false (run `http2_trailers`).

The three groups need an invariant each, and each rests on the one before. All are about the *wire*: what the
client has written and `feed` has not handled, `rxBuf` and `transit` together, so that `Read` does not change
it and a cut is nowhere to be seen. `IInv` says that the cells of a frame lie together and in order, that the
first cell begins one, and that the preface is first and only there; a frame's load is its own stream's.
`BlockInv` is about the order HPACK lives by: every fragment of a header block that has not been decoded is on
the wire, all of them in the order they were encoded, nothing between the fragments of one block can end it,
and `headersBlock` is the beginning of block `decoded + 1`. A block the client has not finished is not
decoded (`InBlock # {}` implies `decoded < Len(blocks)`), which is what keeps `Open` and the last block apart.
`RequestInv` follows each stream: of its body, and its reset, what has not been handled is on the wire, in
order and behind the header block; END_STREAM is on the last piece and on no other; what the table keeps of a
request is what was sent of it; a request that has been handled is over. The step of the proof for a frame of
one kind shows what taking it off the wire does to each of these; the steps of the client, what adding one does.

**`Http2Response_proofs`** proves `EveryResponseEnds` (`ResponsesEndOnce`) for bodies of every length. The loop
of `WriteData` is a recursive function, and what it computes is shown by induction: the library's induction
theorems take an operator that the provers cannot instantiate, but the statement that a well-founded
relation has minimal elements (`WFMin`) takes a set, and from it `LeastNumber` gets the least counterexample.
That the recursive definition defines anything (`WriteDataIsOnce`) is proved the same way.

**`HttpDispatch_proofs`** proves all four properties of `http_dispatch` for any talks, cuts, drivers and sizes of
buffers (`DispatchAssumption`, and `NoneIsNothing`): `DispatchTypeCorrect` (`TypeOK`), `ClosedIsSilent`
(`SilentOnceClosed`), `TalksAreAnsweredAsMeant` (`AnsweredAsMeant`) and `DecidedIsClosed` (`ClosedWhenDecided`).
Of the sizes it is assumed only that the preface fits `MaxHead` (`MaxHead >= 6` tokens; 24 bytes of 64 KiB in the code).
`MaxLength` is any positive number, the code's `1<<30` among them.

The first two need `IInv`, one predicate of the ten values that make up a connection (`Conn`); beyond types
it says that a connection whose descriptor has been closed either has been served or has a state that is
closing, and a TLS one that has not been served is open. `DispatchIsGood` shows for every branch of `dispatchPlain`
that it leaves such a state, and that one that is closing stays as it is; the frames of a read go by
induction (`HandleAllOutcomes`).

The other two need a second invariant, `AllMeant`, for neither is inductive: that an answer is right says nothing
of the bytes that have come and not been answered. `Meant` ties them together. As long as g tokens of an HTTP/1
talk do not settle its answer (`Pending`), the buffer holds exactly those g tokens (`Pre`), nothing has been sent, and
the mode is undecided before the end of the head and `http1` after it; once they do, the connection is closing and has sent
`Served`, the answer to the request as the code reads it. An HTTP/2 stream has been fed up to token g, and what was sent is what the frames before g call for
(`Sending`, `Fed`); an upgraded connection has sent the 101, SETTINGS and the answer to stream 1 before that (`PlainUp`).
A key without a connection has a fresh state or none, which is why a sweep that leaves it behind does no
harm. TLC checked `AllMeant` on every state of the instance of `http_dispatch` before it was proved.

Most of the proof is about one question: what do the code's parsers make of *any part* of what a client says, when the
properties ask what the talk means? `HeaderEnd` finds nothing before the whole head is there and its end from
then on; `Request` accepts exactly the talks of which `Parses` holds; `HeaderValue` finds the first `Content-Length`; `DetectUpgrade` holds
exactly for `IsUpgrade`; `ParsePositiveInt` returns n exactly if the digits denote n and n is at most `MaxLength`
(`Denotes` says it by division, the parser computes by multiplication; the proof goes by induction on the digits);
`FeedStep` says that feeding a stream in two pieces is feeding it at once. The induction principle is `LeastNumber` throughout.
`SentTo` is what a client is sent by that account. Only the last step compares it with what the talk means: `SentIsMeant` shows
that it is `Expected`, less the SETTINGS of prior knowledge, of every talk that is neither `IsBare` nor `UpgradesWithBody`,
`BareIsRefused` and `HalfwayStep` that requests without header lines and split prefaces are sent nothing,
and `LackingAsMeant` that a connection waits for exactly the bodies that are still short.

Only model-checked: liveness (`http2_live` and the progress properties of the loops), which is out of the prover's reach
as is `ENABLED`. Every invariant and every action property that a passing run checks is also a theorem, under the
hypotheses named above.

## 5. Plan, and what is not modelled

Done, in order of importance: `ConnLifecycle`, `EpollServer` and their proofs; `IoUringServer`;
`Http2Conn`; `KqueueServer`; `HttpDispatch`; `IocpServer`; the disagreements met on the way as
runs, one for each cause; the proofs for `EpollServer`, `KqueueServer`, `IoUringServer`, `IocpServer`, `Http2Conn` and
`HttpDispatch`. Left:

1. A byte-exact `Conn.Send`: on the non-blocking sockets of epoll and kqueue a full buffer cuts
   an answer short (`conn_unix.go:13`). Today a write is whole or fails.

Hazards no property covers are listed with the reason under `hazards` in `PROJECT.json`. Others
the models leave out: nothing bounds the number of streams, `headersBlock` or a body
(`http2.go:216`); `Run` returning leaves its descriptors open (`server_linux.go:88`), and any
error of `Accept` ends `ListenTLSConfig` (`httpserver.go:110`), where nothing says what should
happen; completions beyond the ring's size are dropped by kernels before 5.5.

Not modelled: `parseAddr` (runs once, before there is a socket), `parseRequest`, `buildResponse`, `main.go`
and the demo handlers (no state), a handler that writes an HTTP/2 response piece by piece, tests,
slides and the stress script, `crypto/tls` and HPACK (external), the mmap layout of the rings,
`postSend` and the two `opSend` branches (nothing calls them).
