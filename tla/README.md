# A specification of proto-test

`src/src/main.cpp` is the whole program: a load generator and echo server that measures
round-trip times over MsQuic streams or over SCTP associations, with or without DTLS.  This
directory holds TLA+ models of it, the TLC runs that check them on small instances, and theorems
that hold for every value of the constants.  Line numbers below are lines of `src/src/main.cpp`.

## 1. The system

| Part | Lines | State it keeps | Operations |
|---|---|---|---|
| SCTP load client controller (`LoadClientController`) | 1571-2045 | per connection: `send_closed`, `next_stream_ordinal`, per stream `next_sequence`, `echoed_messages`, receive buffer; `closed_connections_`, `stop_sending_`, pacing clocks, `mutex_` | `OnConnected`, `OnData`, `OnClosed`, `PumpSends`, `RequestStopSending`, `WaitUntilDone`, `ForceShutdownAll`, `PacerLoop` |
| SCTP client runner and transport | 2286-2560 | deadline, drain deadline, connections, poll thread | `Run`, `Start`, `Stop`, `PollLoop` |
| SCTP connection (`SctpConnection`) | 1057-1494 | `fd_`, `closed_`, `send_closed_`, `pending_sends_`, `send_close_requested_`, `send_mutex_`/`send_cv_`, `ssl_mutex_` | `SendCopy`, `CloseSend`, `Close`, `Join`, `SendLoop`, `ReceiveLoop`, `HandlePollEvents` |
| SCTP server | 1496-1569, 2047-2284, 2457-2502 | `listeners_`, accept threads, `connections_` (transport), `connections_` (controller), `stopped_` | `Start`, `Stop`, `AcceptLoop`, `PollLoop`, echoing `OnData` |
| MsQuic client | 2950-3509 | connection and stream contexts under one mutex per connection, `active_connections_`, pacer | `Run`, `PumpSends`, connection and stream callbacks, `ForceShutdown`, `WaitForConnectionsToClose` |
| MsQuic server | 2696-2948 | stream contexts: pending sends, peer shutdown | listener, connection and stream callbacks |
| DTLS over SCTP | 916-1055, 1107-1165, 2220-2270, 2352-2404 | `SSL` objects, one poll thread per transport | handshake, `HandlePollEvents`, `PollLoop` |
| Pacing clocks | 1771-1804, 1893-1973 | next send times | due tests, taking a slot, reset after a stall |
| Framing | 480-514, 1525-1536, 1653-1671 | receive buffers | header, `TryPeekFrameSize`, reassembly |
| Statistics | 542-824 | counters, RTT samples | add, snapshot, percentiles, summary |
| Configuration | 141-477 | `AppConfig` | parsing and validation |

How they interact.  On the SCTP client, `Run` (the main thread) starts the transport, which connects,
calls `OnConnected` and then starts a receive thread and a send thread per connection.  The receive
thread calls `OnData`, `OnPeerClosed` and `OnClosed` of the controller.  The controller answers with
`PumpSends`, which decides under `mutex_` what to send and calls `SendCopy` and `CloseSend` *after*
unlocking.  `SendCopy` only queues; the send thread writes to the socket.  With a rate, a pacer thread
calls `PumpSends` instead of the receive threads.  When the duration is over, main sets
`stop_sending_` without a lock, calls `PumpSends(id, 0)` once per connection, waits for the
connections to drain and close, and after at most the drain timeout closes them by force, joins all
threads, stops the pacer and prints the summary.  A signal sets `g_stop_requested`, which everybody
polls.  The server echoes every complete frame from its receive thread.

With DTLS a connection has no threads.  One poll thread a side (`PollLoop`, every 5 ms, or as soon as
`poll` reports) reads all connections, and `SendCopy` writes to the socket on the thread that calls it,
holding `ssl_mutex_`, waiting while the socket is full.

The MsQuic client and server are driven by callbacks on the library's worker threads.  `PumpSends` of
the client runs under the mutex of its connection, from the handlers, main and the pacer; the handlers
close the handles, outside that mutex.

What is hard here:

* `PumpSends` of the SCTP client is entered by main, receive threads and the pacer, and the part that
  touches the connection is outside the lock;
* `stop_sending_`, `closed_`, `send_close_requested_` and `g_stop_requested` are atomics that change
  between two looks of the same function;
* the last echo of a connection and the stop of sending race, and one of them has to notice that the
  connection is drained;
* `Close` has three callers, and stores its flag without the mutex of the condition variable its
  waiter sleeps on;
* `OnClosed` may come twice, and `OnData` may come after it;
* on the server, a connection may be accepted while `Stop` runs;
* a QUIC handle is closed by one thread while another is about to use it;
* a server stream may be told that its peer is finished while frames are in its hands, queued or
  completing, and has to shut down exactly once, after the last;
* with DTLS the thread that reads is also a thread that blocks in writes, on both sides;
* a send clock has to survive a stall without a burst, although threads use a stale time.

`PROJECT.json` lists the hazards at their lines, with the properties that cover them.

## 2. The modules

| Module | What it is |
|---|---|
| `EchoSession` | abstract specification of a client: every stream is a window-limited echo session; a connection finishes only after the stop and when everything came back |
| `LoadClient` | the SCTP load client, in detail; implements `EchoSession` |
| `SctpConnection` | one plain SCTP connection: send queue, condition variable, partial writes, teardown |
| `LoadServer` | the plain SCTP server: accept threads, connections, `Stop` |
| `QuicClient` | the MsQuic client, in detail; a second implementation of `EchoSession` |
| `EchoPeer` | abstract specification of a server: a stream gives back no frame it did not get, and finishes only after its peer has finished and every frame went back |
| `QuicServer` | the MsQuic server, in detail; implements `EchoPeer` for each stream |
| `TlsEcho` | DTLS over SCTP: client, server and the bounded sockets between them, composed |
| `Pacing` | the send clock |
| `Framing` | frames cut out of a byte stream |
| `Stats` | counters under races, and the summary made of them |
| `Parts` | `Pacing`, `Framing` and `Stats` side by side, for one run of the three |
| `MCLoadClient`, `MCQuicClient`, `MCTlsEcho` | values for the constants of those modules |
| `LoadClient_proofs`, `SctpConnection_proofs`, `LoadServer_proofs`, `QuicClient_proofs`, `QuicServer_proofs`, `Pacing_proofs`, `TlsEcho_proofs` | theorems about those modules |
| `Parts_proofs` | theorems about `Framing` and `Stats` |

Operators under a comment `Mutant:` are deliberately wrong variants of the definition that
follows them; nothing in the model uses them.  Each property is tried against one of them.

### LoadClient

One variable per field, under the field's name in camel case (`nextSequence`, `echoedMessages`,
`sendClosed`, `closedConnections`, `stopSending`, `pacerStop`, `mutex`), and one program counter per
thread (`mainPc`, `pacerPc`, `recvPc[c]`, `senderPc[c]`).  A call of `PumpSends` by thread `t` is
`phase[t]`, `batch[t]` (the local vector of frames) and `closing[t]` (the local `should_close`):

    PumpRefused / PumpEnter     the lock and the early returns
    PumpSelect                  one turn of the loop that picks a stream and builds a frame
    PumpFilled                  the loop is left
    PumpDecide                  drained and stopped? set send_closed; unlock
    PumpSend                    SendCopy of one frame, without the lock
    PumpReturn                  CloseSend if it was decided

Critical sections whose effect is one assignment (`OnData`, `OnClosed`, `WaitUntilDone`) are one
action that needs `mutex = Nobody`; the atomics are read where the code reads them, each in a step of
its own where two reads can differ.  `MainDeadline` .. `MainDone` follow `Run` and `Stop` statement by
statement.  A connection appears by its effects: `accepted` counts the frames in its queue or beyond;
`closed` is `closed_`.  Which stream comes next is exact (rotation from `nextOrdinal`, first open
window, a stream with a rate may not be due); *when* a slot is due is nondeterministic.  A delivery
completes `k` frames of one stream, `k = 0` being a fragment.  `OnDataThrows` is a piece with foreign bytes
behind `k` frames: these are counted (1666), then `TryPeekFrameSize` throws (505) past the `PumpSends` of that
call, and the receive thread goes on to `Close` and `OnClosed`, as it does when `recvmsg` fails (`RecvFails`).

Deliberately wider than the code: a frame that `SendCopy` queued after the send thread has ended (a
signal, a failed send) may still be echoed.  Every behaviour of the code is included; the safety
properties are shown for more.

### SctpConnection

`SendLoop` is split at every shared read: `SenderTop` (the loop condition), `SenderLock`, `SenderTests`
(the wait predicate), `SenderBlocks` (the sleep), and so on.  The predicate and the sleep are two steps
because a condition variable makes them atomic only against threads that hold `send_mutex_`, and
`Close` and `CloseSend` do not.  A frame has `FrameUnits` units, of which `sendmsg` may take any number.
`Close` is `AlreadyClosed`, `CloseNotify`, `CloseShutdown`, `CloseFd` for each of its three callers.

### LoadServer

Accept threads (`acceptPc`), receive and send threads, and main in `Run`, `Start` and `Stop`.
`connections` is the map of the transport, `states` that of the controller, which `OnData` and
`OnClosed` change from two threads.  Frames are counted instead of told apart.  The client is external:
it sends, sends foreign bytes (`OnDataThrows`: the frames cut before them are gone with the vector that held
them), fails (as `RecvFails`, `SenderFails`), and half-closes when all its frames came back, which is
`CloseAfterDrain` of `LoadClient`.

### QuicClient

A thread is main, the pacer, or the MsQuic worker of a connection.  `pump[t]` is the place of thread
`t` in `PumpSends`, which holds `mutex[c]` of its connection from the head to the return and is split
at the API calls inside it; `worker[c]` is the place of the worker in an event handler, split where
the handler takes the mutex, pumps, or closes a handle.  `mainPc` is `Run`: start the connections, wait
for the end of the duration or a signal, stop and pump each connection, wait, force the rest, wait again,
close and join.  `RunEnds` is about all of it: `Run` returns or throws.  A configuration (`Configs`) says
whether the run is paced and whether it is `faulty`: sends and starts fail, peers abort streams and
connections, signals arrive and timeouts expire.

MsQuic is external and appears by its events, as far as the client relies on them: the events of one
connection come one at a time and never from inside an API call; a stream that was not started gets no
`SHUTDOWN_COMPLETE`; nothing follows a `SHUTDOWN_COMPLETE`; the first shutdown decides.  A call on a
closed handle has no effect in the model.  `OpenHandles` shows that the event handlers make none, and that
nobody calls `StreamShutdown` on one.  It does not cover the `StreamSend` of the pacer nor the
`ConnectionShutdown` of the pacer and of main, which can meet a closed handle (section 4).

The end of a connection is `ConnectionClose`, then `CountDown` (`fetch_sub`, 3367), then `NotifyAll` (3368):
main's waits read the counter without a lock the handler would take, so `Run` may return between the two.

### QuicServer

`RECEIVE` is in three parts: `OnReceive` counts the frames of the event in `pending_sends` under the
context's mutex, `StreamSend` (or `StreamSendFails`, which ends the handler and leaves the count) hands them
over without it, `ReceiveEnds` calls `MaybeShutdownStream` under it again.  `SEND_COMPLETE` may run between
any two of these steps, the other events of the stream only when its handler is idle.
`MaybeShutdownStream` is one operator, used by the three handlers that call it.  `Run` opens the listeners,
waits for a signal and closes them; `RegistrationClose` then waits for the connections, hence
`mainPc = "destroy"`.

### TlsEcho

Both sides in one module.  The threads are main and the pacer of the client and the two poll threads.
`call[t]`, `conn[t]`, `hand[t]` and `shouldClose[t]` are the call of `SendCopy` (and of `CloseSend` after
it) that thread `t` is in: a thread with frames in its hand and no room in the socket waits, in
`SSL_write_ex` with `ssl_mutex_` held (the sockets are blocking), or in `WaitForSocketReady` without it.
`wire[s][c]` counts the frames on their way to side `s`, at most `Capacity`.  A poll thread takes what
`poll` reported (`readable`, `hungUp`), reads in `HandlePollEvents` until nothing is left, and echoes or
pumps inside.  `Publishes` is the accept thread; `ServerStops` is the server's `Stop`, which joins the
poll thread before it closes a connection.  OpenSSL and the network are external: a record is a frame,
the handshake is over when a connection appears, and no connection breaks.

### Pacing, Framing, Stats

`Pacing` has time (`now`), the reading a thread works with (`seen`, possibly old; `fresh` until it was used)
and the clock (`nextSend`).  Slots are counted in units of time.  An observer (`since`, `before`)
starts to count at an arbitrary instant, so that an invariant speaks of every interval.

In `Framing` a byte is its position in the stream; the sender's frames have sizes, one of them may lack the
magic, and `arrived` grows by any amount.  The receiver's loop (`TryPeekFrameSize`, cut, hand over)
is the same in the four receivers, but for the fallback size.

`Stats` has the totals (atomic), the metrics of a stream (a load and a store, echoes under `mutex_` and sends
without it) and the samples, of which `Snapshot` computes percentiles and buckets.

## 3. What the runs check

| Run | Instance | Properties |
|---|---|---|
| `unpaced` | `LoadClient`: 2 connections, 1 stream, window 2, 3 messages; signal and failures anywhere | `TypeOK`, `CloseAfterDrain`, `CloseCarriedOut`, `WindowKeptFull`, `LastEchoCloses`, `HandOffInOrder` |
| `total` | `LoadClient`: total rate, 2 connections to 2 servers, one selected for sending | `QuietAfterJoin`, `ImplementsEchoSession` |
| `ends` | `LoadClient`: rate per client, 1 connection, fairness | `RunReachesJoin` |
| `drains_paced` | `LoadClient`: one stream with a rate of its own, one without; a server that echoes, fairness | `InflightBounded`, `StopClosesAll` |
| `per_connection` | `LoadClient`: 2 streams, window 2 | `MaxInflightPerConnection`, violated: see findings |
| `connection` | `SctpConnection`: 3 frames of 2 units, fairness | `WireInOrder`, `HalfCloseAfterLastFrame`, `NoStrandedPush`, `OneTeardown`, `QueueDrains` |
| `join_returns` | `SctpConnection`: 2 frames of 2 units, fairness | `JoinReturns`, violated: see findings |
| `server` | `LoadServer`: 1 listener, 2 connections, 1 frame each, fairness | `EchoesConserved`, `NoStaleState`, `StopLeavesNothing`, `SignalStopsServer`, `EchoReturns` |
| `quic` | `QuicClient`: 7 configurations, with two streams or two connections, paced or not, faulty or not; window 1, 2 messages; fairness | `TypeOK`, `OpenHandles`, `CloseAfterDrain`, `WindowKeptFull`, `QuietAtEnd`, `ImplementsEchoSession`, `RunEnds` |
| `quic_server` | `QuicServer`: 2 listeners, 2 connections with a stream of 2 frames each, fairness | `PendingDecides`, `ImplementsEchoPeer`, `StreamsFinish`, `SignalEndsServer` |
| `parts` | `Parts`: interval 2, time up to 20; 3 frames of sizes 2, 3, 5; 2 receivers and a sender | `RateKept`, `BurstBounded`, `FramesWhole`, `SummaryAddsUp`, `PercentilesNearest` |
| `tls` | `TlsEcho`: 5 configurations, sockets of one frame a direction, fairness | `NoMutualBlock`, `ClientEnds`, `ServerEnds` |

Each property is stated and explained where it is defined.

*Bounds.*  `MaxMessages`, `MaxFrames`, `MaxConnections`, `MaxTime`, `MaxCalls`, `FrameCount` and the
`messages` of a `TlsEcho` configuration bound the models (the code stops by time); all other constants
are parameters of the program or of its environment.

* Two connections are enough for everything that relates connections: they meet only in `mutex_`,
  `closed_connections_` (`active_connections_` in QUIC) and the pacer's rotation.
* In `unpaced` a window of two with three messages makes the window close, open and close again and gives
  batches of two, so that a second `PumpSends` runs while frames of the first are in hand.  In
  `drains_paced` two streams with different windows and rates make the rotation matter.
* Three frames of two units let the send thread be interrupted inside a frame with others behind it.
* One listener and two connections let one connection run while the accept thread is between accepting
  and publishing the other when `Stop` comes; two listeners, with a thread blocked each, are in the
  proofs, which hold for any number.
* `quic` has both streams of one connection (rotation, two handles to close, drained one after the other)
  and two connections (the count of `active_connections_`), the latter also faulty.
* In `quic_server` one frame completes while another is being handed over or refused, and one connection
  is shut down while the other drains; two listeners make a start that fails half way, and a stop that
  closes only some of them, possible.
* The windows of `tls` are 3 and 4 on one connection with `Capacity = 1`, on both sides of the limit
  `2 * Capacity + 1` of `Fits`; and 1 on two connections, where the limit is `Capacity`.
* The sizes of `Framing` cover a header alone, a frame as long as the fallback, and longer ones, each
  also first and last; every way of cutting the bytes is taken.
* In `Pacing`, 20 units are ten intervals, enough for a stall beyond the four intervals that reset the
  clock and the burst that follows.

No symmetry is used: ids order the loops of main.

*Fairness* (only the temporal properties use it).

* `LoadClient`: every thread keeps running.  A thread that waits for `mutex_` gets it in the end, hence
  strong fairness on the steps that need it: nobody holds `mutex_` across a sleep or a blocking call, and
  the steps under it are bounded.  The drain deadline and the deadline pass (`MainDeadline`, `MainLeaves`
  in `FairSpec`), because `Run` polls its clock every 200 ms.  No fairness makes a frame come back, except
  in `EchoingSpec`, whose subject is a server that echoes; none makes a failure or a signal happen.
* `SctpConnection`: every thread keeps running, and `sendmsg` on a socket that was shut down fails; no
  fairness wakes a condition variable without a notification.
* `LoadServer`: the threads keep running; `accept` returns on a listener that was shut down.
* `QuicClient`: main, the pacer and the handlers keep running.  Events come (frames return, shutdowns
  complete) only in configurations that are not faulty; in faulty ones main has to end on its deadlines.
* `QuicServer`: main and the handlers keep running, sends complete, and streams and connections that are
  shut down complete, as MsQuic promises.  A connection must end only once main is in `RegistrationClose`:
  the client's end or the idle timeout ends it.
* `TlsEcho`: strong fairness on main, the pacer and the poll threads, because they wait for `ssl_mutex_`,
  which the blocking reader gives up after the receive timeout of 200 ms; weak fairness on publishing an
  accepted connection and on the server's `Stop`.  Deadlines pass, as above.

*Termination.*  Every model but those of `parts` ends in a step that stutters (`Terminated`, `Ended`), so
deadlock is checked in every other run: no thread is stuck before the program's end in a state where nobody
can move.  `Ended` of `QuicServer` includes a main that waits in `RegistrationClose`, since a listener that a
failed start left open is closed by nobody.  The parts simply come to rest when their input is used up, which
is why that run does not check deadlock.

## 4. What is proved

Every safety invariant and every refinement that a run checks on a small instance is a theorem for all
instances.  The theorems leave the constants arbitrary but for the named assumptions of the modules: counts
are positive, bounds are natural numbers, and what `LoadConfig` enforces (windows are positive; profile
rates exclude a global or per-client rate; no message is shorter than its header).

**`LoadClient_proofs`**: `TypeCorrect` (`TypeOK`), `InductiveInvariant` (`IInv`), `WindowRespected`
(`InflightBounded`), `HandedOverInOrder` (`HandOffInOrder`), `ClosedAfterDrain` (`CloseAfterDrain`),
`EchoSessionImplemented` (`ImplementsEchoSession`).  None of the properties is inductive alone: the
window of a stream depends on who holds `mutex_`, the order of the hand-over on there being only one
thread with frames of a connection in its hands.  `IInv` adds

* `PumpCalls`: which thread can be in `PumpSends` at all, and for which connection.  Main pumps in
  `OnConnected` before the receive thread exists; receive threads pump only if nothing is paced; the pacer
  exists only if something is;
* `LockHeld`: `mutex_` is held exactly from the entry to the decision;
* `BatchesHeld`: frames in hand are produced, not handed over, and in order within a stream;
* `NoFrameLost`: every produced and not handed over frame of an open connection is in some hands;
* `CloseDecided`: who has set `send_closed`, and on what ground.

From `PumpCalls` follows `OneHolder`: two threads never hold frames of one connection at once.  (This is
not because of the lock, which is free by then, but because of who calls when.)  With `BatchesHeld` and
`NoFrameLost` it gives `NextFrameFirst`, which is the order of the hand-over.  `CloseAfterDrain` follows
because a drained connection has no frame that anybody could hold.  The refinement maps `sent` to
`nextSequence`, `echoed` to `echoedMessages`, `stopped` to `stopSending`, `finished` to `sendClosed`; only
`PumpSelect`, `OnData`, `OnDataThrows`, `MainDeadline` and `PumpDecide` are not stuttering.

How the client ends needs a second invariant over the first, `EndInv` (`SecondInvariant`), which says what
the loops of `Run` have left behind them: `ConnectedFirst` (which connections are open while `Start` runs,
and that all are once it is over), `ThreadsJoined` (whose receive and send threads have ended, at each place
of the joins), `CloseKept` (the thread that set `send_closed` has the close on its way, and is the only
one), and two that follow a connection across the stop.  `WindowSeen`: as long as a window of an unpaced
client is open, some call of `PumpSends` has not finished looking at it, or the receive thread has left its
loop to close the connection.  `DrainSeen`: once the run is stopped, a drained connection is half-closed, or
main has not come to it, or a call that is still before its decision will find it drained, or, again, the
receive thread has left its loop.  (`OnDataThrows` needs these exceptions; they are stable, `LeftForGood`.)
It is here that `RequestStopSending` racing with the last echo is decided,
since `stop_sending_` is written before main looks at the first connection.  From these:
`DecisionsCarriedOut` (`CloseCarriedOut`), `WindowStaysFull` (`WindowKeptFull`), `LastEchoDecides`
(`LastEchoCloses`), `QuietAfterTheJoins` (`QuietAfterJoin`).

**`SctpConnection_proofs`**: `WireKeepsOrder` (`WireInOrder`), `HalfCloseIsLast`
(`HalfCloseAfterLastFrame`), `PushWakesSender` (`NoStrandedPush`), `TeardownIsOnce` (`OneTeardown`), for
frames of every length, in every number.  The invariant says where every unit of every frame is (out, left
of the frame in hand, queued), that a send thread asleep over a frame is owed a notification by a thread
that still has to give it, and how far each caller of `Close` is, only one being past the exchange of
`closed_`.

**`LoadServer_proofs`**: `EchoesAreConserved` (`EchoesConserved`), `StateIsFresh` (`NoStaleState`),
`NothingIsLeft` (`StopLeavesNothing`), for any number of listeners and connections.  The invariant has
the frames of an open connection (written, being sent, queued, in hand: together those read, until the
receive thread is about to close it, when an `OnData` that threw may have lost some), the ids
(two accept threads never hold the same one, and the threads of a connection start after its id is in the
map), where each accepted connection is that main will have to join, and what `Stop` has done so far.

**`QuicClient_proofs`**: `TypeCorrect` (`TypeOK`), `OpenHandlesKept` (`OpenHandles`),
`StreamsCloseAfterDrain` (`CloseAfterDrain`), `WindowStaysFull` (`WindowKeptFull`), `QuietWhenRunReturns`
(`QuietAtEnd`), `EchoSessionImplemented` (`ImplementsEchoSession`), for every number of connections,
streams and messages and every set of configurations.  The invariant has

* `CallsPlaced` and `MutexHeld`: which threads are in `PumpSends`, and that the mutex of a connection is held
  by exactly that thread, or by main in `ForceShutdown`;
* `EventsInOrder` and `StreamLives`: what the events of a connection have told so far, and that a stream
  handle is closed only by the worker of its connection, after its `SHUTDOWN_COMPLETE`;
* `Found`: what a call has found out about a stream under the mutex (its window is open, it is not
  closed) is still so when it acts on it.  For the pacer the second half is false, since the worker
  closes a stream without the mutex of the connection: for this reason `OpenHandles` excludes its `StreamSend`;
* `FramesOf`, `Drained`, `WindowShut`: the window, what a shutdown was based on, and that no window is open
  between two calls of an unpaced client;
* `ActiveCounted`: `active_connections_` is the number of connections that have not counted down.

`QuietAtEnd` follows from `ActiveCounted`: when the count is zero, no connection is left with a handle open
or with a handler that has more to do than its `notify_all`.  That last call is a real exception (section 5).
The refinement is the one of `LoadClient`, with the same abstract module.

**`QuicServer_proofs`**: `PendingIsExact` (`PendingDecides`), `EchoPeerImplemented`
(`ImplementsEchoPeer`).  The invariant: until `StreamSend` refuses a frame, `pending_sends` is exactly the
frames in the handler's hands and those not completed, and afterwards it stays above them; so zero means
that every frame went back and completed, and only then is the stream shut down.

**`Pacing_proofs`**: `RateIsKept` (`RateKept`), `BurstIsBounded` (`BurstBounded`), for every interval.
The clock is never behind `start + slots`, since taking a slot moves it by an interval at least: that is the
rate.  A slot taken on a reading not older than the observer's instant leaves the clock at most four
intervals behind it (`ClockNear`): that is the burst.

**`TlsEcho_proofs`**: `NeverMutuallyBlocked` (`NoMutualBlock`), for every number of connections, window and
capacity.  Frames on the wire and in hands are outstanding at the client, and the window bounds those.
Two mutually blocked threads on one connection need both directions full and a frame in hand each, that is
`2 * Capacity + 2` frames; on two connections, one direction full and a frame in hand.

**`Parts_proofs`**, on `Framing`: `FramesAreWhole` (`FramesWhole`), for every number of frames, all sizes that
`SizesFit` admits and every fallback.  The invariant: the buffer begins where the next frame begins, the
cut frames are a prefix of the sent ones, and what has arrived never exceeds the end of the last frame; since
frames do not overlap, the header at the front of the buffer is that of the next frame and of no other.
On `Stats`: `SummaryIsRight` (`SummaryAddsUp`), for every number of receivers, from two facts.  `EchoesCounted`:
a thread between the load and the store of an echo has `mutex_`, so its load is not old.  `SendsCounted`: no
store of a send is above the total, and the only sender of a paced client finds its own count.
`PercentilesAreNearest` (`PercentilesNearest`) holds for every sequence of latencies: the rank of
`PercentileIndex` is the nearest (integer arithmetic), the value of rank `k` has fewer than `k` below it and
at least `k` up to it (an injection from those ranks), and the buckets partition the samples.

Two of these proofs need induction, on where a frame ends and on how many samples are sorted.
`ReachesEnd` gives it for a set of numbers instead of a predicate, without the operator parameter of the library's
induction theorems: a set that has 0 and goes on from each `m < n`, but lacks `n`, could be mapped one to one
into itself without 0.  With it `end` is shown to be well defined, and every sequence to have a sorting
(`RankingExists`), so that the `CHOOSE` of `Ranked` chooses one.  `Framing` adds sizes with a recursive
function, and `Stats` ranks its samples by a bijection, because the folds and `SortSeq` of the library
cannot be expanded in a proof.

`InductiveInvariant` and `TypeCorrect` are theorems of all but `Pacing_proofs` and `Parts_proofs`; for `SctpConnection`,
`LoadServer`, `QuicServer` and `TlsEcho` the types are proved for every instance, and no run repeats them.

Only model-checked: liveness (`RunReachesJoin`, `StopClosesAll`, `QueueDrains`, `EchoReturns`,
`SignalStopsServer`, `RunEnds`, `StreamsFinish`, `SignalEndsServer`, `ClientEnds`, `ServerEnds`), since
fairness and ENABLED are outside what the prover handles.  The two properties the code violates (section 5)
are counterexamples, and there is nothing to prove.

## 5. Findings

1. `--max-inflight` is per stream, not per connection as the usage text says (270): `PumpSends`
   compares the outstanding messages of each stream with the limit (1957), so that `N` streams have
   up to `N` times as many.  Run `per_connection`.
2. `Close` stores `closed_` and notifies without `send_mutex_` (1244-1247).  A send thread that has just
   found its predicate false (1261-1265) and is not yet asleep misses both; it then sleeps for good, `Join`
   does not return and the summary is never printed.  Run `join_returns`.  `CloseSend` (1234-1235) has the
   same gap: the half-close can be missed, and the connection stays open until the drain deadline.
   For this reason `RunReachesJoin` and `SignalStopsServer` go as far as the joins and not beyond.

Noted while modelling, and not stated as properties, because no document of the repository says otherwise:

* With DTLS the two ends block each other when the windows are larger than the sockets: on one connection
  from a window of `2 * Capacity + 2` frames on, on several already from `Capacity + 1`.  While main is still
  inside `Start`, and the client's poll thread does not exist yet, this is final, since `Run` does not come
  to its deadlines (the run would hang); later the forced `Close` after the drain timeout frees the
  writers.  On the server `Stop` joins the poll thread (2112) before it closes the connections that
  may block it.  `NoMutualBlock`, `ClientEnds` and `ServerEnds` are conditional on `Fits` for this reason.
* The handler of `SHUTDOWN_COMPLETE` uses `done_cv_` (3368) after it has lowered `active_connections_` (3367),
  and takes no `done_mutex_`: `Run` can return and the client be destroyed before the handler notifies.
  `QuietAtEnd` allows this one call.
* An `OnData` that throws at a foreign frame (505) has counted the frames before it (1666) and does not pump
  (1673-1674); on the server the frames it has cut are not echoed (1525-1539).  Both end the connection.
  In the MsQuic client and server the same exception would leave a callback of the library, which is not modelled.
* A DTLS connection is published to the server's poll thread (2205) before `OnConnected` (2207) knows it.
* A failed `accept` ends its listener's thread for good (2189-2191); the error path of `AcceptLoop` closes a
  descriptor the connection may already own (2214); the transport of the server keeps closed connections
  until `Stop`; the server drops its send queue at the end of the client's data (1436-1443), which loses
  nothing only because this client half-closes when drained.

## 6. Plan

What is left, in order of importance:

1. More facts over the invariants at hand: that a connection of `QuicClient` counts down once, and the safety
   halves of the liveness properties (what a thread that waits still has to be woken by).
2. The descriptor table of a process, for `recvmsg`, `sendmsg` and `poll` on a descriptor that another thread
   has closed and the kernel has given out again.
3. `MsQuic` events during a `ConnectionOpen` that throws: `StartThrows` ends the model where the unwinding
   begins.
4. The lifetime of `SendBuffer` between `StreamSend` and its completion.

## 7. Not modelled

* The MsQuic bindings (2562-2694) only call the library.
* `SctpTlsContext` (916-1055) sets up OpenSSL and runs the handshake; it has no state of its own that
  outlives a call.  The SSL branch of `ReceiveLoop` (1372-1405) is run by no thread: a DTLS connection
  is read by the poll thread.
* The parsing of options.  What `LoadConfig` enforces is in the assumptions; what it does not (16-bit
  casts of ports and stream ids) is listed under the hazards.
* `StatsPrinter` and the formatting of the summary read and print.
* The benchmark scripts and their recorded results, the container image, CI and the generated build tree
  have no state that lives across steps.
* Memory: the lifetime of buffers and the order in which members are destroyed, `std::bad_alloc` and
  threads that cannot be started; data races that are undefined behaviour on a `std::vector` (the QUIC
  client's samples).  A sanitizer is the tool for these.

## 8. Running it

    tlc -config MCLoadClient_unpaced.cfg MCLoadClient.tla
    tlc -config MCSctpConnection.cfg SctpConnection.tla
    tlc -config MCLoadServer.cfg LoadServer.tla
    tlc -config MCQuicClient.cfg MCQuicClient.tla
    tlc -config MCQuicServer.cfg QuicServer.tla
    tlc -config MCParts.cfg Parts.tla
    tlc -config MCTlsEcho.cfg MCTlsEcho.tla
    tlapm LoadClient_proofs.tla
    tlapm QuicClient_proofs.tla

The largest run (`unpaced`) has 4.0 million states and takes two to three minutes with two workers;
`tls`, with its temporal properties, takes about two and a half.  The proofs take about twelve minutes in all.
