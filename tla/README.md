# Models and proofs for the Arduino libraries

The repository is a collection of libraries for Arduino and ESP8266 boards. Most
of them drive one chip. A few carry logic of their own: protocol clients with
timers, queues filled by an interrupt or a radio callback, containers, a
scheduler of animations. This directory holds TLA+ models of the latter, the TLC
configurations that check them, and TLAPS proofs about them.

1. Inventory
2. Modules, and how they correspond to the code
3. Runs: what is checked, with which bounds
4. Fairness
5. Findings
6. Proofs
7. Plan
8. What is not modelled

## 1. Inventory

A sketch is one thread: `setup()` once, then `loop()` for ever. It calls the
libraries; they call it back through function pointers, in the middle of a call.
Interrupt handlers run between two instructions of it. The network and the
devices go on at any time. Two libraries of the collection seldom call each other
(DallasTemperature uses OneWire, LLCP uses PN532, CubicGasSensors opens a
SoftwareSerialESP port for every command), so each is a system of its own with
the sketch, the hardware and a peer.

| component | state | operations | interacts with | hard behaviour | what makes it correct |
|---|---|---|---|---|---|
| pubsubclient | session state, ping flag, two time stamps, message id, shared packet buffer | connect, loop, publish, subscribe, unsubscribe, disconnect | transport, broker, callback of the sketch | blocking reads that give up, callbacks that call back in, timers compared after waits, writes that fail | connected() is true for accepted sessions only; silence is bounded both ways; no message is acknowledged unhandled |
| Blynk session | connection state, three time stamps | connect, begin, run, disconnect, sendCmd | transport, server, handlers of the sketch | one variable for two time stamps, state read before a handler and used after it, retries, redirection | an open session behind every "connected"; silence bounded; disconnect sticks; logins keep their distance; run() recovers |
| Blynk message limit | running average in integers | a step in every sendCmd | sketch | integer division, -1 for a short gap | who keeps to the limit is not cut off |
| BlynkFifo2 | ring, two positions | put, get, clear, blocking or not | radio callback and sketch, no lock | every interleaving of the two | a queue |
| BlynkFifo | ring, two positions, full flag | write, read, clear | one thread | wrap, full against empty | a queue |
| SoftwareSerialESP | ring, two positions | read, peek, available, flush, write, begin | GPIO interrupt, serial line | the interrupt between two accesses; interrupts held off; a full buffer | a queue that refuses what does not fit |
| LinkedList | nodes, two ends, count, cache of the last lookup | add, unshift, set, pop, shift, remove, get, clear | sketch | the cache against every later change | a sequence |
| Timer | interval, last time, time kept by Pause | Start, Stop, Pause, Resume, Update, the setters | callback | wrap of millis(), calls out of order | runs when the interval has passed, resumed pauses not counted, and not before |
| NeoPixelAnimator | animations with remaining time, count of active ones | Start, Stop, Restart, Update, Pause, Resume | callbacks that call any of these | a callback that changes the animation being updated | the count is the number of active animations; every one completes once |
| NeoEsp8266DmaMethod | DMA descriptors, state | Initialize, Update | interrupt handler, DMA engine | the engine reads the list that the interrupt relinks | every picture handed over comes out whole |
| OLEDDisplayUi | current frame, transition, ticks | update, nextFrame, previousFrame, switchToFrame, transitionToFrame | frame callbacks | calls by hand between automatic transitions, late calls | a frame drawn exists, every frame has its turn, the direction survives a call by hand |
| CubicGasSensors | calibration flag in EEPROM, "sent" flag in memory | checkForReset, getCO2 and the sensor commands | sensor, EEPROM, power | restarts in the middle of the calibration | the calibration is carried out and ends |
| OneWire | search state | search, target_search, reset_search | the bus | devices that come and go | every device is found, each once |
| IRrecv | capture buffer and state | enableIRIn, disableIRIn, resume | edge interrupt, SDK timer | resume against an edge | what is decoded is one signal, whole |
| LLCP, SNEP | mode, buffer, place in a call | write, read (connect, waitForConnection, disconnect) | the peer | turns, a link that breaks, no timeouts | turns alternate, a message is put once, a call ends |
| RunningAverage | ring, sum, smallest, largest | addValue, fillValue, clear | sketch | ring and sum kept apart | the statistics of the last values |
| RF24 | radio registers | write, startListening, stopListening | radio | flags and payloads left by an earlier call | the result belongs to this write |

The other libraries are register drivers, drawing code, formatting and glue; the
last section says why they have no model. `PROJECT.json` lists all of them with
their sources, and the hazards of each one line by line.

## 2. Modules, and how they correspond to the code

All models follow one rule. An action is a stretch of code during which nothing
else can be seen to happen. A call is cut where time passes, where user code is
called, or where another context can see the memory it touches; a call that does
none of these is one action. Every definition that models code is listed in
`PROJECT.json` with its lines. Definitions whose comment begins with "Mutant" are
not part of any specification: each is an operator with a plausible mistake in it,
kept to show which property would notice.

### PubSubClient: `PubSubClient.tla`, `PubSubClientProofs.tla`

The client object, the sketch, the transport and the broker. `pc` is where the
client waits: in the sketch (`idle`), for the first byte of the answer to CONNECT
(`connecting`), for a byte inside readPacket (`connack`, `reading`), or in the
callback. `since` is when it got there; `got` counts the bytes of a packet that
may each be late, `Stalls` of them at most. `t` and `msgId` are the locals of
loop(), taken before a wait or a callback and used after it. The fields of the
object keep their names. `inbox` and `outbox` are the packets on the link in each
direction; when a read gives up in the middle of a packet `aligned` becomes false,
and from then on the client may take any packet at all from the stream. The
broker keeps `unacked`; `pending`, `handled`, `lastSent`, `lastRead` and `intact`
record what really happened and are read by properties only.

`Connect`, `ConnectFails`, `ConnectTimeout`, `ConnackRead`, `ConnackStall` are
connect(); `Loop`, `LoopTimeout`, `ReadByte`, `LoopStall`, `Loop<packet>`,
`CallbackReturn` are loop() and readPacket(); `NotConnected` is the cleaning up in
connected(). `Publish`, `Subscribe` and `Disconnect` may come from the sketch or
from its callback, as may `Connect` if `CallbackMayReconnect`. Time is in seconds
and does not wrap: the code takes unsigned differences only.

### The Blynk session: `BlynkProtocol.tla`, `BlynkProtocolProofs.tla`

`Run` is the head of run(), `Read...` the messages of processInput, `LinkGone` to
`NothingDue` the branches of its timers, `ConnectFails`, `LoginSent` and
`LoginNotSent` the outcomes of the attempt to log in. `waiting` tells a sketch
inside connect() or begin() from one that calls run() itself. `tconn` is the local
of run(), read before a handler and used after it. `lastHeartbeat` and `lastLogin`
are one variable in the code, and `ageBeat` here.

The code only compares differences of time, so the model keeps ages, capped just
above the largest value they are compared with. There is no clock to bound, the
state space is finite as it is, and liveness can be checked without a horizon.

`Messages` is what a server may send, the ones that make the client hang up
(`garbled`), reconnect without a login (`oversized`, `unknown`) or log in anew
(`redirect`) among them. `Heal` marks the moment from which network and server do
their job; properties about recovery start there.

sendCmd() hangs up for two reasons: a write fails (`WriteFails`), or the message limit
cuts the client off (`FloodError`). The second is no matter of the network but of how
fast the sketch sends and the server pings. Here it may happen to any command; the
average behind it is in `BlynkMsgLimit.tla`. `Paced` says that on a reliable network
no command is cut off, as `NeverCut` shows of commands that keep to the limit. The
login starts the average at 1000 ms and is not cut off itself, unless
BLYNK_MSG_LIMIT is 1: then no client ever gets in, which is left out.

### The message limit: `BlynkMsgLimit.tla`

The integer average of the gaps between commands, and its threshold. Its proofs are
in `BlynkUtilityProofs.tla`.

### The queues: `Fifo.tla`, `BlynkFifo.tla`, `BlynkFifo2.tla`, `SoftwareSerialESP.tla`, and `BlynkFifo2Proofs.tla`, `BlynkUtilityProofs.tla`

`Fifo.tla` is what a byte buffer promises: a bounded queue that takes the longest
prefix that fits, gives the oldest first, and never loses what it stored. The
other three implement it; each defines the content of its ring (`Content`,
`Unread`) and checks `Queue!Spec` for `Queue == INSTANCE Fifo WITH queue <- ...`.

`BlynkFifo2.tla` has two threads. put() and get() are cut at each access the
other thread can see: reading the free space, copying, storing the position. It is
assumed that the compiler keeps the memcpy before the store to the volatile
position, as it does on the boards this code is for. `BlynkFifo.tla` is the ring
with a full flag and is used from one thread; its calls are single actions.

`SoftwareSerialESP.tla` has the sketch and the interrupt handler. The handler runs
to its end between two instructions, so it is one action; read() is three, flush()
two, in either order because the fields are not volatile. While write() holds
interrupts off an edge is only remembered and then sampled late: the byte is lost
or arbitrary (`WriteEnd`). `KeepsUp` says whether the sketch empties the buffer in
time.

### The list: `ListSpec.tla`, `LinkedList.tla`, `MCLinkedList.tla`, `LinkedListProofs.tla`

`ListSpec.tla` is a sequence and what each method does to it. It agrees with the
comments in the class declaration, but for one: the comment of set() says "Increment
_size;" (`LinkedList.h:68`), and the code (lines 229-237) keeps the size, as does
`Set`. A single call shows the difference, so no run is spent on it.
`LinkedList.tla` has nodes on a heap of `Node`, the two ends, the count and the
cache. getNode() is a loop with one action per turn (`StartWalk`, `WalkStep`,
`Arrived`); the method that called it ends with all its stores in the action that
leaves the loop. `order` is the chain of allocated nodes from `root` on, which
gives the refinement mapping its value and is never read by an action's guard
except to allocate. `MCLinkedList.tla` adds the symmetry of nodes.

### The devices

Each is one module, in the way of the ones above; the comment at its head says what
it is cut into.

- `NeoPixelAnimator.tla`, `NeoPixelAnimatorProofs.tla`. UpdateAnimations() is a loop
  of actions (`UpdateBegins`, `Skip`, `Progress`, `ProgressReturns`, `Complete`,
  `CompleteReturns`, `UpdateEnds`); between `Progress` and `ProgressReturns`, and
  between the other two, the function of an animation runs, and may do all that the
  sketch may: start, restart and stop animations, pause and resume. `delta` is the
  local of the call. 16-bit counters wrap at `Modulus`. `Careful` says that a
  function in progress leaves its own animation alone or starts it longer.
- `Mailbox.tla`, `NeoEsp8266Dma.tla`. Four actors: the sketch that sets pixels and
  calls Show(), Update() (waiting, copying block by block, handing over), the
  interrupt handler, and the DMA engine, which follows the links. `lastLink` is the
  one link that the handler rewrites. `Mailbox` is what such a driver promises, and
  the detailed module implements it: the box is the buffer while the state is not
  idle. `Prompt` says that the handler runs before the engine leaves the second
  block of zeroes.
- `IRrecv.tla`. `Edge` is the interrupt with all its stores, `read_timeout` the
  timer; resume() is two actions because the handler may come between its stores. Such
  an edge (`hit`) finds the old length, and after a full buffer it is stored one entry
  past the end; `TypeOK` allows for exactly that entry, `ir_overflow` shows it.
  Lengths are "start", "short" and "long" (longer than the timer waits).
- `CubicGasSensors.tla`. `flag` is the byte in EEPROM; `Restart` keeps it and
  nothing else. getCO2() is one action: it checks for the calibration and reads.
- `OLEDDisplayUi.tla`. The calls of the sketch, and update() with the tick() in it.
  Time is the difference to the last drawing, in a byte, as the code has it.
  `Patient` says that the sketch waits for what it asked for by hand.
- `OneWire.tla`, `OneWireProofs.tla`. search() is cut at each bit; `selected` are the
  devices that still answer. Devices come and go at any bit. `left`, `stayed`, `found`
  and `target` record what a search could know. An enumeration finds all that stayed
  although others come, but not although others leave: up to LastDiscrepancy search()
  goes by the old ROM_NO even where its path has left the old one. With
  devices 010, 011, 100 and 101 (`LastDiscrepancy` = 3 after 010), 010 and 011 leaving
  makes the next call take the 1 at bit 1, where only that answer is left, and the 1 at
  bit 3, without noting that there is a 0: 100 is never found. OneWire.h says of the
  result only that a zero "might mean" that all were found, so `AllFound` excuses an
  enumeration during which one has left.
- `Timer.tla`. Any call may come at any time. `ran` is the time that counts since the
  start or the last run, what the interval is meant to be compared with. A pause that
  Resume() ends does not count. One that setEnabled(true) ends does, and so does what a
  second Pause() finds of the first, because the code leaves LastTime alone in both;
  Resume() of a timer that is not paused goes back to what counted at the last Pause()
  (`kept`). The clock wraps at `Modulus`.
- `LLCP.tla`. SNEP::write() and read() and the five functions under them, each a
  table of places: where it reads, what it may find there, what it writes and where
  it goes on. SNEP::read() keeps what llcp.read() returns without a sign
  (`snep.cpp:63`), so a failure there passes for a length: the call goes on to the tests
  of the buffer and perhaps to its answer (`Fails`). The other actors are the peer, which keeps to LLCP, and the link, which
  may break. It is assumed that frames are not damaged between chip and processor.
- `RunningAverage.tla`. The object, and beside it the last values as a sequence.
- `RF24.tla`. write() is cut at every access to the radio; the radio sends, gives up
  or hangs in between, with the payloads of this call and of earlier ones.

### The two composites: `Devices.tla` with `MCDevices.tla`, `MCBlynkUtility.tla`

`Devices.tla` has the constants and variables of nine devices and SoftwareSerialESP,
an instance of each, and their properties by name. `MCDevices.tla`
adds the animator and puts the eleven on one model; `MCBlynkUtility.tla` does the same
for the byte queues and the message limit. `DeviceProofs.tla` and
`BlynkUtilityProofs.tla` extend these two modules, so that what is proved and what is
checked is the same text. The parts share no state, so they are not
interleaved: `part` is chosen in the initial state and never changes, and the others
keep their initial values. Every behaviour of the composite is a behaviour of one part,
and every property is that of one part. Fairness is the fairness of the part that runs
(`part = "leds" /\ ...`): a condition on an action of a part that rests would be one
that no behaviour meets, and every liveness property would hold for nothing.

## 3. Runs

All runs pass unless marked. "Tight" means that the same run with a bound smaller
by one second fails, so that the bound says exactly what the code does.

| run | bounds | shows |
|---|---|---|
| `pubsub_timers` | keep-alive 2, socket timeout 1, one late byte, gap 1, callback 1, one packet under way, 9 s | `KeepAliveHonoured`, `DeadPeerDetected` (both tight), and `IInv`, the invariant of the proofs |
| `pubsub_session` | keep-alive 1, ids of two bits, two packets, writes that fail, a stream for large packets, 2 s | `SessionConsistent`, `OnePing`, `AckOnlyHandled` |
| `pubsub_prompt` | a peer that answers at once, keep-alive 4, two packets, 12 s | `NoSpuriousTimeout`; keep-alive 3 fails |
| `softserial_overflow` | three slots, a sketch that does not | violation, see Findings |
| `linkedlist` | four nodes, two values, indices -1 to 5 | `Intact` (the chain of nodes and the cache), `ImplementsList` |
| `blynk_session` | the intervals of the code, in seconds; every message; every failure | `SessionOpen`, `DeadPeerDetected`, `KeepAlive` (both tight), `DisconnectSticks`, `Backoff`, and `IInv`, the invariant of the proofs |
| `blynk_recovers` | intervals in the same order but shorter, the network heals, `Paced` | `StaysConnected`, `ConnectReturnsInTime`, `BeginSucceeds`, `Recovers` |
| `blynk_connected` | one ordinary and one unreadable message | violation, see Findings |
| `blynk_utility` | rings of three slots, chunks up to four and two; 20 commands a second, gaps on both sides of each multiple of 32 that matters | `RingIsQueue`, `ThreadsAreQueue`, `NonBlockingReturns`, `NeverCut`; `Types` holds the type invariants and the invariant of the limit |
| `devices` | see below | the properties of the next table; `Types` holds the type invariants; that of the frames says that none is drawn that does not exist, that of the receiver that at most one entry goes past the end of its buffer, by an edge inside resume() |
| `ir_overflow` | a buffer of four | violation, see Findings |
| `timer_restart` | a clock of 16 values | violation, see Findings |

The properties of `devices`:

| part | property | bounds | it rests on |
|---|---|---|---|
| SoftwareSerialESP | `SerialIsQueue`: implements `Fifo` | four slots, two bytes | a sketch that keeps up; without, see Findings |
| NeoPixelAnimator | `CountIsActive`, `AnimationsEnd` | two animations, durations 0, 2, 3, four starts, scale 2, updates up to 5 late, counters of 3 bits | `Careful`: without, an animation stopped by its own function is given a time again, uncounted |
| NeoEsp8266Dma | `ShownWhole`: implements `Mailbox`, with its fairness | two data blocks, two colours | `Prompt`: without, Update() writes into a picture that is going out |
| IRrecv | `CapturedWhole` | a buffer of four | `Yields`: the sketch lets the system work; an edge inside resume() costs that message |
| CubicGasSensors | `CalibratesBeforeClearing`, `CalibrationEnds` | four starts, the command at 4, the end at 6 | a call at least every 2 of these units; with 3, one call clears the flag before any has sent the command |
| OLEDDisplayUi | `DirectionKept`, `AllFramesShown` | two and three frames, three calls, a byte of 3 bits | `Patient`; `Late` = 6 of 8: with 8, update() may find a positive budget for ever |
| OneWire | `SearchOK` (all found, once, family found) | addresses of 3 bits with 2 of family, four devices at first, one change | no device leaves during the enumeration: with two leaving, one that stayed is missed (above) |
| Timer | `OnTime` | intervals 1 and 3, a clock of 16 values, in its lower half | upper half: see Findings; no condition on the order of the calls |
| LLCP, SNEP | `Agreement`, `CallEnds` | none but what LLCP has | a peer that uses its turns |
| RunningAverage | `Statistics` | a ring of three, three values | exact numbers |
| RF24 | `TellsDelivery` | a queue of three, as the radio has | `Late` = FALSE: with TRUE, an acknowledgement after the 500 ms sets a flag that makes the next write() return true at once, before its own payload is out |

Why the bounds are enough:

- *PubSubClient.* The longest silence takes a ping, a late packet, a callback and
  two gaps. With keep-alive 2 and the other durations 1 this fits into 9 s with
  room for a connection before it, and it happens: the bounds are tight. In
  `pubsub_session` time hardly matters; what does is two messages under way at
  once, a callback that subscribes, publishes or disconnects, and a stream that
  has lost its packet boundaries. The clock stops at `MaxTime`, where the model
  (not the program) has nothing left to do, hence `CHECK_DEADLOCK FALSE`.
- *Queues.* A position wraps after three or four steps and each run has values
  enough to tell order, loss and repetition. Chunks longer than the free space and,
  in `BlynkFifo`, longer than the ring are included.
- *List.* Four nodes are enough for a cached node before, at and behind the node
  that is removed, with both ends elsewhere. An index goes past the end by two.
- *Blynk.* `blynk_session` uses the values of BlynkConfig.h and no scaling. The
  liveness run needs smaller ones; it keeps Retry > Timeout and a connect timeout
  above Retry plus two connection times. With 3 or 4 instead of 5 `BeginSucceeds`
  fails: connect() then always gives up before run() tries to log in. Without `Paced`
  TLC still passes `ConnectReturnsInTime` and `Recovers`, and refutes `StaysConnected`
  (any command may be the one too many) and `BeginSucceeds` (every session may be cut
  off by its first handler).
  One message waits unread at a time, besides the answers to the client's commands.
- *Devices.* The bounds are small but have all the cases of the code: durations
  below and above the time between two updates; a picture of more than one block, so
  that it can be torn; a buffer that fills up; restarts before and after the command;
  searches with no, one and two discrepancies, the last of them in the family and
  behind it. Except for `Last` of the timer and the counters of calls, starts and
  changes, the bounds are parameters of the code. The mutants show that each
  property can fail within them.

## 4. Fairness

Safety runs assume none. These specifications do:

- `BlynkFifo2`: weak fairness of each side. They are a thread and a callback
  context that the scheduler keeps running. A *start* of a call is not fair: no
  one has to put or get.
- `BlynkProtocol`, `FairSpec`: weak fairness of `Client` (the processor runs, and
  a handler returns), strong fairness of `Tick` (time passes; connect() spins in
  run(), so the point where the clock may move is left and reached again), weak
  fairness of `ServerAnswers` (a server that has an answer gives it). Nothing is
  assumed of the network before `Heal`, and `Heal` itself may never come: the
  properties that need it start with `healthy`. ConnectReturnsInTime does not.
- `NeoPixelAnimator`, `CubicGasSensors`, `OLEDDisplayUi`: the sketch goes on calling
  UpdateAnimations(), getCO2() and update(), as their headers ask, a function that
  was called returns, and time passes. Nothing else that the sketch does is fair.
- `NeoEsp8266Dma`: the engine never stops, the processor takes the interrupt, and
  Update() once called runs on. Nothing makes the sketch call Show().
- `LLCP`: link.read() and link.write() return within 3 s, the peer uses its turns,
  and, as it may fill a turn with SYMM, strong fairness of what it has to send.

## 5. Findings

- `softserial_overflow`: rxRead compares the next position with the one it was
  computed from, so the overflow test never fires. The byte that arrives at a full
  buffer is stored, the two positions become equal, and all that was stored reads as
  nothing. The comment above the test says the opposite.
- `blynk_connected`: after run() has hung up on a message it could not read,
  connected() says true until the next run(). BlynkApi.h documents it as "True if
  connected to the server". `Recovers` shows that the next run() puts it right.
- `ir_overflow`: resume() sets the state to idle before it clears the length. An edge
  between the two stores is taken for the first of a message, and that branch does not
  look at the length: after a message that filled the buffer it is stored in
  `rawbuf[RAWBUF]`. The header calls RAWBUF the "Length of raw duration buffer".
  `InfraredTypes` proves that it is never more than this one entry.
- `timer_restart`: the test for "millis restarted" doubles millis(), and the product
  wraps. In the upper half of the range, after some 25 days, a timer that was just
  started has its last time set to 0 and runs at once.

Two more differences between a comment and the code show in a single call and have no
run. switchToFrame() returns unless the frame asked for is the one on show
(`OLEDDisplayUi.cpp:154`), so it never switches, though its header says "Switch without
transition to frame" (`OLEDDisplayUi.h:278`); transitionToFrame() has the same test. And
the comment of LinkedList's set() says "Increment _size;" (`LinkedList.h:68`), which the
code does not do.

## 6. Proofs

`PubSubClientProofs.tla`, for every value of the constants (durations, the number
of late bytes, the size of the id space, all switches), from the named assumptions
of `PubSubClient.tla` only:

| theorem | states |
|---|---|
| `Inductive` | `Spec => []IInv` |
| `TypeCorrect` | `Spec => []TypeOK` |
| `SessionTheorem` | `Spec => []SessionConsistent` |
| `KeepAliveTheorem` | `Spec => []KeepAliveHonoured` |
| `DeadPeerTheorem` | `Spec => []DeadPeerDetected` |
| `AckTheorem` | `Spec` implies `AckOnlyHandled`, if callbacks do not reconnect |
| `OnePingTheorem` | `Spec => []OnePing` |

The argument. The two bounds relate the present to the last packet sent or read,
and what is left of the time depends on where the client is. `IInv` says so place
by place: `WaitOK` bounds the stay in each place by the timer of that place,
`ReceiveOK` and `SendOK` bound the entry to each place against the last packet.
A step from one place to the next adds one wait to one bound. loop() stores `t`,
which is older than the wait it has just ended; `SendOK` and `ReceiveOK` therefore
speak of `t` in `reading` and of `since` after it. `ConnectOK` does the same for
the connection under way, whose CONNACK starts the session. `SessionConsistent` is
part of the invariant because the bounds are about sessions, and `ControlOK` keeps
the locals in step with the place. None of the bounds is inductive by itself:
they say nothing of the places in between. The preservation proof has a lemma for
each part of `IInv`, with one step per action.

`OnePing` speaks of a session and says nothing of the time when CONNECT is out, and a
ping left over from an earlier link would break it later. `PingOK` therefore covers
every link that is up and in step: none under way before the session starts or while
none is awaited, and never two. A link is opened with empty queues, a ping is sent
only when none is awaited, and the answer takes the place of the request.

`PubSubClientProofs.tla`, `PromptTheorem`, `Spec => []NoSpuriousTimeout`, under
`PromptPeer`: the peer answers at once, writes succeed, and `MaxInbox` turns (the
longest gap between two calls of loop() plus a callback) fit in the keep-alive. A
turn reads one packet, so the answer to a ping waits one turn for each packet before
it. The invariant says where the answer is (`PongAt(k)`: the k-th packet, or about
to become it) and that the time stamps which loop() compares are young enough for
that place (`Lag(k)`): a read brings the answer one place nearer and takes a turn at
most. `PingOK` is needed so that there is one answer only. The condition is tight:
with two packets and turns of two seconds TLC passes keep-alive 4 and refutes 3.

`WaitedFacts` of `PubSubClientProofs.tla` carries the only multiplication (late bytes times timeout), so that
the leaves above it are linear.

`BlynkProtocolProofs.tla`, for every value of the intervals, of the times the
transport and a handler take, of the messages and of the calls, from the two named
assumptions of `BlynkProtocol.tla`:

| theorem | states |
|---|---|
| `Invariance` | `Spec => []IInv` |
| `TypeCorrect` | `Spec => []TypeOK` |
| `SessionTheorem` | `Spec => []SessionOpen` |
| `DeadPeerTheorem` | `Spec => []DeadPeerDetected` |
| `KeepAliveTheorem` | `Spec => []KeepAlive` |
| `DisconnectTheorem` | `Spec => DisconnectSticks` |
| `BackoffTheorem` | `Spec => Backoff` |
| `StaysConnectedTheorem` | `Spec => StaysConnected`, under `Paced` and `PingInTime` |

The argument. `ControlOK` ties the place in run() to the link and the state: no
connection while one is made, none left when `tconn` says there was none, none
after disconnect(). `InOK` and `OutOK` say at each place how old the last message
read or command sent can be: run() leaves its timers only with less than the
heartbeat timeout, or a ping, and each place on the way back to them adds what it
may take. A ping is held back while `ageBeat` is young; then the last command is no
older than `ageBeat`, since no beat is noted without a command while the link
lives. `OutOK` says so and speaks of links without a session too, because the
login is sent before it is accepted. `InOK` and `OutOK` hold while the link is
being reopened (`Live`), from where run() comes back without a login. `SessionOK`
adds to the property that an accepted login, read or not, is noted by the server.
`BackoffOK` compares `lastLogin` with the last attempt. The proof has a lemma for
each part; `SendFacts` and `TickFacts` sum up what the two actions that most steps
are made of can do.

The bounds come out as exact: `InBound` is the heartbeat timeout, the gap between
two calls of run() and one stay in it, or a long handler after the login;
`OutBound` is a heartbeat (or the timeout, if that is longer), the gap and one
stay. TLC finds both attained for the intervals of the code and for three other
sets of values.

`StaysConnected` needs `Paced`, for a client that sends too fast hangs up on any
network, and a condition on the intervals, which is `PingInTime`: the
larger of heartbeat and timeout plus the gap between two calls, and the time a
handler takes, are within the heartbeat timeout. For the intervals of the code
(10 s and 2 s) the gap may be 6 s. `SoundOK` says what a connection made when all is
well carries, so that every way out of processInput is closed. `Fresh` says that the
heartbeat timeout never passes unseen: with nothing under way the last message is no
older than the last beat, so a ping that is held back by `ageBeat` is not needed yet;
an answer that is owed is given at once, and the next run() reads it before it looks
at its timers. TLC finds the condition on the gap tight: with the constants of `blynk_recovers` a gap
of 3 passes and 4 fails.

`NeoPixelAnimatorProofs.tla`: `CountIsActiveTheorem`, for every number of animations,
every set of durations, every scale and every modulus, under `Careful`. The inductive
invariant adds to `TypeOK` and the property itself what holds at each place of the
update (`Place`): in a function that was called in progress the animation's own time
is above `delta`, so that taking `delta` off leaves it active; while any function
runs the index is that of an animation. The property alone is
not inductive: without `Place` the subtraction could reach zero, or wrap. Stopping
and starting change the set of active animations by one element, and its cardinality
with the count; the count cannot wrap because there are fewer animations than
`Modulus`.

`LinkedListProofs.tla`, for every set of nodes and of
values and every largest index, from the named assumption of `LinkedList.tla`:

| theorem | states |
|---|---|
| `IntactTheorem` | `Spec => []Intact` |
| `RefinementTheorem` | `Spec => ImplementsList` |

The argument. `Intact` is nearly inductive; what it lacks is why getNode() arrives at
a node. Four methods trust it to (only get() looks at the result), and `JobOK` states
the index each of them may be walking to, against the count. The pointers are then a
matter of sequences: the chain lemmas (`ChainAppend` to `ChainFront`) say that a
sequence of nodes stays linked when a node is put in or taken out at any place, each
for the stores the code does. For the refinement `JobArgs` remembers the range of the
arguments of the call that is walking, and a lemma for each method says that its
last action is the step of `ListSpec` while the walk before it is a stutter.

`BlynkFifo2Proofs.tla`, for every size of the ring above one and every length of the
chunks (`SizeOK`):

| theorem | states |
|---|---|
| `RingTheorem` | `Spec => []RingInv` |
| `QueueTheorem` | `Spec => ImplementsFifo`, which the run checks as `ThreadsAreQueue` |

The argument. What one thread read of the other's position may be out of date when it
copies. `RingInv` says that it is out of date on the safe side: the part that put() is
filling is no longer than the free space is *now* (`WriterOK`), and the part that
get() is fetching no longer than what is stored now, with the values it has copied
still there (`ReaderOK`). Whatever the other thread does in between can only make that
space, or that store, larger. Hence a copy into the ring touches no stored value, and each store of a
position is one `Offer` or one `Get` of the queue (`PutPublishOffers`,
`GetPublishGets`); all other steps leave the queue as it is.

`BlynkUtilityProofs.tla`, for every size of the rings and of the chunks and every set of
bytes and of gaps, from the assumptions of the three modules:

| theorem | states |
|---|---|
| `RingIsQueueTheorem` | `Ring!Spec => RingIsQueue` (`BlynkFifo`) |
| `ThreadsAreQueueTheorem` | `Threads!Spec => ThreadsAreQueue` (`BlynkFifo2`, as the run names it) |
| `NeverCutTheorem` | `Spec => NeverCut`, under `KeepsLimit` (`BlynkMsgLimit`) |
| `UtilityTypes` | `MCSpec => []Types`, of the three side by side |

The argument for the ring with a flag. `fst = lst` means full or empty, and only the
flag tells them apart, so the invariant (`OneRingInv`) is that the flag is set only where
the positions are equal. From it the number of occupied slots is a number up to `SIZE`,
and SIZE exactly with the flag (`OccupiedFacts`). A write puts the longest prefix that
fits behind what is stored, which may be nothing, and may wrap; a read takes the oldest
bytes off. Each lemma names the slots as places modulo `SIZE` once and reasons about the
content from there.

`NeverCutTheorem` holds for every limit and every set of gaps that
keeps to it (`KeepsLimit`: the threshold is at least 32 ms, that is, the limit is
31 commands a second or fewer, and no gap is shorter than it). The inductive
invariant is `AboveThreshold`. A gap shorter than 32 ms counts as -1 whatever the
limit, so that a higher limit would cut off a sketch that keeps to it; the
assumption excludes that.

`OneWireProofs.tla`: `OneWireTypes` and `SearchTheorem` (`Spec => SearchOK`), for every
length of address and of family, every number of devices and of changes. The property
speaks of the end of an enumeration and of a set of found devices; the invariant says
where, seen from the address in ROM_NO, each device lies. Two addresses part at one bit.
What has been found parts from ROM_NO at a bit where it has the 0 (`BehindOK`), and what
has stayed and is not yet found at one where it has the 1, at or above the bit at which
the next call will turn (`MissingOK`). When there is no such bit all are found, and when the
device under construction lies ahead of all that was found it is a new one. `QuietOK` gives the reason:
while none has left, the devices that agree with ROM_NO so far are those that answer,
and the turn that was noted leads to one of them. `TargetOK` says the same of a search
for a family. The attempt to prove it without "none has left" is what brought up the
buses on which a device is missed (section 2).

`DeviceProofs.tla`, for every value of the constants that `Devices.tla` allows
(`PartAssumptions`) and, where stated, under one more condition:

| theorem | states | under |
|---|---|---|
| `ClockTypes`, `OnTimeTheorem` | `Clock!Spec => OnTime` | `LowerHalf`: millis() is below half its range, 25 days; above, `timer_restart` shows what happens |
| `RadioTypes` | `Radio!Spec => []Radio!TypeOK` | |
| `TellsDeliveryTheorem` | `Radio!Spec => []TellsDelivery` | `RadioLate` = FALSE: an acknowledgement comes within 500 ms; the radio gives up by itself after 15 retries, 60 ms at most |
| `InfraredTypes` | `Infrared!Spec => []Infrared!TypeOK`: at most one entry past the end of the buffer, and that only after an edge inside resume() | |
| `CapturedWholeTheorem` | `Infrared!Spec => []CapturedWhole` | `Yields`: the SDK's timer can run before a silence ends |
| `FramesTypes`, `DirectionKeptTheorem` | `Frames!Spec => []Frames!TypeOK`, `[]DirectionKept` | `Patient`: one request by hand at a time |
| `GasTypes` | `Gas!Spec => []Gas!TypeOK` | |
| `CalibratesTheorem` | `Gas!Spec => CalibratesBeforeClearing` | `CalledInBetween`: calls come closer together than the command (6 min) and the end (7 min) |
| `LedsTypes`, `WholePicturesTheorem` | `Leds!Spec => WholePictures`, the safety part of `Mailbox` | `Prompt`: the handler runs within a block of zeroes |
| `LlcpTypes`, `AgreementTheorem` | `Nfc!Spec => []Agreement` | |
| `SerialIsTyped`, `SerialQueueTheorem` | `Serial!Spec => SerialIsQueue` | `KeepsUp`: the sketch reads before the buffer is full; otherwise `softserial_overflow` |
| `AverageTypes`, `StatisticsTheorem` | `Average!Spec => []Statistics` | |
| `SearchOKTheorem` | `Wire!Spec => SearchOK`, by the invariant of `OneWireProofs` | |
| `DeviceTypes` | `MCSpec => []Types`: all eleven side by side | `Careful`, `KeepsUp`, `Prompt`, `Patient`, `LowerHalf` |

None of these properties is inductive, and each invariant says what was missing:

- *Timer.* `TimesOK`: `LastTime` is the place on the clock from which `ran` and the
  pause under way count together, and `DiffTime` is what counted at the last Pause(). All stay in the lower
  half, where `millis()*2` does not wrap and the test for a restart never fires.
- *RF24.* `RadioInv`: the radio works only while write() polls, and each write() leaves
  queue and flags empty; so a flag that write() sees is its own. The proof rests on the
  flush at the end of write() and on whatHappened(), which clears the flags it reads.
- *IRrecv.* `IrShape` bounds the buffer, also for the one entry that an edge between
  the two stores of resume() may add. `IrWhole` says the buffer holds what was seen of one
  message and that the timer runs until it is complete.
- *OLEDDisplayUi.* The frames that are shown or come next exist, and the direction to
  come back to is kept aside exactly while one asked for by hand is under way.
- *CubicGasSensors.* While the command has not been sent, the last call (or the start)
  was not after the time for it. The next call is within `MaxGap`, so before the end.
- *NeoEsp8266Dma.* `EngineInv`: what has gone out since the last pause is the buffer up
  to the place of the engine (`SentTo`), because the driver writes only while it idles.
  The engine goes round the idle blocks as long as `lastLink` says so, and after the
  second block the LEDs have shown the buffer or the driver is waiting for the next.
  A picture is taken by `Update` and let go by the interrupt.
- *LLCP.* `PlacesOK`: the place of a call says whether the message has been put and
  bounds what the peer may owe. Both follow from the table of places, row by row.
  SNEP::read() goes on after a failure of llcp.read() (section 2), which
  would put it out of turn; `MessageDue` says that before the link breaks there is none.
- *SoftwareSerialESP.* Between the test of read() and its store the byte to be returned
  stays the oldest (`CallsOK`), since the handler only writes behind it while there is
  room. flush() empties in both orders of its stores.
- *RunningAverage.* `RingOK` ties each slot of the ring to its value in the window
  (`SlotOf`), before and after the ring has come round. The sum needs induction over a
  sequence: adding at one end and dropping at the other changes `Total` by the
  difference. `SetInduction` does it with the set of lengths for which it holds, a set
  in place of the operator that the library's theorem takes; fillValue() repeats
  addValue() and is another induction.

Checked by TLC only is liveness, for which the prover has no rules of fairness or
ENABLED: `NonBlockingReturns`, `ConnectReturnsInTime`, `BeginSucceeds`, `Recovers`,
`AnimationsEnd`, `CalibrationEnds`, `AllFramesShown`, `CallEnds`, and the fairness of
`Mailbox` in `ShownWhole`. All other properties of the passing runs are proved.

## 7. Plan

Done: the modules above. Next, in order of weight:

1. The receiving side of `RF24` (available(), read(), acknowledgement payloads).
2. The sequence numbers of LLCP: `llcp.cpp:232` counts in eight bits and sends four.
3. The packet layout of PubSubClient: the size guard of subscribe()
   (`PubSubClient.cpp:476`) and the result of the PROGMEM publish (`:423`) against the
   bytes really written; the build with MQTT_MAX_TRANSFER_SIZE (`:453`).
4. The answer to a command of the gas sensor: `CubicGasSensors.cpp:154` counts it as
   sent without one, and `:84` leaves the checksum to bytes never written when the
   answer is short.
5. `BlynkSimpleRFduinoBLE.h:87`, which does not look at the result of put();
   `LinkedList.h:177`, add() at a negative index.

## 8. What is not modelled

- In the modelled parts: the bytes of packets, publish_P's return value, callbacks
  that call loop() and the build with MQTT_MAX_TRANSFER_SIZE (PubSubClient);
  direct-connect mode, handlers that call run() or connect(), the bytes of
  commands, and a message limit of 1 (Blynk); the timing of bits and a second port (SoftwareSerialESP); the
  destructor and a negative index to add() (LinkedList); a Timer that is no global
  object, whose DiffTime no constructor sets before Resume() reads it; the lengths of pulses and the decoders (IRrecv);
  the contents of messages, sequence numbers and waitForDisconnection(), which nothing
  calls (LLCP); receiving (RF24); rounding and NaN, which stays in the sum until
  clear() (RunningAverage); families of code 0 (OneWire).
- Register drivers (BMP085, BME280, BH1750, Si7021, MPU6050, AD524X, the PN532
  chip, LCD and OLED drivers): each call is a fixed sequence of transfers; their
  correctness is that of tables and datasheets.
- Drawing (OLEDDisplay, U8glib, ILI9341): arithmetic on coordinates.
- Bit-banged output (NeoPixel methods other than DMA, x10rf, dht, brzo_i2c):
  counted processor cycles.
- ArduinoJson, NDEF: sequential parsers over text and bytes.
- vOTA, vSAP_Auth, vUtils, vWifiHelpers: calls of the SDK in a row.
- NeoPixelBus_old, NeoPixelBus_uart and the archives: older copies.
- vPWMRead: the times of two edges; it is polled or called from the interrupt, not both.
- RunningAverageSt: a copy of RunningAverage.

The libraries have some 190000 lines. Nearly half of them are one file of fonts
(`U8glib/utility/u8g_font_data.c`), and most of the rest is tables, register
drivers, drawing and older copies. The modules cover the state machines, which are
small: the mapped lines stay near one in a hundred however much of the control is
modelled.
