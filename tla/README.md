# TLA+ models of the DE0 opto board: firmware, link block, message queues

The repository holds an FPGA data-acquisition board: a NIOS II soft processor
runs `src/nios/de0_fw`; VHDL blocks around it (`src/de0_top/ip`) sample an ADC
and drive a serial link to a USB FIFO; a Linux program (`src/linux/de0_cmd`)
and two Windows ones (`src/win`) talk to the board through it.  These modules
model the message queue of the firmware and the servers that use it, both
directions of the link driver with the part of the FPGA they share registers
with, the path on which samples leave the board, what the timer interrupt does
to a run that is being started, stopped or transmitted over, the connection of
host and board with its pings and timeouts, and an acquisition as the threads of
the Windows program receive it.

Nothing in the firmware has threads: there is one background loop
(`core/main.c:342-368`), interrupt handlers that nest by masking, and hardware
that changes registers at any time.  What is hard to test is what these do to
each other between two instructions, and that is what the models are about.  The
host programs do have threads, with locks around their queues and none around
their timers, rings and flags.

## 1. Inventory

### Parts, their state and operations

| Part | State | Operations | Talks to |
| --- | --- | --- | --- |
| CM slot queue, `core/cm.c` | `cmq[128]` with a state per slot, `q_head`, `q_tail`, `q_msg_cnt` | `cm_alloc`, `cm_qmsg`, `cm_thread`, `cm_free`, each with every interrupt off | everything that sends or receives a message |
| CM routing and services, `core/cm.c` | routes, subscriptions, timers, ports, connection flag in `gc.status` | `cm_msg` (registration, subscription), `cm_route`, `cm_send`, `cm_local`, `cm_tick`, `cm_pipe_send` | servers, ports, the host's CM |
| CP server, `cp_srv` | receive queue of 8, time of the last ping | `cp_qmsg`, `cp_thread`, `cp_msg`, `cp_tick` (drops the connection) | CM, the host's CP client |
| DAQ server, `daq_srv` | receive queue of 8, `sv`, copies in `daq_hal.c` | `daq_qmsg`, `daq_thread`, `daq_msg`, `daq_hal_run`, `daq_tick` (aborts a run), `daq_cmio` | CM, ADC driver, link driver |
| Link driver, `driver/opto.c` | `txq` (8 pointers), `tx_head`, `rx_tail`, control word | `opto_cmio`, `opto_msgtx`, `opto_tx`, `opto_isr`, `opto_pipe`, `opto_intack` | CM, FPGA link block |
| Link block, `ip/opto` | four slots each way with head and tail, interrupt latch, RD and FT state machines, one-packet block RAM, `pipe_req` | one step of every process per clock | driver (registers, interrupt), ADC block (`head_addr`), USB FIFO |
| ADC driver and block, `driver/adc.c`, `ip/adc` | control word, WR and SPI state machines, circular memory | `adc_run`, sampling | DAQ server, link block |
| Main loop and timer, `core/main.c` | `gc` | `cm_thread`, `cp_thread`, `daq_thread` in turn; on every timer tick `cp_tick`, `daq_tick`, `cm_tick` | all of the above |
| Host CM, `linux/de0_cmd/core/cm.c` | the same queue under a mutex and a condition variable, timers | `cm_thread` as a thread, `cm_tick` from two timers | fifo, CP client, OPC server |
| Host CP client, OPC server, USB driver | ping timers; INIT/RUN/DONE and one pipe pointer; receive pool | `cp_msg`, `cp_timer`, `opc_msg`, `fifo_thread`, `fifo_tx` | host CM |
| Windows GUI host, `win/jack` | ring of packets with head and block count, a queue of 8 per view, `m_bRunning`, output file, done timer | `opto_thread`, `cm_thread`, `daq_thread` with `daq_msg` and `OnPipeMsgRun`, the window's `OnBnClickedDAQStart` and `OnTimer` | board |

A message's life: a handler or a server takes a slot (`cm_alloc`), composes in
place, queues it (`cm_qmsg`); `cm_thread` picks it up in ring order and passes the pointer to a
server's queue or to the port's transmit routine, which frees the slot.

### What is hard, and what makes each part correct

- *Slot queue*: senders in two contexts, slots freed out of order.  Correct if a
  slot has one holder at a time, the counter tells `cm_thread` the truth and no
  message is overtaken for ever.
- *Transmit*: the queue `txq` is used by background and interrupt, the hardware
  tail moves by itself, and the wake-up is an interrupt that must not be
  acknowledged too late.  Correct if it is a first-in first-out link that
  transmits and frees each message once.
- *Receive*: bytes are lost, frames end between the handler's read of the status
  and its acknowledge, the CM pool may be empty.  Correct if every frame that
  loses no byte is taken whole, once, in order, without waiting for the next
  one, and if what a lost byte spoils is one frame.
- *Pipe path*: two state machines and a request flip-flop that run in lock step
  on registered values, stopped and restarted by software.  Correct if packets
  go out whole, once, in order, and the end of the run is reported at its end.
- *Run control*: read-modify-write of shared words in the background, a timer
  tick between any two instructions.  Correct if an abort is final.
- *Servers*: answers need slots of the pool the requests come in, pointers pass
  through rings without a test for room, and handlers return in the middle.
  Correct if every request gets one answer and every slot comes back.
- *Session*: two sides with a timeout each, a line that loses messages, a board
  that starts again, timers without a lock.  Correct if neither gives up the
  other for one lost message, and both do when the other is gone: the board only if
  it is configured to (`CFG_FEATURE_PING`, off by default).
- *Windows acquisition*: blocks are handed on by address, out of a ring that goes
  on filling; the end is reported by another thread, and a third closes the
  file.  Correct if the file has the run's packets in order, and all of them.
- *Not covered*: routing with holes, the
  Linux host's single pipe pointer and its USB read loop.

`PROJECT.json` lists each of these hazards at its line, with the properties that
cover it or the reason why none does.

## 2. Modules

| Module | Models | Lines of the code |
| --- | --- | --- |
| `CmQueue` | the four queue operations and what holders do with a pointer | `core/cm.c:544-656, 1905-2064` |
| `SlotPool` | what the queue promises: every slot in one place | abstract |
| `MCCmQueue` | instance: background, one handler, one transmit queue | - |
| `OptoTx` | transmit path of driver and FPGA | `driver/opto.c:254-320, 388-539`, `opto_ctl.vhd:396-513` |
| `Fifo` | a first-in first-out link | abstract |
| `OptoRx` | receive path: parsing of frames with lost bytes, handler | `driver/opto.c:223-329`, `opto_ctl.vhd:392-573` |
| `OptoPipe` | RD, FT, request flip-flop per clock tick | `opto_ctl.vhd:325-423, 575-879` |
| `RunCtl` | requests, `daq_hal_run`, `opto_tx`'s use of the control word, timer tick | `daq_srv.c:184-357`, `daq_hal.c:178-241`, `cp_srv.c:466-507` |
| `FwMsg` | the firmware's messages as a whole: link, CM, servers | `core/cm.c:389-656, 1300-2064`, `cp_srv.c:148-607`, `daq_srv.c:149-454`, `driver/opto.c:254-539` |
| `Session` | registration, ping, timeouts of the Linux host and the board | `linux/de0_cmd/core/cm.c:904-2130`, `cp_cli.c:212-482`, `cm.c:774-856`, `cp_srv.c:372-507` |
| `DaqView` | an acquisition through the threads of the Windows GUI | `win/jack`: `opto.cpp:408-509, 656-684`, `cmapi.cpp:1861-1955`, `DAQView.cpp:94-112, 371-787` |
| `CmQueueProofs`, `OptoTxProofs`, `OptoRxProofs`, `OptoPipeProofs`, `RunCtlProofs`, `FwMsgProofs`, `SessionProofs`, `DaqViewProofs` | theorems | - |

How state and actions correspond to the code:

- **CmQueue.**  `qstate`, `q_head`, `q_tail`, `q_msg_cnt` are the code's.  `held`
  records who has a pointer; the code has no such record.  `Alloc`, `Qmsg`,
  `Free` and `Deliver` are the routines, each one step because each runs with
  interrupts off.  The scans of `cm_alloc` and `cm_thread` are "the first slot
  in that state, starting from" (`FirstFrom`).  `HandOver` is what the servers'
  and ports' queues do with a delivered pointer.
- **OptoTx.**  `buf`, `head`, `tail` are `txq`; `tx_head` is the driver's, `tx_tail` and `tx_int`
  the FPGA's.  The background's way through `opto_cmio` and `opto_msgtx` is three steps
  (`Cmio`, `Check`, `Load`) because the interrupt is on there; `opto_tx`, which
  masks it, is one (`Transmit`).  The handler is two (`IsrAck`, `IsrMsgtx`).
  `TxEnd` and `PipeEnd` are the two places of FT that raise the interrupt.
  `owed` is the set of messages whose slot the link has still to free.
- **OptoRx.**  `pos` is where the host is in the frame it sends; `Start`, `Escape`, `Store`,
  `End` are RX_FRAME's branches for the byte that comes, `Lose` is a byte that does
  not come.  A frame has two parts, the second sent escaped; `kept` says which of them
  are in the slot, where they belong and unescaped.  A frame's number stands for
  its content, `Bad` for anything else.  The handler's loop is three steps,
  `IsrTake`, `IsrSample`, `IsrAck`, split where the code reads the hardware again.
- **OptoPipe.**  One action `Tick` is one clock: every primed register is a
  function of the old values of all.  Inputs (memory ready, line ready, a CM
  byte first, last byte) are left open.  `Start`, `Stop`, `Sampled`,
  `HeadCleared` are the processor and the ADC block between two ticks.
- **RunCtl.**  A word is the set of its bits that are set.  Each load and each
  store of a shared word by the background is a step; `Tick` is the timer
  handler as a whole.
- **FwMsg.**  `msg`, `waiting` are the CM queue as `SlotPool` promises it (state and content of
  a slot); `cpq`, `daqq`, `txq` the rings of pointers, which `Put` empties when they
  overrun, as the code does.  The background is `turn` (which thread) and `at`
  (where in it): a `Fetch` action each, `Route...` by destination, then a handler
  in steps because interrupts come in between: `Compose` (its `cm_alloc`) or `NoAnswer`,
  `Send` (`cm_send`, or the early return of a refused ping), `Release` (`cm_free`).  The
  link's handler is `RxTake`, `PipeInt`, each followed by `IsrQueue`, and `TxEnd`.  `due` is a history:
  requests the host waits for an answer to.
- **Session.**  `armed`, `count` are `cm.tim[]`; `cm_tick` is `TickLoad`, `TickStore`, `TickTest` for
  each timer, because `count--` is a load and a store and `SetTimer` comes from other
  threads.  `feature` is the board's `CFG_FEATURE_PING`, either value from the start on: only with
  it does `cp_tick` look at the time (`BoardTimesOut`, `cp_srv.c:491`), and it is off by default.  `Answered` and `AnsweredToo` are the two `cm_timer_set` of a response.  `Pass` is
  the unit of time on both sides.  `fails`, `before`, `missed` are histories that count what
  the properties call a failed ping.
- **DaqView.**  One group of actions per thread: `FrameStarts`, `FrameEnds`, `RxControl` (driver),
  `CmThread`, `TakeBlock`, `TakeDone`, `WritePacket` (the view's), `Start`, `Started`, `Stop`, `Stopped`, `OnTimer`
  (the window's).  `StopFails` is the early return of a stop that gets no CM slot, and
  `RxControl` drops the indication for want of one; whether one is free is left open,
  because all views share the pool.  A block's place in the queue is its address in the ring, and
  `WritePacket` reads the ring when it writes, as the code does.  `excuse` is a history:
  "late", the driver has lapped the view or filled its queue; "missed", a block
  came before `m_bRunning` was set; "noslot", the indication or the stop it asks for
  found no slot.

How they compose: `CmQueue` implements `SlotPool`, `FwMsg` uses slots only as `SlotPool` allows
(`ImplementsPool` in both): what `FwMsg` shows of the servers holds with the ring and its
scan underneath, as far as its fairness of `Fetch` goes, which is `CmQueue`'s `Fetched`.
`OptoTx` and `OptoRx` are first-in first-out links (`Fifo`), which is what `FwMsg` has in their place;
`RunCtl` is what `FwMsg` has as one step, `Compose` of a run request.

Operators called "Slip" in their comment are not part of a specification:
each is a plausible slip in the code (a dropped guard, a missing reset, a
swapped order), used to see that the properties notice it.

## 3. Runs

| Run | Bounds | Distinct states | Shows |
| --- | --- | --- | --- |
| `CmQueue_ring` | N = Load = 4, two contexts, one queue | 33 124 | exclusive slots, exact counter, every message fetched unless the ring fills, implements `SlotPool` |
| `CmQueue_wrap` (violated) | the same | - | a ring full of queued messages reads as empty |
| `OptoTx_queue` | Que 8, 4 hardware slots, Window 7, pipe messages | 788 | each message freed once, at most one frame in hardware, wake-up never lost, implements `Fifo` |
| `OptoTx_race` (violated) | Window 3, Overlap | - | an interrupt between test and read loses a later message |
| `OptoRx_frames` | 4 hardware slots, Pool 3, 2 lost bytes | 99 688 | frames without loss once, whole, in order, none stranded, also while the pool is empty; the transmitter waits for no frame that has ended |
| `OptoPipe_run` | 3 packets, memory of 2, Backlog 1 | 771 | packets whole, in order, interrupt at the end and only there, runs complete |
| `OptoPipe_backlog` (violated) | Backlog 2 | - | a second packet overwrites the first |
| `RunCtl_abort` | ping timeout on, link transmitting | 948 | the ADC is never left running where no tick stops it; a host that stays away ends a run for good |
| `RunCtl_shared` (violated) | the same | - | `opto_tx` writes back a `pipe_run` that a tick has cleared |
| `FwMsg_flow` | 3 slots, 1 request at a time and its interrupts, 1 hardware slot, rings of 8 | 26 428 | one answer per request, no slot lost but by a refused ping, servers' rings never full, slots used as `SlotPool` promises |
| `DaqView_run` | ring of 3 blocks of 2, queue of 3, runs of 3 or 7 packets, 2 runs | 324 100 | the file is in order and complete when the run ends by itself, while the view keeps up, whatever the CM pool does; and the run ends, unless its indication or the stop finds no slot |
| `Session_ping` | ping 7, timeout 28, board 16, with and without the ping feature, an exchange takes 1 pass, one restart | 1 060 460 | neither side gives up too early; the host gives up a board that has dropped it, and a board with the feature a host that has left |

### Bounds, and why they are enough

- `N` is the ring's size (128 in the code).  Four is the smallest power of two
  with holes inside the ring that are not at its ends; the mask `& (N - 1)` is
  `% N` for powers of two only.  `Load = N`: the ring can fill.  The theorems
  hold for every `N`.
- `Que = 8` and `HwSlots = 4` are the code's.  `OptoTx`'s `Window` of 7 fills `txq` as
  far as it goes without overrun (there is no test for room, see hazards);
  messages are numbered modulo `Window + 1`, enough to tell them apart.
- `OptoRx`: four slots as in the code, of which three can be used: a fourth unread
  frame makes head and tail equal, which reads as none, and this is what `overrun`
  records; after it the host sends no further frame.  `Pool = 3 < 4`, so the pool runs dry with a
  frame waiting.  Two lost bytes: one spoils a frame, two may spoil the flags
  on either side of a boundary, or an escaped byte and the end flag after it.
  Frames that lose nothing are numbered modulo 4, as many as can be under way.
- `OptoPipe`: three packets through a memory of two wraps the address; the first
  packet, one in the middle and the last differ in the code, no other does.
- `RunCtl` has no bound: every word and place is finite.
- `FwMsg`: three slots are a request, its answer and an interrupt's indication, and
  run out when two of them wait for the line; request and interrupt are under
  way together, all seven kinds of request follow one another.  With two
  requests at a time the safety properties and the refinement hold as well
  (565 803 states).  With three slots `txq` cannot overrun; eight pending answers are
  listed as a hazard.
- `DaqView`: seven packets are three blocks and one left over, one block more
  than the queue (three entries, one of which stays empty) and as many as the
  ring; three are one block and one left over.  Two runs: the second starts on
  what the first, stopped anywhere, has left.  `Quiet`: a run starts when nothing of
  the one before is under way.  The code has no such wait: a hasty restart is a
  listed hazard, not modelled.
- `Session`: the code's periods are 15 s, 60 s and 30 s; 7, 28 and 16 keep their
  ratios, with two passes to spare for the board's coarse clock.  `MaxLag = 1` keeps an exchange
  shorter than a quarter of the ping period (15 s: nearly four seconds); a board
  restarts once.

### Timing that is assumed, and where it is dropped

`Overlap = FALSE` in `OptoTx` says that a frame does not end inside the few instructions
between `opto_cmio`'s read and `opto_tx`: a frame is hundreds of bytes on a serial line.  `Backlog = 1` says that a packet has been
read out of the memory before the next one is complete (it may still be on the line), and `Sampled`'s guard that no packet is complete on the one
clock on which the rise of `rd.rdy` becomes a request.  Neither is enforced by the code.  The runs with `TRUE`
or 2 drop the assumption, and each of them ends in one of the findings below.

Elsewhere nothing is assumed about timing; histories record when it went
wrong, and the properties say what holds if it did not: `raced` and `overrun` in `OptoRx`
(a frame that ends between the status read and the acknowledge, one that ends
while three others are unread),
`excuse` in `DaqView`, `fails` and `missed` in `Session`.

### Fairness

- `CmQueue`: weak fairness of `Deliver`: the background loop calls `cm_thread` for
  ever, and handlers return.  None for senders.
- `OptoTx`: weak for the handler (the processor executes it), strong for the
  background's way to `opto_tx` (interrupts leave it time: a pipe message is far
  longer than its handler) and for `TxEnd` (the host reads again and again, and
  the line alternates with pipe messages).
- `OptoRx`: the host ends a frame it has begun, with or without losses; weak for the handler and for the background's freeing, which is
  enabled only when no interrupt is pending: a handler that spins for a slot
  really starves it.  `Received` is therefore stated for executions in which a
  slot is free again and again.
- `OptoPipe`: the clock ticks, the ADC samples, memory and line answer, and CM
  bytes leave the line free now and again.
- `FwMsg`: strong for the background loop (it does not run while the link's handler
  waits for a slot) and for each queued slot (`CmQueue`'s `Fetched`), weak for the handler,
  strong for the end of a transmission.  None for requests, interrupts and ticks.
- `DaqView`: weak for every thread and for the board, none for the user.
- `Session`: time passes, the host's threads run, a message arrives or is lost, and
  `cp_tick` of a board with the ping feature looks some time.  None for losses, restarts and the end of the acquisition.
- `RunCtl`: the background finishes what it has begun; the ping timeout comes if
  the host stays away.  Nothing is assumed of requests.

Deadlock is checked except where the system may stop: in `CmQueue` (with every slot
queued, the finding, no one can move), in `OptoTx_race` (after the lost message, with
the window used up, nothing is left to do), in `OptoRx_frames` (no further frame after
an overrun), in `FwMsg_flow` (jammed: the handler waits for a slot that only the
background could free) and in `DaqView_run` (all runs are over).

## 4. Proofs

Machine-checked by TLAPS for every value of the constants that the named
assumptions admit (all of them on ranges; TLC evaluates them in the runs).

- `CmQueueProofs`: the inductive invariant is `TypeOK`, `Exclusive`,
  `HeldIsInUse` and `CountExact` together.  `Exclusive` is not inductive alone:
  that `cm_alloc` hands out a slot nobody has needs "idle slots are not held";
  that `Deliver` may subtract one needs the exact count.  From it follow
  `StallOnlyWhenFull`, the progress property `Approaches` (the distance from
  `q_tail`, shown with lemmas on the ring's arithmetic), and the refinement
  `ImplementsPool`.
- `OptoTxProofs`: `OneInFlight` needs that the hardware's tail is the driver's
  head or the slot before it, and that the argument of `opto_tx` is typed
  between the two reads.  It holds for both values of `Overlap`: the race loses
  messages, it does not overfill the hardware.  `FreedOnce`, `NeverAsleep` and
  `FirstInFirstOut` (the safety half of `ImplementsFifo`) are stated for
  `~Overlap`, where no frame ends between the read of `txq` in `opto_cmio` and
  `opto_tx`; with overlap they are false (finding 2).  Their invariant `QInv` says
  that the places from `txq.tail` on hold exactly the numbers owed, in order
  (`Line`), that what the background has read of `txq` is still so when it acts on
  it (`Undisturbed`), and that a ring with something in it has an interrupt or the background coming.
- `RunCtlProofs`: `AdcAborts` rests on "the ADC runs only under `DAQ_RUN` or
  inside a request that will set it", "a word read back still has its
  `DAQ_RUN`", and on the stop branch keeping the opcode.  `PipeAborts` proves that
  `PipeStopped` holds when nothing is transmitted, which is to say that the
  violation that `RunCtl_shared` finds is due to `opto_tx` alone.
- `OptoRxProofs`: `NobodyStranded` is inductive together with "the interrupt that
  called the handler is pending until it acknowledges it" (`Called`) and "the
  status it has read is still true when it does, but for a frame that has ended
  since" (`Fresh`).  `StoredWhole`, that a frame of which no byte is lost is in its
  hardware slot whole whatever its predecessors lost, needs that the parser's place
  follows the host's from the start flag on (`InStep`).  `QueuedInOrder` is the half
  of `InOrder` that concerns the queue: as long as at most three frames (`HwSlots - 1`)
  are unread at a time, what is handed on is the next whole frame; it needs the labels of the ring's places
  (`InLine`), and `NoneLeftOut` states what they are for: from the frame queued
  last to the one the host sends next no whole frame is missing.
- `OptoPipeProofs`: all for `Backlog = 1`, where a packet is out before the next
  burst may start; with more, `SinglePacket` is false (finding 3).  The invariant
  names the stages of a packet, from an empty RD over the burst, the request and
  its acknowledgement to the last byte (`NoPacket` ... `Sent`), and says what every
  register of the three processes is in each: the single states are easy, that no
  others are reached is what `OnePacketAtATime`, `PacketsInOrder` and
  `DoneNotBefore` rest on.
- `FwMsgProofs`: `RingsServed` (`ServersKeepUp`) holds without a condition, for any
  number of slots; it needs whose turn in the loop it is (`Turns`).  `NoSlotLost`
  (`NoLeak`), `FirmwareImplementsPool` (the refinement of `SlotPool`) and `AnswersExact`
  (`AnsweredOnce`) are about behaviours with `[]TxRoom`: `opto_cmio` does not look for
  room in `txq`, and the eighth message that waits there empties the ring, which is a
  listed hazard.  `RoomForAll` shows that the premise is met whenever there are fewer
  slots than places in `txq`, as in the run; the firmware has 128 slots and 8
  places.  The invariants say that nobody has a slot that another has (`Apart`),
  that what is not held and not idle is the answer to a ping without a connection
  (`LostInv`), and that a request's number is in one place, or in two while its
  answer is queued and its own slot not yet freed (`OneCarrier`).
- `SessionProofs`: `TypeCorrect`, `BoardWaits` (`PatientBoard`) and `HostWaits`
  (`PatientHost`) under `Timing`, which keeps the code's ratios and leaves the lengths
  open: the timeout is four ping periods, the board's longer than two and what two
  exchanges take, an exchange shorter than a quarter of a period.  15 s and 60 s
  are the code's; its 30 s are whole seconds compared with ">" (`cp_srv.c:496`),
  so the board gives up after 31, and an exchange may take up to half a second.
  None of the properties is near to inductive.  The invariant says that there is
  one exchange at a time and where its message is (`Shaped`, `Phase`), that the board's
  silence and what is left of the ping timer make no more than a period and what
  an exchange takes, two with a ping lost (`Patience`), and that the timeout is ahead of the ping
  timer by one period for every exchange that has failed (`Given`); a
  `cm_timer_set` that the timer thread is about to undo (`Undone`) counts from the
  one before it.  The thread's place in `cm_tick` enters only through what is left
  of each timer (`LeftP`, `LeftT`), which its load and store do not change.
- `DaqViewProofs`: `FileInOrder` (`InOrder`) and `RunComplete` (`Complete`), for blocks,
  rings, queues and runs of any size.  Neither is inductive.  The invariant
  counts: the frames under way are those that come next (`Stream`), the ring
  holds the last packets, as many as it has places (`RingHolds`), `DAQ_DONE_IND` is
  in one place with nothing behind it (`DoneLast`), the view's queue holds the
  next blocks without a gap (`Queued`), and the driver is at most a ring ahead of the
  block that is written (`Ahead`).  The first three hold whatever the view does
  while the file is open; the last two while it keeps up, that is until a run has the excuse
  "late".  The step from counts to places in the ring is arithmetic on
  remainders: two packets of less than a ring's distance have two places
  (`SamePlace`), and a block's places are next to each other (`InBlock`).
  `EndNeverLost` states the safety half of `Ends`: what ends a run is always under
  way, from the request to the timer of the window, unless the view's
  queue fills or `cm_alloc` fails, for the indication or for the stop that it asks
  for (or the run was started for no packets, which the board takes for a stop).
  A failed `cm_alloc` excuses `Ends` and `EndNeverLost` only: file and completeness do
  not depend on it.

Model-checked only: everything about liveness (`Fetched`, `ImplementsFifo`'s and
`Received`'s progress, `Completes`, `HostGone`, `AllAnswered`, `GivesUp`, `BoardNotices`, `Ends`),
which is beyond the prover.  `InOrder` of `OptoRx` compares with a selection from a
sequence (`SelectSeq`), of which the prover has no definition; `QueuedInOrder` and
`NoneLeftOut` state the same of the ring's places.

## 5. Findings

1. `core/cm.c:1968`: `q_msg_cnt` is masked with the ring's size minus one, so a ring
   full of queued messages counts 0 and stays stuck.
2. `driver/opto.c:536`: `opto_msgtx` reads `txq` before the interrupt is masked;
   `txq.tail` can overtake `txq.head`.
3. `opto_ctl.vhd:784`: a burst may start in the clock before `pipe_req` follows
   `rd.rdy`, over a packet that has not been sent.
4. `driver/opto.c:450`: `opto_tx` writes back a control word a timer tick has
   changed; the pipe stream stays on after an abort.

Weigh them with the timing above: 2 needs a frame to end in a window of a few
instructions; 3 needs no such luck, any backlog of two packets triggers it, as when
the host does not read for a packet's time; 1 needs 128 queued messages; 4 needs
the ping feature, which is a configuration item and off by default.

Not runs of their own, but seen in the others:

- `driver/opto.c:308`: the receive interrupt is acknowledged on a status that may be old by
  then, although the comment above says "clear the interrupt if head = tail"; the
  frame that ended in between waits for the next one (`raced` in `NotStranded`).
- `cp_srv.c:384`: a ping without a connection costs the slot of its answer for good (`NoLeak`).
- `driver/opto.c:255`: with all slots in the background's hands, `opto_isr` waits for ever (`Jammed`).
- `opto_ctl.vhd:528`: a frame whose start flag is lost is stored behind the parts of the frame before,
  and what the slot held four frames ago is handled in its place.
- `opto.cpp:438`, `DAQView.cpp:488`: without a free CM slot the indication of the end, or the stop
  it asks for, is dropped for good and the run stays on ("noslot"); a start whose
  file does not open never gives its slot back.
- `DAQView.cpp:604`: blocks that come before `m_bRunning` is set are dropped ("missed").
- `linux/de0_cmd/core/cm.c:937`: the host never repeats a registration whose response is lost, and has no timer yet.

## 6. What is left out, and why

- The content of messages beyond their kind, subscriptions and the routing
  table; messages on an unregistered port (no build has one).
- Continuous acquisition (`pktcnt` 0), where no run ends, and the
  software-controlled DMA request, which no code uses.
- The bytes of a frame that is sent, the bits on the line, and what becomes of the
  four receive slots once all are full.
- `opto_isr` nested inside `opto_tx`, which `daq_tick`'s `opto_pipe` makes possible by
  enabling the link's interrupt on its way out: a listed hazard.
- In `OptoPipe`, a start while the last packet of a stopped run is going out: the
  host starts a run on a command, long after.  A start on the very clock of a
  CM byte, which would not clear `pipe_cnt`, is listed as a hazard.
- In `DaqView`, a hasty restart (see `Quiet`), a lost or damaged packet on the line, who
  has the slots of the CM pool, the other transports, and the plot.
- In `Session`, acquisitions: what the board does to a run when the connection
  ends is `RunCtl`'s.  A `cm_alloc` that fails in the host's `cm_tick` (`cm.c:1322`: the timer
  reloads and no message is sent).  That the CM thread and the CP thread are two:
  one inbox stands for both, as there is one exchange at a time.  That `cm_tick` is
  called every 10 ms and once more every 100 ms, so that the host's periods are a
  tenth shorter than they say, in the same ratios; the board is the more patient
  for it.  The Windows command-line host's second timer queue.
- In `FwMsg`, `cm_route`'s branch for timer events (`core/cm.c:1387-1395`), which no
  message from the line reaches.
- The Linux host's OPC server and USB read loop, the console, self test, CRCs,
  the ADC's conversion, the SDRAM and time-stamp blocks: listed hazards where
  they have any, or without protocol.

## 7. Plan

Done, in this order: the queue every message goes through, both directions of
the link, the pipe path, run control, the firmware's messages as a whole, the
connection, the Windows acquisition.  Next:

1. `OptoTx` with `opto_tx` in steps and `RunCtl`'s tick, for the nested handler.
2. `CmRoutes`: the routing table with its holes against a reference look-up.
3. The Linux host's `opc_srv.c` and `fifo.c`.
