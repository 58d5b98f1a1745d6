# TLA+ verification of the VLM

The repository is the Open Genera virtual machine: an emulator of the Symbolics
Ivory processor, translated into C (`stub/`), its glue (`emulator/`), **Life
Support** (`life-support/`), which gives the guest its devices, a main program
(`src/`) and a Chaosnet daemon (`chaosd/`). This directory models the parts in
which threads, the guest and messages meet, the instructions of the processor as
the generated C executes them, and the Chaosnet daemon with a network that
fails; it checks the models with TLC and proves the most important results with
TLAPS.

- [1. The system](#1-the-system) - inventory
- [2. The modules](#2-the-modules) - models and code
- [3. The runs](#3-the-runs) - what TLC checks, bounds, fairness
- [4. The proofs](#4-the-proofs)
- [5. Where code and documentation disagree](#5-where-code-and-documentation-disagree)
- [6. What is not modelled](#6-what-is-not-modelled)
- [7. Plan](#7-plan)

## 1. The system

One process runs the guest on the *emulator's thread* and one host thread for
each device or duty. They share the *communications area* (`embed.h`), a part of
the guest's memory. The guest's own side of each protocol is Lisp code outside
this repository.

| Component | State | Operations | Who else touches it | What is hard, what makes it correct |
|---|---|---|---|---|
| Queues `queues.c` | `element_array`, `put_index`, `take_index`, `signal` of each ring | `CreateQueue`, `EmbQueuePut*`, `EmbQueueTake*`, `EmbQueueFilled`, `EmbQueueSpace`, `ResetIncomingQueue` | one putter and one taker, no lock | order of memory accesses, wrapping, full ring, missed signal. A FIFO channel: nothing lost, repeated, stale; the taker never sleeps on a non-empty ring |
| Signals, guest to host `signals.c` | `live_guest_to_host_signals`, `guest_to_host_signals`, `reawaken_guest_to_host_signals`, the handler table, `signalLock`, `signalSignal` | `InstallSignalHandler`, `RemoveSignalHandler`, `SignalLater`, `SendInterruptToLifeSupport`, a thread per slot | the guest sets bits without the lock | lost bits and early broadcasts, slots used again, handlers removed while they run. Each signal reaches the handler of its own channel, and every queue is served |
| Polling thread `polling.c` | `pollTime`, `pollClockTime` | `IvoryLifePolling`, `ProcessResetRequest`, `UpdateVLMStatus` | all of the above | it is what repairs lost signals, so it must not block. A reset request is processed |
| Interval timer, interrupts to the guest `polling.c`, `signals.c`, `emulator/interfac.c`, `stub/ihalt.c` | `clockTime`, `clockLock`, `wakeupLock`, `host_to_guest_signals`, `please_trap`, `stop_interpreter` | `SetIntervalTimer`, `IntervalTimerDriver`, `EmbSendSignal`, `WaitForLifeSupport`, `traporsuspendmachine` | every host thread that sends, the emulator without locks | time-outs racing a new request, requests to trap overwritten or refused, wakeups before the sleep. The timer fires for what was last asked, every interrupt is taken |
| Message channels `message_channels.c` | list of active channels, MBIN buffers | `ExecuteGuestCommands`, `PollMessageChannels`, `ResetMessageChannel` | polling thread, command handler | a handler that installs handlers |
| Disk channels `disks.c` | attached channels, `error_pending` | attach, detach, `DiskLife`, `DoDiskIO` | emulator's thread, handler | detach during a request, errors that stop the queue |
| Initialization, termination `initialization.c` | everything | `InitializeLifeSupport`, `TerminateLifeSupport` | all threads | threads that run too early or are stopped too late |
| Console, cold load window, network channels | X11 and packet interfaces | as for disks | | mostly library calls |
| Chaosnet core `chaosd/chaos-core.c` | connections: state, packet numbers, window, retransmission list | RFC, OPN, data, STS, EOF, CLS, timeouts | network, stream server | packets lost, repeated and reordered; 16-bit packet numbers. Each end reads what the other wrote, in order; a finished connection was read to its end; nothing stays half open |
| Chaosnet stream server `chaosd/chaos-stream.c`, main loop `chaosd.c` | clients: state, buffers | accept, socket readable or writable, connection events | core, sockets | data that arrived before a close, clients that leave. No session waits for ever |
| Interpreter, data instructions `stub/ifun*.c` | stack, heap, internal registers, array cache | moves, arithmetic, lists, arrays, blocks, fields, instance variables, binding, subprimitives | page faults, the collector, trap handlers in Lisp | an instruction is begun again after a fault, memory is reached through chains of forwarding pointers, caches of decoded headers. Half-done work leaves nothing wrong behind, stores hit the word they mean and only that |
| Interpreter, control instructions `ifunfcal.c`, `ifuntrap.c`, `ifunloop.c`, parts of `ifuncom*.c` | frames on the control stack, control register, binding stack, catch blocks | calls, applies, entries, returns, catch and unwind-protect, branches, dispatch, traps | interrupts at each instruction | a return that first runs cleanups and is executed again, arguments pulled from lists piece by piece. The caller gets back all it had |
| Virtual memory `emulator/memory.c` | page attributes, mapped pages | create, protect, faults | interpreter | only its page attributes, as a memory cycle meets them |
| World files, spy, main program, other glue | | | | see section 6 |

The interactions that matter: the guest puts into a queue, sets the queue's bit
and calls `SendInterruptToLifeSupport`; a handler thread wakes, clears the bit
and empties the queue; its answers go through a queue in the other direction,
whose putter calls `EmbSendSignal`; that sets a bit, posts a request to trap and
wakes the emulator. The polling thread looks at all of it eight times a second.

`PROJECT.json` lists every component, and under `hazards` each place in the code
that a test would hardly reach, with the property that watches it.

## 2. The modules

| Module | Models |
|---|---|
| `EmbQueue` | `life-support/queues.c`, one put or take step by step |
| `FifoChannel` | abstract specification: a bounded FIFO channel |
| `Signals` | the guest-to-host half of `signals.c`, the locked half of `IvoryLifePolling`, and as much of disks and message channels as installs, removes or is called |
| `ClockInterrupts` | the host-to-guest half of `signals.c`, the interval timer and the polled clock of `polling.c`, `traporsuspendmachine` |
| `IvoryMemory`, `IvoryMachine` | words, memory cycles and forwarding; operands, traps and the retry of instructions |
| `IvoryMoves`, `IvoryArithmetic`, `IvoryLists`, `IvoryArrays`, `IvoryBlocks`, `IvorySubprims`, `IvoryFields`, `IvoryInstances`, `IvoryBinding` | the data instructions, a family in each |
| `IvoryData` | programs of data instructions, and their properties |
| `IvoryFrames`, `IvoryUnwinding`, `IvoryCalls`, `IvoryBranches` | frames and traps; bindings, catch blocks and cleanup; calls, entries and returns; branches, loops and dispatch |
| `IvoryControl` | programs of control instructions, and their properties |
| `ChaosCore` | `chaosd/chaos-core.c`, and the network |
| `ChaosPeer` | the guest's NCP and its servers (external) |
| `ChaosStream` | `chaosd/chaos-stream.c` and the main loop of `chaosd.c`, composed with the two above; the properties |
| `MCEmbQueue`, `MCSignals`, `MCClockInterrupts`, `MCIvoryData`, `MCIvoryControl`, `MCChaos` | small instances for TLC |
| `EmbQueueProofs`, `ClockInterruptsProofs`, `SignalsProofs`, `IvoryStoreProofs`, `ChaosProofs`, `ChaosRoutineProofs`, `ChaosDeliveryProofs`, `ChaosStreamProofs` | theorems about `EmbQueue`, `ClockInterrupts`, `Signals`, `IvoryData` and `ChaosStream` (the last four modules, each extending the one before) |

A program counter per thread (`putter`, `taker`, `pc`) splits a routine where
another thread can come in between: at each access to a shared word that no lock
protects, and where a mutex is locked or unlocked. What happens under a mutex,
and is read only under it, is one step. Definitions with a comment
"Mutant of" are deliberately wrong variants; they are part of no specification
and show that a property is able to fail.

### EmbQueue

`PutFill`, `PutWait`, `PutStore`, `PutSignal`, `PutSend` are the five accesses of
`EmbQueuePut`, in its order: fill in the free slot, wait while the ring is full,
publish `put_index`, compare the *original* put index with `take_index`, send
the signal. `TakerSignalled`, `TakerLoop`, `TakeCopy`, `TakeStore` are a handler
such as `DiskLife` or `ExecuteGuestCommands` around `EmbQueueTakeWord`. The word
and byte variants do the same steps.

*Memory.* `QueueStore` is a release store and `QueueLoad` an acquire load. Each
shared word therefore has the value its writer stored and the value the other
thread sees; `DrainElement`, `DrainPut`, `DrainTake` carry one to the other.
Release order is the guard of `DrainPut`. (The putter can see an old
`take_index` but never one that runs ahead of the taker's copy.) `weakMemory`
never changes in a behaviour: it is the machine, one of `MemoryModels`. On a
machine with `weakMemory = FALSE` each store is visible at once, which is what a
full fence between a store and the next load would give.

### Signals

The variables have the names of the code; `live`, `guest_to_host_signals` and
`reawaken` are sets of slots in place of bit masks. A *client* stands for a
queue, for its handler function and for the function's argument, so that "called
with its own argument" is an equation. The guest's update of
`guest_to_host_signals` is a load and a store; so are the host's own updates,
because the guest does not hold the lock. `LoadFunction` and `LoadArgument` are
separate and in either order: `signals.c:293` reads both without the lock.
`InstallOverflow` and `HandlerCrash` end the process.

A handler is one step (`HandlerReturn` empties the queue), except where it
touches the table: `StartMBIN` installs, `HandlerCannotGoOn` and `SignalLater`
ask for another call. `ProcessResetRequest` includes `ResetCommArea` and the
resets of all channels. `ResetWhileAttached` says whether the guest may ask for
a reset while channels of its own are attached.

### ClockInterrupts

Three threads: the emulator, the interval timer's driver and the polling thread.
`Sends(t)` is `EmbSendSignal` for both senders; `SendInterruptToEmulator` is two
stores. `TrapLoad`, `TrapClear`, `TrapDispatch` are `traporsuspendmachine` as it
is in the C that is built, where the Alpha's load-locked and store-conditional
have become a plain load and store. `ReturnLoad` and `ReturnStore` are the
recomputation of `stop_interpreter` when a function returns. A condition
variable's wait is: unlock and sleep, be woken (by broadcast, time-out or for no
reason), lock again; a time-out can be overtaken by a broadcast only before it
is decided.

Time is in ticks; a wait that is over may be noticed arbitrarily late. Two
variables are not in the code. `due` is the time until the interrupt the guest
last asked for, and only the end of that time, a new request or a cancellation
ends it. `owed` says that no interrupt has been made pending since that request;
it is set by a request of a guest that has allocated the clock's signal, and
cleared where `EmbSendSignal` stores the bit.

### The data instructions (`IvoryData`)

A word is a type, a cdr code and a datum of `Bits` bits; `mem` is the heap and
`stk` the words of one frame. Each routine `Do...` of `stub/` is an action of the
same name. Its operand comes from the frame, the stack's top or the instruction
(`Operands`), a read or write of memory is a *cycle* (`MemoryReadData`,
`MemoryReadHeader`, `MemoryReadCdr`, ...): it follows the forwarding pointers of
its kind, or it traps. A routine ends in one of three ways: `Continue` (the next
instruction), `PreTrap` (the stack is as before, the instruction will be
executed again) or an exception that Lisp completes. The memory action table,
the tags and the order of checks are those of the code; what the floating-point
unit computes is any float.

`PageOut` takes a page away or marks it for the transporter at any time;
`HandleFault` is what the trap handler does about it, `HandleException` a
handler that completes an instruction; `ForwardArray` is a collector that moves
an array and increments the event count, as Lisp must. The array cache and the
array registers (`reg.ac`, three words of the stack) keep the decoded header
with the event count of its decoding.

A program is any sequence of instructions of one family, so that the program
counter is left out: what one instruction leaves half done, in a cache, in a cdr
code or in the cleanup bit, meets every other instruction of its family.

### The control instructions (`IvoryControl`)

`stk` is the control stack, with stack addresses as its indices, `reg` the
registers (`fp`, `lp`, `pc`, the continuation, the control register `cr` with its
fields, the catch block pointer), `bindings` the binding stack. Code is a
function from pcs to instructions, `program` one of them. Each routine is an
action: `DoStartCall` and the kinds of functions (`callindirect`, `callgeneric`,
`callcompiled`), `DoFinishCallN`, the entries with `PullApplyArgs` and its slow
path, the returns, `DoCatchOpen`, `DoCatchClose`, the frame cleanup, the
branches, loops and dispatches. A trap pushes a frame and jumps through the
trap vector (`Vector`); handlers are programs too and return like functions.
`HIGHPRIORITYSEQUENCEBREAK`, `LOWPRIORITYSEQUENCEBREAK`, `PREEMPTREQUESTTRAP` and
`PageFault` come at any instruction, `MaxTraps` times.

`calls` is history: for each frame what its caller expects. Invariants and
action properties compare it with the machine when frames are left.

### Chaosnet (`ChaosStream`)

`ChaosCore` has a function for each routine of `chaos-core.c`, from a core and
arguments to the core after it, with what it emits in `out`: routines call each
other in the middle of their work (an acknowledgement ends the connection, which
sends CLS; learning an Ethernet address retransmits), and composition keeps that
order. `ChaosStream` does the same for the client's routines of
`chaos-stream.c`. The actions are rounds of the main loop: `RoundRead`,
`RoundWrite`, `RoundInput` (one frame or all that are there), `RoundLate`,
`RoundTick`, `RoundGiveUp`, `RoundFinish`, each with `client_service` at its end.
Numbers are modulo `PktSpace`, indices of connections modulo `UniqSpace`, so
that both wrap. Time is left out: a tick finds its timers run out or not, but a
host is given up only when it is dead or a packet is missing.

The network: packets in `toPeer` and `toCore` arrive in order and before any
timer runs out or anything else happens (a local Ethernet is faster than the
timers). A packet that is delayed (`Delay`) or repeated (`Duplicate`) goes to
`late`, from where it arrives at any later time, after any others, or never:
loss, reordering and repetition. Packets of an earlier connection thus meet a
later one in the same slot.

The peer is the guest's NCP as `chaos-core.c` uses it and as the automatic peer
of `chaosd-test.c` imitates it. It retransmits, acknowledges what its server
reads, probes, answers LOS for connections it does not know, may refuse, answer
simply, finish, or stop for ever (`PeerDies`).

## 3. The runs

| Run | Configuration | Result |
|---|---|---|
| `queue` | ring of 3, two elements, both kinds of memory, fairness | `TypeOK`, `RingOrder`, `TakeNeverEmpty`, `IsFifoChannel` hold; with ordered memory also `OrderedWakes`, `HeadIsTaken`, `PutReturns` (15 000 states) |
| `queue_lost_wakeup` | weak memory | `NoLostWakeup` is violated |
| `signals` | 2 slots, a command, a disk and an MBIN channel, 3 guest operations, one `SignalLater` | `TypeOK`, `SignalsAreServed`, `NoPrematureRun`, `CallsAFunction` hold (1.7 million states) |
| `signals_live` | 2 slots, command and disk channel, 2 guest operations, fairness | `QueueIsServed`, `ResetIsProcessed` hold (153 000 states) |
| `signals_torn_call` | 3 slots, 4 operations | `CallsAreProper` is violated |
| `signals_reset` | as `signals_live`, resets while a disk is attached | `ResetIsProcessed` is violated |
| `clock_interrupts` | timeouts -1, 0, 1; clock interval 2; 2 requests; one spurious wakeup; fairness | `TypeOK`, `SleepsForWhatIsOwed`, `WaitIsForRequest`, `SignalsAreTaken`, `TimerFires` hold (110 000 states) |
| `clock_timeout_race` | timeout 1, 2 requests | `SleepsForTheLatest` is violated |
| `ivory_data` | words of 14 bits, a heap of 28 words, 14 families | `TypeOK`, `CacheCoherent`, `BindingsUndo`, `AsetStoresOneElement`, `StoresKeepStructure` hold (359 000 states) |
| `ivory_control` | 629 programs, two interrupts or faults anywhere, fairness | `TypeOK`, `ArgumentsPreserved`, `CleanupBitsAgree`, `ReturnRestoresCaller`, `EntryDelivers`, `CleanupAtItsLevel`, `Terminates` hold (292 000 states) |
| `ivory_pull_fault` | applies whose list is partly in the stack, one page fault | `ArgumentsPreserved` is violated |
| `chaos` | six scopes, see below; fairness | `TypeOK`, `RingsHold`, `SlotsAreOwned`, `PeerReadsInOrder`, `ClientReadsInOrder`, `NeverOverruns`, `FinishedIsRead`, `ClosesAfterDelivery`, `WaitsEnd`, `NoHalfOpen` hold (502 000 states) |

The violations are discussed in section 5.

**Why the bounds are enough.** A ring of three slots can be empty, half full and
full, both indices wrap at different times, and a full round of the ring with
stores outstanding is reached; the proofs of section 4 remove the bound
altogether. With two slots in the handler table the disk and the MBIN channel
compete for the second one, so that slots are used again and the table overflows;
three guest operations are enough for attach, put, detach and for a command that
starts an MBIN channel which is then put into. The polling thread is not bounded:
its time is reset every third round. Two requests to the timer are the least with
which one can overtake or cancel another; -1, 0 and 1 are the cases that
`polling.c:273` tells apart, and a tick to wait for. `signals_live` leaves out
the MBIN channel to stay small enough for liveness.

In `ivory_data` 14 bits hold an array header with all its fields; the packed
arrays share words and begin inside other arrays; the heaps contain chains of
forwarding pointers.
`MCMaxSteps` gives each family as many instructions as it takes for a first one
to leave something behind, for a fault or a move, and for the instruction that
meets it. The stacks a program starts with hold the types its family tells apart.

In `ivory_control` the programs are the combinations of caller, way of calling
(number of arguments, apply of a list in the heap or partly in the stack,
disposition of the value), callee's entry (required, optional and rest
arguments), body (bindings, catch blocks, unwind-protects) and way of returning
that are of interest, and programs of branches and dispatch. The stack limits 24 and 34 let deep programs overflow in emulator
mode and not in the handler. Two interrupts are enough for one inside the
handler of the other and for one before and one after a retry.

In `chaos` a scope gives the faults of the network, the peer's connections, the
packets a server writes, the bytes the client of each session writes, and
whether the peer may die: `MCScopes` has (1,1,2,<<0>>,F), (0,1,1,<<1>>,F),
(1,1,0,<<2>>,F), (1,2,0,<<1,0>>,F), (1,1,0,<<1>>,T), (2,1,0,<<0>>,F). They are
the largest that stay small together: data in each direction and in both, two
sessions with a late packet of the first, its data included, two faults in
opening and closing, a host that stops. Late data of the peer's meeting another
session is left to the proof of `ClientReadsInOrder`. Packet numbers are modulo
16 and begin at 14 and 15, so that they wrap in the first packets; windows are 2
and the peer's never changes.

**Deadlock** is checked in every passing run except three. In
`queue` a wakeup lost in weak memory lets the putter wait for ever on a full ring;
in `ivory_data` a program has a bounded number of instructions and the frame a
bounded number of words; in `chaos` nothing is left to do when the sessions are
over. In `ivory_control` the check says that the machine, until it halts, always
has an instruction.

**Fairness.**
- *EmbQueue*: weak fairness of the putter inside a put, of the taker, and of the
  visibility of stores. Nobody has to begin a put.
- *Signals*: weak fairness of each thread's steps; strong fairness of locking
  `signalLock`. A mutex does not promise that by itself, but the polling thread
  sleeps an eighth of a second between rounds and handlers sleep between signals,
  so the mutex is not taken again at once. The guest has to begin nothing, and a
  handler may ask to be called later only `MaxLaters` times.
- *ClockInterrupts*: weak fairness of the host's threads and of time; strong
  fairness where a thread competes for `wakeupLock`. Of the guest it is assumed
  that Lisp's idle loop waits for Life Support again and again, that branches
  are executed again and again, and that the guest leaves the FEP. Without the
  first assumption `SignalsAreTaken` is false: a request to trap that was
  overwritten, or met the guest in I/O mode, is posted again only by
  `WaitForLifeSupport`. `TimerFires` is checked for a guest that does not
  program the timer before the timer's thread has started (`ProgramsEarly =
  FALSE`): `polling.c:267` stores -1 into `clockTime` without the lock and would
  forget the request.
- *IvoryControl*: the interpreter executes instructions as long as it is not
  halted. This is weak fairness of `Instructions`, written out because the
  deadlock check shows that they are enabled until then.
- *ChaosStream*: packets that are not late arrive; the main loop comes round,
  finds all timers run out and a client that is there reads its socket
  (`TicksFully`); the limits on unanswered RFCs, EOFs and silent
  hosts run out (`TimesOut`); the peer's timers
  run out. The loop's `poll` has a time-out of at most 50 ms, which justifies the
  first three. Each of these waits for a quiet network, which is so only between
  packets: fairness is strong, and written out with what enables each action.
  Nothing is assumed of what servers, clients and the network's faults begin.

## 4. The proofs

All theorems hold for every value of the constants that satisfies the named
assumptions, which TLC evaluates in the runs:
- `EmbQueue`: `QueueSize >= 2`, `NoElement` is not an element, `MemoryModels` is a
  set of Booleans;
- `ClockInterrupts`: timeouts are integers, intervals natural numbers, trap modes
  among the four that exist, bounds natural numbers;
- `Signals`: at least one slot; command, disk and MBIN channels are different
  clients (each queue belongs to one channel);
- `IvoryData` (`ProgramAssumption`): a program starts with a heap of words and
  an event count that is a number;
- Chaosnet: the ring is larger than the largest window the core allows and at
  least twice its own window, its size divides the number space, and the space
  is larger than two rings (in the code the ring is 64, the windows
  50 and 13, the space 65536); buffers,
  packets and tables hold at least one item.

`EmbQueueProofs`:
- `FilledPlusSpace` - `EmbQueueFilled` and `EmbQueueSpace` together make
  `queue_size - 1`, for all indices.
- `QueueInvariant`, hence `TypeCorrect`, `IndicesInOrder`, `NeverTakesEmpty`.
  `RingOrder` (going round the ring: the putter's view of `take_index`,
  `take_index`, the taker's view of `put_index`, `put_index`) is not inductive.
  `QueueInv` adds what the threads know between steps: the free slot found by
  the wait is still free when `put_index` is stored (`PutInProgress`), the slots
  the taker may copy are published (`SlotsPublished`), and the element it has
  copied is still the head (`TakeInProgress`).
- `ImplementsFifoChannel` - with the sequence of slots from `take_index` to the
  taker's view of `put_index` as the channel, each step of the ring is a send, a
  receive or a stutter, on machines of both kinds: release and acquire are
  enough for the contents of the ring.
- `OrderedMemoryWakes` - without reordering no element is left without a signal.
  The inductive `WakeupInv`: facing a non-empty ring, an idle taker has been
  signalled, or the putter is about to send, or is about to find that it must.

`ClockInterruptsProofs`:
- `TimerInvariant`, hence `TypeCorrect` and `DriverWaitsForRequest`. `TimerInv`
  adds that a sender between its check of
  the signal and its store has an allocated signal (`SetsAllocated`), and that
  whenever the timer is armed the guest's request is outstanding and due no
  later than the driver will wait (`ArmedForRequest`); the wait's own property
  follows from that at the moment it begins.
- `DriverSleepsForWhatIsOwed` - while an interrupt is owed the driver never sleeps
  without a time-out or with an old one. Hypothesis: `~ProgramsEarly`, see the
  fairness of `ClockInterrupts` in section 3. The inductive `OwedInv`: the driver
  sleeps for what is stored (`SleepsForStored`), it holds `clockLock` from the end
  of its wait until it waits again (`DriverHolds`), and as long as an interrupt is
  owed the timer is armed, except while the driver is sending it (`OwedIsArmed`).

`SignalsProofs`:
- `SignalsInvariant`, hence `SignalsTypeCorrect`, `EverySignalServed`,
  `NothingRunsEarly` and `HandlersCallFunctions`, for any number of slots, channels
  and operations. `SignalsTypeCorrect` says that the search for a slot stays in
  the handler table and the words of signals hold bits of the table only;
  `HandlersCallFunctions` that a thread whose bit was set, by whomever, has a
  function to call: a live slot's, or `NullSignalHandler` after a removal.
  `SignalsAreServed` is not inductive: between the steps of an installation or a
  removal the table is neither old nor new. `SignalsInv` says what each thread
  knows meanwhile: the slot it took is live, has its channel's function and is
  nobody else's (`InstallersOwnSlots`); the slot to be removed is still its
  channel's and, once its bit is cleared, not live (`RemoverOwnsSlot`); the
  command handler is in one slot only, so that no two handler threads install
  (`OneCommandHandler`); until initialization is complete the main thread holds
  the lock (`HeldBack`). After an overflow of the table or a wild call the
  process has exited and only the types remain.
- `LockIsExclusive` - each path through `signals.c` and `polling.c` is inside the
  lock exactly as long as it holds it, `pthread_cond_wait` and the reset
  included. The argument of every other part rests on it.

`IvoryStoreProofs`:
- `StoresDestroyNoStructure` - the action property `StoresKeepStructure`, for
  every heap, word size, program of the three families, page attributes and
  number of forwarding pointers in a chain. The heart is that every write cycle
  ends at a word that is neither a header nor a pointer of its cycle
  (`MemoryAction` over all types and cycles), that what is stored there has the
  cdr code of what was read there, and that a chain of forwarding pointers only
  ends the cycle somewhere else, or in a trap. `StoreInv`, that the heap is whole
  and the event count a number, carries it from step to step.

`ChaosProofs`:
- `ChaosInvariant`, hence `ChaosTypeCorrect`, `RingsAlwaysHold` and `NoSlotLeaks`,
  for every size of rings, windows, packets, buffers and number space, every
  number of connections, every peer window and every schedule of faults.
  `ChaosInv` says of each connection that its numbers are in order round the
  number space (acknowledged, receipted, sent, no further apart than the largest
  window; read, received, no further apart than the window), that a slot of a
  ring holds only a packet that belongs there, and that none of those between
  receipted and sent, or read and received, is missing (`Sending`, `Receiving`);
  that a slot is in use exactly if the client refers to it (`Owns`), which it
  does from its request until it is refused, fails or is closed (`ClientOK`); and
  that every packet on its way, late ones included, is well formed. `RingsHold`
  alone is not inductive: an acknowledgement frees slots, and it needs the order
  of the numbers to see that none of them holds a packet that is still wanted.
- The arithmetic is proved first: distances modulo the number space add up as
  long as they do not go round it, `SeqLt` is the order of numbers less than
  half of it apart, and numbers less than a ring apart have slots of their own.
- Loops of the code (`SendPieces`, `RecvRounds`, `Relearned`, `Inputs`) are
  recursive functions on the number of rounds. That such a function exists, and
  that each of its values is in order, is shown by induction on sets
  (`NatSetInduction`: a set with 0 and the successor of each of its numbers has
  all), which the provers can apply where they cannot instantiate an
  operator.

`ChaosRoutineProofs`, `ChaosDeliveryProofs` and `ChaosStreamProofs`, one argument
about the direction from the peer to the client, in three parts:
- `StreamInvariant`, hence `ClientReadsInOrderHolds` and `ClosesAfterDeliveryHolds`:
  a client reads OPN and a beginning of what the peer of *its own* connection
  wrote, and everything the connection had received in order by the time its
  socket is closed. Sizes of windows, rings, buffers and packets, the number of
  connection slots, and the schedule of losses, repetitions, delays, time-outs
  and departures are arbitrary.
- Hypotheses, on the constants: `NumbersLast`, a peer writes fewer packets on a
  connection than there are packet numbers, less the window; and `SessionsLast`,
  there are fewer sessions than uniquizers. They say that in one behaviour no
  number and no connection index means two things. Something like that is needed:
  the model's network may hold a packet back for any time, and 16 bits cannot tell
  a packet that is 65536 numbers late from a new one; the code relies on packets
  not being that late. The `chaos` run satisfies both (2 packets and 2 sessions of
  16 numbers and 4 uniquizers), and numbers still wrap in it, because connections
  start just below the end of the space.
- The invariant relates the state to a *view*, whose existence it asserts: the
  peers' streams so far, the connection indices in use and those not used yet, the
  session, the peer's index the connection must have, the bytes it has read, and a
  place it is known to have received. `Serving` says that each slot of the
  receive ring that is in use holds the packet of that peer's stream with the
  number it claims, that the part of a packet left over from a short read is the
  rest of it, and that what the client got with what is still in its output
  buffer is OPN and the bytes up to the place read. `Flying` says the same of the
  packets on their way and of those kept as late: whichever connection they are
  for, they carry the part of the stream their number says. `ClientReadsInOrder`
  alone is not inductive in many ways: it says nothing of the ring, of the network
  or of which late packets a new connection can meet.
- `ChaosRoutineProofs` proves what each routine of the core leaves alone and what
  it sends, for any sets of connection states and of packets that are closed under
  the routine's assignments, so that the loops are gone through once. The delivery
  part shows that each round, whether it read, wrote, took frames, took a late one
  or timed out, keeps a view, or extends it. The stream part does the same for the
  peer and the network and puts the steps together. `ClosesAfterDelivery` is about
  a step: the place received is noted in the view before it, and closing needs an
  empty ring and buffer, hence a client that has all of that.

**Only model-checked**:
- Liveness (`HeadIsTaken`, `PutReturns`, `QueueIsServed`, `ResetIsProcessed`,
  `SignalsAreTaken`, `TimerFires`, `Terminates`, `WaitsEnd`,
  `NoHalfOpen`): the prover has no rules for fairness and `ENABLED`.
- `PeerReadsInOrder`, `NeverOverruns` and `FinishedIsRead` of `ChaosStream`, the
  direction from the client to the peer. They would need the same bound on numbers
  and, since here chaosd is the sender, an invariant with the log of what each
  connection sent: that every packet in the send ring, on its way or kept by the
  peer is the log's entry of its number, and that no acknowledgement on its way is
  ahead of what the peer has read.
- `CacheCoherent`, `BindingsUndo`, `AsetStoresOneElement` and
  `TypeOK` of `IvoryData`, and all of `IvoryControl`. They hold for programs as the
  compiler and Lisp make them: array headers that can be decoded, instances with
  their mapping tables, frames and code that fit each other. The runs give these
  as definite heaps, stacks and programs; as assumptions on constants they would
  have to say what a well-formed Lisp heap is, which is not in this code.

## 5. Where code and documentation disagree

1. `queue_lost_wakeup`. After it has published an element the putter loads
   `take_index`; after it has published a take the taker loads `put_index`.
   Release and acquire let both loads overtake the stores before them. Then the
   putter finds that the ring was not empty and the taker that it is: no signal
   is sent (`queues.c:89`, `embed.h:321` promise one). x86-64 and arm64 code
   that uses LDAPR for acquire loads behave so. For a host taker the polling
   thread repairs it.
2. `signals_torn_call`. `signals.c:293` loads a handler's function and argument
   after the unlock. A removal, or a removal and a new installation in the same
   slot, makes a call with a null or a foreign argument. `signals.c:214` says that
   removal renders the thread benign.
3. `signals_reset`. A Lisp reset while a channel created by the guest is attached:
   the polling thread, holding `signalLock`, calls `RemoveSignalHandler`, which
   locks it. `embed.h:116` says that the host clears the request.
4. `ivory_pull_fault`. `PullApplyArgs` pushes the arguments it finds in the stack
   and advances the argument size, then goes to the slow path for the rest; a
   page fault there restores the stack pointer of the instruction's beginning
   (`restartsp`) and keeps the argument size. The arguments pulled are lost when
   the instruction is executed again. `alpha-emulator/fcallmac.lisp:363-365`
   warns of code that can fault after this.
5. `clock_timeout_race`. The driver's wait times out; before the driver has
   `clockLock` again the guest programs a new timeout. The driver sends the
   interrupt at once and stores -1 over the new timeout (`polling.c:294-297`), so
   that none comes at the time the guest asked for; `polling.c:308-309` says that
   the thread goes back to sleep with the new timeout. The guest is interrupted
   once after its last request in any case, at its time or early: `TimerFires`.

### Observations without a run

Noted while the code was read; the models do what the code does.

*Life Support.* A timer that is programmed before its thread has started is
forgotten (`polling.c:267`). `ihalt.c:17-19` loads and clears the request to trap in two plain accesses;
`alpha-emulator/ihalt.as:21-23`, from which it was made, relies on a
store-conditional that fails. `SignalsAreTaken` shows that the guest's idle loop
repairs it.

*Generated instructions.* Boole functions OrC2 and Nand compute `a & ~b` and
`a & b` (`ifunsubp.c:1524-1534`; `c-emulator/emulator.c:684-685` differs).
`DoCatchClose` computes the cleanup-in-progress bit and overwrites it
(`ifunfcal.c:2642-2655`; `emulator.c:3527` keeps it). Loop instructions compare
zero-extended words (`ifunloop.c:230-240`, 302-328). A read of the constant NIL
register pushes T and the other way round (`ifunsubp.c:2365-2386`). Writing FP,
LP, SP or the stack cache's lower bound falls through into writing the
continuation. `Aref1Exception` enters an array into the cache before it tests it
(`ifunarra.c:306-353`), which `CacheCoherent` shows to be harmless for arrays
that can be decoded. `DoUnbindN` after a fault in its loop starts with the full
count again. `consdoublefloat` advances the list cache before its store. Fields
of `char-ldb` and `p-ldb` that wrap round the word lose their upper part. An
event count above 2^22 never matches its truncated copy. An aref of an unpacked
Boolean array is always T. `HandleFrameCleanup` does not restore the
extra-argument bit. The comment "checking write access" at `ifunsubp.c:591`
stands over a data read.

*Chaosnet.* An EOF whose acknowledgement does not come in time closes the
connection with `CLOSE_DONE` (`chaos-core.c:928`), as an acknowledged one does
(line 447); `chaos-core.h:102` says of `CLOSE_DONE` "Our EOF was acknowledged and
we sent CLS". Only the reason, which is not part of the kind, tells the two apart,
so the kind of a close does not say that the peer has read everything;
`FinishedIsRead` is therefore about the steps that send the CLS. In the source
only a debugging message (`chaos-stream.c:489`) depends on it. A client that shuts its writing side before the peer's OPN is closed
(`chaos-stream.c:352-353`), so that `printf ... | nc -U` of `chaosd/README.md:27`
gets no answer where nc passes the end of file on. A client that leaves while
the peer's window is shut is noticed only when the server reads (the comment at
`chaos-stream.c:566` gives the reason). When a client's EOF is acknowledged, CLS
ends the peer's direction too. After a restart of chaosd the indices begin
again (`chaos-core.c:482-483`), and a probe of an old peer with the same index is
ignored while the RFC is outstanding.

## 6. What is not modelled

- The guest. Its actions are what the host's code provides for, marked external
  in the map of `PROJECT.json`. In `EmbQueue` it is taken to follow the host's
  own routines; in `ClockInterrupts` it takes all its signals at once.
- Halting, starting and single-stepping the machine by the spy:
  `ClockInterrupts` has a machine that runs.
- The multi-element queue routines (`EmbQueuePutBytes` and its relatives), which
  nothing calls.
- A spurious wakeup of a handler's `pthread_cond_wait` (the handler only tests
  its bit again); the driver's are bounded by `MaxSpurious`, because each one
  makes it sleep for the whole timeout again.
- `ResetIncomingQueue` against a take in progress, disk requests,
  `UpdateVLMStatus`, termination: see the plan.
- Of the instructions: the values of floating point; division by zero and of the
  most negative fixnum by -1, whose results are the host's; native calls
  (`ifuntran.c`); the window of the stack that is cached, and restarts after its
  faults; the filling of the instruction cache; throw, which is Lisp; paths under
  `#ifdef MINIMA`, which is not defined.
- Of Chaosnet: eviction, refresh and rate limit of the ARP table; the characters
  of the request line, host names; more than one client at a time, a full table;
  partial writes to a socket; `stream_shutdown`; the vmnet transport. A client
  writes all its bytes when it connects.
- Virtual memory beyond page attributes: it maps and protects host pages.
- The translator, world files, main program, spy, X11 and packet interfaces: file
  formats and library calls. `c-emulator/`, `signals-ptw.c` and the Alpha and G5
  sources are not built.

## 7. Plan

In order of importance; the first eight are done.

1. `EmbQueue` with its refinement and proofs.
2. `Signals` with polling and resets.
3. `ClockInterrupts` with its proofs.
4. The data instructions (`IvoryData`).
5. The control instructions (`IvoryControl`).
6. Chaosnet: `ChaosCore`, `ChaosPeer`, `ChaosStream`.
7. Proofs for `Signals`, for the stores of `IvoryData` and for Chaosnet.
8. Proofs of `ClientReadsInOrder` and `ClosesAfterDelivery`.
9. `DiskChannel` - `disks.c`: requests, `error_pending`, detach and reset against
   a running handler, composed with `FifoChannel`.
10. `UpdateVLMStatus` and `TerminateLifeSupport` as actions of `Signals`.
11. Two clients of chaosd at a time.
12. The reverse direction of the stream: proofs of `PeerReadsInOrder`, `NeverOverruns`
    and `FinishedIsRead`.
