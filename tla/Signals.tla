------------------------------- MODULE Signals -------------------------------
(***************************************************************************)
(* Guest-to-host signals (life-support/signals.c) and the part of the      *)
(* polling thread (polling.c) that works under the signal lock.            *)
(*                                                                         *)
(* Each of the NSignals slots of the handler table has a thread, running   *)
(* SignalHandlerTopLevel.  It sleeps on a condition variable until its bit *)
(* of guest_to_host_signals is set, clears the bit, and calls the handler  *)
(* that is installed in the slot.  The guest, on the emulator's thread,    *)
(* sets a bit by loading and storing the word without the lock and then    *)
(* broadcasts without the lock, so a bit may be lost to a host thread's    *)
(* update and a broadcast may come too early.  The polling thread repairs  *)
(* that: every third round it sets the bits of all live slots.             *)
(*                                                                         *)
(* A client is what a handler serves: the host's command channel, installed *)
(* while Life Support is initialized, the disk channels the guest attaches *)
(* and detaches, and the MBIN channels the command handler starts.  Its    *)
(* handler function and its argument are both written as the client, so a  *)
(* call of function c with argument c is a proper one.                     *)
(*                                                                         *)
(* The rest of the polling loop, after the lock is released, touches none  *)
(* of this state.  Guest code is not part of the repository; its actions   *)
(* are what signals.c, polling.c and embed.h say of it.                    *)
(***************************************************************************)
EXTENDS Integers, FiniteSets

CONSTANTS NSignals,             \* size of the handler table
          Command,              \* the client of ExecuteGuestCommands
          Disks,                \* the clients of DiskLife
          Mbins,                \* the clients of SendMBINBuffers
          NullSignalHandler,    \* the function left by RemoveSignalHandler
          NULL,                 \* the null pointer
          ResetWhileAttached,   \* may the guest ask for a reset while channels
                                \* of its own are attached?
          MaxOps,               \* bound: operations the guest begins
          MaxLaters             \* bound: how often a handler cannot go on

GuestMade == Disks \cup Mbins
Clients == {Command} \cup GuestMade

ASSUME SlotsAssumption == NSignals \in Nat /\ NSignals >= 1
ASSUME ClientsAssumption ==
    /\ Command \notin GuestMade
    /\ Disks \cap Mbins = {}
    /\ NULL \notin Clients /\ NullSignalHandler \notin Clients
    /\ NULL # NullSignalHandler
ASSUME BoundsAssumption == MaxOps \in Nat /\ MaxLaters \in Nat
ASSUME ResetAssumption == ResetWhileAttached \in BOOLEAN

VARIABLES
    useSignalLocks,         \* has Life Support been initialized?
    signalLock,             \* the thread that holds the lock, or NoOne
    live,                   \* live_guest_to_host_signals
    guest_to_host_signals,
    reawaken,
    handlerFunction,        \* of each slot
    handlerArgument,        \* of each slot
    signal,                 \* of each client's queue; -1 when there is none
    filled,                 \* the clients whose queue is not empty
    impulse,                \* the MBIN clients with a guestToHostImpulse
    reset_request,
    pollTime,               \* in eighths of a second
    pc,                     \* where each thread is
    client,                 \* the client a thread is installing or removing
    slot,                   \* the slot it found
    reg,                    \* guest_to_host_signals as a thread has loaded it
    fn, arg,                \* what a handler thread has loaded for its call
    ops, laters             \* what has been used up of the bounds

lockVars == <<useSignalLocks, signalLock>>
maskVars == <<live, guest_to_host_signals, reawaken>>
tableVars == <<handlerFunction, handlerArgument>>
guestVars == <<filled, impulse, reset_request, ops>>
localVars == <<client, slot, reg, fn, arg, laters>>
vars == <<lockVars, maskVars, tableVars, signal, guestVars, pollTime, pc,
          localVars>>

Slots == 0 .. NSignals - 1
Emulator == NSignals            \* also the main thread, that initializes
Polling == NSignals + 1
Threads == 0 .. NSignals + 1
NoOne == NSignals + 2

\* A channel of the guest's own is attached
Attached == {c \in GuestMade : signal[c] # -1}

OneQuarterSecond == 2           \* in eighths of a second
-----------------------------------------------------------------------------
\* Mutant of InitializeSignalHandlers: the main thread forgets to lock
InitializeUnlocked ==
    /\ useSignalLocks = FALSE /\ signalLock = NoOne
    /\ live = {} /\ guest_to_host_signals = {} /\ reawaken = {}
    /\ handlerFunction = [i \in Slots |-> NULL]
    /\ handlerArgument = [i \in Slots |-> NULL]
    /\ signal = [c \in Clients |-> -1]
    /\ filled = {} /\ impulse = {} /\ reset_request = "none"
    /\ pollTime = 0
    /\ pc = [t \in Threads |-> IF t = Emulator THEN "init"
                                ELSE IF t = Polling THEN "first" ELSE "none"]
    /\ client = [t \in Threads |-> Command]
    /\ slot = [t \in Threads |-> 0]
    /\ reg = [t \in Threads |-> {}]
    /\ fn = [i \in Slots |-> NULL] /\ arg = [i \in Slots |-> NULL]
    /\ ops = 0 /\ laters = 0

\* InitializeSignalHandlers; the main thread holds the lock and the polling
\* thread has been created
InitializeSignalHandlers ==
    /\ useSignalLocks = FALSE /\ signalLock = Emulator
    /\ live = {} /\ guest_to_host_signals = {} /\ reawaken = {}
    /\ handlerFunction = [i \in Slots |-> NULL]
    /\ handlerArgument = [i \in Slots |-> NULL]
    /\ signal = [c \in Clients |-> -1]
    /\ filled = {} /\ impulse = {} /\ reset_request = "none"
    /\ pollTime = 0
    /\ pc = [t \in Threads |-> IF t = Emulator THEN "init"
                                ELSE IF t = Polling THEN "first" ELSE "none"]
    /\ client = [t \in Threads |-> Command]
    /\ slot = [t \in Threads |-> 0]
    /\ reg = [t \in Threads |-> {}]
    /\ fn = [i \in Slots |-> NULL] /\ arg = [i \in Slots |-> NULL]
    /\ ops = 0 /\ laters = 0

Init == InitializeSignalHandlers

Goto(t, label) == pc' = [pc EXCEPT ![t] = label]

\* pthread_cond_broadcast (&signalSignal), after thread t went to label
WakeHandlers(t, label) ==
    pc' = [u \in Threads |-> IF u = t THEN label
                             ELSE IF pc[u] = "waiting" THEN "lock" ELSE pc[u]]

\* Thread t has no more use for what it kept in its registers
Forget(t) == /\ client' = [client EXCEPT ![t] = Command]
             /\ slot' = [slot EXCEPT ![t] = 0]
             /\ reg' = [reg EXCEPT ![t] = {}]

\* The values of InstallSignalHandler's loop variable; the last one ends the loop
SearchIndex == 0 .. NSignals

\* Mutant of FirstFree: the loop goes on for i <= NSignals
FirstFreeBeyond(i) == /\ i \in SearchIndex \ live
                      /\ \A j \in SearchIndex \ live : i <= j

\* The slot InstallSignalHandler takes: the first one that is not live
FirstFree(i) == /\ i \in Slots \ live
                /\ \A j \in Slots \ live : i <= j

\* InitializeMessageChannels installs the command handler before the locks
\* are used
InitializeMessageChannels(i) ==
    /\ pc[Emulator] = "init"
    /\ signal[Command] = -1
    /\ FirstFree(i)
    /\ live' = live \cup {i}
    /\ handlerFunction' = [handlerFunction EXCEPT ![i] = Command]
    /\ handlerArgument' = [handlerArgument EXCEPT ![i] = Command]
    /\ signal' = [signal EXCEPT ![Command] = i]
    /\ Goto(i, "lock")
    /\ UNCHANGED <<lockVars, guest_to_host_signals, reawaken, guestVars,
                   pollTime, localVars>>

\* InitializeLifeSupport releases the lock to let the threads run
InitializationComplete ==
    /\ pc[Emulator] = "init"
    /\ signal[Command] # -1
    /\ useSignalLocks' = TRUE
    /\ signalLock' = NoOne
    /\ Goto(Emulator, "idle")
    /\ UNCHANGED <<maskVars, tableVars, signal, guestVars, pollTime, localVars>>
-----------------------------------------------------------------------------
(* The guest, on the emulator's thread *)

Begin == /\ pc[Emulator] = "idle"
         /\ ops < MaxOps
         /\ ops' = ops + 1

\* The guest puts into an empty queue: it has to signal the host
GuestPut(c) ==
    /\ Begin
    /\ signal[c] # -1 /\ c \notin filled
    /\ filled' = filled \cup {c}
    /\ client' = [client EXCEPT ![Emulator] = c]
    /\ slot' = [slot EXCEPT ![Emulator] = signal[c]]
    /\ Goto(Emulator, "load")
    /\ UNCHANGED <<lockVars, maskVars, tableVars, signal, impulse,
                   reset_request, pollTime, reg, fn, arg, laters>>

\* The guest loads the word of signals ...
GuestLoad ==
    /\ pc[Emulator] = "load"
    /\ reg' = [reg EXCEPT ![Emulator] = guest_to_host_signals]
    /\ Goto(Emulator, "store")
    /\ UNCHANGED <<lockVars, maskVars, tableVars, signal, guestVars, pollTime,
                   client, slot, fn, arg, laters>>

\* ... and stores it with its bit set
GuestStore ==
    /\ pc[Emulator] = "store"
    /\ guest_to_host_signals' = reg[Emulator] \cup {slot[Emulator]}
    /\ Goto(Emulator, "interrupt")
    /\ Forget(Emulator)
    /\ UNCHANGED <<lockVars, live, reawaken, tableVars, signal, guestVars,
                   pollTime, fn, arg, laters>>

\* SendInterruptToLifeSupport: a broadcast without the lock
SendInterruptToLifeSupport ==
    /\ pc[Emulator] = "interrupt"
    /\ WakeHandlers(Emulator, "idle")
    /\ UNCHANGED <<lockVars, maskVars, tableVars, signal, guestVars, pollTime,
                   localVars>>

\* The guest requests immediate action on an MBIN channel
GuestImpulse(m) ==
    /\ Begin
    /\ signal[m] # -1 /\ m \notin impulse
    /\ impulse' = impulse \cup {m}
    /\ UNCHANGED <<lockVars, maskVars, tableVars, signal, filled,
                   reset_request, pollTime, pc, localVars>>

\* The IFEP or Lisp asks for a reset of the communications area
GuestReset(request) ==
    /\ Begin
    /\ reset_request = "none"
    /\ ResetWhileAttached \/ (Attached = {} /\ Command \notin filled)
    /\ reset_request' = request
    /\ Goto(Emulator, "resetting")
    /\ UNCHANGED <<lockVars, maskVars, tableVars, signal, filled, impulse,
                   pollTime, localVars>>

\* The guest sees that the host has cleared its request
GuestResetDone ==
    /\ pc[Emulator] = "resetting"
    /\ reset_request = "none"
    /\ Goto(Emulator, "idle")
    /\ UNCHANGED <<lockVars, maskVars, tableVars, signal, guestVars, pollTime,
                   localVars>>

\* AttachDiskChannel is about to install its handler
AttachDiskChannel(d) ==
    /\ Begin
    /\ signal[d] = -1
    /\ client' = [client EXCEPT ![Emulator] = d]
    /\ Goto(Emulator, "install")
    /\ UNCHANGED <<lockVars, maskVars, tableVars, signal, filled, impulse,
                   reset_request, pollTime, slot, reg, fn, arg, laters>>

\* DetachDiskChannel is about to remove its handler
DetachDiskChannel(d) ==
    /\ Begin
    /\ signal[d] # -1
    /\ client' = [client EXCEPT ![Emulator] = d]
    /\ slot' = [slot EXCEPT ![Emulator] = signal[d]]
    /\ Goto(Emulator, "remove")
    /\ UNCHANGED <<lockVars, maskVars, tableVars, signal, filled, impulse,
                   reset_request, pollTime, reg, fn, arg, laters>>
-----------------------------------------------------------------------------
(* InstallSignalHandler, called by the emulator's thread or by a handler *)

\* Mutant of InstallLock: the slot is not marked live
InstallLockNotLive(t, i) ==
    /\ pc[t] = "install"
    /\ signalLock = NoOne
    /\ FirstFree(i)
    /\ signalLock' = t
    /\ handlerFunction' = [handlerFunction EXCEPT ![i] = client[t]]
    /\ slot' = [slot EXCEPT ![t] = i]
    /\ Goto(t, "argument")
    /\ UNCHANGED <<useSignalLocks, maskVars, handlerArgument, signal,
                   guestVars, pollTime, client, reg, fn, arg, laters>>

\* Lock, find a slot and make it live
InstallLock(t, i) ==
    /\ pc[t] = "install"
    /\ signalLock = NoOne
    /\ FirstFree(i)
    /\ signalLock' = t
    /\ live' = live \cup {i}
    /\ handlerFunction' = [handlerFunction EXCEPT ![i] = client[t]]
    /\ slot' = [slot EXCEPT ![t] = i]
    /\ Goto(t, "argument")
    /\ UNCHANGED <<useSignalLocks, guest_to_host_signals, reawaken,
                   handlerArgument, signal, guestVars, pollTime, client, reg,
                   fn, arg, laters>>

\* "Signal table overflow": the process exits
InstallOverflow(t) ==
    /\ pc[t] = "install"
    /\ signalLock = NoOne
    /\ Slots \subseteq live
    /\ pc' = [u \in Threads |-> "crashed"]
    /\ UNCHANGED <<lockVars, maskVars, tableVars, signal, guestVars, pollTime,
                   localVars>>

\* Store the argument, create the slot's thread if there is none, unlock
InstallUnlock(t) ==
    /\ pc[t] = "argument"
    /\ handlerArgument' = [handlerArgument EXCEPT ![slot[t]] = client[t]]
    /\ signalLock' = NoOne
    /\ pc' = [pc EXCEPT ![t] = "installed",
                        ![slot[t]] = IF @ = "none" THEN "lock" ELSE @]
    /\ UNCHANGED <<useSignalLocks, maskVars, handlerFunction, signal,
                   guestVars, pollTime, localVars>>

\* The caller stores the signal in its queue; a handler goes on with its loop
InstallReturn(t) ==
    /\ pc[t] = "installed"
    /\ signal' = [signal EXCEPT ![client[t]] = slot[t]]
    /\ Goto(t, IF t = Emulator THEN "idle" ELSE "run")
    /\ Forget(t)
    /\ UNCHANGED <<lockVars, maskVars, tableVars, guestVars, pollTime, fn, arg,
                   laters>>
-----------------------------------------------------------------------------
(* RemoveSignalHandler, called by DetachDiskChannel *)

\* Lock, and make the slot dead
RemoveLock ==
    /\ pc[Emulator] = "remove"
    /\ signalLock = NoOne
    /\ signalLock' = Emulator
    /\ live' = live \ {slot[Emulator]}
    /\ reawaken' = reawaken \ {slot[Emulator]}
    /\ reg' = [reg EXCEPT ![Emulator] = guest_to_host_signals]
    /\ Goto(Emulator, "pending")
    /\ UNCHANGED <<useSignalLocks, guest_to_host_signals, tableVars, signal,
                   guestVars, pollTime, client, slot, fn, arg, laters>>

\* Mutant of RemoveFunction: the slot is left as it was before its first use
RemoveFunctionNull ==
    /\ pc[Emulator] = "pending"
    /\ guest_to_host_signals' = reg[Emulator] \cup {slot[Emulator]}
    /\ handlerFunction' = [handlerFunction EXCEPT ![slot[Emulator]] = NULL]
    /\ Goto(Emulator, "null")
    /\ UNCHANGED <<lockVars, live, reawaken, handlerArgument, signal,
                   guestVars, pollTime, localVars>>

\* Leave a last interrupt pending and install NullSignalHandler
RemoveFunction ==
    /\ pc[Emulator] = "pending"
    /\ guest_to_host_signals' = reg[Emulator] \cup {slot[Emulator]}
    /\ handlerFunction' =
           [handlerFunction EXCEPT ![slot[Emulator]] = NullSignalHandler]
    /\ Goto(Emulator, "null")
    /\ UNCHANGED <<lockVars, live, reawaken, handlerArgument, signal,
                   guestVars, pollTime, localVars>>

\* Clear the argument, unlock
RemoveUnlock ==
    /\ pc[Emulator] = "null"
    /\ handlerArgument' = [handlerArgument EXCEPT ![slot[Emulator]] = NULL]
    /\ signalLock' = NoOne
    /\ Goto(Emulator, "removed")
    /\ UNCHANGED <<useSignalLocks, maskVars, handlerFunction, signal,
                   guestVars, pollTime, localVars>>

\* DetachDiskChannel goes on; the guest forgets the queue
DetachReturn ==
    /\ pc[Emulator] = "removed"
    /\ signal' = [signal EXCEPT ![client[Emulator]] = -1]
    /\ filled' = filled \ {client[Emulator]}
    /\ Goto(Emulator, "idle")
    /\ Forget(Emulator)
    /\ UNCHANGED <<lockVars, maskVars, tableVars, impulse, reset_request, ops,
                   pollTime, fn, arg, laters>>
-----------------------------------------------------------------------------
(* SignalHandlerTopLevel, the thread of slot i *)

\* Lock the mutex (at first, after a call, and on leaving pthread_cond_wait);
\* is the slot's bit set?
HandlerTest(i) ==
    /\ pc[i] = "lock"
    /\ signalLock = NoOne
    /\ signalLock' = i
    /\ IF i \in guest_to_host_signals
         THEN /\ reg' = [reg EXCEPT ![i] = guest_to_host_signals]
              /\ Goto(i, "clear")
         ELSE Goto(i, "wait") /\ UNCHANGED reg
    /\ UNCHANGED <<useSignalLocks, maskVars, tableVars, signal, guestVars,
                   pollTime, client, slot, fn, arg, laters>>

\* pthread_cond_wait
HandlerWait(i) ==
    /\ pc[i] = "wait"
    /\ signalLock' = NoOne
    /\ Goto(i, "waiting")
    /\ UNCHANGED <<useSignalLocks, maskVars, tableVars, signal, guestVars,
                   pollTime, localVars>>

\* Clear the bit, unlock
HandlerClear(i) ==
    /\ pc[i] = "clear"
    /\ guest_to_host_signals' = reg[i] \ {i}
    /\ signalLock' = NoOne
    /\ Goto(i, "call")
    /\ Forget(i)
    /\ UNCHANGED <<useSignalLocks, live, reawaken, tableVars, signal,
                   guestVars, pollTime, fn, arg, laters>>

\* Load the function to call.  The call expression loads it and the argument
\* after the unlock, in an order C leaves open
LoadFunction(i) ==
    /\ pc[i] \in {"call", "called arg"}
    /\ fn' = [fn EXCEPT ![i] = handlerFunction[i]]
    /\ Goto(i, IF pc[i] = "call" THEN "called fn" ELSE "run")
    /\ UNCHANGED <<lockVars, maskVars, tableVars, signal, guestVars, pollTime,
                   client, slot, reg, arg, laters>>

\* Load the argument of the call
LoadArgument(i) ==
    /\ pc[i] \in {"call", "called fn"}
    /\ arg' = [arg EXCEPT ![i] = handlerArgument[i]]
    /\ Goto(i, IF pc[i] = "call" THEN "called arg" ELSE "run")
    /\ UNCHANGED <<lockVars, maskVars, tableVars, signal, guestVars, pollTime,
                   client, slot, reg, fn, laters>>

\* The call is over
CallDone(i) == fn' = [fn EXCEPT ![i] = NULL] /\ arg' = [arg EXCEPT ![i] = NULL]

\* The function and its argument belong together
ProperCall(i) == fn[i] = NullSignalHandler \/ (fn[i] \in Clients /\ fn[i] = arg[i])

\* The handler takes from its queue until it is empty and returns; an MBIN
\* handler also acts on an impulse
HandlerReturn(i) ==
    /\ pc[i] = "run"
    /\ ProperCall(i)
    /\ filled' = filled \ {fn[i]}
    /\ impulse' = impulse \ {fn[i]}
    /\ Goto(i, "lock")
    /\ CallDone(i)
    /\ UNCHANGED <<lockVars, maskVars, tableVars, signal, reset_request, ops,
                   pollTime, client, slot, reg, laters>>

\* The handler cannot go on now and decides to ask to be called again
HandlerCannotGoOn(i) ==
    /\ pc[i] = "run"
    /\ ProperCall(i)
    /\ fn[i] \in filled
    /\ laters < MaxLaters
    /\ laters' = laters + 1
    /\ Goto(i, "later")
    /\ UNCHANGED <<lockVars, maskVars, tableVars, signal, guestVars, pollTime,
                   client, slot, reg, fn, arg>>

\* SignalLater (commandQueue->signal).  The shift takes the signal modulo the
\* width of the mask when the channel was detached and the signal is -1
SignalLater(i) ==
    /\ pc[i] = "later"
    /\ signalLock = NoOne
    /\ reawaken' = reawaken \cup {signal[fn[i]] % NSignals}
    /\ Goto(i, "lock")
    /\ CallDone(i)
    /\ UNCHANGED <<lockVars, live, guest_to_host_signals, tableVars, signal,
                   guestVars, pollTime, client, slot, reg, laters>>

\* ExecuteGuestCommands meets a command to start an MBIN channel
StartMBIN(i, m) ==
    /\ pc[i] = "run"
    /\ fn[i] = Command /\ arg[i] = Command
    /\ Command \in filled
    /\ signal[m] = -1
    /\ client' = [client EXCEPT ![i] = m]
    /\ Goto(i, "install")
    /\ UNCHANGED <<lockVars, maskVars, tableVars, signal, guestVars, pollTime,
                   slot, reg, fn, arg, laters>>

\* A function is called with an argument that is not its own: the process
\* dies on a pointer that is null or of another type
HandlerCrash(i) ==
    /\ pc[i] = "run"
    /\ ~ProperCall(i)
    /\ pc' = [t \in Threads |-> "crashed"]
    /\ UNCHANGED <<lockVars, maskVars, tableVars, signal, guestVars, pollTime,
                   localVars>>
-----------------------------------------------------------------------------
(* IvoryLifePolling, as far as it holds the lock *)

\* Lock; account for the time slept, which is none the first time
PollLock ==
    /\ pc[Polling] \in {"first", "lock"}
    /\ signalLock = NoOne
    /\ signalLock' = Polling
    /\ pollTime' = IF pc[Polling] = "first" THEN 0 ELSE pollTime + 1
    /\ reg' = [reg EXCEPT ![Polling] = guest_to_host_signals]
    /\ Goto(Polling, "impulse")
    /\ UNCHANGED <<useSignalLocks, maskVars, tableVars, signal, guestVars,
                   client, slot, fn, arg, laters>>

\* PollMessageChannels sets the bits of the channels with an impulse; it does
\* not broadcast
PollMessageChannels ==
    /\ pc[Polling] = "impulse"
    /\ LET bits == {signal[m] : m \in {c \in impulse : signal[c] # -1}}
       IN  guest_to_host_signals' = IF bits = {} THEN guest_to_host_signals
                                                 ELSE reg[Polling] \cup bits
    /\ Goto(Polling, "poll")
    /\ Forget(Polling)
    /\ UNCHANGED <<lockVars, live, reawaken, tableVars, signal, guestVars,
                   pollTime, fn, arg, laters>>

\* ProcessResetRequest.  A Lisp reset empties the queues of all channels and
\* removes the handlers of the guest's own.  RemoveSignalHandler locks the
\* mutex, which this thread holds: then the call does not return
ProcessResetRequest ==
    /\ pc[Polling] = "poll"
    /\ reset_request # "none"
    /\ LET full == reset_request = "lisp"
           stuck == full /\ Attached # {}
       IN /\ filled' = IF full THEN {} ELSE filled
          /\ impulse' = IF full THEN {} ELSE impulse
          /\ reset_request' = IF stuck THEN reset_request ELSE "none"
          /\ signalLock' = IF stuck THEN Polling ELSE NoOne
          /\ Goto(Polling, IF stuck THEN "relock" ELSE "lock")
    /\ UNCHANGED <<useSignalLocks, maskVars, tableVars, signal, pollTime, ops,
                   localVars>>

\* Which handlers are to be called: all of them, those that asked for it, none
PollBits == IF pollTime > OneQuarterSecond THEN live ELSE reawaken

\* Mutant of PollLoad: the polling thread goes on although a reset is requested
PollLoadAnyway ==
    /\ pc[Polling] = "poll"
    /\ LET nothing == pollTime <= OneQuarterSecond /\ reawaken = {}
       IN /\ signalLock' = IF nothing THEN NoOne ELSE Polling
          /\ Goto(Polling, IF nothing THEN "lock" ELSE "bits")
          /\ reg' = [reg EXCEPT ![Polling] = IF nothing THEN {}
                                             ELSE guest_to_host_signals]
    /\ UNCHANGED <<useSignalLocks, maskVars, tableVars, signal, guestVars,
                   pollTime, client, slot, fn, arg, laters>>

\* Load the word of signals, if any bit is to be set; else unlock and sleep
PollLoad ==
    /\ pc[Polling] = "poll"
    /\ reset_request = "none"
    /\ LET nothing == pollTime <= OneQuarterSecond /\ reawaken = {}
       IN /\ signalLock' = IF nothing THEN NoOne ELSE Polling
          /\ Goto(Polling, IF nothing THEN "lock" ELSE "bits")
          /\ reg' = [reg EXCEPT ![Polling] = IF nothing THEN {}
                                             ELSE guest_to_host_signals]
    /\ UNCHANGED <<useSignalLocks, maskVars, tableVars, signal, guestVars,
                   pollTime, client, slot, fn, arg, laters>>

\* Mutant of PollStore: no broadcast
PollStoreQuiet ==
    /\ pc[Polling] = "bits"
    /\ guest_to_host_signals' = reg[Polling] \cup PollBits
    /\ IF pollTime > OneQuarterSecond
         THEN pollTime' = 0 /\ UNCHANGED reawaken
         ELSE reawaken' = {} /\ UNCHANGED pollTime
    /\ signalLock' = NoOne
    /\ Goto(Polling, "lock")
    /\ Forget(Polling)
    /\ UNCHANGED <<useSignalLocks, live, tableVars, signal, guestVars,
                   fn, arg, laters>>

\* Set the bits, broadcast, unlock and sleep
PollStore ==
    /\ pc[Polling] = "bits"
    /\ guest_to_host_signals' = reg[Polling] \cup PollBits
    /\ IF pollTime > OneQuarterSecond
         THEN pollTime' = 0 /\ UNCHANGED reawaken
         ELSE reawaken' = {} /\ UNCHANGED pollTime
    /\ signalLock' = NoOne
    /\ WakeHandlers(Polling, "lock")
    /\ Forget(Polling)
    /\ UNCHANGED <<useSignalLocks, live, tableVars, signal, guestVars,
                   fn, arg, laters>>
-----------------------------------------------------------------------------
Crashed == pc[Emulator] = "crashed"

\* Nothing happens after the process has died
Dead == Crashed /\ UNCHANGED vars

EmulatorStep == \/ InitializationComplete \/ GuestResetDone
                \/ \E i \in SearchIndex : InitializeMessageChannels(i)
                \/ GuestLoad \/ GuestStore \/ SendInterruptToLifeSupport
                \/ RemoveFunction \/ RemoveUnlock \/ DetachReturn
                \/ InstallUnlock(Emulator) \/ InstallReturn(Emulator)
HandlerStep(i) == \/ HandlerWait(i) \/ HandlerClear(i)
                  \/ LoadFunction(i) \/ LoadArgument(i) \/ HandlerReturn(i)
                  \/ InstallUnlock(i) \/ InstallReturn(i)
PollStep == PollMessageChannels \/ ProcessResetRequest \/ PollLoad \/ PollStore
Locking(t) == \/ \E i \in SearchIndex : InstallLock(t, i)
              \/ InstallOverflow(t)
              \/ t = Emulator /\ RemoveLock
              \/ t = Polling /\ PollLock
              \/ t \in Slots /\ (HandlerTest(t) \/ SignalLater(t))

Next ==
    \/ \E i \in SearchIndex : InitializeMessageChannels(i)
    \/ InitializationComplete
    \/ \E c \in Clients : GuestPut(c)
    \/ \E m \in Mbins : GuestImpulse(m)
    \/ \E request \in {"fep", "lisp"} : GuestReset(request)
    \/ GuestResetDone
    \/ \E d \in Disks : AttachDiskChannel(d) \/ DetachDiskChannel(d)
    \/ GuestLoad \/ GuestStore \/ SendInterruptToLifeSupport
    \/ \E t \in Threads : \/ \E i \in SearchIndex : InstallLock(t, i)
                          \/ InstallOverflow(t)
                          \/ InstallUnlock(t)
                          \/ InstallReturn(t)
    \/ RemoveLock \/ RemoveFunction \/ RemoveUnlock \/ DetachReturn
    \/ \E i \in Slots :
          \/ HandlerTest(i) \/ HandlerWait(i) \/ HandlerClear(i)
          \/ LoadFunction(i) \/ LoadArgument(i)
          \/ HandlerReturn(i) \/ HandlerCannotGoOn(i) \/ SignalLater(i)
          \/ \E m \in Mbins : StartMBIN(i, m)
          \/ HandlerCrash(i)
    \/ PollLock \/ PollMessageChannels \/ ProcessResetRequest
    \/ PollLoad \/ PollStore
    \/ Dead

Spec == Init /\ [][Next]_vars

\* A thread that can run runs, and a thread that waits for the mutex gets it
\* although others take it again and again: the polling thread sleeps for an
\* eighth of a second between two rounds and a handler sleeps between signals,
\* so the mutex is free most of the time.  The guest need not begin anything.
FairSpec == /\ Spec
            /\ WF_vars(EmulatorStep)
            /\ WF_vars(PollStep)
            /\ \A i \in Slots : WF_vars(HandlerStep(i))
            /\ \A t \in Threads : SF_vars(Locking(t))
-----------------------------------------------------------------------------
(* Properties *)

\* The program points at which a thread holds the lock
InsideLock == {"init", "argument", "pending", "null", "wait", "clear",
               "impulse", "poll", "bits", "relock"}
OutsideLock == {"none", "idle", "first", "lock", "load", "store", "interrupt",
                "resetting", "install", "installed", "remove", "removed",
                "waiting", "call", "called fn", "called arg", "run", "later",
                "crashed"}

\* The program counters and what the threads keep in registers
ThreadsOK ==
    /\ pc \in [Threads -> InsideLock \cup OutsideLock]
    /\ client \in [Threads -> Clients]
    /\ slot \in [Threads -> Slots]
    /\ reg \in [Threads -> SUBSET Slots]
    /\ fn \in [Slots -> Clients \cup {NULL, NullSignalHandler}]
    /\ arg \in [Slots -> Clients \cup {NULL}]

\* The words of signals and the handler table
TableOK ==
    /\ live \subseteq Slots
    /\ guest_to_host_signals \subseteq Slots
    /\ reawaken \subseteq Slots
    /\ handlerFunction \in [Slots -> Clients \cup {NULL, NullSignalHandler}]
    /\ handlerArgument \in [Slots -> Clients \cup {NULL}]
    /\ signal \in [Clients -> Slots \cup {-1}]

\* The search for a slot never leaves the handler table, and the words of
\* signals hold bits of the table only
TypeOK ==
    /\ ThreadsOK /\ TableOK
    /\ useSignalLocks \in BOOLEAN
    /\ signalLock \in Threads \cup {NoOne}
    /\ filled \subseteq Clients
    /\ impulse \subseteq Clients
    /\ reset_request \in {"none", "fep", "lisp"}
    /\ pollTime \in Nat
    /\ ops \in 0 .. MaxOps /\ laters \in 0 .. MaxLaters

\* The emulator's thread is removing c's handler
Removing(c) == /\ pc[Emulator] \in {"pending", "null", "removed"}
               /\ client[Emulator] = c

\* The signal a queue names is live, its slot holds that channel's function and
\* argument and has a thread.  In particular no two channels share a slot,
\* though two threads install and slots are used again
SignalsAreServed ==
    Crashed \/ \A c \in Clients : signal[c] # -1 /\ ~Removing(c) =>
        /\ signal[c] \in live
        /\ handlerFunction[signal[c]] = c
        /\ handlerArgument[signal[c]] = c
        /\ pc[signal[c]] # "none"

\* "The mutex is locked until initialization is completed to prevent the
\* threads from running prematurely" (initialization.c:336)
NoPrematureRun ==
    ~useSignalLocks => /\ pc[Polling] = "first"
                       /\ \A i \in Slots : pc[i] \in {"none", "lock"}

\* A handler thread always has a function to call.  Its bit may have been set
\* for another reason than a put of the guest's: by the removal of its handler,
\* by the polling thread, by a guest that loaded its slot before the slot went
\* to another channel, or by SignalLater's shift for a channel detached in
\* between, which sets the bit of an unrelated slot (signals.c:207, 240)
CallsAFunction ==
    \A i \in Slots : pc[i] \in {"called fn", "run"} => fn[i] # NULL

\* A queue the guest has put into is eventually served, though the guest's bit
\* or its broadcast may be lost and the handler may have had to ask to be called
\* later
QueueIsServed ==
    \A c \in Clients : c \in filled ~> c \notin filled \/ Crashed

\* A reset request is eventually processed and cleared (embed.h:116)
ResetIsProcessed == reset_request # "none" ~> reset_request = "none" \/ Crashed

\* A handler is called with its own argument: removing a handler renders its
\* thread benign (signals.c:214)
CallsAreProper == \A i \in Slots : pc[i] = "run" => ProperCall(i)
=============================================================================
