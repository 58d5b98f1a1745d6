---------------------------- MODULE SignalsProofs ----------------------------
(***************************************************************************)
(* Proofs about the signals from the guest to the host, for every number   *)
(* of slots and every set of channels.                                     *)
(*                                                                         *)
(* A slot has one owner at a time: a channel whose queue names it, or a    *)
(* thread that has taken it and has not yet told the queue.  Who the owner *)
(* is can be read in handlerFunction, and that is why two owners differ;   *)
(* it is the argument of every step below that changes the table.          *)
(***************************************************************************)
EXTENDS Signals, TLAPS

EmulatorLabels == {"init", "idle", "load", "store", "interrupt", "resetting",
                   "install", "argument", "installed",
                   "remove", "pending", "null", "removed"}
PollingLabels == {"first", "lock", "impulse", "poll", "bits", "relock"}
HandlerLabels == {"none", "lock", "wait", "waiting", "clear", "call",
                  "called fn", "called arg", "run", "later",
                  "install", "argument", "installed"}

\* Each thread is in its own code
InOwnCode == /\ pc[Emulator] \in EmulatorLabels
             /\ pc[Polling] \in PollingLabels
             /\ \A i \in Slots : pc[i] \in HandlerLabels

\* The lock is held by the thread that is inside, and by no other
MutualExclusion == \A t \in Threads : pc[t] \in InsideLock <=> signalLock = t

\* Until initialization is complete the main thread holds the lock
HeldBack ==
    ~useSignalLocks => /\ pc[Emulator] = "init" /\ pc[Polling] = "first"
                       /\ \A i \in Slots : pc[i] \in {"none", "lock"}

\* The command handler is in the slot of the command channel only, so no two
\* handler threads install
OneCommandHandler ==
    \A i \in Slots : handlerFunction[i] = Command \/ fn[i] = Command
                         => signal[Command] = i

\* What a thread knows while it installs a handler: nobody has the slot it took
Installs(t) == pc[t] \in {"install", "argument", "installed"}
Installer(t) ==
    /\ Installs(t) => /\ client[t] \in IF t = Emulator THEN Disks ELSE Mbins
                      /\ t # Emulator => t \in Slots /\ fn[t] = Command
                      /\ signal[client[t]] = -1
    /\ pc[t] \in {"argument", "installed"} =>
          slot[t] \in live /\ handlerFunction[slot[t]] = client[t]
    /\ pc[t] = "installed" =>
          handlerArgument[slot[t]] = client[t] /\ pc[slot[t]] # "none"
InstallersOwnSlots == \A t \in Threads : Installer(t)

\* What the emulator's thread knows while it removes one
RemoverOwnsSlot ==
    /\ pc[Emulator] \in {"remove", "pending", "null", "removed"} =>
          /\ client[Emulator] \in Disks
          /\ signal[client[Emulator]] = slot[Emulator]
    /\ pc[Emulator] \in {"pending", "null"} => slot[Emulator] \notin live

\* A handler that asks to be called again has a queue
LaterHasQueue == \A i \in Slots : pc[i] = "later" => fn[i] \in Clients

Served(c) ==
    signal[c] # -1 /\ ~Removing(c) => /\ signal[c] \in live
                                      /\ handlerFunction[signal[c]] = c
                                      /\ handlerArgument[signal[c]] = c
                                      /\ pc[signal[c]] # "none"

AllServed == \A c \in Clients : Served(c)

RunningInv == /\ InOwnCode /\ MutualExclusion /\ HeldBack /\ OneCommandHandler
              /\ InstallersOwnSlots /\ RemoverOwnsSlot /\ LaterHasQueue
              /\ AllServed

\* The process has exited: no thread runs
Exited == useSignalLocks /\ \A t \in Threads : pc[t] = "crashed"

\* The inductive invariant
SignalsInv == TypeOK /\ (Exited \/ RunningInv)
-----------------------------------------------------------------------------
(* The parts of Next, by what they do to the handler table *)

GuestStep ==
    \/ \E c \in Clients : GuestPut(c)
    \/ \E m \in Mbins : GuestImpulse(m)
    \/ \E request \in {"fep", "lisp"} : GuestReset(request)
    \/ GuestResetDone \/ GuestLoad \/ GuestStore \/ SendInterruptToLifeSupport
    \/ \E d \in Disks : AttachDiskChannel(d) \/ DetachDiskChannel(d)
ServiceStep(i) == \/ HandlerTest(i) \/ HandlerWait(i) \/ HandlerClear(i)
                  \/ LoadFunction(i) \/ LoadArgument(i) \/ HandlerReturn(i)
                  \/ HandlerCannotGoOn(i) \/ SignalLater(i)
                  \/ \E m \in Mbins : StartMBIN(i, m)
TableStep ==
    \/ \E i \in Slots : InitializeMessageChannels(i)
    \/ InitializationComplete
    \/ \E t \in Threads, i \in Slots : InstallLock(t, i)
    \/ \E t \in Threads : InstallUnlock(t) \/ InstallReturn(t)
    \/ RemoveLock \/ RemoveFunction \/ RemoveUnlock \/ DetachReturn
PollingStep == PollLock \/ PollStep
CrashStep == \/ \E t \in Threads : InstallOverflow(t)
             \/ \E i \in Slots : HandlerCrash(i)

\* The threads are those of the slots and two more, and their numbers differ
LEMMA ThreadFacts ==
  /\ Threads = Slots \cup {Emulator, Polling}
  /\ Emulator \notin Slots /\ Polling \notin Slots /\ Emulator # Polling
  /\ NoOne \notin Threads /\ -1 \notin Slots
BY SlotsAssumption DEF Slots, Threads, Emulator, Polling, NoOne

\* Next is made of these parts; the search for a slot ends in the table
LEMMA NextParts ==
  ASSUME Next
  PROVE  \/ TableStep \/ GuestStep \/ (\E i \in Slots : ServiceStep(i))
         \/ PollingStep \/ CrashStep \/ Dead
<1>1. \A i \in SearchIndex : FirstFree(i) => i \in Slots
  BY DEF FirstFree
<1>2. ASSUME \E i \in SearchIndex : InitializeMessageChannels(i)
      PROVE  TableStep
  BY <1>1, <1>2 DEF TableStep, InitializeMessageChannels
<1>3. ASSUME NEW t \in Threads, \E i \in SearchIndex : InstallLock(t, i)
      PROVE  TableStep
  BY <1>1, <1>3 DEF TableStep, InstallLock
<1> QED
  BY <1>2, <1>3
  DEF Next, TableStep, GuestStep, ServiceStep, PollingStep, PollStep, CrashStep

\* Two threads that install do it for different channels: the emulator's for a
\* disk, the command handler's for an MBIN channel, and there is one of each
LEMMA InstallersDiffer ==
  ASSUME RunningInv, NEW t \in Threads, NEW u \in Threads,
         Installs(t), Installs(u), t # u
  PROVE  client[t] # client[u]
BY ThreadFacts, ClientsAssumption
   DEF RunningInv, InstallersOwnSlots, Installer, OneCommandHandler

\* A thread that was outside and stays outside leaves the lock alone
LEMMA OutsideStays ==
  ASSUME pc \in [Threads -> InsideLock \cup OutsideLock], MutualExclusion, NEW t \in Threads,
         NEW label \in OutsideLock, pc[t] \in OutsideLock, Goto(t, label), signalLock' = signalLock
  PROVE  MutualExclusion'
BY DEF MutualExclusion, Goto, InsideLock, OutsideLock

\* A step of the guest leaves the lock alone
LEMMA GuestLocks ==
  ASSUME TypeOK, MutualExclusion, GuestStep
  PROVE  MutualExclusion'
<1> USE ThreadFacts DEF TypeOK, ThreadsOK
<1>1. CASE \E c \in Clients : GuestPut(c)
  BY <1>1, OutsideStays DEF GuestPut, Begin, OutsideLock, lockVars
<1>2. CASE \E m \in Mbins : GuestImpulse(m)
  BY <1>2
  DEF GuestImpulse, Begin, MutualExclusion, InsideLock, OutsideLock, lockVars
<1>3. CASE \E request \in {"fep", "lisp"} : GuestReset(request)
  BY <1>3, OutsideStays DEF GuestReset, Begin, OutsideLock, lockVars
<1>4. CASE GuestResetDone
  BY <1>4, OutsideStays DEF GuestResetDone, OutsideLock, lockVars
<1>5. CASE GuestLoad
  BY <1>5, OutsideStays DEF GuestLoad, OutsideLock, lockVars
<1>6. CASE GuestStore
  BY <1>6, OutsideStays DEF GuestStore, OutsideLock, lockVars
<1>7. CASE SendInterruptToLifeSupport
  BY <1>7
  DEF SendInterruptToLifeSupport, WakeHandlers, MutualExclusion, InsideLock,
      OutsideLock, lockVars
<1>8. CASE \E d \in Disks : AttachDiskChannel(d)
  BY <1>8, OutsideStays DEF AttachDiskChannel, Begin, OutsideLock, lockVars
<1>9. CASE \E d \in Disks : DetachDiskChannel(d)
  BY <1>9, OutsideStays DEF DetachDiskChannel, Begin, OutsideLock, lockVars
<1> QED
  BY <1>1, <1>2, <1>3, <1>4, <1>5, <1>6, <1>7, <1>8, <1>9 DEF GuestStep

\* A handler's step takes or releases the lock as it enters or leaves
LEMMA ServiceLocks ==
  ASSUME TypeOK, MutualExclusion, NEW i \in Slots, ServiceStep(i)
  PROVE  MutualExclusion'
<1> USE ThreadFacts DEF TypeOK, ThreadsOK
<1>1. CASE HandlerTest(i)
  BY <1>1
  DEF HandlerTest, Goto, MutualExclusion, InsideLock, OutsideLock, lockVars
<1>2. CASE HandlerWait(i)
  BY <1>2
  DEF HandlerWait, Goto, MutualExclusion, InsideLock, OutsideLock, lockVars
<1>3. CASE HandlerClear(i)
  BY <1>3
  DEF HandlerClear, Goto, MutualExclusion, InsideLock, OutsideLock, lockVars
<1>4. CASE LoadFunction(i)
  BY <1>4, OutsideStays DEF LoadFunction, OutsideLock, lockVars
<1>5. CASE LoadArgument(i)
  BY <1>5, OutsideStays DEF LoadArgument, OutsideLock, lockVars
<1>6. CASE HandlerReturn(i)
  BY <1>6, OutsideStays DEF HandlerReturn, OutsideLock, lockVars
<1>7. CASE HandlerCannotGoOn(i)
  BY <1>7, OutsideStays DEF HandlerCannotGoOn, OutsideLock, lockVars
<1>8. CASE SignalLater(i)
  BY <1>8, OutsideStays DEF SignalLater, OutsideLock, lockVars
<1>9. CASE \E m \in Mbins : StartMBIN(i, m)
  BY <1>9, OutsideStays DEF StartMBIN, OutsideLock, lockVars
<1> QED
  BY <1>1, <1>2, <1>3, <1>4, <1>5, <1>6, <1>7, <1>8, <1>9 DEF ServiceStep

\* So does a step of the polling thread
LEMMA PollingLocks ==
  ASSUME TypeOK, MutualExclusion, PollingStep
  PROVE  MutualExclusion'
<1> USE ThreadFacts DEF TypeOK, ThreadsOK
<1>1. CASE PollLock
  BY <1>1
  DEF PollLock, Goto, MutualExclusion, InsideLock, OutsideLock, lockVars
<1>2. CASE PollMessageChannels
  BY <1>2
  DEF PollMessageChannels, Goto, MutualExclusion, InsideLock, OutsideLock,
      lockVars
<1>3. CASE ProcessResetRequest
  BY <1>3
  DEF ProcessResetRequest, Goto, MutualExclusion, InsideLock, OutsideLock,
      lockVars
<1>4. CASE PollLoad
  BY <1>4
  DEF PollLoad, Goto, MutualExclusion, InsideLock, OutsideLock, lockVars
<1>5. CASE PollStore
  BY <1>5
  DEF PollStore, WakeHandlers, MutualExclusion, InsideLock, OutsideLock,
      lockVars
<1> QED
  BY <1>1, <1>2, <1>3, <1>4, <1>5 DEF PollingStep, PollStep
-----------------------------------------------------------------------------
(* Each part of Next keeps the invariant of a running process *)

\* The guest's steps change no slot; an attach or a detach begins with what
\* the caller checked: the channel has no signal, or it has one
LEMMA GuestKeeps ==
  ASSUME TypeOK, RunningInv, GuestStep
  PROVE  RunningInv'
<1> USE ThreadFacts, ClientsAssumption
    DEF GuestStep, GuestPut, GuestImpulse, GuestReset, GuestResetDone,
        GuestLoad, GuestStore, SendInterruptToLifeSupport, AttachDiskChannel,
        DetachDiskChannel, Begin, Goto, WakeHandlers, TypeOK, ThreadsOK,
        RunningInv
<1>1. InOwnCode'
  BY DEF InOwnCode, EmulatorLabels, PollingLabels, HandlerLabels
<1>2. MutualExclusion'
  BY GuestLocks
<1>3. HeldBack'
  BY DEF HeldBack, lockVars
<1>4. OneCommandHandler'
  BY DEF OneCommandHandler, tableVars, localVars
<1>5. InstallersOwnSlots'
  <2> SUFFICES ASSUME NEW u \in Threads PROVE Installer(u)'
    BY DEF InstallersOwnSlots
  <2>1. Installer(u)
    BY DEF InstallersOwnSlots
  <2>2. \A v \in Threads : pc[v] # "none" => pc'[v] # "none"
    OBVIOUS
  <2> QED
    BY <2>1, <2>2
    DEF Installer, Installs, tableVars, localVars, maskVars, Forget, Clients,
        GuestMade
<1>6. RemoverOwnsSlot'
  BY DEF RemoverOwnsSlot, Clients, GuestMade, maskVars, localVars, Forget,
         TableOK
<1>7. LaterHasQueue'
  BY DEF LaterHasQueue, localVars
<1>8. AllServed'
  BY DEF AllServed, Served, Removing, tableVars, maskVars, localVars, TableOK
<1> QED
  BY <1>1, <1>2, <1>3, <1>4, <1>5, <1>6, <1>7, <1>8

\* A handler thread changes no slot; the command handler begins to install for
\* a channel that has no signal
LEMMA ServiceKeeps ==
  ASSUME TypeOK, RunningInv, NEW i \in Slots, ServiceStep(i)
  PROVE  RunningInv'
<1> USE ThreadFacts, ClientsAssumption
    DEF ServiceStep, HandlerTest, HandlerWait, HandlerClear, LoadFunction,
        LoadArgument, HandlerReturn, HandlerCannotGoOn, SignalLater, StartMBIN,
        Goto, TypeOK, ThreadsOK, RunningInv
<1>a. UNCHANGED <<handlerFunction, handlerArgument, signal, live,
                  useSignalLocks>>
  BY DEF tableVars, maskVars, lockVars
<1>b. /\ \A u \in Threads \ {i} : /\ pc'[u] = pc[u] /\ client'[u] = client[u]
                                  /\ slot'[u] = slot[u]
      /\ \A k \in Slots \ {i} : fn'[k] = fn[k]
  BY DEF localVars, Forget, CallDone
<1>c. pc[i] \notin {"none", "install", "argument", "installed"}
  OBVIOUS
<1>d. pc'[i] \notin {"none", "argument", "installed"}
  OBVIOUS
<1>e. fn'[i] \in {fn[i], handlerFunction[i], NULL}
  <2>1. \/ fn' = fn
        \/ fn' = [fn EXCEPT ![i] = handlerFunction[i]]
        \/ fn' = [fn EXCEPT ![i] = NULL]
    BY DEF localVars, CallDone
  <2>2. fn \in [Slots -> Clients \cup {NULL, NullSignalHandler}]
    OBVIOUS
  <2> QED
    BY ONLY <2>1, <2>2, i \in Slots
<1>f. pc'[i] = "install" => /\ client'[i] \in Mbins /\ fn'[i] = Command
                            /\ signal'[client'[i]] = -1
  BY DEF Clients, GuestMade
<1>1. InOwnCode'
  BY DEF InOwnCode, EmulatorLabels, PollingLabels, HandlerLabels
<1>2. MutualExclusion'
  BY ServiceLocks
<1>3. HeldBack'
  BY DEF HeldBack, lockVars, MutualExclusion, InsideLock
<1>7. LaterHasQueue'
  BY DEF LaterHasQueue, localVars, CallDone
<1> HIDE DEF ServiceStep
<1>4. OneCommandHandler'
  BY <1>a, <1>b, <1>e DEF OneCommandHandler, Clients
<1>5. InstallersOwnSlots'
  BY <1>a, <1>b, <1>c, <1>d, <1>f DEF InstallersOwnSlots, Installer, Installs
<1>6. RemoverOwnsSlot'
  BY <1>a, <1>b DEF RemoverOwnsSlot
<1>8. AllServed'
  <2>1. \A u \in Threads : pc[u] # "none" => pc'[u] # "none"
    BY <1>b, <1>d
  <2> QED
    BY <1>a, <1>b, <2>1 DEF AllServed, Served, Removing, TableOK
<1> QED
  BY <1>1, <1>2, <1>3, <1>4, <1>5, <1>6, <1>7, <1>8

\* The polling thread changes no slot
LEMMA PollingKeeps ==
  ASSUME TypeOK, RunningInv, PollingStep
  PROVE  RunningInv'
<1> USE ThreadFacts, ClientsAssumption
    DEF PollingStep, PollStep, PollLock, PollMessageChannels,
        ProcessResetRequest, PollLoad, PollStore, Goto, WakeHandlers, TypeOK,
        ThreadsOK, RunningInv
<1>1. InOwnCode'
  BY DEF InOwnCode, EmulatorLabels, PollingLabels, HandlerLabels
<1>2. MutualExclusion'
  BY PollingLocks
<1>3. HeldBack'
  \* while the main thread has the lock the polling thread is at its first
  <2>1. useSignalLocks
    BY DEF HeldBack, MutualExclusion, InsideLock
  <2> QED
    BY <2>1 DEF HeldBack, lockVars
<1>4. OneCommandHandler'
  BY DEF OneCommandHandler, tableVars, localVars
<1>5. InstallersOwnSlots'
  <2> SUFFICES ASSUME NEW u \in Threads PROVE Installer(u)'
    BY DEF InstallersOwnSlots
  <2>1. Installer(u)
    BY DEF InstallersOwnSlots
  <2>2. \A v \in Threads : pc[v] # "none" => pc'[v] # "none"
    OBVIOUS
  <2> QED
    BY <2>1, <2>2
    DEF Installer, Installs, tableVars, localVars, maskVars, Forget
<1>6. RemoverOwnsSlot'
  BY DEF RemoverOwnsSlot, maskVars, localVars, Forget
<1>7. LaterHasQueue'
  BY DEF LaterHasQueue, localVars
<1>8. AllServed'
  BY DEF AllServed, Served, Removing, tableVars, maskVars, localVars, Forget,
         TableOK
<1> QED
  BY <1>1, <1>2, <1>3, <1>4, <1>5, <1>6, <1>7, <1>8


\* The command handler is installed before the locks are used, in the one slot
\* that names it
LEMMA MessageChannelsKeep ==
  ASSUME TypeOK, RunningInv, NEW i \in Slots, InitializeMessageChannels(i)
  PROVE  RunningInv'
<1> USE ThreadFacts, ClientsAssumption
    DEF InitializeMessageChannels, FirstFree, Goto, TypeOK, ThreadsOK,
        RunningInv
<1>1. InOwnCode'
  BY DEF InOwnCode, EmulatorLabels, PollingLabels, HandlerLabels
<1>2. MutualExclusion'
  BY DEF MutualExclusion, InsideLock, OutsideLock, lockVars
<1>3. HeldBack'
  BY DEF HeldBack, lockVars
<1>4. OneCommandHandler'
  BY DEF OneCommandHandler, tableVars, localVars, TableOK, Clients
<1>5. InstallersOwnSlots'
  BY DEF InstallersOwnSlots, Installer, Installs, localVars, Clients,
         GuestMade, TableOK, OneCommandHandler
<1>6. RemoverOwnsSlot'
  BY DEF RemoverOwnsSlot, maskVars, localVars, Forget
<1>7. LaterHasQueue'
  BY DEF LaterHasQueue, localVars
<1>8. AllServed'
  BY DEF AllServed, Served, Removing, localVars, TableOK
<1> QED
  BY <1>1, <1>2, <1>3, <1>4, <1>5, <1>6, <1>7, <1>8

\* The main thread releases the lock
LEMMA CompletionKeeps ==
  ASSUME TypeOK, RunningInv, InitializationComplete
  PROVE  RunningInv'
<1> USE ThreadFacts, ClientsAssumption
    DEF InitializationComplete, Goto, TypeOK, ThreadsOK, RunningInv
<1>1. InOwnCode'
  BY DEF InOwnCode, EmulatorLabels, PollingLabels, HandlerLabels
<1>2. MutualExclusion'
  <2>1. signalLock = Emulator /\ signalLock' = NoOne
    BY DEF MutualExclusion, InsideLock
  <2>2. \A t \in Threads : pc'[t] \notin InsideLock
    BY <2>1 DEF MutualExclusion, InsideLock
  <2> QED
    BY <2>1, <2>2 DEF MutualExclusion
<1>3. HeldBack'
  BY DEF HeldBack, lockVars
<1>4. OneCommandHandler'
  BY DEF OneCommandHandler, tableVars, localVars, TableOK, Clients
<1>5. InstallersOwnSlots'
  BY DEF InstallersOwnSlots, Installer, Installs, localVars, tableVars,
         maskVars
<1>6. RemoverOwnsSlot'
  BY DEF RemoverOwnsSlot, maskVars, localVars, Forget
<1>7. LaterHasQueue'
  BY DEF LaterHasQueue, localVars
<1>8. AllServed'
  BY DEF AllServed, Served, Removing, localVars, TableOK, tableVars, maskVars
<1> QED
  BY <1>1, <1>2, <1>3, <1>4, <1>5, <1>6, <1>7, <1>8

\* A slot is found: it was not live, so it is nobody's
LEMMA InstallLockKeeps ==
  ASSUME TypeOK, RunningInv, NEW t \in Threads, NEW i \in Slots,
         InstallLock(t, i)
  PROVE  RunningInv'
<1> USE ThreadFacts, ClientsAssumption
    DEF InstallLock, FirstFree, Goto, TypeOK, ThreadsOK, RunningInv
<1>a. /\ Installer(t) /\ Installs(t)
      /\ t = Emulator \/ t \in Slots
  BY DEF InstallersOwnSlots, Installer, Installs
<1>b. client[t] # Command /\ client[t] \in Clients /\ signal[client[t]] = -1
  BY <1>a DEF Installer, Clients, GuestMade
<1>1. InOwnCode'
  BY DEF InOwnCode, EmulatorLabels, PollingLabels, HandlerLabels, Installs
<1>2. MutualExclusion'
  BY DEF MutualExclusion, InsideLock, OutsideLock, lockVars
<1>3. HeldBack'
  BY DEF HeldBack, lockVars
<1>4. OneCommandHandler'
  BY <1>b DEF OneCommandHandler, TableOK
<1>5. InstallersOwnSlots'
  <2> SUFFICES ASSUME NEW u \in Threads PROVE Installer(u)'
    BY DEF InstallersOwnSlots
  <2>1. Installer(u)
    BY DEF InstallersOwnSlots
  <2>2. CASE u = t
    BY <1>a, <2>2 DEF Installer, Installs, TableOK
  <2>3. CASE u # t
    BY <2>1, <2>3 DEF Installer, Installs, TableOK
  <2> QED
    BY <2>2, <2>3
<1>6. RemoverOwnsSlot'
  BY <1>a DEF RemoverOwnsSlot, Installs, MutualExclusion, InsideLock
<1>7. LaterHasQueue'
  BY DEF LaterHasQueue, localVars
<1>8. AllServed'
  BY <1>b DEF AllServed, Served, Removing, TableOK
<1> QED
  BY <1>1, <1>2, <1>3, <1>4, <1>5, <1>6, <1>7, <1>8

\* The handler is complete and its slot has a thread
LEMMA InstallUnlockKeeps ==
  ASSUME TypeOK, RunningInv, NEW t \in Threads, InstallUnlock(t)
  PROVE  RunningInv'
<1> USE ThreadFacts, ClientsAssumption
    DEF InstallUnlock, Goto, TypeOK, ThreadsOK, RunningInv
<1>a. /\ Installer(t) /\ Installs(t)
      /\ t = Emulator \/ t \in Slots
  BY DEF InstallersOwnSlots, Installer, Installs
<1>b. slot[t] \in Slots /\ slot[t] # t
  BY <1>a DEF Installer, OneCommandHandler, TableOK, Clients, GuestMade
<1>c. /\ pc'[t] = "installed"
      /\ pc'[slot[t]] = IF pc[slot[t]] = "none" THEN "lock" ELSE pc[slot[t]]
      /\ \A u \in Threads \ {t, slot[t]} : pc'[u] = pc[u]
  BY <1>b
<1>1. InOwnCode'
  BY DEF InOwnCode, EmulatorLabels, PollingLabels, HandlerLabels, Installs
<1>2. MutualExclusion'
  <2>1. signalLock = t
    BY DEF MutualExclusion, InsideLock
  <2>2. \A u \in Threads : pc'[u] \notin InsideLock
    BY <2>1, <1>b, <1>c DEF MutualExclusion, InsideLock
  <2> QED
    BY <2>2 DEF MutualExclusion
<1>3. HeldBack'
  BY DEF HeldBack, lockVars
<1>4. OneCommandHandler'
  BY DEF OneCommandHandler, tableVars, localVars, TableOK, Clients, GuestMade
<1>5. InstallersOwnSlots'
  BY DEF InstallersOwnSlots, Installer, Installs, localVars, tableVars,
         maskVars, TableOK
<1>6. RemoverOwnsSlot'
  BY DEF RemoverOwnsSlot, maskVars, localVars, Forget
<1>7. LaterHasQueue'
  BY DEF LaterHasQueue, localVars
<1>8. AllServed'
  <2> SUFFICES ASSUME NEW k \in Clients PROVE Served(k)'
    BY DEF AllServed
  <2>1. Served(k)
    BY DEF AllServed
  <2>2. Removing(k)' <=> Removing(k)
    BY <1>a, <1>b, <1>c DEF Removing, localVars
  <2>3. signal[k] # -1 /\ ~Removing(k) => signal[k] # slot[t]
    BY <2>1, <1>a DEF Served, Installer
  <2>4. \A u \in Threads : pc[u] # "none" => pc'[u] # "none"
    BY <1>b, <1>c
  <2> QED
    BY <2>1, <2>2, <2>3, <2>4, <1>b DEF Served, TableOK, maskVars
<1> QED
  BY <1>1, <1>2, <1>3, <1>4, <1>5, <1>6, <1>7, <1>8

\* The queue names the slot
LEMMA InstallReturnKeeps ==
  ASSUME TypeOK, RunningInv, NEW t \in Threads, InstallReturn(t)
  PROVE  RunningInv'
<1> USE ThreadFacts, ClientsAssumption
    DEF InstallReturn, Forget, Goto, TypeOK, ThreadsOK, RunningInv
<1>a. /\ Installer(t) /\ Installs(t)
      /\ t = Emulator \/ t \in Slots
  BY DEF InstallersOwnSlots, Installer, Installs
<1>b. client[t] # Command /\ client[t] \in Clients /\ signal[client[t]] = -1
  BY <1>a DEF Installer, Clients, GuestMade
<1>c. \A k \in Clients :
         signal'[k] = IF k = client[t] THEN slot[t] ELSE signal[k]
  BY <1>b DEF TableOK
<1>d. \A u \in Threads \ {t} : /\ pc'[u] = pc[u] /\ client'[u] = client[u]
                                /\ slot'[u] = slot[u]
  OBVIOUS
<1>e. pc'[t] \in {"idle", "run"}
  OBVIOUS
<1>f. UNCHANGED <<live, handlerFunction, handlerArgument, fn>>
  BY DEF maskVars, tableVars
<1>1. InOwnCode'
  BY DEF InOwnCode, EmulatorLabels, PollingLabels, HandlerLabels, Installs
<1>2. MutualExclusion'
  BY DEF MutualExclusion, InsideLock, OutsideLock, lockVars
<1>3. HeldBack'
  BY DEF HeldBack, lockVars
<1>4. OneCommandHandler'
  BY <1>b, <1>c, <1>f DEF OneCommandHandler, Clients
<1>5. InstallersOwnSlots'
  <2> SUFFICES ASSUME NEW u \in Threads PROVE Installer(u)'
    BY DEF InstallersOwnSlots
  <2>1. Installer(u)
    BY DEF InstallersOwnSlots
  <2>2. CASE u = t
    BY <1>e, <2>2 DEF Installer, Installs
  <2>3. CASE u # t
    <3>1. Installs(u) => client[u] \in Clients /\ client[u] # client[t]
      BY <2>3, <1>a, InstallersDiffer
    <3> QED
      BY <2>1, <2>3, <3>1, <1>c, <1>d, <1>e, <1>f DEF Installer, Installs
  <2> QED
    BY <2>2, <2>3
<1>6. RemoverOwnsSlot'
  <2>1. t # Emulator => client[t] \notin Disks
    BY <1>a DEF Installer
  <2>2. pc[Emulator] \in {"remove", "pending", "null", "removed"} =>
            signal'[client[Emulator]] = signal[client[Emulator]]
    BY <2>1, <1>a, <1>c DEF RemoverOwnsSlot, Installs
  <2> QED
    BY <2>2, <1>d, <1>e, <1>f DEF RemoverOwnsSlot
<1>7. LaterHasQueue'
  BY DEF LaterHasQueue, localVars
<1>8. AllServed'
  <2> SUFFICES ASSUME NEW k \in Clients PROVE Served(k)'
    BY DEF AllServed
  <2>1. Served(k)
    BY DEF AllServed
  <2>2. Removing(k)' <=> Removing(k)
    BY <1>a, <1>d, <1>e DEF Removing, Installs
  <2>3. \A u \in Threads : pc[u] # "none" => pc'[u] # "none"
    BY <1>d, <1>e
  <2>4. CASE k = client[t]
    <3>1. /\ slot[t] \in live /\ handlerFunction[slot[t]] = k
          /\ handlerArgument[slot[t]] = k /\ pc[slot[t]] # "none"
      BY <1>a, <2>4 DEF Installer
    <3> QED
      BY <3>1, <2>3, <2>4, <1>c, <1>f DEF Served
  <2>5. CASE k # client[t]
    BY <2>1, <2>2, <2>3, <2>5, <1>c, <1>f DEF Served, TableOK
  <2> QED
    BY <2>4, <2>5
<1> QED
  BY <1>1, <1>2, <1>3, <1>4, <1>5, <1>6, <1>7, <1>8

\* The slot is dead
LEMMA RemoveLockKeeps ==
  ASSUME TypeOK, RunningInv, RemoveLock
  PROVE  RunningInv'
<1> USE ThreadFacts, ClientsAssumption
    DEF RemoveLock, Goto, TypeOK, ThreadsOK, RunningInv
<1>a. /\ client[Emulator] \in Clients
      /\ signal[client[Emulator]] = slot[Emulator]
      /\ handlerFunction[slot[Emulator]] = client[Emulator]
  BY DEF RemoverOwnsSlot, AllServed, Served, Removing, Clients, GuestMade
<1>1. InOwnCode'
  BY DEF InOwnCode, EmulatorLabels, PollingLabels, HandlerLabels, Installs
<1>2. MutualExclusion'
  BY DEF MutualExclusion, InsideLock, OutsideLock, lockVars
<1>3. HeldBack'
  BY DEF HeldBack, lockVars
<1>4. OneCommandHandler'
  BY DEF OneCommandHandler, tableVars, localVars, TableOK, Clients, GuestMade
<1>5. InstallersOwnSlots'
  <2> SUFFICES ASSUME NEW u \in Threads PROVE Installer(u)'
    BY DEF InstallersOwnSlots
  <2>1. Installer(u)
    BY DEF InstallersOwnSlots
  <2>2. Installs(u) /\ pc[u] # "install" => slot[u] # slot[Emulator]
    BY <2>1, <1>a DEF Installer, Installs
  <2> QED
    BY <2>1, <2>2 DEF Installer, Installs, tableVars
<1>6. RemoverOwnsSlot'
  BY DEF RemoverOwnsSlot, maskVars, localVars, Forget
<1>7. LaterHasQueue'
  BY DEF LaterHasQueue, localVars
<1>8. AllServed'
  <2> SUFFICES ASSUME NEW k \in Clients PROVE Served(k)'
    BY DEF AllServed
  <2>1. Served(k)
    BY DEF AllServed
  <2>2. CASE k = client[Emulator]
    BY <2>2 DEF Served, Removing
  <2>3. CASE k # client[Emulator]
    BY <2>1, <2>3, <1>a DEF Served, Removing, TableOK, tableVars
  <2> QED
    BY <2>2, <2>3
<1> QED
  BY <1>1, <1>2, <1>3, <1>4, <1>5, <1>6, <1>7, <1>8

\* The slot is nobody's
LEMMA RemoveFunctionKeeps ==
  ASSUME TypeOK, RunningInv, RemoveFunction
  PROVE  RunningInv'
<1> USE ThreadFacts, ClientsAssumption
    DEF RemoveFunction, Goto, TypeOK, ThreadsOK, RunningInv
<1>a. slot[Emulator] \notin live
  BY DEF RemoverOwnsSlot
<1>1. InOwnCode'
  BY DEF InOwnCode, EmulatorLabels, PollingLabels, HandlerLabels, Installs
<1>2. MutualExclusion'
  BY DEF MutualExclusion, InsideLock, OutsideLock, lockVars
<1>3. HeldBack'
  BY DEF HeldBack, lockVars
<1>4. OneCommandHandler'
  BY DEF OneCommandHandler, tableVars, localVars, TableOK, Clients, GuestMade
<1>5. InstallersOwnSlots'
  <2> SUFFICES ASSUME NEW u \in Threads PROVE Installer(u)'
    BY DEF InstallersOwnSlots
  <2>1. Installer(u)
    BY DEF InstallersOwnSlots
  <2> QED
    BY <2>1, <1>a
    DEF Installer, Installs, TableOK, tableVars, maskVars, localVars
<1>6. RemoverOwnsSlot'
  BY DEF RemoverOwnsSlot, maskVars, localVars, Forget
<1>7. LaterHasQueue'
  BY DEF LaterHasQueue, localVars
<1>8. AllServed'
  <2> SUFFICES ASSUME NEW k \in Clients PROVE Served(k)'
    BY DEF AllServed
  <2>1. Served(k)
    BY DEF AllServed
  <2>2. Removing(k)' <=> Removing(k)
    BY DEF Removing, localVars
  <2> QED
    BY <2>1, <2>2, <1>a DEF Served, TableOK, maskVars, localVars
<1> QED
  BY <1>1, <1>2, <1>3, <1>4, <1>5, <1>6, <1>7, <1>8

\* The slot has no argument
LEMMA RemoveUnlockKeeps ==
  ASSUME TypeOK, RunningInv, RemoveUnlock
  PROVE  RunningInv'
<1> USE ThreadFacts, ClientsAssumption
    DEF RemoveUnlock, Goto, TypeOK, ThreadsOK, RunningInv
<1>a. slot[Emulator] \notin live
  BY DEF RemoverOwnsSlot
<1>1. InOwnCode'
  BY DEF InOwnCode, EmulatorLabels, PollingLabels, HandlerLabels, Installs
<1>2. MutualExclusion'
  BY DEF MutualExclusion, InsideLock, OutsideLock, lockVars
<1>3. HeldBack'
  BY DEF HeldBack, lockVars
<1>4. OneCommandHandler'
  BY DEF OneCommandHandler, tableVars, localVars, TableOK, Clients, GuestMade
<1>5. InstallersOwnSlots'
  <2> SUFFICES ASSUME NEW u \in Threads PROVE Installer(u)'
    BY DEF InstallersOwnSlots
  <2>1. Installer(u)
    BY DEF InstallersOwnSlots
  <2> QED
    BY <2>1, <1>a
    DEF Installer, Installs, TableOK, tableVars, maskVars, localVars
<1>6. RemoverOwnsSlot'
  BY DEF RemoverOwnsSlot, maskVars, localVars, Forget
<1>7. LaterHasQueue'
  BY DEF LaterHasQueue, localVars
<1>8. AllServed'
  <2> SUFFICES ASSUME NEW k \in Clients PROVE Served(k)'
    BY DEF AllServed
  <2>1. Served(k)
    BY DEF AllServed
  <2>2. Removing(k)' <=> Removing(k)
    BY DEF Removing, localVars
  <2> QED
    BY <2>1, <2>2, <1>a DEF Served, TableOK, maskVars, localVars
<1> QED
  BY <1>1, <1>2, <1>3, <1>4, <1>5, <1>6, <1>7, <1>8

\* The queue names no slot
LEMMA DetachReturnKeeps ==
  ASSUME TypeOK, RunningInv, DetachReturn
  PROVE  RunningInv'
<1> USE ThreadFacts, ClientsAssumption
    DEF DetachReturn, Forget, Goto, TypeOK, ThreadsOK, RunningInv
<1>a. client[Emulator] \in Disks
  BY DEF RemoverOwnsSlot
<1>1. InOwnCode'
  BY DEF InOwnCode, EmulatorLabels, PollingLabels, HandlerLabels, Installs
<1>2. MutualExclusion'
  BY DEF MutualExclusion, InsideLock, OutsideLock, lockVars
<1>3. HeldBack'
  BY DEF HeldBack, lockVars
<1>4. OneCommandHandler'
  BY <1>a DEF OneCommandHandler, TableOK, Clients, GuestMade, tableVars
<1>5. InstallersOwnSlots'
  BY DEF InstallersOwnSlots, Installer, Installs, localVars, tableVars,
         maskVars, TableOK
<1>6. RemoverOwnsSlot'
  BY DEF RemoverOwnsSlot, maskVars, localVars, Forget
<1>7. LaterHasQueue'
  BY DEF LaterHasQueue, localVars
<1>8. AllServed'
  BY DEF AllServed, Served, Removing, localVars, TableOK, tableVars, maskVars
<1> QED
  BY <1>1, <1>2, <1>3, <1>4, <1>5, <1>6, <1>7, <1>8

-----------------------------------------------------------------------------
(* Type correctness *)

\* The numbers of the threads and the slots that the actions mention
LEMMA NumberFacts ==
  /\ Slots \subseteq Threads /\ Emulator \in Threads /\ Polling \in Threads
  /\ 0 \in Slots
BY SlotsAssumption DEF Slots, Threads, Emulator, Polling

\* The shift of SignalLater names a slot whatever it is given
LEMMA ShiftFacts == \A x \in Slots \cup {-1} : x % NSignals \in Slots
BY SlotsAssumption DEF Slots

\* The counters stay within their bounds
LEMMA CountFacts ==
  /\ ops \in 0 .. MaxOps /\ ops < MaxOps => ops + 1 \in 0 .. MaxOps
  /\ laters \in 0 .. MaxLaters /\ laters < MaxLaters
        => laters + 1 \in 0 .. MaxLaters
BY BoundsAssumption

\* The guest's steps keep the types
LEMMA GuestTypes ==
  ASSUME TypeOK, RunningInv, GuestStep
  PROVE  TypeOK'
<1> USE ThreadFacts, NumberFacts DEF TypeOK
<1>1. CASE \E c \in Clients : GuestPut(c)
  <2>0. PICK c \in Clients : GuestPut(c)
    BY <1>1
  <2>1. ThreadsOK'
    BY <2>0
    DEF GuestPut, Begin, Goto, ThreadsOK, TableOK, InsideLock, OutsideLock,
        localVars
  <2>2. TableOK'
    BY <2>0 DEF GuestPut, Begin, Goto, ThreadsOK, TableOK, maskVars, tableVars
  <2>3. QED
    BY <2>0, <2>1, <2>2, CountFacts
    DEF GuestPut, Begin, Goto, TypeOK, lockVars, guestVars, localVars
<1>2. CASE \E m \in Mbins : GuestImpulse(m)
  <2>0. PICK m \in Mbins : GuestImpulse(m)
    BY <1>2
  <2>1. ThreadsOK'
    BY <2>0
    DEF GuestImpulse, Begin, Clients, GuestMade, ThreadsOK, TableOK,
        InsideLock, OutsideLock, localVars
  <2>2. TableOK'
    BY <2>0
    DEF GuestImpulse, Begin, Clients, GuestMade, ThreadsOK, TableOK, maskVars,
        tableVars
  <2>3. QED
    BY <2>0, <2>1, <2>2, CountFacts
    DEF GuestImpulse, Begin, Clients, GuestMade, TypeOK, lockVars, guestVars,
        localVars
<1>3. CASE \E request \in {"fep", "lisp"} : GuestReset(request)
  <2>0. PICK request \in {"fep", "lisp"} : GuestReset(request)
    BY <1>3
  <2>1. ThreadsOK'
    BY <2>0
    DEF GuestReset, Begin, Goto, ThreadsOK, TableOK, InsideLock, OutsideLock,
        localVars
  <2>2. TableOK'
    BY <2>0
    DEF GuestReset, Begin, Goto, ThreadsOK, TableOK, maskVars, tableVars
  <2>3. QED
    BY <2>0, <2>1, <2>2, CountFacts
    DEF GuestReset, Begin, Goto, TypeOK, lockVars, guestVars, localVars
<1>4. CASE GuestResetDone
  <2>1. ThreadsOK'
    BY <1>4
    DEF GuestResetDone, Goto, ThreadsOK, TableOK, InsideLock, OutsideLock,
        localVars
  <2>2. TableOK'
    BY <1>4 DEF GuestResetDone, Goto, ThreadsOK, TableOK, maskVars, tableVars
  <2>3. QED
    BY <1>4, <2>1, <2>2
    DEF GuestResetDone, Goto, TypeOK, lockVars, guestVars, localVars
<1>5. CASE GuestLoad
  <2>1. ThreadsOK'
    BY <1>5
    DEF GuestLoad, Goto, ThreadsOK, TableOK, InsideLock, OutsideLock, localVars
  <2>2. TableOK'
    BY <1>5 DEF GuestLoad, Goto, ThreadsOK, TableOK, maskVars, tableVars
  <2>3. QED
    BY <1>5, <2>1, <2>2
    DEF GuestLoad, Goto, TypeOK, lockVars, guestVars, localVars
<1>6. CASE GuestStore
  <2>1. ThreadsOK'
    BY <1>6
    DEF GuestStore, Goto, Forget, Clients, ThreadsOK, TableOK, InsideLock,
        OutsideLock, localVars
  <2>2. TableOK'
    BY <1>6
    DEF GuestStore, Goto, Forget, Clients, ThreadsOK, TableOK, maskVars,
        tableVars
  <2>3. QED
    BY <1>6, <2>1, <2>2
    DEF GuestStore, Goto, Forget, Clients, TypeOK, lockVars, guestVars,
        localVars
<1>7. CASE SendInterruptToLifeSupport
  <2>1. ThreadsOK'
    BY <1>7
    DEF SendInterruptToLifeSupport, WakeHandlers, ThreadsOK, TableOK,
        InsideLock, OutsideLock, localVars
  <2>2. TableOK'
    BY <1>7
    DEF SendInterruptToLifeSupport, WakeHandlers, ThreadsOK, TableOK, maskVars,
        tableVars
  <2>3. QED
    BY <1>7, <2>1, <2>2
    DEF SendInterruptToLifeSupport, WakeHandlers, TypeOK, lockVars, guestVars,
        localVars
<1>8. CASE \E d \in Disks : AttachDiskChannel(d)
  <2>0. PICK d \in Disks : AttachDiskChannel(d)
    BY <1>8
  <2>1. ThreadsOK'
    BY <2>0
    DEF AttachDiskChannel, Begin, Goto, Clients, GuestMade, ThreadsOK, TableOK,
        InsideLock, OutsideLock, localVars
  <2>2. TableOK'
    BY <2>0
    DEF AttachDiskChannel, Begin, Goto, Clients, GuestMade, ThreadsOK, TableOK,
        maskVars, tableVars
  <2>3. QED
    BY <2>0, <2>1, <2>2, CountFacts
    DEF AttachDiskChannel, Begin, Goto, Clients, GuestMade, TypeOK, lockVars,
        guestVars, localVars
<1>9. CASE \E d \in Disks : DetachDiskChannel(d)
  <2>0. PICK d \in Disks : DetachDiskChannel(d)
    BY <1>9
  <2>1. ThreadsOK'
    BY <2>0
    DEF DetachDiskChannel, Begin, Goto, Clients, GuestMade, ThreadsOK, TableOK,
        InsideLock, OutsideLock, localVars
  <2>2. TableOK'
    BY <2>0
    DEF DetachDiskChannel, Begin, Goto, Clients, GuestMade, ThreadsOK, TableOK,
        maskVars, tableVars
  <2>3. QED
    BY <2>0, <2>1, <2>2, CountFacts
    DEF DetachDiskChannel, Begin, Goto, Clients, GuestMade, TypeOK, lockVars,
        guestVars, localVars
<1> QED
  BY <1>1, <1>2, <1>3, <1>4, <1>5, <1>6, <1>7, <1>8, <1>9 DEF GuestStep

\* So do a handler thread's ...
LEMMA ServiceTypes ==
  ASSUME TypeOK, RunningInv, NEW i \in Slots, ServiceStep(i)
  PROVE  TypeOK'
<1> USE ThreadFacts, NumberFacts DEF TypeOK
<1>1. CASE HandlerTest(i)
  <2>0. reg' \in [Threads -> SUBSET Slots]
    <3>1. guest_to_host_signals \in SUBSET Slots
      BY DEF TableOK
    <3> QED
      BY <1>1, <3>1 DEF HandlerTest, ThreadsOK
  <2>1. ThreadsOK'
    BY <1>1, <2>0
    DEF HandlerTest, Goto, ThreadsOK, InsideLock, OutsideLock
  <2>2. TableOK'
    BY <1>1 DEF HandlerTest, Goto, ThreadsOK, TableOK, maskVars, tableVars
  <2>3. QED
    BY <1>1, <2>1, <2>2
    DEF HandlerTest, Goto, TypeOK, lockVars, guestVars, localVars
<1>2. CASE HandlerWait(i)
  <2>1. ThreadsOK'
    BY <1>2
    DEF HandlerWait, Goto, ThreadsOK, TableOK, InsideLock, OutsideLock,
        localVars
  <2>2. TableOK'
    BY <1>2 DEF HandlerWait, Goto, ThreadsOK, TableOK, maskVars, tableVars
  <2>3. QED
    BY <1>2, <2>1, <2>2
    DEF HandlerWait, Goto, TypeOK, lockVars, guestVars, localVars
<1>3. CASE HandlerClear(i)
  <2>1. ThreadsOK'
    BY <1>3
    DEF HandlerClear, Goto, Forget, Clients, ThreadsOK, TableOK, InsideLock,
        OutsideLock, localVars
  <2>2. TableOK'
    BY <1>3
    DEF HandlerClear, Goto, Forget, Clients, ThreadsOK, TableOK, maskVars,
        tableVars
  <2>3. QED
    BY <1>3, <2>1, <2>2
    DEF HandlerClear, Goto, Forget, Clients, TypeOK, lockVars, guestVars,
        localVars
<1>4. CASE LoadFunction(i)
  <2>1. ThreadsOK'
    BY <1>4
    DEF LoadFunction, Goto, ThreadsOK, TableOK, InsideLock, OutsideLock,
        localVars
  <2>2. TableOK'
    BY <1>4 DEF LoadFunction, Goto, ThreadsOK, TableOK, maskVars, tableVars
  <2>3. QED
    BY <1>4, <2>1, <2>2
    DEF LoadFunction, Goto, TypeOK, lockVars, guestVars, localVars
<1>5. CASE LoadArgument(i)
  <2>1. ThreadsOK'
    BY <1>5
    DEF LoadArgument, Goto, ThreadsOK, TableOK, InsideLock, OutsideLock,
        localVars
  <2>2. TableOK'
    BY <1>5 DEF LoadArgument, Goto, ThreadsOK, TableOK, maskVars, tableVars
  <2>3. QED
    BY <1>5, <2>1, <2>2
    DEF LoadArgument, Goto, TypeOK, lockVars, guestVars, localVars
<1>6. CASE HandlerReturn(i)
  <2>1. ThreadsOK'
    BY <1>6
    DEF HandlerReturn, Goto, CallDone, ThreadsOK, TableOK, InsideLock,
        OutsideLock, localVars
  <2>2. TableOK'
    BY <1>6
    DEF HandlerReturn, Goto, CallDone, ThreadsOK, TableOK, maskVars, tableVars
  <2>3. QED
    BY <1>6, <2>1, <2>2
    DEF HandlerReturn, Goto, CallDone, TypeOK, lockVars, guestVars, localVars
<1>7. CASE HandlerCannotGoOn(i)
  <2>1. ThreadsOK'
    BY <1>7
    DEF HandlerCannotGoOn, Goto, ThreadsOK, TableOK, InsideLock, OutsideLock,
        localVars
  <2>2. TableOK'
    BY <1>7
    DEF HandlerCannotGoOn, Goto, ThreadsOK, TableOK, maskVars, tableVars
  <2>3. QED
    BY <1>7, <2>1, <2>2, CountFacts
    DEF HandlerCannotGoOn, Goto, TypeOK, lockVars, guestVars, localVars
<1>8. CASE SignalLater(i)
  <2>1. ThreadsOK'
    BY <1>8
    DEF SignalLater, Goto, CallDone, RunningInv, LaterHasQueue, ThreadsOK,
        TableOK, InsideLock, OutsideLock, localVars
  <2>2. TableOK'
    BY <1>8, ShiftFacts
    DEF SignalLater, Goto, CallDone, RunningInv, LaterHasQueue, ThreadsOK,
        TableOK, maskVars, tableVars, RunningInv, LaterHasQueue
  <2>3. QED
    BY <1>8, <2>1, <2>2
    DEF SignalLater, Goto, CallDone, RunningInv, LaterHasQueue, TypeOK,
        lockVars, guestVars, localVars
<1>9. CASE \E m \in Mbins : StartMBIN(i, m)
  <2>0. PICK m \in Mbins : StartMBIN(i, m)
    BY <1>9
  <2>1. ThreadsOK'
    BY <2>0
    DEF StartMBIN, Goto, Clients, GuestMade, ThreadsOK, TableOK, InsideLock,
        OutsideLock, localVars
  <2>2. TableOK'
    BY <2>0
    DEF StartMBIN, Goto, Clients, GuestMade, ThreadsOK, TableOK, maskVars,
        tableVars
  <2>3. QED
    BY <2>0, <2>1, <2>2
    DEF StartMBIN, Goto, Clients, GuestMade, TypeOK, lockVars, guestVars,
        localVars
<1> QED
  BY <1>1, <1>2, <1>3, <1>4, <1>5, <1>6, <1>7, <1>8, <1>9 DEF ServiceStep

\* ... the polling thread's ...
LEMMA PollingTypes ==
  ASSUME TypeOK, RunningInv, PollingStep
  PROVE  TypeOK'
<1> USE ThreadFacts, NumberFacts DEF TypeOK
<1>1. CASE PollLock
  <2>1. ThreadsOK'
    BY <1>1
    DEF PollLock, Goto, ThreadsOK, TableOK, InsideLock, OutsideLock, localVars
  <2>2. TableOK'
    BY <1>1 DEF PollLock, Goto, ThreadsOK, TableOK, maskVars, tableVars
  <2>3. QED
    BY <1>1, <2>1, <2>2
    DEF PollLock, Goto, TypeOK, lockVars, guestVars, localVars
<1>2. CASE PollMessageChannels
  <2>1. ThreadsOK'
    BY <1>2
    DEF PollMessageChannels, Goto, Forget, Clients, ThreadsOK, TableOK,
        InsideLock, OutsideLock, localVars
  <2>2. TableOK'
    <3>1. {signal[m] : m \in {c \in impulse : signal[c] # -1}} \subseteq Slots
      BY DEF TableOK
    <3> QED
      BY <1>2, <3>1 DEF PollMessageChannels, ThreadsOK, TableOK, tableVars
  <2>3. QED
    BY <1>2, <2>1, <2>2
    DEF PollMessageChannels, Goto, Forget, Clients, TypeOK, lockVars,
        guestVars, localVars
<1>3. CASE ProcessResetRequest
  <2>1. ThreadsOK'
    BY <1>3
    DEF ProcessResetRequest, Goto, ThreadsOK, TableOK, InsideLock, OutsideLock,
        localVars
  <2>2. TableOK'
    BY <1>3
    DEF ProcessResetRequest, Goto, ThreadsOK, TableOK, maskVars, tableVars
  <2>3. QED
    BY <1>3, <2>1, <2>2
    DEF ProcessResetRequest, Goto, TypeOK, lockVars, guestVars, localVars
<1>4. CASE PollLoad
  <2>1. ThreadsOK'
    BY <1>4
    DEF PollLoad, Goto, ThreadsOK, TableOK, InsideLock, OutsideLock, localVars
  <2>2. TableOK'
    BY <1>4 DEF PollLoad, Goto, ThreadsOK, TableOK, maskVars, tableVars
  <2>3. QED
    BY <1>4, <2>1, <2>2
    DEF PollLoad, Goto, TypeOK, lockVars, guestVars, localVars
<1>5. CASE PollStore
  <2>1. ThreadsOK'
    BY <1>5
    DEF PollStore, PollBits, WakeHandlers, Forget, Clients, ThreadsOK, TableOK,
        InsideLock, OutsideLock, localVars
  <2>2. TableOK'
    BY <1>5
    DEF PollStore, PollBits, WakeHandlers, Forget, Clients, ThreadsOK, TableOK,
        maskVars, tableVars, PollBits
  <2>3. QED
    BY <1>5, <2>1, <2>2
    DEF PollStore, PollBits, WakeHandlers, Forget, Clients, TypeOK, lockVars,
        guestVars, localVars
<1> QED
  BY <1>1, <1>2, <1>3, <1>4, <1>5 DEF PollingStep, PollStep

\* ... and those that change the handler table
LEMMA TableTypes ==
  ASSUME TypeOK, RunningInv, TableStep
  PROVE  TypeOK'
<1> USE ThreadFacts, NumberFacts DEF TypeOK
<1>1. CASE \E i \in Slots : InitializeMessageChannels(i)
  <2>0. PICK i \in Slots : InitializeMessageChannels(i)
    BY <1>1
  <2>1. ThreadsOK'
    BY <2>0
    DEF InitializeMessageChannels, Goto, Clients, ThreadsOK, TableOK,
        InsideLock, OutsideLock, localVars
  <2>2. TableOK'
    BY <2>0
    DEF InitializeMessageChannels, Goto, Clients, ThreadsOK, TableOK, maskVars,
        tableVars
  <2>3. QED
    BY <2>0, <2>1, <2>2
    DEF InitializeMessageChannels, Goto, Clients, TypeOK, lockVars, guestVars,
        localVars
<1>2. CASE InitializationComplete
  <2>1. ThreadsOK'
    BY <1>2
    DEF InitializationComplete, Goto, ThreadsOK, TableOK, InsideLock,
        OutsideLock, localVars
  <2>2. TableOK'
    BY <1>2
    DEF InitializationComplete, Goto, ThreadsOK, TableOK, maskVars, tableVars
  <2>3. QED
    BY <1>2, <2>1, <2>2
    DEF InitializationComplete, Goto, TypeOK, lockVars, guestVars, localVars
<1>3. CASE \E t \in Threads, i \in Slots : InstallLock(t, i)
  <2>0. PICK t \in Threads, i \in Slots : InstallLock(t, i)
    BY <1>3
  <2>1. ThreadsOK'
    BY <2>0
    DEF InstallLock, Goto, ThreadsOK, TableOK, InsideLock, OutsideLock,
        localVars
  <2>2. TableOK'
    BY <2>0 DEF InstallLock, Goto, ThreadsOK, TableOK, maskVars, tableVars
  <2>3. QED
    BY <2>0, <2>1, <2>2
    DEF InstallLock, Goto, TypeOK, lockVars, guestVars, localVars
<1>4. CASE \E t \in Threads : InstallUnlock(t)
  <2>0. PICK t \in Threads : InstallUnlock(t)
    BY <1>4
  <2>1. ThreadsOK'
    BY <2>0
    DEF InstallUnlock, ThreadsOK, TableOK, InsideLock, OutsideLock, localVars
  <2>2. TableOK'
    BY <2>0 DEF InstallUnlock, ThreadsOK, TableOK, maskVars, tableVars
  <2>3. QED
    BY <2>0, <2>1, <2>2
    DEF InstallUnlock, TypeOK, lockVars, guestVars, localVars
<1>5. CASE \E t \in Threads : InstallReturn(t)
  <2>0. PICK t \in Threads : InstallReturn(t)
    BY <1>5
  <2>1. ThreadsOK'
    BY <2>0
    DEF InstallReturn, Goto, Forget, Clients, ThreadsOK, TableOK, InsideLock,
        OutsideLock, localVars
  <2>2. TableOK'
    BY <2>0
    DEF InstallReturn, Goto, Forget, Clients, ThreadsOK, TableOK, maskVars,
        tableVars
  <2>3. QED
    BY <2>0, <2>1, <2>2
    DEF InstallReturn, Goto, Forget, Clients, TypeOK, lockVars, guestVars,
        localVars
<1>6. CASE RemoveLock
  <2>1. ThreadsOK'
    BY <1>6
    DEF RemoveLock, Goto, ThreadsOK, TableOK, InsideLock, OutsideLock,
        localVars
  <2>2. TableOK'
    BY <1>6 DEF RemoveLock, Goto, ThreadsOK, TableOK, maskVars, tableVars
  <2>3. QED
    BY <1>6, <2>1, <2>2
    DEF RemoveLock, Goto, TypeOK, lockVars, guestVars, localVars
<1>7. CASE RemoveFunction
  <2>1. ThreadsOK'
    BY <1>7
    DEF RemoveFunction, Goto, ThreadsOK, TableOK, InsideLock, OutsideLock,
        localVars
  <2>2. TableOK'
    BY <1>7 DEF RemoveFunction, Goto, ThreadsOK, TableOK, maskVars, tableVars
  <2>3. QED
    BY <1>7, <2>1, <2>2
    DEF RemoveFunction, Goto, TypeOK, lockVars, guestVars, localVars
<1>8. CASE RemoveUnlock
  <2>1. ThreadsOK'
    BY <1>8
    DEF RemoveUnlock, Goto, ThreadsOK, TableOK, InsideLock, OutsideLock,
        localVars
  <2>2. TableOK'
    BY <1>8 DEF RemoveUnlock, Goto, ThreadsOK, TableOK, maskVars, tableVars
  <2>3. QED
    BY <1>8, <2>1, <2>2
    DEF RemoveUnlock, Goto, TypeOK, lockVars, guestVars, localVars
<1>9. CASE DetachReturn
  <2>1. ThreadsOK'
    BY <1>9
    DEF DetachReturn, Goto, Forget, Clients, ThreadsOK, TableOK, InsideLock,
        OutsideLock, localVars
  <2>2. TableOK'
    BY <1>9
    DEF DetachReturn, Goto, Forget, Clients, ThreadsOK, TableOK, maskVars,
        tableVars
  <2>3. QED
    BY <1>9, <2>1, <2>2
    DEF DetachReturn, Goto, Forget, Clients, TypeOK, lockVars, guestVars,
        localVars
<1> QED
  BY <1>1, <1>2, <1>3, <1>4, <1>5, <1>6, <1>7, <1>8, <1>9 DEF TableStep

-----------------------------------------------------------------------------
(* The invariant *)

\* A step that changes the handler table keeps the invariant
LEMMA TableKeeps ==
  ASSUME TypeOK, RunningInv, TableStep
  PROVE  RunningInv'
BY MessageChannelsKeep, CompletionKeeps, InstallLockKeeps, InstallUnlockKeeps,
   InstallReturnKeeps, RemoveLockKeeps, RemoveFunctionKeeps, RemoveUnlockKeeps,
   DetachReturnKeeps DEF TableStep

\* Whoever makes the process exit has been let run
LEMMA CrashExits ==
  ASSUME TypeOK, RunningInv, CrashStep
  PROVE  TypeOK' /\ Exited'
<1> USE ThreadFacts
<1>1. TypeOK'
  BY DEF CrashStep, InstallOverflow, HandlerCrash, TypeOK, ThreadsOK, TableOK,
         OutsideLock, lockVars, maskVars, tableVars, guestVars, localVars
<1>2. useSignalLocks
  BY DEF CrashStep, InstallOverflow, HandlerCrash, TypeOK, RunningInv,
         HeldBack,
         InstallersOwnSlots, Installer, Installs
<1> QED
  BY <1>1, <1>2 DEF CrashStep, InstallOverflow, HandlerCrash, Exited, lockVars

\* After the exit there is nothing that could run
LEMMA ExitedStays ==
  ASSUME TypeOK, Exited, [Next]_vars
  PROVE  TypeOK' /\ Exited'
<1>1. UNCHANGED vars
  <2> USE ThreadFacts DEF Exited, Goto
  <2>1. ~TableStep
    BY DEF TableStep, InitializeMessageChannels, InitializationComplete,
           InstallLock, InstallUnlock, InstallReturn, RemoveLock,
           RemoveFunction, RemoveUnlock, DetachReturn
  <2>2. ~GuestStep
    BY DEF GuestStep, GuestPut, GuestImpulse, GuestReset, GuestResetDone,
           GuestLoad, GuestStore, SendInterruptToLifeSupport,
           AttachDiskChannel, DetachDiskChannel, Begin
  <2>3. \A i \in Slots : ~ServiceStep(i)
    BY DEF ServiceStep, HandlerTest, HandlerWait, HandlerClear, LoadFunction,
           LoadArgument, HandlerReturn, HandlerCannotGoOn, SignalLater,
           StartMBIN
  <2>4. ~PollingStep
    BY DEF PollingStep, PollStep, PollLock, PollMessageChannels,
           ProcessResetRequest, PollLoad, PollStore
  <2>5. ~CrashStep
    BY DEF CrashStep, InstallOverflow, HandlerCrash
  <2> QED
    BY <2>1, <2>2, <2>3, <2>4, <2>5, NextParts DEF Dead
<1> QED
  BY <1>1 DEF Exited, TypeOK, ThreadsOK, TableOK, vars, lockVars, maskVars,
              tableVars, guestVars, localVars

\* A stuttering step changes nothing that the invariant mentions
LEMMA StutterKeeps ==
  ASSUME SignalsInv, UNCHANGED vars
  PROVE  SignalsInv'
BY DEF SignalsInv, Exited, RunningInv, InOwnCode, MutualExclusion, HeldBack,
       OneCommandHandler, InstallersOwnSlots, Installer, Installs,
       RemoverOwnsSlot, LaterHasQueue, AllServed, Served, Removing,
       TypeOK, ThreadsOK, TableOK, vars, lockVars, maskVars, tableVars,
       guestVars, localVars

\* The invariant holds when the main thread starts the others ...
LEMMA InitInvariant == Init => SignalsInv
<1> SUFFICES ASSUME Init PROVE TypeOK /\ RunningInv
  BY DEF SignalsInv
<1> USE ThreadFacts, NumberFacts, BoundsAssumption, ClientsAssumption
    DEF Init, InitializeSignalHandlers
<1>1. TypeOK
  <2>1. ThreadsOK
    BY DEF ThreadsOK, InsideLock, OutsideLock, Clients
  <2>2. TableOK
    BY DEF TableOK
  <2>3. useSignalLocks \in BOOLEAN
    OBVIOUS
  <2>4. ops \in 0 .. MaxOps /\ laters \in 0 .. MaxLaters /\ pollTime \in Nat
    OBVIOUS
  <2> QED
    BY <2>1, <2>2, <2>3, <2>4 DEF TypeOK
<1>2. InOwnCode /\ HeldBack /\ LaterHasQueue
  BY DEF InOwnCode, EmulatorLabels, PollingLabels, HandlerLabels, HeldBack,
         LaterHasQueue
<1>3. MutualExclusion
  BY DEF MutualExclusion, InsideLock
<1>4. OneCommandHandler /\ InstallersOwnSlots /\ RemoverOwnsSlot
  BY DEF OneCommandHandler, InstallersOwnSlots, Installer, Installs,
         RemoverOwnsSlot, Clients
<1>5. AllServed
  BY DEF AllServed, Served
<1> QED
  BY <1>1, <1>2, <1>3, <1>4, <1>5 DEF RunningInv

\* ... and every step keeps it
LEMMA NextInvariant ==
  ASSUME SignalsInv, [Next]_vars
  PROVE  SignalsInv'
<1>1. CASE Exited
  BY <1>1, ExitedStays DEF SignalsInv
<1>2. CASE UNCHANGED vars
  BY <1>2, StutterKeeps
<1>3. CASE ~Exited /\ Next
  <2>1. TypeOK /\ RunningInv
    BY <1>3 DEF SignalsInv
  <2>2. CASE TableStep
    BY <2>1, <2>2, TableTypes, TableKeeps DEF SignalsInv
  <2>3. CASE GuestStep
    BY <2>1, <2>3, GuestTypes, GuestKeeps DEF SignalsInv
  <2>4. CASE \E i \in Slots : ServiceStep(i)
    BY <2>1, <2>4, ServiceTypes, ServiceKeeps DEF SignalsInv
  <2>5. CASE PollingStep
    BY <2>1, <2>5, PollingTypes, PollingKeeps DEF SignalsInv
  <2>6. CASE CrashStep
    BY <2>1, <2>6, CrashExits DEF SignalsInv
  <2>7. CASE Dead
    BY <2>7, StutterKeeps DEF Dead
  <2> QED
    BY <1>3, <2>2, <2>3, <2>4, <2>5, <2>6, <2>7, NextParts
<1> QED
  BY <1>1, <1>2, <1>3

\* The invariant holds from InitializeSignalHandlers on, for any number of slots
\* and any channels
THEOREM SignalsInvariant == Spec => []SignalsInv
BY InitInvariant, NextInvariant, PTL DEF Spec

\* Type correctness: InstallSignalHandler's search never takes an index beyond
\* the handler table, and the words of signals hold bits of the table only
THEOREM SignalsTypeCorrect == Spec => []TypeOK
<1>1. SignalsInv => TypeOK
  BY DEF SignalsInv
<1> QED
  BY <1>1, SignalsInvariant, PTL

\* The signal of a queue is live, and its slot has that channel's function and
\* argument and a thread, however calls of InstallSignalHandler and
\* RemoveSignalHandler interleave with the handlers and the polling thread
THEOREM EverySignalServed == Spec => []SignalsAreServed
<1>1. SignalsInv => SignalsAreServed
  BY ThreadFacts DEF SignalsInv, SignalsAreServed, Crashed, Exited, RunningInv,
                     AllServed, Served
<1> QED
  BY <1>1, SignalsInvariant, PTL

\* Neither the polling thread nor a handler thread gets past its first lock
\* before InitializeLifeSupport releases it
THEOREM NothingRunsEarly == Spec => []NoPrematureRun
<1>1. SignalsInv => NoPrematureRun
  BY DEF SignalsInv, NoPrematureRun, Exited, RunningInv, HeldBack
<1> QED
  BY <1>1, SignalsInvariant, PTL

\* A thread exists only for a slot that has had a function, and keeps the one it
\* loaded for the duration of its call
HasFunction ==
    \A i \in Slots : /\ pc[i] \notin {"none", "crashed"}
                          => handlerFunction[i] # NULL
                     /\ pc[i] \in {"called fn", "run"} => fn[i] # NULL

\* HasFunction is inductive, given the invariant
LEMMA HasFunctionStep ==
  ASSUME SignalsInv, HasFunction, [Next]_vars
  PROVE  HasFunction'
<1> USE ThreadFacts, ClientsAssumption DEF HasFunction, Goto
<1>1. CASE Exited
  BY <1>1, ExitedStays DEF SignalsInv, Exited
<1>2. CASE UNCHANGED vars
  BY <1>2 DEF vars, tableVars, localVars
<1>3. CASE ~Exited /\ Next
  <2> USE DEF TypeOK, ThreadsOK, TableOK
  <2>1. TypeOK /\ RunningInv
    BY <1>3 DEF SignalsInv
  <2>2. CASE TableStep
    <3>0. NULL \notin Clients /\ Command \in Clients
      BY DEF Clients
    <3>1. ASSUME NEW j \in Slots, InitializeMessageChannels(j)
          PROVE  HasFunction'
      BY <2>1, <3>0, <3>1 DEF InitializeMessageChannels, localVars
    <3>2. CASE InitializationComplete
      BY <2>1, <3>2 DEF InitializationComplete, tableVars, localVars
    <3>3. ASSUME NEW t \in Threads, NEW j \in Slots, InstallLock(t, j)
          PROVE  HasFunction'
      BY <2>1, <3>0, <3>3 DEF InstallLock
    <3>4. ASSUME NEW t \in Threads, InstallUnlock(t) PROVE HasFunction'
      <4>0. Installer(t) /\ pc[t] = "argument" /\ client[t] \in Clients
        BY <2>1, <3>4 DEF InstallUnlock, RunningInv, InstallersOwnSlots
      <4>1. handlerFunction[slot[t]] # NULL
        BY <3>0, <4>0, Zenon DEF Installer
      <4> QED
        BY <2>1, <3>4, <4>1 DEF InstallUnlock, localVars
    <3>5. ASSUME NEW t \in Threads, InstallReturn(t) PROVE HasFunction'
      <4>1. t # Emulator => fn[t] # NULL
        BY <2>1, <3>5 DEF InstallReturn, RunningInv, InstallersOwnSlots,
                          Installer, Installs, Clients
      <4> QED
        BY <2>1, <3>5, <4>1 DEF InstallReturn, tableVars
    <3>6. CASE RemoveLock \/ RemoveUnlock \/ DetachReturn
      BY <2>1, <3>6 DEF RemoveLock, RemoveUnlock, DetachReturn, tableVars,
                        localVars
    <3>7. CASE RemoveFunction
      BY <2>1, <3>7 DEF RemoveFunction, localVars
    <3> QED
      BY <2>2, <3>1, <3>2, <3>3, <3>4, <3>5, <3>6, <3>7 DEF TableStep
  <2>3. CASE GuestStep
    BY <2>1, <2>3
    DEF GuestStep, GuestPut, GuestImpulse, GuestReset, GuestResetDone,
        GuestLoad, GuestStore, SendInterruptToLifeSupport, WakeHandlers,
        AttachDiskChannel, DetachDiskChannel, Begin, tableVars, localVars
  <2>4. ASSUME NEW i \in Slots, ServiceStep(i) PROVE HasFunction'
    <3>1. CASE HandlerTest(i) \/ HandlerWait(i) \/ HandlerClear(i)
      BY <2>1, <3>1 DEF HandlerTest, HandlerWait, HandlerClear, tableVars,
                        localVars
    <3>2. CASE LoadFunction(i)
      BY <2>1, <3>2 DEF LoadFunction, tableVars
    <3>3. CASE LoadArgument(i)
      BY <2>1, <3>3 DEF LoadArgument, tableVars
    <3>4. CASE HandlerReturn(i) \/ SignalLater(i)
      BY <2>1, <3>4 DEF HandlerReturn, SignalLater, CallDone, tableVars
    <3>5. CASE HandlerCannotGoOn(i) \/ \E m \in Mbins : StartMBIN(i, m)
      BY <2>1, <3>5 DEF HandlerCannotGoOn, StartMBIN, tableVars
    <3> QED
      BY <2>4, <3>1, <3>2, <3>3, <3>4, <3>5 DEF ServiceStep
  <2>5. CASE PollingStep
    BY <2>1, <2>5
    DEF PollingStep, PollStep, PollLock, PollMessageChannels,
        ProcessResetRequest, PollLoad, PollStore, WakeHandlers, tableVars,
        localVars
  <2>6. CASE CrashStep
    BY <2>1, <2>6, CrashExits DEF Exited
  <2>7. CASE Dead
    BY <2>7 DEF Dead, vars, tableVars, localVars
  <2> QED
    BY <1>3, <2>2, <2>3, <2>4, <2>5, <2>6, <2>7, NextParts
<1> QED
  BY <1>1, <1>2, <1>3

\* However its bit came to be set, a handler thread never calls a null pointer:
\* a stray bit of SignalLater's, or one left over from a slot's former channel,
\* leads to a call of the slot's present function or of NullSignalHandler
THEOREM HandlersCallFunctions == Spec => []CallsAFunction
<1>1. Init => HasFunction
  BY ThreadFacts DEF Init, InitializeSignalHandlers, HasFunction
<1>2. SignalsInv /\ HasFunction /\ [Next]_vars => HasFunction'
  BY HasFunctionStep
<1>3. HasFunction => CallsAFunction
  BY DEF HasFunction, CallsAFunction
<1> QED
  BY <1>1, <1>2, <1>3, SignalsInvariant, PTL DEF Spec

\* A thread is between pthread_mutex_lock and pthread_mutex_unlock in signals.c
\* and polling.c exactly when it holds the mutex, so two threads never are: each
\* path through the two files, pthread_cond_wait and the reset included, locks
\* before it enters and unlocks as it leaves
THEOREM LockIsExclusive == Spec => [](~Crashed => MutualExclusion)
<1>1. SignalsInv => (~Crashed => MutualExclusion)
  BY ThreadFacts DEF SignalsInv, Crashed, Exited, RunningInv
<1> QED
  BY <1>1, SignalsInvariant, PTL
=============================================================================
