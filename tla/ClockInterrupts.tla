--------------------------- MODULE ClockInterrupts ---------------------------
(***************************************************************************)
(* Interrupts from the host to the guest, and the interval timer.          *)
(*                                                                         *)
(* Any host thread interrupts the guest with EmbSendSignal (signals.c): it *)
(* sets a bit of host_to_guest_signals, asks the emulator to trap, and     *)
(* wakes it if it sleeps in WaitForLifeSupport.  The emulator looks at     *)
(* stop_interpreter when it branches; traporsuspendmachine (stub/ihalt.c)  *)
(* then picks up the request and starts the guest's handler, which takes   *)
(* all signals.  The senders here are the interval timer's thread and the  *)
(* polling thread, which keeps a clock of its own (polling.c); the threads *)
(* that put into queues of the guest's send in the same way.               *)
(*                                                                         *)
(* The guest programs the interval timer with SetIntervalTimer.  Time      *)
(* passes in ticks, and a wait that is over may be noticed late.  The      *)
(* polling thread's clock counts rounds of an eighth of a second.          *)
(*                                                                         *)
(* The machine is running throughout: the spy neither halts nor starts it. *)
(* Guest code is not part of the repository; what it does here is what     *)
(* externals.c, signals.c and the interpreter provide for.                 *)
(***************************************************************************)
EXTENDS Integers

CONSTANTS Timeouts,         \* the relative timeouts the guest programs
          Intervals,        \* the clock intervals it asks for, in rounds
          TrapModes,        \* the trap modes it enters
          ProgramsEarly,    \* may the guest program the timer before the
                            \* timer's thread has started?
          MaxOps,           \* bound: requests the guest makes
          MaxSpurious       \* bound: waits that end for no reason

ASSUME TimeoutsAssumption == Timeouts \subseteq Int
ASSUME IntervalsAssumption == Intervals \subseteq Nat
ASSUME ModesAssumption == TrapModes \subseteq 0 .. 3
ASSUME EarlyAssumption == ProgramsEarly \in BOOLEAN
ASSUME LimitsAssumption == MaxOps \in Nat /\ MaxSpurious \in Nat

Clock == 0                  \* the signal the guest allocates for the clock
GuestSignals == {Clock}

Senders == {"driver", "polling"}
Threads == Senders \cup {"emulator"}
NoOne == "no one"

TrapMode_Emulator == 0
TrapMode_ExtraStack == 1
TrapMode_IO == 2
TrapMode_FEP == 3

VARIABLES
    pc,                     \* where each thread is
    wakeupLock, clockLock,  \* who holds the mutex
    host_to_guest_signals,
    please_trap,            \* a high priority sequence break is requested
    stop_interpreter,
    trapMode,               \* of the guest
    r0,                     \* please_trap as the emulator has loaded it
    signals,                \* host_to_guest_signals as a sender has loaded it
    sending,                \* the argument of each sender's EmbSendSignal
    clock_signal,           \* -1 until the guest allocates it
    clock_interval, pollClockTime,
    clockTime,
    timeout,                \* the argument of SetIntervalTimer
    sleepsFor,              \* the timeout the driver went to sleep with
    expiration,             \* ticks until its wait times out; -1 is never
    due,                    \* ticks until the time the guest last asked for,
                            \* -1 if no request is outstanding
    owed,                   \* has no interrupt been sent since that request?
                            \* (due and owed are not in the code)
    ops, spurious           \* what has been used up of the bounds

trapVars == <<please_trap, stop_interpreter, r0>>
sendVars == <<wakeupLock, host_to_guest_signals, signals, sending>>
pollVars == <<clock_interval, pollClockTime>>
timerVars == <<clockLock, clockTime, timeout, sleepsFor, expiration, due, owed>>
vars == <<pc, trapVars, sendVars, trapMode, clock_signal, pollVars, timerVars,
          ops, spurious>>

Init ==
    /\ pc = [t \in Threads |-> IF t = "driver" THEN "start"
                               ELSE IF t = "emulator" THEN "run" ELSE "idle"]
    /\ wakeupLock = NoOne /\ clockLock = NoOne
    /\ host_to_guest_signals = {} /\ signals = {}
    /\ please_trap = FALSE /\ stop_interpreter = FALSE /\ r0 = FALSE
    /\ trapMode = TrapMode_FEP
    /\ sending = [t \in Senders |-> -1]
    /\ clock_signal = -1
    /\ clock_interval = 0 /\ pollClockTime = 0
    /\ clockTime = 0 /\ timeout = 0
    /\ sleepsFor = -1 /\ expiration = -1 /\ due = -1 /\ owed = FALSE
    /\ ops = 0 /\ spurious = 0

Goto(t, label) == pc' = [pc EXCEPT ![t] = label]
-----------------------------------------------------------------------------
(* EmbSendSignal (sending[t]), called by thread t *)

\* Mutant of SendLock: the signal's number is not checked
SendLockUnchecked(t) ==
    /\ pc[t] = "send"
    /\ wakeupLock = NoOne
    /\ wakeupLock' = t
    /\ Goto(t, "set") /\ signals' = host_to_guest_signals
    /\ UNCHANGED <<host_to_guest_signals, sending, trapVars, trapMode,
                   clock_signal, pollVars, timerVars, ops, spurious>>

\* Lock.  A signal that is not allocated only wakes the emulator
SendLock(t) ==
    /\ pc[t] = "send"
    /\ wakeupLock = NoOne
    /\ wakeupLock' = t
    /\ IF sending[t] = -1
         THEN Goto(t, "wake") /\ UNCHANGED signals
         ELSE Goto(t, "set") /\ signals' = host_to_guest_signals
    /\ UNCHANGED <<host_to_guest_signals, sending, trapVars, trapMode,
                   clock_signal, pollVars, timerVars, ops, spurious>>

\* Store the word of signals with the new one set: an interrupt is pending
SendSet(t) ==
    /\ pc[t] = "set"
    /\ host_to_guest_signals' = signals \cup {sending[t]}
    /\ signals' = {}
    /\ owed' = (owed /\ t # "driver")
    /\ Goto(t, "trap")
    /\ UNCHANGED <<wakeupLock, sending, trapVars, trapMode, clock_signal,
                   pollVars, clockLock, clockTime, timeout, sleepsFor,
                   expiration, due, ops, spurious>>

\* SendInterruptToEmulator, one store after the other
SendTrap(t) ==
    /\ pc[t] = "trap"
    /\ please_trap' = TRUE
    /\ Goto(t, "stop")
    /\ UNCHANGED <<stop_interpreter, r0, sendVars, trapMode, clock_signal,
                   pollVars, timerVars, ops, spurious>>
SendStop(t) ==
    /\ pc[t] = "stop"
    /\ stop_interpreter' = TRUE
    /\ Goto(t, "wake")
    /\ UNCHANGED <<please_trap, r0, sendVars, trapMode, clock_signal,
                   pollVars, timerVars, ops, spurious>>

\* Broadcast and unlock; then the driver disarms the timer, and the polling
\* thread sets its clock again
SendWake(t) ==
    /\ pc[t] = "wake"
    /\ pc' = [pc EXCEPT ![t] = IF t = "driver" THEN "disarm" ELSE "idle",
                        !["emulator"] = IF @ = "asleep" THEN "woken" ELSE @]
    /\ wakeupLock' = NoOne
    /\ sending' = [sending EXCEPT ![t] = -1]
    /\ pollClockTime' = IF t = "polling" THEN clock_interval ELSE pollClockTime
    /\ UNCHANGED <<host_to_guest_signals, signals, trapVars, trapMode,
                   clock_signal, clock_interval, timerVars, ops, spurious>>

\* The polling thread's clock: a round of its loop has passed
PollClock ==
    /\ pc["polling"] = "idle"
    /\ clock_interval > 0
    /\ IF pollClockTime <= 1
         THEN /\ pollClockTime' = 0
              /\ sending' = [sending EXCEPT !["polling"] = clock_signal]
              /\ Goto("polling", "send")
         ELSE /\ pollClockTime' = pollClockTime - 1
              /\ UNCHANGED <<pc, sending>>
    /\ UNCHANGED <<wakeupLock, host_to_guest_signals, signals, trapVars,
                   trapMode, clock_signal, clock_interval, timerVars,
                   ops, spurious>>
-----------------------------------------------------------------------------
(* WaitForLifeSupport, when the guest reads the WaitForEvent register *)

\* With signals pending the guest is interrupted instead, unless it is the FEP
WaitForLifeSupport ==
    /\ pc["emulator"] = "run"
    /\ IF host_to_guest_signals # {} /\ trapMode # TrapMode_FEP
         THEN please_trap' = TRUE /\ stop_interpreter' = TRUE /\ UNCHANGED pc
         ELSE Goto("emulator", "wait") /\ UNCHANGED <<please_trap,
                                                      stop_interpreter>>
    /\ UNCHANGED <<r0, sendVars, trapMode, clock_signal, pollVars, timerVars,
                   ops, spurious>>

\* Lock, and sleep in pthread_cond_timedwait
WaitSleep ==
    /\ pc["emulator"] = "wait"
    /\ wakeupLock = NoOne
    /\ Goto("emulator", "asleep")
    /\ UNCHANGED <<trapVars, sendVars, trapMode, clock_signal, pollVars,
                   timerVars, ops, spurious>>

\* Mutant of WaitTimeout: pthread_cond_wait, as before release 8.12
WaitForever == FALSE /\ UNCHANGED vars

\* A second has passed (or a signal has interrupted the wait)
WaitTimeout ==
    /\ pc["emulator"] = "asleep"
    /\ Goto("emulator", "woken")
    /\ UNCHANGED <<trapVars, sendVars, trapMode, clock_signal, pollVars,
                   timerVars, ops, spurious>>

\* Lock again on leaving the wait, unlock and return
WaitReturn ==
    /\ pc["emulator"] = "woken"
    /\ wakeupLock = NoOne
    /\ Goto("emulator", "run")
    /\ UNCHANGED <<trapVars, sendVars, trapMode, clock_signal, pollVars,
                   timerVars, ops, spurious>>
-----------------------------------------------------------------------------
(* The interpreter: a branch finds stop_interpreter set *)

\* traporsuspendmachine loads the request ...
TrapLoad ==
    /\ pc["emulator"] = "run"
    /\ stop_interpreter
    /\ r0' = please_trap
    /\ Goto("emulator", "clear")
    /\ UNCHANGED <<please_trap, stop_interpreter, sendVars, trapMode,
                   clock_signal, pollVars, timerVars, ops, spurious>>

\* ... clears it ...
TrapClear ==
    /\ pc["emulator"] = "clear"
    /\ please_trap' = FALSE
    /\ Goto("emulator", "unstop")
    /\ UNCHANGED <<stop_interpreter, r0, sendVars, trapMode, clock_signal,
                   pollVars, timerVars, ops, spurious>>

\* ... and takes the trap, if the guest's mode allows it.  If not, the request
\* is forgotten
TrapDispatch ==
    /\ pc["emulator"] = "unstop"
    /\ stop_interpreter' = FALSE
    /\ r0' = FALSE
    /\ Goto("emulator",
            IF r0 /\ trapMode <= TrapMode_ExtraStack THEN "break" ELSE "run")
    /\ UNCHANGED <<please_trap, sendVars, trapMode, clock_signal, pollVars,
                   timerVars, ops, spurious>>

\* Returning from a function sets stop_interpreter from please_trap and the
\* preempt request, loaded before it is stored
ReturnLoad ==
    /\ pc["emulator"] = "run"
    /\ r0' = please_trap
    /\ Goto("emulator", "return")
    /\ UNCHANGED <<please_trap, stop_interpreter, sendVars, trapMode,
                   clock_signal, pollVars, timerVars, ops, spurious>>
ReturnStore(preempt) ==
    /\ pc["emulator"] = "return"
    /\ stop_interpreter' = (r0 \/ preempt)
    /\ r0' = FALSE
    /\ Goto("emulator", "run")
    /\ UNCHANGED <<please_trap, sendVars, trapMode, clock_signal, pollVars,
                   timerVars, ops, spurious>>
-----------------------------------------------------------------------------
(* The guest *)

\* The guest's handler of the trap takes all pending signals
GuestTakesSignals ==
    /\ pc["emulator"] = "break"
    /\ host_to_guest_signals' = {}
    /\ Goto("emulator", "run")
    /\ UNCHANGED <<wakeupLock, signals, sending, trapVars, trapMode,
                   clock_signal, pollVars, timerVars, ops, spurious>>

Request == /\ pc["emulator"] = "run"
           /\ ops < MaxOps
           /\ ops' = ops + 1

\* The guest enters a mode that holds interrupts back
GuestRaisesMode(mode) ==
    /\ Request
    /\ mode > trapMode
    /\ trapMode' = mode
    /\ UNCHANGED <<pc, trapVars, sendVars, clock_signal, pollVars, timerVars,
                   spurious>>

\* The guest goes back to Lisp
GuestLowersMode ==
    /\ pc["emulator"] = "run"
    /\ trapMode # TrapMode_Emulator
    /\ trapMode' = TrapMode_Emulator
    /\ UNCHANGED <<pc, trapVars, sendVars, clock_signal, pollVars, timerVars,
                   ops, spurious>>

\* The guest allocates the clock's signal
GuestClockSignal ==
    /\ pc["emulator"] = "run"
    /\ clock_signal = -1
    /\ clock_signal' = Clock
    /\ UNCHANGED <<pc, trapVars, sendVars, trapMode, pollVars, timerVars,
                   ops, spurious>>

\* The guest asks for a periodic clock interrupt
GuestClockInterval(interval) ==
    /\ Request
    /\ clock_interval' = interval
    /\ UNCHANGED <<pc, trapVars, sendVars, trapMode, clock_signal,
                   pollClockTime, timerVars, spurious>>

\* The guest writes the WaitForEvent register: it calls SetIntervalTimer
GuestProgramsTimer(n) ==
    /\ Request
    /\ ProgramsEarly \/ pc["driver"] # "start"
    /\ timeout' = n
    /\ Goto("emulator", "program")
    /\ UNCHANGED <<trapVars, sendVars, trapMode, clock_signal, pollVars,
                   clockLock, clockTime, sleepsFor, expiration, due, owed,
                   spurious>>
-----------------------------------------------------------------------------
(* The interval timer *)

\* Mutant of SetIntervalTimer: no broadcast
SetIntervalTimerQuiet ==
    /\ pc["emulator"] = "program"
    /\ clockLock = NoOne
    /\ clockTime' = timeout
    /\ due' = IF timeout >= 0 THEN timeout ELSE -1
    /\ owed' = (timeout >= 0 /\ clock_signal # -1)
    /\ timeout' = 0
    /\ Goto("emulator", "run")
    /\ UNCHANGED <<trapVars, sendVars, trapMode, clock_signal, pollVars,
                   clockLock, sleepsFor, expiration, ops, spurious>>

\* SetIntervalTimer: lock, store the timeout, broadcast, unlock
SetIntervalTimer ==
    /\ pc["emulator"] = "program"
    /\ clockLock = NoOne
    /\ clockTime' = timeout
    /\ due' = IF timeout >= 0 THEN timeout ELSE -1
    /\ owed' = (timeout >= 0 /\ clock_signal # -1)
    /\ pc' = [pc EXCEPT !["emulator"] = "run",
                        !["driver"] = IF @ = "sleeping" THEN "signalled" ELSE @]
    /\ timeout' = 0
    /\ UNCHANGED <<trapVars, sendVars, trapMode, clock_signal, pollVars,
                   clockLock, sleepsFor, expiration, ops, spurious>>

\* IntervalTimerDriver has waited for the end of the initialization; it stores
\* clockTime without the lock
DriverStart ==
    /\ pc["driver"] = "start"
    /\ clockTime' = -1
    /\ Goto("driver", "lock")
    /\ UNCHANGED <<trapVars, sendVars, trapMode, clock_signal, pollVars,
                   clockLock, timeout, sleepsFor, expiration, due, owed, ops,
                   spurious>>

DriverLock ==
    /\ pc["driver"] = "lock"
    /\ clockLock = NoOne
    /\ clockLock' = "driver"
    /\ Goto("driver", "loop")
    /\ UNCHANGED <<trapVars, sendVars, trapMode, clock_signal, pollVars,
                   clockTime, timeout, sleepsFor, expiration, due, owed, ops,
                   spurious>>

\* Mutant of DriverSleep: a timeout of zero is taken for none
DriverSleepPositive ==
    /\ pc["driver"] = "loop"
    /\ sleepsFor' = clockTime
    /\ expiration' = IF clockTime > 0 THEN clockTime ELSE -1
    /\ clockLock' = NoOne
    /\ Goto("driver", "sleeping")
    /\ UNCHANGED <<trapVars, sendVars, trapMode, clock_signal, pollVars,
                   clockTime, timeout, due, owed, ops, spurious>>

\* Sleep for clockTime, or until the timer is programmed; the wait unlocks
DriverSleep ==
    /\ pc["driver"] = "loop"
    /\ sleepsFor' = clockTime
    /\ expiration' = IF clockTime >= 0 THEN clockTime ELSE -1
    /\ clockLock' = NoOne
    /\ Goto("driver", "sleeping")
    /\ UNCHANGED <<trapVars, sendVars, trapMode, clock_signal, pollVars,
                   clockTime, timeout, due, owed, ops, spurious>>

\* A tick of the clock
Tick ==
    /\ expiration > 0 \/ due > 0
    /\ expiration' = IF expiration > 0 THEN expiration - 1 ELSE expiration
    /\ due' = IF due > 0 THEN due - 1 ELSE due
    /\ UNCHANGED <<pc, trapVars, sendVars, trapMode, clock_signal, pollVars,
                   clockLock, clockTime, timeout, sleepsFor, owed, ops, spurious>>

\* pthread_cond_timedwait times out, and has to lock the mutex again
DriverTimeout ==
    /\ pc["driver"] = "sleeping"
    /\ expiration = 0
    /\ Goto("driver", "timed out")
    /\ UNCHANGED <<trapVars, sendVars, trapMode, clock_signal, pollVars,
                   timerVars, ops, spurious>>

\* A wait may end for no reason; the driver then sleeps for the whole timeout
DriverSpurious ==
    /\ pc["driver"] = "sleeping"
    /\ spurious < MaxSpurious
    /\ spurious' = spurious + 1
    /\ Goto("driver", "signalled")
    /\ UNCHANGED <<trapVars, sendVars, trapMode, clock_signal, pollVars,
                   timerVars, ops>>

\* The wait ends with the mutex locked; its result decides
DriverWake ==
    /\ pc["driver"] \in {"signalled", "timed out"}
    /\ clockLock = NoOne
    /\ clockLock' = "driver"
    /\ IF pc["driver"] = "timed out"
         THEN /\ sending' = [sending EXCEPT !["driver"] = clock_signal]
              /\ Goto("driver", "send")
         ELSE Goto("driver", "loop") /\ UNCHANGED sending
    /\ expiration' = -1 /\ sleepsFor' = -1
    /\ UNCHANGED <<trapVars, wakeupLock, host_to_guest_signals, signals,
                   trapMode, clock_signal, pollVars, clockTime, timeout, due,
                   owed, ops, spurious>>

\* Mutant of DriverDisarm: the timeout is left in place
DriverRearm ==
    /\ pc["driver"] = "disarm"
    /\ due' = IF due = 0 THEN -1 ELSE due
    /\ Goto("driver", "loop")
    /\ UNCHANGED <<trapVars, sendVars, trapMode, clock_signal, pollVars,
                   clockLock, clockTime, timeout, sleepsFor, expiration, owed,
                   ops, spurious>>

\* EmbSendSignal has returned: the timer is disarmed.  A request that is due
\* has been met; one stored while the wait timed out, for a later time, is not
DriverDisarm ==
    /\ pc["driver"] = "disarm"
    /\ clockTime' = -1
    /\ due' = IF due = 0 THEN -1 ELSE due
    /\ Goto("driver", "loop")
    /\ UNCHANGED <<trapVars, sendVars, trapMode, clock_signal, pollVars,
                   clockLock, timeout, sleepsFor, expiration, owed, ops, spurious>>
-----------------------------------------------------------------------------
Sends(t) == SendLock(t) \/ SendSet(t) \/ SendTrap(t) \/ SendStop(t)
                \/ SendWake(t)
Waits == WaitSleep \/ WaitTimeout \/ WaitReturn
Traps == TrapClear \/ TrapDispatch \/ GuestTakesSignals
Drives == DriverStart \/ DriverLock \/ DriverSleep \/ DriverTimeout
              \/ DriverWake \/ DriverDisarm

Next ==
    \/ \E t \in Senders : Sends(t)
    \/ PollClock
    \/ WaitForLifeSupport \/ Waits
    \/ TrapLoad \/ Traps
    \/ ReturnLoad \/ \E preempt \in BOOLEAN : ReturnStore(preempt)
    \/ \E mode \in TrapModes : GuestRaisesMode(mode)
    \/ GuestLowersMode \/ GuestClockSignal
    \/ \E interval \in Intervals : GuestClockInterval(interval)
    \/ \E n \in Timeouts : GuestProgramsTimer(n)
    \/ SetIntervalTimer
    \/ Drives \/ DriverSpurious
    \/ Tick

Spec == Init /\ [][Next]_vars

\* Host threads run, time passes, and a mutex that is free again and again is
\* handed out.  Of the guest: Lisp's idle process waits for Life Support again
\* and again, branches are executed again and again, and the guest leaves the
\* FEP.
FairSpec ==
    /\ Spec
    /\ SF_vars(Sends("driver")) /\ WF_vars(Sends("polling"))
    /\ WF_vars(Drives) /\ WF_vars(SetIntervalTimer) /\ WF_vars(Tick)
    /\ SF_vars(Waits) /\ WF_vars(Traps)
    /\ WF_vars(\E preempt \in BOOLEAN : ReturnStore(preempt))
    /\ SF_vars(WaitForLifeSupport) /\ SF_vars(TrapLoad)
    /\ SF_vars(GuestLowersMode)
-----------------------------------------------------------------------------
(* Properties *)

SenderLabels == {"idle", "send", "set", "trap", "stop", "wake"}
DriverLabels == {"start", "lock", "loop", "sleeping", "signalled", "timed out",
                 "send", "set", "trap", "stop", "wake", "disarm"}
EmulatorLabels == {"run", "wait", "asleep", "woken", "clear", "unstop",
                   "break", "return", "program"}

ThreadsOK ==
    /\ pc \in [Threads -> SenderLabels \cup DriverLabels \cup EmulatorLabels]
    /\ pc["driver"] \in DriverLabels /\ pc["polling"] \in SenderLabels
    /\ pc["emulator"] \in EmulatorLabels
    /\ wakeupLock \in Senders \cup {NoOne}
    /\ clockLock \in {"driver", NoOne}

SignalsOK ==
    /\ host_to_guest_signals \subseteq GuestSignals
    /\ signals \subseteq GuestSignals
    /\ please_trap \in BOOLEAN /\ stop_interpreter \in BOOLEAN /\ r0 \in BOOLEAN
    /\ trapMode \in TrapMode_Emulator .. TrapMode_FEP
    /\ sending \in [Senders -> GuestSignals \cup {-1}]
    /\ clock_signal \in GuestSignals \cup {-1}

TimersOK ==
    /\ clock_interval \in Nat /\ pollClockTime \in Nat
    /\ clockTime \in Int /\ timeout \in Int /\ sleepsFor \in Int
    /\ expiration \in Nat \cup {-1} /\ due \in Nat \cup {-1}
    /\ owed \in BOOLEAN
    /\ ops \in 0 .. MaxOps /\ spurious \in 0 .. MaxSpurious

\* Only allocated signals become pending, whatever clock_signal is when a
\* clock fires; a wait that is over or was for nothing never counts on
TypeOK == ThreadsOK /\ SignalsOK /\ TimersOK

\* A timeout the guest has stored and that has not come is slept for: "The
\* interval timer thread will wakeup, note that there's a new timeout, and go
\* back to sleep with the new timeout" (polling.c:308).  It fails when the
\* timeout is stored while the wait times out: clockTime is set to -1 over it
SleepsForTheLatest == pc["driver"] = "sleeping" /\ due >= 0 => expiration >= 0

\* While the guest is owed an interrupt the timer's thread never sleeps without
\* a time-out or with an old one, although clockTime is changed by the
\* emulator's thread and both orders of the broadcast and the wait occur
SleepsForWhatIsOwed ==
    pc["driver"] = "sleeping" /\ owed => expiration >= 0 /\ sleepsFor = clockTime

\* A wait that can time out is for an interrupt the guest has asked for and not
\* had, and it does not end before that is due: the timer is disarmed after
\* each interrupt and no wait is cut short
WaitIsForRequest ==
    pc["driver"] = "sleeping" /\ expiration >= 0 => due \in 0 .. expiration

\* A pending interrupt is eventually taken by the guest, although its request
\* to trap may be overwritten or forgotten and the wakeup may come before the
\* emulator sleeps
SignalsAreTaken ==
    \A s \in GuestSignals : s \in host_to_guest_signals
                              ~> s \notin host_to_guest_signals

\* A guest that has allocated the clock's signal and programs the timer is
\* eventually interrupted, unless it cancels the request: an interrupt is made
\* pending after the request, at its time or, if the wait just timed out, early
TimerFires == owed ~> ~owed
=============================================================================
