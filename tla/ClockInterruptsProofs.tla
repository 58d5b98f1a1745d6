------------------------ MODULE ClockInterruptsProofs ------------------------
(***************************************************************************)
(* Proofs about the interval timer, for all timeouts, intervals and bounds, *)
(* and whether or not the guest programs the timer before its thread has   *)
(* started.                                                                *)
(***************************************************************************)
EXTENDS ClockInterrupts, TLAPS

\* A sender that is about to set a signal's bit has an allocated signal
SetsAllocated == \A t \in Senders : pc[t] = "set" => sending[t] \in GuestSignals

\* What makes WaitIsForRequest inductive: as long as it is armed, the timer is
\* set for no less than what is left of the guest's last request
ArmedForRequest ==
    pc["driver"] # "start" /\ clockTime >= 0 => due \in 0 .. clockTime

\* The inductive invariant
TimerInv == /\ TypeOK /\ SetsAllocated
            /\ ArmedForRequest /\ WaitIsForRequest

Sending == {"send", "set", "trap", "stop", "wake", "disarm"}

\* The driver goes to sleep with what is stored in clockTime, and whoever stores
\* another timeout wakes it
SleepsForStored ==
    pc["driver"] = "sleeping" => /\ sleepsFor = clockTime
                                 /\ clockTime >= 0 => expiration >= 0

\* From the end of its wait until it sleeps again the driver holds clockLock
DriverHolds == pc["driver"] \in Sending \cup {"loop"} => clockLock = "driver"

\* While an interrupt is owed the timer stays armed: the driver is neither before
\* its first store of clockTime nor, having sent nothing, about to disarm it
OwedIsArmed ==
    /\ pc["driver"] = "start" => ~owed /\ pc["emulator"] # "program"
    /\ owed => /\ clock_signal # -1 /\ clockTime >= 0
               /\ pc["driver"] \in Sending => /\ pc["driver"] \in {"send", "set"}
                                               /\ sending["driver"] # -1

\* What makes SleepsForWhatIsOwed inductive
OwedInv == SleepsForStored /\ DriverHolds /\ OwedIsArmed
-----------------------------------------------------------------------------
(* Type correctness *)

\* Each step leaves each thread at one of its program points
LEMMA ThreadsStep == ThreadsOK /\ [Next]_vars => ThreadsOK'
<1> SUFFICES ASSUME ThreadsOK, [Next]_vars PROVE ThreadsOK'
  OBVIOUS
<1> USE DEF ThreadsOK, Threads, Senders, NoOne, SenderLabels, DriverLabels,
            EmulatorLabels, Goto
<1>1. CASE UNCHANGED vars
  BY <1>1 DEF vars, sendVars, timerVars
<1>2. ASSUME NEW t \in Senders, Sends(t) PROVE ThreadsOK'
  <2>1. CASE SendLock(t)
    BY <2>1 DEF SendLock, timerVars
  <2>2. CASE SendSet(t)
    BY <2>2 DEF SendSet, timerVars
  <2>3. CASE SendTrap(t)
    BY <2>3 DEF SendTrap, sendVars, timerVars
  <2>4. CASE SendStop(t)
    BY <2>4 DEF SendStop, sendVars, timerVars
  <2>5. CASE SendWake(t)
    BY <2>5 DEF SendWake, timerVars
  <2> QED
    BY <1>2, <2>1, <2>2, <2>3, <2>4, <2>5 DEF Sends
<1>3. CASE PollClock
  BY <1>3 DEF PollClock, timerVars
<1>4. CASE WaitForLifeSupport \/ Waits
  <2>1. CASE WaitForLifeSupport
    BY <2>1 DEF WaitForLifeSupport, sendVars, timerVars
  <2>2. CASE WaitSleep
    BY <2>2 DEF WaitSleep, sendVars, timerVars
  <2>3. CASE WaitTimeout
    BY <2>3 DEF WaitTimeout, sendVars, timerVars
  <2>4. CASE WaitReturn
    BY <2>4 DEF WaitReturn, sendVars, timerVars
  <2> QED
    BY <1>4, <2>1, <2>2, <2>3, <2>4 DEF Waits
<1>5. CASE TrapLoad \/ Traps
  <2>1. CASE TrapLoad
    BY <2>1 DEF TrapLoad, sendVars, timerVars
  <2>2. CASE TrapClear
    BY <2>2 DEF TrapClear, sendVars, timerVars
  <2>3. CASE TrapDispatch
    BY <2>3 DEF TrapDispatch, sendVars, timerVars
  <2>4. CASE GuestTakesSignals
    BY <2>4 DEF GuestTakesSignals, timerVars
  <2> QED
    BY <1>5, <2>1, <2>2, <2>3, <2>4 DEF Traps
<1>6. ASSUME NEW preempt \in BOOLEAN, ReturnLoad \/ ReturnStore(preempt)
      PROVE  ThreadsOK'
  <2>1. CASE ReturnLoad
    BY <2>1 DEF ReturnLoad, sendVars, timerVars
  <2>2. CASE ReturnStore(preempt)
    BY <2>2 DEF ReturnStore, sendVars, timerVars
  <2> QED
    BY <1>6, <2>1, <2>2
<1>7. ASSUME NEW mode \in TrapModes, GuestRaisesMode(mode) PROVE ThreadsOK'
  BY <1>7 DEF GuestRaisesMode, sendVars, timerVars
<1>8. CASE GuestLowersMode \/ GuestClockSignal
  BY <1>8 DEF GuestLowersMode, GuestClockSignal, sendVars, timerVars
<1>9. ASSUME NEW interval \in Intervals, GuestClockInterval(interval)
      PROVE  ThreadsOK'
  BY <1>9 DEF GuestClockInterval, sendVars, timerVars
<1>10. ASSUME NEW n \in Timeouts, GuestProgramsTimer(n) PROVE ThreadsOK'
  BY <1>10 DEF GuestProgramsTimer, sendVars
<1>11. CASE SetIntervalTimer
  BY <1>11 DEF SetIntervalTimer, sendVars
<1>12. CASE Drives
  BY <1>12 DEF Drives, DriverStart, DriverLock, DriverSleep, DriverTimeout,
               DriverWake, DriverDisarm, sendVars, timerVars
<1>13. CASE DriverSpurious \/ Tick
  BY <1>13 DEF DriverSpurious, Tick, sendVars, timerVars
<1> QED
  BY <1>1, <1>2, <1>3, <1>4, <1>5, <1>6, <1>7, <1>8, <1>9, <1>10, <1>11,
     <1>12, <1>13 DEF Next

\* A sender reaches the store of its bit only with an allocated signal: the test
\* of the signal in EmbSendSignal is what keeps the -1 of a clock that the guest
\* has not allocated out of the word
LEMMA SetsAllocatedStep ==
  ThreadsOK /\ SignalsOK /\ SetsAllocated /\ [Next]_vars => SetsAllocated'
<1> SUFFICES ASSUME ThreadsOK, SignalsOK, SetsAllocated, [Next]_vars
             PROVE  SetsAllocated'
  OBVIOUS
<1> USE DEF ThreadsOK, SignalsOK, SetsAllocated, Threads, Senders, Goto
<1>1. CASE UNCHANGED vars
  BY <1>1 DEF vars, sendVars
<1>2. ASSUME NEW t \in Senders, Sends(t) PROVE SetsAllocated'
  <2>1. CASE SendLock(t)
    BY <2>1 DEF SendLock
  <2>2. CASE SendSet(t) \/ SendTrap(t) \/ SendStop(t)
    BY <2>2 DEF SendSet, SendTrap, SendStop, sendVars
  <2>3. CASE SendWake(t)
    BY <2>3 DEF SendWake
  <2> QED
    BY <1>2, <2>1, <2>2, <2>3 DEF Sends
<1>3. CASE PollClock
  BY <1>3 DEF PollClock
<1>4. CASE WaitForLifeSupport \/ Waits
  BY <1>4 DEF WaitForLifeSupport, Waits, WaitSleep, WaitTimeout, WaitReturn,
              sendVars
<1>5. CASE TrapLoad \/ Traps
  BY <1>5 DEF TrapLoad, Traps, TrapClear, TrapDispatch, GuestTakesSignals,
              sendVars
<1>6. ASSUME NEW preempt \in BOOLEAN, ReturnLoad \/ ReturnStore(preempt)
      PROVE  SetsAllocated'
  BY <1>6 DEF ReturnLoad, ReturnStore, sendVars
<1>7. ASSUME NEW mode \in TrapModes, GuestRaisesMode(mode)
      PROVE  SetsAllocated'
  BY <1>7 DEF GuestRaisesMode, sendVars
<1>8. CASE GuestLowersMode \/ GuestClockSignal
  BY <1>8 DEF GuestLowersMode, GuestClockSignal, sendVars
<1>9. ASSUME NEW interval \in Intervals, GuestClockInterval(interval)
      PROVE  SetsAllocated'
  BY <1>9 DEF GuestClockInterval, sendVars
<1>10. ASSUME NEW n \in Timeouts, GuestProgramsTimer(n) PROVE SetsAllocated'
  BY <1>10 DEF GuestProgramsTimer, sendVars
<1>11. CASE SetIntervalTimer
  BY <1>11 DEF SetIntervalTimer, sendVars
<1>12. CASE Drives
  BY <1>12 DEF Drives, DriverStart, DriverLock, DriverSleep, DriverTimeout,
               DriverWake, DriverDisarm, sendVars
<1>13. CASE DriverSpurious \/ Tick
  BY <1>13 DEF DriverSpurious, Tick, sendVars
<1> QED
  BY <1>1, <1>2, <1>3, <1>4, <1>5, <1>6, <1>7, <1>8, <1>9, <1>10, <1>11,
     <1>12, <1>13 DEF Next

\* Each step leaves the words of signals and the trap request within their types
LEMMA SignalsStep ==
  ThreadsOK /\ SignalsOK /\ SetsAllocated /\ [Next]_vars => SignalsOK'
<1> SUFFICES ASSUME ThreadsOK, SignalsOK, SetsAllocated, [Next]_vars
             PROVE  SignalsOK'
  OBVIOUS
<1> USE DEF SignalsOK
<1>1. CASE UNCHANGED vars
  BY <1>1 DEF vars, sendVars, trapVars
<1>2. ASSUME NEW t \in Senders, Sends(t) PROVE SignalsOK'
  <2>1. CASE SendLock(t)
    BY <2>1 DEF SendLock, trapVars
  <2>2. CASE SendSet(t)
    BY <2>2 DEF SendSet, trapVars, SetsAllocated
  <2>3. CASE SendTrap(t) \/ SendStop(t)
    BY <2>3 DEF SendTrap, SendStop, sendVars
  <2>4. CASE SendWake(t)
    BY <2>4 DEF SendWake, trapVars
  <2> QED
    BY <1>2, <2>1, <2>2, <2>3, <2>4 DEF Sends
<1>3. CASE PollClock
  BY <1>3 DEF PollClock, trapVars, Senders
<1>4. CASE WaitForLifeSupport \/ Waits
  BY <1>4 DEF WaitForLifeSupport, Waits, WaitSleep, WaitTimeout, WaitReturn,
              sendVars, trapVars
<1>5. CASE TrapLoad \/ Traps
  BY <1>5 DEF TrapLoad, Traps, TrapClear, TrapDispatch, GuestTakesSignals,
              sendVars, trapVars
<1>6. ASSUME NEW preempt \in BOOLEAN, ReturnLoad \/ ReturnStore(preempt)
      PROVE  SignalsOK'
  <2>1. CASE ReturnLoad
    BY <2>1 DEF ReturnLoad, sendVars
  <2>2. CASE ReturnStore(preempt)
    BY <2>2, <1>6 DEF ReturnStore, sendVars
  <2> QED
    BY <1>6, <2>1, <2>2
<1>7. ASSUME NEW mode \in TrapModes, GuestRaisesMode(mode) PROVE SignalsOK'
  BY <1>7, ModesAssumption
     DEF GuestRaisesMode, sendVars, trapVars, TrapMode_Emulator, TrapMode_FEP
<1>8. CASE GuestLowersMode \/ GuestClockSignal
  BY <1>8 DEF GuestLowersMode, GuestClockSignal, sendVars, trapVars,
              TrapMode_Emulator, TrapMode_FEP, GuestSignals
<1>9. ASSUME NEW interval \in Intervals, GuestClockInterval(interval)
      PROVE  SignalsOK'
  BY <1>9 DEF GuestClockInterval, sendVars, trapVars
<1>10. ASSUME NEW n \in Timeouts, GuestProgramsTimer(n) PROVE SignalsOK'
  BY <1>10 DEF GuestProgramsTimer, sendVars, trapVars
<1>11. CASE SetIntervalTimer
  BY <1>11 DEF SetIntervalTimer, sendVars, trapVars
<1>12. CASE Drives
  BY <1>12 DEF Drives, DriverStart, DriverLock, DriverSleep, DriverTimeout,
               DriverWake, DriverDisarm, sendVars, trapVars, Senders
<1>13. CASE DriverSpurious \/ Tick
  BY <1>13 DEF DriverSpurious, Tick, sendVars, trapVars
<1> QED
  BY <1>1, <1>2, <1>3, <1>4, <1>5, <1>6, <1>7, <1>8, <1>9, <1>10, <1>11,
     <1>12, <1>13 DEF Next

\* The timers' variables stay within their types
LEMMA TimersStep == TimersOK /\ [Next]_vars => TimersOK'
<1> SUFFICES ASSUME TimersOK, [Next]_vars PROVE TimersOK'
  OBVIOUS
<1> USE DEF TimersOK
<1>1. CASE UNCHANGED vars
  BY <1>1 DEF vars, timerVars, pollVars
<1>2. ASSUME NEW t \in Senders, Sends(t) PROVE TimersOK'
  <2>1. CASE SendSet(t)
    BY <2>1 DEF SendSet, pollVars
  <2>2. CASE SendWake(t)
    BY <2>2 DEF SendWake, timerVars
  <2>3. CASE SendLock(t) \/ SendTrap(t) \/ SendStop(t)
    BY <2>3 DEF SendLock, SendTrap, SendStop, timerVars, pollVars
  <2> QED
    BY <1>2, <2>1, <2>2, <2>3 DEF Sends
<1>3. CASE PollClock
  BY <1>3 DEF PollClock, timerVars
<1>4. CASE WaitForLifeSupport \/ Waits
  BY <1>4 DEF WaitForLifeSupport, Waits, WaitSleep, WaitTimeout, WaitReturn,
              timerVars, pollVars
<1>5. CASE TrapLoad \/ Traps
  BY <1>5 DEF TrapLoad, Traps, TrapClear, TrapDispatch, GuestTakesSignals,
              timerVars, pollVars
<1>6. ASSUME NEW preempt \in BOOLEAN, ReturnLoad \/ ReturnStore(preempt)
      PROVE  TimersOK'
  BY <1>6 DEF ReturnLoad, ReturnStore, timerVars, pollVars
<1>7. ASSUME NEW mode \in TrapModes, GuestRaisesMode(mode) PROVE TimersOK'
  BY <1>7, LimitsAssumption DEF GuestRaisesMode, Request, timerVars, pollVars
<1>8. CASE GuestLowersMode \/ GuestClockSignal
  BY <1>8 DEF GuestLowersMode, GuestClockSignal, timerVars, pollVars
<1>9. ASSUME NEW interval \in Intervals, GuestClockInterval(interval)
      PROVE  TimersOK'
  BY <1>9, LimitsAssumption, IntervalsAssumption
     DEF GuestClockInterval, Request, timerVars
<1>10. ASSUME NEW n \in Timeouts, GuestProgramsTimer(n) PROVE TimersOK'
  BY <1>10, LimitsAssumption, TimeoutsAssumption
     DEF GuestProgramsTimer, Request, pollVars
<1>11. CASE SetIntervalTimer
  BY <1>11 DEF SetIntervalTimer, pollVars
<1>12. CASE Drives
  <2>1. CASE DriverSleep
    BY <2>1 DEF DriverSleep, pollVars
  <2>2. CASE DriverWake
    <3>1. /\ expiration' = -1 /\ sleepsFor' = -1
          /\ UNCHANGED <<pollVars, clockTime, timeout, due, owed, ops,
                         spurious>>
      BY <2>2 DEF DriverWake
    <3> QED
      BY <3>1 DEF pollVars
  <2>3. CASE DriverStart \/ DriverDisarm
    BY <2>3 DEF DriverStart, DriverDisarm, pollVars
  <2>4. CASE DriverLock \/ DriverTimeout
    BY <2>4 DEF DriverLock, DriverTimeout, timerVars, pollVars
  <2> QED
    BY <1>12, <2>1, <2>2, <2>3, <2>4 DEF Drives
<1>13. CASE DriverSpurious
  BY <1>13, LimitsAssumption DEF DriverSpurious, timerVars, pollVars
<1>14. CASE Tick
  BY <1>14 DEF Tick, pollVars
<1> QED
  BY <1>1, <1>2, <1>3, <1>4, <1>5, <1>6, <1>7, <1>8, <1>9, <1>10, <1>11,
     <1>12, <1>13, <1>14 DEF Next
-----------------------------------------------------------------------------
(* The interval timer *)

\* A step that leaves the timer alone and keeps the driver awake, or asleep
TimerUntouched ==
    /\ UNCHANGED <<clockTime, sleepsFor, expiration, due>>
    /\ pc'["driver"] = "sleeping" => pc["driver"] = "sleeping"
    /\ pc["driver"] = "start" => pc'["driver"] = "start"

\* The steps of the emulator, of the guest and of the senders are such steps
LEMMA OthersLeaveTimer ==
  ASSUME ThreadsOK,
         \/ UNCHANGED vars
         \/ \E t \in Senders : Sends(t)
         \/ PollClock \/ WaitForLifeSupport \/ Waits \/ TrapLoad \/ Traps
         \/ ReturnLoad \/ \E preempt \in BOOLEAN : ReturnStore(preempt)
         \/ \E mode \in TrapModes : GuestRaisesMode(mode)
         \/ GuestLowersMode \/ GuestClockSignal
         \/ \E interval \in Intervals : GuestClockInterval(interval)
         \/ \E n \in Timeouts : GuestProgramsTimer(n)
  PROVE  TimerUntouched
<1> USE DEF TimerUntouched, ThreadsOK, Threads, Senders, Goto, timerVars
<1>1. CASE UNCHANGED vars
  BY <1>1 DEF vars
<1>2. ASSUME NEW t \in Senders, Sends(t) PROVE TimerUntouched
  BY <1>2 DEF Sends, SendLock, SendSet, SendTrap, SendStop, SendWake
<1>3. CASE PollClock
  BY <1>3 DEF PollClock
<1>4. CASE WaitForLifeSupport \/ Waits
  BY <1>4 DEF WaitForLifeSupport, Waits, WaitSleep, WaitTimeout, WaitReturn
<1>5. CASE TrapLoad \/ Traps
  BY <1>5 DEF TrapLoad, Traps, TrapClear, TrapDispatch, GuestTakesSignals
<1>6. ASSUME NEW preempt \in BOOLEAN, ReturnLoad \/ ReturnStore(preempt)
      PROVE  TimerUntouched
  BY <1>6 DEF ReturnLoad, ReturnStore
<1>7. ASSUME NEW mode \in TrapModes, GuestRaisesMode(mode)
      PROVE  TimerUntouched
  BY <1>7 DEF GuestRaisesMode
<1>8. CASE GuestLowersMode \/ GuestClockSignal
  BY <1>8 DEF GuestLowersMode, GuestClockSignal
<1>9. ASSUME NEW interval \in Intervals, GuestClockInterval(interval)
      PROVE  TimerUntouched
  BY <1>9 DEF GuestClockInterval
<1>10. ASSUME NEW n \in Timeouts, GuestProgramsTimer(n) PROVE TimerUntouched
  BY <1>10 DEF GuestProgramsTimer
<1> QED
  BY <1>1, <1>2, <1>3, <1>4, <1>5, <1>6, <1>7, <1>8, <1>9, <1>10

\* A step of the emulator, of the guest or of the polling thread leaves the
\* driver, its lock and what is owed alone
DriverUntouched ==
    /\ UNCHANGED <<clockTime, sleepsFor, expiration, owed, clockLock>>
    /\ pc'["driver"] = pc["driver"]
    /\ sending'["driver"] = sending["driver"]
    /\ clock_signal' # -1 \/ clock_signal' = clock_signal
    /\ pc["driver"] = "start" /\ pc'["emulator"] = "program"
         => pc["emulator"] = "program"

\* These are such steps, if the guest does not program the timer early
LEMMA OthersLeaveDriver ==
  ASSUME ThreadsOK, SignalsOK, TimersOK, ~ProgramsEarly,
         \/ UNCHANGED vars
         \/ Sends("polling")
         \/ PollClock \/ WaitForLifeSupport \/ Waits \/ TrapLoad \/ Traps
         \/ ReturnLoad \/ \E preempt \in BOOLEAN : ReturnStore(preempt)
         \/ \E mode \in TrapModes : GuestRaisesMode(mode)
         \/ GuestLowersMode \/ GuestClockSignal
         \/ \E interval \in Intervals : GuestClockInterval(interval)
         \/ \E n \in Timeouts : GuestProgramsTimer(n)
  PROVE  DriverUntouched
<1> USE DEF DriverUntouched, ThreadsOK, SignalsOK, Threads, Senders, Goto,
            timerVars, sendVars
<1>1. CASE UNCHANGED vars
  BY <1>1 DEF vars
<1>2. CASE Sends("polling")
  <2>1. CASE SendLock("polling")
    BY <2>1 DEF SendLock
  <2>2. CASE SendSet("polling")
    <3>1. owed' = owed
      <4>1. owed \in BOOLEAN /\ owed' = (owed /\ "polling" # "driver")
        BY <2>2 DEF SendSet, TimersOK
      <4>2. "polling" # "driver"
        OBVIOUS
      <4> QED
        BY <4>1, <4>2, Zenon
    <3> QED
      BY <2>2, <3>1 DEF SendSet
  <2>3. CASE SendTrap("polling") \/ SendStop("polling")
    BY <2>3 DEF SendTrap, SendStop
  <2>4. CASE SendWake("polling")
    BY <2>4 DEF SendWake
  <2> QED
    BY <1>2, <2>1, <2>2, <2>3, <2>4 DEF Sends
<1>3. CASE PollClock
  BY <1>3 DEF PollClock
<1>4. CASE WaitForLifeSupport \/ Waits
  BY <1>4 DEF WaitForLifeSupport, Waits, WaitSleep, WaitTimeout, WaitReturn
<1>5. CASE TrapLoad \/ Traps
  BY <1>5 DEF TrapLoad, Traps, TrapClear, TrapDispatch, GuestTakesSignals
<1>6. ASSUME NEW preempt \in BOOLEAN, ReturnLoad \/ ReturnStore(preempt)
      PROVE  DriverUntouched
  BY <1>6 DEF ReturnLoad, ReturnStore
<1>7. ASSUME NEW mode \in TrapModes, GuestRaisesMode(mode)
      PROVE  DriverUntouched
  BY <1>7 DEF GuestRaisesMode
<1>8. CASE GuestLowersMode \/ GuestClockSignal
  BY <1>8 DEF GuestLowersMode, GuestClockSignal, Clock
<1>9. ASSUME NEW interval \in Intervals, GuestClockInterval(interval)
      PROVE  DriverUntouched
  BY <1>9 DEF GuestClockInterval
<1>10. ASSUME NEW n \in Timeouts, GuestProgramsTimer(n) PROVE DriverUntouched
  BY <1>10 DEF GuestProgramsTimer
<1> QED
  BY <1>1, <1>2, <1>3, <1>4, <1>5, <1>6, <1>7, <1>8, <1>9, <1>10

\* OwedInv is inductive: the timer is disarmed only with clockLock held since
\* the time-out, after the interrupt was made pending
LEMMA OwedStep ==
  ~ProgramsEarly /\ TypeOK /\ OwedInv /\ [Next]_vars => OwedInv'
<1> SUFFICES ASSUME ~ProgramsEarly, ThreadsOK, SignalsOK, TimersOK, OwedInv,
                    [Next]_vars
             PROVE  OwedInv'
  BY DEF TypeOK
<1> USE DEF OwedInv, SleepsForStored, DriverHolds, OwedIsArmed, Sending
<1>1. CASE DriverUntouched
  BY <1>1 DEF DriverUntouched
<1>2. CASE Sends("driver")
  <2> USE DEF ThreadsOK, SignalsOK, Threads, Senders, Goto, timerVars, sendVars
  <2>1. CASE SendLock("driver")
    BY <2>1 DEF SendLock
  <2>2. CASE SendSet("driver")
    BY <2>2 DEF SendSet
  <2>3. CASE SendTrap("driver") \/ SendStop("driver")
    BY <2>3 DEF SendTrap, SendStop
  <2>4. CASE SendWake("driver")
    BY <2>4 DEF SendWake
  <2> QED
    BY <1>2, <2>1, <2>2, <2>3, <2>4 DEF Sends
<1>3. CASE SetIntervalTimer
  BY <1>3 DEF SetIntervalTimer, ThreadsOK, TimersOK, Threads, Senders, NoOne,
              sendVars
<1>4. CASE Drives
  <2> USE DEF ThreadsOK, SignalsOK, TimersOK, Threads, Senders, Goto, sendVars
  <2>1. CASE DriverStart
    BY <2>1 DEF DriverStart
  <2>2. CASE DriverLock
    BY <2>2 DEF DriverLock
  <2>3. CASE DriverSleep
    BY <2>3 DEF DriverSleep
  <2>4. CASE DriverTimeout
    BY <2>4 DEF DriverTimeout, timerVars
  <2>5. CASE DriverWake
    <3>1. CASE pc["driver"] = "timed out"
      BY <2>5, <3>1 DEF DriverWake
    <3>2. CASE pc["driver"] # "timed out"
      BY <2>5, <3>2 DEF DriverWake
    <3> QED
      BY <3>1, <3>2
  <2>6. CASE DriverDisarm
    BY <2>6 DEF DriverDisarm
  <2> QED
    BY <1>4, <2>1, <2>2, <2>3, <2>4, <2>5, <2>6 DEF Drives
<1>5. CASE DriverSpurious
  BY <1>5 DEF DriverSpurious, ThreadsOK, Threads, Senders, Goto, timerVars,
              sendVars
<1>6. CASE Tick
  BY <1>6 DEF Tick, TimersOK, sendVars
<1> QED
  BY <1>1, <1>2, <1>3, <1>4, <1>5, <1>6, OthersLeaveDriver DEF Next, Senders

\* The timer is armed for the guest's last request, and so is each wait
LEMMA ArmedStep ==
  ThreadsOK /\ TimersOK /\ ArmedForRequest /\ WaitIsForRequest /\ [Next]_vars
    => ArmedForRequest' /\ WaitIsForRequest'
<1> SUFFICES ASSUME ThreadsOK, TimersOK, ArmedForRequest, WaitIsForRequest,
                    [Next]_vars
             PROVE  ArmedForRequest' /\ WaitIsForRequest'
  OBVIOUS
<1> USE DEF ArmedForRequest, WaitIsForRequest
<1>1. CASE TimerUntouched
  BY <1>1 DEF TimerUntouched
<1>2. CASE SetIntervalTimer
  BY <1>2 DEF SetIntervalTimer, ThreadsOK, TimersOK, Threads, Senders
<1>3. CASE Drives
  <2> USE DEF ThreadsOK, Threads, Senders, Goto
  <2>1. CASE DriverSleep
    BY <2>1 DEF DriverSleep, TimersOK
  <2>2. CASE DriverWake
    BY <2>2 DEF DriverWake
  <2>3. CASE DriverStart \/ DriverDisarm
    BY <2>3 DEF DriverStart, DriverDisarm
  <2>4. CASE DriverLock \/ DriverTimeout
    BY <2>4 DEF DriverLock, DriverTimeout, timerVars
  <2> QED
    BY <1>3, <2>1, <2>2, <2>3, <2>4 DEF Drives
<1>4. CASE DriverSpurious
  BY <1>4 DEF DriverSpurious, ThreadsOK, Threads, Senders, Goto, timerVars
<1>5. CASE Tick
  BY <1>5 DEF Tick, TimersOK
<1> QED
  BY <1>1, <1>2, <1>3, <1>4, <1>5, OthersLeaveTimer DEF Next
-----------------------------------------------------------------------------
\* TimerInv holds in every reachable state of the timer and of the interrupts
THEOREM TimerInvariant == Spec => []TimerInv
<1>1. Init => TimerInv
  <2> SUFFICES ASSUME Init PROVE TimerInv
    OBVIOUS
  <2>1. ThreadsOK
    BY DEF Init, ThreadsOK, Threads, Senders, NoOne, SenderLabels,
           DriverLabels, EmulatorLabels
  <2>2. SignalsOK
    <3>1. sending \in [Senders -> GuestSignals \cup {-1}]
      BY DEF Init
    <3>2. trapMode \in TrapMode_Emulator .. TrapMode_FEP
      BY DEF Init, TrapMode_Emulator, TrapMode_FEP
    <3> QED
      BY <3>1, <3>2 DEF Init, SignalsOK
  <2>3. TimersOK
    <3>1. owed \in BOOLEAN
      BY Zenon DEF Init
    <3> QED
      BY <3>1, LimitsAssumption DEF Init, TimersOK
  <2>4. SetsAllocated
    BY DEF Init, SetsAllocated, Threads, Senders
  <2>5. ArmedForRequest /\ WaitIsForRequest
    BY DEF Init, ArmedForRequest, WaitIsForRequest, Threads, Senders
  <2> QED
    BY <2>1, <2>2, <2>3, <2>4, <2>5 DEF TimerInv, TypeOK
<1>2. TimerInv /\ [Next]_vars => TimerInv'
  BY ThreadsStep, SignalsStep, TimersStep, SetsAllocatedStep, ArmedStep DEF TimerInv, TypeOK
<1> QED
  BY <1>1, <1>2, PTL DEF Spec

\* Type correctness.  Its content is that EmbSendSignal makes only allocated
\* signals pending, although a clock may fire before clock_signal is set
THEOREM TypeCorrect == Spec => []TypeOK
  BY TimerInvariant, PTL DEF TimerInv

\* While the guest is owed an interrupt, the interval timer's thread never sleeps
\* without a time-out or with an old one.  The guest must not program the timer
\* before that thread has started: DriverStart would store -1 over the request
THEOREM DriverSleepsForWhatIsOwed ==
  ~ProgramsEarly => (Spec => []SleepsForWhatIsOwed)
<1> SUFFICES ASSUME ~ProgramsEarly PROVE Spec => []SleepsForWhatIsOwed
  OBVIOUS
<1>1. Init => OwedInv
  BY DEF Init, OwedInv, SleepsForStored, DriverHolds, OwedIsArmed, Sending,
         Threads, Senders
<1>2. TimerInv /\ OwedInv /\ [Next]_vars => OwedInv'
  BY OwedStep DEF TimerInv
<1>3. OwedInv => SleepsForWhatIsOwed
  BY DEF OwedInv, SleepsForStored, OwedIsArmed, SleepsForWhatIsOwed
<1> QED
  BY <1>1, <1>2, <1>3, TimerInvariant, PTL DEF Spec

\* Every timed wait of the interval timer's thread is for an outstanding request
\* of the guest and ends no earlier than that is due
THEOREM DriverWaitsForRequest == Spec => []WaitIsForRequest
  BY TimerInvariant, PTL DEF TimerInv
=============================================================================
