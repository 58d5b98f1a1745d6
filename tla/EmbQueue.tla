------------------------------ MODULE EmbQueue ------------------------------
(***************************************************************************)
(* The shared-memory rings of VLM Life Support (life-support/queues.c).    *)
(*                                                                         *)
(* One thread puts, one thread takes, and there is no lock.  put_index is  *)
(* written by the putter only and take_index by the taker only.  The ring  *)
(* is empty when the two are equal, so one slot always stays free.  The    *)
(* putter fills the free slot, waits while the ring is full, publishes the *)
(* slot by storing put_index, and then looks at take_index once more to    *)
(* decide whether the taker has to be signalled.                           *)
(*                                                                         *)
(* QueueStore is a release store and QueueLoad an acquire load.  That      *)
(* leaves a processor free to let a load overtake an earlier store of its  *)
(* own thread, so each shared word is modelled twice: the value its writer *)
(* last stored (element_array, put_index, take_index) and the value the    *)
(* other thread can see (element_seen, put_seen, take_seen).  The Drain    *)
(* actions make a store visible; release order is their guard.  On a       *)
(* machine whose memory is ordered (weakMemory = FALSE) every store is     *)
(* visible at once.                                                        *)
(*                                                                         *)
(* EmbQueuePut, EmbQueuePutWord and EmbQueuePutByte differ only in the     *)
(* type of the element, and so do the three Take routines.  One end of     *)
(* each ring belongs to the guest, whose code is not in this repository;   *)
(* it is taken to follow the protocol of the host's routines.              *)
(***************************************************************************)
EXTENDS Integers, Sequences

CONSTANTS QueueSize,   \* q->queue_size
          Elements,    \* the (non-zero) elements that are queued
          NoElement,   \* the content of a slot or register never written
          MemoryModels \* the machines considered: the values of weakMemory

ASSUME QueueSizeAssumption == QueueSize \in Nat /\ QueueSize >= 2
ASSUME ElementsAssumption == NoElement \notin Elements
ASSUME MemoryModelsAssumption == MemoryModels \subseteq BOOLEAN

VARIABLES element_array,   \* the slots, as the putter stored them
          element_seen,    \* the slots, as the taker can see them
          put_index,       \* index of the next slot to be filled
          put_seen,        \* put_index as the taker can see it
          take_index,      \* index of the next slot to be taken
          take_seen,       \* take_index as the putter can see it
          original_put,    \* the putter's put_index when it began
          putter,          \* where the putting thread is
          taker,           \* where the taking thread is
          elt,             \* the element the taker has copied out
          taken,           \* the element the last Take returned
          signalled,       \* the queue's signal is pending at the taker
          weakMemory       \* may a load overtake an earlier store?

\* What the putter and the taker change; neither changes the machine's memory
putVars == <<element_array, put_index, original_put, putter, weakMemory>>
takeVars == <<take_index, taker, elt, taken, weakMemory>>
vars == <<element_array, element_seen, put_index, put_seen, take_index,
          take_seen, original_put, putter, taker, elt, taken, signalled,
          weakMemory>>

Slots == 0 .. QueueSize - 1
-----------------------------------------------------------------------------
(* The index arithmetic *)

\* Mutant of Inc: the wrap test is off by one
IncWrapsLate(i) == IF i + 1 > QueueSize THEN 0 ELSE i + 1

\* The index after i: incremented, and wrapped at the end of the ring
Inc(i) == IF i + 1 >= QueueSize THEN 0 ELSE i + 1

\* EmbQueueFilled, for the indices the caller has loaded
EmbQueueFilled(put, take) ==
    IF put >= take THEN put - take ELSE put + QueueSize - take

\* EmbQueueSpace, for the indices the caller has loaded
EmbQueueSpace(put, take) ==
    IF take > put THEN take - put - 1 ELSE take + QueueSize - put - 1

\* The slot k places after slot i, for k < QueueSize
SlotAfter(i, k) == IF i + k >= QueueSize THEN i + k - QueueSize ELSE i + k

\* What a store makes of the other thread's view of the word
SeenAfter(stored, seen) == IF weakMemory THEN seen ELSE stored
-----------------------------------------------------------------------------
\* CreateQueue; no thread is inside a queue routine yet
CreateQueue ==
    /\ element_array = [i \in Slots |-> NoElement]
    /\ element_seen = [i \in Slots |-> NoElement]
    /\ put_index = 0 /\ put_seen = 0
    /\ take_index = 0 /\ take_seen = 0
    /\ original_put = 0
    /\ putter = "idle" /\ taker = "idle"
    /\ elt = NoElement /\ taken = NoElement
    /\ signalled = FALSE

Init == CreateQueue /\ weakMemory \in MemoryModels
-----------------------------------------------------------------------------
(* EmbQueuePut, EmbQueuePutWord, EmbQueuePutByte *)

\* Fill in the element at the put index
PutFill(e) ==
    /\ putter = "idle"
    /\ original_put' = put_index
    /\ element_array' = [element_array EXCEPT ![put_index] = e]
    /\ element_seen' = SeenAfter(element_array', element_seen)
    /\ putter' = "full?"
    /\ UNCHANGED <<put_index, put_seen, take_seen, takeVars, signalled>>

\* Mutant of PutWait: the full ring is not waited for
PutWaitNot ==
    /\ putter = "full?"
    /\ putter' = "store"
    /\ UNCHANGED <<element_array, element_seen, put_index, put_seen, take_seen,
                   original_put, takeVars, signalled>>

\* Mutant of PutWait: waits on an empty ring as well
PutWaitTooLong ==
    /\ putter = "full?"
    /\ Inc(put_index) # take_seen /\ put_index # take_seen
    /\ putter' = "store"
    /\ UNCHANGED <<element_array, element_seen, put_index, put_seen, take_seen,
                   original_put, takeVars, signalled>>

\* Leave the loop that waits while the ring is full
PutWait ==
    /\ putter = "full?"
    /\ Inc(put_index) # take_seen
    /\ putter' = "store"
    /\ UNCHANGED <<element_array, element_seen, put_index, put_seen, take_seen,
                   original_put, takeVars, signalled>>

\* Store the incremented put index into the queue header
PutStore ==
    /\ putter = "store"
    /\ put_index' = Inc(put_index)
    /\ put_seen' = SeenAfter(put_index', put_seen)
    /\ putter' = "signal?"
    /\ UNCHANGED <<element_array, element_seen, original_put, take_seen,
                   takeVars, signalled>>

\* Mutant of PutSignal: compares the incremented index
PutSignalIncremented ==
    /\ putter = "signal?"
    /\ putter' = IF put_index = take_seen THEN "send" ELSE "idle"
    /\ UNCHANGED <<element_array, element_seen, put_index, put_seen,
                   original_put, take_seen, takeVars, signalled>>

\* If the queue had been empty, a signal has to be sent to the taker
PutSignal ==
    /\ putter = "signal?"
    /\ putter' = IF original_put = take_seen THEN "send" ELSE "idle"
    /\ UNCHANGED <<element_array, element_seen, put_index, put_seen,
                   original_put, take_seen, takeVars, signalled>>

\* EmbSendSignal (qp->signal); it goes through a mutex, so that the stores
\* made before it are visible to whoever notices the signal
PutSend ==
    /\ putter = "send"
    /\ put_seen = put_index
    /\ signalled' = TRUE
    /\ putter' = "idle"
    /\ UNCHANGED <<element_array, element_seen, put_index, put_seen,
                   original_put, take_seen, takeVars>>
-----------------------------------------------------------------------------
(* The taking thread: a signal handler that takes until the ring is empty, *)
(* as DiskLife, ConsoleDriver and ExecuteGuestCommands do                  *)

\* The signal is taken and the handler called
TakerSignalled ==
    /\ taker = "idle"
    /\ signalled
    /\ signalled' = FALSE
    /\ taker' = "filled?"
    /\ UNCHANGED <<putVars, element_seen, put_seen, take_index, take_seen,
                   elt, taken>>

\* Mutant of TakerLoop: leaves only when the ring has no free slot either
TakerLoopEager ==
    /\ taker = "filled?"
    /\ taker' = IF EmbQueueSpace(put_seen, take_index) = 0
                  THEN "idle" ELSE "take"
    /\ UNCHANGED <<putVars, element_seen, put_seen, take_index, take_seen,
                   elt, taken, signalled>>

\* while (EmbQueueFilled (commandQueue))
TakerLoop ==
    /\ taker = "filled?"
    /\ taker' = IF EmbQueueFilled(put_seen, take_index) = 0
                  THEN "idle" ELSE "take"
    /\ UNCHANGED <<putVars, element_seen, put_seen, take_index, take_seen,
                   elt, taken, signalled>>

\* EmbQueueTake*: check for an empty ring, copy the element at the take index
TakeCopy ==
    /\ taker = "take"
    /\ IF put_seen = take_index
         THEN taker' = "filled?" /\ UNCHANGED elt
         ELSE taker' = "advance" /\ elt' = element_seen[take_index]
    /\ UNCHANGED <<putVars, element_seen, put_seen, take_index, take_seen,
                   taken, signalled>>

\* EmbQueueTake*: store the incremented take index and return the element
TakeStore ==
    /\ taker = "advance"
    /\ take_index' = Inc(take_index)
    /\ take_seen' = SeenAfter(take_index', take_seen)
    /\ taken' = elt
    /\ taker' = "filled?"
    /\ UNCHANGED <<putVars, element_seen, put_seen, elt, signalled>>
-----------------------------------------------------------------------------
(* The memory system: stores become visible to the other thread *)

\* A store into a slot is not ordered with the stores into other slots
DrainElement(i) ==
    /\ element_seen[i] # element_array[i]
    /\ element_seen' = [element_seen EXCEPT ![i] = element_array[i]]
    /\ UNCHANGED <<putVars, put_seen, take_seen, takeVars, signalled>>

\* Mutant of DrainPut: a plain store in place of the release store
DrainPutUnordered ==
    /\ put_seen # put_index
    /\ put_seen' = Inc(put_seen)
    /\ UNCHANGED <<putVars, element_seen, take_seen, takeVars, signalled>>

\* QueueStore (&qp->put_index): after the element stored before it
DrainPut ==
    /\ put_seen # put_index
    /\ element_seen[put_seen] = element_array[put_seen]
    /\ put_seen' = Inc(put_seen)
    /\ UNCHANGED <<putVars, element_seen, take_seen, takeVars, signalled>>

\* QueueStore (&qp->take_index): after the element was copied out
DrainTake ==
    /\ take_seen # take_index
    /\ take_seen' = Inc(take_seen)
    /\ UNCHANGED <<putVars, element_seen, put_seen, takeVars, signalled>>
-----------------------------------------------------------------------------
Put == PutWait \/ PutStore \/ PutSignal \/ PutSend
Take == TakerSignalled \/ TakerLoop \/ TakeCopy \/ TakeStore
Drain == DrainPut \/ DrainTake \/ \E i \in Slots : DrainElement(i)

Next == \/ \E e \in Elements : PutFill(e)
        \/ PutWait \/ PutStore \/ PutSignal \/ PutSend
        \/ TakerSignalled \/ TakerLoop \/ TakeCopy \/ TakeStore
        \/ \E i \in Slots : DrainElement(i)
        \/ DrainPut \/ DrainTake

Spec == Init /\ [][Next]_vars

\* A thread inside a queue routine keeps running and a store reaches the
\* other thread; nobody has to begin another put
FairSpec == Spec /\ WF_vars(Put) /\ WF_vars(Take) /\ WF_vars(Drain)
-----------------------------------------------------------------------------
(* Properties *)

\* The indices stay inside the ring and the threads at their program points:
\* no wrap of queues.c ever stores queue_size as an index
TypeOK ==
    /\ element_array \in [Slots -> Elements \cup {NoElement}]
    /\ element_seen \in [Slots -> Elements \cup {NoElement}]
    /\ put_index \in Slots /\ put_seen \in Slots
    /\ take_index \in Slots /\ take_seen \in Slots
    /\ original_put \in Slots
    /\ putter \in {"idle", "full?", "store", "signal?", "send"}
    /\ taker \in {"idle", "filled?", "take", "advance"}
    /\ elt \in Elements \cup {NoElement}
    /\ taken \in Elements \cup {NoElement}
    /\ signalled \in BOOLEAN
    /\ weakMemory \in BOOLEAN

\* The elements the taker can see, oldest first
Contents == [k \in 1 .. EmbQueueFilled(put_seen, take_index) |->
                element_seen[SlotAfter(take_index, k - 1)]]

Fifo == INSTANCE FifoChannel WITH queue <- Contents, Capacity <- QueueSize - 1

\* Whatever the memory system delays, the ring is a FIFO channel of
\* queue_size - 1 elements: EmbQueueTake returns each element put exactly
\* once and in order, and never a stale slot (queues.c:11-16)
IsFifoChannel == Fifo!Spec

\* Going round the ring one meets the putter's view of take_index, then
\* take_index, then the taker's view of put_index, then put_index: no index
\* overtakes the one ahead of it, which the fill of the free slot before the
\* wait on a full ring relies on
RingOrder ==
    EmbQueueFilled(put_index, take_seen) =
        EmbQueueFilled(put_index, put_seen)
          + EmbQueueFilled(put_seen, take_index)
          + EmbQueueFilled(take_index, take_seen)

\* A handler that calls EmbQueueTakeWord because EmbQueueFilled was not zero
\* never takes the "empty queue--should not happen" return (queues.c:189)
TakeNeverEmpty == taker = "take" => put_seen # take_index

\* When both threads are at rest and every store has arrived, an element left
\* in the ring has its signal pending (queues.c:89): the taker cannot sleep
\* on a ring that is not empty.  It is what the comment promises on any
\* machine; a load of take_index that overtakes the store of put_index breaks it
NoLostWakeup ==
    /\ putter = "idle" /\ taker = "idle"
    /\ put_seen = put_index /\ take_seen = take_index
    /\ put_index # take_index
    => signalled

\* On a machine with ordered memory no wake-up is lost: the second look at
\* take_index, after the store of put_index, is enough (queues.c:87-92)
OrderedWakes == ~weakMemory => NoLostWakeup

\* With ordered memory the oldest element of the ring is eventually taken,
\* however the steps of EmbQueuePut and of the handler's loop interleave
HeadIsTaken ==
    \A i \in Slots :
        (~weakMemory /\ take_index = i /\ put_index # i) ~> (take_index # i)

\* With ordered memory a put that met a full ring eventually returns
PutReturns == (~weakMemory /\ putter = "full?") ~> putter = "idle"
=============================================================================
