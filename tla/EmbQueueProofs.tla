--------------------------- MODULE EmbQueueProofs ---------------------------
(***************************************************************************)
(* Proofs about EmbQueue, for every ring size, every set of elements and   *)
(* both memory models.                                                     *)
(*                                                                         *)
(* RingOrder alone is not inductive: the putter's store of put_index       *)
(* preserves it only because the wait for a free slot is still valid when  *)
(* the store happens, and the element the taker copied is the head of the  *)
(* ring only because no store to that slot can be outstanding.  QueueInv   *)
(* adds these facts.                                                       *)
(***************************************************************************)
EXTENDS EmbQueue, SequenceTheorems, TLAPS

\* The put in progress still owns the index it began with
PutInProgress ==
    /\ putter \in {"full?", "store"} => original_put = put_index
    /\ putter = "store" => Inc(put_index) # take_seen

\* Every slot the taker may copy holds what the putter stored there
SlotsPublished ==
    \A i \in Slots :
        EmbQueueFilled(i, take_index) < EmbQueueFilled(put_seen, take_index)
            => element_seen[i] = element_array[i]

\* What the taker knows between its steps
TakeInProgress ==
    /\ taker \in {"take", "advance"} => put_seen # take_index
    /\ taker = "advance" => elt = element_seen[take_index]

\* With ordered memory every store is visible at once
StoresVisible == ~weakMemory => /\ element_seen = element_array
                                /\ put_seen = put_index
                                /\ take_seen = take_index

QueueInv == /\ TypeOK
            /\ StoresVisible
            /\ RingOrder
            /\ PutInProgress
            /\ SlotsPublished
            /\ TakeInProgress
-----------------------------------------------------------------------------
(* Facts about the index arithmetic *)

\* The slots are the natural numbers below queue_size, and 0, where
\* CreateQueue puts both indices, is one of them
LEMMA SlotFacts == /\ QueueSize \in Nat /\ QueueSize >= 2
                   /\ Slots \subseteq Int
                   /\ \A i \in Slots : i >= 0 /\ i < QueueSize
                   /\ \A i \in Int : i >= 0 /\ i < QueueSize => i \in Slots
                   /\ 0 \in Slots
  BY QueueSizeAssumption DEF Slots

\* The wrapped increment of queues.c stays in the ring and always moves
LEMMA IncInSlots == \A i \in Slots : Inc(i) \in Slots /\ Inc(i) # i
  BY SlotFacts DEF Inc

\* EmbQueueFilled and EmbQueueSpace agree: together they account for every
\* slot of the ring but the one that is kept free
THEOREM FilledPlusSpace ==
  \A put, take \in Slots :
      /\ EmbQueueFilled(put, take) \in 0 .. QueueSize - 1
      /\ EmbQueueSpace(put, take) \in 0 .. QueueSize - 1
      /\ EmbQueueFilled(put, take) + EmbQueueSpace(put, take) = QueueSize - 1
      /\ EmbQueueFilled(put, take) = 0 <=> put = take
      /\ EmbQueueSpace(put, take) = 0 <=> Inc(put) = take
  BY SlotFacts DEF EmbQueueFilled, EmbQueueSpace, Inc

\* EmbQueueFilled is a number below queue_size, zero just for equal indices
LEMMA FilledRange ==
  \A put, take \in Slots : /\ EmbQueueFilled(put, take) \in Nat
                           /\ EmbQueueFilled(put, take) < QueueSize
                           /\ EmbQueueFilled(put, take) = 0 <=> put = take
  BY SlotFacts DEF EmbQueueFilled

\* A put adds one element
LEMMA FilledIncPut ==
  \A put, take \in Slots :
      Inc(put) # take => EmbQueueFilled(Inc(put), take)
                           = EmbQueueFilled(put, take) + 1
  BY SlotFacts DEF EmbQueueFilled, Inc

\* A take removes one element
LEMMA FilledIncTake ==
  \A put, take \in Slots :
      put # take => EmbQueueFilled(put, Inc(take))
                      = EmbQueueFilled(put, take) - 1
  BY SlotFacts DEF EmbQueueFilled, Inc

\* The ring holds queue_size - 1 elements just when the put index is one step
\* behind the take index: the test of the wait for a full ring
LEMMA FilledMax ==
  \A put, take \in Slots :
      EmbQueueFilled(put, take) = QueueSize - 1 <=> Inc(put) = take
  BY SlotFacts DEF EmbQueueFilled, Inc
-----------------------------------------------------------------------------
(* The invariant is inductive *)

\* CreateQueue establishes the invariant
LEMMA InitQueueInv == Init => QueueInv
  <1> SUFFICES ASSUME Init PROVE QueueInv
    OBVIOUS
  <1>1. TypeOK
    BY SlotFacts, MemoryModelsAssumption DEF Init, CreateQueue, TypeOK
  <1>2. RingOrder
    BY SlotFacts DEF Init, CreateQueue, RingOrder, EmbQueueFilled
  <1>3. /\ StoresVisible /\ PutInProgress
        /\ SlotsPublished /\ TakeInProgress
    BY DEF Init, CreateQueue, StoresVisible, PutInProgress, SlotsPublished,
           TakeInProgress
  <1> QED
    BY <1>1, <1>2, <1>3 DEF QueueInv

\* Every step of a queue routine or of the memory system keeps the indices
\* slots of the ring
LEMMA StepTypeOK == TypeOK /\ PutInProgress /\ [Next]_vars => TypeOK'
  <1> SUFFICES ASSUME TypeOK, PutInProgress, [Next]_vars PROVE TypeOK'
    OBVIOUS
  <1> USE DEF TypeOK
  <1>1. ASSUME NEW e \in Elements, PutFill(e) PROVE TypeOK'
    BY <1>1 DEF PutFill, SeenAfter, takeVars
  <1>2. CASE PutWait
    BY <1>2 DEF PutWait, takeVars
  <1>3. CASE PutStore
    BY <1>3, IncInSlots DEF PutStore, SeenAfter, takeVars
  <1>4. CASE PutSignal
    BY <1>4 DEF PutSignal, takeVars
  <1>5. CASE PutSend
    BY <1>5 DEF PutSend, takeVars
  <1>6. CASE TakerSignalled
    BY <1>6 DEF TakerSignalled, putVars
  <1>7. CASE TakerLoop
    BY <1>7 DEF TakerLoop, putVars
  <1>8. CASE TakeCopy
    BY <1>8 DEF TakeCopy, putVars
  <1>9. CASE TakeStore
    BY <1>9, IncInSlots DEF TakeStore, SeenAfter, putVars
  <1>10. ASSUME NEW i \in Slots, DrainElement(i) PROVE TypeOK'
    BY <1>10 DEF DrainElement, putVars, takeVars
  <1>11. CASE DrainPut
    BY <1>11, IncInSlots DEF DrainPut, putVars, takeVars
  <1>12. CASE DrainTake
    BY <1>12, IncInSlots DEF DrainTake, putVars, takeVars
  <1>13. CASE UNCHANGED vars
    BY <1>13 DEF vars
  <1> QED
    BY <1>1, <1>2, <1>3, <1>4, <1>5, <1>6, <1>7, <1>8, <1>9, <1>10, <1>11,
       <1>12, <1>13 DEF Next

\* No step lets an index overtake the one ahead of it: PutStore because
\* PutWait left the free slot, TakeStore because TakeCopy saw an element
LEMMA StepRingOrder == QueueInv /\ [Next]_vars => RingOrder'
  <1> SUFFICES ASSUME QueueInv, [Next]_vars PROVE RingOrder'
    OBVIOUS
  <1> USE SlotFacts DEF QueueInv, TypeOK, RingOrder
  <1>1. ASSUME UNCHANGED <<put_index, put_seen, take_index, take_seen>>
        PROVE  RingOrder'
    BY <1>1
  <1>2. CASE PutStore
    <2>1. Inc(put_index) # take_seen
      BY <1>2 DEF PutStore, PutInProgress
    <2> QED
      BY <1>2, <2>1, IncInSlots
      DEF PutStore, SeenAfter, takeVars, EmbQueueFilled, Inc
  <1>3. CASE TakeStore
    <2>1. put_seen # take_index
      BY <1>3 DEF TakeStore, TakeInProgress
    <2> QED
      BY <1>3, <2>1, IncInSlots
      DEF TakeStore, SeenAfter, putVars, EmbQueueFilled, Inc
  <1>4. CASE DrainPut
    BY <1>4 DEF DrainPut, putVars, takeVars, EmbQueueFilled, Inc
  <1>5. CASE DrainTake
    BY <1>5 DEF DrainTake, putVars, takeVars, EmbQueueFilled, Inc
  <1> QED
    BY <1>1, <1>2, <1>3, <1>4, <1>5
    DEF Next, PutFill, PutWait, PutSignal, PutSend, TakerSignalled, TakerLoop,
        TakeCopy, DrainElement, putVars, takeVars, vars

\* A put in progress keeps its original index and its free slot
LEMMA StepPutInProgress == QueueInv /\ [Next]_vars => PutInProgress'
  <1> SUFFICES ASSUME QueueInv, [Next]_vars PROVE PutInProgress'
    OBVIOUS
  <1> USE DEF QueueInv, PutInProgress
  <1>1. CASE TakeStore
    <2>1. put_seen # take_index
      BY <1>1 DEF TakeStore, TakeInProgress
    <2> QED
      BY <1>1, <2>1, SlotFacts
      DEF TakeStore, SeenAfter, putVars, EmbQueueFilled, Inc, RingOrder, TypeOK
  <1>2. CASE DrainTake
    BY <1>2, SlotFacts
    DEF DrainTake, putVars, takeVars, EmbQueueFilled, Inc, RingOrder, TypeOK
  <1>3. CASE PutStore
    BY <1>3 DEF PutStore
  <1>4. CASE UNCHANGED <<putVars, take_seen>>
    BY <1>4 DEF putVars
  <1>5. CASE PutSignal \/ PutSend \/ PutWait \/ \E e \in Elements : PutFill(e)
    BY <1>5 DEF PutSignal, PutSend, PutWait, PutFill
  <1> QED
    BY <1>1, <1>2, <1>3, <1>4, <1>5
    DEF Next, TakerSignalled, TakerLoop, TakeCopy, DrainElement, DrainPut,
        putVars, takeVars, vars

\* A slot the taker may copy holds what the putter stored: release order
LEMMA StepSlotsPublished == QueueInv /\ [Next]_vars => SlotsPublished'
  <1> SUFFICES ASSUME QueueInv, [Next]_vars,
                      NEW i \in Slots,
                      EmbQueueFilled(i, take_index)'
                        < EmbQueueFilled(put_seen, take_index)'
               PROVE  element_seen'[i] = element_array'[i]
    BY DEF SlotsPublished, EmbQueueFilled
  <1> USE SlotFacts DEF QueueInv, TypeOK, EmbQueueFilled
  <1>1. ASSUME NEW e \in Elements, PutFill(e)
        PROVE  element_seen'[i] = element_array'[i]
    \* the slot being filled is not one the taker may copy
    <2>1. i # put_index
      BY <1>1 DEF PutFill, takeVars, RingOrder
    <2> QED
      BY <1>1, <2>1 DEF PutFill, SeenAfter, SlotsPublished, takeVars
  <1>2. CASE PutStore
    <2>1. CASE weakMemory
      BY <1>2, <2>1 DEF PutStore, SeenAfter, SlotsPublished, takeVars
    <2>2. CASE ~weakMemory
      BY <1>2, <2>2 DEF PutStore, StoresVisible
    <2> QED
      BY <2>1, <2>2
  <1>3. CASE TakeStore
    <2>1. put_seen # take_index
      BY <1>3 DEF TakeStore, TakeInProgress
    <2> QED
      BY <1>3, <2>1 DEF TakeStore, SlotsPublished, putVars, Inc
  <1>4. CASE DrainPut
    BY <1>4 DEF DrainPut, SlotsPublished, putVars, takeVars, Inc
  <1>5. ASSUME NEW j \in Slots, DrainElement(j)
        PROVE  element_seen'[i] = element_array'[i]
    BY <1>5 DEF DrainElement, SlotsPublished, putVars, takeVars
  <1>6. CASE UNCHANGED <<element_array, element_seen, put_seen, take_index>>
    BY <1>6 DEF SlotsPublished
  <1> QED
    BY <1>1, <1>2, <1>3, <1>4, <1>5, <1>6
    DEF Next, PutWait, PutSignal, PutSend, TakerSignalled, TakerLoop,
        TakeCopy, DrainTake, putVars, takeVars, vars

\* A take in progress keeps the element it copied: the putter cannot reuse
\* the slot before take_index is stored
LEMMA StepTakeInProgress == QueueInv /\ [Next]_vars => TakeInProgress'
  <1> SUFFICES ASSUME QueueInv, [Next]_vars PROVE TakeInProgress'
    OBVIOUS
  <1> USE SlotFacts DEF QueueInv, TypeOK, TakeInProgress, EmbQueueFilled
  <1>1. ASSUME NEW e \in Elements, PutFill(e) PROVE TakeInProgress'
    <2>1. taker = "advance" => take_index # put_index
      BY <1>1 DEF PutFill, RingOrder
    <2> QED
      BY <1>1, <2>1 DEF PutFill, SeenAfter, takeVars, StoresVisible
  <1>2. CASE PutStore
    <2>1. Inc(put_index) # take_seen
      BY <1>2 DEF PutStore, PutInProgress
    <2> QED
      BY <1>2, <2>1 DEF PutStore, SeenAfter, takeVars, RingOrder, Inc
  <1>3. CASE TakerLoop
    BY <1>3 DEF TakerLoop, putVars
  <1>4. CASE TakeCopy
    BY <1>4 DEF TakeCopy, putVars
  <1>5. CASE TakeStore
    BY <1>5 DEF TakeStore, putVars
  <1>6. CASE TakerSignalled
    BY <1>6 DEF TakerSignalled, putVars
  <1>7. CASE DrainPut
    BY <1>7 DEF DrainPut, RingOrder, putVars, takeVars, Inc
  <1>8. ASSUME NEW j \in Slots, DrainElement(j) PROVE TakeInProgress'
    <2>1. taker = "advance" => element_seen[take_index]
                                 = element_array[take_index]
      BY DEF SlotsPublished
    <2> QED
      BY <1>8, <2>1 DEF DrainElement, putVars, takeVars
  <1>9. CASE UNCHANGED <<takeVars, element_seen, put_seen>>
    BY <1>9 DEF takeVars
  <1> QED
    BY <1>1, <1>2, <1>3, <1>4, <1>5, <1>6, <1>7, <1>8, <1>9
    DEF Next, PutWait, PutSignal, PutSend, DrainTake, putVars, takeVars, vars

\* With ordered memory both threads see what was stored
LEMMA StepStoresVisible == QueueInv /\ [Next]_vars => StoresVisible'
  <1> SUFFICES ASSUME QueueInv, [Next]_vars, ~weakMemory' PROVE StoresVisible'
    BY DEF StoresVisible
  <1> USE DEF QueueInv, StoresVisible
  <1>0. ~weakMemory
    BY DEF Next, PutFill, PutWait, PutStore, PutSignal, PutSend,
           TakerSignalled, TakerLoop, TakeCopy, TakeStore, DrainElement,
           DrainPut, DrainTake, putVars, takeVars, vars
  <1>1. CASE (\E e \in Elements : PutFill(e)) \/ PutStore \/ TakeStore
    BY <1>0, <1>1 DEF PutFill, PutStore, TakeStore, SeenAfter, putVars,
                      takeVars
  <1>2. CASE DrainPut \/ DrainTake \/ \E j \in Slots : DrainElement(j)
    BY <1>0, <1>2 DEF DrainPut, DrainTake, DrainElement
  <1>3. CASE UNCHANGED <<element_array, element_seen, put_index, put_seen,
                         take_index, take_seen>>
    BY <1>0, <1>3
  <1> QED
    BY <1>1, <1>2, <1>3
    DEF Next, PutWait, PutSignal, PutSend, TakerSignalled, TakerLoop,
        TakeCopy, putVars, takeVars, vars

\* The invariant is inductive
LEMMA StepQueueInv == QueueInv /\ [Next]_vars => QueueInv'
  BY StepTypeOK, StepRingOrder, StepPutInProgress, StepSlotsPublished,
     StepTakeInProgress, StepStoresVisible DEF QueueInv

\* Every behaviour of the ring satisfies the inductive invariant, for every
\* ring size and both memory models
THEOREM QueueInvariant == Spec => []QueueInv
  BY InitQueueInv, StepQueueInv, PTL DEF Spec

\* Type correctness of the queue: in particular an index that has been wrapped
\* is always a slot of the ring
THEOREM TypeCorrect == Spec => []TypeOK
  <1>1. QueueInv => TypeOK
    BY DEF QueueInv
  <1> QED
    BY <1>1, QueueInvariant, PTL

\* No index overtakes the one ahead of it, whatever the memory system delays
THEOREM IndicesInOrder == Spec => []RingOrder
  <1>1. QueueInv => RingOrder
    BY DEF QueueInv
  <1> QED
    BY <1>1, QueueInvariant, PTL

\* EmbQueueTakeWord never meets the empty queue that "should not happen"
THEOREM NeverTakesEmpty == Spec => []TakeNeverEmpty
  <1>1. QueueInv => TakeNeverEmpty
    BY DEF QueueInv, TakeInProgress, TakeNeverEmpty
  <1> QED
    BY <1>1, QueueInvariant, PTL
-----------------------------------------------------------------------------
(* Wake-ups.  They are lost only because a load may overtake a store: with *)
(* ordered memory an idle taker facing a ring that is not empty has been   *)
(* signalled, or the putter is about to find that it must signal it.       *)

WakeupInv == ~weakMemory /\ taker = "idle" /\ put_index # take_index
               => \/ signalled
                  \/ putter = "send"
                  \/ putter = "signal?" /\ original_put = take_index

\* With ordered memory, an element in the ring has a putter about to signal,
\* a signal pending, or a taker still in its loop
LEMMA StepWakeupInv == QueueInv /\ WakeupInv /\ [Next]_vars => WakeupInv'
  <1> SUFFICES ASSUME QueueInv, WakeupInv, [Next]_vars, ~weakMemory'
               PROVE  WakeupInv'
    BY DEF WakeupInv
  <1> USE DEF QueueInv, StoresVisible, WakeupInv
  <1>0. ~weakMemory
    BY DEF Next, PutFill, PutWait, PutStore, PutSignal, PutSend,
           TakerSignalled, TakerLoop, TakeCopy, TakeStore, DrainElement,
           DrainPut, DrainTake, putVars, takeVars, vars
  <1>1. CASE (\E e \in Elements : PutFill(e)) \/ PutWait
    BY <1>0, <1>1 DEF PutFill, PutWait, takeVars
  <1>2. CASE PutStore
    BY <1>0, <1>2 DEF PutStore, PutInProgress, takeVars
  <1>3. CASE PutSignal \/ PutSend
    BY <1>0, <1>3 DEF PutSignal, PutSend, takeVars
  <1>4. CASE TakerSignalled \/ TakeCopy \/ TakeStore
    BY <1>0, <1>4 DEF TakerSignalled, TakeCopy, TakeStore
  <1>5. CASE TakerLoop
    BY <1>0, <1>5, FilledRange DEF TakerLoop, putVars, TypeOK
  <1>6. CASE DrainPut \/ DrainTake \/ \E j \in Slots : DrainElement(j)
    BY <1>0, <1>6 DEF DrainPut, DrainTake, DrainElement, putVars, takeVars
  <1>7. CASE UNCHANGED vars
    BY <1>0, <1>7 DEF vars
  <1> QED
    BY <1>0, <1>1, <1>2, <1>3, <1>4, <1>5, <1>6, <1>7 DEF Next

\* With ordered memory, "If the queue had been empty, send a signal to the
\* taker" is enough: no wake-up is lost
THEOREM OrderedMemoryWakes == Spec => []OrderedWakes
  <1>1. Init => WakeupInv
    BY DEF Init, CreateQueue, WakeupInv
  <1>2. WakeupInv => OrderedWakes
    BY DEF WakeupInv, OrderedWakes, NoLostWakeup
  <1> QED
    BY <1>1, <1>2, StepWakeupInv, QueueInvariant, PTL DEF Spec
-----------------------------------------------------------------------------
(* Refinement: the ring implements the abstract FIFO channel.  A put takes *)
(* effect when its put_index becomes visible, a take when it stores        *)
(* take_index.                                                             *)

\* The slots between the two indices, and the one being put, were written
SlotsWritten ==
    /\ \A i \in Slots :
          EmbQueueFilled(i, take_index) < EmbQueueFilled(put_index, take_index)
              => element_array[i] \in Elements
    /\ putter \in {"full?", "store"} => element_array[put_index] \in Elements

\* The slots between the indices have been filled in by a put
LEMMA StepSlotsWritten ==
  QueueInv /\ SlotsWritten /\ [Next]_vars => SlotsWritten'
  <1> SUFFICES ASSUME QueueInv, SlotsWritten, [Next]_vars
               PROVE  SlotsWritten'
    OBVIOUS
  <1> USE SlotFacts DEF QueueInv, TypeOK, SlotsWritten, EmbQueueFilled
  <1>1. CASE \E e \in Elements : PutFill(e)
    BY <1>1 DEF PutFill, takeVars
  <1>2. CASE PutStore
    BY <1>2 DEF PutStore, takeVars, Inc
  <1>3. CASE TakeStore
    <2>1. put_index # take_index
      BY <1>3 DEF TakeStore, TakeInProgress, RingOrder
    <2> QED
      BY <1>3, <2>1 DEF TakeStore, putVars, Inc
  <1>4. CASE PutWait
    BY <1>4 DEF PutWait, takeVars
  <1>5. CASE PutSignal \/ PutSend
    BY <1>5 DEF PutSignal, PutSend, takeVars
  <1>6. CASE UNCHANGED <<putVars, take_index>>
    BY <1>6 DEF putVars
  <1> QED
    BY <1>1, <1>2, <1>3, <1>4, <1>5, <1>6
    DEF Next, TakerSignalled, TakerLoop, TakeCopy, DrainElement, DrainPut,
        DrainTake, putVars, takeVars, vars

\* The slot k - 1 places after the take index is k - 1 elements away from it
LEMMA SlotAfterInSlots ==
  \A put, take \in Slots : \A k \in 1 .. EmbQueueFilled(put, take) :
      /\ SlotAfter(take, k - 1) \in Slots
      /\ EmbQueueFilled(SlotAfter(take, k - 1), take) = k - 1
  BY SlotFacts DEF SlotAfter, EmbQueueFilled

\* What the taker can see is a sequence of elements that were put
LEMMA ContentsIsSeq ==
  ASSUME TypeOK
  PROVE  /\ Contents \in Seq(Elements \cup {NoElement})
         /\ Len(Contents) = EmbQueueFilled(put_seen, take_index)
         /\ DOMAIN Contents = 1 .. EmbQueueFilled(put_seen, take_index)
  <1>1. EmbQueueFilled(put_seen, take_index) \in Nat
    BY FilledRange DEF TypeOK
  <1>2. \A k \in 1 .. EmbQueueFilled(put_seen, take_index) :
            element_seen[SlotAfter(take_index, k - 1)]
                \in Elements \cup {NoElement}
    BY SlotAfterInSlots DEF TypeOK
  <1> QED
    BY <1>1, <1>2 DEF Contents

\* Contents depends only on the slots the taker may copy
LEMMA SameContents ==
  ASSUME TypeOK, put_seen' = put_seen, take_index' = take_index,
         \A i \in Slots :
             EmbQueueFilled(i, take_index) < EmbQueueFilled(put_seen, take_index)
                 => element_seen'[i] = element_seen[i]
  PROVE  Contents' = Contents
  <1>1. EmbQueueFilled(put_seen, take_index)'
          = EmbQueueFilled(put_seen, take_index)
    BY DEF EmbQueueFilled
  <1>2. ASSUME NEW k \in 1 .. EmbQueueFilled(put_seen, take_index)
        PROVE  element_seen'[SlotAfter(take_index, k - 1)']
                 = element_seen[SlotAfter(take_index, k - 1)]
    <2>1. EmbQueueFilled(put_seen, take_index) \in Nat
      BY FilledRange DEF TypeOK
    <2>2. SlotAfter(take_index, k - 1)' = SlotAfter(take_index, k - 1)
      BY DEF SlotAfter
    <2> QED
      BY <2>1, <2>2, SlotAfterInSlots DEF TypeOK
  <1> QED
    BY <1>1, <1>2 DEF Contents

\* A newly visible element is appended
LEMMA VisiblePut ==
  ASSUME QueueInv, SlotsWritten,
         put_seen' = Inc(put_seen), take_index' = take_index, taken' = taken,
         Inc(put_seen) # take_index,
         element_seen' = element_seen,
         element_seen[put_seen] \in Elements
  PROVE  Fifo!Next
  <1> USE DEF QueueInv
  <1> DEFINE n == EmbQueueFilled(put_seen, take_index)
             e == element_seen[put_seen]
  <1>1. n \in Nat /\ n < QueueSize - 1
    BY FilledRange, FilledMax, SlotFacts DEF TypeOK
  <1>2. EmbQueueFilled(put_seen, take_index)' = n + 1
    <2>1. EmbQueueFilled(put_seen, take_index)'
            = EmbQueueFilled(Inc(put_seen), take_index)
      BY DEF EmbQueueFilled
    <2> QED
      BY <2>1, FilledIncPut DEF TypeOK
  <1>3. Contents' = [k \in 1 .. n + 1 |->
                        element_seen[SlotAfter(take_index, k - 1)]]
    BY <1>2 DEF Contents, SlotAfter
  <1>4. SlotAfter(take_index, n) = put_seen
    BY SlotFacts DEF SlotAfter, EmbQueueFilled, TypeOK
  <1>5. Contents' = Append(Contents, e)
    <2>1. Len(Contents) = n /\ Contents \in Seq(Elements \cup {NoElement})
      BY ContentsIsSeq
    <2>2. Append(Contents, e)
            = [k \in 1 .. n + 1 |-> IF k = n + 1 THEN e ELSE Contents[k]]
      BY <1>1, <2>1
    <2>3. ASSUME NEW k \in 1 .. n + 1
          PROVE  element_seen[SlotAfter(take_index, k - 1)]
                   = (IF k = n + 1 THEN e ELSE Contents[k])
      <3>1. CASE k = n + 1
        BY <1>1, <1>4, <3>1
      <3>2. CASE k # n + 1
        BY <1>1, <3>2 DEF Contents
      <3> QED
        BY <3>1, <3>2
    <2> QED
      BY <1>3, <2>2, <2>3
  <1>6. Fifo!Send(e)
    BY <1>1, <1>5, ContentsIsSeq DEF Fifo!Send
  <1> QED
    BY <1>6 DEF Fifo!Next

\* A take removes the head and returns it
LEMMA TakeIsReceive ==
  ASSUME QueueInv, TakeStore
  PROVE  Fifo!Receive
  <1> USE DEF QueueInv
  <1> DEFINE n == EmbQueueFilled(put_seen, take_index)
  <1>1. n \in Nat \ {0} /\ put_seen # take_index /\ taken' = element_seen[take_index]
    BY FilledRange DEF TakeStore, TakeInProgress, TypeOK
  <1>2. EmbQueueFilled(put_seen, take_index)' = n - 1
    <2>1. EmbQueueFilled(put_seen, take_index)'
            = EmbQueueFilled(put_seen, Inc(take_index))
      BY DEF EmbQueueFilled, TakeStore
    <2> QED
      BY <1>1, <2>1, FilledIncTake DEF TypeOK
  <1>3. Contents' = [k \in 1 .. n - 1 |->
                        element_seen[SlotAfter(Inc(take_index), k - 1)]]
    BY <1>2 DEF Contents, SlotAfter, TakeStore
  <1>4. Len(Contents) = n /\ Contents \in Seq(Elements \cup {NoElement})
    BY ContentsIsSeq
  <1>5. Head(Contents) = element_seen[take_index]
    <2>1. SlotAfter(take_index, 0) = take_index
      BY SlotFacts DEF SlotAfter, TypeOK
    <2> QED
      BY <1>1, <1>4, <2>1 DEF Contents
  <1>6. Contents' = Tail(Contents)
    <2>1. /\ Tail(Contents) \in Seq(Elements \cup {NoElement})
          /\ Len(Tail(Contents)) = n - 1
          /\ \A k \in 1 .. n - 1 : Tail(Contents)[k] = Contents[k + 1]
      BY <1>1, <1>4
    <2>2. ASSUME NEW k \in 1 .. n - 1
          PROVE  Contents[k + 1]
                   = element_seen[SlotAfter(Inc(take_index), k - 1)]
      <3>1. SlotAfter(Inc(take_index), k - 1) = SlotAfter(take_index, k)
        BY SlotFacts, <1>1 DEF SlotAfter, Inc, TypeOK, EmbQueueFilled
      <3>2. k + 1 \in 1 .. n /\ (k + 1) - 1 = k
        BY <1>1
      <3> QED
        BY <3>1, <3>2 DEF Contents
    <2>3. \A k \in 1 .. n - 1 : /\ Contents'[k] = Tail(Contents)[k]
                                /\ Contents'[k] \in Elements \cup {NoElement}
      BY <1>1, <1>3, <2>1, <2>2
    <2>4. Contents' \in Seq(Elements \cup {NoElement}) /\ Len(Contents') = n - 1
      BY <1>1, <1>3, <2>3
    <2> QED
      BY <2>1, <2>3, <2>4, SeqEqual
  <1> QED
    BY <1>1, <1>4, <1>5, <1>6 DEF Fifo!Receive

\* Every step of the ring is a step of the abstract channel or leaves the
\* channel unchanged
LEMMA StepRefines ==
  QueueInv /\ SlotsWritten /\ [Next]_vars => [Fifo!Next]_Fifo!channelVars
  <1> SUFFICES ASSUME QueueInv, SlotsWritten, [Next]_vars
               PROVE  [Fifo!Next]_Fifo!channelVars
    OBVIOUS
  <1> USE SlotFacts DEF QueueInv, Fifo!channelVars
  <1>1. CASE \E e \in Elements : PutFill(e)
    <2>1. PICK e \in Elements : PutFill(e)
      BY <1>1
    <2>2. \A i \in Slots :
            EmbQueueFilled(i, take_index) < EmbQueueFilled(put_seen, take_index)
              => element_seen'[i] = element_seen[i]
      <3> SUFFICES ASSUME NEW i \in Slots,
                          EmbQueueFilled(i, take_index)
                            < EmbQueueFilled(put_seen, take_index)
                   PROVE  element_seen'[i] = element_seen[i]
        OBVIOUS
      <3>1. i # put_index
        BY DEF RingOrder, TypeOK, EmbQueueFilled
      <3> QED
        BY <2>1, <3>1 DEF PutFill, SeenAfter, StoresVisible, TypeOK
    <2> QED
      BY <2>1, <2>2, SameContents DEF PutFill, takeVars
  <1>2. CASE PutStore
    <2>1. CASE weakMemory
      BY <1>2, <2>1, SameContents DEF PutStore, SeenAfter, takeVars
    <2>2. CASE ~weakMemory
      <3>1. put_seen' = Inc(put_seen) /\ Inc(put_seen) # take_index
        BY <1>2, <2>2 DEF PutStore, SeenAfter, StoresVisible, PutInProgress
      <3>2. element_seen[put_seen] \in Elements
        BY <1>2, <2>2 DEF PutStore, StoresVisible, SlotsWritten
      <3> QED
        BY <1>2, <3>1, <3>2, VisiblePut DEF PutStore, takeVars
    <2> QED
      BY <2>1, <2>2
  <1>3. CASE DrainPut
    <2>1. Inc(put_seen) # take_index
      BY <1>3 DEF DrainPut, RingOrder, EmbQueueFilled, Inc, TypeOK
    <2>2. EmbQueueFilled(put_seen, take_index)
            < EmbQueueFilled(put_index, take_index)
      BY <1>3 DEF DrainPut, RingOrder, EmbQueueFilled, Inc, TypeOK
    <2>3. element_seen[put_seen] \in Elements
      BY <1>3, <2>2 DEF DrainPut, SlotsWritten, TypeOK
    <2> QED
      BY <1>3, <2>1, <2>3, VisiblePut DEF DrainPut, takeVars
  <1>4. CASE TakeStore
    BY <1>4, TakeIsReceive DEF Fifo!Next
  <1>5. CASE \E j \in Slots : DrainElement(j)
    BY <1>5, SameContents DEF DrainElement, SlotsPublished, takeVars, TypeOK
  <1>6. CASE UNCHANGED <<element_seen, put_seen, take_index, taken>>
    BY <1>6, SameContents
  <1> QED
    BY <1>1, <1>2, <1>3, <1>4, <1>5, <1>6
    DEF Next, PutWait, PutSignal, PutSend, TakerSignalled, TakerLoop,
        TakeCopy, DrainTake, putVars, takeVars, vars

\* The lock-free ring implements the abstract FIFO channel for every ring size
\* and for both memory models: release and acquire are enough for that
THEOREM ImplementsFifoChannel == Spec => IsFifoChannel
  <1>1. Init => Fifo!Init
    <2> SUFFICES ASSUME Init PROVE Fifo!Init
      OBVIOUS
    <2>1. EmbQueueFilled(put_seen, take_index) = 0 /\ taken = NoElement
      BY DEF Init, CreateQueue, EmbQueueFilled
    <2>2. TypeOK
      BY InitQueueInv DEF QueueInv
    <2>3. Contents = <<>>
      BY <2>1, <2>2, ContentsIsSeq
    <2> QED
      BY <2>1, <2>3 DEF Fifo!Init
  <1>2. Init => SlotsWritten
    BY SlotFacts DEF Init, CreateQueue, SlotsWritten, EmbQueueFilled
  <1> QED
    BY <1>1, <1>2, StepRefines, StepSlotsWritten, QueueInvariant, PTL
    DEF Spec, IsFifoChannel, Fifo!Spec
=============================================================================
