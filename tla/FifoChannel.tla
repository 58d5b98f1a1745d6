---------------------------- MODULE FifoChannel ----------------------------
(***************************************************************************)
(* What an EmbQueue promises its two users: a bounded first-in first-out   *)
(* channel.  One party appends elements, the other removes them in the     *)
(* order they were appended; nothing is lost, duplicated or invented, and  *)
(* at most Capacity elements are in the channel at any time.               *)
(***************************************************************************)
EXTENDS Naturals, Sequences

CONSTANTS Elements,   \* the values that may be sent
          NoElement,  \* the value of "taken" before anything was received
          Capacity    \* how many elements the channel can hold

VARIABLES queue,  \* the elements in transit, oldest first
          taken   \* the element received last

channelVars == <<queue, taken>>

Init == /\ queue = <<>>
        /\ taken = NoElement

Send(e) == /\ Len(queue) < Capacity
           /\ queue' = Append(queue, e)
           /\ UNCHANGED taken

Receive == /\ queue # <<>>
           /\ queue' = Tail(queue)
           /\ taken' = Head(queue)

Next == Receive \/ \E e \in Elements : Send(e)

Spec == Init /\ [][Next]_channelVars
=============================================================================
