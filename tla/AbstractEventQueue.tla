------------------------ MODULE AbstractEventQueue ------------------------
(***************************************************************************)
(* What the HAL callback queues of the target library promise: a box that  *)
(* holds at most HAL_CB_QUEUE_MAX events, from which the event loop takes  *)
(* every accepted event exactly once, in the order of acceptance.  An      *)
(* event offered while the box is full is refused and leaves no trace.     *)
(* clients.c, wps.c, radio.c, multi_ap.c and vif.c each hold one such      *)
(* queue; HalEventQueue shows that their common code implements this.      *)
(***************************************************************************)
EXTENDS Naturals, Sequences

CONSTANTS Events, HAL_CB_QUEUE_MAX

VARIABLE box    \* the accepted events that the loop has not taken yet

Init == box = <<>>

\* A HAL thread has its event accepted.
Accept(e) ==
    /\ Len(box) < HAL_CB_QUEUE_MAX
    /\ box' = Append(box, e)

\* The loop takes the oldest event, Head(box), to handle it.
Deliver ==
    /\ box # <<>>
    /\ box' = Tail(box)

Next == Deliver \/ \E e \in Events : Accept(e)

Spec == Init /\ [][Next]_box

\* The loop does not leave an accepted event in the box for ever.
FairSpec == Spec /\ WF_box(Deliver)
=============================================================================
