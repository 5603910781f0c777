----------------------------- MODULE EventFifo -----------------------------
(***************************************************************************)
(* What the event pipeline promises its two ends: one FIFO of bounded      *)
(* size.  Whatever it accepts is delivered in the order it was accepted,   *)
(* one message of several samples at a time, as long as the UI is there.   *)
(* Pipeline.tla implements this.                                           *)
(***************************************************************************)
EXTENDS Naturals, Sequences

CONSTANTS
    Item,       \* what can be sent
    Capacity    \* items the pipeline can hold

VARIABLES
    queue,      \* items accepted and not yet delivered
    delivered,  \* number of items the UI has taken
    open        \* the UI is there

Init == queue = <<>> /\ delivered = 0 /\ open = TRUE

Accept ==
    /\ Len(queue) < Capacity
    /\ \E item \in Item : queue' = Append(queue, item)
    /\ UNCHANGED <<delivered, open>>

Deliver ==
    /\ open
    /\ \E n \in 1 .. Len(queue) :
        /\ queue' = SubSeq(queue, n + 1, Len(queue))
        /\ delivered' = delivered + n
    /\ UNCHANGED open

Close == open' = FALSE /\ UNCHANGED delivered

\* Nothing is promised about what is under way when the UI has gone.
Discard == ~open /\ UNCHANGED <<delivered, open>>

Next == Accept \/ Deliver \/ Close \/ Discard

Spec == Init /\ [][Next]_<<queue, delivered, open>>
=============================================================================
