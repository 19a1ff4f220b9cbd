---------------------------- MODULE BoundedQueue ----------------------------
(***************************************************************************)
(* What agentdp_ds::sync::spsc promises its two users: a FIFO queue of at  *)
(* most Capacity values between one sender and one receiver.  A call may   *)
(* fail spuriously with Full or Empty (the caller retries both), but a     *)
(* value is never lost, duplicated or reordered, and Disconnected is final:*)
(* the receiver hears it only after it has taken every value that was sent,*)
(* the sender only after the receiver is gone.                             *)
(***************************************************************************)
EXTENDS Naturals, Sequences

CONSTANTS Values, Capacity

VARIABLES
    queue,      \* values sent and not yet received, oldest first
    senderOpen,
    receiverOpen,
    sent,       \* result of the last try_send
    received    \* result of the last try_recv, or the last value drained

qvars == <<queue, senderOpen, receiverOpen, sent, received>>

NoResult == <<"none">>
Ok == <<"ok">>
Full == <<"full">>
Empty == <<"empty">>
Disconnected == <<"disconnected">>
Item(v) == <<"item", v>>

QInit ==
    /\ queue = <<>>
    /\ senderOpen = TRUE
    /\ receiverOpen = TRUE
    /\ sent = NoResult
    /\ received = NoResult

Send(v) ==
    /\ senderOpen
    /\ Len(queue) < Capacity
    /\ queue' = Append(queue, v)
    /\ sent' = Ok
    /\ UNCHANGED <<senderOpen, receiverOpen, received>>

SendRefused ==
    /\ senderOpen
    /\ \/ sent' = Full
       \/ ~receiverOpen /\ sent' = Disconnected
    /\ UNCHANGED <<queue, senderOpen, receiverOpen, received>>

Receive ==
    /\ receiverOpen
    /\ queue # <<>>
    /\ queue' = Tail(queue)
    /\ received' = Item(Head(queue))
    /\ UNCHANGED <<senderOpen, receiverOpen, sent>>

ReceiveNothing ==
    /\ receiverOpen
    /\ \/ received' = Empty
       \/ ~senderOpen /\ queue = <<>> /\ received' = Disconnected
    /\ UNCHANGED <<queue, senderOpen, receiverOpen, sent>>

CloseSender ==
    /\ senderOpen
    /\ senderOpen' = FALSE
    /\ UNCHANGED <<queue, receiverOpen, sent, received>>

CloseReceiver ==
    /\ receiverOpen
    /\ receiverOpen' = FALSE
    /\ UNCHANGED <<queue, senderOpen, sent, received>>

\* The last owner drops the values nobody received.
Discard ==
    /\ ~senderOpen /\ ~receiverOpen
    /\ queue' = <<>>
    /\ UNCHANGED <<senderOpen, receiverOpen, sent, received>>

QNext ==
    \/ \E v \in Values : Send(v)
    \/ SendRefused
    \/ Receive
    \/ ReceiveNothing
    \/ CloseSender
    \/ CloseReceiver
    \/ Discard

QSpec == QInit /\ [][QNext]_qvars

=============================================================================
