----------------------------- MODULE PacketFifo -----------------------------
(***************************************************************************)
(* What an internal interface promises the two modules it joins: a bounded *)
(* first-in first-out channel of packets numbered 1, 2, 3, ...  The packet *)
(* a reader looks at is always the oldest one not yet given back, and it    *)
(* stays the same packet until it is given back.                            *)
(***************************************************************************)
EXTENDS Integers

CONSTANT Capacity   \* packets the interface holds

VARIABLES
  sent,   \* packets written so far
  rcvd,   \* packets given back by the reader so far
  busy,   \* TRUE while the reader has a packet
  seen,   \* number of the packet the reader looks at, 0 when it has not looked
  ordered \* FALSE for an interface that promises nothing (blocking, delay -1)

fvars == <<sent, rcvd, busy, seen>>

FInit == sent = 0 /\ rcvd = 0 /\ busy = FALSE /\ seen = 0

Write == /\ sent - rcvd < Capacity
         /\ sent' = sent + 1
         /\ UNCHANGED <<rcvd, busy, seen>>

Get == /\ ~busy
       /\ rcvd < sent
       /\ busy' = TRUE
       /\ UNCHANGED <<sent, rcvd, seen>>

Look == /\ busy
        /\ seen' = rcvd + 1
        /\ UNCHANGED <<sent, rcvd, busy>>

GiveBack == /\ busy
            /\ seen = rcvd + 1
            /\ rcvd' = rcvd + 1
            /\ busy' = FALSE
            /\ seen' = 0
            /\ UNCHANGED sent

\* The reader failed and kept the packet in the channel.
Keep == /\ busy
        /\ busy' = FALSE
        /\ seen' = 0
        /\ UNCHANGED <<sent, rcvd>>

\* Everything in the channel is dropped while nobody uses it.
Drop == /\ ~busy
        /\ rcvd' = sent
        /\ UNCHANGED <<sent, busy, seen>>

FNext == ~ordered \/ Write \/ Get \/ Look \/ GiveBack \/ Keep \/ Drop

FSpec == FInit /\ [][FNext]_fvars
=============================================================================
