---------------------------- MODULE FrameChannel ----------------------------
(***************************************************************************)
(* What each direction of the Ethernet DMA promises: the frames put into   *)
(* it come out unaltered, in the order they went in, each at most once.    *)
(***************************************************************************)
EXTENDS Naturals, Sequences

CONSTANTS
  Frames,    \* what a frame can hold
  Capacity   \* the frames the channel holds at most

VARIABLES
  queue,     \* the frames inside, oldest first
  out        \* the frame that came out last

cvars == <<queue, out>>

CInit == queue = <<>>

Put(f) ==
  /\ Len(queue) < Capacity
  /\ queue' = Append(queue, f)
  /\ UNCHANGED out

Get ==
  /\ queue # <<>>
  /\ out' = Head(queue)
  /\ queue' = Tail(queue)

CNext == Get \/ \E f \in Frames : Put(f)

CSpec == CInit /\ [][CNext]_cvars
=============================================================================
