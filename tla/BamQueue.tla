------------------------------ MODULE BamQueue ------------------------------
(***************************************************************************)
(* What a BAM pipe promises its clients (drivers/dma/bam_dma.c): a bounded *)
(* first-in first-out queue of transfer descriptors.  A client hands over  *)
(* the descriptors of one transfer at once; the engine executes them one   *)
(* by one, each exactly once and in order; enabling the pipe empties it.   *)
(* Misuse (more descriptors outstanding than the ring can hold, or a       *)
(* descriptor the driver refuses to write) breaks the promise until the    *)
(* next enable, and from then on nothing is said of the queue.             *)
(***************************************************************************)
EXTENDS Naturals, Sequences

CONSTANTS
  Descriptors,  \* the descriptors a client can hand over
  Capacity      \* how many may be outstanding

VARIABLES
  queue,    \* handed over and not yet executed, oldest first
  exec,     \* the descriptor executed last
  broken    \* the client has misused the pipe

qvars == <<queue, exec, broken>>

QInit ==
  /\ queue = <<>>
  /\ ~broken

\* A transfer: the whole of it joins the tail, or none of it does.
Submit ==
  /\ ~broken /\ ~broken'
  /\ queue' \in Seq(Descriptors)
  /\ Len(queue) < Len(queue') /\ Len(queue') <= Capacity
  /\ SubSeq(queue', 1, Len(queue)) = queue
  /\ UNCHANGED exec

Execute ==
  /\ ~broken /\ ~broken'
  /\ queue # <<>>
  /\ exec' = Head(queue)
  /\ queue' = Tail(queue)

Reset ==
  /\ queue' = <<>>
  /\ ~broken'
  /\ UNCHANGED exec

Misuse == broken'

QNext == Submit \/ Execute \/ Reset \/ Misuse

QSpec == QInit /\ [][QNext]_qvars
=============================================================================
