-------------------------------- MODULE Fifo --------------------------------
(***************************************************************************)
(* What a pipe promises: a bounded queue of bytes.                         *)
(***************************************************************************)
EXTENDS Naturals, Sequences

CONSTANTS Bytes, Size, NoByte

VARIABLES
  queue,  \* the bytes written and not yet read
  last    \* the byte read last, or NoByte

FInit == queue = <<>> /\ last = NoByte

Put == \E b \in Bytes : Len(queue) < Size /\ queue' = Append(queue, b) /\ UNCHANGED last

Get == queue # <<>> /\ last' = Head(queue) /\ queue' = Tail(queue)

\* Both ends are closed and another pipe takes the place of this one.
Renew == queue' = <<>> /\ last' = NoByte

FNext == Put \/ Get \/ Renew

fVars == <<queue, last>>
FSpec == FInit /\ [][FNext]_fVars
=============================================================================
