----------------------------- MODULE FrameBuffer -----------------------------
(***************************************************************************)
(* What H264FrameQueue is between the encoder and the readers, without     *)
(* threads, sources or a mutex: a buffer of limited capacity that gives    *)
(* the frames out in the order in which they were put in, forgets the      *)
(* oldest when it is full, and may forget all of them at once.             *)
(***************************************************************************)
EXTENDS Integers, Sequences

CONSTANT Capacity

VARIABLES
  buffer,  (* the frames in it, each its number                             *)
  put,     (* frames put in so far                                          *)
  got,     (* the last frame taken out                                      *)
  stopped  (* the program has ended                                         *)

(* The last n elements of q. *)
Latest(q, n) == IF Len(q) <= n THEN q ELSE SubSeq(q, Len(q) - n + 1, Len(q))

BufferInit == buffer = <<>> /\ put = 0 /\ got = 0 /\ stopped = FALSE

Put ==
  /\ ~stopped
  /\ put' = put + 1
  /\ buffer' = Latest(Append(buffer, put + 1), Capacity)
  /\ UNCHANGED <<got, stopped>>

Get ==
  /\ ~stopped
  /\ buffer # <<>>
  /\ got' = Head(buffer)
  /\ buffer' = Tail(buffer)
  /\ UNCHANGED <<put, stopped>>

Clear ==
  /\ ~stopped
  /\ buffer' = <<>>
  /\ UNCHANGED <<put, got, stopped>>

(* A frame may be on its way in when the program ends. *)
Stop ==
  /\ ~stopped
  /\ stopped' = TRUE
  /\ put' \in {put, put + 1}
  /\ UNCHANGED <<buffer, got>>

BufferNext == Put \/ Get \/ Clear \/ Stop

BufferSpec == BufferInit /\ [][BufferNext]_<<buffer, put, got, stopped>>

===============================================================================
