---------------------------- MODULE ByteStream ----------------------------
(***************************************************************************)
(* What a pipe of xv6/kernel/pipe.c promises: bytes come out in the order  *)
(* they went in, each once, never more than Capacity in flight; nothing    *)
(* enters once the read end is closed and an end that closes stays closed. *)
(***************************************************************************)
EXTENDS Naturals, Sequences

CONSTANTS Byte, Capacity

VARIABLES stream,     \* the bytes in flight, oldest first
          readable,   \* the read end is open
          writable    \* the write end is open

streamVars == <<stream, readable, writable>>

StreamInit ==
  /\ stream = <<>>
  /\ readable = TRUE
  /\ writable = TRUE

Put ==
  /\ readable /\ writable
  /\ Len(stream) < Capacity
  /\ \E b \in Byte : stream' = Append(stream, b)
  /\ UNCHANGED <<readable, writable>>

Get ==
  /\ readable
  /\ stream # <<>>
  /\ stream' = Tail(stream)
  /\ UNCHANGED <<readable, writable>>

CloseEnd ==
  /\ \/ readable /\ readable' = FALSE /\ writable' = writable
     \/ writable /\ writable' = FALSE /\ readable' = readable
  /\ UNCHANGED stream

StreamSpec == StreamInit /\ [][Put \/ Get \/ CloseEnd]_streamVars
===========================================================================
