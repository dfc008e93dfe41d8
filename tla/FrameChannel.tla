---------------------------- MODULE FrameChannel ----------------------------
(***************************************************************************)
(* What one direction of a connection promises: messages arrive whole, once *)
(* and in the order of their sending for as long as the channel is intact. *)
(* While it is not, a message may be lost or replaced by noise; when it is *)
(* mended, all messages still in it arrive.                                *)
(***************************************************************************)
EXTENDS SequencesExt

CONSTANTS Msgs, Garbled

VARIABLES chan,    \* messages sent and not yet arrived
          got,     \* what the receiver has handed on
          intact

vars == <<chan, got, intact>>

Init ==
  /\ chan = <<>>
  /\ got = <<>>
  /\ intact = TRUE

Put(m) ==
  /\ chan' = Append(chan, m)
  /\ UNCHANGED <<got, intact>>

Get ==
  /\ chan # <<>>
  /\ chan' = Tail(chan)
  /\ got' = Append(got, Head(chan))
  /\ UNCHANGED intact

Break ==
  /\ intact
  /\ intact' = FALSE
  /\ UNCHANGED <<chan, got>>

(* A broken channel drops messages, delivers noise, or is mended.          *)
Disturbed ==
  /\ ~intact
  /\ chan' \in Suffixes(chan)
  /\ got' \in {got} \cup {Append(got, x) : x \in Msgs \cup {Garbled}}
  /\ intact' \in BOOLEAN

Next == (\E m \in Msgs : Put(m)) \/ Get \/ Break \/ Disturbed

Spec == Init /\ [][Next]_vars
=============================================================================
