------------------------------ MODULE EchoStream ------------------------------
(***************************************************************************)
(* What an echo service promises each of its clients: the bytes that come  *)
(* back are the bytes sent, in order, none lost, doubled or altered.       *)
(***************************************************************************)
EXTENDS Sequences, SequencesExt

CONSTANT Clients

VARIABLES sent, received    \* all the bytes each client has sent and received

Init == /\ sent = [c \in Clients |-> <<>>]
        /\ received = [c \in Clients |-> <<>>]

Send(c, bytes) ==
  /\ IsStrictPrefix(sent[c], bytes)
  /\ sent' = [sent EXCEPT ![c] = bytes]
  /\ UNCHANGED received

Receive(c, bytes) ==
  /\ IsStrictPrefix(received[c], bytes)
  /\ IsPrefix(bytes, sent[c])
  /\ received' = [received EXCEPT ![c] = bytes]
  /\ UNCHANGED sent

(* What a step may send or receive is what it results in. *)
Next == \E c \in Clients : Send(c, sent'[c]) \/ Receive(c, received'[c])

Spec == Init /\ [][Next]_<<sent, received>>
=============================================================================
