------------------------------ MODULE EchoClient ------------------------------
(***************************************************************************)
(* 06-boost-library/exercises/asio_client.cpp against the server, which    *)
(* other peers use as well: connect, write a message, read once. Each      *)
(* client is a process of its own, and its run() returns when it has no    *)
(* operation pending. The message is the bytes 1 .. MaxSent.               *)
(***************************************************************************)
EXTENDS EchoServer

CONSTANTS Programs, \* the peers that run asio_client.cpp
          AtOnce    \* how many bytes async_write may send before it returns

ASSUME ProgramsAssumption == Programs \subseteq Clients
ASSUME AtOnceAssumption == AtOnce \subseteq 0 .. MaxSent

VARIABLES pending,  \* the operation a client waits for
          reply     \* what it prints as the reply

clientVars == <<pending, reply>>
server == <<loop, session, buffers>>

Message == [k \in 1 .. MaxSent |-> k]

(* async_connect has been called, and run(). *)
ClientInit ==
  /\ Init
  /\ pending = [c \in Programs |-> "connect"]
  /\ reply = [c \in Programs |-> <<>>]

(* The kernel makes the connection; it waits to be accepted. *)
Established(c) == Connect(c) /\ UNCHANGED clientVars

(* The handler starts to write msg. It returns, and msg is destroyed, with  *)
(* MaxSent - n bytes of it still to be sent.                                *)
ConnectHandler(c, n) ==
  /\ pending[c] = "connect"
  /\ peer[c] = "open"
  /\ pending' = [pending EXCEPT ![c] = "write"]
  /\ n <= SockBuf
  /\ up' = [up EXCEPT ![c] = SubSeq(Message, 1, n)]
  /\ sent' = [sent EXCEPT ![c] = SubSeq(Message, 1, n)]
  /\ UNCHANGED <<server, peer, down, received, reply>>

(* Nobody listens: the handler starts nothing. *)
ConnectFails(c) ==
  /\ pending[c] = "connect"
  /\ peer[c] = "none" /\ ~Listening
  /\ pending' = [pending EXCEPT ![c] = "nothing"]
  /\ UNCHANGED <<vars, reply>>

(* The server's end of the connection is gone. *)
Lost(c) == session[c] = "closed" \/ ~Listening

(* async_write goes on from where msg was. *)
WriteMore(c, byte) ==
  /\ pending[c] = "write"
  /\ Len(sent[c]) < MaxSent
  /\ Len(up[c]) < SockBuf
  /\ byte \in {Message[Len(sent[c]) + 1], Garbage}
  /\ up' = [up EXCEPT ![c] = Append(@, byte)]
  /\ sent' = [sent EXCEPT ![c] = Append(@, byte)]
  /\ UNCHANGED <<server, peer, down, received, clientVars>>

(* All is written: the handler starts to read. *)
ClientWriteHandler(c) ==
  /\ pending[c] = "write"
  /\ Len(sent[c]) = MaxSent
  /\ pending' = [pending EXCEPT ![c] = "read"]
  /\ UNCHANGED <<vars, reply>>

(* Bug variant: a read that fails is started again. *)
ClientFailsRetries(c) ==
  pending[c] \in {"write", "read"} /\ Lost(c) /\ UNCHANGED <<vars, clientVars>>

(* An error: the handlers of write and read start nothing. *)
ClientFails(c) ==
  /\ pending[c] \in {"write", "read"}
  /\ Lost(c)
  /\ pending' = [pending EXCEPT ![c] = "nothing"]
  /\ UNCHANGED <<vars, reply>>

(* What has come is the reply, and nothing more is started. *)
ClientReadHandler(c, n) ==
  /\ pending[c] = "read"
  /\ n <= Len(down[c])
  /\ reply' = [reply EXCEPT ![c] = SubSeq(down[c], 1, n)]
  /\ received' = [received EXCEPT ![c] = @ \o SubSeq(down[c], 1, n)]
  /\ down' = [down EXCEPT ![c] = SubSeq(@, n + 1, Len(@))]
  /\ pending' = [pending EXCEPT ![c] = "nothing"]
  /\ UNCHANGED <<server, peer, up, sent>>

(* run() returns; at the end of main the socket is closed, which resets the *)
(* connection if bytes have not been read.                                  *)
Exit(c) ==
  /\ pending[c] = "nothing"
  /\ pending' = [pending EXCEPT ![c] = "exited"]
  /\ IF peer[c] = "none" THEN UNCHANGED vars ELSE Close(c) \/ (down[c] # <<>> /\ Reset(c))
  /\ UNCHANGED reply

ClientStep(c) ==
  \/ ConnectFails(c) \/ ClientWriteHandler(c) \/ ClientFails(c) \/ Exit(c)
  \/ \E n \in AtOnce : ConnectHandler(c, n)
  \/ \E byte \in Bytes : WriteMore(c, byte)
  \/ \E n \in 1 .. SockBuf : ClientReadHandler(c, n)

ClientNext ==
  \/ \E c \in Programs : Established(c) \/ ClientStep(c)
  \/ \E c \in Clients \ Programs : PeerStep(c) /\ UNCHANGED clientVars
  \/ ServerStep /\ UNCHANGED clientVars
  \/ Terminated /\ UNCHANGED clientVars

allVars == <<vars, clientVars>>

ClientFairness ==
  /\ \A c \in Programs : WF_allVars(Established(c)) /\ WF_allVars(ClientStep(c))
  /\ \A c \in Clients \ Programs : WF_allVars(Receive(c) /\ UNCHANGED clientVars)
  /\ \A c \in Clients : /\ WF_allVars(AcceptHandler(c) /\ UNCHANGED clientVars)
                        /\ WF_allVars(SessionStep(c) /\ UNCHANGED clientVars)
  /\ WF_allVars(Join /\ UNCHANGED clientVars)

ClientSpec == ClientInit /\ [][ClientNext]_allVars /\ ClientFairness

-----------------------------------------------------------------------------
ClientTypeOK ==
  /\ TypeOK
  /\ pending \in [Programs -> {"connect", "write", "read", "nothing", "exited"}]
  /\ reply \in [Programs -> Seq(Bytes)]

(* The reply is the beginning of what was sent, whatever other peers do and *)
(* however the message was cut on its way: no byte of it is lost or altered.*)
ReplyIsPrefix == \A c \in Programs : IsPrefix(reply[c], sent[c])

(* The bytes in flight and those that arrived (asio_server.cpp 38-77,      *)
(* asio_client.cpp 29-65).                                                  *)
Inv == ClientTypeOK /\ StreamExact /\ ReplyIsPrefix

(* Every client ends, whenever the server is stopped, and even if it never  *)
(* is: no handler of either side waits for ever for the other's.            *)
ClientsEnd == \A c \in Programs : <>(pending[c] = "exited")
=============================================================================
