------------------------------ MODULE EchoServer ------------------------------
(***************************************************************************)
(* 06-boost-library/exercises/asio_server.cpp. Server accepts connections, *)
(* and the Session of each is a chain of completion handlers: read some    *)
(* bytes, write them all back, read again. One thread runs the event loop, *)
(* so that a handler is one step; main stops the loop after a time.        *)
(*                                                                         *)
(* The io_context, the sockets and the peers are external. A session lives *)
(* as long as an operation is pending whose handler holds it (self).       *)
(***************************************************************************)
EXTENDS Naturals, Sequences, SequencesExt

CONSTANTS Clients,
          BufSize,      \* size of read_buf_ (1024)
          SockBuf,      \* bytes that fit into a socket, in each direction
          MaxSent,      \* the bound of the model on the bytes a peer sends
          EarlyReset    \* may a peer reset a connection before it is accepted

ASSUME SizesAssumption == {BufSize, SockBuf, MaxSent} \subseteq Nat \ {0}
ASSUME EarlyResetAssumption == EarlyReset \in BOOLEAN

VARIABLES main,         \* main and the thread of the event loop
          accepting,    \* an async_accept is pending
          session,      \* the operation pending for a session
          read_buf,     \* read_buf_ of each session; 0 is no byte of a peer
          len, written, \* the bytes that async_write is given, and has sent
          peer,         \* the other end of each connection
          up, down,     \* bytes on their way to the server, and back
          sent, received \* all that each peer has sent and received

loop == <<main, accepting>>
buffers == <<read_buf, len, written>>
net == <<peer, up, down>>
vars == <<loop, session, buffers, net, sent, received>>

(* A peer numbers its bytes from 1; Garbage is what it sends by mistake.    *)
Garbage == MaxSent + 1
Bytes == 0 .. Garbage

Running == main = "sleeps"
Listening == main \in {"sleeps", "stopped"}
Alive(c) == session[c] \in {"reading", "writing"}

(* The Server has called do_accept, the loop runs, main sleeps. *)
Init ==
  /\ main = "sleeps"
  /\ accepting = TRUE
  /\ session = [c \in Clients |-> "none"]
  /\ read_buf = [c \in Clients |-> [k \in 1 .. BufSize |-> 0]]
  /\ len = [c \in Clients |-> 0]
  /\ written = [c \in Clients |-> 0]
  /\ peer = [c \in Clients |-> "none"]
  /\ up = [c \in Clients |-> <<>>]
  /\ down = [c \in Clients |-> <<>>]
  /\ sent = [c \in Clients |-> <<>>]
  /\ received = [c \in Clients |-> <<>>]

-----------------------------------------------------------------------------
(* Server::do_accept *)

(* Bug variant: the handler does not call do_accept. *)
AcceptHandlerOnce(c) ==
  /\ Running /\ accepting
  /\ session[c] = "none"
  /\ peer[c] \notin {"none", "reset"}
  /\ session' = [session EXCEPT ![c] = "reading"]
  /\ accepting' = FALSE
  /\ UNCHANGED <<main, buffers, net, sent, received>>

(* A connection: a Session is made and starts to read; then do_accept. *)
AcceptHandler(c) ==
  /\ Running /\ accepting
  /\ session[c] = "none"
  /\ peer[c] \notin {"none", "reset"}
  /\ session' = [session EXCEPT ![c] = "reading"]
  /\ accepting' = TRUE
  /\ UNCHANGED <<main, buffers, net, sent, received>>

(* An error: nothing but do_accept. *)
AcceptFails == Running /\ accepting /\ accepting' = TRUE
               /\ UNCHANGED <<main, session, buffers, net, sent, received>>

Destroyed == [c \in Clients |-> IF Alive(c) THEN "closed" ELSE session[c]]

(* The peer is gone: remote_endpoint() throws in the constructor of Session, *)
(* the exception leaves run() and the thread, and the process is terminated. *)
AcceptThrows(c) ==
  /\ Running /\ accepting
  /\ session[c] = "none"
  /\ peer[c] = "reset"
  /\ main' = "crashed"
  /\ accepting' = FALSE
  /\ session' = Destroyed
  /\ UNCHANGED <<buffers, net, sent, received>>

-----------------------------------------------------------------------------
(* Session::do_read *)

(* Bug variant: the whole buffer is written back, not the bytes read.       *)
ReadHandlerWholeBuffer(c, n) ==
  /\ Running
  /\ session[c] = "reading"
  /\ n <= BufSize /\ n <= Len(up[c])
  /\ read_buf' = [read_buf EXCEPT ![c] =
                    [k \in 1 .. BufSize |-> IF k <= n THEN up[c][k] ELSE @[k]]]
  /\ up' = [up EXCEPT ![c] = SubSeq(@, n + 1, Len(@))]
  /\ len' = [len EXCEPT ![c] = BufSize]
  /\ written' = [written EXCEPT ![c] = 0]
  /\ session' = [session EXCEPT ![c] = "writing"]
  /\ UNCHANGED <<loop, peer, down, sent, received>>

(* n bytes have been read; the handler starts to write them back. *)
ReadHandler(c, n) ==
  /\ Running
  /\ session[c] = "reading"
  /\ n <= BufSize /\ n <= Len(up[c])
  /\ read_buf' = [read_buf EXCEPT ![c] =
                    [k \in 1 .. BufSize |-> IF k <= n THEN up[c][k] ELSE @[k]]]
  /\ up' = [up EXCEPT ![c] = SubSeq(@, n + 1, Len(@))]
  /\ len' = [len EXCEPT ![c] = n]
  /\ written' = [written EXCEPT ![c] = 0]
  /\ session' = [session EXCEPT ![c] = "writing"]
  /\ UNCHANGED <<loop, peer, down, sent, received>>

(* Nothing more comes from the peer: end of file, or a reset. *)
AtEnd(c) == peer[c] = "reset" \/ (peer[c] \in {"fin", "closed"} /\ up[c] = <<>>)

(* Bug variant: after an error the handler reads again. *)
ReadFailsRetries(c) ==
  Running /\ session[c] = "reading" /\ AtEnd(c) /\ UNCHANGED vars

(* An error: the handler starts nothing, and the session goes with it. *)
ReadFails(c) ==
  /\ Running
  /\ session[c] = "reading"
  /\ AtEnd(c)
  /\ session' = [session EXCEPT ![c] = "closed"]
  /\ UNCHANGED <<loop, buffers, net, sent, received>>

-----------------------------------------------------------------------------
(* Session::do_write *)

(* async_write sends the bytes of the buffer as the socket takes them; a peer *)
(* that has closed discards them.                                           *)
WriteSome(c, n) ==
  /\ Running
  /\ session[c] = "writing"
  /\ written[c] + n <= len[c]
  /\ \/ /\ peer[c] \in {"open", "fin"}
        /\ Len(down[c]) + n <= SockBuf
        /\ down' = [down EXCEPT ![c] =
                      @ \o SubSeq(read_buf[c], written[c] + 1, written[c] + n)]
     \/ peer[c] = "closed" /\ UNCHANGED down
  /\ written' = [written EXCEPT ![c] = @ + n]
  /\ UNCHANGED <<loop, session, read_buf, len, peer, up, sent, received>>

(* Bug variant: async_write_some, of which one success is enough. *)
WriteHandlerSome(c) ==
  /\ Running
  /\ session[c] = "writing"
  /\ written[c] > 0
  /\ session' = [session EXCEPT ![c] = "reading"]
  /\ UNCHANGED <<loop, buffers, net, sent, received>>

(* Bug variant: the chain ends here. *)
WriteHandlerStops(c) ==
  /\ Running
  /\ session[c] = "writing"
  /\ written[c] = len[c]
  /\ session' = [session EXCEPT ![c] = "closed"]
  /\ UNCHANGED <<loop, buffers, net, sent, received>>

(* All is written; the handler reads again. *)
WriteHandler(c) ==
  /\ Running
  /\ session[c] = "writing"
  /\ written[c] = len[c]
  /\ session' = [session EXCEPT ![c] = "reading"]
  /\ UNCHANGED <<loop, buffers, net, sent, received>>

(* An error: the session goes with its handler. *)
WriteFails(c) ==
  /\ Running
  /\ session[c] = "writing"
  /\ written[c] < len[c]
  /\ peer[c] \in {"closed", "reset"}
  /\ session' = [session EXCEPT ![c] = "closed"]
  /\ UNCHANGED <<loop, buffers, net, sent, received>>

SessionStep(c) ==
  \/ \E n \in 1 .. SockBuf : ReadHandler(c, n) \/ WriteSome(c, n)
  \/ WriteHandler(c) \/ ReadFails(c) \/ WriteFails(c)

-----------------------------------------------------------------------------
(* main *)

(* ctx.stop(): no handler is run from here on. *)
Stop == Running /\ main' = "stopped"
        /\ UNCHANGED <<accepting, session, buffers, net, sent, received>>

(* run() returns, the thread is joined, and server and ctx are destroyed,  *)
(* with the operations pending and all that their handlers hold.           *)
Join ==
  /\ main = "stopped"
  /\ main' = "end"
  /\ accepting' = FALSE
  /\ session' = Destroyed
  /\ UNCHANGED <<buffers, net, sent, received>>

ServerStep ==
  \/ \E c \in Clients : AcceptHandler(c) \/ AcceptThrows(c) \/ SessionStep(c)
  \/ AcceptFails \/ Stop \/ Join

-----------------------------------------------------------------------------
(* The peers: any program that connects, sends, receives, and ends the      *)
(* connection in one way or another.                                       *)

Connect(c) ==
  /\ Listening
  /\ peer[c] = "none"
  /\ peer' = [peer EXCEPT ![c] = "open"]
  /\ UNCHANGED <<loop, session, buffers, up, down, sent, received>>

Send(c) ==
  /\ peer[c] = "open"
  /\ Len(sent[c]) < MaxSent
  /\ Len(up[c]) < SockBuf
  /\ session[c] # "closed"
  /\ sent' = [sent EXCEPT ![c] = Append(@, Len(@) + 1)]
  /\ up' = [up EXCEPT ![c] = Append(@, Len(sent[c]) + 1)]
  /\ UNCHANGED <<loop, session, buffers, peer, down, received>>

Receive(c) ==
  /\ peer[c] \in {"open", "fin"}
  /\ down[c] # <<>>
  /\ received' = [received EXCEPT ![c] = Append(@, Head(down[c]))]
  /\ down' = [down EXCEPT ![c] = Tail(@)]
  /\ UNCHANGED <<loop, session, buffers, peer, up, sent>>

(* It sends no more, and goes on receiving. *)
Shutdown(c) ==
  /\ peer[c] = "open"
  /\ peer' = [peer EXCEPT ![c] = "fin"]
  /\ UNCHANGED <<loop, session, buffers, up, down, sent, received>>

(* It has received all that has come and closes. *)
Close(c) ==
  /\ peer[c] \in {"open", "fin"}
  /\ down[c] = <<>>
  /\ peer' = [peer EXCEPT ![c] = "closed"]
  /\ UNCHANGED <<loop, session, buffers, up, down, sent, received>>

Reset(c) ==
  /\ peer[c] \in {"open", "fin"}
  /\ EarlyReset \/ session[c] # "none"
  /\ peer' = [peer EXCEPT ![c] = "reset"]
  /\ up' = [up EXCEPT ![c] = <<>>]
  /\ down' = [down EXCEPT ![c] = <<>>]
  /\ UNCHANGED <<loop, session, buffers, sent, received>>

PeerStep(c) == \/ Connect(c) \/ Send(c) \/ Receive(c)
               \/ Shutdown(c) \/ Close(c) \/ Reset(c)

-----------------------------------------------------------------------------
Terminated == main \in {"end", "crashed"} /\ UNCHANGED vars

Next == ServerStep \/ (\E c \in Clients : PeerStep(c)) \/ Terminated

(* The loop runs the handlers of what is complete, of each session, and of  *)
(* connections that wait; peers receive. main may sleep for ever: nothing   *)
(* below depends on when it wakes.                                          *)
Fairness ==
  /\ \A c \in Clients : /\ WF_vars(AcceptHandler(c)) /\ WF_vars(SessionStep(c))
                        /\ WF_vars(Receive(c))
  /\ WF_vars(Join)

Spec == Init /\ [][Next]_vars /\ Fairness

-----------------------------------------------------------------------------
TypeOK ==
  /\ main \in {"sleeps", "stopped", "end", "crashed"}
  /\ accepting \in BOOLEAN
  /\ session \in [Clients -> {"none", "reading", "writing", "closed"}]
  /\ read_buf \in [Clients -> [1 .. BufSize -> Bytes]]
  /\ len \in [Clients -> 0 .. BufSize]
  /\ written \in [Clients -> 0 .. BufSize] /\ \A c \in Clients : written[c] <= len[c]
  /\ peer \in [Clients -> {"none", "open", "fin", "closed", "reset"}]
  /\ up \in [Clients -> Seq(Bytes)] /\ \A c \in Clients : Len(up[c]) <= SockBuf
  /\ down \in [Clients -> Seq(Bytes)] /\ \A c \in Clients : Len(down[c]) <= SockBuf
  /\ sent \in [Clients -> Seq(Bytes)]
  /\ received \in [Clients -> Seq(Bytes)]

(* What a write that is pending has yet to send. *)
Unwritten(c) == IF session[c] = "writing"
                THEN SubSeq(read_buf[c], written[c] + 1, len[c]) ELSE <<>>

(* One buffer serves reads and writes in turn (40-75): received, on the way  *)
(* back, in the buffer, on the way there: together these are the bytes the  *)
(* peer has sent, in order, however reads and writes cut them into pieces.  *)
StreamExact ==
  \A c \in Clients :
    peer[c] \in {"open", "fin"} /\ session[c] # "closed" =>
      received[c] \o down[c] \o Unwritten(c) \o up[c] = sent[c]

(* Also when a session ends early, its peer has received a prefix of what   *)
(* it sent.                                                                 *)
Stream == INSTANCE EchoStream
StreamSpec == Stream!Spec

(* "Accepts several client connections" (line 6): whatever the sessions do  *)
(* and whichever accepts fail, a client that connects gets its session.     *)
EveryClientServed ==
  \A c \in Clients : peer[c] = "open" ~> session[c] # "none" \/ peer[c] = "reset" \/ ~Running

(* All that a peer has sent has come back, sooner or later and whatever it  *)
(* sends then, if peer and server stay.                                     *)
EverythingEchoed ==
  \A c \in Clients :
    []<>(received[c] = sent[c] \/ peer[c] \in {"closed", "reset"} \/ ~Running)

(* No session outlives its connection: when the peer will send no more, it  *)
(* is destroyed, by the handler that finds out starting nothing (51-54,     *)
(* 71-74).                                                                  *)
SessionsEnd ==
  \A c \in Clients :
    session[c] # "none" /\ peer[c] \in {"fin", "closed", "reset"}
      ~> session[c] = "closed" \/ ~Running

=============================================================================
