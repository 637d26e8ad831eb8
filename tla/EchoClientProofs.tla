---------------------------- MODULE EchoClientProofs ----------------------------
(***************************************************************************)
(* For any number of clients and of other peers, any sizes of the buffer   *)
(* and of the sockets, and any length of what is sent: what comes back     *)
(* from the server is what was sent. A byte that was sent is in exactly    *)
(* one place, and the places are in the order of the bytes.                *)
(***************************************************************************)
EXTENDS EchoClient, SequenceTheorems, TLAPS

Strings == Seq(Bytes)

(* t is s and what follows. *)
Begins(s, t) == \E u \in Strings : t = s \o u

(* Received, on the way back, in the buffer, on the way there: all of it.   *)
AllOf(c) == received[c] \o down[c] \o Unwritten(c) \o up[c]

Exact(c) == peer[c] \in {"open", "fin"} /\ session[c] # "closed" => AllOf(c) = sent[c]

(* When the session is gone the bytes on the way back still arrive; and     *)
(* when the connection is gone, those that arrived have arrived.            *)
Arriving(c) == peer[c] \in {"open", "fin"} => Begins(received[c] \o down[c], sent[c])
Arrived(c) == Begins(received[c], sent[c])

Unconnected(c) ==
  peer[c] = "none" =>
    /\ session[c] = "none"
    /\ up[c] = <<>> /\ down[c] = <<>> /\ sent[c] = <<>> /\ received[c] = <<>>

(* A client reads once: until then it has received nothing. *)
ReadsOnce(c) ==
  c \in Programs =>
    /\ reply[c] = received[c]
    /\ pending[c] \in {"connect", "write", "read"} => received[c] = <<>>
    /\ pending[c] = "connect" => sent[c] = <<>>
    /\ pending[c] \in {"write", "read"} => peer[c] = "open"

Delivery(c) == Exact(c) /\ Arriving(c) /\ Arrived(c) /\ Unconnected(c) /\ ReadsOnce(c)

StreamInv == ClientTypeOK /\ \A c \in Clients : Delivery(c)

-----------------------------------------------------------------------------
(* Sequences *)

(* What follows x taken as one. *)
LEMMA Regroup ==
  ASSUME NEW S, NEW x \in Seq(S), NEW s \in Seq(S), NEW t \in Seq(S)
  PROVE  x \o s \in Seq(S) /\ s \o t \in Seq(S) /\ x \o s \o t = x \o (s \o t)
  BY ConcatAssociative, ConcatProperties

(* The same for the strings of the connections. *)
LEMMA Regrouped == \A x, s, t \in Strings : x \o s \o t = x \o (s \o t)
  BY Regroup DEF Strings

(* A sequence cut in two. *)
LEMMA CutInTwo ==
  ASSUME NEW S, NEW s \in Seq(S), NEW n \in 0 .. Len(s)
  PROVE  /\ SubSeq(s, 1, n) \in Seq(S) /\ SubSeq(s, n + 1, Len(s)) \in Seq(S)
         /\ \A x \in Seq(S) : x \o SubSeq(s, 1, n) \o SubSeq(s, n + 1, Len(s)) = x \o s
         /\ Len(s) = Len(SubSeq(s, 1, n)) + Len(SubSeq(s, n + 1, Len(s)))
<1>1. Len(s) \in Nat
  BY LenProperties
<1>2. \A i \in 1 .. Len(s) : s[i] \in S
  BY ElementOfSeq
<1>3. SubSeq(s, 1, n) \in Seq(S)
  <2>1. 1 \in Int /\ n \in Int /\ \A i \in 1 .. n : i \in 1 .. Len(s)
    BY <1>1
  <2> QED
    BY <1>2, <2>1, SubSeqProperties
<1>4. SubSeq(s, n + 1, Len(s)) \in Seq(S)
  <2>1. n + 1 \in Int /\ Len(s) \in Int /\ \A i \in n + 1 .. Len(s) : i \in 1 .. Len(s)
    BY <1>1
  <2> QED
    BY <1>2, <2>1, SubSeqProperties
<1>5. SubSeq(s, 1, n) \o SubSeq(s, n + 1, Len(s)) = s
  <2>1. 1 \in 1 .. Len(s) + 1 /\ n \in 1 - 1 .. Len(s) /\ Len(s) \in n .. Len(s)
    BY <1>1
  <2>2. SubSeq(s, 1, n) \o SubSeq(s, n + 1, Len(s)) = SubSeq(s, 1, Len(s))
    BY <2>1, ConcatAdjacentSubSeq
  <2> QED
    BY <2>2, SubSeqFull
<1>6. ASSUME NEW x \in Seq(S)
      PROVE  x \o SubSeq(s, 1, n) \o SubSeq(s, n + 1, Len(s)) = x \o s
  <2>1. x \o SubSeq(s, 1, n) \o SubSeq(s, n + 1, Len(s))
          = x \o (SubSeq(s, 1, n) \o SubSeq(s, n + 1, Len(s)))
    <3>1. \A a, b \in Seq(S) : x \o a \o b = x \o (a \o b)
      BY Regroup, SMTT(40)
    <3> QED
      BY <1>3, <1>4, <3>1, Zenon
  <2> QED
    BY <1>5, <2>1
<1>7. Len(s) = Len(SubSeq(s, 1, n)) + Len(SubSeq(s, n + 1, Len(s)))
  BY <1>3, <1>4, <1>5, ConcatProperties
<1> QED
  BY <1>3, <1>4, <1>6, <1>7

(* A part of a buffer cut in two. *)
LEMMA CutOfBuffer ==
  ASSUME NEW s \in Strings, NEW l \in 0 .. Len(s), NEW w \in 0 .. l, NEW n \in 0 .. l - w
  PROVE  /\ SubSeq(s, w + 1, l) \in Strings
         /\ SubSeq(s, w + 1, w + n) \in Strings /\ SubSeq(s, (w + n) + 1, l) \in Strings
         /\ \A x \in Strings : x \o SubSeq(s, w + 1, w + n) \o SubSeq(s, (w + n) + 1, l)
                              = x \o SubSeq(s, w + 1, l)
<1> USE DEF Strings
<1>1. Len(s) \in Nat
  BY LenProperties
<1>2. \A i \in 1 .. Len(s) : s[i] \in Bytes
  BY ElementOfSeq
<1>3. ASSUME NEW j \in 0 .. l, NEW k \in 0 .. l PROVE SubSeq(s, j + 1, k) \in Strings
  <2>1. j + 1 \in Int /\ k \in Int /\ \A i \in j + 1 .. k : i \in 1 .. Len(s)
    BY <1>1
  <2> QED
    BY <1>2, <2>1, SubSeqProperties
<1>4. w + n \in 0 .. l /\ w \in 0 .. l /\ l \in 0 .. l
  BY <1>1
<1>5. SubSeq(s, w + 1, w + n) \o SubSeq(s, (w + n) + 1, l) = SubSeq(s, w + 1, l)
  <2>1. w + 1 \in 1 .. Len(s) + 1 /\ w + n \in (w + 1) - 1 .. Len(s) /\ l \in w + n .. Len(s)
    BY <1>1
  <2> QED
    BY <2>1, ConcatAdjacentSubSeq
<1>6. ASSUME NEW x \in Strings
      PROVE  x \o SubSeq(s, w + 1, w + n) \o SubSeq(s, (w + n) + 1, l) = x \o SubSeq(s, w + 1, l)
  <2>1. x \o SubSeq(s, w + 1, w + n) \o SubSeq(s, (w + n) + 1, l)
          = x \o (SubSeq(s, w + 1, w + n) \o SubSeq(s, (w + n) + 1, l))
    <3>1. \A a, b \in Strings : x \o a \o b = x \o (a \o b)
      BY Regroup, SMTT(40)
    <3> QED
      BY <1>3, <1>4, <3>1, Zenon
  <2> QED
    BY <1>5, <2>1
<1> QED
  BY <1>3, <1>4, <1>6

(* The head moved to the end of what precedes. *)
LEMMA HeadMoves ==
  ASSUME NEW S, NEW r \in Seq(S), NEW d \in Seq(S), d # <<>>
  PROVE  /\ Append(r, Head(d)) \in Seq(S) /\ Tail(d) \in Seq(S)
         /\ Append(r, Head(d)) \o Tail(d) = r \o d
<1>1. Head(d) \in S /\ Tail(d) \in Seq(S) /\ <<Head(d)>> \in Seq(S)
  BY HeadTailProperties
<1>2. d = <<Head(d)>> \o Tail(d)
  <2>1. 1 \in 1 .. Len(d) /\ Len(d) \in 1 .. Len(d) /\ Head(d) = d[1] /\ Tail(d) = SubSeq(d, 2, Len(d))
    BY EmptySeq, TailIsSubSeq
  <2>2. SubSeq(d, 1, Len(d)) = <<d[1]>> \o SubSeq(d, 1 + 1, Len(d))
    BY <2>1, SubSeqRecursiveFirst
  <2>3. SubSeq(d, 1, Len(d)) = d
    BY SubSeqFull
  <2> QED
    BY <2>1, <2>2, <2>3
<1>3. Append(r, Head(d)) = r \o <<Head(d)>> /\ Append(r, Head(d)) \in Seq(S)
  BY <1>1, AppendIsConcat, AppendProperties
<1> QED
  BY <1>1, <1>2, <1>3, ConcatAssociative

(* One more at the end. *)
LEMMA AppendMoves ==
  ASSUME NEW S, NEW x \in Seq(S), NEW u \in Seq(S), NEW e \in S
  PROVE  /\ Append(u, e) \in Seq(S) /\ x \o Append(u, e) = Append(x \o u, e)
<1>1. <<e>> \in Seq(S) /\ x \o u \in Seq(S)
  BY ConcatProperties
<1>2. Append(u, e) = u \o <<e>> /\ Append(x \o u, e) = x \o u \o <<e>> /\ Append(u, e) \in Seq(S)
  BY <1>1, AppendIsConcat, AppendProperties
<1> QED
  BY <1>1, <1>2, ConcatAssociative

-----------------------------------------------------------------------------
(* Beginnings *)

(* Everything begins with nothing, and with itself; what begins with s and  *)
(* x begins with s; and does so also when it gets longer.                   *)
LEMMA BeginsFacts ==
  ASSUME NEW s \in Strings, NEW x \in Strings, NEW t \in Strings
  PROVE  /\ Begins(<<>>, t) /\ Begins(s, s)
         /\ Begins(s, s \o x)
         /\ Begins(s \o x, t) => Begins(s, t)
         /\ \A e \in Bytes : Begins(s, t) => Begins(s, Append(t, e))
<1> USE DEF Strings
<1>1. <<>> \in Strings /\ <<>> \o t = t /\ s \o <<>> = s
  BY ConcatEmptySeq, EmptySeq
<1>2. ASSUME Begins(s \o x, t) PROVE Begins(s, t)
  <2>1. PICK u \in Strings : t = s \o x \o u
    BY <1>2 DEF Begins
  <2>2. t = s \o (x \o u) /\ x \o u \in Strings
    BY <2>1, ConcatAssociative, ConcatProperties, SMTT(40)
  <2> QED
    BY <2>2 DEF Begins
<1>3. ASSUME NEW e \in Bytes, Begins(s, t) PROVE Begins(s, Append(t, e))
  <2>1. PICK u \in Strings : t = s \o u
    BY <1>3 DEF Begins
  <2>2. s \o Append(u, e) = Append(t, e) /\ Append(u, e) \in Strings
    BY <2>1, AppendMoves
  <2> QED
    BY <2>2 DEF Begins
<1> QED
  BY <1>1, <1>2, <1>3 DEF Begins

(* A beginning is a prefix. *)
LEMMA BeginsIsPrefix ==
  ASSUME NEW s \in Strings, NEW t \in Strings, Begins(s, t)
  PROVE  IsPrefix(s, t)
<1> USE DEF Strings
<1>1. PICK u \in Strings : t = s \o u
  BY DEF Begins
<1>2. Len(s) \in Nat /\ Len(u) \in Nat /\ Len(t) = Len(s) + Len(u)
  BY <1>1, LenProperties, ConcatProperties
<1>3. Len(s) <= Len(t)
  BY <1>2
<1>4. SubSeq(s, 1, Len(s)) = SubSeq(t, 1, Len(s))
  <2>1. CASE Len(s) = 0
    BY <2>1, SubSeqEmpty
  <2>2. CASE Len(s) # 0
    <3>1. 1 \in 1 .. Len(s) /\ Len(s) \in 1 .. Len(s)
      BY <1>2, <2>2
    <3> QED
      BY <1>1, <3>1, SubSeqOfConcat1
  <2> QED
    BY <2>1, <2>2
<1> QED
  BY <1>3, <1>4 DEF IsPrefix

-----------------------------------------------------------------------------
(* The state of one connection *)

ServerSide(c) == <<session[c], read_buf[c], len[c], written[c]>>
Bytewise(c) == <<up[c], down[c], sent[c], received[c]>>
ClientSide(c) == c \in Programs => UNCHANGED <<pending[c], reply[c]>>
Same(c) == UNCHANGED <<peer[c], ServerSide(c), Bytewise(c)>> /\ ClientSide(c)

(* What a connection is made of. *)
LEMMA Types ==
  ASSUME ClientTypeOK, NEW c \in Clients
  PROVE  /\ up[c] \in Strings /\ down[c] \in Strings
         /\ sent[c] \in Strings /\ received[c] \in Strings
         /\ read_buf[c] \in Strings /\ Len(read_buf[c]) = BufSize /\ BufSize \in Nat
         /\ len[c] \in 0 .. BufSize /\ written[c] \in 0 .. len[c]
         /\ Unwritten(c) \in Strings
<1>1. /\ up[c] \in Strings /\ down[c] \in Strings
      /\ sent[c] \in Strings /\ received[c] \in Strings
  BY DEF ClientTypeOK, TypeOK, Strings
<1>2. BufSize \in Nat
  BY SizesAssumption
<1>3. read_buf[c] \in [1 .. BufSize -> Bytes]
  BY DEF ClientTypeOK, TypeOK
<1>4. read_buf[c] \in Strings /\ Len(read_buf[c]) = BufSize
  BY <1>2, <1>3 DEF Strings
<1>5. len[c] \in 0 .. BufSize /\ written[c] \in 0 .. len[c]
  <2>1. len[c] \in 0 .. BufSize /\ written[c] \in 0 .. BufSize /\ written[c] <= len[c]
    BY DEF ClientTypeOK, TypeOK
  <2> QED
    BY <1>2, <2>1
<1>6. SubSeq(read_buf[c], written[c] + 1, len[c]) \in Strings
  <2>1. 0 \in 0 .. len[c] - written[c]
    BY <1>2, <1>5
  <2> QED
    BY <1>4, <1>5, <2>1, CutOfBuffer
<1>7. <<>> \in Strings
  BY EmptySeq DEF Strings
<1> QED
  BY <1>1, <1>2, <1>4, <1>5, <1>6, <1>7 DEF Unwritten

(* A step that leaves a connection alone. *)
LEMMA SameDelivery ==
  ASSUME NEW c \in Clients, Delivery(c), Same(c)
  PROVE  Delivery(c)'
<1> USE DEF Delivery, Same, ServerSide, Bytewise, ClientSide
<1>1. AllOf(c)' = AllOf(c)
  BY DEF AllOf, Unwritten
<1>2. Exact(c)'
  BY <1>1 DEF Exact
<1>3. Arriving(c)' /\ Arrived(c)' /\ Unconnected(c)' /\ ReadsOnce(c)'
  BY DEF Arriving, Arrived, Begins, Unconnected, ReadsOnce
<1> QED
  BY <1>2, <1>3

(* A step that leaves the bytes alone: the session is closed, or stays open *)
(* and has as much to write.                                                *)
LEMMA SessionMoves ==
  ASSUME NEW c \in Clients, Delivery(c),
         UNCHANGED <<peer[c], Bytewise(c)>>, ClientSide(c),
         peer[c] = "none" => session'[c] = "none",
         session'[c] # "closed" => session[c] # "closed" /\ Unwritten(c)' = Unwritten(c)
  PROVE  Delivery(c)'
<1> USE DEF Delivery, Bytewise, ClientSide
<1>1. Exact(c)'
  BY DEF Exact, AllOf
<1>2. Arriving(c)' /\ Arrived(c)' /\ Unconnected(c)' /\ ReadsOnce(c)'
  BY DEF Arriving, Arrived, Begins, Unconnected, ReadsOnce
<1> QED
  BY <1>1, <1>2

(* A connection that is made, half closed, closed or reset. *)
LEMMA PeerMoves ==
  ASSUME ClientTypeOK, NEW c \in Clients, Delivery(c),
         UNCHANGED <<ServerSide(c), sent[c], received[c]>>,
         peer'[c] # "none", peer[c] # "reset" /\ peer[c] # "closed",
         \/ UNCHANGED <<up[c], down[c]>>
         \/ peer'[c] = "reset",
         ReadsOnce(c)'
  PROVE  Delivery(c)'
<1> USE DEF Delivery, ServerSide
<1>1. /\ up[c] \in Strings /\ down[c] \in Strings
      /\ sent[c] \in Strings /\ received[c] \in Strings
  BY Types
<1>2. peer[c] \in {"none", "open", "fin"}
  BY DEF ClientTypeOK, TypeOK
<1>3. <<>> \o <<>> = <<>>
  BY EmptySeq, ConcatEmptySeq
<1>4. Exact(c)'
  <2>1. CASE peer[c] = "none"
    <3>1. Unwritten(c) = <<>>
      BY <2>1 DEF Unconnected, Unwritten
    <3>2. AllOf(c) = sent[c]
      BY <1>3, <2>1, <3>1 DEF AllOf, Unconnected
    <3> QED
      BY <3>2 DEF Exact, AllOf, Unwritten
  <2>2. CASE peer[c] # "none"
    BY <1>2, <2>2 DEF Exact, AllOf, Unwritten
  <2> QED
    BY <2>1, <2>2
<1>5. Arriving(c)'
  <2>1. CASE peer[c] = "none"
    <3>1. Begins(received[c] \o down[c], sent[c])
      <4>1. received[c] \o down[c] = <<>>
        BY <1>3, <2>1 DEF Unconnected
      <4>2. Begins(<<>>, sent[c])
        BY <1>1, BeginsFacts
      <4> QED
        BY <4>1, <4>2
    <3> QED
      BY <3>1 DEF Arriving, Begins
  <2>2. CASE peer[c] # "none"
    BY <1>2, <2>2 DEF Arriving, Begins
  <2> QED
    BY <2>1, <2>2
<1>6. Arrived(c)' /\ Unconnected(c)'
  BY DEF Arrived, Begins, Unconnected
<1> QED
  BY <1>4, <1>5, <1>6

(* A byte that is sent goes to the end of what is on its way. *)
LEMMA ByteSent ==
  ASSUME ClientTypeOK, NEW c \in Clients, Delivery(c), NEW e \in Bytes,
         peer[c] # "none",
         UNCHANGED <<peer[c], ServerSide(c), down[c], received[c]>>,
         up'[c] = Append(up[c], e), sent'[c] = Append(sent[c], e),
         ReadsOnce(c)'
  PROVE  Delivery(c)'
<1> USE DEF Delivery, ServerSide
<1>1. /\ up[c] \in Strings /\ down[c] \in Strings
      /\ sent[c] \in Strings /\ received[c] \in Strings
      /\ Unwritten(c) \in Strings
  BY Types
<1>2. /\ received[c] \o down[c] \in Strings
      /\ received[c] \o down[c] \o Unwritten(c) \in Strings
  BY <1>1, Regroup DEF Strings
<1>3. AllOf(c)' = Append(AllOf(c), e)
  <2>1. Unwritten(c)' = Unwritten(c)
    BY DEF Unwritten
  <2>2. received[c] \o down[c] \o Unwritten(c) \o Append(up[c], e)
          = Append(received[c] \o down[c] \o Unwritten(c) \o up[c], e)
    <3>1. \A x, u \in Strings : x \o Append(u, e) = Append(x \o u, e)
      BY AppendMoves, SMTT(40) DEF Strings
    <3> QED
      BY <1>1, <1>2, <3>1
  <2> QED
    BY <2>1, <2>2 DEF AllOf
<1>4. Exact(c)'
  BY <1>3 DEF Exact
<1>5. Arriving(c)' /\ Arrived(c)'
  <2>1. Begins(received[c], Append(sent[c], e))
    BY <1>1, BeginsFacts DEF Arrived
  <2>2. peer[c] \in {"open", "fin"} => Begins(received[c] \o down[c], Append(sent[c], e))
    BY <1>1, <1>2, BeginsFacts DEF Arriving
  <2> QED
    BY <2>1, <2>2 DEF Arriving, Arrived, Begins
<1>6. Unconnected(c)'
  BY DEF Unconnected
<1> QED
  BY <1>4, <1>5, <1>6

(* Bytes that are received are the first of those on the way back.          *)
LEMMA BytesReceived ==
  ASSUME ClientTypeOK, NEW c \in Clients, Delivery(c), peer[c] \in {"open", "fin"},
         UNCHANGED <<peer[c], ServerSide(c), up[c], sent[c]>>,
         received'[c] \in Strings, down'[c] \in Strings,
         received'[c] \o down'[c] = received[c] \o down[c],
         ReadsOnce(c)'
  PROVE  Delivery(c)'
<1> USE DEF Delivery, ServerSide
<1>1. sent[c] \in Strings
  BY Types
<1>2. Exact(c)'
  <2>1. Unwritten(c)' = Unwritten(c)
    BY DEF Unwritten
  <2>2. AllOf(c)' = AllOf(c)
    BY <2>1 DEF AllOf
  <2> QED
    BY <2>2 DEF Exact
<1>3. Begins(received'[c] \o down'[c], sent[c])
  BY DEF Arriving
<1>4. Begins(received'[c], sent[c])
  BY <1>1, <1>3, BeginsFacts, ZenonT(60)
<1>5. Arriving(c)' /\ Arrived(c)' /\ Unconnected(c)'
  BY <1>3, <1>4 DEF Arriving, Arrived, Begins, Unconnected
<1> QED
  BY <1>2, <1>5

(* A step of one connection. *)
LEMMA OneMoves ==
  ASSUME StreamInv, ClientTypeOK', NEW c \in Clients, Delivery(c)',
         \A d \in Clients \ {c} : Same(d)
  PROVE  StreamInv'
  BY SameDelivery DEF StreamInv

-----------------------------------------------------------------------------
(* The server *)

(* Nothing is connected. *)
LEMMA InitStreamInv == ClientInit => StreamInv
<1> SUFFICES ASSUME ClientInit PROVE StreamInv
  OBVIOUS
<1> USE DEF ClientInit, Init
<1>1. BufSize \in Nat /\ SockBuf \in Nat /\ MaxSent \in Nat /\ 0 \in Bytes
  BY SizesAssumption DEF Bytes, Garbage
<1>2. <<>> \in Seq(Bytes) /\ Len(<<>>) = 0 /\ <<>> \o <<>> = <<>>
  BY EmptySeq, ConcatEmptySeq
<1>3. 0 <= SockBuf /\ 0 \in 0 .. BufSize /\ 0 <= 0
  BY <1>1
<1>4. TypeOK
  BY <1>1, <1>2, <1>3 DEF TypeOK
<1>5. ClientTypeOK
  BY <1>2, <1>4 DEF ClientTypeOK
<1>6. ASSUME NEW c \in Clients PROVE Delivery(c)
  <2>1. Unwritten(c) = <<>>
    BY DEF Unwritten
  <2>2. AllOf(c) = sent[c]
    BY <1>2, <2>1 DEF AllOf
  <2>3. Begins(<<>>, <<>>)
    BY <1>2, BeginsFacts DEF Strings
  <2>4. received[c] \o down[c] = <<>> /\ received[c] = <<>> /\ sent[c] = <<>>
    BY <1>2
  <2>5. Arriving(c) /\ Arrived(c)
    BY <2>3, <2>4 DEF Arriving, Arrived
  <2> QED
    BY <2>2, <2>5 DEF Delivery, Exact, Unconnected, ReadsOnce
<1> QED
  BY <1>5, <1>6 DEF StreamInv

(* The handlers that leave the bytes alone, and the end of the server.      *)
LEMMA SessionStepInv ==
  ASSUME StreamInv, UNCHANGED clientVars,
         \/ \E c \in Clients : \/ AcceptHandler(c) \/ AcceptThrows(c)
                               \/ WriteHandler(c) \/ ReadFails(c) \/ WriteFails(c)
         \/ AcceptFails \/ Stop \/ Join
  PROVE  StreamInv'
<1> USE DEF StreamInv
<1>1. /\ UNCHANGED <<read_buf, len, written, peer, up, down, sent, received, pending, reply>>
      /\ main' \in {"sleeps", "stopped", "end", "crashed"} /\ accepting' \in BOOLEAN
  BY DEF AcceptHandler, AcceptThrows, WriteHandler, ReadFails, WriteFails, AcceptFails, Stop,
     Join, buffers, net, loop, clientVars, ClientTypeOK, TypeOK
<1>2. session' \in [Clients -> {"none", "reading", "writing", "closed"}]
  BY DEF AcceptHandler, AcceptThrows, WriteHandler, ReadFails, WriteFails, AcceptFails, Stop,
     Join, Destroyed, ClientTypeOK, TypeOK
<1>3. ClientTypeOK'
  BY <1>1, <1>2 DEF ClientTypeOK, TypeOK
<1>4. ASSUME NEW d \in Clients
      PROVE  /\ peer[d] = "none" => session'[d] = "none"
             /\ session'[d] # "closed" =>
                  session[d] # "closed" /\ Unwritten(d)' = Unwritten(d)
  <2>1. peer[d] = "none" => session[d] = "none"
    BY DEF Delivery, Unconnected
  <2>2. session[d] \in {"none", "reading", "writing", "closed"}
    BY DEF ClientTypeOK, TypeOK
  <2>3. CASE UNCHANGED session
    BY <1>1, <2>1, <2>3 DEF Unwritten
  <2>4. CASE session' = Destroyed
    BY <1>1, <2>1, <2>4 DEF Destroyed, Alive, Unwritten
  <2>5. ASSUME NEW c \in Clients, AcceptHandler(c)
        PROVE  /\ peer[d] = "none" => session'[d] = "none"
               /\ session'[d] # "closed" =>
                    session[d] # "closed" /\ Unwritten(d)' = Unwritten(d)
    <3>1. /\ session[c] = "none" /\ peer[c] # "none"
          /\ session'[d] = IF d = c THEN "reading" ELSE session[d]
      BY <2>5 DEF AcceptHandler, ClientTypeOK, TypeOK
    <3> QED
      BY <1>1, <2>1, <3>1 DEF Unwritten
  <2>6. ASSUME NEW c \in Clients, ReadFails(c) \/ WriteFails(c)
        PROVE  /\ peer[d] = "none" => session'[d] = "none"
               /\ session'[d] # "closed" =>
                    session[d] # "closed" /\ Unwritten(d)' = Unwritten(d)
    <3>1. /\ session[c] \in {"reading", "writing"}
          /\ session'[d] = IF d = c THEN "closed" ELSE session[d]
      BY <2>6 DEF ReadFails, WriteFails, ClientTypeOK, TypeOK
    <3> QED
      BY <1>1, <2>1, <3>1 DEF Unwritten
  <2>7. ASSUME NEW c \in Clients, WriteHandler(c)
        PROVE  /\ peer[d] = "none" => session'[d] = "none"
               /\ session'[d] # "closed" =>
                    session[d] # "closed" /\ Unwritten(d)' = Unwritten(d)
    <3>1. /\ session[c] = "writing" /\ written[c] = len[c]
          /\ session'[d] = IF d = c THEN "reading" ELSE session[d]
      BY <2>7 DEF WriteHandler, ClientTypeOK, TypeOK
    <3>2. SubSeq(read_buf[c], len[c] + 1, len[c]) = <<>>
      <4>1. len[c] \in 0 .. BufSize /\ BufSize \in Nat
        BY Types
      <4>2. len[c] + 1 \in Int /\ len[c] \in Int /\ len[c] < len[c] + 1
        BY <4>1
      <4> QED
        BY <4>2, SubSeqEmpty
    <3>3. Unwritten(c) = <<>>
      BY <3>1, <3>2 DEF Unwritten
    <3> QED
      BY <1>1, <2>1, <3>1, <3>3 DEF Unwritten
  <2> QED
    BY <2>3, <2>4, <2>5, <2>6, <2>7 DEF AcceptThrows, AcceptFails, Stop, Join
<1>5. ASSUME NEW d \in Clients PROVE Delivery(d)'
  BY <1>1, <1>4, SessionMoves DEF Bytewise, ClientSide
<1> QED
  BY <1>3, <1>5

(* n bytes go from the socket to the buffer (46-58). *)
LEMMA ReadHandlerInv ==
  ASSUME StreamInv, UNCHANGED clientVars, NEW c \in Clients, NEW n \in 1 .. SockBuf,
         ReadHandler(c, n)
  PROVE  StreamInv'
<1> USE DEF StreamInv
<1> DEFINE buf == [k \in 1 .. BufSize |-> IF k <= n THEN up[c][k] ELSE read_buf[c][k]]
<1> HIDE DEF buf
<1>1. /\ session[c] = "reading"
      /\ read_buf' = [read_buf EXCEPT ![c] = buf]
      /\ up' = [up EXCEPT ![c] = SubSeq(@, n + 1, Len(@))]
      /\ len' = [len EXCEPT ![c] = n]
      /\ written' = [written EXCEPT ![c] = 0]
      /\ session' = [session EXCEPT ![c] = "writing"]
      /\ UNCHANGED <<main, accepting, peer, down, sent, received, pending, reply>>
  BY DEF ReadHandler, loop, clientVars, buf
<1>2. n <= BufSize /\ n <= Len(up[c])
  BY DEF ReadHandler
<1>3. /\ up[c] \in Strings /\ down[c] \in Strings
      /\ sent[c] \in Strings /\ received[c] \in Strings
      /\ read_buf[c] \in Strings /\ BufSize \in Nat /\ Len(read_buf[c]) = BufSize
  BY Types
<1>4. n \in 1 .. BufSize /\ n \in 1 .. Len(up[c]) /\ Len(up[c]) \in Nat /\ n \in 0 .. Len(up[c])
  BY <1>2, <1>3, SizesAssumption, LenProperties DEF Strings
<1>5. buf \in [1 .. BufSize -> Bytes] /\ \A k \in 1 .. n : buf[k] = up[c][k]
  <2>1. \A k \in 1 .. Len(up[c]) : up[c][k] \in Bytes
    BY <1>3, ElementOfSeq DEF Strings
  <2>2. \A k \in 1 .. BufSize : read_buf[c][k] \in Bytes
    BY <1>3, ElementOfSeq DEF Strings
  <2>3. \A k \in 1 .. BufSize : k <= n => k \in 1 .. Len(up[c])
    BY <1>3, <1>4
  <2>4. \A k \in 1 .. n : k \in 1 .. BufSize /\ k <= n
    BY <1>3, <1>4
  <2> QED
    BY <2>1, <2>2, <2>3, <2>4 DEF buf
<1>6. SubSeq(buf, 1, n) = SubSeq(up[c], 1, n)
  <2>1. buf \in Seq(Bytes)
    BY <1>3, <1>5
  <2>2. \A k \in 1 .. n : buf[k] \in Bytes /\ up[c][k] \in Bytes /\ 1 + k - 1 = k
    BY <1>3, <1>4, <1>5, ElementOfSeq DEF Strings
  <2>3. /\ SubSeq(buf, 1, n) \in Seq(Bytes) /\ SubSeq(up[c], 1, n) \in Seq(Bytes)
        /\ Len(SubSeq(buf, 1, n)) = Len(SubSeq(up[c], 1, n)) /\ Len(SubSeq(buf, 1, n)) = n
        /\ \A k \in 1 .. n : /\ SubSeq(buf, 1, n)[k] = buf[k]
                             /\ SubSeq(up[c], 1, n)[k] = up[c][k]
    <3>1. 1 \in Int /\ n \in Int /\ 1 <= n /\ n - 1 + 1 = n
      BY <1>4
    <3> QED
      BY <2>2, <3>1, SubSeqProperties
  <2> QED
    BY <1>5, <2>3, SeqEqual
<1>7. /\ SubSeq(up[c], 1, n) \in Strings /\ SubSeq(up[c], n + 1, Len(up[c])) \in Strings
      /\ \A x \in Strings : x \o SubSeq(up[c], 1, n) \o SubSeq(up[c], n + 1, Len(up[c])) = x \o up[c]
      /\ Len(up[c]) = Len(SubSeq(up[c], 1, n)) + Len(SubSeq(up[c], n + 1, Len(up[c])))
  BY <1>3, <1>4, CutInTwo DEF Strings
<1>8. /\ up'[c] = SubSeq(up[c], n + 1, Len(up[c])) /\ session'[c] = "writing"
      /\ read_buf'[c] = buf /\ len'[c] = n /\ written'[c] = 0
  BY <1>1 DEF ClientTypeOK, TypeOK
<1>9. ClientTypeOK'
  <2>1. up' \in [Clients -> Seq(Bytes)]
    BY <1>1, <1>7 DEF ClientTypeOK, TypeOK, Strings
  <2>2. \A d \in Clients : Len(up'[d]) <= SockBuf
    <3>1. Len(up[c]) = Len(SubSeq(up[c], 1, n)) + Len(up'[c])
      BY <1>7, <1>8
    <3>2. Len(SubSeq(up[c], 1, n)) \in Nat /\ Len(up'[c]) \in Nat /\ SockBuf \in Nat
      BY <1>7, <1>8, SizesAssumption, LenProperties DEF Strings
    <3>3. \A d \in Clients : Len(up[d]) <= SockBuf
      BY DEF ClientTypeOK, TypeOK
    <3>4. Len(up'[c]) <= SockBuf
      BY <1>4, <3>1, <3>2, <3>3
    <3>5. \A d \in Clients : d # c => up'[d] = up[d]
      BY <1>1 DEF ClientTypeOK, TypeOK
    <3> QED
      BY <3>3, <3>4, <3>5
  <2>3. /\ len' \in [Clients -> 0 .. BufSize] /\ written' \in [Clients -> 0 .. BufSize]
        /\ \A d \in Clients : written'[d] <= len'[d]
    <3>1. /\ len \in [Clients -> 0 .. BufSize] /\ written \in [Clients -> 0 .. BufSize]
          /\ n \in 0 .. BufSize /\ 0 \in 0 .. BufSize /\ 0 <= n
          /\ \A d \in Clients : written[d] <= len[d]
      BY <1>3, <1>4 DEF ClientTypeOK, TypeOK
    <3>2. \A d \in Clients : d # c => written'[d] = written[d] /\ len'[d] = len[d]
      BY <1>1 DEF ClientTypeOK, TypeOK
    <3> QED
      BY <1>1, <1>8, <3>1, <3>2
  <2>4. read_buf' \in [Clients -> [1 .. BufSize -> Bytes]]
    BY <1>1, <1>5 DEF ClientTypeOK, TypeOK
  <2>5. session' \in [Clients -> {"none", "reading", "writing", "closed"}]
    BY <1>1 DEF ClientTypeOK, TypeOK
  <2> QED
    BY <1>1, <2>1, <2>2, <2>3, <2>4, <2>5 DEF ClientTypeOK, TypeOK
<1>10. Exact(c)'
  <2>1. Unwritten(c)' = SubSeq(up[c], 1, n)
    <3>1. 0 + 1 = 1
      OBVIOUS
    <3> QED
      BY <1>6, <1>8, <3>1 DEF Unwritten
  <2>2. AllOf(c)' = received[c] \o down[c] \o SubSeq(up[c], 1, n) \o SubSeq(up[c], n + 1, Len(up[c]))
    BY <1>1, <1>8, <2>1 DEF AllOf
  <2>3. AllOf(c)' = received[c] \o down[c] \o up[c]
    <3>1. received[c] \o down[c] \in Strings
      BY <1>3, Regroup DEF Strings
    <3> QED
      BY <1>7, <2>2, <3>1
  <2>4. AllOf(c) = received[c] \o down[c] \o up[c]
    <3>1. Unwritten(c) = <<>>
      BY <1>1 DEF Unwritten
    <3>2. received[c] \o down[c] \o <<>> = received[c] \o down[c]
      BY <1>3, ConcatProperties, ConcatEmptySeq DEF Strings
    <3> QED
      BY <3>1, <3>2 DEF AllOf
  <2> QED
    BY <1>1, <2>3, <2>4 DEF Delivery, Exact
<1>11. Arriving(c)' /\ Arrived(c)' /\ ReadsOnce(c)'
  BY <1>1 DEF Delivery, Arriving, Arrived, Begins, ReadsOnce
<1>12. Unconnected(c)'
  <2>1. peer[c] # "none"
    BY <1>1 DEF Delivery, Unconnected
  <2> QED
    BY <1>1, <2>1 DEF Unconnected
<1>13. \A d \in Clients \ {c} : Same(d)
  BY <1>1 DEF Same, ServerSide, Bytewise, ClientSide, ClientTypeOK, TypeOK
<1> QED
  BY <1>9, <1>10, <1>11, <1>12, <1>13, OneMoves DEF Delivery

(* n bytes go from the buffer to the socket (64-75). *)
LEMMA WriteSomeInv ==
  ASSUME StreamInv, UNCHANGED clientVars, NEW c \in Clients, NEW n \in 1 .. SockBuf,
         WriteSome(c, n)
  PROVE  StreamInv'
<1> USE DEF StreamInv
<1> DEFINE now == SubSeq(read_buf[c], written[c] + 1, written[c] + n)
<1> DEFINE rest == SubSeq(read_buf[c], (written[c] + n) + 1, len[c])
<1>1. /\ session[c] = "writing"
      /\ \/ peer[c] \in {"open", "fin"} /\ down' = [down EXCEPT ![c] = @ \o now]
         \/ peer[c] = "closed" /\ UNCHANGED down
      /\ written' = [written EXCEPT ![c] = @ + n]
      /\ UNCHANGED <<main, accepting, session, read_buf, len, peer, up, sent, received,
                     pending, reply>>
  BY DEF WriteSome, loop, clientVars
<1>2. written[c] + n <= len[c] /\ (peer[c] \in {"open", "fin"} => Len(down[c]) + n <= SockBuf)
  <2>1. ~(peer[c] \in {"open", "fin"} /\ peer[c] = "closed")
    OBVIOUS
  <2> QED
    BY <2>1 DEF WriteSome
<1>3. /\ up[c] \in Strings /\ down[c] \in Strings /\ received[c] \in Strings
      /\ sent[c] \in Strings
      /\ read_buf[c] \in Strings /\ Len(read_buf[c]) = BufSize /\ BufSize \in Nat
      /\ len[c] \in 0 .. BufSize /\ written[c] \in 0 .. len[c]
  BY Types
<1>4. n \in 0 .. len[c] - written[c] /\ n \in Nat /\ SockBuf \in Nat
  BY <1>2, <1>3, SizesAssumption
<1>5. /\ now \in Strings /\ rest \in Strings
      /\ \A x \in Strings :
           x \o now \o rest = x \o SubSeq(read_buf[c], written[c] + 1, len[c])
  <2>1. len[c] \in 0 .. Len(read_buf[c])
    BY <1>3
  <2> QED
    BY <1>3, <1>4, <2>1, CutOfBuffer, Zenon
<1>6. Len(now) = n
  <2>1. \A k \in written[c] + 1 .. written[c] + n : read_buf[c][k] \in Bytes
    <3>1. \A k \in written[c] + 1 .. written[c] + n : k \in 1 .. Len(read_buf[c])
      BY <1>3, <1>4
    <3> QED
      BY <1>3, <3>1, ElementOfSeq DEF Strings
  <2>2. /\ written[c] + 1 \in Int /\ written[c] + n \in Int /\ written[c] + 1 <= written[c] + n
        /\ (written[c] + n) - (written[c] + 1) + 1 = n
    BY <1>3, <1>4
  <2> QED
    BY <2>1, <2>2, SubSeqProperties
<1>7. Unwritten(c) = SubSeq(read_buf[c], written[c] + 1, len[c])
  BY <1>1 DEF Unwritten
<1>8. written'[c] = written[c] + n
  BY <1>1 DEF ClientTypeOK, TypeOK
<1>9. Unwritten(c)' = rest
  BY <1>1, <1>8 DEF Unwritten
<1> HIDE DEF now, rest
<1>10. peer[c] \in {"open", "fin"} =>
         down'[c] = down[c] \o now /\ Len(down'[c]) <= SockBuf /\ down'[c] \in Strings
  <2>1. SUFFICES ASSUME peer[c] \in {"open", "fin"}
                 PROVE  down'[c] = down[c] \o now /\ Len(down'[c]) <= SockBuf /\ down'[c] \in Strings
    OBVIOUS
  <2>2. down'[c] = down[c] \o now
    BY <1>1, <2>1 DEF ClientTypeOK, TypeOK
  <2>3. Len(down[c] \o now) = Len(down[c]) + n /\ down[c] \o now \in Strings
    BY <1>3, <1>5, <1>6, ConcatProperties DEF Strings
  <2> QED
    BY <1>2, <2>1, <2>2, <2>3
<1>11. \A d \in Clients : d # c => down'[d] = down[d]
  BY <1>1 DEF ClientTypeOK, TypeOK
<1>12. ClientTypeOK'
  <2>1. down' \in [Clients -> Strings]
    <3>1. down \in [Clients -> Strings]
      BY DEF ClientTypeOK, TypeOK, Strings
    <3> QED
      BY <1>1, <1>10, <3>1
  <2>2. \A d \in Clients : Len(down'[d]) <= SockBuf
    <3>1. \A d \in Clients : Len(down[d]) <= SockBuf
      BY DEF ClientTypeOK, TypeOK
    <3> QED
      BY <1>1, <1>10, <1>11, <3>1
  <2>3. /\ written' \in [Clients -> 0 .. BufSize]
        /\ \A d \in Clients : written'[d] <= len[d]
    <3>1. /\ written \in [Clients -> 0 .. BufSize]
          /\ \A d \in Clients : written[d] <= len[d]
      BY DEF ClientTypeOK, TypeOK
    <3>2. written[c] + n \in 0 .. BufSize
      BY <1>2, <1>3, <1>4
    <3>3. \A d \in Clients : d # c => written'[d] = written[d]
      BY <1>1, <3>1
    <3> QED
      BY <1>1, <1>2, <1>8, <3>1, <3>2, <3>3
  <2> QED
    BY <1>1, <2>1, <2>2, <2>3 DEF ClientTypeOK, TypeOK, Strings
<1>13. peer[c] \in {"open", "fin"} =>
         received[c] \o down'[c] \o rest \o up[c] = sent[c]
         /\ Begins(received[c] \o down'[c], sent[c])
  <2>1. SUFFICES ASSUME peer[c] \in {"open", "fin"}
                 PROVE  /\ received[c] \o down'[c] \o rest \o up[c] = sent[c]
                        /\ Begins(received[c] \o down'[c], sent[c])
    OBVIOUS
  <2>2. received[c] \o down[c] \in Strings
    BY <1>3, Regroup DEF Strings
  <2>3. received[c] \o down[c] \o now = received[c] \o down'[c]
    <3>1. received[c] \o down[c] \o now = received[c] \o (down[c] \o now)
      BY <1>3, <1>5, Regrouped, ZenonT(60)
    <3> QED
      BY <1>10, <2>1, <3>1
  <2>4. received[c] \o down[c] \o now \o rest = received[c] \o down[c] \o Unwritten(c)
    BY <1>5, <1>7, <2>2
  <2>5. AllOf(c) = sent[c]
    BY <1>1, <2>1 DEF Delivery, Exact
  <2>6. received[c] \o down'[c] \o rest \o up[c] = sent[c]
    BY <2>3, <2>4, <2>5 DEF AllOf
  <2>7. received[c] \o down'[c] \in Strings
    BY <1>3, <1>10, <2>1, Regroup DEF Strings
  <2>8. rest \o up[c] \in Strings
    BY <1>3, <1>5, Regroup DEF Strings
  <2>9. received[c] \o down'[c] \o rest \o up[c] = received[c] \o down'[c] \o (rest \o up[c])
    BY <1>3, <1>5, <2>7, Regrouped, Zenon
  <2> QED
    BY <2>6, <2>8, <2>9 DEF Begins
<1>14. Exact(c)' /\ Arriving(c)'
  BY <1>1, <1>9, <1>13 DEF Exact, AllOf, Arriving, Begins
<1>15. Arrived(c)' /\ ReadsOnce(c)'
  BY <1>1 DEF Delivery, Arrived, Begins, ReadsOnce
<1>16. Unconnected(c)'
  <2>1. peer[c] # "none"
    BY <1>1
  <2> QED
    BY <1>1, <2>1 DEF Unconnected
<1>17. \A d \in Clients \ {c} : Same(d)
  BY <1>1, <1>11 DEF Same, ServerSide, Bytewise, ClientSide, ClientTypeOK, TypeOK
<1> QED
  BY <1>12, <1>14, <1>15, <1>16, <1>17, OneMoves DEF Delivery

-----------------------------------------------------------------------------
(* The peers, and the clients among them *)

(* A client goes on from one operation to the next; another peer has none.  *)
Turns(c) ==
  /\ pending' \in [Programs -> {"connect", "write", "read", "nothing", "exited"}]
  /\ \A d \in Programs : d # c => pending'[d] = pending[d]

(* A connection is made, half closed, closed or reset. *)
LEMMA PeerMovesInv ==
  ASSUME StreamInv, NEW c \in Clients, Connect(c) \/ Shutdown(c) \/ Close(c) \/ Reset(c),
         Turns(c), reply' = reply, ReadsOnce(c)'
  PROVE  StreamInv'
<1> USE DEF StreamInv
<1>1. /\ peer[c] \notin {"closed", "reset"}
      /\ peer' = [peer EXCEPT ![c] = peer'[c]] /\ peer'[c] \in {"open", "fin", "closed", "reset"}
      /\ UNCHANGED <<loop, session, buffers, sent, received>>
      /\ \/ UNCHANGED <<up, down>>
         \/ peer'[c] = "reset" /\ up' = [up EXCEPT ![c] = <<>>] /\ down' = [down EXCEPT ![c] = <<>>]
  BY DEF Connect, Shutdown, Close, Reset, ClientTypeOK, TypeOK
<1>2. <<>> \in Seq(Bytes) /\ Len(<<>>) = 0 /\ 0 <= SockBuf
  BY SizesAssumption, EmptySeq
<1>3. /\ up' \in [Clients -> Seq(Bytes)] /\ \A d \in Clients : up'[d] = up[d] \/ up'[d] = <<>>
      /\ down' \in [Clients -> Seq(Bytes)] /\ \A d \in Clients : down'[d] = down[d] \/ down'[d] = <<>>
  <2>1. up \in [Clients -> Seq(Bytes)] /\ down \in [Clients -> Seq(Bytes)]
    BY DEF ClientTypeOK, TypeOK
  <2>2. CASE UNCHANGED <<up, down>>
    BY <2>1, <2>2
  <2>3. CASE up' = [up EXCEPT ![c] = <<>>] /\ down' = [down EXCEPT ![c] = <<>>]
    BY <1>2, <2>1, <2>3
  <2> QED
    BY <1>1, <2>2, <2>3
<1>4. \A d \in Clients : Len(up'[d]) <= SockBuf /\ Len(down'[d]) <= SockBuf
  BY <1>2, <1>3 DEF ClientTypeOK, TypeOK
<1>5. ClientTypeOK'
  <2>1. peer' \in [Clients -> {"none", "open", "fin", "closed", "reset"}]
    BY <1>1 DEF ClientTypeOK, TypeOK
  <2>2. UNCHANGED <<main, accepting, session, read_buf, len, written, sent, received>>
    BY <1>1 DEF loop, buffers
  <2> QED
    BY <1>3, <1>4, <2>1, <2>2 DEF ClientTypeOK, TypeOK, Turns
<1>6. Delivery(c)'
  <2>1. UNCHANGED ServerSide(c)
    BY <1>1 DEF ServerSide, buffers
  <2> QED
    BY <1>1, <2>1, PeerMoves
<1>7. \A d \in Clients \ {c} : Same(d)
  BY <1>1 DEF Same, ServerSide, Bytewise, ClientSide, Turns, buffers, ClientTypeOK, TypeOK
<1> QED
  BY <1>5, <1>6, <1>7, OneMoves

(* A byte is sent. *)
LEMMA ByteSentInv ==
  ASSUME StreamInv, NEW c \in Clients, NEW e \in Bytes, peer[c] # "none", Len(up[c]) < SockBuf,
         up' = [up EXCEPT ![c] = Append(@, e)], sent' = [sent EXCEPT ![c] = Append(@, e)],
         UNCHANGED <<server, peer, down, received, clientVars>>, ReadsOnce(c)'
  PROVE  StreamInv'
<1> USE DEF StreamInv
<1>1. UNCHANGED <<main, accepting, session, read_buf, len, written, peer, down, received,
                  pending, reply>>
  BY DEF server, loop, buffers, clientVars
<1>2. up[c] \in Seq(Bytes) /\ sent[c] \in Seq(Bytes)
  BY DEF ClientTypeOK, TypeOK
<1>3. /\ Append(up[c], e) \in Seq(Bytes) /\ Append(sent[c], e) \in Seq(Bytes)
      /\ Len(Append(up[c], e)) = Len(up[c]) + 1 /\ Len(up[c]) \in Nat
  BY <1>2, AppendProperties, LenProperties
<1>4. /\ up' \in [Clients -> Seq(Bytes)] /\ sent' \in [Clients -> Seq(Bytes)]
      /\ up'[c] = Append(up[c], e) /\ sent'[c] = Append(sent[c], e)
      /\ \A d \in Clients : d # c => up'[d] = up[d] /\ sent'[d] = sent[d]
  BY <1>3 DEF ClientTypeOK, TypeOK
<1>5. \A d \in Clients : Len(up'[d]) <= SockBuf
  <2>1. Len(up[c]) + 1 <= SockBuf
    BY <1>3, SizesAssumption
  <2>2. \A d \in Clients : Len(up[d]) <= SockBuf
    BY DEF ClientTypeOK, TypeOK
  <2> QED
    BY <1>3, <1>4, <2>1, <2>2
<1>6. ClientTypeOK'
  BY <1>1, <1>4, <1>5 DEF ClientTypeOK, TypeOK
<1>7. Delivery(c)'
  BY <1>1, <1>4, ByteSent DEF ServerSide
<1>8. \A d \in Clients \ {c} : Same(d)
  BY <1>1, <1>4 DEF Same, ServerSide, Bytewise, ClientSide
<1> QED
  BY <1>6, <1>7, <1>8, OneMoves

(* Bytes are received. *)
LEMMA BytesReceivedInv ==
  ASSUME StreamInv, NEW c \in Clients, peer[c] \in {"open", "fin"},
         NEW r \in Strings, NEW d \in Strings, r \o d = received[c] \o down[c],
         Len(d) <= Len(down[c]),
         received' = [received EXCEPT ![c] = r], down' = [down EXCEPT ![c] = d],
         UNCHANGED <<server, peer, up, sent>>, Turns(c),
         reply' \in [Programs -> Seq(Bytes)],
         \A b \in Programs : b # c => reply'[b] = reply[b],
         ReadsOnce(c)'
  PROVE  StreamInv'
<1> USE DEF StreamInv
<1>1. UNCHANGED <<main, accepting, session, read_buf, len, written, peer, up, sent>>
  BY DEF server, loop, buffers
<1>2. /\ received' \in [Clients -> Seq(Bytes)] /\ down' \in [Clients -> Seq(Bytes)]
      /\ received'[c] = r /\ down'[c] = d
      /\ \A b \in Clients : b # c => received'[b] = received[b] /\ down'[b] = down[b]
  BY DEF ClientTypeOK, TypeOK, Strings
<1>3. \A b \in Clients : Len(down'[b]) <= SockBuf
  <2>1. \A b \in Clients : Len(down[b]) <= SockBuf
    BY DEF ClientTypeOK, TypeOK
  <2>2. Len(d) \in Nat /\ Len(down[c]) \in Nat /\ SockBuf \in Nat
    BY SizesAssumption, LenProperties, Types DEF Strings
  <2>3. Len(d) <= SockBuf
    BY <2>1, <2>2
  <2> QED
    BY <1>2, <2>1, <2>3
<1>4. ClientTypeOK'
  BY <1>1, <1>2, <1>3 DEF ClientTypeOK, TypeOK, Turns
<1>5. Delivery(c)'
  BY <1>1, <1>2, BytesReceived DEF ServerSide
<1>6. \A b \in Clients \ {c} : Same(b)
  BY <1>1, <1>2 DEF Same, ServerSide, Bytewise, ClientSide, Turns
<1> QED
  BY <1>4, <1>5, <1>6, OneMoves

(* A peer that does not run asio_client.cpp. *)
LEMMA PeerStepInv ==
  ASSUME StreamInv, NEW c \in Clients \ Programs, PeerStep(c), UNCHANGED clientVars
  PROVE  StreamInv'
<1> USE DEF StreamInv
<1>1. Turns(c) /\ reply' = reply /\ reply \in [Programs -> Seq(Bytes)] /\ ReadsOnce(c)'
  BY DEF clientVars, Turns, ClientTypeOK, ReadsOnce
<1>2. CASE Connect(c) \/ Shutdown(c) \/ Close(c) \/ Reset(c)
  BY <1>1, <1>2, PeerMovesInv
<1>3. CASE Send(c)
  <2> DEFINE e == Len(sent[c]) + 1
  <2>1. /\ peer[c] = "open" /\ Len(sent[c]) < MaxSent /\ Len(up[c]) < SockBuf
        /\ up' = [up EXCEPT ![c] = Append(@, e)]
        /\ sent' = [sent EXCEPT ![c] = Append(@, e)]
        /\ UNCHANGED <<server, peer, down, received>>
    BY <1>3 DEF Send, server, ClientTypeOK, TypeOK
  <2>2. e \in Bytes
    <3>1. Len(sent[c]) \in Nat /\ MaxSent \in Nat
      BY SizesAssumption, Types, LenProperties DEF Strings
    <3> QED
      BY <2>1, <3>1 DEF Bytes, Garbage
  <2> HIDE DEF e
  <2> QED
    BY <1>1, <2>1, <2>2, ByteSentInv
<1>4. CASE Receive(c)
  <2>1. /\ peer[c] \in {"open", "fin"} /\ down[c] # <<>>
        /\ received' = [received EXCEPT ![c] = Append(received[c], Head(down[c]))]
        /\ down' = [down EXCEPT ![c] = Tail(down[c])]
        /\ UNCHANGED <<server, peer, up, sent>>
    BY <1>4 DEF Receive, server, ClientTypeOK, TypeOK
  <2>2. received[c] \in Strings /\ down[c] \in Strings
    BY Types
  <2>3. /\ Append(received[c], Head(down[c])) \in Strings /\ Tail(down[c]) \in Strings
        /\ Append(received[c], Head(down[c])) \o Tail(down[c]) = received[c] \o down[c]
    BY <2>1, <2>2, HeadMoves, ZenonT(60) DEF Strings
  <2>4. Len(Tail(down[c])) <= Len(down[c])
    BY <2>1, <2>2, HeadTailProperties, LenProperties DEF Strings
  <2> QED
    BY <1>1, <2>1, <2>3, <2>4, BytesReceivedInv
<1> QED
  BY <1>2, <1>3, <1>4 DEF PeerStep

(* The client turns to the next operation without a byte moving, or runs no *)
(* more.                                                                    *)
LEMMA TurnInv ==
  ASSUME StreamInv, NEW c \in Programs,
         ConnectFails(c) \/ ClientWriteHandler(c) \/ ClientFails(c)
  PROVE  StreamInv'
<1> USE DEF StreamInv
<1>1. /\ UNCHANGED <<vars, reply>>
      /\ \/ pending[c] = "write" /\ pending' = [pending EXCEPT ![c] = "read"]
         \/ pending' = [pending EXCEPT ![c] = "nothing"]
  BY DEF ConnectFails, ClientWriteHandler, ClientFails
<1>2. ClientTypeOK'
  BY <1>1 DEF ClientTypeOK, TypeOK, vars, loop, buffers, net
<1>3. UNCHANGED <<session, read_buf, len, written, peer, up, down, sent, received>>
  BY <1>1 DEF vars, buffers, net
<1>4. c \in Clients
  BY ProgramsAssumption
<1>5. Delivery(c)'
  <2>1. AllOf(c)' = AllOf(c)
    BY <1>3 DEF AllOf, Unwritten
  <2>2. ReadsOnce(c)'
    BY <1>1, <1>3, <1>4 DEF Delivery, ReadsOnce, ClientTypeOK
  <2> QED
    BY <1>3, <1>4, <2>1, <2>2 DEF Delivery, Exact, Arriving, Arrived, Begins, Unconnected
<1>6. \A d \in Clients \ {c} : Same(d)
  BY <1>1, <1>3 DEF Same, ServerSide, Bytewise, ClientSide, ClientTypeOK
<1> QED
  BY <1>2, <1>4, <1>5, <1>6, OneMoves

(* The client is connected: its first bytes are on their way (32-36).       *)
LEMMA ConnectHandlerInv ==
  ASSUME StreamInv, NEW c \in Programs, NEW n \in AtOnce, ConnectHandler(c, n)
  PROVE  StreamInv'
<1> USE DEF StreamInv
<1> DEFINE first == SubSeq(Message, 1, n)
<1>1. /\ pending[c] = "connect" /\ peer[c] = "open"
      /\ pending' = [pending EXCEPT ![c] = "write"]
      /\ up' = [up EXCEPT ![c] = first] /\ sent' = [sent EXCEPT ![c] = first]
      /\ UNCHANGED <<main, accepting, session, read_buf, len, written, peer, down, received,
                     reply>>
  BY DEF ConnectHandler, server, loop, buffers
<1>2. n <= SockBuf /\ n \in Nat /\ n <= MaxSent /\ MaxSent \in Nat /\ SockBuf \in Nat
  BY AtOnceAssumption, SizesAssumption DEF ConnectHandler
<1>3. first \in Strings /\ Len(first) <= SockBuf
  <2>1. \A k \in 1 .. n : Message[k] \in Bytes
    BY <1>2 DEF Message, Bytes, Garbage
  <2>2. 1 \in Int /\ n \in Int /\ (IF 1 <= n THEN n - 1 + 1 ELSE 0) <= SockBuf
    BY <1>2
  <2> QED
    BY <2>1, <2>2, SubSeqProperties DEF Strings
<1> HIDE DEF first
<1>4. c \in Clients
  BY ProgramsAssumption
<1>5. /\ up' \in [Clients -> Strings] /\ sent' \in [Clients -> Strings]
      /\ up'[c] = first /\ sent'[c] = first
      /\ \A d \in Clients : d # c => up'[d] = up[d] /\ sent'[d] = sent[d]
  <2>1. up \in [Clients -> Strings] /\ sent \in [Clients -> Strings]
    BY DEF ClientTypeOK, TypeOK, Strings
  <2> QED
    BY <1>1, <1>3, <1>4, <2>1
<1>6. \A d \in Clients : Len(up'[d]) <= SockBuf
  BY <1>3, <1>5 DEF ClientTypeOK, TypeOK
<1>7. ClientTypeOK'
  BY <1>1, <1>5, <1>6 DEF ClientTypeOK, TypeOK, Strings
<1>8. /\ received[c] \in Strings /\ down[c] \in Strings /\ Unwritten(c) \in Strings
      /\ up[c] \in Strings
  BY <1>4, Types
<1>9. received[c] = <<>> /\ sent[c] = <<>>
  BY <1>1, <1>4 DEF Delivery, ReadsOnce
<1>10. received[c] \o down[c] = <<>>
  <2>1. PICK u \in Strings : <<>> = received[c] \o down[c] \o u
    BY <1>1, <1>4, <1>9 DEF Delivery, Arriving, Begins
  <2>2. received[c] \o down[c] \in Strings
    BY <1>8, Regroup DEF Strings
  <2>3. ASSUME NEW s \in Strings, NEW t \in Strings, <<>> = s \o t PROVE s = <<>>
    <3>1. s \o t = <<>>
      BY <2>3
    <3> QED
      BY <3>1, ConcatEqualIffEmpty DEF Strings
  <2> QED
    BY <2>1, <2>2, <2>3, Zenon
<1>11. session[c] # "closed" => Unwritten(c) = <<>>
  <2>1. SUFFICES ASSUME session[c] # "closed" PROVE Unwritten(c) = <<>>
    OBVIOUS
  <2>2. <<>> \o Unwritten(c) \o up[c] = <<>>
    BY <1>1, <1>4, <1>9, <1>10, <2>1 DEF Delivery, Exact, AllOf
  <2>3. <<>> \o Unwritten(c) = Unwritten(c)
    BY <1>8, ConcatEmptySeq DEF Strings
  <2>4. Unwritten(c) \o up[c] = <<>>
    BY <2>2, <2>3
  <2> QED
    BY <1>8, <2>4, ConcatEqualIffEmpty DEF Strings
<1>12. Exact(c)'
  <2>1. SUFFICES ASSUME session[c] # "closed"
                 PROVE  received[c] \o down[c] \o Unwritten(c) \o first = first
    BY <1>1, <1>5 DEF Exact, AllOf, Unwritten
  <2>2. <<>> \o <<>> = <<>> /\ <<>> \o first = first
    BY <1>3, EmptySeq, ConcatEmptySeq DEF Strings
  <2> QED
    BY <1>10, <1>11, <2>1, <2>2
<1>13. Arriving(c)' /\ Arrived(c)'
  <2>1. Begins(<<>>, first)
    BY <1>3, BeginsFacts
  <2>2. Begins(received[c] \o down[c], first) /\ Begins(received[c], first)
    BY <1>9, <1>10, <2>1
  <2> QED
    BY <1>1, <1>5, <2>2 DEF Arriving, Arrived, Begins
<1>14. Unconnected(c)' /\ ReadsOnce(c)'
  BY <1>1, <1>4, <1>9 DEF Delivery, Unconnected, ReadsOnce, ClientTypeOK
<1>15. \A d \in Clients \ {c} : Same(d)
  BY <1>1, <1>5 DEF Same, ServerSide, Bytewise, ClientSide, ClientTypeOK
<1> QED
  BY <1>4, <1>7, <1>12, <1>13, <1>14, <1>15, OneMoves DEF Delivery

(* async_write goes on. *)
LEMMA WriteMoreInv ==
  ASSUME StreamInv, NEW c \in Programs, NEW byte \in Bytes, WriteMore(c, byte)
  PROVE  StreamInv'
<1> USE DEF StreamInv
<1>1. c \in Clients
  BY ProgramsAssumption
<1>2. /\ pending[c] = "write" /\ Len(up[c]) < SockBuf
      /\ up' = [up EXCEPT ![c] = Append(@, byte)]
      /\ sent' = [sent EXCEPT ![c] = Append(@, byte)]
      /\ UNCHANGED <<server, peer, down, received, clientVars>>
  BY DEF WriteMore
<1>3. peer[c] # "none" /\ ReadsOnce(c)'
  BY <1>1, <1>2 DEF Delivery, ReadsOnce, clientVars
<1> QED
  BY <1>1, <1>2, <1>3, ByteSentInv

(* What the client reads, once, it has received (51-56). *)
LEMMA ClientReadInv ==
  ASSUME StreamInv, NEW c \in Programs, NEW n \in 1 .. SockBuf, ClientReadHandler(c, n)
  PROVE  StreamInv'
<1> USE DEF StreamInv
<1> DEFINE first == SubSeq(down[c], 1, n)
<1> DEFINE rest == SubSeq(down[c], n + 1, Len(down[c]))
<1>1. c \in Clients
  BY ProgramsAssumption
<1>2. /\ pending[c] = "read" /\ n <= Len(down[c])
      /\ reply' = [reply EXCEPT ![c] = first]
      /\ received' = [received EXCEPT ![c] = received[c] \o first]
      /\ down' = [down EXCEPT ![c] = rest]
      /\ pending' = [pending EXCEPT ![c] = "nothing"]
      /\ UNCHANGED <<server, peer, up, sent>>
  BY <1>1 DEF ClientReadHandler, ClientTypeOK, TypeOK
<1>3. peer[c] \in {"open", "fin"} /\ received[c] = <<>>
  BY <1>1, <1>2 DEF Delivery, ReadsOnce
<1>4. received[c] \in Strings /\ down[c] \in Strings
  BY <1>1, Types
<1>5. n \in 0 .. Len(down[c]) /\ Len(down[c]) \in Nat
  BY <1>2, <1>4, SizesAssumption, LenProperties DEF Strings
<1>6. /\ first \in Strings /\ rest \in Strings
      /\ received[c] \o first \o rest = received[c] \o down[c]
      /\ Len(down[c]) = Len(first) + Len(rest)
  BY <1>4, <1>5, CutInTwo DEF Strings
<1>7. Len(first) \in Nat /\ Len(rest) \in Nat /\ Len(rest) <= Len(down[c])
  BY <1>6, LenProperties DEF Strings
<1>8. received[c] \o first \in Strings /\ received[c] \o first = first
  BY <1>3, <1>6, ConcatEmptySeq DEF Strings
<1> HIDE DEF first, rest
<1>9. /\ Turns(c) /\ reply' \in [Programs -> Seq(Bytes)]
      /\ \A b \in Programs : b # c => reply'[b] = reply[b]
  BY <1>2, <1>6 DEF Turns, ClientTypeOK, Strings
<1>10. ReadsOnce(c)'
  <2>1. reply'[c] = first /\ received'[c] = first /\ pending'[c] = "nothing"
    BY <1>1, <1>2, <1>8 DEF ClientTypeOK, TypeOK
  <2> QED
    BY <2>1 DEF ReadsOnce
<1> QED
  BY <1>1, <1>2, <1>3, <1>6, <1>7, <1>8, <1>9, <1>10, BytesReceivedInv

(* run() returns. *)
LEMMA ExitInv == ASSUME StreamInv, NEW c \in Programs, Exit(c) PROVE StreamInv'
<1> USE DEF StreamInv
<1>1. c \in Clients
  BY ProgramsAssumption
<1>2. pending[c] = "nothing" /\ pending' = [pending EXCEPT ![c] = "exited"] /\ reply' = reply
  BY DEF Exit
<1>3. Turns(c) /\ pending'[c] = "exited"
  BY <1>2 DEF Turns, ClientTypeOK
<1>4. ReadsOnce(c)'
  <2>1. received' = received
    BY DEF Exit, vars, Close, Reset
  <2> QED
    BY <1>1, <1>2, <1>3, <2>1 DEF Delivery, ReadsOnce
<1>5. CASE Close(c) \/ Reset(c)
  BY <1>1, <1>2, <1>3, <1>4, <1>5, PeerMovesInv
<1>6. CASE UNCHANGED vars
  <2>1. UNCHANGED <<main, accepting, session, read_buf, len, written, peer, up, down, sent,
                    received>>
    BY <1>6 DEF vars, loop, buffers, net
  <2>2. ClientTypeOK'
    BY <1>2, <1>3, <2>1 DEF Turns, ClientTypeOK, TypeOK
  <2>3. Delivery(c)'
    BY <1>1, <1>4, <2>1 DEF Delivery, Exact, AllOf, Unwritten, Arriving, Arrived, Begins,
       Unconnected
  <2>4. \A d \in Clients \ {c} : Same(d)
    BY <1>2, <1>3, <2>1 DEF Same, ServerSide, Bytewise, ClientSide, Turns
  <2> QED
    BY <1>1, <2>2, <2>3, <2>4, OneMoves
<1> QED
  BY <1>5, <1>6 DEF Exit

(* The connection of a client is made. *)
LEMMA EstablishedInv == ASSUME StreamInv, NEW c \in Programs, Established(c) PROVE StreamInv'
<1> USE DEF StreamInv
<1>1. c \in Clients
  BY ProgramsAssumption
<1>2. Connect(c) /\ UNCHANGED <<pending, reply>>
  BY DEF Established, clientVars
<1>3. Turns(c)
  BY <1>2 DEF Turns, ClientTypeOK
<1>4. ReadsOnce(c)'
  <2>1. peer[c] = "none" /\ received' = received /\ sent' = sent
    BY <1>2 DEF Connect
  <2> QED
    BY <1>1, <1>2, <2>1 DEF Delivery, ReadsOnce
<1> QED
  BY <1>1, <1>2, <1>3, <1>4, PeerMovesInv

(* A stuttering step. *)
LEMMA StutterInv == ASSUME StreamInv, UNCHANGED allVars PROVE StreamInv'
<1> USE DEF StreamInv, allVars, vars, loop, buffers, net, clientVars
<1>1. ClientTypeOK'
  BY DEF ClientTypeOK, TypeOK
<1>2. \A d \in Clients : Same(d)
  BY DEF Same, ServerSide, Bytewise, ClientSide
<1> QED
  BY <1>1, <1>2, SameDelivery

(* Every step of the server, of its clients, and of the other peers.        *)
LEMMA StepStreamInv == StreamInv /\ [ClientNext]_allVars => StreamInv'
<1> SUFFICES ASSUME StreamInv, [ClientNext]_allVars PROVE StreamInv'
  OBVIOUS
<1>1. ASSUME NEW c \in Programs, ClientStep(c) PROVE StreamInv'
  BY <1>1, TurnInv, ConnectHandlerInv, WriteMoreInv, ClientReadInv, ExitInv DEF ClientStep
<1>2. ASSUME NEW c \in Programs, Established(c) PROVE StreamInv'
  BY <1>2, EstablishedInv
<1>3. ASSUME NEW c \in Clients \ Programs, PeerStep(c), UNCHANGED clientVars PROVE StreamInv'
  BY <1>3, PeerStepInv
<1>4. CASE ServerStep /\ UNCHANGED clientVars
  <2>1. ASSUME NEW c \in Clients, SessionStep(c) PROVE StreamInv'
    BY <1>4, <2>1, SessionStepInv, ReadHandlerInv, WriteSomeInv DEF SessionStep
  <2> QED
    BY <1>4, <2>1, SessionStepInv DEF ServerStep
<1>5. CASE (Terminated /\ UNCHANGED clientVars) \/ UNCHANGED allVars
  BY <1>5, StutterInv DEF Terminated, allVars
<1> QED
  BY <1>1, <1>2, <1>3, <1>4, <1>5 DEF ClientNext

-----------------------------------------------------------------------------
(* Where every byte is, in every state of server and clients                *)
(* (asio_server.cpp 38-77, asio_client.cpp 29-65).                          *)
THEOREM Invariance == ClientSpec => []StreamInv
  BY InitStreamInv, StepStreamInv, PTL DEF ClientSpec

(* No byte is lost, doubled, altered or out of place between the sockets    *)
(* and the one buffer of a session, and the reply a client prints is the    *)
(* beginning of what it sent.                                               *)
THEOREM BytesExact == ClientSpec => []Inv
<1>1. StreamInv => Inv
  <2> SUFFICES ASSUME StreamInv PROVE Inv
    OBVIOUS
  <2> USE DEF StreamInv
  <2>1. StreamExact
    BY DEF StreamExact, Delivery, Exact, AllOf
  <2>2. ReplyIsPrefix
    <3>1. SUFFICES ASSUME NEW c \in Programs PROVE IsPrefix(reply[c], sent[c])
      BY DEF ReplyIsPrefix
    <3>2. c \in Clients /\ reply[c] = received[c] /\ Begins(received[c], sent[c])
      BY ProgramsAssumption DEF Delivery, ReadsOnce, Arrived
    <3>3. received[c] \in Strings /\ sent[c] \in Strings
      BY <3>2, Types
    <3> QED
      BY <3>2, <3>3, BeginsIsPrefix
  <2> QED
    BY <2>1, <2>2 DEF Inv
<1> QED
  BY <1>1, Invariance, PTL

(* A step that sends. *)
LEMMA SendStep ==
  ASSUME ClientTypeOK, NEW c \in Clients, NEW b \in Strings, Begins(sent[c], b),
         sent' = [sent EXCEPT ![c] = b], received' = received
  PROVE  [Stream!Next]_<<sent, received>>
<1>1. sent[c] \in Strings /\ sent'[c] = b /\ sent \in [Clients -> Seq(Bytes)]
  BY Types DEF ClientTypeOK, TypeOK
<1>2. CASE b = sent[c]
  BY <1>1, <1>2
<1>3. CASE b # sent[c]
  <2>1. IsStrictPrefix(sent[c], sent'[c])
    BY <1>1, <1>3, BeginsIsPrefix DEF IsStrictPrefix
  <2>2. sent' = [sent EXCEPT ![c] = sent'[c]]
    BY <1>1
  <2> QED
    BY <2>1, <2>2 DEF Stream!Next, Stream!Send, Stream!IsStrictPrefix, Stream!IsPrefix,
       IsStrictPrefix, IsPrefix
<1> QED
  BY <1>2, <1>3

(* A step that receives. *)
LEMMA ReceiveStep ==
  ASSUME ClientTypeOK, NEW c \in Clients, NEW b \in Strings,
         Begins(received[c], b), Begins(b, sent[c]),
         received' = [received EXCEPT ![c] = b], sent' = sent
  PROVE  [Stream!Next]_<<sent, received>>
<1>1. /\ received[c] \in Strings /\ sent[c] \in Strings /\ received'[c] = b
      /\ received \in [Clients -> Seq(Bytes)]
  BY Types DEF ClientTypeOK, TypeOK
<1>2. CASE b = received[c]
  BY <1>1, <1>2
<1>3. CASE b # received[c]
  <2>1. IsStrictPrefix(received[c], received'[c]) /\ IsPrefix(received'[c], sent[c])
    BY <1>1, <1>3, BeginsIsPrefix DEF IsStrictPrefix
  <2>2. received' = [received EXCEPT ![c] = received'[c]]
    BY <1>1
  <2> QED
    BY <2>1, <2>2 DEF Stream!Next, Stream!Receive, Stream!IsStrictPrefix, Stream!IsPrefix,
       IsStrictPrefix, IsPrefix
<1> QED
  BY <1>2, <1>3

(* One byte more. *)
LEMMA OneMoreSent ==
  ASSUME ClientTypeOK, NEW c \in Clients, NEW e \in Bytes,
         sent' = [sent EXCEPT ![c] = Append(@, e)], received' = received
  PROVE  [Stream!Next]_<<sent, received>>
<1>1. sent[c] \in Strings
  BY Types
<1>2. Append(sent[c], e) \in Strings /\ Begins(sent[c], Append(sent[c], e))
  BY <1>1, AppendProperties, BeginsFacts DEF Strings
<1>3. sent' = [sent EXCEPT ![c] = Append(sent[c], e)]
  BY DEF ClientTypeOK, TypeOK
<1> QED
  BY <1>2, <1>3, SendStep

(* Whoever sends and receives, and however the connections end: what each   *)
(* peer has received is, at any time, the beginning of what it has sent.    *)
THEOREM ImplementsStream == ClientSpec => StreamSpec
<1>1. ClientInit => Stream!Init
  BY DEF ClientInit, Init, Stream!Init
<1>2. StreamInv /\ StreamInv' /\ [ClientNext]_allVars => [Stream!Next]_<<sent, received>>
  <2> SUFFICES ASSUME StreamInv, StreamInv', [ClientNext]_allVars
               PROVE  [Stream!Next]_<<sent, received>>
    OBVIOUS
  <2>1. ClientTypeOK /\ \A c \in Clients : Delivery(c)
    BY DEF StreamInv
  <2>2. \A c \in Clients : Begins(received'[c], sent'[c])
    BY DEF StreamInv, Delivery, Arrived, Begins
  <2>3. \A c \in Clients : received'[c] \in Strings
    BY DEF StreamInv, ClientTypeOK, TypeOK, Strings
  <2>4. CASE UNCHANGED <<sent, received>>
    BY <2>4
  <2>5. ASSUME NEW c \in Clients, Send(c) PROVE [Stream!Next]_<<sent, received>>
    <3>1. /\ Len(sent[c]) < MaxSent /\ received' = received
          /\ sent' = [sent EXCEPT ![c] = Append(@, Len(sent[c]) + 1)]
      BY <2>1, <2>5 DEF Send, ClientTypeOK, TypeOK
    <3>2. Len(sent[c]) + 1 \in Bytes
      <4>1. Len(sent[c]) \in Nat /\ MaxSent \in Nat
        BY <2>1, SizesAssumption, Types, LenProperties DEF Strings
      <4> QED
        BY <3>1, <4>1 DEF Bytes, Garbage
    <3> QED
      BY <2>1, <3>1, <3>2, OneMoreSent
  <2>6. ASSUME NEW c \in Clients, Receive(c) PROVE [Stream!Next]_<<sent, received>>
    <3>1. /\ down[c] # <<>> /\ sent' = sent
          /\ received' = [received EXCEPT ![c] = Append(received[c], Head(down[c]))]
      BY <2>1, <2>6 DEF Receive, ClientTypeOK, TypeOK
    <3>2. received'[c] = Append(received[c], Head(down[c]))
      BY <2>1, <3>1 DEF ClientTypeOK, TypeOK
    <3>3. Begins(received[c], Append(received[c], Head(down[c])))
      <4>1. received[c] \in Strings /\ down[c] \in Strings
        BY <2>1, Types
      <4>2. Head(down[c]) \in Bytes
        BY <3>1, <4>1, HeadTailProperties DEF Strings
      <4> QED
        BY <4>1, <4>2, BeginsFacts
    <3> QED
      BY <2>1, <2>2, <2>3, <3>1, <3>2, <3>3, ReceiveStep
  <2>7. ASSUME NEW c \in Programs, NEW byte \in Bytes, WriteMore(c, byte)
        PROVE  [Stream!Next]_<<sent, received>>
    <3>1. sent' = [sent EXCEPT ![c] = Append(@, byte)] /\ received' = received
      BY <2>7 DEF WriteMore
    <3> QED
      BY <2>1, <3>1, ProgramsAssumption, OneMoreSent
  <2>8. ASSUME NEW c \in Programs, NEW n \in AtOnce, ConnectHandler(c, n)
        PROVE  [Stream!Next]_<<sent, received>>
    <3>1. /\ c \in Clients /\ sent[c] = <<>> /\ received' = received
          /\ sent' = [sent EXCEPT ![c] = SubSeq(Message, 1, n)]
      BY <2>1, <2>8, ProgramsAssumption DEF ConnectHandler, Delivery, ReadsOnce
    <3>2. SubSeq(Message, 1, n) \in Strings
      <4>1. sent'[c] = SubSeq(Message, 1, n)
        BY <2>1, <3>1 DEF ClientTypeOK, TypeOK
      <4> QED
        BY <3>1, <4>1 DEF StreamInv, ClientTypeOK, TypeOK, Strings
    <3>3. Begins(sent[c], SubSeq(Message, 1, n))
      BY <3>1, <3>2, BeginsFacts
    <3> QED
      BY <2>1, <3>1, <3>2, <3>3, SendStep
  <2>9. ASSUME NEW c \in Programs, NEW n \in 1 .. SockBuf, ClientReadHandler(c, n)
        PROVE  [Stream!Next]_<<sent, received>>
    <3>1. /\ c \in Clients /\ received[c] = <<>> /\ sent' = sent
          /\ received' = [received EXCEPT ![c] = received'[c]]
      BY <2>1, <2>9, ProgramsAssumption DEF ClientReadHandler, Delivery, ReadsOnce,
         ClientTypeOK, TypeOK
    <3>2. Begins(received[c], received'[c])
      BY <2>3, <3>1, BeginsFacts
    <3>3. Begins(received'[c], sent[c])
      BY <2>2, <3>1
    <3> QED
      BY <2>1, <2>3, <3>1, <3>2, <3>3, ReceiveStep
  <2>10. ASSUME NEW c \in Programs, ClientStep(c) PROVE [Stream!Next]_<<sent, received>>
    BY <2>4, <2>7, <2>8, <2>9, <2>10 DEF ClientStep, ConnectFails, ClientWriteHandler,
       ClientFails, Exit, Close, Reset, vars
  <2>11. ASSUME NEW c \in Clients, PeerStep(c) PROVE [Stream!Next]_<<sent, received>>
    BY <2>4, <2>5, <2>6, <2>11 DEF PeerStep, Connect, Shutdown, Close, Reset
  <2>12. ASSUME ServerStep PROVE [Stream!Next]_<<sent, received>>
    BY <2>4, <2>12 DEF ServerStep, AcceptHandler, AcceptThrows, SessionStep, ReadHandler,
       WriteSome, WriteHandler, ReadFails, WriteFails, AcceptFails, Stop, Join
  <2>13. CASE Terminated \/ UNCHANGED allVars
    BY <2>4, <2>13 DEF Terminated, allVars, vars
  <2>14. ASSUME NEW c \in Programs, Established(c) PROVE [Stream!Next]_<<sent, received>>
    BY <2>4, <2>14 DEF Established, Connect
  <2> QED
    BY <2>10, <2>11, <2>12, <2>13, <2>14 DEF ClientNext
<1> QED
  BY Invariance, <1>1, <1>2, PTL DEF ClientSpec, StreamSpec, Stream!Spec

-----------------------------------------------------------------------------
(* A client reads when it has sent all, and sends no more than its message. *)
WroteAll ==
  \A c \in Programs : /\ pending[c] = "write" => Len(sent[c]) <= MaxSent
                      /\ pending[c] = "read" => Len(sent[c]) = MaxSent

(* Every handler of do_accept, also that of an error, accepts again (105).  *)
AcceptsAgain == Running => accepting

ClientCanGo(c) ==
  \/ pending[c] = "write" /\ (Len(sent[c]) = MaxSent \/ Len(up[c]) < SockBuf)
  \/ pending[c] = "read" /\ down[c] # <<>>

ServerCanGo(c) ==
  \/ session[c] = "none" /\ accepting
  \/ session[c] = "reading" /\ up[c] # <<>>
  \/ session[c] = "writing" /\ (written[c] = len[c] \/ Len(down[c]) < SockBuf)

(* A client writes its whole message before it reads, and the server writes *)
(* back what it has read before it reads on. Neither waits for the other    *)
(* for ever: while the server runs and has not lost the connection, one of  *)
(* them can go on.                                                          *)
NeitherStuck ==
  \A c \in Programs :
    Running /\ session[c] # "closed" /\ pending[c] \in {"write", "read"} =>
      ClientCanGo(c) \/ ServerCanGo(c)

(* It takes a message that the sockets of the two directions and one byte   *)
(* of read_buf_ hold: that of the client (line 37) is 33 bytes long.        *)
MessageFits == MaxSent <= 2 * SockBuf + 1

(* A string of no bytes, of one at least, and the bytes of four in a row.   *)
LEMMA Lengths ==
  ASSUME NEW r \in Strings, NEW s \in Strings, NEW t \in Strings, NEW u \in Strings
  PROVE  /\ Len(r) \in Nat /\ Len(s) \in Nat /\ Len(t) \in Nat /\ Len(u) \in Nat
         /\ Len(r) = 0 <=> r = <<>>
         /\ Len(r \o s \o t \o u) = Len(r) + Len(s) + Len(t) + Len(u)
<1> USE DEF Strings
<1>1. /\ Len(r) \in Nat /\ Len(s) \in Nat /\ Len(t) \in Nat /\ Len(u) \in Nat
      /\ Len(r) = 0 <=> r = <<>>
  BY LenProperties, EmptySeq
<1>2. r \o s \in Seq(Bytes) /\ Len(r \o s) = Len(r) + Len(s)
  BY ConcatProperties
<1>3. r \o s \o t \in Seq(Bytes) /\ Len(r \o s \o t) = Len(r \o s) + Len(t)
  BY <1>2, ConcatProperties
<1>4. Len(r \o s \o t \o u) = Len(r \o s \o t) + Len(u)
  BY <1>3, ConcatProperties
<1> QED
  BY <1>1, <1>2, <1>3, <1>4

(* What a write that is pending has left of the buffer.                     *)
LEMMA UnwrittenLength ==
  ASSUME ClientTypeOK, NEW c \in Clients, session[c] = "writing", written[c] # len[c]
  PROVE  Len(Unwritten(c)) >= 1
<1>1. /\ read_buf[c] \in Strings /\ Len(read_buf[c]) = BufSize /\ BufSize \in Nat
      /\ len[c] \in 0 .. BufSize /\ written[c] \in 0 .. len[c]
  BY Types
<1>2. written[c] + 1 <= len[c]
  BY <1>1
<1>3. Len(SubSeq(read_buf[c], written[c] + 1, len[c])) = len[c] - written[c]
  <2>1. \A k \in 1 .. BufSize : read_buf[c][k] \in Bytes
    BY <1>1, ElementOfSeq DEF Strings
  <2>2. /\ written[c] + 1 \in Int /\ len[c] \in Int
        /\ \A k \in written[c] + 1 .. len[c] : read_buf[c][k] \in Bytes
    BY <1>1, <2>1
  <2>3. Len(SubSeq(read_buf[c], written[c] + 1, len[c]))
          = IF written[c] + 1 <= len[c] THEN len[c] - (written[c] + 1) + 1 ELSE 0
    BY <2>2, SubSeqProperties
  <2> QED
    BY <1>1, <1>2, <2>3
<1>4. Unwritten(c) = SubSeq(read_buf[c], written[c] + 1, len[c])
  BY DEF Unwritten
<1> QED
  BY <1>1, <1>2, <1>3, <1>4

(* The bytes of the message are sent while the write is pending.            *)
LEMMA WroteAllStep ==
  StreamInv /\ WroteAll /\ [ClientNext]_allVars => WroteAll'
<1> SUFFICES ASSUME StreamInv, WroteAll, [ClientNext]_allVars PROVE WroteAll'
  OBVIOUS
<1>0. /\ sent \in [Clients -> Strings] /\ Programs \subseteq Clients /\ MaxSent \in Nat
      /\ pending \in [Programs -> {"connect", "write", "read", "nothing", "exited"}]
  BY ProgramsAssumption, SizesAssumption DEF StreamInv, ClientTypeOK, TypeOK, Strings
<1>1. ASSUME NEW c \in Programs,
             \A d \in Programs \ {c} : sent'[d] = sent[d] /\ pending'[d] = pending[d],
             pending'[c] = "write" => Len(sent'[c]) <= MaxSent,
             pending'[c] = "read" => Len(sent'[c]) = MaxSent
      PROVE  WroteAll'
  BY <1>1 DEF WroteAll
<1>2. ASSUME NEW c \in Programs, NEW n \in AtOnce, ConnectHandler(c, n) PROVE WroteAll'
  <2>1. /\ pending' = [pending EXCEPT ![c] = "write"]
        /\ sent' = [sent EXCEPT ![c] = SubSeq(Message, 1, n)]
    BY <1>2 DEF ConnectHandler
  <2>2. n \in Nat /\ n <= MaxSent
    BY <1>0, AtOnceAssumption
  <2>3. Len(SubSeq(Message, 1, n)) <= MaxSent
    <3>1. \A k \in 1 .. n : Message[k] \in Bytes
      BY <1>0, <2>2 DEF Message, Bytes, Garbage
    <3>2. Len(SubSeq(Message, 1, n)) = IF 1 <= n THEN n - 1 + 1 ELSE 0
      BY <2>2, <3>1, SubSeqProperties
    <3> QED
      BY <1>0, <2>2, <3>2
  <2>4. sent'[c] = SubSeq(Message, 1, n) /\ pending'[c] = "write"
    BY <1>0, <2>1
  <2> QED
    BY <1>0, <1>1, <2>1, <2>3, <2>4
<1>3. ASSUME NEW c \in Programs, NEW byte \in Bytes, WriteMore(c, byte) PROVE WroteAll'
  <2>1. /\ pending[c] = "write" /\ pending' = pending /\ Len(sent[c]) < MaxSent
        /\ sent' = [sent EXCEPT ![c] = Append(@, byte)]
    BY <1>3 DEF WriteMore, clientVars
  <2>2. sent'[c] = Append(sent[c], byte)
    BY <1>0, <2>1
  <2>3. Len(Append(sent[c], byte)) = Len(sent[c]) + 1 /\ Len(sent[c]) \in Nat
    BY <1>0, AppendProperties, LenProperties DEF Strings
  <2>4. Len(sent'[c]) <= MaxSent
    BY <1>0, <2>1, <2>2, <2>3
  <2> QED
    BY <1>0, <1>1, <2>1, <2>4
<1>4. ASSUME NEW c \in Programs, ClientWriteHandler(c) PROVE WroteAll'
  BY <1>0, <1>1, <1>4 DEF ClientWriteHandler, vars
<1>5. ASSUME NEW c \in Programs, sent' = sent,
             \E where \in {"nothing", "exited"} : pending' = [pending EXCEPT ![c] = where]
      PROVE  WroteAll'
  BY <1>0, <1>1, <1>5
<1>6. ASSUME NEW c \in Programs, ClientStep(c) PROVE WroteAll'
  <2>1. CASE ConnectFails(c) \/ ClientFails(c)
    BY <1>5, <2>1 DEF ConnectFails, ClientFails, vars
  <2>2. CASE Exit(c)
    BY <1>5, <2>2 DEF Exit, vars, Close, Reset
  <2>3. ASSUME NEW n \in 1 .. SockBuf, ClientReadHandler(c, n) PROVE WroteAll'
    BY <1>5, <2>3 DEF ClientReadHandler
  <2> QED
    BY <1>2, <1>3, <1>4, <1>6, <2>1, <2>2, <2>3 DEF ClientStep
<1>7. ASSUME pending' = pending, \A d \in Programs : sent'[d] = sent[d] PROVE WroteAll'
  BY <1>7 DEF WroteAll
<1>8. ASSUME NEW c \in Clients \ Programs, PeerStep(c), UNCHANGED clientVars PROVE WroteAll'
  <2>1. \A d \in Programs : sent'[d] = sent[d]
    BY <1>0, <1>8 DEF PeerStep, Connect, Send, Receive, Shutdown, Close, Reset
  <2> QED
    BY <1>7, <1>8, <2>1 DEF clientVars
<1>9. CASE ServerStep /\ UNCHANGED clientVars
  BY <1>7, <1>9 DEF ServerStep, SessionStep, AcceptHandler, AcceptThrows, ReadHandler,
     WriteSome, WriteHandler, ReadFails, WriteFails, AcceptFails, Stop, Join, clientVars
<1>10. ASSUME NEW c \in Programs, Established(c) PROVE WroteAll'
  BY <1>7, <1>10 DEF Established, Connect, clientVars
<1>11. CASE (Terminated /\ UNCHANGED clientVars) \/ UNCHANGED allVars
  BY <1>7, <1>11 DEF Terminated, allVars, vars, clientVars
<1> QED
  BY <1>6, <1>8, <1>9, <1>10, <1>11 DEF ClientNext

(* Whoever ends the accepting ends the server.                              *)
LEMMA AcceptsAgainStep == AcceptsAgain /\ [ClientNext]_allVars => AcceptsAgain'
<1> SUFFICES ASSUME AcceptsAgain, [ClientNext]_allVars PROVE AcceptsAgain'
  OBVIOUS
<1>1. CASE UNCHANGED loop
  BY <1>1 DEF AcceptsAgain, Running, loop
<1>2. CASE ServerStep
  <2>1. ASSUME NEW c \in Clients, SessionStep(c) PROVE AcceptsAgain'
    BY <1>1, <2>1 DEF SessionStep, ReadHandler, WriteSome, WriteHandler, ReadFails, WriteFails
  <2>2. CASE Stop \/ Join
    BY <2>2 DEF AcceptsAgain, Running, Stop, Join
  <2>3. ASSUME NEW c \in Clients, AcceptHandler(c) \/ AcceptThrows(c) PROVE AcceptsAgain'
    BY <2>3 DEF AcceptsAgain, Running, AcceptHandler, AcceptThrows
  <2>4. CASE AcceptFails
    BY <2>4 DEF AcceptsAgain, Running, AcceptFails
  <2> QED
    BY <1>2, <2>1, <2>2, <2>3, <2>4 DEF ServerStep
<1>3. ASSUME NEW c \in Clients, PeerStep(c) PROVE AcceptsAgain'
  BY <1>1, <1>3 DEF PeerStep, Connect, Send, Receive, Shutdown, Close, Reset
<1>4. ASSUME NEW c \in Programs, ClientStep(c) \/ Established(c) PROVE AcceptsAgain'
  BY <1>1, <1>4 DEF ClientStep, Established, Connect, ConnectHandler, ConnectFails, WriteMore,
     ClientWriteHandler, ClientFails, ClientReadHandler, Exit, Close, Reset, vars, server
<1> QED
  BY <1>1, <1>2, <1>3, <1>4 DEF ClientNext, Terminated, allVars, vars

(* Both sockets full, and a byte of the buffer to write: the message, of    *)
(* which a part is still to be sent, does not fit.                          *)
LEMMA TooManyBytes ==
  ASSUME NEW c, Len(down[c]) \in Nat, Len(Unwritten(c)) \in Nat, Len(up[c]) \in Nat,
         Len(sent[c]) \in Nat,
         Len(sent[c]) = Len(down[c]) + Len(Unwritten(c)) + Len(up[c]),
         ~(Len(down[c]) < SockBuf), Len(Unwritten(c)) >= 1, ~(Len(up[c]) < SockBuf),
         Len(sent[c]) # MaxSent, Len(sent[c]) <= MaxSent
  PROVE  ~MessageFits
<1>1. MaxSent \in Nat /\ SockBuf \in Nat
  BY SizesAssumption
<1>2. ASSUME NEW d \in Nat, NEW w \in Nat, NEW u \in Nat, NEW n \in Nat,
             n = d + w + u, ~(d < SockBuf), w >= 1, ~(u < SockBuf), n # MaxSent, n <= MaxSent
      PROVE  ~(MaxSent <= 2 * SockBuf + 1)
  BY <1>1, <1>2
<1> QED
  BY <1>2 DEF MessageFits

(* Client and session of one connection, both waiting, would hold more      *)
(* bytes than the message has.                                              *)
LEMMA OneCanGo ==
  ASSUME StreamInv, WroteAll, AcceptsAgain, MessageFits, Running,
         NEW c \in Programs, session[c] # "closed", pending[c] \in {"write", "read"},
         ~ClientCanGo(c)
  PROVE  ServerCanGo(c)
<1>0. /\ c \in Clients /\ MaxSent \in Nat \ {0} /\ SockBuf \in Nat \ {0}
      /\ received[c] \in Strings /\ down[c] \in Strings
      /\ Unwritten(c) \in Strings /\ up[c] \in Strings /\ sent[c] \in Strings
  BY ProgramsAssumption, SizesAssumption, Types DEF StreamInv
<1>1. /\ Len(received[c]) = 0
      /\ sent[c] = received[c] \o down[c] \o Unwritten(c) \o up[c]
  <2>1. received[c] = <<>> /\ peer[c] = "open"
    BY <1>0 DEF StreamInv, Delivery, ReadsOnce
  <2>2. sent[c] = AllOf(c)
    BY <1>0, <2>1 DEF StreamInv, Delivery, Exact
  <2> QED
    BY <1>0, <2>1, <2>2, Lengths DEF AllOf
<1>2. /\ Len(down[c]) \in Nat /\ Len(Unwritten(c)) \in Nat /\ Len(up[c]) \in Nat
      /\ Len(sent[c]) \in Nat
      /\ Len(sent[c]) = Len(down[c]) + Len(Unwritten(c)) + Len(up[c])
      /\ Len(up[c]) = 0 <=> up[c] = <<>>
      /\ Len(down[c]) = 0 <=> down[c] = <<>>
  <2>1. /\ Len(received[c]) \in Nat /\ Len(down[c]) \in Nat
        /\ Len(Unwritten(c)) \in Nat /\ Len(up[c]) \in Nat
        /\ Len(received[c] \o down[c] \o Unwritten(c) \o up[c])
             = Len(received[c]) + Len(down[c]) + Len(Unwritten(c)) + Len(up[c])
    BY <1>0, Lengths
  <2>2. /\ Len(up[c]) = 0 <=> up[c] = <<>>
        /\ Len(down[c]) = 0 <=> down[c] = <<>>
    BY <1>0, Lengths
  <2>3. Len(sent[c]) \in Nat
    BY <1>0, Lengths
  <2>4. Len(sent[c]) = Len(received[c]) + Len(down[c]) + Len(Unwritten(c)) + Len(up[c])
    BY <1>1, <2>1, Zenon
  <2>5. Len(sent[c]) = Len(down[c]) + Len(Unwritten(c)) + Len(up[c])
    BY <1>1, <2>1, <2>3, <2>4
  <2> QED
    BY <2>1, <2>2, <2>3, <2>5
<1>3. session[c] \in {"none", "reading", "writing"}
  BY <1>0 DEF StreamInv, ClientTypeOK, TypeOK
<1>4. CASE session[c] = "none"
  BY <1>4 DEF AcceptsAgain, ServerCanGo
<1>5. CASE session[c] = "reading"
  <2>1. SUFFICES ASSUME up[c] = <<>> PROVE FALSE
    BY <1>5 DEF ServerCanGo
  <2>2. Unwritten(c) = <<>>
    BY <1>5 DEF Unwritten
  <2>3. Len(sent[c]) = Len(down[c]) /\ Len(up[c]) < SockBuf
    BY <1>0, <1>2, <2>1, <2>2, Lengths
  <2>4. pending[c] = "read"
    BY <2>3 DEF ClientCanGo
  <2>5. down[c] = <<>> /\ Len(sent[c]) = MaxSent
    BY <2>4 DEF ClientCanGo, WroteAll
  <2> QED
    BY <1>0, <1>2, <2>3, <2>5
<1>6. CASE session[c] = "writing"
  <2>1. SUFFICES ASSUME written[c] # len[c], ~(Len(down[c]) < SockBuf) PROVE FALSE
    BY <1>6 DEF ServerCanGo
  <2>2. Len(Unwritten(c)) >= 1
    BY <1>0, <1>6, <2>1, UnwrittenLength DEF StreamInv
  <2>3. down[c] # <<>>
    BY <1>0, <1>2, <2>1
  <2>4. pending[c] = "write"
    BY <2>3 DEF ClientCanGo
  <2>5. Len(sent[c]) # MaxSent /\ ~(Len(up[c]) < SockBuf) /\ Len(sent[c]) <= MaxSent
    BY <2>4 DEF ClientCanGo, WroteAll
  <2>6. ~(Len(down[c]) < SockBuf) /\ ~(Len(up[c]) < SockBuf)
    BY <2>1, <2>5
  <2> QED
    BY <1>2, <2>2, <2>5, <2>6, TooManyBytes, Zenon
<1> QED
  BY <1>3, <1>4, <1>5, <1>6

(* Client and server do not wait for each other, for any sizes of socket    *)
(* and buffer, as long as the message fits (asio_client.cpp 40-65,          *)
(* asio_server.cpp 38-77, 93-107). One byte more, and they may: each side   *)
(* writing, with nobody to read.                                            *)
THEOREM NoMutualWait == MessageFits /\ ClientSpec => []NeitherStuck
<1> SUFFICES ASSUME MessageFits PROVE ClientSpec => []NeitherStuck
  OBVIOUS
<1>1. ClientInit => WroteAll /\ AcceptsAgain
  <2> SUFFICES ASSUME ClientInit PROVE WroteAll /\ AcceptsAgain
    OBVIOUS
  <2>1. \A c \in Programs : pending[c] = "connect"
    BY DEF ClientInit
  <2> QED
    BY <2>1 DEF ClientInit, Init, WroteAll, AcceptsAgain
<1>2. StreamInv /\ WroteAll /\ AcceptsAgain => NeitherStuck
  BY OneCanGo DEF NeitherStuck
<1>3. ClientSpec => [](StreamInv /\ WroteAll /\ AcceptsAgain)
  BY <1>1, WroteAllStep, AcceptsAgainStep, InitStreamInv, StepStreamInv, PTL DEF ClientSpec
<1> QED
  BY <1>2, <1>3, PTL
=============================================================================
