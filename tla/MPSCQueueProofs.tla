--------------------------- MODULE MPSCQueueProofs ---------------------------
(***************************************************************************)
(* For any number of producers, of pushes and of addresses: the invariant  *)
(* Inv of MPSCQueue is inductive, so that no thread of the queue touches a *)
(* deleted node and no node is leaked; the queue implements the abstract   *)
(* one; and the threads of Test 5 around it count every value.             *)
(***************************************************************************)
EXTENDS MPSCQueueTest, FiniteSetTheorems, TLAPS

(* What PushExchange and PopTake do to the chain. *)
LEMMA AppendChain ==
  ASSUME NEW s \in Seq(Nodes), NEW n \in Nodes
  PROVE  /\ Append(s, n) \in Seq(Nodes)
         /\ Len(Append(s, n)) = Len(s) + 1
         /\ \A i \in 1 .. Len(s) : Append(s, n)[i] = s[i]
         /\ Append(s, n)[Len(s) + 1] = n
  OBVIOUS

(* What leaves the chain when the sentinel is deleted.                      *)
LEMMA TailChain ==
  ASSUME NEW s \in Seq(Nodes), Len(s) > 0
  PROVE  /\ Tail(s) \in Seq(Nodes)
         /\ Len(Tail(s)) = Len(s) - 1
         /\ \A i \in 1 .. Len(s) - 1 : Tail(s)[i] = s[i + 1]
  OBVIOUS

(* The constructor makes a chain of one sentinel.                           *)
LEMMA InitInv == Init => NodesInv
<1> SUFFICES ASSUME Init PROVE NodesInv
  OBVIOUS
<1> USE NullAssumption, PerThreadAssumption DEF Init
<1>1. TypeOK
  BY DEF TypeOK, Pointers, NoValue
<1>2. NoLeak
  BY DEF NoLeak, ChainNodes, Unpublished
<1>3. /\ ChainShape /\ LinksFollowChain /\ Linking
      /\ Exchanging /\ Taking /\ InLoop /\ RunsAlone
  BY DEF ChainShape, LinksFollowChain, Linking, Exchanging, Taking, InLoop, RunsAlone
<1> QED
  BY <1>1, <1>2, <1>3 DEF NodesInv

(* A new node is apart from every node of the queue and of other pushes.    *)
LEMMA PushNewInv ==
  ASSUME NodesInv, NEW p \in Producers, PushNew(p)
  PROVE  NodesInv'
<1> USE NullAssumption, PerThreadAssumption DEF NodesInv, producerVars, consumerVars
<1>1. PICK n \in Nodes \ live :
        /\ live' = live \cup {n}
        /\ data' = [data EXCEPT ![n] = <<p, sent[p]>>]
        /\ next' = [next EXCEPT ![n] = NULL]
        /\ new_node' = [new_node EXCEPT ![p] = n]
  BY DEF PushNew
<1>2. /\ pc[p] = "new" /\ pc' = [pc EXCEPT ![p] = "exchange"]
      /\ sent[p] < PerThread
      /\ UNCHANGED <<head, tail, sent, old_head, cpc, cnext, popped, phase, chain>>
  BY DEF PushNew
<1>3. phase = "open"
  BY <1>2 DEF RunsAlone, Joined, TypeOK
<1>4. n \notin ChainNodes /\ n \notin Unpublished
  BY <1>3 DEF NoLeak
<1>5. ChainNodes' = ChainNodes
  BY <1>2 DEF ChainNodes
<1>6. \A i \in 1 .. Len(chain) : chain[i] \in Nodes /\ chain[i] # n /\ next'[chain[i]] = next[chain[i]]
  BY <1>1, <1>4 DEF ChainNodes, TypeOK
<1>7. Unpublished' = Unpublished \cup {n}
  BY <1>1, <1>2 DEF Unpublished, TypeOK
<1>8. TypeOK'
  <2>1. <<p, sent[p]>> \in Values
    BY <1>2 DEF TypeOK, Values
  <2> QED
    BY <1>1, <1>2, <2>1 DEF TypeOK, Pointers
<1>9. NoLeak'
  BY <1>1, <1>2, <1>3, <1>5, <1>7 DEF NoLeak
<1>10. ChainShape'
  <2>1. next'[head] = NULL
    BY <1>6 DEF ChainShape, TypeOK
  <2> QED
    BY <1>2, <2>1 DEF ChainShape
<1>11. LinksFollowChain'
  BY <1>1, <1>2, <1>6 DEF LinksFollowChain, TypeOK
<1>12. Linking'
  BY <1>1, <1>2, <1>6 DEF Linking, TypeOK
<1>13. Exchanging'
  <2>1. \A q \in Producers : pc[q] = "exchange" => new_node[q] # n /\ new_node[q] \in Nodes
    BY <1>4 DEF Unpublished, Exchanging
  <2> QED
    BY <1>1, <1>2, <1>4, <1>5, <2>1 DEF Exchanging, TypeOK
<1>14. Taking'
  BY <1>1, <1>2, <1>6 DEF Taking, ChainShape, TypeOK
<1>15. InLoop' /\ RunsAlone'
  BY <1>2, <1>3 DEF InLoop, RunsAlone, TypeOK
<1> QED
  BY <1>8, <1>9, <1>10, <1>11, <1>12, <1>13, <1>14, <1>15

(* The new node becomes the last of the chain, and the push the only one    *)
(* that holds the node that was the last.                                   *)
LEMMA PushExchangeInv ==
  ASSUME NodesInv, NEW p \in Producers, PushExchange(p)
  PROVE  NodesInv'
<1> USE NullAssumption, PerThreadAssumption DEF NodesInv, producerVars, consumerVars
<1> DEFINE n == new_node[p]
<1> DEFINE len == Len(chain)
<1>1. /\ pc[p] = "exchange" /\ pc' = [pc EXCEPT ![p] = "link"]
      /\ old_head' = [old_head EXCEPT ![p] = head]
      /\ head' = n
      /\ chain' = Append(chain, n)
      /\ UNCHANGED <<tail, next, data, live, sent, new_node, cpc, cnext, popped, phase>>
  BY DEF PushExchange
<1>2. n \in Nodes \ ChainNodes /\ next[n] = NULL
  BY <1>1 DEF Exchanging
<1>3. /\ chain' \in Seq(Nodes) /\ Len(chain') = len + 1
      /\ \A i \in 1 .. len : chain'[i] = chain[i]
      /\ chain'[len + 1] = n
  BY <1>1, <1>2, AppendChain DEF TypeOK
<1>4. len \in Nat /\ len > 0 /\ tail = chain[1] /\ head = chain[len]
  BY DEF ChainShape, TypeOK
<1>5. \A i \in 1 .. len : chain[i] \in ChainNodes /\ chain[i] # n /\ chain[i] \in Nodes
  BY <1>2 DEF ChainNodes, TypeOK
<1>6. phase = "open"
  BY <1>1 DEF RunsAlone, Joined
<1>7. ChainNodes' = ChainNodes \cup {n}
  BY <1>3, <1>4 DEF ChainNodes
<1>8. TypeOK'
  BY <1>1, <1>2, <1>3 DEF TypeOK, Pointers
<1>9. NoLeak'
  <2>1. Unpublished = Unpublished' \cup {n}
    BY <1>1 DEF Unpublished, TypeOK
  <2> QED
    BY <1>1, <1>6, <1>7, <2>1 DEF NoLeak
<1>10. ChainShape'
  <2>1. \A i, j \in 1 .. Len(chain') : chain'[i] = chain'[j] => i = j
    BY <1>3, <1>4, <1>5 DEF ChainShape
  <2> QED
    BY <1>1, <1>2, <1>3, <1>4, <2>1 DEF ChainShape
<1>11. next[chain[len]] = NULL
  BY <1>4 DEF ChainShape
<1>12. LinksFollowChain'
  <2> SUFFICES ASSUME NEW i \in 1 .. Len(chain') - 1
               PROVE  \/ next'[chain'[i]] = chain'[i + 1]
                      \/ /\ next'[chain'[i]] = NULL
                         /\ \E q \in Producers : pc'[q] = "link" /\ old_head'[q] = chain'[i]
                                                   /\ new_node'[q] = chain'[i + 1]
    BY DEF LinksFollowChain
  <2>1. CASE i = len
    BY <1>1, <1>3, <1>4, <1>11, <2>1 DEF TypeOK
  <2>2. CASE i # len
    <3>1. i \in 1 .. len - 1 /\ chain'[i] = chain[i] /\ chain'[i + 1] = chain[i + 1]
      BY <1>3, <1>4, <2>2
    <3>2. \A q \in Producers : pc[q] = "link" =>
            q # p /\ pc'[q] = "link" /\ old_head'[q] = old_head[q]
      BY <1>1 DEF TypeOK
    <3> QED
      BY <1>1, <3>1, <3>2 DEF LinksFollowChain
  <2> QED
    BY <2>1, <2>2
<1>13. Linking'
  <2>1. \A q \in Producers : pc[q] = "link" => old_head[q] # head
    BY <1>4 DEF Linking, ChainShape
  <2> SUFFICES ASSUME NEW q \in Producers, pc'[q] = "link"
               PROVE  /\ \E i \in 1 .. Len(chain') - 1 :
                           old_head'[q] = chain'[i] /\ new_node'[q] = chain'[i + 1]
                      /\ next'[old_head'[q]] = NULL
                      /\ \A r \in Producers :
                           pc'[r] = "link" /\ old_head'[r] = old_head'[q] => r = q
    BY DEF Linking
  <2>2. CASE q = p
    <3>1. old_head'[q] = head /\ new_node'[q] = n
      BY <1>1, <2>2 DEF TypeOK
    <3>2. \A r \in Producers : pc'[r] = "link" /\ r # q => old_head'[r] # head
      BY <1>1, <2>1, <2>2 DEF TypeOK
    <3>3. len \in 1 .. Len(chain') - 1 /\ head = chain'[len] /\ n = chain'[len + 1]
      BY <1>3, <1>4
    <3> QED
      BY <1>1, <1>4, <1>11, <3>1, <3>2, <3>3
  <2>3. CASE q # p
    <3>1. pc[q] = "link" /\ old_head'[q] = old_head[q] /\ new_node'[q] = new_node[q]
      BY <1>1, <2>3 DEF TypeOK
    <3>2. PICK i \in 1 .. len - 1 : old_head[q] = chain[i] /\ new_node[q] = chain[i + 1]
      BY <3>1 DEF Linking
    <3>3. /\ i \in 1 .. Len(chain') - 1
          /\ old_head'[q] = chain'[i] /\ new_node'[q] = chain'[i + 1]
      BY <1>3, <1>4, <3>1, <3>2
    <3>4. \A r \in Producers : pc'[r] = "link" /\ old_head'[r] = old_head'[q] => r = q
      <4> SUFFICES ASSUME NEW r \in Producers, pc'[r] = "link", old_head'[r] = old_head[q]
                   PROVE  r = q
        BY <3>1
      <4>1. r # p
        BY <1>1, <2>1, <3>1 DEF TypeOK
      <4> QED
        BY <1>1, <3>1, <4>1 DEF Linking, TypeOK
    <3> QED
      BY <1>1, <3>1, <3>3, <3>4 DEF Linking
  <2> QED
    BY <2>2, <2>3
<1>14. Exchanging'
  <2>1. \A q \in Producers : pc'[q] = "exchange" =>
          pc[q] = "exchange" /\ q # p /\ new_node[q] # n
    BY <1>1 DEF Exchanging, TypeOK
  <2> QED
    BY <1>1, <1>7, <2>1 DEF Exchanging
<1>15. Taking'
  BY <1>1, <1>3, <1>4 DEF Taking
<1>16. InLoop' /\ RunsAlone'
  BY <1>1, <1>6 DEF InLoop, RunsAlone, TypeOK
<1> QED
  BY <1>8, <1>9, <1>10, <1>12, <1>13, <1>14, <1>15, <1>16


(* The link joins the two nodes the push holds, and no other push or pop    *)
(* looked for it at the first of them.                                      *)
LEMMA PushLinkInv ==
  ASSUME NodesInv, NEW p \in Producers, PushLink(p)
  PROVE  NodesInv'
<1> USE NullAssumption, PerThreadAssumption DEF NodesInv, producerVars, consumerVars
<1> DEFINE len == Len(chain)
<1>1. /\ pc[p] = "link" /\ pc' = [pc EXCEPT ![p] = "new"]
      /\ next' = [next EXCEPT ![old_head[p]] = new_node[p]]
      /\ sent' = [sent EXCEPT ![p] = @ + 1]
      /\ new_node' = [new_node EXCEPT ![p] = NULL]
      /\ old_head' = [old_head EXCEPT ![p] = NULL]
      /\ UNCHANGED <<head, tail, data, live, cpc, cnext, popped, phase, chain>>
  BY DEF PushLink
<1>2. phase = "open"
  BY <1>1 DEF RunsAlone, Joined
<1>3. PICK i \in 1 .. len - 1 : old_head[p] = chain[i] /\ new_node[p] = chain[i + 1]
  BY <1>1 DEF Linking
<1>4. next[chain[i]] = NULL
  BY <1>1, <1>3 DEF Linking
<1>5. len \in Nat /\ \A j \in 1 .. len : chain[j] \in Nodes /\ chain[j] \in ChainNodes
  BY DEF TypeOK, ChainNodes
<1>6. /\ next'[chain[i]] = chain[i + 1]
      /\ \A m \in Nodes : m # chain[i] => next'[m] = next[m]
  BY <1>1, <1>3, <1>5 DEF TypeOK
<1>7. \A j \in 1 .. len : j # i => chain[j] # chain[i] /\ next'[chain[j]] = next[chain[j]]
  BY <1>3, <1>5, <1>6 DEF ChainShape
<1>8. \A q \in Producers : q # p =>
        pc'[q] = pc[q] /\ old_head'[q] = old_head[q] /\ new_node'[q] = new_node[q]
  BY <1>1 DEF TypeOK
<1>9. pc'[p] = "new"
  BY <1>1 DEF TypeOK
<1>10. ChainNodes' = ChainNodes
  BY <1>1 DEF ChainNodes
<1>11. TypeOK'
  <2>1. sent[p] < PerThread
    BY <1>1 DEF InLoop, TypeOK
  <2> QED
    BY <1>1, <1>3, <1>5, <2>1 DEF TypeOK, Pointers
<1>12. NoLeak'
  <2>1. Unpublished' = Unpublished
    BY <1>1, <1>8, <1>9 DEF Unpublished
  <2> QED
    BY <1>1, <1>2, <1>10, <2>1 DEF NoLeak
<1>13. ChainShape'
  <2>1. next'[head] = NULL
    BY <1>3, <1>5, <1>7 DEF ChainShape
  <2> QED
    BY <1>1, <2>1 DEF ChainShape
<1>14. LinksFollowChain'
  <2> SUFFICES ASSUME NEW j \in 1 .. len - 1, j # i
               PROVE  \/ next'[chain[j]] = chain[j + 1]
                      \/ /\ next'[chain[j]] = NULL
                         /\ \E q \in Producers : pc'[q] = "link" /\ old_head'[q] = chain[j]
                                                   /\ new_node'[q] = chain[j + 1]
    BY <1>1, <1>3, <1>6 DEF LinksFollowChain
  <2>1. chain[j] # chain[i] /\ next'[chain[j]] = next[chain[j]]
    BY <1>5, <1>7
  <2>2. CASE next[chain[j]] = chain[j + 1]
    BY <2>1, <2>2
  <2>3. CASE next[chain[j]] # chain[j + 1]
    <3>1. PICK q \in Producers : /\ pc[q] = "link" /\ old_head[q] = chain[j]
                                 /\ new_node[q] = chain[j + 1] /\ next[chain[j]] = NULL
      BY <2>3 DEF LinksFollowChain
    <3>2. q # p
      BY <1>3, <2>1, <3>1
    <3> QED
      BY <1>8, <2>1, <3>1, <3>2
  <2> QED
    BY <2>2, <2>3
<1>15. Linking'
  <2> SUFFICES ASSUME NEW q \in Producers, pc'[q] = "link"
               PROVE  /\ \E j \in 1 .. len - 1 :
                           old_head'[q] = chain[j] /\ new_node'[q] = chain[j + 1]
                      /\ next'[old_head'[q]] = NULL
                      /\ \A r \in Producers :
                           pc'[r] = "link" /\ old_head'[r] = old_head'[q] => r = q
    BY <1>1 DEF Linking
  <2>1. q # p /\ pc[q] = "link" /\ old_head'[q] = old_head[q] /\ new_node'[q] = new_node[q]
    BY <1>8, <1>9
  <2>2. PICK j \in 1 .. len - 1 : old_head[q] = chain[j] /\ new_node[q] = chain[j + 1]
    BY <2>1 DEF Linking
  <2>3. old_head[q] # chain[i]
    BY <1>1, <1>3, <2>1 DEF Linking
  <2>4. next'[old_head[q]] = NULL
    BY <1>5, <1>6, <2>1, <2>2, <2>3, SMTT(40) DEF Linking
  <2>5. \A r \in Producers : pc'[r] = "link" /\ old_head'[r] = old_head'[q] => r = q
    BY <1>8, <1>9, <2>1 DEF Linking
  <2> QED
    BY <2>1, <2>2, <2>4, <2>5
<1>16. Exchanging'
  <2>1. \A q \in Producers : pc'[q] = "exchange" =>
          q # p /\ pc[q] = "exchange" /\ new_node'[q] = new_node[q]
    BY <1>8, <1>9
  <2>2. chain[i] \in ChainNodes
    BY <1>3, <1>5
  <2>3. \A q \in Producers : pc'[q] = "exchange" => next'[new_node[q]] = NULL
    BY <1>6, <2>1, <2>2 DEF Exchanging
  <2> QED
    BY <1>10, <2>1, <2>3 DEF Exchanging
<1>17. Taking'
  <2>1. cpc = "take" => next'[tail] = next[tail]
    <3>1. cpc = "take" => next[tail] # NULL /\ tail = chain[1]
      BY DEF Taking, ChainShape, TypeOK
    <3> QED
      BY <1>3, <1>4, <1>5, <1>7, <3>1
  <2> QED
    BY <1>1, <2>1 DEF Taking
<1>18. InLoop' /\ RunsAlone'
  BY <1>1, <1>2, <1>8, <1>9 DEF InLoop, RunsAlone, TypeOK
<1> QED
  BY <1>11, <1>12, <1>13, <1>14, <1>15, <1>16, <1>17, <1>18


(* A node linked to the first of the chain is the second.                   *)
LEMMA PopLoadInv ==
  ASSUME NodesInv, PopLoad
  PROVE  NodesInv'
<1> USE NullAssumption, PerThreadAssumption DEF NodesInv, producerVars
<1>1. /\ cpc = "idle" /\ cpc' = "take" /\ phase # "destroyed"
      /\ next[tail] # NULL /\ cnext' = next[tail]
      /\ UNCHANGED <<head, tail, next, data, live, pc, sent, new_node, old_head,
                     phase, chain, popped>>
  BY DEF PopLoad, SeesEmpty
<1>2. Len(chain) > 1
  BY <1>1 DEF ChainShape, TypeOK
<1>3. next[tail] = chain[2]
  BY <1>1, <1>2 DEF ChainShape, LinksFollowChain, TypeOK
<1>4. TypeOK'
  BY <1>1 DEF TypeOK, Pointers
<1>5. NoLeak' /\ ChainShape' /\ LinksFollowChain'
  BY <1>1 DEF NoLeak, ChainNodes, Unpublished, ChainShape, LinksFollowChain
<1>6. Linking' /\ Exchanging' /\ InLoop' /\ RunsAlone'
  BY <1>1 DEF Linking, Exchanging, ChainNodes, InLoop, RunsAlone, Joined
<1>7. Taking'
  BY <1>1, <1>2, <1>3 DEF Taking
<1> QED
  BY <1>4, <1>5, <1>6, <1>7

(* No push holds the first node of the chain when it is deleted, because it *)
(* is linked already.                                                       *)
LEMMA PopTakeInv ==
  ASSUME NodesInv, PopTake
  PROVE  NodesInv'
<1> USE NullAssumption, PerThreadAssumption DEF NodesInv, producerVars
<1> DEFINE len == Len(chain)
<1>1. /\ cpc = "take" /\ cpc' = "idle"
      /\ popped' = Append(popped, data[cnext])
      /\ tail' = cnext /\ cnext' = NULL
      /\ live' = live \ {tail}
      /\ chain' = Tail(chain)
      /\ UNCHANGED <<head, next, data, pc, sent, new_node, old_head, phase>>
  BY DEF PopTake
<1>2. /\ len \in Nat /\ len > 1
      /\ cnext = chain[2] /\ tail = chain[1] /\ next[tail] = cnext
      /\ cnext \in Nodes
  BY <1>1 DEF Taking, ChainShape, TypeOK
<1>3. /\ chain' \in Seq(Nodes) /\ Len(chain') = len - 1
      /\ \A i \in 1 .. len - 1 : chain'[i] = chain[i + 1]
  BY <1>1, <1>2, TailChain DEF TypeOK
<1>4. phase # "destroyed"
  BY <1>1 DEF RunsAlone
<1>5. ChainNodes' = ChainNodes \ {tail}
  <2>1. \A i \in 1 .. len : i # 1 => chain[i] # tail
    BY <1>2 DEF ChainShape
  <2>2. \A i \in 2 .. len : i - 1 \in 1 .. len - 1 /\ chain'[i - 1] = chain[i]
    BY <1>2, <1>3
  <2>3. ASSUME NEW m \in ChainNodes' PROVE m \in ChainNodes \ {tail}
    <3>1. PICK i \in 1 .. len - 1 : m = chain[i + 1]
      BY <1>3, <2>3 DEF ChainNodes
    <3> QED
      BY <1>2, <2>1, <3>1 DEF ChainNodes
  <2>4. ASSUME NEW m \in ChainNodes \ {tail} PROVE m \in ChainNodes'
    <3>1. PICK i \in 1 .. len : m = chain[i]
      BY <2>4 DEF ChainNodes
    <3>2. i - 1 \in 1 .. Len(chain') /\ m = chain'[i - 1]
      BY <1>2, <1>3, <2>2, <2>4, <3>1
    <3> QED
      BY <3>2 DEF ChainNodes
  <2> QED
    BY <2>3, <2>4
<1>6. tail \in ChainNodes /\ tail \notin Unpublished
  BY <1>2 DEF ChainNodes, Unpublished, Exchanging
<1>7. TypeOK'
  <2>1. data[cnext] \in Values \cup {NoValue}
    BY <1>2 DEF TypeOK
  <2> QED
    BY <1>1, <1>2, <1>3, <2>1 DEF TypeOK, Pointers
<1>8. NoLeak'
  <2>1. Unpublished' = Unpublished
    BY <1>1 DEF Unpublished
  <2> QED
    BY <1>1, <1>4, <1>5, <1>6, <2>1 DEF NoLeak
<1>9. ChainShape'
  <2>1. head = chain'[len - 1] /\ cnext = chain'[1]
    BY <1>2, <1>3 DEF ChainShape
  <2>2. \A i, j \in 1 .. len - 1 : chain'[i] = chain'[j] => i = j
    <3> SUFFICES ASSUME NEW i \in 1 .. len - 1, NEW j \in 1 .. len - 1, chain'[i] = chain'[j]
                 PROVE  i = j
      OBVIOUS
    <3>1. i + 1 \in 1 .. len /\ j + 1 \in 1 .. len /\ chain[i + 1] = chain[j + 1]
      BY <1>2, <1>3
    <3>2. i + 1 = j + 1
      BY <3>1 DEF ChainShape
    <3> QED
      BY <3>2
  <2> QED
    BY <1>1, <1>2, <1>3, <2>1, <2>2 DEF ChainShape
<1>10. LinksFollowChain'
  <2> SUFFICES ASSUME NEW i \in 1 .. len - 2
               PROVE  \/ next[chain'[i]] = chain'[i + 1]
                      \/ /\ next[chain'[i]] = NULL
                         /\ \E q \in Producers : pc[q] = "link" /\ old_head[q] = chain'[i]
                                                   /\ new_node[q] = chain'[i + 1]
    BY <1>1, <1>2, <1>3 DEF LinksFollowChain
  <2>1. /\ i + 1 \in 1 .. len - 1
        /\ chain'[i] = chain[i + 1] /\ chain'[i + 1] = chain[(i + 1) + 1]
    BY <1>2, <1>3
  <2> QED
    BY <2>1 DEF LinksFollowChain
<1>11. Linking'
  <2> SUFFICES ASSUME NEW q \in Producers, pc[q] = "link"
               PROVE  \E j \in 1 .. Len(chain') - 1 :
                        old_head[q] = chain'[j] /\ new_node[q] = chain'[j + 1]
    BY <1>1 DEF Linking
  <2>1. PICK i \in 1 .. len - 1 : old_head[q] = chain[i] /\ new_node[q] = chain[i + 1]
    BY DEF Linking
  <2>2. i # 1
    BY <1>2, <2>1 DEF Linking
  <2>3. i - 1 \in 1 .. Len(chain') - 1 /\ chain'[i - 1] = chain[i] /\ chain'[(i - 1) + 1] = chain[i + 1]
    BY <1>2, <1>3, <2>1, <2>2
  <2> QED
    BY <2>1, <2>3
<1>12. Exchanging'
  BY <1>1, <1>5 DEF Exchanging
<1>13. Taking' /\ InLoop' /\ RunsAlone'
  BY <1>1, <1>4 DEF Taking, InLoop, RunsAlone, Joined
<1> QED
  BY <1>7, <1>8, <1>9, <1>10, <1>11, <1>12, <1>13

(* The destructor starts when the producers are joined (26-28).             *)
LEMMA BeginDestroyInv ==
  ASSUME NodesInv, BeginDestroy
  PROVE  NodesInv'
<1> USE DEF NodesInv, producerVars, BeginDestroy
<1>1. TypeOK'
  BY DEF TypeOK
<1>2. NoLeak'
  BY DEF NoLeak, ChainNodes, Unpublished
<1>3. ChainShape' /\ LinksFollowChain'
  BY DEF ChainShape, LinksFollowChain
<1>4. Linking' /\ Exchanging' /\ Taking' /\ InLoop' /\ RunsAlone'
  BY DEF Linking, Exchanging, ChainNodes, Taking, InLoop, RunsAlone, Joined
<1> QED
  BY <1>1, <1>2, <1>3, <1>4

(* What pop sees as empty is empty, for no push is in progress: deleting    *)
(* tail deletes the last node.                                              *)
LEMMA DeleteTailInv ==
  ASSUME NodesInv, DeleteTail
  PROVE  NodesInv'
<1> USE NullAssumption DEF NodesInv, producerVars
<1>1. /\ phase = "destructor" /\ phase' = "destroyed"
      /\ cpc = "idle" /\ next[tail] = NULL
      /\ live' = live \ {tail}
      /\ UNCHANGED <<head, tail, next, data, pc, sent, new_node, old_head, cpc, cnext, chain, popped>>
  BY DEF DeleteTail, SeesEmpty
<1>2. Joined
  BY <1>1 DEF RunsAlone
<1>3. Len(chain) = 1
  <2> DEFINE len == Len(chain)
  <2>1. len \in Nat /\ len > 0
    BY DEF ChainShape, TypeOK
  <2>2. \A i \in 1 .. len - 1 : next[chain[i]] = chain[i + 1] /\ chain[i + 1] \in Nodes
    BY <1>2, <2>1 DEF LinksFollowChain, Joined, TypeOK
  <2>3. next[chain[1]] = NULL
    BY <1>1 DEF ChainShape
  <2>4. ~(1 \in 1 .. len - 1)
    BY <2>2, <2>3
  <2> HIDE DEF len
  <2>5. len = 1
    BY <2>1, <2>4
  <2> QED
    BY <2>5 DEF len
<1>4. live = {tail}
  <2>1. ChainNodes = {tail}
    BY <1>3 DEF ChainNodes, ChainShape
  <2>2. Unpublished = {}
    BY <1>2 DEF Unpublished, Joined
  <2> QED
    BY <1>1, <2>1, <2>2 DEF NoLeak
<1>5. TypeOK' /\ NoLeak' /\ ChainShape' /\ LinksFollowChain'
  BY <1>1, <1>4 DEF TypeOK, NoLeak, ChainShape, LinksFollowChain
<1>6. Linking' /\ Exchanging' /\ Taking' /\ InLoop' /\ RunsAlone'
  BY <1>1, <1>2 DEF Linking, Exchanging, ChainNodes, Taking, InLoop, RunsAlone, Joined
<1> QED
  BY <1>5, <1>6

(* A step that changes nothing keeps what holds.                            *)
LEMMA StutterInv ==
  ASSUME NodesInv, UNCHANGED vars
  PROVE  NodesInv'
<1> USE DEF NodesInv, vars
<1>1. TypeOK'
  BY DEF TypeOK
<1>2. NoLeak'
  BY DEF NoLeak, ChainNodes, Unpublished
<1>3. ChainShape' /\ LinksFollowChain'
  BY DEF ChainShape, LinksFollowChain
<1>4. Linking' /\ Exchanging' /\ Taking' /\ InLoop' /\ RunsAlone'
  BY DEF Linking, Exchanging, ChainNodes, Taking, InLoop, RunsAlone, Joined
<1> QED
  BY <1>1, <1>2, <1>3, <1>4

(* NodesInv is inductive: no step of a producer, the consumer or the destructor  *)
(* breaks it.                                                               *)
LEMMA StepInv == NodesInv /\ [Next]_vars => NodesInv'
<1> SUFFICES ASSUME NodesInv, [Next]_vars PROVE NodesInv'
  OBVIOUS
<1>1. ASSUME NEW p \in Producers, Push(p) PROVE NodesInv'
  BY <1>1, PushNewInv, PushExchangeInv, PushLinkInv DEF Push
<1>2. CASE PopFalse \/ Destroyed
  BY <1>2, StutterInv DEF PopFalse, Destroyed
<1> QED
  BY <1>1, <1>2, PopLoadInv, PopTakeInv, BeginDestroyInv, DeleteTailInv, StutterInv DEF Next

-----------------------------------------------------------------------------
(* The values. Pushed is what has been exchanged, and it is all in the      *)
(* queue or in what pop has returned.                                       *)

(* What is pushed is what the producers' counters say.                      *)
LEMMA SamePushed ==
  ASSUME UNCHANGED <<sent, pc>>
  PROVE  Pushed' = Pushed
  BY DEF Pushed

(* Nothing is pushed at first.                                              *)
LEMMA InitAccounted == Init => Accounted
<1> SUFFICES ASSUME Init PROVE Accounted
  OBVIOUS
<1> USE PerThreadAssumption DEF Init
<1>1. Pushed = {}
  BY DEF Pushed, Values
<1>2. Len(chain) = 1 /\ Len(popped) = 0
  OBVIOUS
<1> QED
  BY <1>1, <1>2 DEF Accounted

(* A step that moves no value.                                              *)
LEMMA SameAccounted ==
  ASSUME Accounted, UNCHANGED <<chain, data, popped, sent, pc, new_node>>
  PROVE  Accounted'
<1>1. Pushed' = Pushed
  BY SamePushed
<1>2. \A v : Held(v)' <=> Held(v)
  BY DEF Held
<1> QED
  BY <1>1, <1>2 DEF Accounted

(* The node of a push is filled; it is in no queue.                         *)
LEMMA PushNewAccounted ==
  ASSUME Inv, NEW p \in Producers, PushNew(p)
  PROVE  Accounted'
<1> USE DEF Inv, NodesInv
<1>1. PICK n \in Nodes \ live :
        /\ data' = [data EXCEPT ![n] = <<p, sent[p]>>]
        /\ new_node' = [new_node EXCEPT ![p] = n]
  BY DEF PushNew
<1>2. /\ pc[p] = "new" /\ pc' = [pc EXCEPT ![p] = "exchange"]
      /\ sent[p] < PerThread
      /\ UNCHANGED <<sent, chain, popped>>
  BY DEF PushNew, consumerVars
<1>3. phase = "open"
  BY <1>2 DEF RunsAlone, Joined, TypeOK
<1>4. ChainNodes \subseteq live /\ Unpublished \subseteq live
  BY <1>3 DEF NoLeak
<1>5. \A k \in 1 .. Len(chain) : chain[k] # n /\ data'[chain[k]] = data[chain[k]]
  BY <1>1, <1>4 DEF ChainNodes, TypeOK
<1>6. Pushed' = Pushed
  BY <1>2 DEF Pushed, TypeOK
<1>7. \A v : Held(v)' <=> Held(v)
  <2>1. \A k \in 2 .. Len(chain) : k \in 1 .. Len(chain)
    BY DEF TypeOK
  <2>2. \A k \in 2 .. Len(chain) : data'[chain'[k]] = data[chain[k]]
    BY <1>2, <1>5, <2>1
  <2> QED
    BY <1>2, <2>2 DEF Held
<1>8. \A q \in Producers : pc'[q] = "exchange" => data'[new_node'[q]] = <<q, sent'[q]>>
  <2> SUFFICES ASSUME NEW q \in Producers, pc'[q] = "exchange"
               PROVE  data'[new_node'[q]] = <<q, sent'[q]>>
    OBVIOUS
  <2>1. CASE q = p
    BY <1>1, <1>2, <2>1 DEF TypeOK
  <2>2. CASE q # p
    <3>1. pc[q] = "exchange" /\ new_node'[q] = new_node[q]
      BY <1>1, <1>2, <2>2 DEF TypeOK
    <3>2. new_node[q] # n
      BY <1>4, <3>1 DEF Unpublished
    <3> QED
      BY <1>1, <1>2, <3>1, <3>2 DEF Accounted, Exchanging, TypeOK
  <2> QED
    BY <2>1, <2>2
<1>9. \A k \in 2 .. Len(chain') : data'[chain'[k]] \in Pushed'
  BY <1>2, <1>5, <1>6 DEF Accounted, TypeOK
<1>10. \A k \in 1 .. Len(popped') : popped'[k] \in Pushed'
  BY <1>2, <1>6 DEF Accounted
<1> QED
  BY <1>6, <1>7, <1>8, <1>9, <1>10 DEF Accounted

(* The value enters, and it is new.                                         *)
LEMMA PushExchangeAccounted ==
  ASSUME Inv, NEW p \in Producers, PushExchange(p)
  PROVE  /\ Accounted'
         /\ <<p, sent[p]>> \in Values \ Pushed
         /\ Len(chain') = Len(chain) + 1
         /\ \A k \in 1 .. Len(chain) : chain'[k] = chain[k]
         /\ data'[chain'[Len(chain) + 1]] = <<p, sent[p]>>
<1> USE PerThreadAssumption DEF Inv, NodesInv
<1> DEFINE n == new_node[p]
<1> DEFINE value == <<p, sent[p]>>
<1> DEFINE len == Len(chain)
<1>1. /\ pc[p] = "exchange" /\ pc' = [pc EXCEPT ![p] = "link"]
      /\ chain' = Append(chain, n)
      /\ UNCHANGED <<data, sent, new_node, popped>>
  BY DEF PushExchange, consumerVars
<1>2. n \in Nodes /\ data[n] = value
  BY <1>1 DEF Exchanging, Accounted
<1>3. /\ Len(chain') = len + 1
      /\ \A i \in 1 .. len : chain'[i] = chain[i]
      /\ chain'[len + 1] = n
  BY <1>1, <1>2, AppendChain DEF TypeOK
<1>4. len \in Nat /\ len > 0
  BY DEF ChainShape, TypeOK
<1>5. value \in Values
  <2>1. sent[p] \in 0 .. PerThread /\ sent[p] < PerThread
    BY <1>1 DEF InLoop, TypeOK
  <2>2. sent[p] \in 0 .. PerThread - 1
    BY <2>1
  <2> QED
    BY <2>2 DEF Values
<1>6. value \notin Pushed
  BY <1>1 DEF Pushed, TypeOK
<1>7. Pushed' = Pushed \cup {value}
  <2>1. \A v \in Values : v = <<v[1], v[2]>> /\ v[1] \in Producers /\ v[2] \in Nat
    BY DEF Values
  <2>2. ASSUME NEW v \in Values PROVE v \in Pushed' <=> v \in Pushed \/ v = value
    <3>1. CASE v[1] = p
      <4>1. v = value <=> v[2] = sent[p]
        BY <2>1, <3>1
      <4>2. v \in Pushed' <=> v[2] < sent[p] \/ v[2] = sent[p]
        BY <1>1, <3>1 DEF Pushed, TypeOK
      <4>3. v \in Pushed <=> v[2] < sent[p]
        BY <1>1, <3>1 DEF Pushed, TypeOK
      <4> QED
        BY <4>1, <4>2, <4>3
    <3>2. CASE v[1] # p
      <4>1. v # value
        BY <3>2
      <4>2. v \in Pushed' <=> v \in Pushed
        BY <1>1, <2>1, <3>2 DEF Pushed, TypeOK
      <4> QED
        BY <4>1, <4>2
    <3> QED
      BY <3>1, <3>2
  <2>3. Pushed \subseteq Values /\ Pushed' \subseteq Values
    BY DEF Pushed
  <2> QED
    BY <1>5, <2>2, <2>3
<1>8. \A v \in Pushed' : Held(v)'
  <2>1. ASSUME NEW v, v = value PROVE Held(v)'
    <3>1. len + 1 \in 2 .. Len(chain')
      BY <1>3, <1>4
    <3>2. data'[chain'[len + 1]] = v
      BY <1>1, <1>2, <1>3, <2>1
    <3> QED
      BY <3>1, <3>2 DEF Held
  <2>2. ASSUME NEW v \in Pushed PROVE Held(v)'
    <3>1. Held(v)
      BY DEF Accounted
    <3>2. \A k \in 2 .. len : k \in 2 .. Len(chain') /\ chain'[k] = chain[k]
      BY <1>3, <1>4
    <3> QED
      BY <1>1, <3>1, <3>2 DEF Held
  <2> SUFFICES ASSUME NEW v \in Pushed' PROVE Held(v)'
    OBVIOUS
  <2>3. v \in Pushed \/ v = value
    BY <1>7
  <2> QED
    BY <2>1, <2>2, <2>3
<1>9. \A k \in 2 .. Len(chain') : data'[chain'[k]] \in Pushed'
  <2> SUFFICES ASSUME NEW k \in 2 .. Len(chain') PROVE data'[chain'[k]] \in Pushed'
    OBVIOUS
  <2>1. CASE k = len + 1
    BY <1>1, <1>2, <1>3, <1>7, <2>1
  <2>2. CASE k # len + 1
    <3>1. k \in 2 .. len /\ chain'[k] = chain[k]
      BY <1>3, <1>4, <2>2
    <3> QED
      BY <1>1, <1>7, <3>1 DEF Accounted
  <2> QED
    BY <2>1, <2>2
<1>10. \A k \in 1 .. Len(popped') : popped'[k] \in Pushed'
  BY <1>1, <1>7 DEF Accounted
<1>11. \A q \in Producers : pc'[q] = "exchange" => data'[new_node'[q]] = <<q, sent'[q]>>
  BY <1>1 DEF Accounted, TypeOK
<1>12. Accounted'
  BY <1>8, <1>9, <1>10, <1>11 DEF Accounted
<1> QED
  BY <1>1, <1>2, <1>3, <1>5, <1>6, <1>12

(* The push that has exchanged returns: its value was counted before.       *)
LEMMA PushLinkAccounted ==
  ASSUME Inv, NEW p \in Producers, PushLink(p)
  PROVE  Accounted'
<1> USE PerThreadAssumption DEF Inv, NodesInv
<1>1. /\ pc[p] = "link" /\ pc' = [pc EXCEPT ![p] = "new"]
      /\ sent' = [sent EXCEPT ![p] = @ + 1]
      /\ new_node' = [new_node EXCEPT ![p] = NULL]
      /\ UNCHANGED <<data, chain, popped>>
  BY DEF PushLink, consumerVars
<1>2. Pushed' = Pushed
  <2>1. ASSUME NEW v \in Values PROVE v \in Pushed' <=> v \in Pushed
    <3>1. v[1] \in Producers /\ v[2] \in Nat
      BY DEF Values
    <3>2. CASE v[1] = p
      <4>1. v[2] < sent[p] + 1 <=> v[2] < sent[p] \/ v[2] = sent[p]
        BY <3>1 DEF TypeOK
      <4> QED
        BY <1>1, <3>2, <4>1 DEF Pushed, TypeOK
    <3>3. CASE v[1] # p
      BY <1>1, <3>1, <3>3 DEF Pushed, TypeOK
    <3> QED
      BY <3>2, <3>3
  <2> QED
    BY <2>1 DEF Pushed
<1>3. \A v : Held(v)' <=> Held(v)
  BY <1>1 DEF Held
<1>4. \A q \in Producers : pc'[q] = "exchange" => data'[new_node'[q]] = <<q, sent'[q]>>
  BY <1>1 DEF Accounted, TypeOK
<1> QED
  BY <1>1, <1>2, <1>3, <1>4 DEF Accounted

(* The value at the front of the queue goes to the popped ones.             *)
LEMMA PopTakeAccounted ==
  ASSUME Inv, PopTake
  PROVE  /\ Accounted'
         /\ Len(chain) > 1 /\ Len(chain') = Len(chain) - 1
         /\ \A k \in 1 .. Len(chain) - 1 : chain'[k] = chain[k + 1]
         /\ popped' = Append(popped, data[chain[2]])
<1> USE DEF Inv, NodesInv
<1> DEFINE len == Len(chain)
<1> DEFINE value == data[chain[2]]
<1>1. /\ cpc = "take" /\ popped' = Append(popped, data[cnext])
      /\ chain' = Tail(chain)
      /\ UNCHANGED <<data, sent, pc, new_node>>
  BY DEF PopTake, producerVars
<1>2. len \in Nat /\ len > 1 /\ cnext = chain[2]
  BY <1>1 DEF Taking, TypeOK
<1>3. /\ Len(chain') = len - 1
      /\ \A k \in 1 .. len - 1 : chain'[k] = chain[k + 1]
  BY <1>1, <1>2, TailChain DEF TypeOK
<1>4. /\ Len(popped') = Len(popped) + 1
      /\ \A k \in 1 .. Len(popped) : popped'[k] = popped[k]
      /\ popped'[Len(popped) + 1] = value
  BY <1>1, <1>2 DEF TypeOK
<1>5. Len(popped) \in Nat
  BY DEF TypeOK
<1>6. Pushed' = Pushed
  BY <1>1, SamePushed
<1>7. value \in Pushed
  BY <1>2 DEF Accounted
<1>8. \A v \in Pushed' : Held(v)'
  <2> SUFFICES ASSUME NEW v \in Pushed PROVE Held(v)'
    BY <1>6
  <2>1. Held(v)
    BY DEF Accounted
  <2>2. CASE \E k \in 1 .. Len(popped) : popped[k] = v
    <3>1. \A k \in 1 .. Len(popped) : k \in 1 .. Len(popped')
      BY <1>4, <1>5
    <3> QED
      BY <1>4, <2>2, <3>1 DEF Held
  <2>3. CASE \E k \in 2 .. len : data[chain[k]] = v
    <3>1. PICK k \in 2 .. len : data[chain[k]] = v
      BY <2>3
    <3>2. CASE k = 2
      <4>1. Len(popped) + 1 \in 1 .. Len(popped')
        BY <1>4, <1>5
      <4> QED
        BY <1>4, <3>1, <3>2, <4>1 DEF Held
    <3>3. CASE k # 2
      <4>1. k - 1 \in 2 .. Len(chain') /\ chain'[k - 1] = chain[k]
        BY <1>2, <1>3, <3>3
      <4> QED
        BY <1>1, <3>1, <4>1 DEF Held
    <3> QED
      BY <3>2, <3>3
  <2> QED
    BY <2>1, <2>2, <2>3 DEF Held
<1>9. \A k \in 2 .. Len(chain') : data'[chain'[k]] \in Pushed'
  <2> SUFFICES ASSUME NEW k \in 2 .. Len(chain') PROVE data'[chain'[k]] \in Pushed'
    OBVIOUS
  <2>1. k + 1 \in 2 .. len /\ chain'[k] = chain[k + 1]
    BY <1>2, <1>3
  <2> QED
    BY <1>1, <1>6, <2>1 DEF Accounted
<1>10. \A k \in 1 .. Len(popped') : popped'[k] \in Pushed'
  <2> SUFFICES ASSUME NEW k \in 1 .. Len(popped') PROVE popped'[k] \in Pushed'
    OBVIOUS
  <2>1. CASE k = Len(popped) + 1
    BY <1>4, <1>6, <1>7, <2>1
  <2>2. CASE k # Len(popped) + 1
    <3>1. k \in 1 .. Len(popped)
      BY <1>4, <1>5, <2>2
    <3> QED
      BY <1>4, <1>6, <3>1 DEF Accounted
  <2> QED
    BY <2>1, <2>2
<1>11. \A q \in Producers : pc'[q] = "exchange" => data'[new_node'[q]] = <<q, sent'[q]>>
  BY <1>1 DEF Accounted
<1>12. Accounted'
  BY <1>8, <1>9, <1>10, <1>11 DEF Accounted
<1> QED
  BY <1>1, <1>2, <1>3, <1>12

(* The steps that leave the queue and its values alone.                     *)
Still == UNCHANGED <<chain, data, popped, sent, pc, new_node>>

(* Every step moves a value into the queue or out of it, or none.           *)
LEMMA StepKinds ==
  ASSUME [Next]_vars
  PROVE  \/ \E p \in Producers : Push(p)
         \/ PopTake
         \/ Still
<1>1. CASE PopLoad
  BY <1>1 DEF PopLoad, Still, producerVars
<1>2. CASE BeginDestroy
  BY <1>2 DEF BeginDestroy, Still, producerVars
<1>3. CASE DeleteTail
  BY <1>3 DEF DeleteTail, Still, producerVars
<1>4. CASE PopFalse \/ Destroyed \/ UNCHANGED vars
  BY <1>4 DEF PopFalse, Destroyed, Still, vars
<1> QED
  BY <1>1, <1>2, <1>3, <1>4 DEF Next

(* Every step keeps the account.                                            *)
LEMMA StepAccounted == Inv /\ [Next]_vars => Accounted'
<1> SUFFICES ASSUME Inv, [Next]_vars PROVE Accounted'
  OBVIOUS
<1>1. CASE \E p \in Producers : Push(p)
  BY <1>1, PushNewAccounted, PushExchangeAccounted, PushLinkAccounted DEF Push
<1>2. CASE PopTake
  BY <1>2, PopTakeAccounted
<1>3. CASE Still
  BY <1>3, SameAccounted DEF Inv, Still
<1> QED
  BY <1>1, <1>2, <1>3, StepKinds

-----------------------------------------------------------------------------
(* The inductive invariant: whatever the threads do, every node is in the   *)
(* chain or in the hand of one push, neighbours in the chain are linked or  *)
(* about to be, and every value exchanged is in the queue or popped (push   *)
(* 32-36, pop 38-46, destructor 26-30).                                     *)
THEOREM Invariance == Spec => []Inv
<1>1. Init => Inv
  BY InitInv, InitAccounted DEF Inv
<1>2. Inv /\ [Next]_vars => Inv'
  BY StepInv, StepAccounted DEF Inv
<1> QED
  BY <1>1, <1>2, PTL DEF Spec

(* Every variable keeps its type, whatever the threads do.                  *)
THEOREM TypeCorrect == Spec => []TypeOK
<1>1. Inv => TypeOK
  BY DEF Inv, NodesInv
<1> QED
  BY <1>1, Invariance, PTL

(* No push stores into a deleted node and no pop reads one (push 35, pop    *)
(* 39-45), although nodes are deleted while pushes are in progress and      *)
(* their addresses used again.                                              *)
THEOREM MemorySafety == Spec => []NoUseAfterFree
<1>1. Inv => NoUseAfterFree
  <2> SUFFICES ASSUME Inv PROVE NoUseAfterFree
    OBVIOUS
  <2> USE DEF Inv, NodesInv
  <2>1. \A i \in 1 .. Len(chain) : phase # "destroyed" => chain[i] \in live
    BY DEF NoLeak, ChainNodes
  <2>2. phase # "destroyed" => tail \in live /\ head \in live
    BY <2>1 DEF ChainShape, TypeOK
  <2>3. cpc = "take" => cnext \in live /\ cnext # tail
    <3> SUFFICES ASSUME cpc = "take" PROVE cnext \in live /\ cnext # tail
      OBVIOUS
    <3>1. 1 \in 1 .. Len(chain) /\ 2 \in 1 .. Len(chain) /\ cnext = chain[2] /\ tail = chain[1]
      BY DEF Taking, ChainShape, TypeOK
    <3> QED
      BY <2>1, <3>1 DEF ChainShape, RunsAlone
  <2>4. ASSUME NEW p \in Producers, pc[p] = "link"
        PROVE  {old_head[p], new_node[p]} \subseteq live /\ next[old_head[p]] = NULL
    <3>1. phase # "destroyed"
      BY <2>4 DEF RunsAlone, Joined
    <3>2. PICK i \in 1 .. Len(chain) - 1 : old_head[p] = chain[i] /\ new_node[p] = chain[i + 1]
      BY <2>4 DEF Linking
    <3>3. i \in 1 .. Len(chain) /\ i + 1 \in 1 .. Len(chain)
      BY <3>2 DEF TypeOK
    <3> QED
      BY <2>1, <2>4, <3>1, <3>2, <3>3 DEF Linking
  <2> QED
    BY <2>2, <2>3, <2>4 DEF NoUseAfterFree
<1> QED
  BY <1>1, Invariance, PTL

(* Every node is deleted once it is out of use, and all of them by the end  *)
(* of the destructor (26-30, 45).                                           *)
THEOREM NothingLeaks == Spec => []NoLeak
<1>1. Inv => NoLeak
  BY DEF Inv, NodesInv
<1> QED
  BY <1>1, Invariance, PTL

(* What the tests rely on when they drain after the joins (109, 167): with  *)
(* no push between its exchange and its store, the chain that pop sees the  *)
(* end of is the sentinel alone.                                            *)
LEMMA DrainedWhenFalse == Inv => FalseOnlyWhenDrained
<1> SUFFICES ASSUME Inv, phase # "destroyed", SeesEmpty, cpc = "idle",
                    \A p \in Producers : pc[p] # "link",
                    NEW p \in Producers, NEW k \in 0 .. sent[p] - 1
             PROVE  \E l \in DOMAIN popped : popped[l] = <<p, k>>
  BY DEF FalseOnlyWhenDrained
<1> USE PerThreadAssumption DEF Inv, NodesInv
<1>1. Len(chain) \in Nat /\ Len(chain) > 0
  BY DEF TypeOK, ChainShape
<1>2. ~(Len(chain) > 1)
  <2> SUFFICES ASSUME Len(chain) > 1 PROVE FALSE
    OBVIOUS
  <2>1. 1 \in 1 .. Len(chain) - 1 /\ 2 \in 1 .. Len(chain)
    BY <1>1
  <2>2. next[chain[1]] = chain[2]
    BY <2>1 DEF LinksFollowChain
  <2>3. chain[2] \in Nodes
    BY <2>1 DEF TypeOK
  <2> QED
    BY <2>2, <2>3, NullAssumption DEF SeesEmpty, ChainShape
<1>3. \A l \in 2 .. Len(chain) : FALSE
  BY <1>1, <1>2
<1>4. ASSUME NEW v, v = <<p, k>> PROVE v \in Pushed /\ v[1] = p /\ v[2] = k
  <2>1. sent[p] \in 0 .. PerThread
    BY DEF TypeOK
  <2>2. k \in 0 .. PerThread - 1 /\ k < sent[p]
    BY <2>1
  <2> QED
    BY <1>4, <2>2 DEF Pushed, Values
<1>5. ASSUME NEW v, v = <<p, k>> PROVE \E l \in 1 .. Len(popped) : popped[l] = v
  BY <1>3, <1>4, <1>5 DEF Accounted, Held
<1>6. DOMAIN popped = 1 .. Len(popped)
  BY DEF TypeOK
<1> QED
  BY <1>5, <1>6

(* So pop does not return false too soon (39-40).                           *)
THEOREM FalseMeansDrained == Spec => []FalseOnlyWhenDrained
BY Invariance, DrainedWhenFalse, PTL

(* What a pop that returns false beside values in the queue waits for.      *)
WaitsForTheFirst ==
  phase # "destroyed" /\ cpc = "idle" /\ SeesEmpty /\ Len(chain) > 1 =>
    \E p \in Producers : /\ pc[p] = "link"
                         /\ old_head[p] = tail /\ new_node[p] = chain[2]
                         /\ \A q \in Producers : pc[q] = "link" /\ old_head[q] = tail => q = p

(* The values that a false of pop hides (run mpsc_false) are behind one     *)
(* push, that of the next value to be popped, between its exchange (34) and *)
(* its store (35): the store of that one producer is all that the consumer  *)
(* waits for, however many other pushes are in progress.                    *)
THEOREM HiddenByOnePush == Spec => []WaitsForTheFirst
<1>1. Inv => WaitsForTheFirst
  <2> SUFFICES ASSUME Inv, SeesEmpty, Len(chain) > 1
               PROVE  \E p \in Producers :
                        /\ pc[p] = "link"
                        /\ old_head[p] = tail /\ new_node[p] = chain[2]
                        /\ \A q \in Producers : pc[q] = "link" /\ old_head[q] = tail => q = p
    BY DEF WaitsForTheFirst
  <2> USE DEF Inv, NodesInv
  <2>1. Len(chain) \in Nat /\ tail = chain[1]
    BY DEF TypeOK, ChainShape
  <2>2. 1 \in 1 .. Len(chain) - 1 /\ 2 \in 1 .. Len(chain) /\ 1 + 1 = 2
    BY <2>1
  <2>3. next[chain[1]] # chain[2]
    BY <2>1, <2>2, NullAssumption DEF SeesEmpty, TypeOK
  <2>4. PICK p \in Producers : pc[p] = "link" /\ old_head[p] = chain[1] /\ new_node[p] = chain[2]
    BY <2>2, <2>3 DEF LinksFollowChain
  <2>5. \A q \in Producers : pc[q] = "link" /\ old_head[q] = tail => q = p
    BY <2>1, <2>4 DEF Linking
  <2> QED
    BY <2>1, <2>4, <2>5
<1> QED
  BY <1>1, Invariance, PTL

-----------------------------------------------------------------------------
(* Two queues that differ by a value at the back. *)
LEMMA AppendItems ==
  ASSUME NEW s \in Seq(Values), NEW t \in Seq(Values), NEW v \in Values,
         Len(t) = Len(s) + 1, t[Len(t)] = v,
         \A k \in 1 .. Len(s) : t[k] = s[k]
  PROVE  t = Append(s, v)
<1>1. Append(s, v) \in Seq(Values) /\ Len(Append(s, v)) = Len(t)
  OBVIOUS
<1>2. \A k \in 1 .. Len(t) : Append(s, v)[k] = t[k]
  OBVIOUS
<1> QED
  BY <1>1, <1>2

(* The queue in the order of the exchanges.                                 *)
ItemsOfChain ==
  /\ Items \in Seq(Values) /\ Len(Items) = Len(chain) - 1
  /\ \A k \in 1 .. Len(chain) - 1 : Items[k] = data[chain[k + 1]]

(* It is what the nodes after the sentinel hold.                            *)
LEMMA ItemsType == Inv => ItemsOfChain
<1> SUFFICES ASSUME Inv PROVE ItemsOfChain
  OBVIOUS
<1> USE DEF Inv, NodesInv
<1>1. Len(chain) \in Nat /\ Len(chain) > 0
  BY DEF TypeOK, ChainShape
<1>2. \A k \in 1 .. Len(chain) - 1 : data[chain[k + 1]] \in Values
  <2> SUFFICES ASSUME NEW k \in 1 .. Len(chain) - 1 PROVE data[chain[k + 1]] \in Values
    OBVIOUS
  <2>1. k + 1 \in 2 .. Len(chain)
    BY <1>1
  <2> QED
    BY <2>1 DEF Accounted, Pushed
<1>3. Len(chain) - 1 \in Nat
  BY <1>1
<1>4. Items \in Seq(Values) /\ DOMAIN Items = 1 .. Len(chain) - 1
  BY <1>2, <1>3 DEF Items
<1> QED
  BY <1>3, <1>4 DEF Items, ItemsOfChain

(* A step that leaves the queue and its values alone leaves the items.      *)
LEMMA SameItems ==
  ASSUME UNCHANGED chain,
         \A k \in 1 .. Len(chain) - 1 : data'[chain[k + 1]] = data[chain[k + 1]]
  PROVE  Items' = Items
  BY DEF Items

(* A value enters at the back with the exchange (34), once.                 *)
LEMMA ExchangeEnqueues ==
  ASSUME Inv, Inv', NEW p \in Producers, PushExchange(p)
  PROVE  Queue!Enqueue(<<p, sent[p]>>) /\ <<p, sent[p]>> \in Values
<1> DEFINE value == <<p, sent[p]>>
<1> DEFINE len == Len(chain)
<1>1. len \in Nat /\ len > 0
  BY DEF Inv, NodesInv, TypeOK, ChainShape
<1>2. /\ value \in Values \ Pushed
      /\ Len(chain') = len + 1
      /\ \A k \in 1 .. len : chain'[k] = chain[k]
      /\ data'[chain'[len + 1]] = value
  BY PushExchangeAccounted
<1>3. data' = data /\ popped' = popped
  BY DEF PushExchange, consumerVars
<1>4. /\ Items \in Seq(Values) /\ Len(Items) = len - 1
      /\ \A k \in 1 .. len - 1 : Items[k] = data[chain[k + 1]]
  BY ItemsType DEF ItemsOfChain
<1>5. /\ Items' \in Seq(Values) /\ Len(Items') = len
      /\ \A k \in 1 .. len : Items'[k] = data[chain'[k + 1]]
  <2>1. /\ Items' \in Seq(Values) /\ Len(Items') = Len(chain') - 1
        /\ \A k \in 1 .. Len(chain') - 1 : Items'[k] = data'[chain'[k + 1]]
    <3>1. ItemsOfChain'
      BY ItemsType, PTL
    <3> QED
      BY <3>1 DEF ItemsOfChain
  <2>2. Len(chain') - 1 = len
    BY <1>1, <1>2
  <2> QED
    BY <1>3, <2>1, <2>2
<1>6. \A k \in 1 .. len - 1 : Items'[k] = Items[k]
  <2> SUFFICES ASSUME NEW k \in 1 .. len - 1 PROVE Items'[k] = Items[k]
    OBVIOUS
  <2>1. k \in 1 .. len /\ k + 1 \in 1 .. len
    BY <1>1
  <2> QED
    BY <1>2, <1>4, <1>5, <2>1, ZenonT(60)
<1>7. Items'[len] = value
  <2>1. len \in 1 .. len
    BY <1>1
  <2> QED
    BY <1>2, <1>3, <1>5, <2>1
<1>8. Items' = Append(Items, value)
  <2>1. Len(Items') = Len(Items) + 1 /\ Items'[Len(Items')] = value
    BY <1>1, <1>4, <1>5, <1>7
  <2>2. \A k \in 1 .. Len(Items) : Items'[k] = Items[k]
    BY <1>4, <1>6
  <2> QED
    BY <1>2, <1>4, <1>5, <2>1, <2>2, AppendItems
<1>9. value \notin Queue!Entered
  <2>1. ASSUME NEW k \in DOMAIN Items PROVE Items[k] \in Pushed
    <3>1. k \in 1 .. len - 1
      BY <1>4, <2>1
    <3>2. k + 1 \in 2 .. len
      BY <1>1, <3>1
    <3> QED
      BY <1>4, <3>1, <3>2 DEF Inv, Accounted
  <2>2. ASSUME NEW k \in DOMAIN popped PROVE popped[k] \in Pushed
    BY <2>2 DEF Inv, NodesInv, TypeOK, Accounted
  <2> QED
    BY <1>2, <2>1, <2>2 DEF Queue!Entered
<1> QED
  BY <1>2, <1>3, <1>8, <1>9 DEF Queue!Enqueue

(* And leaves from the front, when pop has returned it (43).                *)
LEMMA TakeDequeues ==
  ASSUME Inv, Inv', PopTake
  PROVE  Queue!Dequeue
<1> DEFINE len == Len(chain)
<1>1. len \in Nat
  BY DEF Inv, NodesInv, TypeOK
<1>2. /\ len > 1 /\ Len(chain') = len - 1
      /\ \A k \in 1 .. len - 1 : chain'[k] = chain[k + 1]
      /\ popped' = Append(popped, data[chain[2]])
  BY PopTakeAccounted
<1>3. data' = data
  BY DEF PopTake
<1>4. /\ Items \in Seq(Values) /\ Len(Items) = len - 1
      /\ \A k \in 1 .. len - 1 : Items[k] = data[chain[k + 1]]
  BY ItemsType DEF ItemsOfChain
<1>5. /\ Items' \in Seq(Values) /\ Len(Items') = len - 2
      /\ \A k \in 1 .. len - 2 : Items'[k] = data[chain'[k + 1]]
  <2>1. /\ Items' \in Seq(Values) /\ Len(Items') = Len(chain') - 1
        /\ \A k \in 1 .. Len(chain') - 1 : Items'[k] = data'[chain'[k + 1]]
    <3>1. ItemsOfChain'
      BY ItemsType, PTL
    <3> QED
      BY <3>1 DEF ItemsOfChain
  <2>2. Len(chain') - 1 = len - 2
    BY <1>1, <1>2
  <2> QED
    BY <1>3, <2>1, <2>2
<1>6. \A k \in 1 .. len - 2 : Items'[k] = Items[k + 1]
  <2> SUFFICES ASSUME NEW k \in 1 .. len - 2 PROVE Items'[k] = Items[k + 1]
    OBVIOUS
  <2>1. k + 1 \in 1 .. len - 1
    BY <1>1
  <2> QED
    BY <1>2, <1>4, <1>5, <2>1, ZenonT(60)
<1>7. Items # <<>> /\ Head(Items) = data[chain[2]]
  <2>1. 1 \in 1 .. len - 1
    BY <1>1, <1>2
  <2>2. Items[1] = data[chain[2]]
    BY <1>4, <2>1
  <2> QED
    BY <1>1, <1>2, <1>4, <2>2
<1>8. Items' = Tail(Items)
  BY <1>1, <1>2, <1>4, <1>5, <1>6, <1>7
<1> QED
  BY <1>2, <1>7, <1>8 DEF Queue!Dequeue

(* A push that has its node, and one that stores its link, move no value.   *)
LEMMA OtherPushSteps ==
  ASSUME Inv, NEW p \in Producers, PushNew(p) \/ PushLink(p)
  PROVE  UNCHANGED Queue!vars
<1> USE DEF Inv, NodesInv
<1>1. popped' = popped /\ chain' = chain
  BY DEF PushNew, PushLink, consumerVars
<1>2. ASSUME NEW k \in 1 .. Len(chain) - 1
      PROVE  data'[chain[k + 1]] = data[chain[k + 1]]
  <2>1. k + 1 \in 1 .. Len(chain)
    BY DEF TypeOK
  <2>2. CASE PushLink(p)
    BY <2>2 DEF PushLink
  <2>3. CASE PushNew(p)
    <3>1. phase # "destroyed"
      BY <2>3 DEF PushNew, RunsAlone, Joined, TypeOK
    <3>2. chain[k + 1] \in live /\ chain[k + 1] \in Nodes
      BY <2>1, <3>1 DEF NoLeak, ChainNodes, TypeOK
    <3> QED
      BY <2>3, <3>2 DEF PushNew, TypeOK
  <2> QED
    BY <2>2, <2>3
<1> QED
  BY <1>1, <1>2, SameItems DEF Queue!vars

(* Every step of the queue is one of the abstract queue, or invisible there.*)
LEMMA QueueSteps == Inv /\ Inv' /\ [Next]_vars => [Queue!Next]_Queue!vars
<1> SUFFICES ASSUME Inv, Inv', [Next]_vars PROVE [Queue!Next]_Queue!vars
  OBVIOUS
<1>1. ASSUME NEW p \in Producers, Push(p) PROVE [Queue!Next]_Queue!vars
  <2>1. CASE PushExchange(p)
    BY <2>1, ExchangeEnqueues DEF Queue!Next
  <2>2. CASE PushNew(p) \/ PushLink(p)
    BY <2>2, OtherPushSteps
  <2> QED
    BY <1>1, <2>1, <2>2 DEF Push
<1>2. CASE PopTake
  BY <1>2, TakeDequeues DEF Queue!Next
<1>3. CASE Still
  BY <1>3, SameItems DEF Still, Queue!vars
<1> QED
  BY <1>1, <1>2, <1>3, StepKinds

(* The linked list of nodes is a queue: a value enters it with the exchange *)
(* on head (34) and leaves it from the front with the pop that returns it   *)
(* (38-46), whatever the producers have linked by then.                     *)
THEOREM ImplementsQueue == Spec => QueueSpec
<1>1. Init => Queue!Init
  <2> SUFFICES ASSUME Init PROVE Queue!Init
    OBVIOUS
  <2>1. Len(chain) = 1 /\ popped = <<>>
    BY DEF Init
  <2>2. Items = <<>>
    BY <2>1 DEF Items
  <2> QED
    BY <2>1, <2>2 DEF Queue!Init
<1> QED
  BY Invariance, QueueSteps, <1>1, PTL DEF Spec, QueueSpec, Queue!Spec

-----------------------------------------------------------------------------
(* The threads of Test 5. What they do to the queue are steps of the queue. *)
LEMMA TestSteps == [TestNext]_allVars => [Next]_vars
<1> SUFFICES ASSUME [TestNext]_allVars PROVE [Next]_vars
  OBVIOUS
<1>1. ASSUME NEW p \in Producers, ProducerStep(p) PROVE Next
  BY <1>1 DEF ProducerStep, Next
<1>2. CASE ConsumerStep
  BY <1>2 DEF ConsumerStep, LoopTest, ConsumerLoad, ConsumerTake, ConsumerFalse,
              LoadDone, Next
<1>3. CASE MainStep
  BY <1>3 DEF MainStep, JoinProducers, StoreDone, JoinConsumer, Destructor, Next
<1>4. CASE TestEnd \/ UNCHANGED allVars
  BY <1>4 DEF TestEnd, allVars
<1> QED
  BY <1>1, <1>2, <1>3, <1>4 DEF TestNext

(* A test is a use of the queue: all that is proved of the queue holds in   *)
(* it (143-180).                                                            *)
THEOREM UsesTheQueue == TestSpec => Spec
<1>1. TestInit => Init
  BY DEF TestInit
<1> QED
  BY <1>1, TestSteps, PTL DEF TestSpec, Spec

(* No value is twice in the queue or popped twice. *)
Once(s, d) == /\ \A k, l \in 1 .. Len(s) : s[k] = s[l] => k = l
              /\ \A k, l \in 1 .. Len(d) : d[k] = d[l] => k = l
              /\ \A k \in 1 .. Len(s), l \in 1 .. Len(d) : s[k] # d[l]

(* A value that is new may enter. *)
LEMMA OnceEnqueue ==
  ASSUME NEW s \in Seq(Values), NEW d \in Seq(Values), NEW v \in Values, Once(s, d),
         \A k \in 1 .. Len(s) : s[k] # v, \A k \in 1 .. Len(d) : d[k] # v
  PROVE  Once(Append(s, v), d)
<1> DEFINE t == Append(s, v)
<1>1. /\ Len(t) = Len(s) + 1 /\ t[Len(s) + 1] = v
      /\ \A k \in 1 .. Len(s) : t[k] = s[k]
  OBVIOUS
<1>2. \A k \in 1 .. Len(t) : k \in 1 .. Len(s) \/ k = Len(s) + 1
  BY <1>1
<1> HIDE DEF t
<1>3. Once(t, d)
  BY <1>1, <1>2, SMTT(40) DEF Once
<1> QED
  BY <1>3 DEF t

(* A value that leaves goes from one sequence to the other. *)
LEMMA OnceDequeue ==
  ASSUME NEW s \in Seq(Values), NEW d \in Seq(Values), Once(s, d), s # <<>>
  PROVE  Once(Tail(s), Append(d, Head(s)))
<1> DEFINE t == Tail(s)
<1> DEFINE e == Append(d, Head(s))
<1>1. /\ Len(s) \in Nat /\ Len(s) > 0 /\ Head(s) = s[1] /\ s[1] \in Values
      /\ Len(t) = Len(s) - 1 /\ \A k \in 1 .. Len(t) : t[k] = s[k + 1]
  OBVIOUS
<1>2. /\ Len(e) = Len(d) + 1 /\ e[Len(d) + 1] = s[1]
      /\ \A k \in 1 .. Len(d) : e[k] = d[k]
  BY <1>1
<1>3. \A k \in 1 .. Len(e) : k \in 1 .. Len(d) \/ k = Len(d) + 1
  BY <1>2
<1>4. \A k \in 1 .. Len(t) : k + 1 \in 1 .. Len(s) /\ k + 1 # 1 /\ k \in Nat
  BY <1>1
<1>5. 1 \in 1 .. Len(s)
  BY <1>1
<1> HIDE DEF t, e
<1>6. \A k, l \in 1 .. Len(t) : t[k] = t[l] => k = l
  BY <1>1, <1>4 DEF Once
<1>7. \A k, l \in 1 .. Len(e) : e[k] = e[l] => k = l
  BY <1>2, <1>3, <1>5 DEF Once
<1>8. ASSUME NEW k \in 1 .. Len(t), NEW l \in 1 .. Len(e) PROVE t[k] # e[l]
  <2>1. t[k] = s[k + 1] /\ k + 1 \in 1 .. Len(s) /\ k + 1 # 1
    BY <1>1, <1>4
  <2>2. CASE l \in 1 .. Len(d)
    BY <1>2, <2>1, <2>2 DEF Once
  <2>3. CASE l = Len(d) + 1
    BY <1>2, <1>5, <2>1, <2>3 DEF Once
  <2> QED
    BY <1>3, <2>2, <2>3
<1>9. Once(t, e)
  BY <1>6, <1>7, <1>8 DEF Once
<1> QED
  BY <1>9 DEF t, e

(* What has been popped are values of producers. *)
LEMMA PoppedType == Inv => popped \in Seq(Values)
<1> SUFFICES ASSUME Inv PROVE popped \in Seq(Values)
  OBVIOUS
<1>1. popped \in Seq(Values \cup {NoValue})
  BY DEF Inv, NodesInv, TypeOK
<1>2. \A k \in 1 .. Len(popped) : popped[k] \in Values
  BY DEF Inv, Accounted, Pushed
<1> QED
  BY <1>1, <1>2

(* The abstract queue keeps values apart, so the queue does. *)
PoppedOnce == Once(Items, popped)

LEMMA OnceStep == Inv /\ PoppedOnce /\ [Queue!Next]_Queue!vars => PoppedOnce'
<1> SUFFICES ASSUME Inv, PoppedOnce, [Queue!Next]_Queue!vars PROVE Once(Items', popped')
  BY DEF PoppedOnce
<1>1. Items \in Seq(Values) /\ popped \in Seq(Values) /\ Once(Items, popped)
  BY ItemsType, PoppedType DEF ItemsOfChain, PoppedOnce
<1>2. ASSUME NEW v \in Values, Queue!Enqueue(v) PROVE Once(Items', popped')
  <2>1. Items' = Append(Items, v) /\ popped' = popped /\ v \notin Queue!Entered
    BY <1>2 DEF Queue!Enqueue
  <2>2. /\ \A k \in 1 .. Len(Items) : Items[k] # v
        /\ \A k \in 1 .. Len(popped) : popped[k] # v
    BY <1>1, <2>1 DEF Queue!Entered
  <2> QED
    BY <1>1, <2>1, <2>2, OnceEnqueue
<1>3. CASE Queue!Dequeue
  BY <1>1, <1>3, OnceDequeue DEF Queue!Dequeue
<1>4. CASE UNCHANGED Queue!vars
  BY <1>1, <1>4 DEF Queue!vars
<1> QED
  BY <1>2, <1>3, <1>4 DEF Queue!Next

(* Each value has been popped. *)
AllPopped == \A v \in Values : \E k \in DOMAIN popped : popped[k] = v

(* A value is a pair of its producer and its number. *)
LEMMA PairOf ==
  \A v \in Values : /\ v = <<v[1], v[2]>>
                     /\ v[1] \in Producers /\ v[2] \in 0 .. PerThread - 1
<1> DEFINE numbers == 0 .. PerThread - 1
<1>1. Values = Producers \X numbers
  BY DEF Values
<1> HIDE DEF numbers
<1>2. \A v \in Values : v = <<v[1], v[2]>> /\ v[1] \in Producers /\ v[2] \in numbers
  BY <1>1
<1> QED
  BY <1>2 DEF numbers

(* There are as many values as Test 5 expects, so that a consumer that has  *)
(* counted as many has them all.                                            *)
LEMMA CountedAll ==
  ASSUME Inv, PoppedOnce
  PROVE  /\ Len(popped) \in Nat /\ Expected \in Nat
         /\ Len(popped) <= Expected
         /\ Len(popped) = Expected <=> AllPopped
<1>1. IsFiniteSet(0 .. PerThread - 1) /\ Cardinality(0 .. PerThread - 1) = PerThread
  BY PerThreadAssumption, FS_Interval
<1>2. IsFiniteSet(Values) /\ Cardinality(Values) = Expected
  BY <1>1, ProducersAssumption, FS_Product DEF Values, Expected
<1>3. Expected \in Nat
  BY <1>2, FS_CardinalityType
<1>4. popped \in Seq(Values)
  BY PoppedType
<1>5. Len(popped) \in Nat /\ DOMAIN popped = 1 .. Len(popped)
  BY <1>4
<1>6. popped \in Injection(1 .. Len(popped), Values)
  BY <1>4, <1>5 DEF PoppedOnce, Once, Injection, IsInjective
<1>7. Cardinality(1 .. Len(popped)) = Len(popped)
  <2>1. \A n \in Nat : Cardinality(1 .. n) = n
    BY FS_Interval
  <2> QED
    BY <1>5, <2>1
<1>8. /\ Len(popped) <= Expected
      /\ Len(popped) = Expected <=> popped \in Surjection(1 .. Len(popped), Values)
  BY <1>2, <1>6, <1>7, FS_Injection
<1>9. popped \in Surjection(1 .. Len(popped), Values) <=> AllPopped
  BY <1>4, <1>5 DEF Surjection, AllPopped
<1> QED
  BY <1>3, <1>5, <1>8, <1>9

-----------------------------------------------------------------------------
(* Where the threads of the test are. *)
Loop == /\ ctl \in {"while", "pop", "flag", "drain", "done"}
        /\ main # "join producers" => Joined
        /\ all_done => main # "join producers"
        /\ ctl = "drain" => all_done
        /\ ctl = "done" => AllPopped

TestInv == count = Len(popped) /\ PoppedOnce /\ Loop

(* Producers that have returned stay so. *)
LEMMA JoinedStays == Joined /\ [Next]_vars => Joined'
<1> SUFFICES ASSUME Joined, [Next]_vars PROVE Joined'
  OBVIOUS
<1>1. ASSUME NEW p \in Producers, Push(p) PROVE FALSE
  <2>1. sent[p] = PerThread /\ pc[p] = "new" /\ ~(sent[p] < PerThread)
    BY PerThreadAssumption DEF Joined
  <2> QED
    BY <1>1, <2>1 DEF Push, PushNew, PushExchange, PushLink
<1>2. CASE PopTake
  BY <1>2 DEF PopTake, producerVars, Joined
<1>3. CASE Still
  BY <1>3 DEF Still, Joined
<1> QED
  BY <1>1, <1>2, <1>3, StepKinds

(* Only the consumer, and only by a pop that returns true, adds to popped.  *)
LEMMA PoppedStays ==
  ASSUME [TestNext]_allVars, ~ConsumerTake PROVE UNCHANGED <<popped, count>>
<1>1. ASSUME NEW p \in Producers, ProducerStep(p) PROVE UNCHANGED <<popped, count>>
  BY <1>1 DEF ProducerStep, Push, PushNew, PushExchange, PushLink, consumerVars, testVars
<1>2. CASE ConsumerStep
  BY <1>2 DEF ConsumerStep, LoopTest, ConsumerLoad, ConsumerFalse, LoadDone,
              PopLoad, PopFalse, vars, testVars
<1>3. CASE MainStep
  BY <1>3 DEF MainStep, JoinProducers, StoreDone, JoinConsumer, Destructor,
              BeginDestroy, DeleteTail, vars
<1>4. CASE TestEnd \/ UNCHANGED allVars
  BY <1>4 DEF TestEnd, allVars, vars, testVars
<1> QED
  BY <1>1, <1>2, <1>3, <1>4 DEF TestNext

(* The consumer's count is the number of values popped. *)
LEMMA CountStep == Inv /\ count = Len(popped) /\ [TestNext]_allVars => count' = Len(popped')
<1> SUFFICES ASSUME Inv, count = Len(popped), [TestNext]_allVars PROVE count' = Len(popped')
  OBVIOUS
<1>1. popped \in Seq(Values \cup {NoValue})
  BY DEF Inv, NodesInv, TypeOK
<1>2. CASE ConsumerTake
  <2>1. popped' = Append(popped, data[cnext]) /\ count' = count + 1
    BY <1>2 DEF ConsumerTake, PopTake
  <2>2. data[cnext] \in Values \cup {NoValue}
    BY <1>2 DEF ConsumerTake, PopTake, Inv, NodesInv, TypeOK, Pointers
  <2> QED
    BY <1>1, <2>1, <2>2
<1>3. CASE ~ConsumerTake
  BY <1>3, PoppedStays
<1> QED
  BY <1>2, <1>3

(* The consumer is done when it has counted them all, or when a pop fails   *)
(* after the flag, which is raised when no push is in progress.             *)
LEMMA LoopStep == Inv /\ TestInv /\ [TestNext]_allVars => Loop'
<1> SUFFICES ASSUME Inv, TestInv, [TestNext]_allVars PROVE Loop'
  OBVIOUS
<1> USE DEF TestInv, Loop
<1>0. Joined => Joined'
  BY TestSteps, JoinedStays
<1>1. ASSUME NEW p \in Producers, ProducerStep(p) PROVE Loop'
  BY <1>0, <1>1 DEF ProducerStep, testVars, Push, PushNew, PushExchange, PushLink,
                    consumerVars, AllPopped
<1>2. CASE LoopTest
  <2>1. ctl' = "done" => AllPopped
    <3> SUFFICES ASSUME ctl' = "done" PROVE AllPopped
      OBVIOUS
    <3>1. ~(count < Expected)
      BY <1>2 DEF LoopTest
    <3> HIDE DEF Loop
    <3>2. Len(popped) = Expected
      BY <3>1, CountedAll
    <3> QED
      BY <3>2, CountedAll
  <2> QED
    BY <1>0, <1>2, <2>1 DEF LoopTest, vars, AllPopped
<1>3. CASE ConsumerLoad
  BY <1>0, <1>3 DEF ConsumerLoad, testVars, PopLoad, AllPopped
<1>4. CASE ConsumerTake
  BY <1>0, <1>4 DEF ConsumerTake
<1>5. CASE ConsumerFalse
  <2>1. ctl' = "done" => AllPopped
    <3> SUFFICES ASSUME ctl' = "done" PROVE AllPopped
      OBVIOUS
    <3>1. Joined /\ phase # "destroyed" /\ SeesEmpty /\ cpc = "idle"
      BY <1>5 DEF ConsumerFalse, PopFalse
    <3>2. \A p \in Producers : \A i \in 0 .. sent[p] - 1 :
             \E k \in DOMAIN popped : popped[k] = <<p, i>>
      BY <3>1, DrainedWhenFalse DEF FalseOnlyWhenDrained, Joined
    <3>3. \A p \in Producers : sent[p] = PerThread
      BY <3>1 DEF Joined
    <3>4. \A p \in Producers : \A i \in 0 .. PerThread - 1 :
             \E k \in DOMAIN popped : popped[k] = <<p, i>>
      BY <3>2, <3>3
    <3>5. ASSUME NEW v \in Values PROVE \E k \in DOMAIN popped : popped[k] = v
      <4>1. v = <<v[1], v[2]>> /\ v[1] \in Producers /\ v[2] \in 0 .. PerThread - 1
        BY PairOf
      <4> QED
        BY <3>4, <4>1
    <3> QED
      BY <3>5 DEF AllPopped
  <2> QED
    BY <1>0, <1>5, <2>1 DEF ConsumerFalse, PopFalse, vars, AllPopped
<1>6. CASE LoadDone
  BY <1>0, <1>6 DEF LoadDone, vars, AllPopped
<1>7. CASE MainStep
  BY <1>0, <1>7 DEF MainStep, JoinProducers, StoreDone, JoinConsumer, Destructor,
                    BeginDestroy, DeleteTail, vars, AllPopped
<1>8. CASE TestEnd \/ UNCHANGED allVars
  <2>1. popped' = popped /\ ctl' = ctl /\ main' = main /\ all_done' = all_done
    BY <1>8, Zenon DEF TestEnd, allVars, testVars, vars
  <2> QED
    BY <1>0, <2>1, Zenon DEF AllPopped
<1> HIDE DEF Loop, TestInv
<1> QED
  BY <1>1, <1>2, <1>3, <1>4, <1>5, <1>6, <1>7, <1>8 DEF TestNext, ConsumerStep

(* The assertion of line 177, for any number of producers and of pushes:    *)
(* when the consumer has left its loop it has counted every value, none     *)
(* twice, although a pop may fail while values are in the queue.            *)
THEOREM TestCountsAll == TestSpec => []AllCounted
<1>1. TestInit => TestInv
  <2> SUFFICES ASSUME TestInit PROVE TestInv
    OBVIOUS
  <2>1. Len(chain) = 1 /\ popped = <<>> /\ count = 0
    BY DEF TestInit, Init
  <2>2. Items = <<>>
    BY <2>1 DEF Items
  <2>3. PoppedOnce
    BY <2>1, <2>2 DEF PoppedOnce, Once
  <2>4. Loop
    BY DEF TestInit, Loop
  <2> QED
    BY <2>1, <2>3, <2>4 DEF TestInv
<1>2. Inv /\ Inv' /\ TestInv /\ [TestNext]_allVars => TestInv'
  <2> SUFFICES ASSUME Inv, Inv', TestInv, [TestNext]_allVars PROVE TestInv'
    OBVIOUS
  <2>1. PoppedOnce'
    BY QueueSteps, TestSteps, OnceStep DEF TestInv
  <2> QED
    BY <2>1, CountStep, LoopStep DEF TestInv
<1>3. Inv /\ TestInv => AllCounted
  <2> SUFFICES ASSUME Inv, TestInv, ctl = "done" PROVE count = Expected /\ AllPopped
    BY DEF AllCounted, AllPopped
  <2>1. AllPopped /\ count = Len(popped) /\ PoppedOnce
    BY DEF TestInv, Loop
  <2> QED
    BY <2>1, CountedAll
<1> QED
  BY <1>1, <1>2, <1>3, UsesTheQueue, Invariance, PTL DEF TestSpec
=============================================================================
