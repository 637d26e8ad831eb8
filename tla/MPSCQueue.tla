------------------------------ MODULE MPSCQueue ------------------------------
(***************************************************************************)
(* The multi-producer single-consumer queue of                             *)
(* 03-concurrency/exercises/mpsc_queue.cpp, one step per access to shared  *)
(* memory.                                                                 *)
(*                                                                         *)
(* A node is an address of the heap; `new` may return any address that is  *)
(* not allocated, so one that `delete` gave back comes round again.        *)
(* `chain` is a history variable: the nodes from tail to head in the order *)
(* of the exchanges on head, which the next pointers follow only once      *)
(* every push in progress has stored its link.                             *)
(***************************************************************************)
EXTENDS Naturals, Sequences, FiniteSets

CONSTANTS Producers,   \* the threads that push
          Nodes,       \* the addresses of the heap
          NULL,        \* nullptr
          PerThread    \* pushes made by one producer (N, PER_THREAD in main)

ASSUME NullAssumption == NULL \notin Nodes
ASSUME PerThreadAssumption == PerThread \in Nat

VARIABLES
  head, tail,          \* the fields of the queue
  next, data,          \* the fields of every node
  live,                \* the addresses allocated
  pc,                  \* where in push a producer is
  sent,                \* pushes a producer has completed
  new_node, old_head,  \* locals of push
  cpc, cnext,          \* where in pop the consumer is; its local `next`
  phase,               \* the queue is open, in its destructor, or destroyed
  chain,               \* history: live nodes from tail to head
  popped               \* history: the values pop has returned

vars == <<head, tail, next, data, live, pc, sent, new_node, old_head,
          cpc, cnext, phase, chain, popped>>

producerVars == <<pc, sent, new_node, old_head>>
consumerVars == <<cpc, cnext, popped, phase>>

NoValue == <<>>                            \* data of a node built by Node()
Values == Producers \X (0 .. PerThread - 1) \* t * PER_THREAD + i, as <<t, i>>
Pointers == Nodes \cup {NULL}

(* The constructor: a sentinel both head and tail point to. *)
Init ==
  \E sentinel \in Nodes :
    /\ head = sentinel
    /\ tail = sentinel
    /\ next = [n \in Nodes |-> NULL]
    /\ data = [n \in Nodes |-> NoValue]
    /\ live = {sentinel}
    /\ pc = [p \in Producers |-> "new"]
    /\ sent = [p \in Producers |-> 0]
    /\ new_node = [p \in Producers |-> NULL]
    /\ old_head = [p \in Producers |-> NULL]
    /\ cpc = "idle"
    /\ cnext = NULL
    /\ phase = "open"
    /\ chain = <<sentinel>>
    /\ popped = <<>>

-----------------------------------------------------------------------------
(* push *)

(* Node* new_node = new Node(value), for the next i of the producer's loop. *)
PushNew(p) ==
  /\ pc[p] = "new"
  /\ sent[p] < PerThread
  /\ \E n \in Nodes \ live :
       /\ live' = live \cup {n}
       /\ data' = [data EXCEPT ![n] = <<p, sent[p]>>]
       /\ next' = [next EXCEPT ![n] = NULL]
       /\ new_node' = [new_node EXCEPT ![p] = n]
  /\ pc' = [pc EXCEPT ![p] = "exchange"]
  /\ UNCHANGED <<head, tail, sent, old_head, consumerVars, chain>>

(* old_head = head.exchange(new_node): from here the value has its place in *)
(* the queue although nothing points to its node.                           *)
PushExchange(p) ==
  /\ pc[p] = "exchange"
  /\ old_head' = [old_head EXCEPT ![p] = head]
  /\ head' = new_node[p]
  /\ chain' = Append(chain, new_node[p])
  /\ pc' = [pc EXCEPT ![p] = "link"]
  /\ UNCHANGED <<tail, next, data, live, sent, new_node, consumerVars>>

(* Bug variant: the link is stored in the node that is head by now. *)
PushLinkFromHead(p) ==
  /\ pc[p] = "link"
  /\ next' = [next EXCEPT ![head] = new_node[p]]
  /\ sent' = [sent EXCEPT ![p] = @ + 1]
  /\ new_node' = [new_node EXCEPT ![p] = NULL]
  /\ old_head' = [old_head EXCEPT ![p] = NULL]
  /\ pc' = [pc EXCEPT ![p] = "new"]
  /\ UNCHANGED <<head, tail, data, live, consumerVars, chain>>

(* old_head->next.store(new_node), and push returns: its locals are gone. *)
PushLink(p) ==
  /\ pc[p] = "link"
  /\ next' = [next EXCEPT ![old_head[p]] = new_node[p]]
  /\ sent' = [sent EXCEPT ![p] = @ + 1]
  /\ new_node' = [new_node EXCEPT ![p] = NULL]
  /\ old_head' = [old_head EXCEPT ![p] = NULL]
  /\ pc' = [pc EXCEPT ![p] = "new"]
  /\ UNCHANGED <<head, tail, data, live, consumerVars, chain>>

-----------------------------------------------------------------------------
(* pop, called by the one consumer and, last of all, by the destructor *)

(* tail->next is nullptr: what empty() answers, and when pop returns false. *)
SeesEmpty == next[tail] = NULL

(* next = tail->next.load(), not nullptr. *)
PopLoad ==
  /\ cpc = "idle"
  /\ phase # "destroyed"
  /\ ~SeesEmpty
  /\ cnext' = next[tail]
  /\ cpc' = "take"
  /\ UNCHANGED <<head, tail, next, data, live, producerVars, phase, chain, popped>>

(* pop returns false. *)
PopFalse ==
  /\ cpc = "idle"
  /\ phase # "destroyed"
  /\ SeesEmpty
  /\ UNCHANGED vars

(* Bug variant: the value is read from the sentinel. *)
PopTakeSentinelData ==
  /\ cpc = "take"
  /\ popped' = Append(popped, data[tail])
  /\ tail' = cnext
  /\ live' = live \ {tail}
  /\ cnext' = NULL
  /\ cpc' = "idle"
  /\ chain' = Tail(chain)
  /\ UNCHANGED <<head, next, data, producerVars, phase>>

(* Bug variant: the node just taken is deleted, not the old sentinel. *)
PopTakeDeletesNext ==
  /\ cpc = "take"
  /\ popped' = Append(popped, data[cnext])
  /\ tail' = cnext
  /\ live' = live \ {cnext}
  /\ cnext' = NULL
  /\ cpc' = "idle"
  /\ chain' = Tail(chain)
  /\ UNCHANGED <<head, next, data, producerVars, phase>>

(* result = move(next->data); tail = next; delete old_tail; return true.   *)
(* Nobody but the consumer reads tail, and the two nodes are out of the    *)
(* producers' reach (LinksFollowChain), so this is one step.               *)
PopTake ==
  /\ cpc = "take"
  /\ popped' = Append(popped, data[cnext])
  /\ tail' = cnext
  /\ live' = live \ {tail}
  /\ cnext' = NULL
  /\ cpc' = "idle"
  /\ chain' = Tail(chain)
  /\ UNCHANGED <<head, next, data, producerVars, phase>>

-----------------------------------------------------------------------------
(* The destructor *)

Joined == \A p \in Producers : pc[p] = "new" /\ sent[p] = PerThread

(* The owner destroys the queue when it has joined the producers and no    *)
(* pop is in progress.                                                     *)
BeginDestroy ==
  /\ phase = "open"
  /\ Joined
  /\ cpc = "idle"
  /\ phase' = "destructor"
  /\ UNCHANGED <<head, tail, next, data, live, producerVars, cpc, cnext, chain, popped>>

(* while (pop(val)) {} has ended; delete tail. *)
DeleteTail ==
  /\ phase = "destructor"
  /\ cpc = "idle"
  /\ SeesEmpty
  /\ live' = live \ {tail}
  /\ phase' = "destroyed"
  /\ UNCHANGED <<head, tail, next, data, producerVars, cpc, cnext, chain, popped>>

-----------------------------------------------------------------------------
(* The queue is gone: nothing is left to do. *)
Destroyed == phase = "destroyed" /\ UNCHANGED vars

Push(p) == PushNew(p) \/ PushExchange(p) \/ PushLink(p)

Next == \/ \E p \in Producers : Push(p)
        \/ PopLoad \/ PopFalse \/ PopTake
        \/ BeginDestroy \/ DeleteTail \/ Destroyed

Spec == Init /\ [][Next]_vars

-----------------------------------------------------------------------------
TypeOK ==
  /\ head \in Nodes
  /\ tail \in Nodes
  /\ next \in [Nodes -> Pointers]
  /\ data \in [Nodes -> Values \cup {NoValue}]
  /\ live \in SUBSET Nodes
  /\ pc \in [Producers -> {"new", "exchange", "link"}]
  /\ sent \in [Producers -> 0 .. PerThread]
  /\ new_node \in [Producers -> Pointers]
  /\ old_head \in [Producers -> Pointers]
  /\ cpc \in {"idle", "take"}
  /\ cnext \in Pointers
  /\ cpc = "take" => cnext # NULL
  /\ phase \in {"open", "destructor", "destroyed"}
  /\ chain \in Seq(Nodes)
  /\ popped \in Seq(Values \cup {NoValue})

(* No thread dereferences a deleted node. A producer that has exchanged     *)
(* stores into old_head->next while the consumer deletes nodes: the node it *)
(* holds must still be allocated, and still be the node it exchanged, not a *)
(* later one at the same address.                                           *)
NoUseAfterFree ==
  /\ phase # "destroyed" => tail \in live /\ head \in live
  /\ cpc = "take" => cnext \in live /\ cnext # tail
  /\ \A p \in Producers :
       pc[p] = "link" =>
         /\ {old_head[p], new_node[p]} \subseteq live
         /\ next[old_head[p]] = NULL

(* The next pointers spell the queue: two nodes adjacent in exchange order  *)
(* are linked, or exactly the producer between its exchange and its store   *)
(* is about to link them (push, lines 34-35).                               *)
LinksFollowChain ==
  \A i \in 1 .. Len(chain) - 1 :
    \/ next[chain[i]] = chain[i + 1]
    \/ /\ next[chain[i]] = NULL
       /\ \E p \in Producers :
            pc[p] = "link" /\ old_head[p] = chain[i] /\ new_node[p] = chain[i + 1]

(* No leak: an allocated node is in the queue or in the hand of a push that *)
(* has not published it, and the destructor leaves nothing behind           *)
(* (lines 26-30 delete the drained nodes and the last sentinel).            *)
ChainNodes == {chain[i] : i \in 1 .. Len(chain)}
Unpublished == {new_node[p] : p \in {q \in Producers : pc[q] = "exchange"}}
NoLeak == live = IF phase = "destroyed" THEN {} ELSE ChainNodes \cup Unpublished

(* The rest of what makes the invariants above inductive: the chain runs    *)
(* without repetition from tail to head, where it ends; a push about to     *)
(* link holds two neighbours of it, and no other push the same two; nodes   *)
(* not yet published are apart from it and from each other; a pop about to  *)
(* take holds its second node; a destructor runs alone.                     *)
ChainShape ==
  /\ Len(chain) > 0
  /\ tail = chain[1]
  /\ head = chain[Len(chain)]
  /\ \A i, j \in 1 .. Len(chain) : chain[i] = chain[j] => i = j
  /\ next[head] = NULL

Linking ==
  \A p \in Producers : pc[p] = "link" =>
    /\ \E i \in 1 .. Len(chain) - 1 :
         old_head[p] = chain[i] /\ new_node[p] = chain[i + 1]
    /\ next[old_head[p]] = NULL
    /\ \A q \in Producers : pc[q] = "link" /\ old_head[q] = old_head[p] => q = p

Exchanging ==
  \A p \in Producers : pc[p] = "exchange" =>
    /\ new_node[p] \in Nodes \ ChainNodes
    /\ next[new_node[p]] = NULL
    /\ \A q \in Producers : pc[q] = "exchange" /\ new_node[q] = new_node[p] => q = p

Taking ==
  cpc = "take" => Len(chain) > 1 /\ cnext = chain[2] /\ next[tail] = cnext

InLoop == \A p \in Producers : pc[p] # "new" => sent[p] < PerThread

RunsAlone == /\ phase # "open" => Joined
             /\ phase = "destroyed" => cpc = "idle"

NodesInv == /\ TypeOK /\ NoLeak /\ ChainShape /\ LinksFollowChain
            /\ Linking /\ Exchanging /\ Taking /\ InLoop /\ RunsAlone

(* Every value a push has exchanged is in the queue or was popped, and      *)
(* nothing else is; the node of a push about to exchange holds its value.   *)
Pushed == {v \in Values : \/ v[2] < sent[v[1]]
                          \/ v[2] = sent[v[1]] /\ pc[v[1]] = "link"}
Held(v) == \/ \E k \in 2 .. Len(chain) : data[chain[k]] = v
           \/ \E k \in 1 .. Len(popped) : popped[k] = v
Accounted ==
  /\ \A v \in Pushed : Held(v)
  /\ \A k \in 2 .. Len(chain) : data[chain[k]] \in Pushed
  /\ \A k \in 1 .. Len(popped) : popped[k] \in Pushed
  /\ \A p \in Producers : pc[p] = "exchange" => data[new_node[p]] = <<p, sent[p]>>

(* Where every node and every value is, after any steps of any threads      *)
(* (20-46).                                                                 *)
Inv == NodesInv /\ Accounted

(* Values in the queue, in the order they will be popped. *)
Items == [i \in 1 .. Len(chain) - 1 |-> data[chain[i + 1]]]

(* What the tests rely on when they drain after the joins (109, 167): if no *)
(* push is between its exchange and its store, pop returns false only when  *)
(* everything pushed has been popped.                                       *)
FalseOnlyWhenDrained ==
  /\ phase # "destroyed" /\ SeesEmpty /\ cpc = "idle"
  /\ \A p \in Producers : pc[p] # "link"
  => \A p \in Producers : \A i \in 0 .. sent[p] - 1 :
       \E k \in DOMAIN popped : popped[k] = <<p, i>>

(* 03-concurrency/README.md:885 comments the return of false with "the      *)
(* queue is empty": then every push that has returned would have been       *)
(* popped. A push still between 34 and 35 hides the completed ones behind   *)
(* it.                                                                      *)
FalseMeansEmpty ==
  phase # "destroyed" /\ SeesEmpty /\ cpc = "idle" =>
    \A p \in Producers : \A i \in 0 .. sent[p] - 1 :
       \E k \in DOMAIN popped : popped[k] = <<p, i>>

(* The queue implements the abstract one: a value enters with the exchange  *)
(* and leaves with PopTake; every other step is invisible.                  *)
Queue == INSTANCE FIFOQueue WITH items <- Items, delivered <- popped
QueueSpec == Queue!Spec
=============================================================================
