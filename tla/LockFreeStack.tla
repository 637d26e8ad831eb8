---------------------------- MODULE LockFreeStack ----------------------------
(***************************************************************************)
(* 03-concurrency/exercises/lock_free_stack.cpp: the stack, one step per   *)
(* access to shared memory, and the threads of test_concurrent_push_pop,   *)
(* of which any number of poppers take part; without one, they are those   *)
(* of test_concurrent_push, where main drains what is left.                *)
(*                                                                         *)
(* A node is an address of the heap; `new` may return any address that is  *)
(* not allocated. What a deleted node holds is undefined, so that a read   *)
(* of it may return anything.                                              *)
(***************************************************************************)
EXTENDS Naturals, Sequences, FiniteSets

CONSTANTS Pushers, Poppers,
          Nodes,      \* the addresses of the heap
          NULL,       \* nullptr
          NumItems    \* pushes of one pusher

ASSUME NullAssumption == NULL \notin Nodes
ASSUME NumItemsAssumption == NumItems \in Nat
ASSUME PushersAssumption == IsFiniteSet(Pushers)

VARIABLES
  head,             \* the field of the stack
  next, data,       \* the fields of every node
  live,             \* the addresses allocated
  pc, new_node,     \* where a pusher is in push; its local
  pushed,           \* pushes a pusher has completed: its i
  cpc,              \* where a popper is, in its loop and in pop
  old_head, desired, \* locals of pop, and old_head->next as it was read
  total_popped,     \* the counter of the poppers
  done_pushing,
  main, remaining,  \* where main is, and its counter
  stack,            \* history: the nodes pushed and not popped, the top first
  popped            \* history: the values popped

pushVars == <<pc, new_node, pushed>>
popVars == <<cpc, old_head, desired, total_popped>>
mainVars == <<done_pushing, main, remaining>>
vars == <<head, next, data, live, pushVars, popVars, mainVars, stack, popped>>

NoValue == <<>>
Values == Pushers \X (0 .. NumItems - 1)
Pointers == Nodes \cup {NULL}

Init == /\ head = NULL
        /\ next = [n \in Nodes |-> NULL]
        /\ data = [n \in Nodes |-> NoValue]
        /\ live = {}
        /\ pc = [p \in Pushers |-> "new"]
        /\ new_node = [p \in Pushers |-> NULL]
        /\ pushed = [p \in Pushers |-> 0]
        /\ cpc \in [Poppers -> {"flag", "done"}]
        /\ old_head = [c \in Poppers |-> NULL]
        /\ desired = [c \in Poppers |-> NULL]
        /\ total_popped = 0
        /\ done_pushing = FALSE
        /\ main = "join pushers"
        /\ remaining = 0
        /\ stack = <<>>
        /\ popped = <<>>

-----------------------------------------------------------------------------
(* push *)

(* new Node(value), next = nullptr *)
PushNew(p) ==
  /\ pc[p] = "new"
  /\ pushed[p] < NumItems
  /\ \E n \in Nodes \ live :
       /\ live' = live \cup {n}
       /\ data' = [data EXCEPT ![n] = <<p, pushed[p]>>]
       /\ next' = [next EXCEPT ![n] = NULL]
       /\ new_node' = [new_node EXCEPT ![p] = n]
  /\ pc' = [pc EXCEPT ![p] = "load"]
  /\ UNCHANGED <<head, pushed, popVars, mainVars, stack, popped>>

(* new_node->next = head.load() *)
PushLoad(p) ==
  /\ pc[p] = "load"
  /\ next' = [next EXCEPT ![new_node[p]] = head]
  /\ pc' = [pc EXCEPT ![p] = "cas"]
  /\ UNCHANGED <<head, data, live, new_node, pushed, popVars, mainVars, stack, popped>>

(* Bug variant: head is stored, whatever it has become. *)
PushStore(p) ==
  /\ pc[p] = "cas"
  /\ head' = new_node[p]
  /\ stack' = <<new_node[p]>> \o stack
  /\ pushed' = [pushed EXCEPT ![p] = @ + 1]
  /\ new_node' = [new_node EXCEPT ![p] = NULL]
  /\ pc' = [pc EXCEPT ![p] = "new"]
  /\ UNCHANGED <<next, data, live, popVars, mainVars, popped>>

(* The exchange succeeds: push returns, and the pusher counts it. *)
PushCAS(p) ==
  /\ pc[p] = "cas"
  /\ head = next[new_node[p]]
  /\ head' = new_node[p]
  /\ stack' = <<new_node[p]>> \o stack
  /\ pushed' = [pushed EXCEPT ![p] = @ + 1]
  /\ new_node' = [new_node EXCEPT ![p] = NULL]
  /\ pc' = [pc EXCEPT ![p] = "new"]
  /\ UNCHANGED <<next, data, live, popVars, mainVars, popped>>

(* Bug variant: the expected value is not updated by a failure. *)
PushCASFailsStale(p) ==
  /\ pc[p] = "cas"
  /\ head # next[new_node[p]]
  /\ UNCHANGED vars

(* It fails: the expected value, new_node->next, becomes head. (When it     *)
(* fails spuriously, next is head already and nothing changes.)             *)
PushCASFails(p) ==
  /\ pc[p] = "cas"
  /\ head # next[new_node[p]]
  /\ next' = [next EXCEPT ![new_node[p]] = head]
  /\ UNCHANGED <<head, data, live, pushVars, popVars, mainVars, stack, popped>>

PusherStep(p) == PushNew(p) \/ PushLoad(p) \/ PushCAS(p) \/ PushCASFails(p)

-----------------------------------------------------------------------------
(* The loop of a popper, and pop *)

(* while (!done_pushing.load() ... *)
TestFlag(c) ==
  /\ cpc[c] = "flag"
  /\ cpc' = [cpc EXCEPT ![c] = IF done_pushing THEN "empty" ELSE "load"]
  /\ UNCHANGED <<head, next, data, live, pushVars, old_head, desired, total_popped,
                 mainVars, stack, popped>>

(* ... || !stack.empty()) *)
TestEmpty(c) ==
  /\ cpc[c] = "empty"
  /\ cpc' = [cpc EXCEPT ![c] = IF head = NULL THEN "done" ELSE "load"]
  /\ UNCHANGED <<head, next, data, live, pushVars, old_head, desired, total_popped,
                 mainVars, stack, popped>>

(* pop has got hold of h: go on, or return false. *)
Hold(c, h) ==
  /\ old_head' = [old_head EXCEPT ![c] = h]
  /\ cpc' = [cpc EXCEPT ![c] = IF h = NULL THEN "flag" ELSE "read"]

(* old_head = head.load() *)
PopLoad(c) ==
  /\ cpc[c] = "load"
  /\ Hold(c, head)
  /\ UNCHANGED <<head, next, data, live, pushVars, desired, total_popped, mainVars,
                 stack, popped>>

(* The argument old_head->next, evaluated before the exchange. *)
PopRead(c) ==
  /\ cpc[c] = "read"
  /\ \E n \in IF old_head[c] \in live THEN {next[old_head[c]]} ELSE Pointers :
       desired' = [desired EXCEPT ![c] = n]
  /\ cpc' = [cpc EXCEPT ![c] = "cas"]
  /\ UNCHANGED <<head, next, data, live, pushVars, old_head, total_popped, mainVars,
                 stack, popped>>

(* The exchange succeeds. *)
PopCAS(c) ==
  /\ cpc[c] = "cas"
  /\ head = old_head[c]
  /\ head' = desired[c]
  /\ stack' = IF stack = <<>> THEN <<>> ELSE Tail(stack)
  /\ popped' = Append(popped, data[old_head[c]])
  /\ desired' = [desired EXCEPT ![c] = NULL]
  /\ cpc' = [cpc EXCEPT ![c] = "take"]
  /\ UNCHANGED <<next, data, live, pushVars, old_head, total_popped, mainVars>>

(* Bug variant: what is to become head is not read again after a failure. *)
PopCASFailsKeepsNext(c) ==
  /\ cpc[c] = "cas"
  /\ old_head' = [old_head EXCEPT ![c] = head]
  /\ cpc' = [cpc EXCEPT ![c] = IF head = NULL THEN "flag" ELSE "cas"]
  /\ UNCHANGED <<head, next, data, live, pushVars, desired, total_popped, mainVars, stack, popped>>

(* It fails, because head has changed or spuriously: old_head becomes head. *)
PopCASFails(c) ==
  /\ cpc[c] = "cas"
  /\ Hold(c, head)
  /\ desired' = [desired EXCEPT ![c] = NULL]
  /\ UNCHANGED <<head, next, data, live, pushVars, total_popped, mainVars, stack, popped>>

(* result = move(old_head->data); delete old_head; return true; and the     *)
(* popper counts it.                                                        *)
PopTake(c) ==
  /\ cpc[c] = "take"
  /\ live' = live \ {old_head[c]}
  /\ old_head' = [old_head EXCEPT ![c] = NULL]
  /\ total_popped' = total_popped + 1
  /\ cpc' = [cpc EXCEPT ![c] = "flag"]
  /\ UNCHANGED <<head, next, data, pushVars, desired, mainVars, stack, popped>>

PopperStep(c) == TestFlag(c) \/ TestEmpty(c) \/ PopLoad(c) \/ PopRead(c)
                   \/ PopCAS(c) \/ PopCASFails(c) \/ PopTake(c)

-----------------------------------------------------------------------------
(* main *)

JoinPushers ==
  /\ main = "join pushers"
  /\ \A p \in Pushers : pushed[p] = NumItems
  /\ main' = "store"
  /\ UNCHANGED <<head, next, data, live, pushVars, popVars, done_pushing, remaining,
                 stack, popped>>

StoreDone ==
  /\ main = "store"
  /\ done_pushing' = TRUE
  /\ main' = "join poppers"
  /\ UNCHANGED <<head, next, data, live, pushVars, popVars, remaining, stack, popped>>

JoinPoppers ==
  /\ main = "join poppers"
  /\ \A c \in Poppers : cpc[c] = "done"
  /\ main' = "drain"
  /\ UNCHANGED <<head, next, data, live, pushVars, popVars, done_pushing, remaining,
                 stack, popped>>

(* while (stack.pop(val)) remaining++, with no other thread left. A stack   *)
(* that was corrupted may drain for ever; the count stops at one more than  *)
(* was pushed.                                                              *)
Drain ==
  /\ main = "drain"
  /\ head # NULL
  /\ remaining <= Cardinality(Pushers) * NumItems
  /\ \E n \in IF head \in live THEN {next[head]} ELSE Pointers : head' = n
  /\ live' = live \ {head}
  /\ stack' = IF stack = <<>> THEN <<>> ELSE Tail(stack)
  /\ popped' = Append(popped, data[head])
  /\ remaining' = remaining + 1
  /\ UNCHANGED <<next, data, pushVars, popVars, done_pushing, main>>

DrainEnds ==
  /\ main = "drain"
  /\ head = NULL
  /\ main' = "end"
  /\ UNCHANGED <<head, next, data, live, pushVars, popVars, done_pushing, remaining,
                 stack, popped>>

MainStep == JoinPushers \/ StoreDone \/ JoinPoppers \/ Drain \/ DrainEnds

Terminated == main = "end" /\ UNCHANGED vars

-----------------------------------------------------------------------------
Next == \/ \E p \in Pushers : PusherStep(p)
        \/ \E c \in Poppers : PopperStep(c)
        \/ MainStep
        \/ Terminated

(* Every thread that can run is scheduled; an exchange tried over and over  *)
(* with the right expected value does not fail spuriously for ever.         *)
Fairness == /\ \A p \in Pushers : WF_vars(PusherStep(p)) /\ SF_vars(PushCAS(p))
            /\ \A c \in Poppers : WF_vars(PopperStep(c)) /\ SF_vars(PopCAS(c))
            /\ WF_vars(MainStep)

Spec == Init /\ [][Next]_vars
FairSpec == Spec /\ Fairness

-----------------------------------------------------------------------------
TypeOK ==
  /\ head \in Pointers
  /\ next \in [Nodes -> Pointers]
  /\ data \in [Nodes -> Values \cup {NoValue}]
  /\ live \in SUBSET Nodes
  /\ pc \in [Pushers -> {"new", "load", "cas"}]
  /\ new_node \in [Pushers -> Pointers]
  /\ pushed \in [Pushers -> 0 .. NumItems]
  /\ cpc \in [Poppers -> {"flag", "empty", "load", "read", "cas", "take", "done"}]
  /\ old_head \in [Poppers -> Pointers]
  /\ desired \in [Poppers -> Pointers]
  /\ total_popped \in Nat
  /\ done_pushing \in BOOLEAN
  /\ main \in {"join pushers", "store", "join poppers", "drain", "end"}
  /\ remaining \in Nat
  /\ stack \in Seq(Nodes)
  /\ popped \in Seq(Values \cup {NoValue})

(* No deleted node is dereferenced: neither by a popper, which reads        *)
(* old_head->next before its exchange (69) and moves the data after it (74),*)
(* nor through head.                                                        *)
NoUseAfterFree ==
  /\ head # NULL => head \in live
  /\ \A c \in Poppers : cpc[c] \in {"read", "cas", "take"} => old_head[c] \in live

(* No ABA: if head still is what a popper saw, what it read beyond is still *)
(* what follows (66-72), although nodes are popped, deleted and allocated   *)
(* again in between.                                                        *)
ExchangeIsCurrent ==
  \A c \in Poppers : cpc[c] = "cas" /\ head = old_head[c] => desired[c] = next[head]

(* assert(count == NUM_THREADS * NUM_PUSHES), 162, and the assertions at    *)
(* 226-227: every push is popped or remains, and is counted once.           *)
AllCounted ==
  main = "end" => total_popped + remaining = Cardinality(Pushers) * NumItems

(* No leak: when the stack is empty nothing is allocated but nodes that are *)
(* being pushed or popped; all are deleted in the end.                      *)
NoLeak ==
  live = {stack[k] : k \in DOMAIN stack}
           \cup {new_node[p] : p \in {q \in Pushers : pc[q] # "new"}}
           \cup {old_head[c] : c \in {d \in Poppers : cpc[d] = "take"}}

(* The invariants of the nodes, none of which a value returned shows (61-88).*)
Inv == TypeOK /\ NoUseAfterFree /\ ExchangeIsCurrent /\ NoLeak

(* Every push gets through although other threads keep changing head.       *)
PushesComplete == \A p \in Pushers : <>(pushed[p] = NumItems)

(* The stack implements the abstract one: a value enters with the exchange  *)
(* of push and leaves with that of pop.                                     *)
Stack == INSTANCE LIFOStack
           WITH items <- [k \in DOMAIN stack |-> data[stack[k]]], delivered <- popped
StackSpec == Stack!Spec
=============================================================================
