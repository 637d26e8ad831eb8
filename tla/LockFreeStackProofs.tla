-------------------------- MODULE LockFreeStackProofs --------------------------
(***************************************************************************)
(* For any number of pushers, of pushes and of addresses, as long as one   *)
(* thread pops: the stack is safe. With two poppers it is not, as the run  *)
(* of LockFreeStackABA.cfg shows; what one popper changes is that the node *)
(* it has seen stays in the stack until it pops it itself.                 *)
(***************************************************************************)
EXTENDS LockFreeStack, FiniteSetTheorems, TLAPS

(* At most one thread pops while others push. *)
OnePopper == \A c, d \in Poppers : c = d

StackNodes == {stack[k] : k \in 1 .. Len(stack)}

(* The next pointers spell the stack, from head down. *)
Shape ==
  /\ head = IF stack = <<>> THEN NULL ELSE stack[1]
  /\ \A k, l \in 1 .. Len(stack) : stack[k] = stack[l] => k = l
  /\ \A k \in 1 .. Len(stack) :
       next[stack[k]] = IF k = Len(stack) THEN NULL ELSE stack[k + 1]

(* The node of a push that has not been exchanged is its own. *)
Own ==
  \A p \in Pushers : pc[p] # "new" =>
    /\ new_node[p] \in Nodes \ StackNodes
    /\ \A q \in Pushers : pc[q] # "new" /\ new_node[q] = new_node[p] => q = p
    /\ data[new_node[p]] = <<p, pushed[p]>>

InLoop == \A p \in Pushers : pc[p] # "new" => pushed[p] < NumItems

(* What the popper has seen is still in the stack, and what follows it is   *)
(* what it has read; once popped it is nobody else's.                       *)
Popping ==
  \A c \in Poppers :
    /\ cpc[c] \in {"read", "cas"} => old_head[c] \in StackNodes
    /\ cpc[c] = "cas" => desired[c] = next[old_head[c]]
    /\ cpc[c] = "take" =>
         /\ old_head[c] \in Nodes \ StackNodes
         /\ \A p \in Pushers : pc[p] # "new" => new_node[p] # old_head[c]

(* Where main is, relative to the threads it has joined. *)
Joined ==
  /\ main # "join pushers" => \A p \in Pushers : pushed[p] = NumItems
  /\ main \in {"drain", "end"} => \A c \in Poppers : cpc[c] = "done"
  /\ main = "end" => stack = <<>>

(* Whatever is in the stack or popped was pushed. *)
Made == {v \in Values : v[2] < pushed[v[1]]}
FromMade == /\ \A k \in 1 .. Len(stack) : data[stack[k]] \in Made
            /\ \A k \in 1 .. Len(popped) : popped[k] \in Made

(* And as much of it as was pushed. *)
Taking == IF \E c \in Poppers : cpc[c] = "take" THEN 1 ELSE 0
Counted == Cardinality(Made) = Len(stack) + Taking + total_popped + remaining

NodesInv == TypeOK /\ NoLeak /\ Shape /\ Own /\ InLoop /\ Popping /\ Joined
StackInv == OnePopper /\ NodesInv /\ FromMade /\ Counted

-----------------------------------------------------------------------------
(* What the exchanges do to the stack *)

(* A node on top. *)
LEMMA OnTop ==
  ASSUME NEW s \in Seq(Nodes), NEW n \in Nodes
  PROVE  /\ Len(s) \in Nat
         /\ <<n>> \o s \in Seq(Nodes) /\ Len(<<n>> \o s) = Len(s) + 1
         /\ (<<n>> \o s)[1] = n
         /\ \A k \in 1 .. Len(s) : (<<n>> \o s)[k + 1] = s[k]
  OBVIOUS

(* The top gone. *)
LEMMA OffTop ==
  ASSUME NEW s \in Seq(Nodes), s # <<>>
  PROVE  /\ Len(s) \in Nat /\ Len(s) > 0
         /\ Tail(s) \in Seq(Nodes) /\ Len(Tail(s)) = Len(s) - 1
         /\ \A k \in 1 .. Len(s) - 1 : Tail(s)[k] = s[k + 1]
  OBVIOUS

(* An empty sequence. *)
LEMMA EmptyStack == \A s \in Seq(Nodes) : s = <<>> <=> Len(s) = 0
  OBVIOUS

(* The stack is one of nodes. *)
LEMMA StackType ==
  TypeOK => /\ stack \in Seq(Nodes) /\ Len(stack) \in Nat
            /\ DOMAIN stack = 1 .. Len(stack)
            /\ stack = <<>> <=> Len(stack) = 0
            /\ StackNodes \in SUBSET Nodes
<1> SUFFICES ASSUME TypeOK
             PROVE  /\ stack \in Seq(Nodes) /\ Len(stack) \in Nat
                    /\ DOMAIN stack = 1 .. Len(stack)
                    /\ stack = <<>> <=> Len(stack) = 0
                    /\ StackNodes \in SUBSET Nodes
  OBVIOUS
<1>1. stack \in Seq(Nodes)
  BY DEF TypeOK
<1>2. Len(stack) \in Nat /\ DOMAIN stack = 1 .. Len(stack)
  BY <1>1
<1>3. stack = <<>> <=> Len(stack) = 0
  BY <1>1
<1> QED
  BY <1>1, <1>2, <1>3 DEF StackNodes

(* Its top, if it has one. *)
LEMMA TopOfStack ==
  ASSUME TypeOK, Shape
  PROVE  /\ head = NULL <=> stack = <<>>
         /\ stack # <<>> => /\ head = stack[1] /\ head \in StackNodes
                            /\ 1 \in 1 .. Len(stack)
<1>1. stack # <<>> => 1 \in 1 .. Len(stack)
  BY StackType
<1>2. stack # <<>> => stack[1] \in StackNodes
  BY <1>1 DEF StackNodes
<1>3. \A n \in StackNodes : n # NULL
  BY StackType, NullAssumption
<1> QED
  BY <1>1, <1>2, <1>3 DEF Shape

(* NoLeak in the terms of this module. *)
LEMMA LiveNodes ==
  ASSUME TypeOK
  PROVE  NoLeak <=> live = StackNodes
                      \cup {new_node[p] : p \in {q \in Pushers : pc[q] # "new"}}
                      \cup {old_head[c] : c \in {d \in Poppers : cpc[d] = "take"}}
  BY StackType DEF NoLeak, StackNodes

(* A step that leaves the stack and its links alone. *)
LEMMA SameShape ==
  ASSUME TypeOK, Shape, UNCHANGED <<head, stack>>,
         \A n \in StackNodes : next'[n] = next[n]
  PROVE  Shape' /\ StackNodes' = StackNodes
<1>1. \A k \in 1 .. Len(stack) : stack[k] \in StackNodes
  BY DEF StackNodes
<1> QED
  BY <1>1 DEF Shape, StackNodes

(* The top leaves, and what follows it becomes head (68-72). *)
LEMMA PopShape ==
  ASSUME TypeOK, Shape, stack # <<>>, head' = next[head], stack' = Tail(stack),
         UNCHANGED next
  PROVE  /\ Shape' /\ StackNodes' = StackNodes \ {head}
         /\ stack' \in Seq(Nodes) /\ Len(stack') = Len(stack) - 1
         /\ \A k \in 1 .. Len(stack') : k + 1 \in 1 .. Len(stack) /\ stack'[k] = stack[k + 1]
<1> DEFINE len == Len(stack)
<1>1. /\ len \in Nat /\ len > 0
      /\ stack' \in Seq(Nodes) /\ Len(stack') = len - 1
      /\ \A k \in 1 .. len - 1 : stack'[k] = stack[k + 1]
  BY StackType, OffTop
<1>2. \A k \in 1 .. len - 1 : k + 1 \in 1 .. len
  BY <1>1
<1>3. \A k \in 1 .. Len(stack') : k + 1 \in 1 .. len /\ stack'[k] = stack[k + 1]
  BY <1>1, <1>2
<1>4. head = stack[1] /\ 1 \in 1 .. len
  BY TopOfStack
<1>5. \A k \in 1 .. len : k # 1 => k - 1 \in 1 .. Len(stack') /\ (k - 1) + 1 = k
  BY <1>1
<1>6. StackNodes' = StackNodes \ {head}
  <2>1. ASSUME NEW k \in 1 .. Len(stack')
        PROVE  stack'[k] \in StackNodes /\ stack'[k] # head
    <3>1. k + 1 # 1
      BY <1>1
    <3> QED
      BY <1>3, <1>4, <3>1 DEF StackNodes, Shape
  <2>2. ASSUME NEW k \in 1 .. len, stack[k] # head
        PROVE  \E l \in 1 .. Len(stack') : stack'[l] = stack[k]
    <3>1. k # 1
      BY <1>4, <2>2
    <3>2. k - 1 \in 1 .. Len(stack') /\ stack'[k - 1] = stack[k]
      BY <1>3, <1>5, <3>1
    <3> QED
      BY <3>2
  <2> QED
    BY <2>1, <2>2 DEF StackNodes
<1>7. head' = IF stack' = <<>> THEN NULL ELSE stack'[1]
  <2>1. head' = IF 1 = len THEN NULL ELSE stack[1 + 1]
    BY <1>4 DEF Shape
  <2>2. stack' = <<>> <=> len = 1
    <3>1. stack' = <<>> <=> Len(stack') = 0
      BY <1>1, EmptyStack
    <3>2. Len(stack') = 0 <=> len = 1
      BY <1>1
    <3> QED
      BY <3>1, <3>2
  <2>3. len # 1 => stack'[1] = stack[2]
    <3>1. len # 1 => 1 \in 1 .. Len(stack')
      BY <1>1
    <3> QED
      BY <1>3, <3>1
  <2> QED
    BY <2>1, <2>2, <2>3
<1>8. \A k, l \in 1 .. Len(stack') : stack'[k] = stack'[l] => k = l
  <2> SUFFICES ASSUME NEW k \in 1 .. Len(stack'), NEW l \in 1 .. Len(stack'),
                      stack'[k] = stack'[l]
               PROVE  k = l
    OBVIOUS
  <2>1. k + 1 = l + 1
    BY <1>3 DEF Shape
  <2> QED
    BY <1>1, <2>1
<1>9. \A k \in 1 .. Len(stack') : k # Len(stack') => k + 1 \in 1 .. Len(stack')
  <2>1. \A l \in Nat : \A k \in 1 .. l : k # l => k + 1 \in 1 .. l
    OBVIOUS
  <2>2. Len(stack') \in Nat
    BY <1>1
  <2> QED
    BY <2>1, <2>2, Zenon
<1>10. ASSUME NEW k \in 1 .. Len(stack')
       PROVE  next'[stack'[k]] = IF k = Len(stack') THEN NULL ELSE stack'[k + 1]
  <2>1. next'[stack'[k]] = IF k + 1 = len THEN NULL ELSE stack[(k + 1) + 1]
    BY <1>3 DEF Shape
  <2>2. k + 1 = len <=> k = Len(stack')
    BY <1>1
  <2>3. k # Len(stack') => stack'[k + 1] = stack[(k + 1) + 1]
    BY <1>3, <1>9
  <2> QED
    BY <2>1, <2>2, <2>3
<1>11. Shape'
  BY <1>7, <1>8, <1>10 DEF Shape
<1> QED
  BY <1>1, <1>3, <1>6, <1>11

(* A node whose next is head becomes head (46-49). *)
LEMMA PushShape ==
  ASSUME TypeOK, Shape, NEW n \in Nodes \ StackNodes, next[n] = head,
         head' = n, stack' = <<n>> \o stack, UNCHANGED next
  PROVE  /\ Shape' /\ StackNodes' = StackNodes \cup {n}
         /\ stack' \in Seq(Nodes) /\ Len(stack') = Len(stack) + 1
         /\ stack'[1] = n /\ \A k \in 1 .. Len(stack) : stack'[k + 1] = stack[k]
         /\ \A k \in 1 .. Len(stack') : k # 1 => k - 1 \in 1 .. Len(stack) /\ (k - 1) + 1 = k
<1> DEFINE len == Len(stack)
<1>1. /\ len \in Nat
      /\ stack' \in Seq(Nodes) /\ Len(stack') = len + 1
      /\ stack'[1] = n
      /\ \A k \in 1 .. len : stack'[k + 1] = stack[k]
  BY StackType, OnTop
<1>2. \A k \in 1 .. Len(stack') : k # 1 => k - 1 \in 1 .. len /\ (k - 1) + 1 = k
  BY <1>1
<1>3. 1 \in 1 .. Len(stack') /\ \A k \in 1 .. len : k + 1 \in 1 .. Len(stack')
  BY <1>1
<1>4. \A k \in 1 .. Len(stack') : k # 1 => stack'[k] = stack[k - 1]
  BY <1>1, <1>2
<1>5. StackNodes' = StackNodes \cup {n}
  BY <1>1, <1>2, <1>3, <1>4 DEF StackNodes
<1>6. \A k \in 1 .. len : stack[k] # n
  BY DEF StackNodes
<1>7. \A k, l \in 1 .. Len(stack') : stack'[k] = stack'[l] => k = l
  <2> SUFFICES ASSUME NEW k \in 1 .. Len(stack'), NEW l \in 1 .. Len(stack'),
                      stack'[k] = stack'[l]
               PROVE  k = l
    OBVIOUS
  <2>1. CASE k = 1 \/ l = 1
    BY <1>1, <1>2, <1>4, <1>6, <2>1
  <2>2. CASE k # 1 /\ l # 1
    <3>1. k - 1 = l - 1
      BY <1>2, <1>4, <2>2 DEF Shape
    <3> QED
      BY <1>2, <2>2, <3>1
  <2> QED
    BY <2>1, <2>2
<1>8. ASSUME NEW k \in 1 .. Len(stack')
      PROVE  next'[stack'[k]] = IF k = Len(stack') THEN NULL ELSE stack'[k + 1]
  <2>1. CASE k = 1
    <3>1. next'[stack'[k]] = head
      BY <1>1, <2>1
    <3>2. CASE stack = <<>>
      <4>1. len = 0
        BY <3>2
      <4>2. k = Len(stack')
        BY <1>1, <2>1, <4>1
      <4> QED
        BY <3>1, <3>2, <4>2 DEF Shape
    <3>3. CASE stack # <<>>
      <4>1. head = stack[1] /\ 1 \in 1 .. len
        BY <3>3, TopOfStack
      <4>2. k # Len(stack')
        BY <1>1, <2>1, <4>1
      <4>3. stack'[k + 1] = stack[1]
        BY <1>1, <2>1, <4>1
      <4> QED
        BY <3>1, <4>1, <4>2, <4>3
    <3> QED
      BY <3>2, <3>3
  <2>2. CASE k # 1
    <3>1. k - 1 \in 1 .. len /\ (k - 1) + 1 = k /\ stack'[k] = stack[k - 1]
      BY <1>2, <1>4, <2>2
    <3>2. next'[stack'[k]] = IF k - 1 = len THEN NULL ELSE stack[(k - 1) + 1]
      BY <3>1 DEF Shape
    <3>3. k - 1 = len <=> k = Len(stack')
      BY <1>1
    <3>4. k # Len(stack') => stack'[k + 1] = stack[k]
      <4>1. k # Len(stack') => k \in 1 .. len
        BY <1>1
      <4> QED
        BY <1>1, <4>1
    <3> QED
      BY <3>1, <3>2, <3>3, <3>4
  <2> QED
    BY <2>1, <2>2
<1>9. Shape'
  <2>1. stack' # <<>>
    BY <1>1
  <2> QED
    BY <1>1, <1>7, <1>8, <2>1 DEF Shape
<1> QED
  BY <1>1, <1>2, <1>5, <1>9

-----------------------------------------------------------------------------
(* What is pushed, counted *)

(* There are as many pushes to make as pushers times pushes of one. *)
LEMMA AllValues ==
  IsFiniteSet(Values) /\ Cardinality(Values) = Cardinality(Pushers) * NumItems
<1> USE PushersAssumption, NumItemsAssumption
<1>1. IsFiniteSet(0 .. NumItems - 1) /\ Cardinality(0 .. NumItems - 1) = NumItems
  BY FS_Interval
<1> QED
  BY <1>1, FS_Product DEF Values

(* The pushes made are finitely many, before and after a step. *)
LEMMA MadeFinite ==
  /\ IsFiniteSet(Made) /\ Cardinality(Made) \in Nat
  /\ IsFiniteSet(Made') /\ Cardinality(Made') \in Nat
<1>1. Made \subseteq Values /\ Made' \subseteq Values
  BY DEF Made
<1> QED
  BY <1>1, AllValues, FS_Subset, FS_CardinalityType

(* A push that returns is one more that is made. *)
LEMMA OneMoreMade ==
  ASSUME TypeOK, NEW p \in Pushers, pushed[p] < NumItems,
         pushed' = [pushed EXCEPT ![p] = @ + 1]
  PROVE  /\ <<p, pushed[p]>> \in Values \ Made
         /\ Made' = Made \cup {<<p, pushed[p]>>}
         /\ Cardinality(Made') = Cardinality(Made) + 1
         /\ pushed' \in [Pushers -> 0 .. NumItems]
<1> DEFINE value == <<p, pushed[p]>>
<1>1. pushed \in [Pushers -> 0 .. NumItems] /\ NumItems \in Nat
  BY NumItemsAssumption DEF TypeOK
<1>2. pushed[p] \in 0 .. NumItems - 1 /\ pushed[p] + 1 \in 0 .. NumItems
  BY <1>1
<1>3. value \in Values \ Made
  BY <1>2 DEF Values, Made
<1>4. pushed' \in [Pushers -> 0 .. NumItems]
  BY <1>1, <1>2
<1>5. Made' = Made \cup {value}
  <2>1. ASSUME NEW v \in Values PROVE v \in Made' <=> v \in Made \/ v = value
    <3>1. v = <<v[1], v[2]>> /\ v[1] \in Pushers /\ v[2] \in Nat
      BY DEF Values
    <3>2. /\ pushed[v[1]] \in Nat
          /\ pushed'[v[1]] = IF v[1] = p THEN pushed[p] + 1 ELSE pushed[v[1]]
      BY <1>1, <3>1
    <3>3. (v \in Made' <=> v[2] < pushed'[v[1]]) /\ (v \in Made <=> v[2] < pushed[v[1]])
      BY DEF Made
    <3>4. v = value <=> v[1] = p /\ v[2] = pushed[p]
      BY <3>1
    <3> QED
      BY <3>1, <3>2, <3>3, <3>4
  <2>2. Made \subseteq Values /\ Made' \subseteq Values
    BY DEF Made
  <2> QED
    BY <1>3, <2>1, <2>2
<1>6. Cardinality(Made') = Cardinality(Made) + 1
  BY <1>3, <1>5, MadeFinite, FS_AddElement
<1> QED
  BY <1>3, <1>4, <1>5, <1>6

(* The numbers that are counted are numbers. *)
LEMMA CountTypes ==
  ASSUME TypeOK
  PROVE  Len(stack) \in Nat /\ Taking \in Nat /\ total_popped \in Nat /\ remaining \in Nat
<1>1. total_popped \in Nat /\ remaining \in Nat
  BY DEF TypeOK
<1> QED
  BY <1>1, StackType DEF Taking

(* A step that moves no value. *)
LEMMA SameAccount ==
  ASSUME FromMade, Counted, \A n \in StackNodes : data'[n] = data[n], Taking' = Taking,
         UNCHANGED <<pushed, stack, popped, total_popped, remaining>>
  PROVE  FromMade' /\ Counted'
<1>1. Made' = Made
  BY DEF Made
<1>2. \A k \in 1 .. Len(stack) : stack[k] \in StackNodes
  BY DEF StackNodes
<1>3. Counted'
  BY <1>1 DEF Counted
<1> QED
  BY <1>1, <1>2, <1>3 DEF FromMade

-----------------------------------------------------------------------------
(* The steps *)

(* The stack is empty, and nothing is allocated. *)
LEMMA InitStackInv == Init /\ OnePopper => StackInv
<1> SUFFICES ASSUME Init, OnePopper PROVE StackInv
  OBVIOUS
<1>1. /\ stack = <<>> /\ popped = <<>> /\ pushed = [p \in Pushers |-> 0]
      /\ total_popped = 0 /\ remaining = 0
  BY DEF Init
<1>2. Len(stack) = 0 /\ Len(popped) = 0 /\ \A k \in 1 .. 0 : FALSE
  BY <1>1
<1>3. stack \in Seq(Nodes) /\ popped \in Seq(Values \cup {NoValue})
  BY <1>1
<1>4. /\ pushed \in [Pushers -> 0 .. NumItems]
      /\ total_popped \in Nat /\ remaining \in Nat
  BY <1>1, NumItemsAssumption
<1>5. TypeOK
  BY <1>3, <1>4, NullAssumption DEF Init, TypeOK, Pointers, NoValue
<1>6. StackNodes = {}
  BY <1>2 DEF StackNodes
<1>7. NoLeak
  BY <1>5, <1>6, LiveNodes DEF Init
<1>8. Shape
  BY <1>1, <1>2 DEF Init, Shape
<1>9. Own /\ InLoop /\ Popping
  BY DEF Init, Own, InLoop, Popping
<1>10. Joined
  BY DEF Init, Joined
<1>11. FromMade
  BY <1>2 DEF FromMade
<1>12. Counted
  <2>1. \A v \in Values : v[1] \in Pushers /\ v[2] \in Nat
    BY DEF Values
  <2>2. Made = {}
    BY <1>1, <2>1 DEF Made
  <2>3. Taking = 0
    BY DEF Init, Taking
  <2>4. Cardinality(Made) = 0
    BY <2>2, FS_EmptySet
  <2> QED
    BY <1>1, <1>2, <2>3, <2>4 DEF Counted
<1> QED
  BY <1>5, <1>7, <1>8, <1>9, <1>10, <1>11, <1>12 DEF StackInv, NodesInv

(* new: an address that nobody holds. *)
LEMMA PushNewInv == ASSUME StackInv, NEW p \in Pushers, PushNew(p) PROVE StackInv'
<1> USE DEF StackInv, NodesInv
<1>1. PICK n \in Nodes \ live :
        /\ live' = live \cup {n}
        /\ data' = [data EXCEPT ![n] = <<p, pushed[p]>>]
        /\ next' = [next EXCEPT ![n] = NULL]
        /\ new_node' = [new_node EXCEPT ![p] = n]
  BY DEF PushNew
<1>2. /\ pc[p] = "new" /\ pushed[p] < NumItems
      /\ pc' = [pc EXCEPT ![p] = "load"]
      /\ UNCHANGED <<head, pushed, cpc, old_head, desired, total_popped,
                     done_pushing, main, remaining, stack, popped>>
  BY DEF PushNew, popVars, mainVars
<1>3. /\ n \notin StackNodes
      /\ \A q \in Pushers : pc[q] # "new" => new_node[q] # n
      /\ \A c \in Poppers : cpc[c] = "take" => old_head[c] # n
  BY <1>1, LiveNodes
<1>4. \A q \in Pushers : /\ pc'[q] = IF q = p THEN "load" ELSE pc[q]
                         /\ new_node'[q] = IF q = p THEN n ELSE new_node[q]
  BY <1>1, <1>2 DEF TypeOK
<1>5. \A m \in Nodes : m # n => next'[m] = next[m] /\ data'[m] = data[m]
  BY <1>1 DEF TypeOK
<1>6. StackNodes \subseteq Nodes
  BY StackType
<1>7. <<p, pushed[p]>> \in Values
  <2>1. pushed[p] \in 0 .. NumItems /\ NumItems \in Nat
    BY NumItemsAssumption DEF TypeOK
  <2>2. pushed[p] < NumItems
    BY <1>2
  <2>3. pushed[p] \in 0 .. NumItems - 1
    BY <2>1, <2>2
  <2> QED
    BY <2>3 DEF Values
<1>8. TypeOK'
  BY <1>1, <1>2, <1>7 DEF TypeOK, Pointers
<1>9. Shape' /\ StackNodes' = StackNodes
  BY <1>2, <1>3, <1>5, <1>6, SameShape
<1>10. NoLeak'
  <2>1. {new_node'[q] : q \in {r \in Pushers : pc'[r] # "new"}}
          = {new_node[q] : q \in {r \in Pushers : pc[r] # "new"}} \cup {n}
    BY <1>2, <1>4
  <2>2. live' = StackNodes'
                  \cup {new_node'[q] : q \in {r \in Pushers : pc'[r] # "new"}}
                  \cup {old_head'[c] : c \in {d \in Poppers : cpc'[d] = "take"}}
    BY <1>1, <1>2, <1>9, <2>1, LiveNodes
  <2>3. stack' = stack /\ DOMAIN stack = 1 .. Len(stack)
    BY <1>2, StackType
  <2> QED
    BY <2>2, <2>3 DEF NoLeak, StackNodes
<1>11. Own'
  BY <1>1, <1>2, <1>3, <1>4, <1>5, <1>9, ZenonT(60) DEF Own, TypeOK
<1>12. InLoop'
  BY <1>2, <1>4 DEF InLoop
<1>13. Popping'
  BY <1>2, <1>3, <1>4, <1>5, <1>6, <1>9 DEF Popping
<1>14. Joined'
  BY <1>2 DEF Joined
<1>15. Taking' = Taking
  BY <1>2 DEF Taking
<1>16. FromMade' /\ Counted'
  BY <1>2, <1>3, <1>5, <1>6, <1>15, SameAccount
<1> QED
  BY <1>8, <1>9, <1>10, <1>11, <1>12, <1>13, <1>14, <1>16 DEF OnePopper

(* new_node->next becomes head: the node is in nobody else's sight. *)
LEMMA PushReadInv ==
  ASSUME StackInv, NEW p \in Pushers, PushLoad(p) \/ PushCASFails(p)
  PROVE  StackInv'
<1> USE DEF StackInv, NodesInv
<1> DEFINE n == new_node[p]
<1>1. /\ pc[p] # "new"
      /\ next' = [next EXCEPT ![n] = head]
      /\ UNCHANGED <<head, data, live, new_node, pushed, cpc, old_head, desired, total_popped,
                     done_pushing, main, remaining, stack, popped>>
  BY DEF PushLoad, PushCASFails, pushVars, popVars, mainVars
<1>2. pc' \in [Pushers -> {"new", "load", "cas"}]
  BY DEF PushLoad, PushCASFails, pushVars, TypeOK
<1>3. \A q \in Pushers : pc'[q] # "new" <=> pc[q] # "new"
  BY DEF PushLoad, PushCASFails, pushVars, TypeOK
<1>4. n \in Nodes \ StackNodes
  BY <1>1 DEF Own
<1>5. \A m \in StackNodes : next'[m] = next[m]
  BY <1>1, <1>4, StackType DEF TypeOK
<1>6. TypeOK'
  BY <1>1, <1>2 DEF TypeOK
<1>7. Shape' /\ StackNodes' = StackNodes
  BY <1>1, <1>5, SameShape
<1>8. NoLeak'
  <2>1. {q \in Pushers : pc'[q] # "new"} = {q \in Pushers : pc[q] # "new"}
    BY <1>3
  <2> QED
    BY <1>1, <2>1 DEF NoLeak
<1>9. Own' /\ InLoop'
  BY <1>1, <1>3, <1>7 DEF Own, InLoop
<1>10. Popping'
  BY <1>1, <1>3, <1>5, <1>7 DEF Popping
<1>11. Joined'
  BY <1>1 DEF Joined
<1>12. FromMade' /\ Counted'
  <2>1. Taking' = Taking
    BY <1>1 DEF Taking
  <2> QED
    BY <1>1, <2>1, SameAccount
<1> QED
  BY <1>6, <1>7, <1>8, <1>9, <1>10, <1>11, <1>12 DEF OnePopper

(* The exchange of push: the node is on top, and its value is made. *)
LEMMA PushCASInv == ASSUME StackInv, NEW p \in Pushers, PushCAS(p) PROVE StackInv'
<1> USE DEF StackInv, NodesInv
<1> DEFINE n == new_node[p]
<1> DEFINE value == <<p, pushed[p]>>
<1>1. /\ pc[p] = "cas" /\ head = next[n] /\ head' = n
      /\ stack' = <<n>> \o stack
      /\ pushed' = [pushed EXCEPT ![p] = @ + 1]
      /\ new_node' = [new_node EXCEPT ![p] = NULL]
      /\ pc' = [pc EXCEPT ![p] = "new"]
      /\ UNCHANGED <<next, data, live, cpc, old_head, desired, total_popped,
                     done_pushing, main, remaining, popped>>
  BY DEF PushCAS, popVars, mainVars
<1>2. /\ n \in Nodes \ StackNodes /\ data[n] = value /\ pushed[p] < NumItems
      /\ \A q \in Pushers : pc[q] # "new" /\ new_node[q] = n => q = p
  BY <1>1 DEF Own, InLoop
<1>3. \A q \in Pushers : /\ pc'[q] = IF q = p THEN "new" ELSE pc[q]
                         /\ q # p => new_node'[q] = new_node[q]
  BY <1>1 DEF TypeOK
<1>4. /\ Shape' /\ StackNodes' = StackNodes \cup {n}
      /\ stack' \in Seq(Nodes) /\ Len(stack') = Len(stack) + 1
      /\ stack'[1] = n /\ \A k \in 1 .. Len(stack) : stack'[k + 1] = stack[k]
      /\ \A k \in 1 .. Len(stack') : k # 1 => k - 1 \in 1 .. Len(stack) /\ (k - 1) + 1 = k
  BY <1>1, <1>2, PushShape
<1>5. /\ Made' = Made \cup {value} /\ Cardinality(Made') = Cardinality(Made) + 1
      /\ pushed' \in [Pushers -> 0 .. NumItems]
  BY <1>1, <1>2, OneMoreMade
<1>6. \A q \in Pushers : q # p => pushed'[q] = pushed[q]
  BY <1>1 DEF TypeOK
<1>7. TypeOK'
  BY <1>1, <1>2, <1>4, <1>5 DEF TypeOK, Pointers
<1>8. NoLeak'
  <2>1. {new_node[q] : q \in {r \in Pushers : pc[r] # "new"}}
          = {new_node'[q] : q \in {r \in Pushers : pc'[r] # "new"}} \cup {n}
    BY <1>1, <1>3
  <2>2. live' = StackNodes'
                  \cup {new_node'[q] : q \in {r \in Pushers : pc'[r] # "new"}}
                  \cup {old_head'[c] : c \in {d \in Poppers : cpc'[d] = "take"}}
    BY <1>1, <1>4, <2>1, LiveNodes, ZenonT(60)
  <2>3. DOMAIN stack' = 1 .. Len(stack')
    BY <1>4
  <2> QED
    BY <2>2, <2>3 DEF NoLeak, StackNodes
<1>9. Own'
  <2> SUFFICES ASSUME NEW q \in Pushers, pc'[q] # "new"
               PROVE  /\ new_node'[q] \in Nodes \ StackNodes'
                      /\ \A r \in Pushers : pc'[r] # "new" /\ new_node'[r] = new_node'[q] => r = q
                      /\ data[new_node'[q]] = <<q, pushed'[q]>>
    BY <1>1 DEF Own
  <2>1. q # p /\ pc[q] # "new" /\ new_node'[q] = new_node[q] /\ pushed'[q] = pushed[q]
    BY <1>3, <1>6
  <2>2. new_node[q] # n
    BY <1>2, <2>1
  <2> QED
    BY <1>3, <1>4, <2>1, <2>2, ZenonT(60) DEF Own
<1>10. InLoop'
  BY <1>3, <1>6 DEF InLoop
<1>11. Popping'
  <2> SUFFICES ASSUME NEW c \in Poppers
               PROVE  /\ cpc[c] \in {"read", "cas"} => old_head[c] \in StackNodes'
                      /\ cpc[c] = "cas" => desired[c] = next[old_head[c]]
                      /\ cpc[c] = "take" =>
                           /\ old_head[c] \in Nodes \ StackNodes'
                           /\ \A q \in Pushers : pc'[q] # "new" => new_node'[q] # old_head[c]
    BY <1>1 DEF Popping
  <2>1. cpc[c] \in {"read", "cas"} => old_head[c] \in StackNodes'
    BY <1>4 DEF Popping
  <2>2. cpc[c] = "cas" => desired[c] = next[old_head[c]]
    BY DEF Popping
  <2>3. ASSUME cpc[c] = "take"
        PROVE  /\ old_head[c] \in Nodes \ StackNodes'
               /\ \A q \in Pushers : pc'[q] # "new" => new_node'[q] # old_head[c]
    <3>1. n # old_head[c] /\ old_head[c] \in Nodes \ StackNodes
      BY <1>1, <2>3 DEF Popping
    <3>2. \A q \in Pushers : pc[q] # "new" => new_node[q] # old_head[c]
      BY <2>3 DEF Popping
    <3> QED
      BY <1>3, <1>4, <3>1, <3>2
  <2> QED
    BY <2>1, <2>2, <2>3
<1>12. Joined'
  <2>1. pushed[p] # NumItems
    <3>1. pushed \in [Pushers -> 0 .. NumItems] /\ NumItems \in Nat
      BY NumItemsAssumption DEF TypeOK
    <3>2. pushed[p] \in Nat
      BY <3>1
    <3> QED
      BY <1>2, <3>1, <3>2
  <2> QED
    BY <1>1, <2>1 DEF Joined
<1>13. FromMade'
  <2>1. ASSUME NEW k \in 1 .. Len(stack') PROVE data[stack'[k]] \in Made'
    <3>1. CASE k = 1
      BY <1>2, <1>4, <1>5, <3>1
    <3>2. CASE k # 1
      <4>1. k - 1 \in 1 .. Len(stack) /\ stack'[k] = stack[k - 1]
        BY <1>4, <3>2
      <4> QED
        BY <1>5, <4>1 DEF FromMade
    <3> QED
      BY <3>1, <3>2
  <2> QED
    BY <1>1, <1>5, <2>1 DEF FromMade
<1>14. Counted'
  <2>1. /\ Taking' = Taking /\ total_popped' = total_popped /\ remaining' = remaining
    BY <1>1 DEF Taking
  <2>2. Len(stack) \in Nat /\ Taking \in Nat /\ total_popped \in Nat /\ remaining \in Nat
    BY CountTypes
  <2> QED
    BY <1>4, <1>5, <2>1, <2>2 DEF Counted
<1> QED
  BY <1>4, <1>7, <1>8, <1>9, <1>10, <1>11, <1>12, <1>13, <1>14 DEF OnePopper

(* The steps of a popper up to its exchange, and an exchange that fails:    *)
(* what it holds is what it has seen at the top.                            *)
LEMMA PopperLooksInv ==
  ASSUME StackInv, NEW c \in Poppers,
         \/ TestFlag(c) \/ TestEmpty(c) \/ PopLoad(c) \/ PopRead(c) \/ PopCASFails(c)
  PROVE  StackInv'
<1> USE DEF StackInv, NodesInv
<1>1. UNCHANGED <<head, next, data, live, pc, new_node, pushed, total_popped,
                  done_pushing, main, remaining, stack, popped>>
  BY DEF TestFlag, TestEmpty, PopLoad, PopRead, PopCASFails, pushVars, mainVars
<1>2. cpc[c] \notin {"take", "done"} /\ \A d \in Poppers : d = c
  BY DEF TestFlag, TestEmpty, PopLoad, PopRead, PopCASFails, OnePopper
<1>3. /\ cpc' \in [Poppers -> {"flag", "empty", "load", "read", "cas", "done"}]
      /\ cpc' = [cpc EXCEPT ![c] = cpc'[c]]
  <2>1. \E s \in {"flag", "empty", "load", "read", "cas", "done"} : cpc' = [cpc EXCEPT ![c] = s]
    BY DEF TestFlag, TestEmpty, PopLoad, PopRead, PopCASFails, Hold
  <2>2. cpc \in [Poppers -> {"flag", "empty", "load", "read", "cas", "take", "done"}]
    BY DEF TypeOK
  <2> QED
    BY <1>2, <2>1, <2>2
<1>4. /\ \/ cpc'[c] \in {"flag", "empty", "load", "done"}
         \/ cpc'[c] = "read" /\ old_head'[c] \in StackNodes
         \/ cpc'[c] = "cas" /\ old_head'[c] \in StackNodes /\ desired'[c] = next[old_head'[c]]
      /\ old_head' \in [Poppers -> Pointers] /\ desired' \in [Poppers -> Pointers]
  <2>1. old_head \in [Poppers -> Pointers] /\ desired \in [Poppers -> Pointers] /\ head \in Pointers
    BY DEF TypeOK
  <2>2. CASE TestFlag(c) \/ TestEmpty(c)
    BY <1>3, <2>1, <2>2 DEF TestFlag, TestEmpty, TypeOK
  <2>3. CASE PopLoad(c) \/ PopCASFails(c)
    <3>1. head # NULL => head \in StackNodes
      BY TopOfStack
    <3>2. NULL \in Pointers
      BY DEF Pointers
    <3>3. /\ old_head' = [old_head EXCEPT ![c] = head]
          /\ cpc' = [cpc EXCEPT ![c] = IF head = NULL THEN "flag" ELSE "read"]
          /\ desired' = desired \/ desired' = [desired EXCEPT ![c] = NULL]
      BY <2>3 DEF PopLoad, PopCASFails, Hold
    <3>4. old_head'[c] = head /\ old_head' \in [Poppers -> Pointers]
      BY <2>1, <3>3
    <3>5. desired' \in [Poppers -> Pointers]
      BY <2>1, <3>2, <3>3
    <3>6. cpc'[c] = IF head = NULL THEN "flag" ELSE "read"
      BY <3>3 DEF TypeOK
    <3> QED
      BY <3>1, <3>4, <3>5, <3>6
  <2>4. CASE PopRead(c)
    <3>1. old_head[c] \in StackNodes
      BY <2>4 DEF PopRead, Popping
    <3>2. old_head[c] \in live /\ old_head[c] \in Nodes
      BY <3>1, LiveNodes, StackType
    <3>3. desired' = [desired EXCEPT ![c] = next[old_head[c]]] /\ old_head' = old_head
      BY <2>4, <3>2 DEF PopRead
    <3>4. next[old_head[c]] \in Pointers
      BY <3>2 DEF TypeOK
    <3>5. cpc'[c] = "cas"
      BY <2>4 DEF PopRead, TypeOK
    <3> QED
      BY <2>1, <3>1, <3>3, <3>4, <3>5
  <2> QED
    BY <2>2, <2>3, <2>4
<1>5. TypeOK'
  BY <1>1, <1>3, <1>4 DEF TypeOK
<1>6. Shape' /\ StackNodes' = StackNodes
  BY <1>1, SameShape
<1>7. /\ \A d \in Poppers : cpc[d] # "take" /\ cpc'[d] # "take"
  BY <1>2, <1>3
<1>8. NoLeak'
  <2>1. /\ {d \in Poppers : cpc[d] = "take"} = {}
        /\ {d \in Poppers : cpc'[d] = "take"} = {}
    BY <1>7
  <2> QED
    BY <1>1, <2>1 DEF NoLeak
<1>9. Own' /\ InLoop'
  BY <1>1, <1>6 DEF Own, InLoop
<1>10. Popping'
  BY <1>1, <1>2, <1>4, <1>6, <1>7 DEF Popping
<1>11. Joined'
  BY <1>1, <1>2 DEF Joined
<1>12. FromMade' /\ Counted'
  <2>1. Taking = 0 /\ Taking' = 0
    BY <1>7 DEF Taking
  <2> QED
    BY <1>1, <2>1, SameAccount
<1> QED
  BY <1>5, <1>6, <1>8, <1>9, <1>10, <1>11, <1>12 DEF OnePopper

(* The exchange of pop: what it saw at the top is at the top still, so that *)
(* what it read beyond it is what follows.                                  *)
LEMMA PopCASShape ==
  ASSUME StackInv, NEW c \in Poppers, PopCAS(c)
  PROVE  /\ stack # <<>> /\ head = stack[1] /\ head \in StackNodes /\ head = old_head[c]
         /\ head' = next[head] /\ stack' = Tail(stack)
         /\ UNCHANGED <<next, data>>
<1> USE DEF StackInv, NodesInv
<1>1. /\ cpc[c] = "cas" /\ head = old_head[c] /\ head' = desired[c]
      /\ stack' = IF stack = <<>> THEN <<>> ELSE Tail(stack)
      /\ UNCHANGED <<next, data>>
  BY DEF PopCAS
<1>2. old_head[c] \in StackNodes /\ desired[c] = next[old_head[c]]
  BY <1>1 DEF Popping
<1>3. head # NULL
  BY <1>1, <1>2, StackType, NullAssumption
<1> QED
  BY <1>1, <1>2, <1>3, TopOfStack

(* A value that leaves the stack was made, and goes to the popped ones.     *)
LEMMA ValueLeaves ==
  ASSUME TypeOK, Shape, FromMade, stack # <<>>, head' = next[head], stack' = Tail(stack),
         UNCHANGED <<next, data, pushed>>, popped' = Append(popped, data[head])
  PROVE  FromMade' /\ popped' \in Seq(Values \cup {NoValue})
<1>1. Made' = Made /\ Made \subseteq Values
  BY DEF Made
<1>2. data[head] \in Made
  BY TopOfStack DEF FromMade
<1>3. popped \in Seq(Values \cup {NoValue})
  BY DEF TypeOK
<1>4. /\ popped' \in Seq(Values \cup {NoValue})
      /\ \A k \in 1 .. Len(popped') : \/ k \in 1 .. Len(popped) /\ popped'[k] = popped[k]
                                      \/ popped'[k] = data[head]
  BY <1>1, <1>2, <1>3
<1>5. \A k \in 1 .. Len(popped') : popped'[k] \in Made
  BY <1>2, <1>4 DEF FromMade
<1>6. \A k \in 1 .. Len(stack') : k + 1 \in 1 .. Len(stack) /\ stack'[k] = stack[k + 1]
  BY PopShape
<1> QED
  BY <1>1, <1>4, <1>5, <1>6 DEF FromMade

(* The exchange of pop: the node is out of the stack and the popper's own.  *)
LEMMA PopCASInv == ASSUME StackInv, NEW c \in Poppers, PopCAS(c) PROVE StackInv'
<1> USE DEF StackInv, NodesInv
<1>1. /\ cpc[c] = "cas"
      /\ cpc' = [cpc EXCEPT ![c] = "take"]
      /\ popped' = Append(popped, data[old_head[c]])
      /\ desired' = [desired EXCEPT ![c] = NULL]
      /\ UNCHANGED <<next, data, live, pc, new_node, pushed, old_head, total_popped,
                     done_pushing, main, remaining>>
  BY DEF PopCAS, pushVars, mainVars
<1>2. /\ stack # <<>> /\ head \in StackNodes /\ head = old_head[c]
      /\ head' = next[head] /\ stack' = Tail(stack)
  BY PopCASShape
<1>3. \A d \in Poppers : d = c
  BY DEF OnePopper
<1>4. cpc'[c] = "take" /\ head \in Nodes
  BY <1>1, <1>2, StackType DEF TypeOK
<1>5. /\ Shape' /\ StackNodes' = StackNodes \ {head}
      /\ stack' \in Seq(Nodes) /\ Len(stack') = Len(stack) - 1
  BY <1>1, <1>2, PopShape
<1>6. FromMade' /\ popped' \in Seq(Values \cup {NoValue})
  BY <1>1, <1>2, ValueLeaves
<1>7. head' \in Pointers
  BY <1>2, <1>4 DEF TypeOK
<1>8. TypeOK'
  <2>1. desired' \in [Poppers -> Pointers]
    BY <1>1 DEF TypeOK, Pointers
  <2> QED
    BY <1>1, <1>5, <1>6, <1>7, <2>1 DEF TypeOK
<1>9. NoLeak'
  <2>1. {old_head[d] : d \in {e \in Poppers : cpc[e] = "take"}} = {}
    BY <1>1, <1>3
  <2>2. {old_head'[d] : d \in {e \in Poppers : cpc'[e] = "take"}} = {head}
    BY <1>1, <1>2, <1>3, <1>4
  <2>3. live' = StackNodes'
                  \cup {new_node'[q] : q \in {r \in Pushers : pc'[r] # "new"}}
                  \cup {old_head'[d] : d \in {e \in Poppers : cpc'[e] = "take"}}
    BY <1>1, <1>2, <1>5, <2>1, <2>2, LiveNodes
  <2>4. DOMAIN stack' = 1 .. Len(stack')
    BY <1>5
  <2> QED
    BY <2>3, <2>4 DEF NoLeak, StackNodes
<1>10. Own' /\ InLoop'
  BY <1>1, <1>5 DEF Own, InLoop
<1>11. Popping'
  <2>1. \A p \in Pushers : pc[p] # "new" => new_node[p] # head
    BY <1>2 DEF Own
  <2> QED
    BY <1>1, <1>2, <1>3, <1>4, <1>5, <2>1 DEF Popping
<1>12. Joined'
  BY <1>1, <1>2, <1>3 DEF Joined
<1>13. Counted'
  <2>1. /\ Taking = 0 /\ Taking' = 1
        /\ total_popped' = total_popped /\ remaining' = remaining
    BY <1>1, <1>3, <1>4 DEF Taking
  <2>2. Len(stack) \in Nat /\ total_popped \in Nat /\ remaining \in Nat
    BY CountTypes
  <2>3. Made' = Made
    BY <1>1 DEF Made
  <2> QED
    BY <1>5, <2>1, <2>2, <2>3 DEF Counted
<1> QED
  BY <1>5, <1>6, <1>8, <1>9, <1>10, <1>11, <1>12, <1>13 DEF OnePopper

(* The popper deletes its node and counts it. *)
LEMMA PopTakeInv == ASSUME StackInv, NEW c \in Poppers, PopTake(c) PROVE StackInv'
<1> USE DEF StackInv, NodesInv
<1>1. /\ cpc[c] = "take"
      /\ live' = live \ {old_head[c]}
      /\ old_head' = [old_head EXCEPT ![c] = NULL]
      /\ cpc' = [cpc EXCEPT ![c] = "flag"]
      /\ UNCHANGED <<head, next, data, pc, new_node, pushed, desired,
                     done_pushing, main, remaining, stack, popped>>
  BY DEF PopTake, pushVars, mainVars
<1>2. total_popped' = total_popped + 1
  BY DEF PopTake
<1>3. \A d \in Poppers : d = c
  BY DEF OnePopper
<1>4. cpc'[c] = "flag"
  BY <1>1 DEF TypeOK
<1>5. Shape' /\ StackNodes' = StackNodes
  BY <1>1, SameShape
<1>6. total_popped' \in Nat
  <2>1. total_popped \in Nat
    BY DEF TypeOK
  <2> QED
    BY <1>2, <2>1
<1>7. TypeOK'
  BY <1>1, <1>6 DEF TypeOK, Pointers
<1>8. NoLeak'
  <2>1. {old_head[d] : d \in {e \in Poppers : cpc[e] = "take"}} = {old_head[c]}
    BY <1>1, <1>3
  <2>2. {old_head'[d] : d \in {e \in Poppers : cpc'[e] = "take"}} = {}
    BY <1>3, <1>4
  <2>3. /\ old_head[c] \notin StackNodes
        /\ \A p \in Pushers : pc[p] # "new" => new_node[p] # old_head[c]
    BY <1>1 DEF Popping
  <2>4. live' = StackNodes'
                  \cup {new_node'[q] : q \in {r \in Pushers : pc'[r] # "new"}}
                  \cup {old_head'[d] : d \in {e \in Poppers : cpc'[e] = "take"}}
    BY <1>1, <1>5, <2>1, <2>2, <2>3, LiveNodes
  <2>5. stack' = stack /\ DOMAIN stack = 1 .. Len(stack)
    BY <1>1, StackType
  <2> QED
    BY <2>4, <2>5 DEF NoLeak, StackNodes
<1>9. Own' /\ InLoop'
  BY <1>1, <1>5 DEF Own, InLoop
<1>10. Popping'
  BY <1>3, <1>4 DEF Popping
<1>11. Joined'
  BY <1>1, <1>3 DEF Joined
<1>12. Made' = Made
  BY <1>1 DEF Made
<1>13. FromMade'
  BY <1>1, <1>12 DEF FromMade
<1>14. Counted'
  <2>1. Taking = 1 /\ Taking' = 0 /\ stack' = stack /\ remaining' = remaining
    BY <1>1, <1>3, <1>4 DEF Taking
  <2>2. Len(stack) \in Nat /\ total_popped \in Nat /\ remaining \in Nat
    BY CountTypes
  <2> QED
    BY <1>2, <1>12, <2>1, <2>2 DEF Counted
<1> QED
  BY <1>5, <1>7, <1>8, <1>9, <1>10, <1>11, <1>13, <1>14 DEF OnePopper

(* main joins the pushers, tells the poppers, joins them, and ends.         *)
LEMMA MainInv ==
  ASSUME StackInv, JoinPushers \/ StoreDone \/ JoinPoppers \/ DrainEnds
  PROVE  StackInv'
<1> USE DEF StackInv, NodesInv
<1>1. UNCHANGED <<head, next, data, live, pc, new_node, pushed, cpc, old_head, desired,
                  total_popped, remaining, stack, popped>>
  BY DEF JoinPushers, StoreDone, JoinPoppers, DrainEnds, pushVars, popVars
<1>2. /\ main' \in {"join pushers", "store", "join poppers", "drain", "end"}
      /\ done_pushing' \in BOOLEAN
  BY DEF JoinPushers, StoreDone, JoinPoppers, DrainEnds, TypeOK
<1>3. TypeOK'
  BY <1>1, <1>2 DEF TypeOK
<1>4. Shape' /\ StackNodes' = StackNodes
  BY <1>1, SameShape
<1>5. NoLeak'
  BY <1>1 DEF NoLeak
<1>6. Own' /\ InLoop' /\ Popping'
  BY <1>1, <1>4 DEF Own, InLoop, Popping
<1>7. Joined'
  <2>1. DrainEnds => stack = <<>>
    BY TopOfStack DEF DrainEnds
  <2> QED
    BY <1>1, <2>1 DEF JoinPushers, StoreDone, JoinPoppers, DrainEnds, Joined
<1>8. FromMade' /\ Counted'
  <2>1. Taking' = Taking
    BY <1>1 DEF Taking
  <2> QED
    BY <1>1, <2>1, SameAccount
<1> QED
  BY <1>3, <1>4, <1>5, <1>6, <1>7, <1>8 DEF OnePopper

(* main pops: nobody else does any more. *)
LEMMA DrainShape ==
  ASSUME StackInv, Drain
  PROVE  /\ stack # <<>> /\ head \in StackNodes
         /\ head' = next[head] /\ stack' = Tail(stack)
         /\ UNCHANGED <<next, data>>
<1> USE DEF StackInv, NodesInv
<1>1. head # NULL
  BY DEF Drain
<1>2. stack # <<>> /\ head \in StackNodes
  BY <1>1, TopOfStack
<1>3. head \in live
  BY <1>2, LiveNodes
<1> QED
  BY <1>2, <1>3 DEF Drain

(* The node main pops is deleted and counted. *)
LEMMA DrainInv == ASSUME StackInv, Drain PROVE StackInv'
<1> USE DEF StackInv, NodesInv
<1>1. /\ main = "drain" /\ live' = live \ {head}
      /\ popped' = Append(popped, data[head])
      /\ UNCHANGED <<next, data, pc, new_node, pushed, cpc, old_head, desired, total_popped,
                     done_pushing, main>>
  BY DEF Drain, pushVars, popVars
<1>2. remaining' = remaining + 1
  BY DEF Drain
<1>3. /\ stack # <<>> /\ head \in StackNodes
      /\ head' = next[head] /\ stack' = Tail(stack)
  BY DrainShape
<1>4. \A c \in Poppers : cpc[c] = "done"
  BY <1>1 DEF Joined
<1>5. /\ Shape' /\ StackNodes' = StackNodes \ {head}
      /\ stack' \in Seq(Nodes) /\ Len(stack') = Len(stack) - 1
  BY <1>1, <1>3, PopShape
<1>6. FromMade' /\ popped' \in Seq(Values \cup {NoValue})
  BY <1>1, <1>3, ValueLeaves
<1>7. remaining' \in Nat
  <2>1. remaining \in Nat
    BY DEF TypeOK
  <2> QED
    BY <1>2, <2>1
<1>8. head \in Nodes /\ head' \in Pointers
  BY <1>3, StackType DEF TypeOK
<1>9. TypeOK'
  BY <1>1, <1>5, <1>6, <1>7, <1>8 DEF TypeOK
<1>10. NoLeak'
  <2>1. \A p \in Pushers : pc[p] # "new" => new_node[p] # head
    BY <1>3 DEF Own
  <2>2. {old_head[d] : d \in {e \in Poppers : cpc[e] = "take"}} = {}
    BY <1>4
  <2>3. live' = StackNodes'
                  \cup {new_node'[q] : q \in {r \in Pushers : pc'[r] # "new"}}
                  \cup {old_head'[d] : d \in {e \in Poppers : cpc'[e] = "take"}}
    BY <1>1, <1>5, <2>1, <2>2, LiveNodes
  <2>4. DOMAIN stack' = 1 .. Len(stack')
    BY <1>5
  <2> QED
    BY <2>3, <2>4 DEF NoLeak, StackNodes
<1>11. Own' /\ InLoop'
  BY <1>1, <1>5 DEF Own, InLoop
<1>12. Popping'
  BY <1>1, <1>4 DEF Popping
<1>13. Joined'
  BY <1>1 DEF Joined
<1>14. Counted'
  <2>1. Taking = 0 /\ Taking' = 0 /\ total_popped' = total_popped
    BY <1>1, <1>4 DEF Taking
  <2>2. Len(stack) \in Nat /\ total_popped \in Nat /\ remaining \in Nat
    BY CountTypes
  <2>3. Made' = Made
    BY <1>1 DEF Made
  <2> QED
    BY <1>2, <1>5, <2>1, <2>2, <2>3 DEF Counted
<1> QED
  BY <1>5, <1>6, <1>9, <1>10, <1>11, <1>12, <1>13, <1>14 DEF OnePopper

(* A stuttering step. *)
LEMMA StutterInv == ASSUME StackInv, UNCHANGED vars PROVE StackInv'
<1> USE DEF StackInv, NodesInv, vars, pushVars, popVars, mainVars
<1>1. TypeOK' /\ NoLeak'
  BY DEF TypeOK, NoLeak
<1>2. Shape' /\ StackNodes' = StackNodes
  BY SameShape
<1>3. Own' /\ InLoop' /\ Popping' /\ Joined'
  BY <1>2 DEF Own, InLoop, Popping, Joined
<1>4. Taking' = Taking
  BY DEF Taking
<1>5. FromMade' /\ Counted'
  BY <1>4, SameAccount
<1> QED
  BY <1>1, <1>2, <1>3, <1>5 DEF OnePopper

(* Every step of every thread. *)
LEMMA StepStackInv == StackInv /\ [Next]_vars => StackInv'
<1> SUFFICES ASSUME StackInv, [Next]_vars PROVE StackInv'
  OBVIOUS
<1>1. ASSUME NEW p \in Pushers, PusherStep(p) PROVE StackInv'
  BY <1>1, PushNewInv, PushReadInv, PushCASInv DEF PusherStep
<1>2. ASSUME NEW c \in Poppers, PopperStep(c) PROVE StackInv'
  BY <1>2, PopperLooksInv, PopCASInv, PopTakeInv DEF PopperStep
<1>3. CASE MainStep
  BY <1>3, MainInv, DrainInv DEF MainStep
<1>4. CASE Terminated \/ UNCHANGED vars
  BY <1>4, StutterInv DEF Terminated
<1> QED
  BY <1>1, <1>2, <1>3, <1>4 DEF Next

-----------------------------------------------------------------------------
(* With one popper, whatever the pushers do, the invariant that says where  *)
(* every node and every value is holds (31-88).                             *)
THEOREM Invariance == OnePopper /\ Spec => []StackInv
  BY InitStackInv, StepStackInv, PTL DEF Spec

(* No deleted node is read, no exchange of pop is fooled by an address that *)
(* has come round again, and no node is lost (66-76).                       *)
THEOREM OnePopperIsSafe == OnePopper /\ Spec => []Inv
<1>1. StackInv => Inv
  <2> SUFFICES ASSUME StackInv PROVE Inv
    OBVIOUS
  <2> USE DEF StackInv, NodesInv
  <2>1. head # NULL => head \in live
    BY TopOfStack, LiveNodes
  <2>2. ASSUME NEW c \in Poppers, cpc[c] \in {"read", "cas", "take"}
        PROVE  old_head[c] \in live
    <3>1. CASE cpc[c] = "take"
      BY <3>1, LiveNodes
    <3>2. CASE cpc[c] # "take"
      BY <2>2, <3>2, LiveNodes DEF Popping
    <3> QED
      BY <3>1, <3>2
  <2>3. ExchangeIsCurrent
    BY DEF ExchangeIsCurrent, Popping
  <2> QED
    BY <2>1, <2>2, <2>3 DEF Inv, NoUseAfterFree
<1> QED
  BY <1>1, Invariance, PTL

(* The assertions of lines 162 and 226-227, for one popper or none and any  *)
(* number of pushers: every push is popped or remains, counted once.        *)
THEOREM EveryPushCounted == OnePopper /\ Spec => []AllCounted
<1>1. StackInv => AllCounted
  <2> SUFFICES ASSUME StackInv, main = "end"
               PROVE  total_popped + remaining = Cardinality(Pushers) * NumItems
    BY DEF AllCounted
  <2> USE DEF StackInv, NodesInv
  <2>1. /\ stack = <<>> /\ \A c \in Poppers : cpc[c] = "done"
        /\ \A p \in Pushers : pushed[p] = NumItems
    BY DEF Joined
  <2>2. Taking = 0
    BY <2>1 DEF Taking
  <2>3. Made = Values
    <3>1. \A v \in Values : v[1] \in Pushers /\ v[2] < NumItems
      BY NumItemsAssumption DEF Values
    <3> QED
      BY <2>1, <3>1 DEF Made
  <2>4. Len(stack) = 0
    BY <2>1
  <2>5. total_popped \in Nat /\ remaining \in Nat
    BY CountTypes
  <2>6. Cardinality(Values) = total_popped + remaining
    BY <2>2, <2>3, <2>4, <2>5 DEF Counted
  <2> QED
    BY <2>6, AllValues
<1> QED
  BY <1>1, Invariance, PTL

-----------------------------------------------------------------------------
(* The refinement: the values in the stack, the top first *)

Items == [k \in DOMAIN stack |-> data[stack[k]]]
ItemsOfStack ==
  /\ Items \in Seq(Values) /\ Len(Items) = Len(stack)
  /\ \A k \in 1 .. Len(stack) : Items[k] = data[stack[k]]

(* They are values. *)
LEMMA ItemsType == StackInv => ItemsOfStack
<1> SUFFICES ASSUME StackInv PROVE ItemsOfStack
  OBVIOUS
<1> USE DEF StackInv, NodesInv
<1>1. Len(stack) \in Nat /\ DOMAIN stack = 1 .. Len(stack)
  BY StackType
<1>2. \A k \in 1 .. Len(stack) : data[stack[k]] \in Values
  BY DEF FromMade, Made
<1>3. Items = [k \in 1 .. Len(stack) |-> data[stack[k]]]
  BY <1>1 DEF Items
<1> QED
  BY <1>1, <1>2, <1>3 DEF ItemsOfStack

(* A sequence with v on top of s. *)
LEMMA PushItems ==
  ASSUME NEW v \in Values, NEW s \in Seq(Values), NEW t \in Seq(Values),
         Len(t) = Len(s) + 1, t[1] = v, \A k \in 1 .. Len(s) : t[k + 1] = s[k]
  PROVE  t = <<v>> \o s
<1>1. /\ <<v>> \o s \in Seq(Values) /\ Len(<<v>> \o s) = Len(t)
      /\ (<<v>> \o s)[1] = v
      /\ \A k \in 1 .. Len(s) : (<<v>> \o s)[k + 1] = s[k]
  OBVIOUS
<1>2. ASSUME NEW k \in 1 .. Len(t) PROVE t[k] = (<<v>> \o s)[k]
  <2>1. CASE k = 1
    BY <1>1, <2>1
  <2>2. CASE k # 1
    <3>1. k - 1 \in 1 .. Len(s) /\ (k - 1) + 1 = k
      BY <2>2
    <3> QED
      BY <1>1, <3>1
  <2> QED
    BY <2>1, <2>2
<1> QED
  BY <1>1, <1>2

(* A sequence that has lost its top. *)
LEMMA PopItems ==
  ASSUME NEW s \in Seq(Values), NEW t \in Seq(Values), s # <<>>,
         Len(t) = Len(s) - 1, \A k \in 1 .. Len(t) : t[k] = s[k + 1]
  PROVE  t = Tail(s)
<1>1. /\ Tail(s) \in Seq(Values) /\ Len(Tail(s)) = Len(t)
      /\ \A k \in 1 .. Len(t) : Tail(s)[k] = s[k + 1]
  OBVIOUS
<1> QED
  BY <1>1

(* A step that leaves the stack and the data of its nodes alone. *)
LEMMA SameItems ==
  ASSUME TypeOK, UNCHANGED <<stack, popped>>, \A n \in StackNodes : data'[n] = data[n]
  PROVE  UNCHANGED Stack!vars
<1>1. \A k \in DOMAIN stack : stack[k] \in StackNodes
  BY StackType DEF StackNodes
<1>2. [k \in DOMAIN stack' |-> data'[stack'[k]]] = [k \in DOMAIN stack |-> data[stack[k]]]
  BY <1>1
<1> QED
  BY <1>2 DEF Stack!vars

(* A value enters on top with the exchange of push (46-49), once. *)
LEMMA ExchangePushes ==
  ASSUME StackInv, StackInv', NEW p \in Pushers, PushCAS(p)
  PROVE  Stack!Push(<<p, pushed[p]>>) /\ <<p, pushed[p]>> \in Values
<1> USE DEF StackInv, NodesInv
<1> DEFINE n == new_node[p]
<1> DEFINE value == <<p, pushed[p]>>
<1>1. /\ pc[p] = "cas" /\ head = next[n] /\ head' = n
      /\ stack' = <<n>> \o stack
      /\ pushed' = [pushed EXCEPT ![p] = @ + 1]
      /\ UNCHANGED <<next, data, popped>>
  BY DEF PushCAS
<1>2. n \in Nodes \ StackNodes /\ data[n] = value /\ pushed[p] < NumItems
  BY <1>1 DEF Own, InLoop
<1>3. /\ Len(stack') = Len(stack) + 1
      /\ stack'[1] = n /\ \A k \in 1 .. Len(stack) : stack'[k + 1] = stack[k]
  BY <1>1, <1>2, PushShape
<1>4. value \in Values \ Made
  BY <1>1, <1>2, OneMoreMade
<1>5. /\ Items \in Seq(Values) /\ Len(Items) = Len(stack) /\ Len(stack) \in Nat
      /\ \A k \in 1 .. Len(stack) : Items[k] = data[stack[k]]
  BY ItemsType, StackType DEF ItemsOfStack
<1>6. /\ Items' \in Seq(Values) /\ Len(Items') = Len(stack) + 1
      /\ \A k \in 1 .. Len(stack) + 1 : Items'[k] = data[stack'[k]]
  <2>1. ItemsOfStack'
    BY ItemsType, PTL
  <2> QED
    BY <1>1, <1>3, <2>1 DEF ItemsOfStack
<1>7. Items'[1] = value
  <2>1. 1 \in 1 .. Len(stack) + 1
    BY <1>5
  <2> QED
    BY <1>2, <1>3, <1>6, <2>1
<1>8. \A k \in 1 .. Len(Items) : Items'[k + 1] = Items[k]
  <2>1. \A k \in 1 .. Len(stack) : k + 1 \in 1 .. Len(stack) + 1
    BY <1>5
  <2> QED
    BY <1>3, <1>5, <1>6, <2>1
<1>9. Items' = <<value>> \o Items
  <2>1. Len(Items') = Len(Items) + 1
    BY <1>5, <1>6
  <2> QED
    BY <1>4, <1>5, <1>6, <1>7, <1>8, <2>1, PushItems
<1>10. value \notin Stack!Entered
  <2>1. DOMAIN stack = 1 .. Len(stack) /\ DOMAIN popped = 1 .. Len(popped)
    <3>1. popped \in Seq(Values \cup {NoValue})
      BY DEF TypeOK
    <3> QED
      BY <3>1, StackType
  <2>2. \A k \in DOMAIN Items : Items[k] \in Made
    BY <2>1 DEF Items, FromMade
  <2>3. \A k \in DOMAIN popped : popped[k] \in Made
    BY <2>1 DEF FromMade
  <2> QED
    BY <1>4, <2>2, <2>3 DEF Stack!Entered, Items
<1> QED
  BY <1>1, <1>4, <1>9, <1>10 DEF Stack!Push, Items

(* And leaves from there with the exchange of pop (68-72).                  *)
LEMMA ExchangePops ==
  ASSUME StackInv, StackInv', stack # <<>>, head' = next[head], stack' = Tail(stack),
         UNCHANGED <<next, data>>, popped' = Append(popped, data[head])
  PROVE  Stack!Pop
<1> USE DEF StackInv, NodesInv
<1>1. /\ Len(stack') = Len(stack) - 1
      /\ \A k \in 1 .. Len(stack') : k + 1 \in 1 .. Len(stack) /\ stack'[k] = stack[k + 1]
  BY PopShape
<1>2. /\ Items \in Seq(Values) /\ Len(Items) = Len(stack)
      /\ \A k \in 1 .. Len(stack) : Items[k] = data[stack[k]]
  BY ItemsType DEF ItemsOfStack
<1>3. /\ Items' \in Seq(Values) /\ Len(Items') = Len(stack')
      /\ \A k \in 1 .. Len(stack') : Items'[k] = data[stack'[k]]
  <2>1. ItemsOfStack'
    BY ItemsType, PTL
  <2> QED
    BY <2>1 DEF ItemsOfStack
<1>4. head = stack[1] /\ 1 \in 1 .. Len(stack)
  BY TopOfStack
<1>5. Items[1] = data[head]
  BY <1>2, <1>4
<1>6. Items # <<>>
  BY <1>2, <1>4
<1>7. Items' = Tail(Items)
  <2>1. \A k \in 1 .. Len(Items') : Items'[k] = Items[k + 1]
    BY <1>1, <1>2, <1>3, SMTT(40)
  <2>2. Len(Items') = Len(Items) - 1
    BY <1>1, <1>2, <1>3
  <2> QED
    BY <1>2, <1>3, <1>6, <2>1, <2>2, PopItems
<1>8. Head(Items) = Items[1]
  BY <1>2, <1>6
<1> QED
  BY <1>5, <1>6, <1>7, <1>8 DEF Stack!Pop, Items

(* With one popper the linked nodes are a stack: a value enters on top with *)
(* the exchange of push (46-49) and leaves from the top with that of pop    *)
(* (68-72).                                                                 *)
THEOREM ImplementsStack == OnePopper /\ Spec => StackSpec
<1>1. Init => Stack!Init
  <2> SUFFICES ASSUME Init PROVE Stack!Init
    OBVIOUS
  <2>1. stack = <<>> /\ popped = <<>>
    BY DEF Init
  <2>2. DOMAIN stack = {}
    BY <2>1
  <2>3. Items = <<>>
    BY <2>2 DEF Items
  <2> QED
    BY <2>1, <2>3 DEF Stack!Init, Items
<1>2. StackInv /\ StackInv' /\ [Next]_vars => [Stack!Next]_Stack!vars
  <2> SUFFICES ASSUME StackInv, StackInv', [Next]_vars PROVE [Stack!Next]_Stack!vars
    OBVIOUS
  <2> USE DEF NodesInv
  <2>1. CASE UNCHANGED <<stack, popped, data>>
    BY <2>1, SameItems DEF StackInv
  <2>2. ASSUME NEW p \in Pushers, PushCAS(p) PROVE Stack!Next
    <3>1. Stack!Push(<<p, pushed[p]>>) /\ <<p, pushed[p]>> \in Values
      BY <2>2, ExchangePushes
    <3> QED
      BY <3>1 DEF Stack!Next, Stack!Push
  <2>3. ASSUME NEW p \in Pushers, PushNew(p) PROVE UNCHANGED Stack!vars
    <3>1. PICK n \in Nodes \ live : data' = [data EXCEPT ![n] = <<p, pushed[p]>>]
      BY <2>3 DEF PushNew
    <3>2. \A m \in StackNodes : m \in Nodes /\ m \in live
      BY LiveNodes, StackType DEF StackInv
    <3>3. \A m \in StackNodes : data'[m] = data[m]
      BY <3>1, <3>2 DEF StackInv, TypeOK
    <3>4. UNCHANGED <<stack, popped>>
      BY <2>3 DEF PushNew
    <3> QED
      BY <3>3, <3>4, SameItems DEF StackInv
  <2>4. ASSUME NEW p \in Pushers, PusherStep(p) PROVE [Stack!Next]_Stack!vars
    BY <2>1, <2>2, <2>3, <2>4 DEF PusherStep, PushLoad, PushCASFails
  <2>5. ASSUME NEW c \in Poppers, PopCAS(c) PROVE Stack!Next
    <3>1. popped' = Append(popped, data[head])
      BY <2>5 DEF PopCAS
    <3>2. /\ stack # <<>> /\ head' = next[head] /\ stack' = Tail(stack)
          /\ UNCHANGED <<next, data>>
      BY <2>5, PopCASShape
    <3>3. Stack!Pop
      BY <3>1, <3>2, ExchangePops
    <3> QED
      BY <3>3 DEF Stack!Next
  <2>6. ASSUME NEW c \in Poppers, PopperStep(c) PROVE [Stack!Next]_Stack!vars
    BY <2>1, <2>5, <2>6 DEF PopperStep, TestFlag, TestEmpty, PopLoad, PopRead,
       PopCASFails, PopTake
  <2>7. CASE Drain
    <3>1. popped' = Append(popped, data[head])
      BY <2>7 DEF Drain
    <3> QED
      BY <2>7, <3>1, DrainShape, ExchangePops DEF Stack!Next
  <2>8. CASE MainStep
    BY <2>1, <2>7, <2>8 DEF MainStep, JoinPushers, StoreDone, JoinPoppers, DrainEnds
  <2>9. CASE Terminated \/ UNCHANGED vars
    BY <2>1, <2>9 DEF Terminated, vars
  <2> QED
    BY <2>4, <2>6, <2>8, <2>9 DEF Next
<1> QED
  BY Invariance, <1>1, <1>2, PTL DEF Spec, StackSpec, Stack!Spec
=============================================================================
