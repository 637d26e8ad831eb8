-------------------------- MODULE MemoryManagerProofs --------------------------
(***************************************************************************)
(* For any sizes, arguments and number of blocks: the free list of         *)
(* MemoryManager is exact, and the blocks implement the abstract store.    *)
(***************************************************************************)
EXTENDS MemoryManager, SequenceTheorems, TLAPS

Blocks == Seq(Bytes) \cup {Nullopt}

(* What allocate fills a block with is a block, and not the empty optional. *)
LEMMA ZerosIsABlock ==
  ASSUME NEW size \in Nat
  PROVE  Zeros(size) \in Seq(Bytes) /\ Zeros(size) # Nullopt
<1>1. Zeros(size) \in Seq(Bytes)
  BY BytesAssumption DEF Zeros
<1> QED
  BY <1>1, NulloptAssumption

(* What allocate does to the list when it takes the last id from it. *)
LEMMA TakeLast ==
  ASSUME NEW n \in Nat, NEW s \in Seq(1 .. n), s # <<>>
  PROVE  /\ Last(s) \in 1 .. n
         /\ Last(s) = s[Len(s)]
         /\ Len(s) \in DOMAIN s
         /\ Front(s) \in Seq(1 .. n)
         /\ DOMAIN Front(s) = DOMAIN s \ {Len(s)}
         /\ \A i \in DOMAIN Front(s) : Front(s)[i] = s[i]
<1>1. Len(s) \in Nat \ {0} /\ DOMAIN s = 1 .. Len(s)
  BY EmptySeq, LenProperties
<1>2. Last(s) = s[Len(s)] /\ Last(s) \in 1 .. n
  BY <1>1, ElementOfSeq DEF Last
<1>3. \A i \in 1 .. Len(s) - 1 : s[i] \in 1 .. n
  BY <1>1, ElementOfSeq
<1>4. /\ Front(s) \in Seq(1 .. n)
      /\ Len(Front(s)) = IF 1 <= Len(s) - 1 THEN Len(s) - 1 ELSE 0
      /\ \A i \in 1 .. Len(s) - 1 : Front(s)[i] = s[i]
  BY <1>1, <1>3, SubSeqProperties, Z3 DEF Front
<1>5. Len(Front(s)) = Len(s) - 1
  <2> DEFINE l == Len(s)
  <2>1. l \in Nat \ {0} /\ Len(Front(s)) = IF 1 <= l - 1 THEN l - 1 ELSE 0
    BY <1>1, <1>4
  <2> HIDE DEF l
  <2>2. Len(Front(s)) = l - 1
    BY <2>1
  <2> QED
    BY <2>2 DEF l
<1>6. DOMAIN Front(s) = 1 .. Len(s) - 1
  BY <1>4, <1>5, LenProperties
<1>7. 1 .. Len(s) - 1 = (1 .. Len(s)) \ {Len(s)}
  <2>1. \A l \in Nat \ {0} : 1 .. l - 1 = (1 .. l) \ {l}
    OBVIOUS
  <2> QED
    BY <1>1, <2>1, Zenon
<1>8. Len(s) \in DOMAIN s
  BY <1>1
<1> QED
  BY <1>1, <1>2, <1>4, <1>6, <1>7, <1>8, Zenon

(* A range that write accepts is inside the block. Only sums that do not    *)
(* wrap make it so: (7 + 2) % 8 is no more than a block of one byte has.    *)
LEMMA RangeInBlock ==
  ASSUME NEW block \in Seq(Bytes), NEW len \in Args, NEW offset \in Args,
         NEW src \in [1 .. len -> Bytes], Accepts(block, Len(src), offset)
  PROVE  DOMAIN block \cup {offset + j : j \in DOMAIN src} = DOMAIN block
<1>1. len \in Nat /\ offset \in Nat /\ offset + len \in Nat /\ offset + len < SizeMod
  BY SizesAssumption, NoWrapAssumption, BoundsAssumption
<1>2. Len(src) = len /\ DOMAIN src = 1 .. len
  BY <1>1, LenProperties
<1>3. Len(block) \in Nat /\ DOMAIN block = 1 .. Len(block)
  BY LenProperties
<1>4. \A n \in Nat, m \in Nat : n < m => n % m = n
  OBVIOUS
<1>5. (offset + len) % SizeMod = offset + len
  BY <1>1, <1>4, BoundsAssumption, Zenon
<1>6. offset + len <= Len(block)
  BY <1>2, <1>5 DEF Accepts
<1>7. {offset + j : j \in DOMAIN src} \subseteq 1 .. Len(block)
  BY <1>1, <1>2, <1>3, <1>6
<1> QED
  BY <1>3, <1>7

(* Every operation keeps the free list equal to the free ids, those lost    *)
(* apart, and free of doubles.                                              *)
LEMMA Preserved == Inv /\ [Next]_vars => Inv'
<1> SUFFICES ASSUME Inv, [Next]_vars PROVE Inv'
  OBVIOUS
<1>0. /\ blocks \in Seq(Blocks)
      /\ Len(blocks) \in Nat
      /\ DOMAIN blocks = 1 .. Len(blocks)
      /\ free_list \in Seq(1 .. Len(blocks))
      /\ Len(free_list) \in Nat
      /\ DOMAIN free_list = 1 .. Len(free_list)
      /\ lost \subseteq 1 .. Len(blocks)
  BY DEF Inv, TypeOK, Blocks
<1>E. FreeListExact
  BY DEF Inv
<1>1. ASSUME NEW size \in Sizes, AllocateReuse(size) PROVE Inv'
  <2> DEFINE id == Last(free_list)
  <2>1. free_list # <<>>
    BY <1>1 DEF AllocateReuse
  <2>2. /\ id \in 1 .. Len(blocks)
        /\ id = free_list[Len(free_list)]
        /\ Len(free_list) \in DOMAIN free_list
        /\ free_list' \in Seq(1 .. Len(blocks))
        /\ DOMAIN free_list' = DOMAIN free_list \ {Len(free_list)}
        /\ \A i \in DOMAIN free_list' : free_list'[i] = free_list[i]
    BY <1>0, <1>1, <2>1, TakeLast DEF AllocateReuse
  <2>3. Zeros(size) \in Blocks /\ Zeros(size) # Nullopt /\ size \in Nat
    BY ZerosIsABlock, SizesAssumption, BoundsAssumption DEF Blocks
  <2>4. /\ blocks' \in Seq(Blocks) /\ Len(blocks') = Len(blocks)
        /\ DOMAIN blocks' = DOMAIN blocks
        /\ \A j \in DOMAIN blocks \ {id} : blocks'[j] = blocks[j]
        /\ blocks'[id] = Zeros(size)
    BY <1>0, <1>1, <2>2, <2>3, ExceptSeq DEF AllocateReuse
  <2>5. TypeOK'
    BY <1>0, <1>1, <2>2, <2>4 DEF AllocateReuse, TypeOK, Blocks
  <2>6. Empty' = Empty \ {id} /\ id \notin lost /\ lost' = lost
    <3>1. id \in Empty \ lost
      BY <1>E, <2>2 DEF FreeListExact
    <3> QED
      BY <1>1, <2>3, <2>4, <3>1 DEF Empty, Engaged, AllocateReuse
  <2>7. NoDuplicates'
    BY <1>E, <2>2 DEF FreeListExact, NoDuplicates
  <2>8. ASSUME NEW i \in DOMAIN free_list' PROVE free_list'[i] \in (Empty \ lost)'
    BY <1>E, <2>2, <2>6 DEF FreeListExact, NoDuplicates
  <2>9. ASSUME NEW j \in (Empty \ lost)'
        PROVE  \E i \in DOMAIN free_list' : free_list'[i] = j
    BY <1>E, <2>2, <2>6 DEF FreeListExact
  <2> QED
    BY <1>E, <2>5, <2>6, <2>7, <2>8, <2>9 DEF Inv, FreeListExact
<1>2. CASE AllocateReuseThrows
  <2> DEFINE id == Last(free_list)
  <2>1. /\ id \in 1 .. Len(blocks)
        /\ id = free_list[Len(free_list)]
        /\ Len(free_list) \in DOMAIN free_list
        /\ free_list' \in Seq(1 .. Len(blocks))
        /\ DOMAIN free_list' = DOMAIN free_list \ {Len(free_list)}
        /\ \A i \in DOMAIN free_list' : free_list'[i] = free_list[i]
    BY <1>0, <1>2, TakeLast DEF AllocateReuseThrows
  <2>2. TypeOK'
    BY <1>0, <1>2, <2>1 DEF AllocateReuseThrows, TypeOK, Blocks
  <2>3. Empty' = Empty /\ id \in Empty /\ lost' = lost \cup {id}
    BY <1>2, <1>E, <2>1 DEF AllocateReuseThrows, FreeListExact, Empty, Engaged
  <2>4. FreeListExact'
    BY <1>E, <2>1, <2>3 DEF FreeListExact, NoDuplicates
  <2> QED
    BY <2>2, <2>4 DEF Inv
<1>3. ASSUME NEW size \in Sizes, AllocateGrow(size) PROVE Inv'
  <2>1. free_list' = <<>> /\ DOMAIN free_list' = {} /\ lost' = lost /\ DOMAIN free_list = {}
    BY <1>3 DEF AllocateGrow
  <2>2. Zeros(size) \in Blocks /\ Zeros(size) # Nullopt /\ size \in Nat
    BY ZerosIsABlock, SizesAssumption, BoundsAssumption DEF Blocks
  <2>3. /\ blocks' \in Seq(Blocks)
        /\ Len(blocks') = Len(blocks) + 1
        /\ DOMAIN blocks' = 1 .. Len(blocks) + 1
        /\ \A j \in 1 .. Len(blocks) : blocks'[j] = blocks[j]
        /\ blocks'[Len(blocks) + 1] = Zeros(size)
    BY <1>0, <1>3, <2>2 DEF AllocateGrow
  <2>4. TypeOK'
    BY <1>0, <2>1, <2>3 DEF TypeOK, Blocks
  <2>5. Empty' = Empty
    BY <1>0, <2>2, <2>3 DEF Empty, Engaged
  <2>6. FreeListExact'
    BY <1>E, <2>1, <2>5 DEF FreeListExact, NoDuplicates
  <2> QED
    BY <2>4, <2>6 DEF Inv
<1>4. ASSUME NEW id, Deallocate(id) PROVE Inv'
  <2>1. /\ id \in 1 .. Len(blocks) /\ blocks[id] # Nullopt
        /\ Nullopt \in Blocks
        /\ lost' = lost
    BY <1>0, <1>4 DEF Deallocate, Engaged, Blocks
  <2>2. /\ blocks' \in Seq(Blocks) /\ Len(blocks') = Len(blocks)
        /\ DOMAIN blocks' = DOMAIN blocks
        /\ blocks'[id] = Nullopt
        /\ \A j \in DOMAIN blocks \ {id} : blocks'[j] = blocks[j]
    BY <1>0, <1>4, <2>1, ExceptSeq DEF Deallocate
  <2>3. /\ free_list' \in Seq(1 .. Len(blocks))
        /\ Len(free_list') = Len(free_list) + 1
        /\ DOMAIN free_list' = 1 .. Len(free_list) + 1
        /\ \A i \in 1 .. Len(free_list) : free_list'[i] = free_list[i]
        /\ free_list'[Len(free_list) + 1] = id
    BY <1>0, <1>4, <2>1 DEF Deallocate
  <2>4. TypeOK'
    BY <1>0, <2>1, <2>2, <2>3 DEF TypeOK, Blocks
  <2>5. id \notin Empty /\ Empty' = Empty \cup {id} /\ id \notin lost
    BY <1>0, <1>E, <2>1, <2>2 DEF Empty, Engaged, FreeListExact
  <2>6. \A i \in 1 .. Len(free_list) : free_list[i] \in Empty \ lost /\ free_list[i] # id
    BY <1>0, <1>E, <2>5 DEF FreeListExact
  <2>7. NoDuplicates'
    <3> SUFFICES ASSUME NEW i \in DOMAIN free_list', NEW j \in DOMAIN free_list',
                        free_list'[i] = free_list'[j]
                 PROVE  i = j
      BY DEF NoDuplicates
    <3>1. CASE i \in 1 .. Len(free_list) /\ j \in 1 .. Len(free_list)
      BY <1>0, <1>E, <2>3, <3>1 DEF FreeListExact, NoDuplicates
    <3> QED
      BY <1>0, <2>3, <2>6, <3>1, SMTT(40)
  <2>8. ASSUME NEW i \in DOMAIN free_list' PROVE free_list'[i] \in (Empty \ lost)'
    <3>1. CASE i \in 1 .. Len(free_list)
      BY <2>1, <2>3, <2>5, <2>6, <3>1
    <3>2. CASE i = Len(free_list) + 1
      BY <2>1, <2>3, <2>5, <3>2
    <3> QED
      BY <1>0, <2>3, <3>1, <3>2
  <2>9. ASSUME NEW j \in (Empty \ lost)'
        PROVE  \E i \in DOMAIN free_list' : free_list'[i] = j
    <3>1. CASE j = id
      <4>1. \A l \in Nat : l + 1 \in 1 .. l + 1
        OBVIOUS
      <4>2. Len(free_list) + 1 \in DOMAIN free_list'
        BY <1>0, <2>3, <4>1, Zenon
      <4> QED
        BY <2>3, <3>1, <4>2, Zenon
    <3>2. CASE j \in Empty \ lost
      <4>1. PICK i \in 1 .. Len(free_list) : free_list[i] = j
        BY <1>0, <1>E, <3>2 DEF FreeListExact
      <4>2. i \in DOMAIN free_list' /\ free_list'[i] = j
        BY <1>0, <2>3, <4>1
      <4> QED
        BY <4>2
    <3> QED
      BY <2>1, <2>5, <3>1, <3>2
  <2>10. (lost \subseteq Empty)'
    BY <1>E, <2>1, <2>5 DEF FreeListExact
  <2> QED
    BY <2>4, <2>7, <2>8, <2>9, <2>10 DEF Inv, FreeListExact
<1>5. ASSUME NEW id, DeallocateThrows(id) PROVE Inv'
  <2>1. /\ id \in 1 .. Len(blocks) /\ blocks[id] # Nullopt
        /\ Nullopt \in Blocks
        /\ lost' = lost \cup {id}
        /\ free_list' = free_list
    BY <1>0, <1>5 DEF DeallocateThrows, Engaged, Blocks
  <2>2. /\ blocks' \in Seq(Blocks) /\ Len(blocks') = Len(blocks)
        /\ DOMAIN blocks' = DOMAIN blocks
        /\ blocks'[id] = Nullopt
        /\ \A j \in DOMAIN blocks \ {id} : blocks'[j] = blocks[j]
    BY <1>0, <1>5, <2>1, ExceptSeq DEF DeallocateThrows
  <2>3. TypeOK'
    BY <1>0, <2>1, <2>2 DEF TypeOK, Blocks
  <2>4. id \notin Empty /\ Empty' = Empty \cup {id}
    BY <1>0, <2>1, <2>2 DEF Empty, Engaged
  <2>5. FreeListExact'
    BY <1>E, <2>1, <2>4 DEF FreeListExact, NoDuplicates
  <2> QED
    BY <2>3, <2>5 DEF Inv
<1>6. ASSUME NEW id, NEW len \in Args, NEW offset \in Args,
             NEW src \in [1 .. len -> Bytes], Write(id, src, offset)
      PROVE  Inv'
  <2> DEFINE block == [k \in DOMAIN blocks[id] |-> IF k - offset \in DOMAIN src
                                        THEN src[k - offset] ELSE blocks[id][k]]
  <2>1. id \in 1 .. Len(blocks) /\ blocks[id] \in Seq(Bytes)
    BY <1>0, <1>6, ElementOfSeq DEF Write, Engaged, Blocks
  <2>2. block \in Seq(Bytes)
    <3>1. /\ Len(blocks[id]) \in Nat /\ DOMAIN blocks[id] = 1 .. Len(blocks[id])
          /\ \A k \in 1 .. Len(blocks[id]) : blocks[id][k] \in Bytes
      BY <2>1, LenProperties, ElementOfSeq
    <3>2. DOMAIN src = 1 .. len /\ \A k \in 1 .. len : src[k] \in Bytes
      OBVIOUS
    <3>3. block \in [1 .. Len(blocks[id]) -> Bytes]
      BY <3>1, <3>2
    <3> QED
      BY <3>1, <3>3
  <2>3. blocks' = [blocks EXCEPT ![id] = block]
    BY <1>6, <2>1, RangeInBlock DEF Write
  <2> HIDE DEF block
  <2>4. /\ blocks' \in Seq(Blocks) /\ Len(blocks') = Len(blocks)
        /\ DOMAIN blocks' = DOMAIN blocks
        /\ \A j \in DOMAIN blocks \ {id} : blocks'[j] = blocks[j]
        /\ blocks'[id] = block
    BY <1>0, <2>1, <2>2, <2>3, ExceptSeq DEF Blocks
  <2>5. TypeOK'
    BY <1>0, <1>6, <2>4 DEF Write, TypeOK, Blocks
  <2>6. Empty' = Empty
    <3>1. block # Nullopt /\ blocks[id] # Nullopt
      BY <2>1, <2>2, NulloptAssumption
    <3> QED
      BY <3>1, <2>4 DEF Empty, Engaged
  <2>7. FreeListExact'
    BY <1>6, <1>E, <2>6 DEF Write, FreeListExact, NoDuplicates
  <2> QED
    BY <2>5, <2>7 DEF Inv
<1>7. CASE UNCHANGED vars
  BY <1>7 DEF vars, Inv, TypeOK, FreeListExact, NoDuplicates, Empty, Engaged
<1> QED
  BY <1>1, <1>2, <1>3, <1>4, <1>5, <1>6, <1>7 DEF Next, DeallocateNothing, WriteThrows

(* At first there are no blocks and no free ids. *)
LEMMA Initially == Init => Inv
BY DEF Init, Inv, TypeOK, FreeListExact, NoDuplicates, Empty

(* Whatever allocations throw and whatever ids deallocate is called with,   *)
(* allocate never hands out an id that is in use: the free list is exactly  *)
(* the free ids, but for those lost (31-32, 36-45, 68-73).                  *)
THEOREM Invariance == Spec => []Inv
BY Initially, Preserved, PTL DEF Spec

(* allocate lets the blocks grow only if no id is free but those lost: a    *)
(* new block is appended when the list is empty, which then lacks nothing   *)
(* (35-45).                                                                 *)
THEOREM ReusesFreeIds == Spec => GrowsOnlyWhenFull
<1>1. Inv /\ [Next]_vars => [Len(blocks') > Len(blocks) => Empty = lost]_vars
  <2> SUFFICES ASSUME Inv, Next, Len(blocks') > Len(blocks) PROVE Empty = lost
    BY DEF vars
  <2>0. Len(blocks) \in Nat /\ blocks \in Seq(Blocks)
    BY DEF Inv, TypeOK, Blocks
  <2>1. ASSUME NEW f, NEW b, blocks' = [blocks EXCEPT ![b] = f] PROVE FALSE
    BY <2>0, <2>1
  <2>2. ASSUME blocks' = blocks PROVE FALSE
    BY <2>0, <2>2
  <2>3. PICK size \in Sizes : AllocateGrow(size)
    BY <2>1, <2>2, Zenon
       DEF Next, AllocateReuse, AllocateReuseThrows, Deallocate, DeallocateThrows,
           DeallocateNothing, Write, WriteThrows, vars
  <2>4. DOMAIN free_list = {}
    BY <2>3 DEF AllocateGrow
  <2> QED
    BY <2>4 DEF Inv, FreeListExact
<1> QED
  BY <1>1, Invariance, PTL DEF Spec, GrowsOnlyWhenFull

-----------------------------------------------------------------------------
(* The bound that the model puts on the number of blocks. *)
Bounded == Len(blocks) <= MaxBlocks

LEMMA BoundedStep == Inv /\ Bounded /\ [Next]_vars => Bounded'
<1> SUFFICES ASSUME Inv, Bounded, [Next]_vars PROVE Bounded'
  OBVIOUS
<1>0. blocks \in Seq(Blocks) /\ Len(blocks) \in Nat
  BY DEF Inv, TypeOK, Blocks
<1>1. ASSUME NEW f, NEW b, blocks' = [blocks EXCEPT ![b] = f] PROVE Bounded'
  BY <1>0, <1>1 DEF Bounded
<1>2. ASSUME blocks' = blocks PROVE Bounded'
  BY <1>2 DEF Bounded
<1>3. ASSUME NEW size \in Sizes, AllocateGrow(size) PROVE Bounded'
  BY <1>0, <1>3, BoundsAssumption DEF AllocateGrow, Bounded
<1> QED
  BY <1>1, <1>2, <1>3, Zenon
     DEF Next, AllocateReuse, AllocateReuseThrows, Deallocate, DeallocateThrows,
         DeallocateNothing, Write, WriteThrows, vars

(* The three things an operation may do to the blocks in use: one more, of  *)
(* zeros; one less; another contents of the same length.                    *)
Fills(id) == /\ id \in 1 .. MaxBlocks
             /\ id \notin Engaged
             /\ Engaged' = Engaged \cup {id}
             /\ \E size \in Nat : blocks'[id] = Zeros(size)
             /\ \A j \in Engaged : blocks'[j] = blocks[j]

Empties(id) == /\ id \in Engaged
               /\ Engaged' = Engaged \ {id}
               /\ \A j \in Engaged \ {id} : blocks'[j] = blocks[j]

Rewrites(id) == /\ id \in Engaged
                /\ Engaged' = Engaged
                /\ Len(blocks'[id]) = Len(blocks[id])
                /\ \A j \in Engaged \ {id} : blocks'[j] = blocks[j]

(* Each of them is an operation of the store. *)
LEMMA FillsTheStore == ASSUME NEW id, Fills(id) PROVE Store!Next
<1> DEFINE store == [j \in Engaged |-> blocks[j]]
<1>1. PICK size \in Nat : blocks'[id] = Zeros(size)
  BY DEF Fills
<1>2. Len(Zeros(size)) = size
  BY DEF Zeros
<1>3. store' = [j \in Engaged \cup {id} |-> IF j = id THEN Zeros(size) ELSE store[j]]
  BY <1>1 DEF Fills
<1>4. Store!Zeros(size) = Zeros(size)
  BY DEF Store!Zeros, Zeros
<1>5. id \in DOMAIN store' /\ store'[id] = Zeros(size) /\ DOMAIN store = Engaged
  BY <1>3
<1>6. store'[id] = Store!Zeros(Len(store'[id]))
  BY <1>2, <1>4, <1>5, Zenon DEF Store!Zeros, Zeros
<1>7. store' = [j \in DOMAIN store \cup {id} |->
                  IF j = id THEN Store!Zeros(Len(store'[id])) ELSE store[j]]
  BY <1>3, <1>5, <1>6
<1> QED
  BY <1>5, <1>7, Zenon DEF Fills, Store!Next, Store!Allocate

LEMMA EmptiesTheStore == ASSUME NEW id, Empties(id) PROVE Store!Next
<1> DEFINE store == [j \in Engaged |-> blocks[j]]
<1>1. store' = [j \in Engaged \ {id} |-> store[j]]
  BY DEF Empties
<1>2. Store!Free(id) /\ id \in DOMAIN store
  BY <1>1 DEF Empties, Store!Free
<1> QED
  BY <1>2 DEF Store!Next

LEMMA RewritesTheStore == ASSUME NEW id, Rewrites(id) PROVE Store!Next
<1> DEFINE store == [j \in Engaged |-> blocks[j]]
<1>1. store' = [j \in Engaged |-> blocks'[j]]
  BY DEF Rewrites
<1>2. store'[id] = blocks'[id] /\ store[id] = blocks[id]
  BY <1>1 DEF Rewrites
<1>3. store' = [store EXCEPT ![id] = store'[id]]
  BY <1>1, <1>2 DEF Rewrites
<1>4. /\ id \in DOMAIN store /\ id \in DOMAIN store'
      /\ Len(store'[id]) = Len(store[id])
  BY <1>1, <1>2 DEF Rewrites
<1> QED
  BY <1>3, <1>4, Zenon DEF Store!Next, Store!Write

(* Whatever is allocated, freed, reused and written in whatever order, and  *)
(* whatever throws: an id handed out is no other owner's, its block starts  *)
(* from zeros, and nobody else's operation changes it (35-45, 48-66, 68-73).*)
(* A write stays inside its block because sums do not wrap                  *)
(* (NoWrapAssumption); for those that do it is false.                       *)
THEOREM ImplementsStore == Spec => StoreSpec
<1>1. Init => Bounded /\ Store!Init
  <2> SUFFICES ASSUME Init PROVE Bounded /\ Store!Init
    OBVIOUS
  <2>1. Engaged = {} /\ Len(blocks) = 0
    BY DEF Init, Engaged
  <2>2. [id \in Engaged |-> blocks[id]] = <<>>
    BY <2>1
  <2> QED
    BY <2>1, <2>2, BoundsAssumption DEF Bounded, Store!Init
<1>2. Inv /\ Bounded /\ [Next]_vars => [Store!Next]_([id \in Engaged |-> blocks[id]])
  <2> SUFFICES ASSUME Inv, Bounded, [Next]_vars
               PROVE  Store!Next \/ UNCHANGED [id \in Engaged |-> blocks[id]]
    OBVIOUS
  <2>0. /\ blocks \in Seq(Blocks)
        /\ Len(blocks) \in Nat
        /\ DOMAIN blocks = 1 .. Len(blocks)
        /\ free_list \in Seq(1 .. Len(blocks))
        /\ 1 .. Len(blocks) \subseteq 1 .. MaxBlocks
        /\ Nullopt \in Blocks
    BY BoundsAssumption DEF Inv, TypeOK, Blocks, Bounded
  <2>1. ASSUME NEW size \in Sizes, AllocateReuse(size) PROVE Store!Next
    <3> DEFINE id == Last(free_list)
    <3>1. id \in DOMAIN blocks /\ id \notin Engaged
      BY <2>0, <2>1, TakeLast DEF AllocateReuse, Inv, FreeListExact, Empty
    <3>2. Zeros(size) \in Blocks /\ Zeros(size) # Nullopt /\ size \in Nat
      BY ZerosIsABlock, SizesAssumption, BoundsAssumption DEF Blocks
    <3>3. /\ DOMAIN blocks' = DOMAIN blocks /\ blocks'[id] = Zeros(size)
          /\ \A j \in DOMAIN blocks \ {id} : blocks'[j] = blocks[j]
      BY <2>0, <2>1, <3>1 DEF AllocateReuse
    <3> HIDE DEF id
    <3>4. Fills(id)
      BY <2>0, <3>1, <3>2, <3>3 DEF Fills, Engaged
    <3> QED
      BY <3>4, FillsTheStore
  <2>2. ASSUME NEW size \in Sizes, AllocateGrow(size) PROVE Store!Next
    <3> DEFINE id == Len(blocks) + 1
    <3>1. id \in 1 .. MaxBlocks /\ id \notin DOMAIN blocks
      BY <2>0, <2>2, BoundsAssumption DEF AllocateGrow
    <3>2. Zeros(size) \in Blocks /\ Zeros(size) # Nullopt /\ size \in Nat
      BY ZerosIsABlock, SizesAssumption, BoundsAssumption DEF Blocks
    <3>3. /\ DOMAIN blocks' = DOMAIN blocks \cup {id} /\ blocks'[id] = Zeros(size)
          /\ \A j \in DOMAIN blocks : blocks'[j] = blocks[j]
      BY <2>0, <2>2, <3>2 DEF AllocateGrow
    <3> HIDE DEF id
    <3>4. Fills(id)
      BY <3>1, <3>2, <3>3 DEF Fills, Engaged
    <3> QED
      BY <3>4, FillsTheStore
  <2>3. ASSUME NEW id, Deallocate(id) \/ DeallocateThrows(id) PROVE Store!Next
    <3>1. id \in Engaged /\ blocks' = [blocks EXCEPT ![id] = Nullopt]
      BY <2>3 DEF Deallocate, DeallocateThrows
    <3>2. /\ DOMAIN blocks' = DOMAIN blocks /\ blocks'[id] = Nullopt
          /\ \A j \in DOMAIN blocks \ {id} : blocks'[j] = blocks[j]
      BY <2>0, <3>1 DEF Engaged
    <3>3. Empties(id)
      BY <3>1, <3>2 DEF Empties, Engaged
    <3> QED
      BY <3>3, EmptiesTheStore
  <2>4. ASSUME NEW id, NEW len \in Args, NEW offset \in Args,
               NEW src \in [1 .. len -> Bytes], Write(id, src, offset)
        PROVE  Store!Next
    <3> DEFINE block == [k \in DOMAIN blocks[id] |-> IF k - offset \in DOMAIN src
                                          THEN src[k - offset] ELSE blocks[id][k]]
    <3>1. id \in Engaged /\ id \in DOMAIN blocks /\ blocks[id] \in Seq(Bytes)
      BY <2>0, <2>4, ElementOfSeq DEF Write, Engaged, Blocks
    <3>2. block \in Seq(Bytes) /\ Len(block) = Len(blocks[id])
      <4>1. /\ Len(blocks[id]) \in Nat /\ DOMAIN blocks[id] = 1 .. Len(blocks[id])
            /\ \A k \in 1 .. Len(blocks[id]) : blocks[id][k] \in Bytes
        BY <3>1, LenProperties, ElementOfSeq
      <4>2. DOMAIN src = 1 .. len /\ \A k \in 1 .. len : src[k] \in Bytes
        OBVIOUS
      <4>3. block \in [1 .. Len(blocks[id]) -> Bytes]
        BY <4>1, <4>2
      <4> QED
        BY <4>1, <4>3
    <3>3. blocks' = [blocks EXCEPT ![id] = block]
      BY <2>4, <3>1, RangeInBlock DEF Write
    <3> HIDE DEF block
    <3>4. /\ DOMAIN blocks' = DOMAIN blocks /\ blocks'[id] = block
          /\ \A j \in DOMAIN blocks \ {id} : blocks'[j] = blocks[j]
      BY <2>0, <3>1, <3>3
    <3>5. block # Nullopt
      BY <3>2, NulloptAssumption
    <3>6. Rewrites(id)
      BY <3>1, <3>2, <3>4, <3>5 DEF Rewrites, Engaged
    <3> QED
      BY <3>6, RewritesTheStore
  <2>5. CASE blocks' = blocks
    BY <2>5 DEF Engaged
  <2> QED
    BY <2>1, <2>2, <2>3, <2>4, <2>5, Zenon
       DEF Next, AllocateReuseThrows, DeallocateNothing, WriteThrows, vars
<1> QED
  BY Invariance, <1>1, <1>2, BoundedStep, PTL DEF Spec, StoreSpec, Store!Spec
=============================================================================
