--------------------------- MODULE RingQueueProofs ---------------------------
(***************************************************************************)
(* Proofs about RingQueue, for every capacity, every number of items and,  *)
(* unless a theorem names OneProducerOneConsumer, every number of threads. *)
(***************************************************************************)
EXTENDS RingQueue, SequenceTheorems, TLAPS

\* Succ is plus one, and back to slot 0 after the last slot.
LEMMA SuccWraps ==
  ASSUME NEW i \in Slot
  PROVE  Succ(i) = IF i = Capacity THEN 0 ELSE i + 1
<1>1. Capacity \in Nat \ {0} /\ i \in 0 .. Capacity
  BY RingAssumption DEF Slot
<1>2. CASE i = Capacity
  <2>1. (Capacity + 1) % (Capacity + 1) = 0
    BY <1>1
  <2> QED  BY <1>2, <2>1 DEF Succ, Slots
<1>3. CASE i # Capacity
  <2>1. i + 1 \in 0 .. Capacity
    BY <1>1, <1>3
  <2>2. (i + 1) % (Capacity + 1) = i + 1
    BY <1>1, <2>1
  <2> QED  BY <1>3, <2>2 DEF Succ, Slots
<1> QED  BY <1>2, <1>3

\* The successor of a slot is a slot.
LEMMA SuccInSlot ==
  ASSUME NEW i \in Slot
  PROVE  Succ(i) \in Slot
BY SuccWraps, RingAssumption DEF Slot

(***************************************************************************)
(* The variables keep their types, however many threads share the queue.   *)
(***************************************************************************)
THEOREM TypeCorrect == Spec => []TypeOK
<1> USE RingAssumption
<1>1. Init => TypeOK
  BY DEF Init, TypeOK, Slot, Item, Hollow, ProducerPc, ConsumerPc
<1>2. TypeOK /\ [Next]_vars => TypeOK'
  <2> SUFFICES ASSUME TypeOK, [Next]_vars  PROVE TypeOK'
    OBVIOUS
  <2> USE DEF TypeOK, history, producerVars, consumerVars
  <2>1. ASSUME NEW p \in Producers, PushLoadTail(p)  PROVE TypeOK'
    BY <2>1 DEF PushLoadTail, Item, ProducerPc
  <2>2. ASSUME NEW p \in Producers, PushRefuse(p)  PROVE TypeOK'
    BY <2>2 DEF PushRefuse, ProducerPc
  <2>3. ASSUME NEW p \in Producers, PushRoom(p)  PROVE TypeOK'
    BY <2>3 DEF PushRoom, ProducerPc
  <2>4. ASSUME NEW p \in Producers, PushWrite(p)  PROVE TypeOK'
    BY <2>4 DEF PushWrite, ProducerPc
  <2>5. ASSUME NEW p \in Producers, PushStoreTail(p)  PROVE TypeOK'
    <3>1. Succ(ptail[p]) \in Slot
      BY SuccInSlot
    <3> QED  BY <2>5, <3>1 DEF PushStoreTail, ProducerPc
  <2>6. ASSUME NEW c \in Consumers, PopLoadHead(c)  PROVE TypeOK'
    BY <2>6 DEF PopLoadHead, ConsumerPc
  <2>7. ASSUME NEW c \in Consumers, PopEmpty(c)  PROVE TypeOK'
    BY <2>7 DEF PopEmpty, ConsumerPc
  <2>8. ASSUME NEW c \in Consumers, PopSome(c)  PROVE TypeOK'
    BY <2>8 DEF PopSome, ConsumerPc
  <2>9. ASSUME NEW c \in Consumers, PopMove(c)  PROVE TypeOK'
    <3>1. data[chead[c]] \in Item \union {Hollow}
      OBVIOUS
    <3>2. data' \in [Slot -> Item \union {Hollow}]
      BY <2>9, <3>1 DEF PopMove
    <3> QED  BY <2>9, <3>1, <3>2 DEF PopMove, ConsumerPc
  <2>10. ASSUME NEW c \in Consumers, PopStoreHead(c)  PROVE TypeOK'
    <3>1. Succ(chead[c]) \in Slot
      BY SuccInSlot
    <3> QED  BY <2>10, <3>1 DEF PopStoreHead, ConsumerPc
  <2>11. CASE UNCHANGED vars
    BY <2>11 DEF vars
  <2> QED
    BY <2>1, <2>2, <2>3, <2>4, <2>5, <2>6, <2>7, <2>8, <2>9, <2>10, <2>11
    DEF Next, PushStep, PopStep
<1> QED  BY <1>1, <1>2, PTL DEF Spec
-----------------------------------------------------------------------------
\* Two slots with one successor are one slot: an index that moved on cannot
\* be taken for the one it left.
LEMMA SuccInjective ==
  ASSUME NEW i \in Slot, NEW j \in Slot, Succ(i) = Succ(j)
  PROVE  i = j
BY SuccWraps, RingAssumption DEF Slot

(***************************************************************************)
(* With one thread on each side an index that was loaded stays valid until *)
(* the call stores its successor.                                          *)
(***************************************************************************)
THEOREM IndicesStayValid ==
  ASSUME OneProducerOneConsumer
  PROVE  Spec => []LoadedIndexStaysValid
<1> USE RingAssumption
<1>1. Init => LoadedIndexStaysValid
  BY DEF Init, LoadedIndexStaysValid
<1>2. TypeOK /\ LoadedIndexStaysValid /\ [Next]_vars => LoadedIndexStaysValid'
  <2> SUFFICES ASSUME TypeOK, LoadedIndexStaysValid, [Next]_vars
               PROVE  LoadedIndexStaysValid'
    OBVIOUS
  <2> USE DEF LoadedIndexStaysValid, TypeOK, history, producerVars, consumerVars,
              Full, Empty
  <2>1. ASSUME NEW p \in Producers, PushLoadTail(p)  PROVE LoadedIndexStaysValid'
    BY <2>1 DEF PushLoadTail, Item
  <2>2. ASSUME NEW p \in Producers, PushRefuse(p)  PROVE LoadedIndexStaysValid'
    BY <2>2 DEF PushRefuse
  <2>3. ASSUME NEW p \in Producers, PushRoom(p)  PROVE LoadedIndexStaysValid'
    BY <2>3 DEF PushRoom
  <2>4. ASSUME NEW p \in Producers, PushWrite(p)  PROVE LoadedIndexStaysValid'
    <3>1. \A q \in Producers : q = p
      BY DEF OneProducerOneConsumer
    <3>2. data'[tail] = pitem[p]
      BY <2>4 DEF PushWrite
    <3> QED  BY <2>4, <3>1, <3>2 DEF PushWrite
  <2>5. ASSUME NEW p \in Producers, PushStoreTail(p)  PROVE LoadedIndexStaysValid'
    <3>1. \A q \in Producers : q = p
      BY DEF OneProducerOneConsumer
    <3>2. tail' = Succ(tail) /\ Succ(tail) # head /\ UNCHANGED <<head, chead, cpc>>
      BY <2>5 DEF PushStoreTail
    <3>3. \A q \in Producers : ppc'[q] = "idle"
      BY <2>5, <3>1 DEF PushStoreTail
    <3> QED  BY <3>2, <3>3
  <2>6. ASSUME NEW c \in Consumers, PopLoadHead(c)  PROVE LoadedIndexStaysValid'
    BY <2>6 DEF PopLoadHead
  <2>7. ASSUME NEW c \in Consumers, PopEmpty(c)  PROVE LoadedIndexStaysValid'
    BY <2>7 DEF PopEmpty
  <2>8. ASSUME NEW c \in Consumers, PopSome(c)  PROVE LoadedIndexStaysValid'
    BY <2>8 DEF PopSome
  <2>9. ASSUME NEW c \in Consumers, PopMove(c)  PROVE LoadedIndexStaysValid'
    <3>1. chead[c] = head /\ head # tail
      BY <2>9 DEF PopMove
    <3>2. data'[tail] = data[tail]
      BY <2>9, <3>1 DEF PopMove
    <3> QED  BY <2>9, <3>1, <3>2 DEF PopMove
  <2>10. ASSUME NEW c \in Consumers, PopStoreHead(c)  PROVE LoadedIndexStaysValid'
    <3>1. \A d \in Consumers : d = c
      BY DEF OneProducerOneConsumer
    <3>2. head' = Succ(head) /\ head # tail /\ UNCHANGED <<tail, ptail, ppc, pitem, data>>
      BY <2>10 DEF PopStoreHead
    <3>3. \A d \in Consumers : cpc'[d] = "idle"
      BY <2>10, <3>1 DEF PopStoreHead
    <3>4. Succ(tail) # Succ(head)
      BY <3>2, SuccInjective
    <3> QED  BY <3>2, <3>3, <3>4
  <2>11. CASE UNCHANGED vars
    BY <2>11 DEF vars
  <2> QED
    BY <2>1, <2>2, <2>3, <2>4, <2>5, <2>6, <2>7, <2>8, <2>9, <2>10, <2>11
    DEF Next, PushStep, PopStep
<1> QED  BY <1>1, <1>2, TypeCorrect, PTL DEF Spec

(***************************************************************************)
(* The plain accesses to a slot never race.                                *)
(***************************************************************************)
THEOREM SlotsDoNotRace ==
  ASSUME OneProducerOneConsumer
  PROVE  Spec => []NoSlotRace
<1>1. LoadedIndexStaysValid => NoSlotRace
  BY DEF LoadedIndexStaysValid, NoSlotRace, Empty
<1> QED  BY <1>1, IndicesStayValid, PTL
-----------------------------------------------------------------------------
\* At most Capacity items are in the ring, each at the address of a slot.
LEMMA CountBounds ==
  ASSUME TypeOK
  PROVE  /\ Count \in 0 .. Capacity
         /\ \A k \in 1 .. Count : Address(k) \in Slot /\ (Address(k) = head <=> k = 1)
         /\ \A k \in 1 .. Count : Address(k) # tail
         /\ Count = 0 <=> head = tail
BY RingAssumption DEF TypeOK, Count, Address, Slots, Slot

\* With one consumer, the holder of the oldest item is known.
LEMMA SingleHolder ==
  ASSUME OneProducerOneConsumer, NEW c \in Consumers
  PROVE  /\ cpc[c] = "release" => Moved = {c}
         /\ cpc[c] # "release" => Moved = {}
BY DEF OneProducerOneConsumer, Moved

\* The steps that store no index leave the queue as it is.
LEMMA LocalStepsKeepContents ==
  ASSUME TypeOK, UNCHANGED <<data, head, tail, chand>>,
         \A c \in Consumers : (cpc'[c] = "release") <=> (cpc[c] = "release")
  PROVE  Contents' = Contents
<1>1. Moved' = Moved
  BY DEF Moved
<1> QED  BY <1>1 DEF Contents, Count, At, Address, Slots

\* A producer writes a slot that holds no item of the queue.
LEMMA WriteKeepsContents ==
  ASSUME TypeOK, LoadedIndexStaysValid, NEW p \in Producers, PushWrite(p)
  PROVE  Contents' = Contents
<1> USE DEF TypeOK
<1>1. ptail[p] = tail /\ UNCHANGED <<head, tail, chand, cpc>>
  BY DEF PushWrite, LoadedIndexStaysValid, consumerVars
<1>2. \A k \in 1 .. Count : data'[Address(k)] = data[Address(k)]
  BY <1>1, CountBounds DEF PushWrite
<1>3. Moved' = Moved /\ Count' = Count
  BY <1>1 DEF Moved, Count, Slots
<1>4. \A k \in 1 .. Count : At(k)' = At(k)
  BY <1>1, <1>2, <1>3 DEF At, Address, Slots
<1> QED  BY <1>3, <1>4 DEF Contents

\* The move takes the oldest item into the hand of the consumer: it is in the
\* queue as before, whatever is left behind in the slot.
LEMMA MoveKeepsContents ==
  ASSUME TypeOK, LoadedIndexStaysValid, OneProducerOneConsumer,
         NEW c \in Consumers, PopMove(c)
  PROVE  Contents' = Contents
<1> USE DEF TypeOK
<1>1. chead[c] = head /\ UNCHANGED <<head, tail>> /\ cpc[c] # "release"
  BY DEF PopMove, LoadedIndexStaysValid
<1>2. Moved = {} /\ Moved' = {c}
  <2>1. cpc'[c] = "release"
    BY DEF PopMove
  <2> QED  BY <1>1, <2>1, SingleHolder DEF Moved, OneProducerOneConsumer
<1>3. \A k \in 1 .. Count : k # 1 => data'[Address(k)] = data[Address(k)]
  BY <1>1, CountBounds DEF PopMove
<1>4. chand'[c] = data[head]
  BY <1>1 DEF PopMove
<1>5. Count' = Count /\ \A k \in 1 .. Count : Address(k)' = Address(k)
  BY <1>1 DEF Count, Address, Slots
<1>6. ASSUME NEW k \in 1 .. Count  PROVE At(k)' = At(k)
  <2>1. CASE k = 1
    <3>1. At(k) = data[head]
      BY <2>1, <1>2, CountBounds DEF At
    <3>2. At(k)' = chand'[CHOOSE d \in Moved' : TRUE]
      BY <2>1, <1>2 DEF At
    <3> QED  BY <3>1, <3>2, <1>2, <1>4
  <2>2. CASE k # 1
    BY <2>2, <1>3, <1>5 DEF At
  <2> QED  BY <2>1, <2>2
<1> QED  BY <1>5, <1>6 DEF Contents

\* What the proofs need to know of Contents.
ContentsShape ==
  /\ Contents \in Seq(Item \union {Hollow})
  /\ Len(Contents) = Count
  /\ \A k \in 1 .. Count : Contents[k] = At(k)
  /\ Count \in 0 .. Capacity

\* The contents are a sequence of at most Capacity items.
LEMMA ContentsIsSeq == TypeOK => ContentsShape
<1> SUFFICES ASSUME TypeOK  PROVE ContentsShape
  OBVIOUS
<1>1. Count \in Nat
  BY CountBounds, RingAssumption
<1>2. ASSUME NEW k \in 1 .. Count  PROVE At(k) \in Item \union {Hollow}
  <2>1. Moved # {} => (CHOOSE c \in Moved : TRUE) \in Consumers
    BY DEF Moved
  <2> QED  BY <2>1, CountBounds DEF At, TypeOK
<1> QED  BY <1>1, <1>2, CountBounds DEF Contents, ContentsShape

\* The same in the next state.
LEMMA ContentsIsSeqNext == TypeOK' => ContentsShape'
BY ContentsIsSeq, PTL

\* The store of tail_ appends the item written before it.
LEMMA StoreTailAppends ==
  ASSUME TypeOK, TypeOK', LoadedIndexStaysValid, NEW p \in Producers, PushStoreTail(p)
  PROVE  /\ Count < Capacity
         /\ Contents' = Append(Contents, pitem[p])
<1> USE DEF TypeOK
<1>1. /\ ptail[p] = tail /\ data[tail] = pitem[p] /\ Succ(tail) # head
      /\ tail' = Succ(tail) /\ UNCHANGED <<data, head, chand, cpc>>
  BY DEF PushStoreTail, LoadedIndexStaysValid, consumerVars, Full
<1>2. Count < Capacity /\ Count' = Count + 1
  <2>1. tail' = IF tail = Capacity THEN 0 ELSE tail + 1
    BY <1>1, SuccWraps
  <2> QED  BY <1>1, <2>1, RingAssumption DEF Count, Slots, Slot
<1>3. Moved' = Moved
  BY <1>1 DEF Moved
<1>4. \A k \in 1 .. Count : At(k)' = At(k)
  BY <1>1, <1>3 DEF At, Address, Slots
<1>5. \A k : k = Count + 1 => Address(k) = tail
  BY RingAssumption DEF Address, Count, Slots, Slot
<1>6. \A k : k = Count + 1 => At(k)' = pitem[p]
  <2>1. Moved # {} => Count # 0
    BY CountBounds DEF Moved, LoadedIndexStaysValid, Empty
  <2>2. \A k : k = Count + 1 => At(k) = data[tail]
    BY <2>1, <1>5, CountBounds DEF At
  <2>3. \A k : At(k)' = At(k)
    BY <1>1, <1>3 DEF At, Address, Slots
  <2> QED  BY <1>1, <2>2, <2>3
<1>7. ContentsShape /\ ContentsShape'
  BY ContentsIsSeq, ContentsIsSeqNext
<1>8. Contents' = Append(Contents, pitem[p])
  <2>1. /\ Append(Contents, pitem[p]) \in Seq(Item \union {Hollow})
        /\ Len(Append(Contents, pitem[p])) = Count + 1
    BY <1>7 DEF ContentsShape
  <2>2. \A k \in 1 .. Count + 1 :
          Append(Contents, pitem[p])[k] = IF k = Count + 1 THEN pitem[p] ELSE Contents[k]
    BY <1>7 DEF ContentsShape
  <2>3. \A k \in 1 .. Count + 1 : Contents'[k] = Append(Contents, pitem[p])[k]
    BY <1>2, <1>4, <1>6, <1>7, <2>2 DEF ContentsShape
  <2> QED  BY <1>2, <1>7, <2>1, <2>3 DEF ContentsShape
<1> QED  BY <1>2, <1>8

\* The store of head_ removes the item moved out before it.
LEMMA StoreHeadRemovesFirst ==
  ASSUME TypeOK, TypeOK', LoadedIndexStaysValid, OneProducerOneConsumer,
         NEW c \in Consumers, PopStoreHead(c)
  PROVE  /\ Contents # <<>>
         /\ chand[c] = Head(Contents)
         /\ Contents' = Tail(Contents)
<1> USE DEF TypeOK
<1>1. /\ chead[c] = head /\ head # tail /\ cpc[c] = "release" /\ cpc'[c] # "release"
      /\ head' = Succ(head) /\ UNCHANGED <<data, tail, chand>>
  BY DEF PopStoreHead, LoadedIndexStaysValid, Empty
<1>2. Count > 0 /\ Count' = Count - 1
  <2>1. head' = IF head = Capacity THEN 0 ELSE head + 1
    BY <1>1, SuccWraps
  <2> QED  BY <1>1, <2>1, RingAssumption DEF Count, Slots, Slot
<1>3. Moved = {c} /\ Moved' = {}
  BY <1>1, SingleHolder DEF Moved, OneProducerOneConsumer
<1>4. At(1) = chand[c]
  BY <1>3 DEF At
<1>5. \A k \in 1 .. Count - 1 : At(k)' = At(k + 1)
  <2>1. head' = IF head = Capacity THEN 0 ELSE head + 1
    BY <1>1, SuccWraps
  <2>2. ASSUME NEW k \in 1 .. Count - 1  PROVE Address(k)' = Address(k + 1)
    <3>0. Count \in 0 .. Capacity /\ head \in 0 .. Capacity /\ Capacity \in Nat
      BY CountBounds, RingAssumption DEF Slot
    <3>1. k \in Nat /\ 1 <= k /\ k + 1 <= Capacity /\ head \in 0 .. Capacity /\ Capacity \in Nat
      <4>1. PICK n \in 0 .. Capacity : n = Count
        BY <3>0
      <4> HIDE DEF TypeOK
      <4> QED  BY <3>0, <4>1
    <3>2. /\ Address(k)' = IF head' + k - 1 < Capacity + 1 THEN head' + k - 1 ELSE head' + k - 1 - (Capacity + 1)
          /\ Address(k + 1) = IF head + (k + 1) - 1 < Capacity + 1 THEN head + (k + 1) - 1
                             ELSE head + (k + 1) - 1 - (Capacity + 1)
      BY DEF Address, Slots
    <3>3. PICK h, n : h \in 0 .. Capacity /\ h = head /\ n = head'
      BY <3>1
    <3>4. CASE h = Capacity
      <4>1. n = 0
        BY <2>1, <3>3, <3>4
      <4> QED  BY ONLY <3>1, <3>2, <3>3, <3>4, <4>1
    <3>5. CASE h # Capacity
      <4>1. n = h + 1
        BY <2>1, <3>3, <3>5
      <4> QED  BY ONLY <3>1, <3>2, <3>3, <3>5, <4>1
    <3> QED  BY <3>4, <3>5
  <2>3. ASSUME NEW k \in 1 .. Count - 1
        PROVE  At(k)' = data[Address(k)'] /\ At(k + 1) = data[Address(k + 1)]
    BY <1>1, <1>3, CountBounds DEF At
  <2> QED  BY <2>2, <2>3
<1>6. ContentsShape /\ ContentsShape'
  BY ContentsIsSeq, ContentsIsSeqNext
<1>7. Contents # <<>> /\ Head(Contents) = chand[c]
  BY <1>2, <1>4, <1>6 DEF ContentsShape
<1>8. Contents' = Tail(Contents)
  <2>1. Tail(Contents) \in Seq(Item \union {Hollow}) /\ Len(Tail(Contents)) = Count - 1
    BY <1>6, <1>7 DEF ContentsShape
  <2>2. \A k \in 1 .. Count - 1 : Tail(Contents)[k] = Contents[k + 1]
    BY <1>6, <1>7 DEF ContentsShape
  <2>3. \A k \in 1 .. Count - 1 : Contents'[k] = Tail(Contents)[k]
    BY <1>2, <1>5, <1>6, <2>2 DEF ContentsShape
  <2> QED  BY <1>2, <1>6, <2>1, <2>3 DEF ContentsShape
<1> QED  BY <1>7, <1>8
-----------------------------------------------------------------------------
\* Appending to the second of two sequences appends to their concatenation.
LEMMA AppendToConcat ==
  ASSUME NEW S, NEW x \in S, NEW s \in Seq(S), NEW t \in Seq(S)
  PROVE  Append(s \o t, x) = s \o Append(t, x)
<1>1. s \o t \in Seq(S) /\ <<x>> \in Seq(S)
  BY ConcatProperties
<1>2. (s \o t) \o <<x>> = s \o (t \o <<x>>)
  BY <1>1, ConcatAssociative
<1> QED  BY <1>1, <1>2, AppendIsConcat

\* Moving the head of the second of two sequences to the end of the first
\* leaves their concatenation as it is.
LEMMA MoveHeadAcross ==
  ASSUME NEW S, NEW s \in Seq(S), NEW t \in Seq(S), t # <<>>
  PROVE  Append(s, Head(t)) \o Tail(t) = s \o t
<1>1. Head(t) \in S /\ Tail(t) \in Seq(S) /\ <<Head(t)>> \in Seq(S)
  OBVIOUS
<1>2. t = <<Head(t)>> \o Tail(t)
  BY <1>1
<1>3. (s \o <<Head(t)>>) \o Tail(t) = s \o (<<Head(t)>> \o Tail(t))
  BY <1>1, ConcatAssociative
<1> QED  BY <1>1, <1>2, <1>3, AppendIsConcat

\* All steps but the two stores leave the queue as it is.
LEMMA LocalSteps ==
  ASSUME TypeOK, OneProducerOneConsumer,
         \/ \E p \in Producers : PushLoadTail(p) \/ PushRefuse(p) \/ PushRoom(p)
         \/ \E c \in Consumers : PopLoadHead(c) \/ PopEmpty(c) \/ PopSome(c)
         \/ UNCHANGED vars
  PROVE  Contents' = Contents /\ UNCHANGED <<accepted, delivered>>
<1>1. UNCHANGED <<data, head, tail, chand, accepted, delivered>>
  BY DEF vars, history, producerVars, consumerVars, PushLoadTail, PushRefuse, PushRoom,
         PopLoadHead, PopEmpty, PopSome
<1>2. \A c \in Consumers : (cpc'[c] = "release") <=> (cpc[c] = "release")
  BY DEF TypeOK, vars, consumerVars, PushLoadTail, PushRefuse, PushRoom,
         PopLoadHead, PopEmpty, PopSome
<1> QED  BY <1>1, <1>2, LocalStepsKeepContents

(***************************************************************************)
(* With one producer and one consumer, and for every capacity, the ring    *)
(* neither loses, repeats nor reorders an item.                            *)
(***************************************************************************)
THEOREM OrderPreserved ==
  ASSUME OneProducerOneConsumer
  PROVE  Spec => []FifoOrder
<1>1. Init => FifoOrder
  BY RingAssumption DEF Init, FifoOrder, Contents, Count
<1>2. /\ TypeOK /\ TypeOK' /\ LoadedIndexStaysValid
      /\ FifoOrder /\ [Next]_vars
      => FifoOrder'
  <2> SUFFICES ASSUME TypeOK, TypeOK', LoadedIndexStaysValid, FifoOrder, [Next]_vars
               PROVE  FifoOrder'
    OBVIOUS
  <2>0. ContentsShape
    BY ContentsIsSeq
  <2>1. ASSUME NEW p \in Producers, PushWrite(p)  PROVE FifoOrder'
    <3>1. Contents' = Contents
      BY <2>1, WriteKeepsContents
    <3> QED  BY <2>1, <3>1 DEF PushWrite, FifoOrder, history
  <2>2. ASSUME NEW p \in Producers, PushStoreTail(p)  PROVE FifoOrder'
    <3>1. Contents' = Append(Contents, pitem[p])
      BY <2>2, StoreTailAppends
    <3>2. accepted' = Append(accepted, pitem[p]) /\ delivered' = delivered
      BY <2>2 DEF PushStoreTail
    <3>3. Append(delivered \o Contents, pitem[p]) = delivered \o Append(Contents, pitem[p])
      <4> DEFINE V == Item \union {Hollow}
      <4>1. delivered \in Seq(V) /\ Contents \in Seq(V) /\ pitem[p] \in V
        BY <2>0 DEF TypeOK, ContentsShape
      <4> HIDE DEF V
      <4> QED  BY <4>1, AppendToConcat
    <3> QED  BY <3>1, <3>2, <3>3 DEF FifoOrder
  <2>3. ASSUME NEW c \in Consumers, PopMove(c)  PROVE FifoOrder'
    <3>1. Contents' = Contents
      BY <2>3, MoveKeepsContents
    <3> QED  BY <2>3, <3>1 DEF PopMove, FifoOrder, history
  <2>4. ASSUME NEW c \in Consumers, PopStoreHead(c)  PROVE FifoOrder'
    <3>1. /\ Contents # <<>> /\ chand[c] = Head(Contents) /\ Contents' = Tail(Contents)
      BY <2>4, StoreHeadRemovesFirst
    <3>2. delivered' = Append(delivered, chand[c]) /\ accepted' = accepted
      BY <2>4 DEF PopStoreHead
    <3>3. Append(delivered, Head(Contents)) \o Tail(Contents) = delivered \o Contents
      BY <2>0, <3>1, MoveHeadAcross DEF TypeOK, ContentsShape
    <3> QED  BY <3>1, <3>2, <3>3 DEF FifoOrder
  <2>5. ASSUME \/ \E p \in Producers : PushLoadTail(p) \/ PushRefuse(p) \/ PushRoom(p)
               \/ \E c \in Consumers : PopLoadHead(c) \/ PopEmpty(c) \/ PopSome(c)
               \/ UNCHANGED vars
        PROVE  FifoOrder'
    BY <2>5, LocalSteps DEF FifoOrder
  <2> QED  BY <2>1, <2>2, <2>3, <2>4, <2>5 DEF Next, PushStep, PopStep
<1> QED  BY <1>1, <1>2, TypeCorrect, IndicesStayValid, PTL DEF Spec

(***************************************************************************)
(* With one producer and one consumer the ring implements the bounded      *)
(* first-in first-out queue: a push takes effect when it stores tail_, a   *)
(* refusal when it loads head_, a pop when it stores head_.                *)
(***************************************************************************)
THEOREM RefinesFifo ==
  ASSUME OneProducerOneConsumer
  PROVE  Spec => ImplementsFifo
<1>1. Init => Fifo!Init
  BY RingAssumption DEF Init, Fifo!Init, Contents, Count
<1>2. TypeOK /\ TypeOK' /\ LoadedIndexStaysValid /\ [Next]_vars => [Fifo!Next]_(Fifo!fifoVars)
  <2> SUFFICES ASSUME TypeOK, TypeOK', LoadedIndexStaysValid, [Next]_vars
               PROVE  Fifo!Next \/ UNCHANGED Fifo!fifoVars
    OBVIOUS
  <2>0. ContentsShape
    BY ContentsIsSeq
  <2> USE DEF Fifo!fifoVars
  <2>1. ASSUME NEW p \in Producers, PushWrite(p)  PROVE UNCHANGED Fifo!fifoVars
    <3>1. Contents' = Contents
      BY <2>1, WriteKeepsContents
    <3> QED  BY <2>1, <3>1 DEF PushWrite, history
  <2>2. ASSUME NEW p \in Producers, PushStoreTail(p)  PROVE Fifo!Next
    <3>1. /\ Count < Capacity /\ Contents' = Append(Contents, pitem[p])
      BY <2>2, StoreTailAppends
    <3>2. pitem[p] \in Item /\ UNCHANGED <<delivered, refused>>
      BY <2>2 DEF PushStoreTail, LoadedIndexStaysValid
    <3>3. Fifo!Push(pitem[p])
      BY <2>0, <3>1, <3>2 DEF Fifo!Push, ContentsShape
    <3> QED  BY <3>2, <3>3 DEF Fifo!Next
  <2>3. ASSUME NEW c \in Consumers, PopMove(c)  PROVE UNCHANGED Fifo!fifoVars
    <3>1. Contents' = Contents
      BY <2>3, MoveKeepsContents
    <3> QED  BY <2>3, <3>1 DEF PopMove, history
  <2>4. ASSUME NEW c \in Consumers, PopStoreHead(c)  PROVE Fifo!Next
    <3>1. /\ Contents # <<>> /\ chand[c] = Head(Contents) /\ Contents' = Tail(Contents)
      BY <2>4, StoreHeadRemovesFirst
    <3>2. delivered' = Append(delivered, chand[c]) /\ refused' = refused
      BY <2>4 DEF PopStoreHead
    <3> QED  BY <3>1, <3>2 DEF Fifo!Next, Fifo!Pop
  <2>5. ASSUME NEW p \in Producers, PushRefuse(p)  PROVE Fifo!Next
    <3>1. Contents' = Contents /\ UNCHANGED delivered
      BY <2>5, LocalSteps
    <3>2. pitem[p] \in Item /\ refused' = refused \union {pitem[p]} /\ Succ(tail) = head
      BY <2>5 DEF PushRefuse, LoadedIndexStaysValid, Full
    <3>3. Count = Capacity
      <4>1. Succ(tail) = IF tail = Capacity THEN 0 ELSE tail + 1
        BY SuccWraps DEF TypeOK
      <4> QED  BY <3>2, <4>1, RingAssumption DEF TypeOK, Count, Slots, Slot
    <3>4. Fifo!Refuse(pitem[p])
      BY <2>0, <3>1, <3>2, <3>3 DEF Fifo!Refuse, ContentsShape
    <3> QED  BY <3>2, <3>4 DEF Fifo!Next
  <2>6. ASSUME \/ \E p \in Producers : PushLoadTail(p) \/ PushRoom(p)
               \/ \E c \in Consumers : PopLoadHead(c) \/ PopEmpty(c) \/ PopSome(c)
               \/ UNCHANGED vars
        PROVE  UNCHANGED Fifo!fifoVars
    <3>1. Contents' = Contents /\ UNCHANGED delivered
      BY <2>6, LocalSteps
    <3>2. refused' = refused
      BY <2>6 DEF vars, history, PushLoadTail, PushRoom, PopLoadHead, PopEmpty, PopSome
    <3> QED  BY <3>1, <3>2
  <2> QED  BY <2>1, <2>2, <2>3, <2>4, <2>5, <2>6 DEF Next, PushStep, PopStep
<1> QED
  BY <1>1, <1>2, TypeCorrect, IndicesStayValid, PTL DEF Spec, ImplementsFifo, Fifo!Spec
-----------------------------------------------------------------------------
\* One producer offers items by rising numbers and is never behind with one.
Rising ==
  /\ \A i, j \in DOMAIN accepted : i < j => accepted[i] < accepted[j]
  /\ \A i \in DOMAIN accepted : accepted[i] \in Item /\ accepted[i] <= offered
  /\ \A p \in Producers : ppc[p] # "idle" =>
       /\ pitem[p] \in Item /\ pitem[p] <= offered
       /\ \A i \in DOMAIN accepted : accepted[i] < pitem[p]

LEMMA AcceptedRise ==
  ASSUME OneProducerOneConsumer
  PROVE  Spec => []Rising
<1>1. Init => Rising
  <2>1. DOMAIN <<>> = {}
    OBVIOUS
  <2> QED  BY <2>1 DEF Init, Rising
<1>2. TypeOK /\ Rising /\ [Next]_vars => Rising'
  <2> SUFFICES ASSUME TypeOK, Rising, [Next]_vars  PROVE Rising'
    OBVIOUS
  <2>0. /\ offered \in Nat /\ MaxItems \in Nat /\ \A x \in Item : x \in Nat /\ x >= 1
        /\ ppc \in [Producers -> ProducerPc] /\ pitem \in [Producers -> Item \union {Hollow}]
        /\ accepted \in Seq(Item \union {Hollow})
    BY RingAssumption DEF TypeOK, Item
  <2>1. ASSUME NEW p \in Producers, PushLoadTail(p)  PROVE Rising'
    <3>1. /\ offered' = offered + 1 /\ accepted' = accepted /\ offered < MaxItems
          /\ pitem'[p] = offered + 1
      BY <2>0, <2>1 DEF PushLoadTail
    <3>2. \A q \in Producers : q = p
      BY DEF OneProducerOneConsumer
    <3>3. offered + 1 \in Item
      BY <2>0, <3>1 DEF Item
    <3>4. \A i \in DOMAIN accepted : accepted[i] <= offered' /\ accepted[i] < offered + 1
      BY <2>0, <3>1 DEF Rising
    <3> QED  BY <2>0, <3>1, <3>2, <3>3, <3>4 DEF Rising
  <2>2. ASSUME NEW p \in Producers, PushStoreTail(p)  PROVE Rising'
    <3>1. PICK x \in Item : x = pitem[p] /\ x <= offered /\ \A i \in DOMAIN accepted : accepted[i] < x
      BY <2>2 DEF PushStoreTail, Rising
    <3>2. /\ accepted' = Append(accepted, x) /\ offered' = offered
          /\ ppc'[p] = "idle"
      BY <2>0, <2>2, <3>1 DEF PushStoreTail, history
    <3>3. \A q \in Producers : q = p
      BY DEF OneProducerOneConsumer
    <3>4. PICK n \in Nat : n = Len(accepted) /\ DOMAIN accepted = 1 .. n
      BY <2>0
    <3>5. /\ DOMAIN accepted' = 1 .. n + 1 /\ accepted'[n + 1] = x
          /\ \A i \in 1 .. n : accepted'[i] = accepted[i]
      BY <2>0, <3>2, <3>4
    <3>6. \A i \in 1 .. n + 1 : accepted'[i] \in Item /\ accepted'[i] <= offered
      <4> SUFFICES ASSUME NEW i \in 1 .. n + 1
                   PROVE  accepted'[i] \in Item /\ accepted'[i] <= offered
        OBVIOUS
      <4>1. i = n + 1 \/ i \in 1 .. n
        BY <3>4
      <4> QED  BY <3>1, <3>4, <3>5, <4>1 DEF Rising
    <3>7. ASSUME NEW i \in 1 .. n + 1, NEW j \in 1 .. n + 1, i < j  PROVE accepted'[i] < accepted'[j]
      <4>1. i \in 1 .. n
        BY <3>4, <3>7
      <4>2. CASE j = n + 1
        BY <3>1, <3>4, <3>5, <4>1, <4>2
      <4>3. CASE j # n + 1
        <5>1. j \in 1 .. n
          BY <3>4, <4>3
        <5> QED  BY <3>4, <3>5, <3>7, <4>1, <5>1 DEF Rising
      <4> QED  BY <4>2, <4>3
    <3> QED  BY <3>2, <3>3, <3>5, <3>6, <3>7 DEF Rising
  <2>3. ASSUME NEW p \in Producers, PushRefuse(p) \/ PushRoom(p) \/ PushWrite(p)  PROVE Rising'
    <3>1. /\ UNCHANGED <<offered, accepted, pitem>>
          /\ \A q \in Producers : ppc'[q] # "idle" => ppc[q] # "idle"
      BY <2>0, <2>3 DEF PushRefuse, PushRoom, PushWrite, history
    <3> QED  BY <3>1 DEF Rising
  <2>4. ASSUME NEW c \in Consumers, PopStep(c)  PROVE Rising'
    <3>1. UNCHANGED <<offered, accepted, pitem, ppc>>
      BY <2>4 DEF PopStep, PopLoadHead, PopEmpty, PopSome, PopMove, PopStoreHead, history, producerVars
    <3> QED  BY <3>1 DEF Rising
  <2>5. CASE UNCHANGED vars
    BY <2>5 DEF vars, history, producerVars, Rising
  <2> QED  BY <2>1, <2>2, <2>3, <2>4, <2>5 DEF Next, PushStep
<1> QED  BY <1>1, <1>2, TypeCorrect, PTL DEF Spec

(***************************************************************************)
(* With one producer and one consumer pop hands out no item twice, and     *)
(* none that was already moved from: what lines 44-45 of the header        *)
(* promise for several of them, where a second consumer breaks it.         *)
(***************************************************************************)
THEOREM OneConsumerDeliversOnce ==
  ASSUME OneProducerOneConsumer
  PROVE  Spec => []DeliveredOnce
<1>1. TypeOK /\ FifoOrder /\ Rising => DeliveredOnce
  <2> SUFFICES ASSUME TypeOK, FifoOrder, Rising  PROVE DeliveredOnce
    OBVIOUS
  <2> DEFINE V == Item \union {Hollow}
  <2>1. delivered \in Seq(V) /\ Contents \in Seq(V)
    BY ContentsIsSeq DEF TypeOK, ContentsShape
  <2>2. \A i \in DOMAIN delivered : i \in Nat /\ i \in DOMAIN accepted /\ delivered[i] = accepted[i]
    <3> HIDE DEF V
    <3> QED  BY <2>1 DEF FifoOrder
  <2>3. \A x \in Item : x \in Nat /\ x # Hollow
    BY RingAssumption DEF Item, Hollow
  <2>4. ASSUME NEW i \in DOMAIN delivered, NEW j \in DOMAIN delivered, i # j
        PROVE  delivered[i] # delivered[j]
    <3>1. i < j \/ j < i
      BY <2>2, <2>4
    <3>2. accepted[i] < accepted[j] \/ accepted[j] < accepted[i]
      BY <2>2, <3>1 DEF Rising
    <3>3. accepted[i] \in Nat /\ accepted[j] \in Nat
      BY <2>2, <2>3 DEF Rising
    <3>4. accepted[i] # accepted[j]
      BY ONLY <3>2, <3>3
    <3> QED  BY <2>2, <3>4
  <2>5. \A i \in DOMAIN delivered : delivered[i] # Hollow
    BY <2>2, <2>3 DEF Rising
  <2> QED  BY <2>4, <2>5 DEF DeliveredOnce
<1> QED  BY <1>1, TypeCorrect, OrderPreserved, AcceptedRise, PTL
=============================================================================
