------------------------------ MODULE RingQueue ------------------------------
(***************************************************************************)
(* LockFreeQueue<T> of include/common/lockfree_queue.h: the ring buffer    *)
(* behind every queue of the application (sensor, simulation, evaluation   *)
(* and optimizer queue).  One action per atomic access of push and pop, so *)
(* that calls of different threads interleave as they do in the program.   *)
(* The loads and stores are those of acquire/release atomics; with one     *)
(* writer per index that is as strong as interleaving.                     *)
(***************************************************************************)
EXTENDS Integers, Sequences

CONSTANTS
  Producers,  \* threads that call push
  Consumers,  \* threads that call pop
  Capacity,   \* argument of the constructor
  MaxItems    \* bound of the model: how many items are ever offered

ASSUME RingAssumption ==
  /\ Capacity \in Nat \ {0}
  /\ MaxItems \in Nat
  /\ Producers # {} /\ Consumers # {}
  /\ Producers \cap Consumers = {}

VARIABLES
  data,       \* data_: the slots
  head,       \* head_: next slot to pop
  tail,       \* tail_: next slot to fill
  ppc,        \* where each producer stands inside push
  ptail,      \* its cur_tail
  pitem,      \* its item
  cpc,        \* where each consumer stands inside pop
  chead,      \* its cur_head
  chand,      \* its out
  offered,    \* history: number of items offered so far
  accepted,   \* history: items push returned true for, in order
  refused,    \* history: items push returned false for
  delivered   \* history: items pop returned, in order

producerVars == <<ppc, ptail, pitem>>
consumerVars == <<cpc, chead, chand>>
history == <<offered, accepted, refused, delivered>>
vars == <<data, head, tail, producerVars, consumerVars, history>>
-----------------------------------------------------------------------------
Hollow == 0             \* T(), and what a move may leave behind
Item == 1 .. MaxItems   \* each offered item is told apart by its number
Slots == Capacity + 1   \* capacity_: one slot is kept free
Slot == 0 .. Capacity

SuccWithoutWrap(i) == i + 1               \* mutant
Succ(i) == (i + 1) % Slots

FullNever(cur_tail) == FALSE                          \* mutant
FullTooSoon(cur_tail) == Succ(Succ(cur_tail)) = head  \* mutant
Full(cur_tail) == Succ(cur_tail) = head

EmptyNever(cur_head) == FALSE                         \* mutant
EmptyTooSoon(cur_head) == Succ(cur_head) = tail       \* mutant
Empty(cur_head) == cur_head = tail

Init ==
  /\ data = [i \in Slot |-> Hollow]
  /\ head = 0
  /\ tail = 0
  /\ ppc = [p \in Producers |-> "idle"]
  /\ ptail = [p \in Producers |-> 0]
  /\ pitem = [p \in Producers |-> Hollow]
  /\ cpc = [c \in Consumers |-> "idle"]
  /\ chead = [c \in Consumers |-> 0]
  /\ chand = [c \in Consumers |-> Hollow]
  /\ offered = 0
  /\ accepted = <<>>
  /\ refused = {}
  /\ delivered = <<>>
-----------------------------------------------------------------------------
\* push(item): tail_.load.
PushLoadTail(p) ==
  /\ ppc[p] = "idle"
  /\ offered < MaxItems
  /\ offered' = offered + 1
  /\ pitem' = [pitem EXCEPT ![p] = offered + 1]
  /\ ptail' = [ptail EXCEPT ![p] = tail]
  /\ ppc' = [ppc EXCEPT ![p] = "check"]
  /\ UNCHANGED <<data, head, tail, consumerVars, accepted, refused, delivered>>

\* head_.load finds the ring full: return false.
PushRefuse(p) ==
  /\ ppc[p] = "check"
  /\ Full(ptail[p])
  /\ refused' = refused \union {pitem[p]}
  /\ ppc' = [ppc EXCEPT ![p] = "idle"]
  /\ UNCHANGED <<data, head, tail, ptail, pitem, consumerVars, offered, accepted, delivered>>

\* head_.load finds room.
PushRoom(p) ==
  /\ ppc[p] = "check"
  /\ ~Full(ptail[p])
  /\ ppc' = [ppc EXCEPT ![p] = "write"]
  /\ UNCHANGED <<data, head, tail, ptail, pitem, consumerVars, history>>

\* data_[cur_tail] = item.
PushWrite(p) ==
  /\ ppc[p] = "write"
  /\ data' = [data EXCEPT ![ptail[p]] = pitem[p]]
  /\ ppc' = [ppc EXCEPT ![p] = "publish"]
  /\ UNCHANGED <<head, tail, ptail, pitem, consumerVars, history>>

\* tail_.store; return true.
PushStoreTail(p) ==
  /\ ppc[p] = "publish"
  /\ tail' = Succ(ptail[p])
  /\ accepted' = Append(accepted, pitem[p])
  /\ ppc' = [ppc EXCEPT ![p] = "idle"]
  /\ UNCHANGED <<data, head, ptail, pitem, consumerVars, offered, refused, delivered>>
-----------------------------------------------------------------------------
\* pop(out): head_.load.
PopLoadHead(c) ==
  /\ cpc[c] = "idle"
  /\ chead' = [chead EXCEPT ![c] = head]
  /\ cpc' = [cpc EXCEPT ![c] = "check"]
  /\ UNCHANGED <<data, head, tail, producerVars, chand, history>>

\* tail_.load finds the ring empty: return false.
PopEmpty(c) ==
  /\ cpc[c] = "check"
  /\ Empty(chead[c])
  /\ cpc' = [cpc EXCEPT ![c] = "idle"]
  /\ UNCHANGED <<data, head, tail, producerVars, chead, chand, history>>

\* tail_.load finds an item.
PopSome(c) ==
  /\ cpc[c] = "check"
  /\ ~Empty(chead[c])
  /\ cpc' = [cpc EXCEPT ![c] = "move"]
  /\ UNCHANGED <<data, head, tail, producerVars, chead, chand, history>>

\* out = std::move(data_[cur_head]): the slot is left valid but unspecified.
PopMove(c) ==
  /\ cpc[c] = "move"
  /\ chand' = [chand EXCEPT ![c] = data[chead[c]]]
  /\ \E left \in {data[chead[c]], Hollow} : data' = [data EXCEPT ![chead[c]] = left]
  /\ cpc' = [cpc EXCEPT ![c] = "release"]
  /\ UNCHANGED <<head, tail, producerVars, chead, history>>

\* head_.store; return true.
PopStoreHead(c) ==
  /\ cpc[c] = "release"
  /\ head' = Succ(chead[c])
  /\ delivered' = Append(delivered, chand[c])
  /\ cpc' = [cpc EXCEPT ![c] = "idle"]
  /\ UNCHANGED <<data, tail, producerVars, chead, chand, offered, accepted, refused>>
-----------------------------------------------------------------------------
PushStep(p) ==
  PushLoadTail(p) \/ PushRefuse(p) \/ PushRoom(p) \/ PushWrite(p) \/ PushStoreTail(p)

PopStep(c) ==
  PopLoadHead(c) \/ PopEmpty(c) \/ PopSome(c) \/ PopMove(c) \/ PopStoreHead(c)

Next ==
  \/ \E p \in Producers : PushStep(p)
  \/ \E c \in Consumers : PopStep(c)

Spec == Init /\ [][Next]_vars

\* A thread inside push is never suspended for ever, and every consumer
\* polls its queue in a loop; nothing obliges a producer to offer an item.
Fairness ==
  /\ \A p \in Producers : WF_vars(PushStep(p) /\ ppc[p] # "idle")
  /\ \A c \in Consumers : WF_vars(PopStep(c))

FairSpec == Spec /\ Fairness
-----------------------------------------------------------------------------
ProducerPc == {"idle", "check", "write", "publish"}
ConsumerPc == {"idle", "check", "move", "release"}

\* Type invariant.
TypeOK ==
  /\ data \in [Slot -> Item \union {Hollow}]
  /\ head \in Slot
  /\ tail \in Slot
  /\ ppc \in [Producers -> ProducerPc]
  /\ ptail \in [Producers -> Slot]
  /\ pitem \in [Producers -> Item \union {Hollow}]
  /\ cpc \in [Consumers -> ConsumerPc]
  /\ chead \in [Consumers -> Slot]
  /\ chand \in [Consumers -> Item \union {Hollow}]
  /\ offered \in 0 .. MaxItems
  /\ accepted \in Seq(Item \union {Hollow})
  /\ refused \in SUBSET (Item \union {Hollow})
  /\ delivered \in Seq(Item \union {Hollow})

\* The items in the queue, oldest first.  An item stays in the queue until
\* head_ has moved past it; one that was already moved out of its slot is in
\* the hand of the consumer that holds it.
Count == IF head <= tail THEN tail - head ELSE tail + Slots - head

Moved == {c \in Consumers : cpc[c] = "release"}

Address(k) == IF head + k - 1 < Slots THEN head + k - 1 ELSE head + k - 1 - Slots

At(k) ==
  IF k = 1 /\ Moved # {}
    THEN chand[CHOOSE c \in Moved : TRUE]
    ELSE data[Address(k)]

Contents == [k \in 1 .. Count |-> At(k)]

\* The use the header names first: a single producer and a single consumer.
OneProducerOneConsumer ==
  /\ \A p, q \in Producers : p = q
  /\ \A c, d \in Consumers : c = d

\* Why one thread on each side is safe: inside a call each side still owns
\* the index it loaded, the free slot a producer found stays free, and the
\* item a consumer found stays there.  Neither check needs to be repeated.
LoadedIndexStaysValid ==
  /\ \A p \in Producers :
       /\ ppc[p] # "idle" => ptail[p] = tail /\ pitem[p] \in Item
       /\ ppc[p] \in {"write", "publish"} => ~Full(tail)
       /\ ppc[p] = "publish" => data[tail] = pitem[p]
  /\ \A c \in Consumers :
       /\ cpc[c] # "idle" => chead[c] = head
       /\ cpc[c] \in {"move", "release"} => ~Empty(head)

\* Nothing is lost, duplicated or reordered between push and pop, at any
\* point inside either call: what was accepted is what was delivered
\* followed by what is in the ring.
FifoOrder == accepted = delivered \o Contents

\* A producer that writes a slot and a consumer that moves out of one never
\* touch the same slot: the plain accesses of lines 77 and 87 do not race.
NoSlotRace ==
  \A p \in Producers, c \in Consumers :
    ppc[p] = "write" /\ cpc[c] = "move" => ptail[p] # chead[c]

\* Every call of push and pop takes effect at one instant: the ring is a
\* bounded first-in first-out queue that refuses a push only while Capacity
\* items are in it.
Fifo == INSTANCE BoundedFifo WITH
          fifo <- Contents

ImplementsFifo == Fifo!Spec

\* With a consumer that keeps polling, each accepted item is delivered.
EveryItemDelivered ==
  \A x \in Item :
    (\E i \in DOMAIN accepted : accepted[i] = x) ~> (\E i \in DOMAIN delivered : delivered[i] = x)

\* Lines 44-45 of the header promise that several producers and consumers
\* may share the queue safely; then pop never hands the same item out twice,
\* nor an object that was already moved from.
DeliveredOnce ==
  /\ \A i, j \in DOMAIN delivered : i # j => delivered[i] # delivered[j]
  /\ \A i \in DOMAIN delivered : delivered[i] # Hollow
=============================================================================
