-------------------------- MODULE DataBuffer_proofs --------------------------
(***************************************************************************)
(* Proofs about the ring of data_buffer.c for every number of slots from 2 *)
(* to 255 and every kind of entry.                                         *)
(***************************************************************************)
EXTENDS DataBuffer, SequenceTheorems, TLAPS

\* The inductive invariant: types, and the counter that agrees with the
\* indices (which also keeps it clear of its eight-bit limits).
IInv == TypeOK /\ CountAgrees

\* One step of an index stays in the array, and adds one entry to or takes one
\* entry from what lies between the indices.
LEMMA Next1InSlots == \A i \in Slots : Next1(i) \in Slots
BY QueueBufferMaxAssumption DEF Slots, Next1

LEMMA InitIInv == Init => IInv
BY QueueBufferMaxAssumption
   DEF Init, IInv, TypeOK, CountAgrees, Occupied, Slots, Entry

\* Removal and insertion preserve the invariant, whichever branch they take.
LEMMA StepIInv == IInv /\ [Next]_vars => IInv'
<1> SUFFICES ASSUME IInv, [Next]_vars
             PROVE  IInv'
    OBVIOUS
<1> USE QueueBufferMaxAssumption
<1>1. CASE queue_buffer_removeData
  <2>1. head # tail
    BY <1>1 DEF queue_buffer_removeData, queue_buffer_isEmpty
  <2>2. TypeOK'
    BY <1>1, Next1InSlots DEF IInv, TypeOK, queue_buffer_removeData
  <2>3. CountAgrees'
    BY <1>1, <2>1 DEF IInv, TypeOK, CountAgrees, Occupied, Slots, Next1,
                      queue_buffer_removeData
  <2>4. QED BY <2>2, <2>3 DEF IInv
<1>2. ASSUME NEW d \in Data, NEW keep_new \in BOOLEAN,
             queue_buffer_insert(d, keep_new)
      PROVE  IInv'
  <2>1. CASE ~queue_buffer_isFull /\ StoreAtTail(d, itemCount) /\ UNCHANGED head
    <3>1. TypeOK'
      BY <2>1, Next1InSlots DEF IInv, TypeOK, StoreAtTail, Entry
    <3>2. CountAgrees'
      BY <2>1 DEF IInv, TypeOK, CountAgrees, Occupied, Slots, Next1,
                  StoreAtTail, queue_buffer_isFull
    <3>3. QED BY <3>1, <3>2 DEF IInv
  <2>2. CASE /\ queue_buffer_isFull
             /\ head' = Next1(head)
             /\ StoreAtTail(d, (itemCount + 255) % 256)
    <3>1. TypeOK'
      BY <2>2, Next1InSlots DEF IInv, TypeOK, StoreAtTail, Entry
    <3>2. itemCount > 0 /\ (itemCount + 255) % 256 = itemCount - 1
      BY <2>2 DEF IInv, TypeOK, CountAgrees, Occupied, Slots, Next1,
                  queue_buffer_isFull
    <3>3. CountAgrees'
      BY <2>2, <3>2 DEF IInv, TypeOK, CountAgrees, Occupied, Slots, Next1,
                        StoreAtTail, queue_buffer_isFull
    <3>4. QED BY <3>1, <3>3 DEF IInv
  <2>3. QED BY <1>2, <2>1, <2>2 DEF queue_buffer_insert
<1>3. CASE UNCHANGED vars
  BY <1>3 DEF IInv, TypeOK, CountAgrees, Occupied, vars
<1>4. QED BY <1>1, <1>2, <1>3 DEF Next

\* The indices and slots of the ring always have their types
\* (data_buffer.c:20-24).
THEOREM TypeCorrect == Spec => []TypeOK
<1>1. IInv => TypeOK
  BY DEF IInv
<1>2. QED BY InitIInv, StepIInv, <1>1, PTL DEF Spec

\* itemCount++ and itemCount-- (data_buffer.c:79,94) keep the counter equal to
\* the number of entries between head and tail, for every size of the ring.
THEOREM CountCorrect == Spec => []CountAgrees
<1>1. IInv => CountAgrees
  BY DEF IInv
<1>2. QED BY InitIInv, StepIInv, <1>1, PTL DEF Spec

\* queue_buffer_size (data_buffer.c:51-56) is wrong for exactly one state of
\* the ring, the empty one.
THEOREM SizeCorrect == Spec => []SizeAnswer
<1>1. IInv => SizeAnswer
  BY QueueBufferMaxAssumption
     DEF IInv, TypeOK, CountAgrees, SizeAnswer, Occupied, Slots,
         queue_buffer_size, queue_buffer_isEmpty
<1>2. QED BY InitIInv, StepIInv, <1>1, PTL DEF Spec
-----------------------------------------------------------------------------
\* A sequence is what its length and its elements say.
LEMMA SeqAsFunction ==
  ASSUME NEW S, NEW s \in Seq(S)
  PROVE  s = [i \in 1 .. Len(s) |-> s[i]]
BY LenProperties

\* Without its head a sequence is shifted by one.
LEMMA TailAsFunction ==
  ASSUME NEW S, NEW s \in Seq(S), s # << >>
  PROVE  Tail(s) = [i \in 1 .. Len(s) - 1 |-> s[i + 1]]
<1>1. /\ Tail(s) \in Seq(S)
      /\ Len(Tail(s)) = Len(s) - 1
      /\ \A i \in 1 .. Len(Tail(s)) : Tail(s)[i] = s[i + 1]
  BY HeadTailProperties
<1>2. Tail(s) = [i \in 1 .. Len(Tail(s)) |-> Tail(s)[i]]
  BY <1>1, SeqAsFunction
<1>3. QED BY <1>1, <1>2

\* Dropping the oldest entry and adding a new one.
LEMMA AppendTailAsFunction ==
  ASSUME NEW S, NEW s \in Seq(S), s # << >>, NEW e \in S
  PROVE  Append(Tail(s), e) = [i \in 1 .. Len(s) |->
                                 IF i = Len(s) THEN e ELSE s[i + 1]]
<1> DEFINE t == Tail(s)
           a == Append(t, e)
<1>1. /\ t \in Seq(S)
      /\ Len(t) = Len(s) - 1
      /\ \A i \in 1 .. Len(t) : t[i] = s[i + 1]
  BY HeadTailProperties
<1> HIDE DEF t
<1>2. /\ a \in Seq(S)
      /\ Len(a) = Len(t) + 1
      /\ \A i \in 1 .. Len(t) : a[i] = t[i]
      /\ a[Len(t) + 1] = e
  BY <1>1, AppendProperties
<1> HIDE DEF a
<1>3. a = [i \in 1 .. Len(a) |-> a[i]]
  BY <1>2, SeqAsFunction
<1>4. Len(s) \in Nat
  BY LenProperties
<1>5. a = [i \in 1 .. Len(s) |-> IF i = Len(s) THEN e ELSE s[i + 1]]
  BY <1>1, <1>2, <1>3, <1>4
<1>6. QED BY <1>5 DEF a, t

\* The abstract queue is a sequence of entries, as long as the ring is full.
LEMMA ItemsSeq ==
  ASSUME IInv
  PROVE  /\ Items \in Seq(Entry)
         /\ Len(Items) = Occupied
         /\ Occupied \in 0 .. QUEUE_BUFFER_MAX - 1
         /\ \A i \in 1 .. Occupied : SlotOf(i) \in Slots
<1> USE QueueBufferMaxAssumption
<1>1. Occupied \in 0 .. QUEUE_BUFFER_MAX - 1
  BY DEF IInv, TypeOK, Slots, Occupied
<1>2. \A i \in 1 .. Occupied : SlotOf(i) \in Slots
  BY DEF IInv, TypeOK, Slots, Occupied, SlotOf
<1>3. \A i \in 1 .. Occupied : queue_buffer[SlotOf(i)] \in Entry
  BY <1>2 DEF IInv, TypeOK
<1>4. Items \in Seq(Entry) /\ Len(Items) = Occupied
  BY <1>1, <1>3 DEF Items
<1>5. QED BY <1>1, <1>2, <1>4

\* The full test of the ring is the full test of the abstract queue.
LEMMA FullIsFull ==
  ASSUME IInv
  PROVE  queue_buffer_isFull <=> Fifo!IsFull
BY QueueBufferMaxAssumption, ItemsSeq
   DEF IInv, TypeOK, Slots, Occupied, Next1, queue_buffer_isFull, Fifo!IsFull

\* queue_buffer_removeData takes the oldest entry.
LEMMA RemoveIsTake ==
  ASSUME IInv, queue_buffer_removeData
  PROVE  Fifo!Take
<1> USE QueueBufferMaxAssumption
<1>1. head # tail /\ Occupied > 0
  BY DEF IInv, TypeOK, Slots, Occupied, queue_buffer_removeData,
         queue_buffer_isEmpty
<1>2. Occupied' = Occupied - 1
  BY <1>1 DEF IInv, TypeOK, Slots, Occupied, queue_buffer_removeData, Next1
<1>3. \A i \in 1 .. Occupied - 1 : SlotOf(i)' = SlotOf(i + 1)
  BY <1>1 DEF IInv, TypeOK, Slots, Occupied, queue_buffer_removeData, Next1,
              SlotOf
<1>4. Items # << >>
  BY <1>1, ItemsSeq
<1>5. Tail(Items) = [i \in 1 .. Occupied - 1 |-> Items[i + 1]]
  <2>1. Len(Items) - 1 = Occupied - 1
    BY <1>1, ItemsSeq
  <2>2. Tail(Items) = [i \in 1 .. Len(Items) - 1 |-> Items[i + 1]]
    BY <1>4, ItemsSeq, TailAsFunction
  <2>3. QED BY <2>1, <2>2
<1>6. \A i \in 1 .. Occupied - 1 : Items[i + 1] = queue_buffer[SlotOf(i + 1)]
  BY <1>1, ItemsSeq DEF Items
<1>7. Items' = [i \in 1 .. Occupied - 1 |-> queue_buffer[SlotOf(i)']]
  BY <1>2 DEF Items, queue_buffer_removeData
<1>8. Items' = Tail(Items)
  BY <1>3, <1>5, <1>6, <1>7
<1>9. QED BY <1>4, <1>8 DEF Fifo!Take

\* queue_buffer_insert with room left puts the entry behind the others.
LEMMA InsertIsPut ==
  ASSUME IInv, NEW d \in Data, ~queue_buffer_isFull,
         StoreAtTail(d, itemCount), UNCHANGED head
  PROVE  Fifo!Put(d)
<1> USE QueueBufferMaxAssumption
<1>1. Occupied' = Occupied + 1
  BY DEF IInv, TypeOK, Slots, Occupied, StoreAtTail, Next1, queue_buffer_isFull
<1>2. \A i \in 1 .. Occupied + 1 : SlotOf(i)' = SlotOf(i)
  BY DEF SlotOf
<1>3. SlotOf(Occupied + 1) = tail
  BY DEF IInv, TypeOK, Slots, Occupied, SlotOf, Next1, queue_buffer_isFull
<1>4. \A i \in 1 .. Occupied : SlotOf(i) \in Slots \ {tail}
  BY DEF IInv, TypeOK, Slots, Occupied, SlotOf, Next1, queue_buffer_isFull
<1>5. \A i \in 1 .. Occupied : queue_buffer'[SlotOf(i)] = queue_buffer[SlotOf(i)]
  BY <1>4 DEF IInv, TypeOK, StoreAtTail
<1>6. queue_buffer'[tail] = d
  BY DEF IInv, TypeOK, StoreAtTail
<1>7. Items' = [i \in 1 .. Occupied + 1 |-> queue_buffer'[SlotOf(i)']]
  BY <1>1 DEF Items
<1>8. Items' = [i \in 1 .. Occupied + 1 |->
                  IF i = Occupied + 1 THEN d ELSE queue_buffer[SlotOf(i)]]
  <2>1. \A i \in 1 .. Occupied + 1 :
          queue_buffer'[SlotOf(i)'] =
            IF i = Occupied + 1 THEN d ELSE queue_buffer[SlotOf(i)]
    BY <1>2, <1>3, <1>5, <1>6, ItemsSeq
  <2>2. QED BY <1>7, <2>1
<1>9. Append(Items, d) = [i \in 1 .. Occupied + 1 |->
                  IF i = Occupied + 1 THEN d ELSE queue_buffer[SlotOf(i)]]
  BY ItemsSeq DEF Items
<1>10. QED BY <1>8, <1>9, FullIsFull DEF Fifo!Put

\* queue_buffer_insert(_, true) on a full ring gives up the oldest entry for
\* the new one.
LEMMA InsertIsPutDroppingOldest ==
  ASSUME IInv, NEW d \in Data, queue_buffer_isFull, head' = Next1(head),
         StoreAtTail(d, (itemCount + 255) % 256)
  PROVE  Fifo!PutDroppingOldest(d)
<1> USE QueueBufferMaxAssumption
<1>1. Occupied = QUEUE_BUFFER_MAX - 1 /\ Occupied' = Occupied
  BY DEF IInv, TypeOK, Slots, Occupied, StoreAtTail, Next1, queue_buffer_isFull
<1>2. \A i \in 1 .. Occupied - 1 : SlotOf(i)' = SlotOf(i + 1)
  BY <1>1 DEF IInv, TypeOK, Slots, Occupied, SlotOf, Next1
<1>3. SlotOf(Occupied)' = tail
  BY <1>1 DEF IInv, TypeOK, Slots, Occupied, SlotOf, Next1, queue_buffer_isFull
<1>4. \A i \in 1 .. Occupied : SlotOf(i) \in Slots \ {tail}
  BY DEF IInv, TypeOK, Slots, Occupied, SlotOf, Next1, queue_buffer_isFull
<1>5. \A i \in 1 .. Occupied : queue_buffer'[SlotOf(i)] = queue_buffer[SlotOf(i)]
  BY <1>4 DEF IInv, TypeOK, StoreAtTail
<1>6. queue_buffer'[tail] = d
  BY DEF IInv, TypeOK, StoreAtTail
<1>7. Items' = [i \in 1 .. Occupied |-> queue_buffer'[SlotOf(i)']]
  BY <1>1 DEF Items
<1>8. Items' = [i \in 1 .. Occupied |->
                  IF i = Occupied THEN d ELSE queue_buffer[SlotOf(i + 1)]]
  <2>1. ASSUME NEW i \in 1 .. Occupied
        PROVE  queue_buffer'[SlotOf(i)'] =
                 IF i = Occupied THEN d ELSE queue_buffer[SlotOf(i + 1)]
    <3>1. CASE i = Occupied
      BY <3>1, <1>1, <1>3, <1>6
    <3>2. CASE i # Occupied
      BY <3>2, <1>1, <1>2, <1>5, ItemsSeq
    <3>3. QED BY <3>1, <3>2
  <2>2. QED BY <1>7, <2>1
<1>9. Append(Tail(Items), d) = [i \in 1 .. Occupied |->
                  IF i = Occupied THEN d ELSE queue_buffer[SlotOf(i + 1)]]
  <2>1. /\ Items \in Seq(Entry) /\ Items # << >> /\ Len(Items) = Occupied
        /\ d \in Entry
    BY <1>1, ItemsSeq DEF Entry
  <2>2. Append(Tail(Items), d) = [i \in 1 .. Occupied |->
                  IF i = Occupied THEN d ELSE Items[i + 1]]
    BY <2>1, AppendTailAsFunction
  <2>3. \A i \in 1 .. Occupied : i # Occupied =>
          Items[i + 1] = queue_buffer[SlotOf(i + 1)]
    BY <1>1 DEF Items
  <2>4. QED BY <2>2, <2>3
<1>10. QED BY <1>8, <1>9, FullIsFull DEF Fifo!PutDroppingOldest

\* data_buffer.c:7 "data_buffer is a FIFO data queue": for every number of
\* slots the ring implements the abstract queue that drops its oldest entry.
THEOREM RingIsFifo == Spec => ImplementsFifo
<1>1. Init => Fifo!Init
  <2>1. SUFFICES ASSUME Init PROVE Items = << >>
    BY DEF Fifo!Init
  <2>2. Occupied = 0
    BY <2>1 DEF Init, Occupied
  <2>3. QED BY <2>2 DEF Items
<1>2. IInv /\ [Next]_vars => [Fifo!Next]_Items
  <2> SUFFICES ASSUME IInv, [Next]_vars
               PROVE  Fifo!Next \/ UNCHANGED Items
    OBVIOUS
  <2>1. CASE queue_buffer_removeData
    BY <2>1, RemoveIsTake DEF Fifo!Next
  <2>2. ASSUME NEW d \in Data, NEW keep_new \in BOOLEAN,
               queue_buffer_insert(d, keep_new)
        PROVE  Fifo!Next
    BY <2>2, InsertIsPut, InsertIsPutDroppingOldest
       DEF queue_buffer_insert, Fifo!Next
  <2>3. CASE UNCHANGED vars
    BY <2>3 DEF vars, Items, Occupied, SlotOf
  <2>4. QED BY <2>1, <2>2, <2>3 DEF Next
<1>3. QED BY InitIInv, StepIInv, <1>1, <1>2, PTL
          DEF Spec, ImplementsFifo, Fifo!Spec
==============================================================================
