----------------------------- MODULE DataBuffer ------------------------------
(***************************************************************************)
(* data_buffer.c: the ring of readings between the sampling side (adc.c,   *)
(* ble.c) and the cloud side (iothub_client_sample_mqtt.c).  Every         *)
(* function is one action here: this is the code as its author thinks of   *)
(* it, one call at a time.  DataPipeline splits the calls into the steps   *)
(* that really interleave.                                                 *)
(***************************************************************************)
EXTENDS Naturals, Sequences

CONSTANTS Data,              \* contents of a struct def_queue_buffer
          ZeroData,          \* the zeroed static storage of a slot
          QUEUE_BUFFER_MAX   \* number of slots; 6 in the code

\* head, tail and itemCount are uint8_t, and one slot is always left empty.
ASSUME QueueBufferMaxAssumption == QUEUE_BUFFER_MAX \in 2 .. 255

VARIABLES queue_buffer,      \* the slots
          head,              \* slot of the oldest entry
          tail,              \* slot the next entry goes into
          itemCount          \* entry counter, kept but never read

vars == <<queue_buffer, head, tail, itemCount>>

Slots == 0 .. QUEUE_BUFFER_MAX - 1
Entry == Data \cup {ZeroData}

\* Fault: the wrap-around test is off by one.
Next1PastEnd(i) == IF i + 1 > QUEUE_BUFFER_MAX THEN 0 ELSE i + 1

\* i++ followed by "if (i >= QUEUE_BUFFER_MAX) i = 0".
Next1(i) == IF i + 1 >= QUEUE_BUFFER_MAX THEN 0 ELSE i + 1

queue_buffer_peek == queue_buffer[head]

queue_buffer_isEmpty == head = tail

queue_buffer_isFull == head = Next1(tail)

queue_buffer_size ==
  IF tail > head THEN tail - head ELSE tail + QUEUE_BUFFER_MAX - head
-----------------------------------------------------------------------------
Init ==
  /\ queue_buffer = [s \in Slots |-> ZeroData]
  /\ head = 0
  /\ tail = 0
  /\ itemCount = 0

\* Fault: the removal forgets the entry counter.
removeDataUncounted ==
  /\ ~queue_buffer_isEmpty
  /\ head' = Next1(head)
  /\ UNCHANGED <<queue_buffer, tail, itemCount>>

\* An empty buffer is left as it is (and the caller gets an unset struct).
queue_buffer_removeData ==
  /\ ~queue_buffer_isEmpty
  /\ head' = Next1(head)
  /\ itemCount' = (itemCount + 255) % 256
  /\ UNCHANGED <<queue_buffer, tail>>

\* Fault: the index is advanced before the slot is chosen.
StoreAfterTail(data_queue, kept) ==
  /\ queue_buffer' = [queue_buffer EXCEPT ![Next1(tail)] = data_queue]
  /\ tail' = Next1(tail)
  /\ itemCount' = (kept + 1) % 256

\* The tail of queue_buffer_insert, once room has been made or was there:
\* kept is what itemCount is after the optional removal.
StoreAtTail(data_queue, kept) ==
  /\ queue_buffer' = [queue_buffer EXCEPT ![tail] = data_queue]
  /\ tail' = Next1(tail)
  /\ itemCount' = (kept + 1) % 256

\* With room the entry is stored; a full buffer drops its oldest entry
\* first when keep_new is set, and ignores the call when it is not.
queue_buffer_insert(data_queue, keep_new) ==
  \/ /\ ~queue_buffer_isFull
     /\ StoreAtTail(data_queue, itemCount)
     /\ UNCHANGED head
  \/ /\ queue_buffer_isFull
     /\ keep_new
     /\ head' = Next1(head)
     /\ StoreAtTail(data_queue, (itemCount + 255) % 256)

Next == \/ \E data_queue \in Data, keep_new \in BOOLEAN :
             queue_buffer_insert(data_queue, keep_new)
        \/ queue_buffer_removeData

Spec == Init /\ [][Next]_vars
-----------------------------------------------------------------------------
\* The slot of the i-th oldest entry.
SlotOf(i) == IF head + i > QUEUE_BUFFER_MAX
               THEN head + i - 1 - QUEUE_BUFFER_MAX
               ELSE head + i - 1

\* How many entries lie between the two indices.
Occupied == IF tail >= head THEN tail - head
                            ELSE tail + QUEUE_BUFFER_MAX - head

Items == [i \in 1 .. Occupied |-> queue_buffer[SlotOf(i)]]

Fifo == INSTANCE FifoQueue WITH items <- Items,
                                Capacity <- QUEUE_BUFFER_MAX - 1

\* The indices stay in the array, the slots hold entries.
TypeOK ==
  /\ queue_buffer \in [Slots -> Entry]
  /\ head \in Slots
  /\ tail \in Slots
  /\ itemCount \in 0 .. 255

\* itemCount (data_buffer.c:24,79,94) never drifts from what the indices say
\* is stored, so it never wraps around its eight bits and never exceeds
\* QUEUE_BUFFER_MAX - 1: the disabled tests "itemCount == 0" and
\* "itemCount == QUEUE_BUFFER_MAX" (data_buffer.c:35,47) would not be
\* equivalent to the enabled ones.
CountAgrees == itemCount = Occupied

\* queue_buffer_size (data_buffer.c:51-56) answers the number of entries for
\* every buffer but the empty one, for which it answers QUEUE_BUFFER_MAX.
SizeAnswer ==
  queue_buffer_size = IF queue_buffer_isEmpty THEN QUEUE_BUFFER_MAX
                                              ELSE itemCount

\* data_buffer.c:7 "data_buffer is a FIFO data queue": the ring implements
\* the abstract queue of QUEUE_BUFFER_MAX - 1 entries.
ImplementsFifo == Fifo!Spec
==============================================================================
