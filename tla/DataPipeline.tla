---------------------------- MODULE DataPipeline -----------------------------
(***************************************************************************)
(* adc_task (adc.c) puts readings into the ring of data_buffer.c while     *)
(* azure_task (iothub_client_sample_mqtt.c) peeks, sends and removes them. *)
(* The ring has no lock and the tasks run on two cores, so the calls are   *)
(* split here into the loads and stores of head, tail and itemCount and    *)
(* the copy of the slot, in the order of the code.                         *)
(*                                                                         *)
(* A reading is its serial number, so that order, loss and repetition are  *)
(* visible; what a reading says is the business of AdcSampler.             *)
(***************************************************************************)
EXTENDS Naturals, Sequences, Functions

CONSTANTS QUEUE_BUFFER_MAX,   \* slots of the ring; 6 in the code
          MaxReadings,        \* how many readings adc_task inserts
          Garbage             \* what lies behind the last slot

ASSUME PipelineAssumption ==
  /\ QUEUE_BUFFER_MAX \in 3 .. 255
  /\ MaxReadings \in Nat
  /\ Garbage \notin 0 .. MaxReadings

VARIABLES queue_buffer, head, tail, itemCount,   \* data_buffer.c:20-24
          pc,          \* where each task is
          reg,         \* index or counter each task holds in a register
          produced,    \* serial number of adc_task's latest reading
          peeked,      \* tmp_data_queue of azure_task
          sent,        \* what SendEventAsync accepted, in order
          gate,        \* the test "iterator <= callbackCounter"
          met,         \* the two tasks' current turns overlap or overlapped
          mixed        \* history: a call was made while another was under way

ring == <<queue_buffer, head, tail, itemCount>>
cloud == <<peeked, sent, gate>>
timing == <<met, mixed>>
vars == <<ring, pc, reg, produced, cloud, timing>>

Tasks == {"adc", "azure"}
Slots == 0 .. QUEUE_BUFFER_MAX - 1
Reading == 1 .. MaxReadings
Cell == 0 .. MaxReadings        \* 0 is a slot never written

Next1(i) == IF i + 1 >= QUEUE_BUFFER_MAX THEN 0 ELSE i + 1
\* Fault: a ring with one entry counts as empty.
isEmptyOffByOne == head = tail \/ Next1(head) = tail

queue_buffer_isEmpty == head = tail
queue_buffer_isFull == head = Next1(tail)

Init ==
  /\ queue_buffer = [s \in Slots |-> 0]
  /\ head = 0 /\ tail = 0 /\ itemCount = 0
  /\ pc = [adc |-> "idle", azure |-> "poll"]
  /\ reg = [t \in Tasks |-> 0]
  /\ produced = 0
  /\ peeked = 0 /\ sent = << >> /\ gate = "open"
  /\ met = FALSE /\ mixed = FALSE

\* Task t goes from one point of its code to another.
Step(t, from, to) == pc[t] = from /\ pc' = [pc EXCEPT ![t] = to]

\* Task t is between the first and the last access of a turn: one insertion
\* of adc_task, one peek-send-remove of azure_task.
InTurn(t) == pc[t] \notin {"idle", "poll", "sleep"}

\* Timing.  adc_task waits five seconds after an insertion and azure_task one
\* second after a removal, a turn takes milliseconds: a turn of one task
\* overlaps at most one turn of the other.  A task begins a turn.
MeetsOnce(other) ==
  /\ ~(InTurn(other) /\ met)
  /\ met' = InTurn(other)

\* A task is inside one of the functions of data_buffer.c.
InsideCall(t) == IF t = "adc" THEN pc[t] # "idle"
                 ELSE pc[t] \in {"removeCheck", "headLoad", "headStore",
                                 "headWrap", "decLoad", "decStore"}

\* A function of data_buffer.c is entered.
Calls(other) == mixed' = (mixed \/ InsideCall(other))
-----------------------------------------------------------------------------
(* queue_buffer_removeData, run by either task.                            *)

AfterRemove(t) == IF t = "adc" THEN "isFull2" ELSE "sleep"

\* if (queue_buffer_isEmpty()) return a_queue;
RemoveCheck(t) ==
  /\ Step(t, "removeCheck", IF queue_buffer_isEmpty THEN AfterRemove(t)
                                                    ELSE "headLoad")
  /\ UNCHANGED <<ring, reg, produced, cloud, timing>>

\* The load and the store of head++; the copy in between is thrown away.
HeadLoad(t) ==
  /\ Step(t, "headLoad", "headStore")
  /\ reg' = [reg EXCEPT ![t] = head]
  /\ UNCHANGED <<ring, produced, cloud, timing>>

HeadStore(t) ==
  /\ Step(t, "headStore", "headWrap")
  /\ head' = reg[t] + 1
  /\ UNCHANGED <<queue_buffer, tail, itemCount, reg, produced, cloud, timing>>

\* if (head >= QUEUE_BUFFER_MAX) head = 0, on the value in the register.
HeadWrap(t) ==
  /\ Step(t, "headWrap", "decLoad")
  /\ head' = IF reg[t] + 1 >= QUEUE_BUFFER_MAX THEN 0 ELSE head
  /\ UNCHANGED <<queue_buffer, tail, itemCount, reg, produced, cloud, timing>>

\* itemCount--
DecLoad(t) ==
  /\ Step(t, "decLoad", "decStore")
  /\ reg' = [reg EXCEPT ![t] = itemCount]
  /\ UNCHANGED <<ring, produced, cloud, timing>>

DecStore(t) ==
  /\ Step(t, "decStore", AfterRemove(t))
  /\ itemCount' = (reg[t] + 255) % 256
  /\ UNCHANGED <<queue_buffer, head, tail, reg, produced, cloud, timing>>

RemoveData(t) == \/ RemoveCheck(t) \/ HeadLoad(t) \/ HeadStore(t)
                 \/ HeadWrap(t) \/ DecLoad(t) \/ DecStore(t)
-----------------------------------------------------------------------------
(* adc_task: queue_buffer_insert(tmp_data_queue, true).                    *)

AdcSample ==
  /\ Step("adc", "idle", "isFull1")
  /\ produced < MaxReadings
  /\ produced' = produced + 1
  /\ MeetsOnce("azure") /\ Calls("azure")
  /\ UNCHANGED <<ring, reg, cloud>>

\* Fault: a full ring refuses the new reading instead of dropping the oldest.
AdcKeepsOld ==
  /\ Step("adc", "isFull1", "isFull2")
  /\ UNCHANGED <<ring, reg, produced, cloud, timing>>

\* if (queue_buffer_isFull() && keep_new) queue_buffer_removeData();
AdcIsFull1 ==
  /\ Step("adc", "isFull1", IF queue_buffer_isFull THEN "removeCheck"
                                                   ELSE "isFull2")
  /\ UNCHANGED <<ring, reg, produced, cloud, timing>>

\* if (!queue_buffer_isFull()) ...
AdcIsFull2 ==
  /\ Step("adc", "isFull2", IF queue_buffer_isFull THEN "idle" ELSE "tailStore")
  /\ UNCHANGED <<ring, reg, produced, cloud, timing>>

\* tail++ is stored before the slot it designated is filled.
AdcTailStore ==
  /\ Step("adc", "tailStore", "copy")
  /\ reg' = [reg EXCEPT !["adc"] = tail]
  /\ tail' = tail + 1
  /\ UNCHANGED <<queue_buffer, head, itemCount, produced, cloud, timing>>

AdcCopy ==
  /\ Step("adc", "copy", "tailWrap")
  /\ queue_buffer' = [queue_buffer EXCEPT ![reg["adc"]] = produced]
  /\ UNCHANGED <<head, tail, itemCount, reg, produced, cloud, timing>>

\* Fault: the wrap-around test is off by one.
AdcTailWrapLate ==
  /\ Step("adc", "tailWrap", "incLoad")
  /\ tail' = IF reg["adc"] + 1 > QUEUE_BUFFER_MAX THEN 0 ELSE tail
  /\ UNCHANGED <<queue_buffer, head, itemCount, reg, produced, cloud, timing>>

AdcTailWrap ==
  /\ Step("adc", "tailWrap", "incLoad")
  /\ tail' = IF reg["adc"] + 1 >= QUEUE_BUFFER_MAX THEN 0 ELSE tail
  /\ UNCHANGED <<queue_buffer, head, itemCount, reg, produced, cloud, timing>>

\* itemCount++
AdcIncLoad ==
  /\ Step("adc", "incLoad", "incStore")
  /\ reg' = [reg EXCEPT !["adc"] = itemCount]
  /\ UNCHANGED <<ring, produced, cloud, timing>>

AdcIncStore ==
  /\ Step("adc", "incStore", "idle")
  /\ itemCount' = (reg["adc"] + 1) % 256
  /\ UNCHANGED <<queue_buffer, head, tail, reg, produced, cloud, timing>>

Adc == \/ AdcSample \/ AdcIsFull1 \/ AdcIsFull2 \/ AdcTailStore \/ AdcCopy
       \/ AdcTailWrap \/ AdcIncLoad \/ AdcIncStore \/ RemoveData("adc")
-----------------------------------------------------------------------------
(* azure_task: the loop body of iothub_client_sample_mqtt_run.             *)

\* if (!queue_buffer_isEmpty() && iterator <= callbackCounter)
AzurePoll ==
  /\ Step("azure", "poll", "peek")
  /\ gate = "open"
  /\ ~queue_buffer_isEmpty
  /\ MeetsOnce("adc") /\ Calls("adc")
  /\ UNCHANGED <<ring, reg, produced, cloud>>

\* tmp_data_queue = queue_buffer_peek(); head may be past the last slot.
AzurePeek ==
  /\ Step("azure", "peek", "send")
  /\ peeked' = IF head \in Slots THEN queue_buffer[head] ELSE Garbage
  /\ Calls("adc")
  /\ UNCHANGED <<ring, reg, produced, sent, gate, met>>

\* Fault: the accepted reading is not removed.
AzureSendKeeps ==
  /\ Step("azure", "send", "sleep")
  /\ sent' = Append(sent, peeked)
  /\ gate' = "waiting"
  /\ UNCHANGED <<ring, reg, produced, peeked, timing>>

\* SendEventAsync accepts the message; its confirmation is outstanding.
AzureSendAccepted ==
  /\ Step("azure", "send", "removeCheck")
  /\ sent' = Append(sent, peeked)
  /\ gate' = "waiting"
  /\ Calls("adc")
  /\ UNCHANGED <<ring, reg, produced, peeked, met>>

\* Fault: the refused reading is removed.
AzureRefusedRemoved ==
  /\ Step("azure", "send", "removeCheck")
  /\ gate' = "shut"
  /\ Calls("adc")
  /\ UNCHANGED <<ring, reg, produced, peeked, sent, met>>

\* The message cannot be created or is refused: iterator++ without a
\* confirmation to come, so the test of AzurePoll never holds again.
AzureSendRefused ==
  /\ Step("azure", "send", "poll")
  /\ gate' = "shut"
  /\ UNCHANGED <<ring, reg, produced, peeked, sent, timing>>

\* ThreadAPI_Sleep(1000)
AzureSleep ==
  /\ Step("azure", "sleep", "poll")
  /\ UNCHANGED <<ring, reg, produced, cloud, timing>>

\* SendConfirmationCallback, out of IoTHubClient_LL_DoWork.
AzureConfirm ==
  /\ pc["azure"] = "poll"
  /\ gate = "waiting"
  /\ gate' = "open"
  /\ UNCHANGED <<ring, pc, reg, produced, peeked, sent, timing>>

Azure == \/ AzurePoll \/ AzurePeek \/ AzureSendAccepted \/ AzureSendRefused
         \/ AzureSleep \/ AzureConfirm \/ RemoveData("azure")
-----------------------------------------------------------------------------
\* Every interleaving of the loads and stores; FreeRTOS runs both tasks.
Spec == Init /\ [][Adc \/ Azure]_vars /\ WF_vars(Adc) /\ WF_vars(Azure)
-----------------------------------------------------------------------------
Occupied == IF tail >= head THEN tail - head ELSE tail + QUEUE_BUFFER_MAX - head

SlotOf(i) == IF head + i > QUEUE_BUFFER_MAX THEN head + i - 1 - QUEUE_BUFFER_MAX
                                            ELSE head + i - 1

TypeOK ==
  /\ queue_buffer \in [Slots -> Cell]
  /\ head \in 0 .. QUEUE_BUFFER_MAX + 1
  /\ tail \in 0 .. QUEUE_BUFFER_MAX
  /\ itemCount \in 0 .. 255
  /\ reg \in [Tasks -> 0 .. 255]
  /\ produced \in Cell
  /\ peeked \in Cell \cup {Garbage}
  /\ sent \in Seq(Cell \cup {Garbage})
  /\ gate \in {"open", "waiting", "shut"}
  /\ met \in BOOLEAN /\ mixed \in BOOLEAN

\* Whatever the two tasks do to each other's indices (data_buffer.c:71-75,
\* 88-92), once both are outside the ring the indices are slots and the ring
\* holds the latest consecutive readings: nothing stale comes back and
\* nothing in the middle is missing.
RestHoldsLatest ==
  pc["adc"] = "idle" /\ ~InsideCall("azure") =>
    /\ head \in Slots /\ tail \in Slots
    /\ \A i \in 1 .. Occupied : queue_buffer[SlotOf(i)] = produced - Occupied + i

\* data_buffer.c:7 "data_buffer is a FIFO data queue and interface for ble
\* and azure": what is sent (iothub_client_sample_mqtt.c:234-268) are readings
\* that were inserted, each once, in the order of insertion.
SentInOrder ==
  /\ Range(sent) \subseteq Reading
  /\ \A i, j \in DOMAIN sent : i < j => sent[i] < sent[j]

\* It is, as long as no two calls overlapped: peek, send and removal are calls
\* apart, and a drop-oldest in between (data_buffer.c:65-67) makes azure_task
\* remove a reading it did not send (iothub_client_sample_mqtt.c:269), but
\* never send one twice or out of order.
CallsKeepOrder == ~mixed => SentInOrder

\* Then also, a reading leaves the ring without having been sent only to make
\* room: when head moves on (data_buffer.c:88), the entry it leaves behind was
\* sent or the ring is full.
LossOnlyWhenFull ==
  [][\A t \in Tasks : HeadStore(t) /\ ~mixed =>
       queue_buffer[head] \in Range(sent) \/ queue_buffer_isFull]_vars

\* data_buffer.c:60 "keep the latest data always": as long as no message is
\* refused and no two calls overlap, every reading is sent unless a later one
\* takes over, so the last one does reach the hub, however the drops and
\* removals fall between peek, send and removal.
LatestIsSent ==
  [](gate # "shut" /\ ~mixed) =>
     \A r \in Reading : produced = r ~> (produced > r \/ r \in Range(sent))
==============================================================================
