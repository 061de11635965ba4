---------------------------- MODULE IoTHubClient -----------------------------
(***************************************************************************)
(* azure_task (wifi_azure.c) and the loop it runs,                         *)
(* iothub_client_sample_mqtt_run (iothub_client_sample_mqtt.c): waiting    *)
(* for Wi-Fi, opening a client handle, sending the readings of the ring    *)
(* one at a time, leaving the loop when the connection is lost, and        *)
(* deciding whether to open another handle.  The Azure SDK, the socket     *)
(* layer's errno, Wi-Fi and adc_task are environment.  The ring is only    *)
(* the number of its entries here; DataPipeline looks inside.              *)
(***************************************************************************)
EXTENDS Integers, FiniteSets

CONSTANTS MESSAGE_COUNT,    \* length of messages[]; 50 in the code
          Capacity          \* entries the ring holds; 5 in the code

ASSUME ClientAssumption ==
  MESSAGE_COUNT \in Nat \ {0} /\ Capacity \in Nat \ {0}

VARIABLES
  pc,                  \* where azure_task is
  iterator,            \* next index into messages[], a local of the loop
  callbackCounter,     \* confirmations counted by SendConfirmationCallback
  pending,             \* indices of messages[] whose callback is to come
  refused,             \* history: messages not created or not accepted
  errno,               \* "lost" for ECONNABORTED or ECONNRESET
  iothub_connection,   \* what iothub_check_connection tells the red LED
  wifi_connection,     \* what wifi_check_connection tells the blue LED
  queued,              \* number of entries in the ring
  connected            \* CONNECTED_BIT or ESPTOUCH_DONE_BIT is set

counters == <<iterator, callbackCounter, pending, refused>>
flags == <<iothub_connection, wifi_connection>>
vars == <<pc, counters, errno, flags, queued, connected>>

Index == 0 .. MESSAGE_COUNT - 1

Init ==
  /\ pc = "start"
  /\ iterator = 0 /\ callbackCounter = 0 /\ pending = {} /\ refused = 0
  /\ errno = "other"
  /\ iothub_connection = FALSE /\ wifi_connection = FALSE
  /\ queued = 0
  /\ connected = FALSE
-----------------------------------------------------------------------------
\* azure_task: wait for Wi-Fi, light the blue LED, enter the loop function.
AzureTask ==
  /\ pc = "start" /\ connected
  /\ pc' = "wait"
  /\ wifi_connection' = TRUE
  /\ UNCHANGED <<counters, errno, iothub_connection, queued, connected>>

\* The loop function returns and azure_task deletes itself.
Return ==
  /\ pc' = "done"
  /\ wifi_connection' = FALSE

\* platform_init fails: break out of the outer loop.
InitFails ==
  /\ pc = "wait" /\ connected
  /\ Return
  /\ UNCHANGED <<counters, errno, iothub_connection, queued, connected>>

\* IoTHubClient_LL_CreateFromConnectionString returns NULL.
CreateFails ==
  /\ pc = "wait" /\ connected
  /\ pc' = "exitTest"
  /\ UNCHANGED <<counters, errno, flags, queued, connected>>

\* IoTHubClient_LL_SetMessageCallback fails: destroy the handle.
CallbackFails ==
  /\ pc = "wait" /\ connected
  /\ pc' = "destroy"
  /\ UNCHANGED <<counters, errno, flags, queued, connected>>

\* The handle is open and has its message callback; nothing was exchanged
\* with the hub yet.
OpenHandle ==
  /\ pc = "wait" /\ connected
  /\ pc' = "loop"
  /\ iothub_connection' = TRUE
  /\ UNCHANGED <<counters, errno, wifi_connection, queued, connected>>
-----------------------------------------------------------------------------
\* if (!queue_buffer_isEmpty() && iterator <= callbackCounter)
MaySend == queued > 0 /\ iterator <= callbackCounter

NothingToSend ==
  /\ pc = "loop" /\ ~MaySend
  /\ pc' = "work"
  /\ UNCHANGED <<counters, errno, flags, queued, connected>>

\* Fault: the index starts over one message late.
SendIndexLate == IF iterator > MESSAGE_COUNT THEN 0 ELSE iterator

\* Fault: only iterator starts over.
ConfirmedKept == callbackCounter

\* if (iterator >= MESSAGE_COUNT) both counters start over: what the index of
\* the message and the confirmations counted are after that.
SendIndex == IF iterator >= MESSAGE_COUNT THEN 0 ELSE iterator
Confirmed == IF iterator >= MESSAGE_COUNT THEN callbackCounter - iterator
                                          ELSE callbackCounter

\* SendEventAsync takes the message; the reading leaves the ring.
SendAccepted ==
  /\ pc = "loop" /\ MaySend
  /\ pc' = "work"
  /\ pending' = pending \cup {SendIndex}
  /\ iterator' = SendIndex + 1
  /\ callbackCounter' = Confirmed
  /\ iothub_connection' = TRUE
  /\ queued' = queued - 1
  /\ UNCHANGED <<refused, errno, wifi_connection, connected>>

\* Fault: a refused message does not use up its index.
RefusedAgain ==
  /\ pc = "loop" /\ MaySend
  /\ pc' = "work"
  /\ iterator' = SendIndex
  /\ callbackCounter' = Confirmed
  /\ refused' = refused + 1
  /\ iothub_connection' = FALSE
  /\ UNCHANGED <<pending, errno, wifi_connection, queued, connected>>

\* The message cannot be created, or SendEventAsync refuses it: iterator
\* moves on, no callback will come, the reading stays in the ring.
SendRefused ==
  /\ pc = "loop" /\ MaySend
  /\ pc' = "work"
  /\ iterator' = SendIndex + 1
  /\ callbackCounter' = Confirmed
  /\ refused' = refused + 1
  /\ iothub_connection' = FALSE
  /\ UNCHANGED <<pending, errno, wifi_connection, queued, connected>>
-----------------------------------------------------------------------------
\* SendConfirmationCallback for message i, whatever the result, called by
\* IoTHubClient_LL_DoWork from the loop or from the final DoWork calls.
Confirm(i) ==
  /\ pc \in {"work", "drain"}
  /\ i \in pending
  /\ pending' = pending \ {i}
  /\ callbackCounter' = callbackCounter + 1
  /\ UNCHANGED <<pc, iterator, refused, errno, flags, queued, connected>>

\* A socket call inside DoWork fails; the code never clears errno.
SocketError(e) ==
  /\ pc \in {"work", "drain"}
  /\ errno' = e
  /\ UNCHANGED <<pc, counters, flags, queued, connected>>

\* DoWork is over: the loop goes on unless errno says the connection is lost.
KeepLooping ==
  /\ pc = "work" /\ errno # "lost"
  /\ pc' = "loop"
  /\ UNCHANGED <<counters, errno, flags, queued, connected>>

LeaveLoop ==
  /\ pc = "work" /\ errno = "lost"
  /\ pc' = IF callbackCounter >= MESSAGE_COUNT THEN "drain" ELSE "destroy"
  /\ UNCHANGED <<counters, errno, flags, queued, connected>>

\* The DOWORK_LOOP_NUM final calls are over.
DrainOver ==
  /\ pc = "drain"
  /\ pc' = "destroy"
  /\ UNCHANGED <<counters, errno, flags, queued, connected>>

\* Fault: the handle goes away without calling back for what is pending.
DestroySilently ==
  /\ pc = "destroy"
  /\ pc' = "exitTest"
  /\ pending' = {}
  /\ UNCHANGED <<iterator, callbackCounter, refused, errno, flags, queued,
                 connected>>

\* IoTHubClient_LL_Destroy calls back for every message still pending.
Destroy ==
  /\ pc = "destroy"
  /\ pc' = "exitTest"
  /\ callbackCounter' = callbackCounter + Cardinality(pending)
  /\ pending' = {}
  /\ UNCHANGED <<iterator, refused, errno, flags, queued, connected>>

\* if (callbackCounter > 0 && callbackCounter < MESSAGE_COUNT) continue;
Reconnect ==
  /\ pc = "exitTest"
  /\ callbackCounter > 0 /\ callbackCounter < MESSAGE_COUNT
  /\ pc' = "wait"
  /\ UNCHANGED <<counters, errno, flags, queued, connected>>

\* Fault: one confirmation does not count as a connection that worked.
GiveUpEarly ==
  /\ pc = "exitTest"
  /\ ~(callbackCounter > 1 /\ callbackCounter < MESSAGE_COUNT)
  /\ Return
  /\ UNCHANGED <<counters, errno, iothub_connection, queued, connected>>

\* else break;
GiveUp ==
  /\ pc = "exitTest"
  /\ ~(callbackCounter > 0 /\ callbackCounter < MESSAGE_COUNT)
  /\ Return
  /\ UNCHANGED <<counters, errno, iothub_connection, queued, connected>>
-----------------------------------------------------------------------------
\* queue_buffer_insert by adc_task: a full ring stays full.
Insert ==
  /\ queued' = IF queued < Capacity THEN queued + 1 ELSE queued
  /\ UNCHANGED <<pc, counters, errno, flags, connected>>

\* The event handler of smartconfig.c sets and clears CONNECTED_BIT.
WifiChange ==
  /\ connected' = ~connected
  /\ UNCHANGED <<pc, counters, errno, flags, queued>>

AzureStep ==
  \/ AzureTask \/ InitFails \/ CreateFails \/ CallbackFails \/ OpenHandle
  \/ NothingToSend \/ SendAccepted \/ SendRefused
  \/ KeepLooping \/ LeaveLoop \/ DrainOver \/ Destroy \/ Reconnect \/ GiveUp

Sdk == \/ \E i \in Index : Confirm(i)
       \/ \E e \in {"lost", "other"} : SocketError(e)

Next == AzureStep \/ Sdk \/ Insert \/ WifiChange

\* azure_task is scheduled, and the SDK calls back for every message it took
\* (with the hub's answer, a timeout or an error).
Fairness == WF_vars(AzureStep) /\ SF_vars(\E i \in Index : Confirm(i))

Spec == Init /\ [][Next]_vars /\ Fairness
-----------------------------------------------------------------------------
TypeOK ==
  /\ pc \in {"start", "wait", "loop", "work", "drain", "destroy", "exitTest",
             "done"}
  /\ iterator \in 0 .. MESSAGE_COUNT
  /\ callbackCounter \in 0 .. MESSAGE_COUNT
  /\ pending \subseteq Index
  /\ refused \in Nat
  /\ errno \in {"lost", "other"}
  /\ iothub_connection \in BOOLEAN /\ wifi_connection \in BOOLEAN
  /\ queued \in 0 .. Capacity
  /\ connected \in BOOLEAN

\* Across any number of reconnections and restarts of the counters
\* (iothub_client_sample_mqtt.c:156,226-232,273), what iterator is ahead of
\* callbackCounter is exactly the one message in flight or the one refused:
\* the message pending is the last one stored in messages[].
CountersAgree ==
  \/ refused = 0 /\ pending = {} /\ iterator = callbackCounter
  \/ /\ refused = 0 /\ iterator = callbackCounter + 1
     /\ pending = {iterator - 1}
  \/ refused = 1 /\ pending = {} /\ iterator = callbackCounter + 1

\* The entry of messages[] that a send overwrites (:244,251) is inside the
\* array and is not one whose address the SDK still holds (:260).
SlotIsFree ==
  pc = "loop" /\ MaySend => SendIndex \in Index \ pending

\* One message that is not created or not accepted (:244-248,260-264) ends
\* telemetry for good: iterator has moved on (:273) and no reconnection, which
\* keeps both counters, lets the test of :226 succeed again.
RefusalIsFinal == [][refused > 0 => pending' = pending /\ queued' >= queued]_vars

\* The task gives up at a loss of connection only between two runs of
\* MESSAGE_COUNT messages: in the middle of one it opens a new handle however
\* often the connection is lost (:290-311).
GiveUpOnlyAtBoundary ==
  [][GiveUp /\ refused = 0 => iterator \in {0, MESSAGE_COUNT}]_vars

\* While Wi-Fi stays up, handles open, nothing is refused and the task has not
\* given up, the ring is emptied again and again or sends go on for ever: the
\* test of :226 is never stuck, with lost connections, messages confirmed only
\* by the destruction of their handle, and errno values left over (:278).
KeepsSending ==
  /\ <>[]connected
  /\ <>[][~CreateFails /\ ~CallbackFails]_vars
  /\ [](refused = 0 /\ pc # "done")
  => []<>(queued = 0) \/ []<><<SendAccepted>>_vars
==============================================================================
