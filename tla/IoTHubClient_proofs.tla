------------------------- MODULE IoTHubClient_proofs -------------------------
(***************************************************************************)
(* Proofs about azure_task for every length of messages[] and of the ring. *)
(* CountersAgree is inductive together with the types; the other           *)
(* properties follow from the two.                                         *)
(***************************************************************************)
EXTENDS IoTHubClient, FiniteSetTheorems, TLAPS

IInv == TypeOK /\ CountersAgree

LEMMA InitIInv == Init => IInv
<1>1. Init => TypeOK
  <2>1. Init => /\ iothub_connection \in BOOLEAN /\ wifi_connection \in BOOLEAN
                /\ connected \in BOOLEAN
    BY Zenon DEF Init
  <2>2. QED BY <2>1, ClientAssumption DEF Init, TypeOK
<1>2. Init => CountersAgree
  BY DEF Init, CountersAgree
<1>3. QED BY <1>1, <1>2 DEF IInv

\* No step of the task outside a send, a confirmation or a destruction touches
\* the counters.
LEMMA CountersKept ==
  ASSUME IInv, UNCHANGED counters,
         pc' \in {"start", "wait", "loop", "work", "drain", "destroy",
                  "exitTest", "done"},
         errno' \in {"lost", "other"},
         iothub_connection' \in BOOLEAN, wifi_connection' \in BOOLEAN,
         queued' \in 0 .. Capacity, connected' \in BOOLEAN
  PROVE  IInv'
BY DEF IInv, TypeOK, CountersAgree, counters

\* The gate of a send: everything sent so far is confirmed, and nothing was
\* ever refused.
LEMMA GateMeansSettled ==
  ASSUME IInv, MaySend
  PROVE  /\ refused = 0 /\ pending = {} /\ iterator = callbackCounter
         /\ SendIndex \in Index /\ Confirmed = SendIndex
BY ClientAssumption
   DEF IInv, TypeOK, CountersAgree, MaySend, SendIndex, Confirmed, Index

LEMMA StepIInv == IInv /\ [Next]_vars => IInv'
<1> SUFFICES ASSUME IInv, [Next]_vars
             PROVE  IInv'
    OBVIOUS
<1> USE ClientAssumption
<1>1. CASE AzureTask
  BY <1>1, CountersKept DEF flags, AzureTask, IInv, TypeOK
<1>2. CASE InitFails \/ CreateFails \/ CallbackFails \/ OpenHandle
  BY <1>2, CountersKept
     DEF InitFails, CreateFails, CallbackFails, OpenHandle, Return, flags,
         IInv, TypeOK
<1>3. CASE NothingToSend
  BY <1>3, CountersKept DEF flags, NothingToSend, IInv, TypeOK
<1>4. CASE SendAccepted
  <2>1. /\ refused = 0 /\ pending = {}
        /\ SendIndex \in Index /\ Confirmed = SendIndex
    BY <1>4, GateMeansSettled DEF SendAccepted
  <2>2. TypeOK'
    BY <1>4, <2>1 DEF SendAccepted, MaySend, IInv, TypeOK, Index
  <2>3. CountersAgree'
    BY <1>4, <2>1 DEF SendAccepted, CountersAgree, Index
  <2>4. QED BY <2>2, <2>3 DEF IInv
<1>5. CASE SendRefused
  <2>1. /\ refused = 0 /\ pending = {}
        /\ SendIndex \in Index /\ Confirmed = SendIndex
    BY <1>5, GateMeansSettled DEF SendRefused
  <2>2. TypeOK'
    <3>1. iothub_connection' \in BOOLEAN
      BY <1>5, Zenon DEF SendRefused
    <3>2. QED BY <1>5, <2>1, <3>1 DEF SendRefused, IInv, TypeOK, Index
  <2>3. CountersAgree'
    BY <1>5, <2>1 DEF SendRefused, CountersAgree, Index
  <2>4. QED BY <2>2, <2>3 DEF IInv
<1>6. CASE KeepLooping \/ LeaveLoop \/ DrainOver
  BY <1>6, CountersKept DEF flags, KeepLooping, LeaveLoop, DrainOver, IInv, TypeOK
<1>7. CASE Destroy
  <2>1. CASE pending = {}
    <3>1. Cardinality(pending) = 0
      BY <2>1, FS_EmptySet
    <3>2. QED BY <1>7, <2>1, <3>1 DEF Destroy, flags, IInv, TypeOK, CountersAgree
  <2>2. CASE /\ refused = 0 /\ iterator = callbackCounter + 1
             /\ pending = {iterator - 1}
    <3>1. Cardinality(pending) = 1
      BY <2>2, FS_Singleton
    <3>2. TypeOK'
      BY <1>7, <2>2, <3>1 DEF Destroy, flags, IInv, TypeOK
    <3>3. CountersAgree'
      BY <1>7, <2>2, <3>1 DEF Destroy, flags, IInv, TypeOK, CountersAgree
    <3>4. QED BY <3>2, <3>3 DEF IInv
  <2>3. QED BY <2>1, <2>2 DEF IInv, CountersAgree
<1>8. CASE Reconnect \/ GiveUp
  BY <1>8, CountersKept DEF flags, Reconnect, GiveUp, Return, IInv, TypeOK
<1>9. ASSUME NEW i \in Index, Confirm(i)
      PROVE  IInv'
  <2>1. /\ refused = 0 /\ iterator = callbackCounter + 1
        /\ pending = {iterator - 1} /\ i = iterator - 1
    BY <1>9 DEF Confirm, IInv, CountersAgree
  <2>2. TypeOK'
    BY <1>9, <2>1 DEF Confirm, flags, IInv, TypeOK
  <2>3. CountersAgree'
    BY <1>9, <2>1 DEF Confirm, CountersAgree
  <2>4. QED BY <2>2, <2>3 DEF IInv
<1>10. ASSUME NEW e \in {"lost", "other"}, SocketError(e)
       PROVE  IInv'
  BY <1>10, CountersKept DEF flags, SocketError, IInv, TypeOK
<1>11. CASE Insert
  BY <1>11, CountersKept DEF flags, Insert, IInv, TypeOK
<1>12. CASE WifiChange
  BY <1>12, CountersKept DEF flags, WifiChange, IInv, TypeOK
<1>13. CASE UNCHANGED vars
  BY <1>13, CountersKept DEF vars, counters, flags, IInv, TypeOK
<1>14. QED
  BY <1>1, <1>2, <1>3, <1>4, <1>5, <1>6, <1>7, <1>8, <1>9, <1>10, <1>11,
     <1>12, <1>13 DEF Next, AzureStep, Sdk

LEMMA Invariance == Spec => []IInv
BY InitIInv, StepIInv, PTL DEF Spec

\* What the gate of a send says of its slot.
LEMMA IInvSlot == IInv => SlotIsFree
BY GateMeansSettled DEF SlotIsFree

\* The counters stay between 0 and MESSAGE_COUNT, and pending messages have an
\* index in messages[].
THEOREM TypeCorrect == Spec => []TypeOK
<1>1. IInv => TypeOK
  BY DEF IInv
<1>2. QED BY <1>1, Invariance, PTL

\* iterator is ahead of callbackCounter by the message in flight or by the one
\* refused, for every MESSAGE_COUNT.
THEOREM CountersCorrect == Spec => []CountersAgree
<1>1. IInv => CountersAgree
  BY DEF IInv
<1>2. QED BY <1>1, Invariance, PTL

\* A send never overwrites an entry of messages[] whose address the SDK holds
\* and never leaves the array.
THEOREM SlotCorrect == Spec => []SlotIsFree
BY IInvSlot, Invariance, PTL

\* After a refusal the gate stays shut.
LEMMA StepRefusal ==
  IInv /\ [Next]_vars =>
    [refused > 0 => pending' = pending /\ queued' >= queued]_vars
<1> SUFFICES ASSUME IInv, Next, refused > 0
             PROVE  pending' = pending /\ queued' >= queued
    BY DEF vars, counters
<1>1. ~MaySend /\ pending = {} /\ queued \in 0 .. Capacity
  BY GateMeansSettled DEF IInv, TypeOK, CountersAgree
<1>2. CASE AzureStep
  BY <1>1, <1>2
     DEF AzureStep, AzureTask, InitFails, CreateFails, CallbackFails,
         OpenHandle, NothingToSend, SendAccepted, SendRefused, KeepLooping,
         LeaveLoop, DrainOver, Destroy, Reconnect, GiveUp, counters
<1>3. CASE Sdk
  BY <1>1, <1>3 DEF Sdk, Confirm, SocketError, counters
<1>4. CASE Insert \/ WifiChange
  BY <1>1, <1>4, ClientAssumption DEF Insert, WifiChange, counters
<1>5. QED BY <1>2, <1>3, <1>4 DEF Next

\* After a refused message no message is sent any more.
THEOREM RefusalCorrect == Spec => RefusalIsFinal
BY Invariance, StepRefusal, PTL DEF Spec, RefusalIsFinal

\* Without a handle nothing is pending: its destruction called back for all.
NoHandleNothingPending ==
  pc \in {"start", "wait", "exitTest", "done"} => pending = {}

\* It holds at first, and a handle is left only by way of its destruction.
LEMMA InitNothingPending == Init => NoHandleNothingPending
BY DEF Init, NoHandleNothingPending

LEMMA StepNothingPending ==
  NoHandleNothingPending /\ [Next]_vars => NoHandleNothingPending'
<1> SUFFICES ASSUME NoHandleNothingPending, [Next]_vars
             PROVE  NoHandleNothingPending'
    OBVIOUS
<1>1. CASE AzureStep
  BY <1>1
     DEF AzureStep, AzureTask, InitFails, CreateFails, CallbackFails, Return,
         OpenHandle, NothingToSend, SendAccepted, SendRefused, KeepLooping,
         LeaveLoop, DrainOver, Destroy, Reconnect, GiveUp, counters,
         NoHandleNothingPending
<1>2. CASE Sdk
  BY <1>2 DEF Sdk, Confirm, SocketError, counters, NoHandleNothingPending
<1>3. CASE Insert \/ WifiChange \/ UNCHANGED vars
  BY <1>3 DEF Insert, WifiChange, vars, counters, NoHandleNothingPending
<1>4. QED BY <1>1, <1>2, <1>3 DEF Next

LEMMA NothingPending == Spec => []NoHandleNothingPending
BY InitNothingPending, StepNothingPending, PTL DEF Spec

\* Where the task gives up its counters are equal and at an end of a run.
LEMMA IInvGiveUp ==
  IInv /\ NoHandleNothingPending =>
    (GiveUp /\ refused = 0 => iterator \in {0, MESSAGE_COUNT})
<1> SUFFICES ASSUME IInv, NoHandleNothingPending, GiveUp, refused = 0
             PROVE  iterator \in {0, MESSAGE_COUNT}
    OBVIOUS
<1>1. pending = {} /\ iterator = callbackCounter
  BY DEF GiveUp, NoHandleNothingPending, IInv, CountersAgree
<1>2. QED BY <1>1, ClientAssumption DEF GiveUp, IInv, TypeOK

\* Nothing refused, the task ends only between two runs of MESSAGE_COUNT
\* messages, in whatever way the connection is lost.
THEOREM GiveUpCorrect == Spec => GiveUpOnlyAtBoundary
BY IInvGiveUp, Invariance, NothingPending, PTL DEF GiveUpOnlyAtBoundary

\* With something to send, nothing refused and no message in flight, the gate of a
\* send (iothub_client_sample_mqtt.c:226) is open.
GateOpens == queued > 0 /\ refused = 0 /\ pending = {} => MaySend

\* What KeepsSending rests on beside fairness: the gate is shut only while a
\* message is in flight, whose confirmation opens it, or for good by a refusal,
\* for every MESSAGE_COUNT.
THEOREM GateCorrect == Spec => []GateOpens
<1>1. IInv => GateOpens
  BY DEF IInv, TypeOK, CountersAgree, GateOpens, MaySend
<1>2. QED BY <1>1, Invariance, PTL
==============================================================================
