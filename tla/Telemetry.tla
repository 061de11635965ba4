------------------------------ MODULE Telemetry ------------------------------
(***************************************************************************)
(* From the light's status to the hub: adc_task (AdcSampler) and           *)
(* azure_task (IoTHubClient) on the ring between them, with the readings   *)
(* themselves.  A reading leaves the ring when the SDK accepts it          *)
(* (iothub_client_sample_mqtt.c:260-269) and nobody keeps it until the hub *)
(* confirms it: a connection lost in between takes it along.  What makes   *)
(* up for that is the sampler's heartbeat (adc.c:94).                      *)
(*                                                                         *)
(* The ring is the FIFO queue that DataBuffer implements; peek, send and   *)
(* removal are one step here and three in DataPipeline.  The module        *)
(* extends the sampler, whose Report is what the ring holds, and           *)
(* instantiates the client, whose queued is the length of the ring.        *)
(***************************************************************************)
EXTENDS AdcSampler, Sequences

CONSTANTS MESSAGE_COUNT, Capacity,   \* of azure_task
          NoReport                   \* before the first one

ASSUME PathAssumption ==
  MESSAGE_COUNT \in Nat \ {0} /\ Capacity \in Nat \ {0}

VARIABLES
  azure_pc, iterator, callbackCounter, pending, refused, errno,
  iothub_connection, wifi_connection, connected,
  readings,   \* the ring, oldest first
  message,    \* the reading in each message that is pending
  hub         \* the last report that reached the hub

azure == <<azure_pc, iterator, callbackCounter, pending, refused, errno,
           iothub_connection, wifi_connection, connected>>
path == <<readings, message, hub>>
varsTelemetry == <<vars, azure, path>>

Client == INSTANCE IoTHubClient WITH pc <- azure_pc, queued <- Len(readings)

InitTelemetry ==
  /\ readings = << >> /\ message = << >> /\ hub = NoReport
  /\ Init /\ Client!Init
-----------------------------------------------------------------------------
\* Fault: a full ring refuses the new reading.
InsertIfRoom ==
  /\ SendReport
  /\ readings' = IF Len(readings) < Capacity
                 THEN Append(readings, tmp_data_queue') ELSE readings
  /\ Client!Insert
  /\ UNCHANGED <<message, hub>>

\* queue_buffer_insert(tmp_data_queue, true): a full ring drops its oldest.
InsertReport ==
  /\ SendReport
  /\ readings' = Append(IF Len(readings) < Capacity THEN readings
                                                    ELSE Tail(readings),
                        tmp_data_queue')
  /\ Client!Insert
  /\ UNCHANGED <<message, hub>>

AdcElse ==
  /\ Sample \/ ReadStatus \/ StaySilent \/ Delay
  /\ UNCHANGED <<azure, path>>

AdcStep == InsertReport \/ AdcElse

Switch == SwitchLight /\ UNCHANGED <<azure, path>>
-----------------------------------------------------------------------------
\* Peek, send and remove.
SendReading ==
  /\ readings # << >>
  /\ readings' = Tail(readings)
  /\ Client!SendAccepted
  /\ message' = [i \in pending' |-> IF i = Client!SendIndex THEN Head(readings)
                                                           ELSE message[i]]
  /\ UNCHANGED <<vars, hub>>

\* Fault: the message outlives its confirmation.
ForgetNothing == UNCHANGED message

\* IoTHubMessage_Destroy: a message that is no longer pending is forgotten.
Forget == message' = [i \in pending' |-> message[i]]

\* SendConfirmationCallback with IOTHUB_CLIENT_CONFIRMATION_OK ...
Delivered(i) ==
  /\ UNCHANGED readings
  /\ Client!Confirm(i)
  /\ Forget
  /\ hub' = message[i]
  /\ UNCHANGED vars

\* ... or with a time-out or an error, which it treats alike.
Failed(i) ==
  /\ UNCHANGED readings
  /\ Client!Confirm(i)
  /\ Forget
  /\ UNCHANGED <<vars, hub>>

\* The destruction of a handle answers what is pending, which may or may not
\* have reached the hub.
DestroyHandle ==
  /\ UNCHANGED readings
  /\ Client!Destroy
  /\ Forget
  /\ hub' \in {hub} \cup {message[i] : i \in pending}
  /\ UNCHANGED vars

\* What the client does otherwise.
AzureElse ==
  /\ UNCHANGED path
  /\ \/ Client!AzureTask \/ Client!InitFails \/ Client!CreateFails
     \/ Client!CallbackFails \/ Client!OpenHandle \/ Client!NothingToSend
     \/ Client!SendRefused \/ Client!KeepLooping \/ Client!LeaveLoop
     \/ Client!DrainOver \/ Client!Reconnect \/ Client!GiveUp
  /\ UNCHANGED vars

AzureStep == SendReading \/ DestroyHandle \/ AzureElse

Network ==
  /\ UNCHANGED path
  /\ \/ \E e \in {"lost", "other"} : Client!SocketError(e)
     \/ Client!WifiChange
  /\ UNCHANGED vars

NextTelemetry ==
  \/ AdcStep \/ Switch \/ AzureStep \/ Network
  \/ \E i \in Client!Index : Delivered(i) \/ Failed(i)

\* FreeRTOS runs both tasks, and the SDK answers what it accepted.
Fairness == /\ WF_varsTelemetry(AdcStep) /\ WF_varsTelemetry(AzureStep)
            /\ SF_varsTelemetry(\E i \in Client!Index : Delivered(i) \/ Failed(i))

SpecTelemetry == InitTelemetry /\ [][NextTelemetry]_varsTelemetry /\ Fairness
-----------------------------------------------------------------------------
TypeOKTelemetry ==
  /\ TypeOK /\ Client!TypeOK
  /\ readings \in Seq(Report)
  /\ message \in [pending -> Report]
  /\ hub \in Report \cup {NoReport}

\* A delivery that leaves nothing in the ring brings the hub the last report
\* (adc.c:100-104, iothub_client_sample_mqtt.c:149-159,226-275), whatever a full
\* ring dropped and whatever was lost with a connection before: the ring keeps
\* the newest readings and not the oldest, they are sent in order, and a
\* message is out of the hands of the SDK before the next one is sent, so that
\* no later confirmation takes the hub back.
CaughtUp ==
  [][\A i \in Client!Index :
       Delivered(i) /\ readings = << >> => hub' = tmp_data_queue]_varsTelemetry

\* The network and the SDK are well from some time on, the task has not given
\* up and nothing was refused.
WellFromSomeTimeOn ==
  /\ <>[](connected /\ errno # "lost")
  /\ <>[][/\ ~Client!CreateFails /\ ~Client!CallbackFails
          /\ \A i \in Client!Index : ~Failed(i)]_varsTelemetry
  /\ [](refused = 0 /\ azure_pc # "done")

\* A status that the light keeps is what the hub knows from some time on
\* (gpio_ctrl.c:159,165, adc.c:92-100, iothub_client_sample_mqtt.c:226-275),
\* although readings are dropped by a full ring, and accepted readings are lost
\* with their connection: the sampler has reported the status by then and does
\* not see a change, but the next heartbeat brings it again.
HubLearnsStatus ==
  WellFromSomeTimeOn =>
    \A s \in Status :
      <>[](status_el_gi = s) => <>[](hub # NoReport /\ hub.status = s)
==============================================================================
