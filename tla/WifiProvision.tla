---------------------------- MODULE WifiProvision ----------------------------
(***************************************************************************)
(* smartconfig.c: getting the station onto a Wi-Fi network.  The event     *)
(* handler, the ESPTOUCH callback and smartconfig_example_task run in      *)
(* three FreeRTOS tasks and share the Wi-Fi driver and two bits of an      *)
(* event group; azure_task (wifi_azure.c) and rtc_tie_test (rtc_time.c)    *)
(* wait for either bit.  Each driver call and each access of the bits is a *)
(* step.  The driver, the access point and the phone are environment, and  *)
(* a failed ESP_ERROR_CHECK restarts the chip.                             *)
(***************************************************************************)
EXTENDS Naturals, Sequences

CONSTANTS MaxEvents,   \* bound on the driver's queue of events
          MaxDrops,    \* bound on how often the access point is lost
          MaxLinks     \* bound on how often a phone sends credentials

ASSUME WifiAssumption ==
  MaxEvents \in Nat \ {0} /\ MaxDrops \in Nat /\ MaxLinks \in Nat

VARIABLES
  CONNECTED_BIT, ESPTOUCH_DONE_BIT,   \* s_wifi_event_group
  link,             \* the station: "down", "connecting", "up" (it has an IP)
  events,           \* system events posted and not yet handled
  configured,       \* the flash holds the credentials of the network
  smartconfig,      \* esp_smartconfig is listening for a phone
  pc,               \* where the handler, the callback and the task are
  waiter,           \* where azure_task and rtc_tie_test are
  wifi_connection,  \* wifi_azure.c: the blue LED
  drops, links      \* history

bits == <<CONNECTED_BIT, ESPTOUCH_DONE_BIT>>
driver == <<link, events, configured, smartconfig>>
waiters == <<waiter, wifi_connection>>
vars == <<bits, driver, pc, waiters, drops, links>>

BootPc == [handler |-> "idle", callback |-> "idle", task |-> "none"]

\* initialise_wifi has created the event group and started the station.
Init ==
  /\ CONNECTED_BIT = FALSE /\ ESPTOUCH_DONE_BIT = FALSE
  /\ link = "down" /\ events = <<"STA_START">>
  /\ configured \in BOOLEAN
  /\ smartconfig = FALSE
  /\ pc = BootPc
  /\ waiter = [azure |-> "begin", rtc |-> "begin"] /\ wifi_connection = FALSE
  /\ drops = 0 /\ links = 0

\* An actor of pc goes from one point of its code to another.
Step(a, from, to) == pc[a] = from /\ pc' = [pc EXCEPT ![a] = to]
-----------------------------------------------------------------------------
(* The driver.                                                             *)

\* esp_wifi_connect has an effect on a station that is down.
esp_wifi_connect == link' = IF link = "down" THEN "connecting" ELSE link

\* esp_wifi_disconnect takes the station down and says so.
esp_wifi_disconnect ==
  /\ link' = "down"
  /\ events' = IF link = "down" THEN events
                                ELSE Append(events, "STA_DISCONNECTED")

\* Fault: the address is announced twice.
GotIpTwice ==
  /\ link = "connecting" /\ configured
  /\ Len(events) < MaxEvents
  /\ link' = "up"
  /\ events' = events \o <<"STA_GOT_IP", "STA_GOT_IP">>
  /\ UNCHANGED <<bits, configured, smartconfig, pc, waiters, drops, links>>

GotIp ==
  /\ link = "connecting" /\ configured
  /\ Len(events) < MaxEvents
  /\ link' = "up"
  /\ events' = Append(events, "STA_GOT_IP")
  /\ UNCHANGED <<bits, configured, smartconfig, pc, waiters, drops, links>>

\* The attempt fails, or an access point that was reached goes away.
Lost ==
  /\ \/ link = "connecting" /\ UNCHANGED drops
     \/ link = "up" /\ drops < MaxDrops /\ drops' = drops + 1
  /\ Len(events) < MaxEvents
  /\ link' = "down"
  /\ events' = Append(events, "STA_DISCONNECTED")
  /\ UNCHANGED <<bits, configured, smartconfig, pc, waiters, links>>

Driver == GotIp \/ Lost
-----------------------------------------------------------------------------
(* The event group.  xEventGroupSetBits releases every task that waits, and *)
(* a task that comes to wait when a bit is set does not block at all.       *)

AnyBit == CONNECTED_BIT \/ ESPTOUCH_DONE_BIT

\* What setting a bit does to the tasks that wait for either.
ReleaseWaiters ==
  waiter' = [w \in DOMAIN waiter |-> IF waiter[w] = "wait" THEN "released"
                                                           ELSE waiter[w]]
-----------------------------------------------------------------------------
(* event_handler.                                                          *)

Received(event) == events # << >> /\ Head(events) = event
                   /\ events' = Tail(events)

HandleStart ==
  /\ Received("STA_START")
  /\ pc["handler"] = "idle"
  /\ Step("task", "none", "start")
  /\ UNCHANGED <<bits, link, configured, smartconfig, waiters, drops, links>>

HandleGotIp ==
  /\ Received("STA_GOT_IP")
  /\ pc["handler"] = "idle"
  /\ CONNECTED_BIT' = TRUE
  /\ ReleaseWaiters
  /\ pc' = [pc EXCEPT !["task"] = IF @ = "wait" THEN "connected" ELSE @]
  /\ UNCHANGED <<ESPTOUCH_DONE_BIT, link, configured, smartconfig,
                 wifi_connection, drops, links>>

\* Fault: the handler does not connect again.
HandleDisconnectedIdle ==
  /\ Received("STA_DISCONNECTED")
  /\ Step("handler", "idle", "clear")
  /\ UNCHANGED <<bits, link, configured, smartconfig, waiters, drops, links>>

\* esp_wifi_connect comes first, ...
HandleDisconnected ==
  /\ Received("STA_DISCONNECTED")
  /\ Step("handler", "idle", "clear")
  /\ esp_wifi_connect
  /\ UNCHANGED <<bits, configured, smartconfig, waiters, drops, links>>

\* Fault: the other bit is cleared.
HandlerClearDone ==
  /\ Step("handler", "clear", "idle")
  /\ ESPTOUCH_DONE_BIT' = FALSE
  /\ UNCHANGED <<CONNECTED_BIT, driver, waiters, drops, links>>

\* ... then the bit is cleared.
HandlerClear ==
  /\ Step("handler", "clear", "idle")
  /\ CONNECTED_BIT' = FALSE
  /\ UNCHANGED <<ESPTOUCH_DONE_BIT, driver, waiters, drops, links>>

Handler == HandleStart \/ HandleGotIp \/ HandleDisconnected \/ HandlerClear
-----------------------------------------------------------------------------
(* sc_callback.                                                            *)

\* SC_STATUS_LINK: a phone has sent the credentials of the network.
LinkDisconnect ==
  /\ smartconfig /\ links < MaxLinks
  /\ Len(events) < MaxEvents
  /\ Step("callback", "idle", "config")
  /\ links' = links + 1
  /\ esp_wifi_disconnect
  /\ UNCHANGED <<bits, configured, smartconfig, waiters, drops>>

\* esp_wifi_set_config writes the flash.
LinkConfig ==
  /\ Step("callback", "config", "connect")
  /\ configured' = TRUE
  /\ UNCHANGED <<bits, link, events, smartconfig, waiters, drops, links>>

LinkConnect ==
  /\ Step("callback", "connect", "linked")
  /\ esp_wifi_connect
  /\ UNCHANGED <<bits, events, configured, smartconfig, waiters, drops, links>>

\* SC_STATUS_LINK_OVER: the phone has heard from the connected station.
LinkOver ==
  /\ smartconfig /\ link = "up"
  /\ pc["callback"] = "linked"
  /\ ESPTOUCH_DONE_BIT' = TRUE
  /\ ReleaseWaiters
  /\ pc' = [pc EXCEPT !["callback"] = "idle",
                      !["task"] = IF @ = "wait" THEN "done" ELSE @]
  /\ UNCHANGED <<CONNECTED_BIT, driver, wifi_connection, drops, links>>

\* A call of SC_STATUS_LINK fails its ESP_ERROR_CHECK: the chip restarts and
\* keeps nothing but the flash.
LinkAborts ==
  /\ pc["callback"] \in {"config", "connect"}
  /\ CONNECTED_BIT' = FALSE /\ ESPTOUCH_DONE_BIT' = FALSE
  /\ link' = "down" /\ events' = <<"STA_START">>
  /\ smartconfig' = FALSE
  /\ pc' = BootPc
  /\ waiter' = [azure |-> "begin", rtc |-> "begin"] /\ wifi_connection' = FALSE
  /\ UNCHANGED <<configured, drops, links>>

Callback == LinkDisconnect \/ LinkConfig \/ LinkConnect \/ LinkOver
-----------------------------------------------------------------------------
(* smartconfig_example_task.                                               *)

TaskStart ==
  /\ Step("task", "start", "enter")
  /\ smartconfig' = TRUE
  /\ UNCHANGED <<bits, link, events, configured, waiters, drops, links>>

\* xEventGroupWaitBits
TaskWait ==
  /\ Step("task", "enter", IF CONNECTED_BIT THEN "connected"
                           ELSE IF ESPTOUCH_DONE_BIT THEN "done" ELSE "wait")
  /\ UNCHANGED <<bits, driver, waiters, drops, links>>

\* The task ends without stopping smartconfig.
TaskConnected ==
  /\ Step("task", "connected", "gone")
  /\ UNCHANGED <<bits, driver, waiters, drops, links>>

TaskDone ==
  /\ Step("task", "done", "gone")
  /\ smartconfig' = FALSE
  /\ UNCHANGED <<bits, link, events, configured, waiters, drops, links>>

\* Thirty seconds without either bit.
TaskTimeout ==
  /\ Step("task", "wait", "stop")
  /\ UNCHANGED <<bits, driver, waiters, drops, links>>

TaskStop ==
  /\ Step("task", "stop", "connect")
  /\ smartconfig' = FALSE
  /\ UNCHANGED <<bits, link, events, configured, waiters, drops, links>>

\* Fault: after the time-out nobody connects.
TaskConnectMissing ==
  /\ Step("task", "connect", "clear")
  /\ UNCHANGED <<bits, driver, waiters, drops, links>>

TaskConnect ==
  /\ Step("task", "connect", "clear")
  /\ esp_wifi_connect
  /\ UNCHANGED <<bits, events, configured, smartconfig, waiters, drops, links>>

TaskClear ==
  /\ Step("task", "clear", "gone")
  /\ CONNECTED_BIT' = FALSE
  /\ UNCHANGED <<ESPTOUCH_DONE_BIT, driver, waiters, drops, links>>

Task == \/ TaskStart \/ TaskWait \/ TaskConnected \/ TaskDone
        \/ TaskTimeout \/ TaskStop \/ TaskConnect \/ TaskClear
-----------------------------------------------------------------------------
\* azure_task or rtc_tie_test comes to xEventGroupWaitBits: for the first
\* time, or because the loop of azure_task goes round again.
WaitBits(w) ==
  /\ \/ waiter[w] = "begin"
     \/ w = "azure" /\ waiter[w] = "run"
  /\ waiter' = [waiter EXCEPT ![w] = IF AnyBit THEN "released" ELSE "wait"]
  /\ UNCHANGED <<bits, driver, pc, wifi_connection, drops, links>>

\* The task goes on; azure_task lights the blue LED.
GoOn(w) ==
  /\ waiter[w] = "released"
  /\ waiter' = [waiter EXCEPT ![w] = "run"]
  /\ wifi_connection' = (wifi_connection \/ w = "azure")
  /\ UNCHANGED <<bits, driver, pc, drops, links>>

\* The loop of azure_task has given up.
AzureEnds ==
  /\ waiter["azure"] = "run"
  /\ waiter' = [waiter EXCEPT !["azure"] = "done"]
  /\ wifi_connection' = FALSE
  /\ UNCHANGED <<bits, driver, pc, drops, links>>

Waiters == AzureEnds \/ \E w \in {"azure", "rtc"} : WaitBits(w) \/ GoOn(w)

Next == Driver \/ Handler \/ Callback \/ LinkAborts \/ Task \/ Waiters

\* FreeRTOS runs every task and the thirty seconds pass; a station that has
\* the credentials and tries again and again is let in; a phone need not come.
Fairness ==
  /\ SF_vars(GotIp) /\ WF_vars(Lost /\ link = "connecting")
  /\ WF_vars(Handler) /\ WF_vars(Task)
  /\ WF_vars(LinkConfig \/ LinkConnect)
  /\ \A w \in {"azure", "rtc"} : WF_vars(GoOn(w))

Spec == Init /\ [][Next]_vars /\ Fairness
-----------------------------------------------------------------------------
TypeOK ==
  /\ CONNECTED_BIT \in BOOLEAN /\ ESPTOUCH_DONE_BIT \in BOOLEAN
  /\ link \in {"down", "connecting", "up"}
  /\ events \in Seq({"STA_START", "STA_GOT_IP", "STA_DISCONNECTED"})
  /\ Len(events) <= MaxEvents
  /\ configured \in BOOLEAN /\ smartconfig \in BOOLEAN
  /\ pc \in [handler : {"idle", "clear"},
             callback : {"idle", "config", "connect", "linked"},
             task : {"none", "start", "enter", "wait", "connected", "done",
                     "stop", "connect", "clear", "gone"}]
  /\ waiter \in [{"azure", "rtc"} ->
                 {"begin", "wait", "released", "run", "done"}]
  /\ wifi_connection \in BOOLEAN
  /\ drops \in 0 .. MaxDrops /\ links \in 0 .. MaxLinks

Pending(event) == \E i \in DOMAIN events : events[i] = event

\* "are we connected to the AP with an IP?" (smartconfig.c:37-40): the bit is
\* never left behind by a connection that is gone, whatever the handler, the
\* callback and the task do to the driver: a loss is in the queue or being
\* handled (:55-57).
BitIsCurrent ==
  CONNECTED_BIT => \/ link = "up"
                   \/ Pending("STA_DISCONNECTED") \/ pc["handler"] = "clear"

\* Once smartconfig_example_task has ended, a station that is down tries
\* again: a loss is pending that makes the handler reconnect (:55-57), or the
\* callback is about to connect (:102-104).  No interleaving of the three users
\* of the driver leaves it idle.
StationPersists ==
  pc["task"] = "gone" /\ link = "down" =>
    Pending("STA_DISCONNECTED") \/ pc["callback"] \in {"config", "connect"}

\* The branch for the time-out is between the end of its wait and its clearing
\* of the bit.
InTimeout == pc["task"] \in {"stop", "connect", "clear"}

\* Whoever waits for the bits (wifi_azure.c:85, rtc_time.c:31,
\* iothub_client_sample_mqtt.c:181) goes on some time after the network's
\* credentials are there, unless the chip restarts once more, if no address
\* arrives inside the branch for the time-out, which would clear it (:143).
WaitersProceed ==
  [](InTimeout => ~Pending("STA_GOT_IP")) =>
    \A w \in {"azure", "rtc"} : configured ~> waiter[w] # "wait"

\* An address that was cleared so is not lost for good: once the task has
\* ended, the next time that the station is down brings everybody who waits back
\* (:53,55-57), whatever came in between.
WaitersRecover ==
  \A w \in {"azure", "rtc"} :
    configured /\ pc["task"] = "gone" /\ link # "up" ~> waiter[w] # "wait"
==============================================================================
