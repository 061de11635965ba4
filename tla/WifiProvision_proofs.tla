------------------------ MODULE WifiProvision_proofs -------------------------
(***************************************************************************)
(* Proofs about smartconfig.c for queues of every length and any number of *)
(* losses and phones: what the bits and the driver's state say of each     *)
(* other (IInv), and that nobody sleeps through a connection (WInv).       *)
(***************************************************************************)
EXTENDS WifiProvision, SequenceTheorems, TLAPS

Event == {"STA_START", "STA_GOT_IP", "STA_DISCONNECTED"}

\* An address that is announced has not been lost since, or its loss is queued
\* behind it.
GotIpCurrent ==
  \A i \in DOMAIN events : events[i] = "STA_GOT_IP" =>
    \/ link = "up"
    \/ \E j \in DOMAIN events : i < j /\ events[j] = "STA_DISCONNECTED"

\* A station that is down is about to be connected.
Persist ==
  link = "down" => \/ Pending("STA_DISCONNECTED")
                   \/ pc["callback"] \in {"config", "connect"}

\* From the first connection, or attempt, on.
Begun ==
  \/ pc["task"] \in {"connected", "done", "clear", "gone"}
  \/ pc["handler"] = "clear"
  \/ CONNECTED_BIT \/ ESPTOUCH_DONE_BIT

IInv == TypeOK /\ GotIpCurrent /\ BitIsCurrent /\ (Begun => Persist)
-----------------------------------------------------------------------------
(* The queue.                                                              *)

\* The first event leaves, the others stay in their order.
LEMMA Popped ==
  ASSUME TypeOK, NEW e, Received(e)
  PROVE  /\ events' \in Seq(Event) /\ Len(events') = Len(events) - 1
         /\ DOMAIN events' = 1 .. Len(events')
         /\ events[1] = e /\ Len(events) \in Nat \ {0}
         /\ \A i \in 1 .. Len(events') : events'[i] = events[i + 1]
BY HeadTailProperties, LenProperties DEF TypeOK, Received, Event

LEMMA PoppedPending ==
  ASSUME TypeOK, NEW e, Received(e), NEW d, d # e, Pending(d)
  PROVE  Pending(d)'
<1>1. PICK i \in DOMAIN events : events[i] = d
  BY DEF Pending
<1>2. events \in Seq(Event)
  BY DEF TypeOK, Event
<1>3. i \in 2 .. Len(events)
  BY <1>1, <1>2, Popped
<1>4. i - 1 \in DOMAIN events' /\ events'[i - 1] = d
  BY <1>1, <1>3, Popped
<1>5. QED BY <1>4 DEF Pending

LEMMA PoppedGotIp ==
  ASSUME TypeOK, NEW e, Received(e), GotIpCurrent, link = "up" => link' = "up"
  PROVE  GotIpCurrent'
<1> SUFFICES ASSUME NEW i \in DOMAIN events', events'[i] = "STA_GOT_IP",
                    link' # "up"
             PROVE  \E j \in DOMAIN events' :
                      i < j /\ events'[j] = "STA_DISCONNECTED"
    BY DEF GotIpCurrent
<1>1. events \in Seq(Event)
  BY DEF TypeOK, Event
<1>2. i \in 1 .. Len(events')
  BY Popped
<1>3. i + 1 \in DOMAIN events /\ events[i + 1] = "STA_GOT_IP"
  BY <1>1, <1>2, Popped
<1>4. PICK j \in DOMAIN events : i + 1 < j /\ events[j] = "STA_DISCONNECTED"
  BY <1>3 DEF GotIpCurrent
<1>5. j - 1 \in 1 .. Len(events') /\ i < j - 1
  BY <1>1, <1>2, <1>4, Popped
<1>6. events'[j - 1] = "STA_DISCONNECTED" /\ j - 1 \in DOMAIN events'
  BY <1>1, <1>4, <1>5, Popped
<1>7. QED BY <1>5, <1>6

\* A loss joins the queue behind everything else.
LEMMA PushedLoss ==
  ASSUME TypeOK, events' = Append(events, "STA_DISCONNECTED")
  PROVE  /\ events' \in Seq(Event) /\ Len(events') = Len(events) + 1
         /\ Pending("STA_DISCONNECTED")'
         /\ GotIpCurrent'
<1>1. /\ events \in Seq(Event) /\ Len(events) \in Nat
      /\ DOMAIN events' = 1 .. Len(events) + 1
      /\ events' \in Seq(Event) /\ Len(events') = Len(events) + 1
      /\ events'[Len(events) + 1] = "STA_DISCONNECTED"
  BY AppendProperties, LenProperties DEF TypeOK, Event
<1>2. Pending("STA_DISCONNECTED")'
  BY <1>1 DEF Pending
<1>3. GotIpCurrent'
  <2> SUFFICES ASSUME NEW i \in DOMAIN events', events'[i] = "STA_GOT_IP"
               PROVE  i < Len(events) + 1
      BY <1>1 DEF GotIpCurrent
  <2>1. i # Len(events) + 1
    BY <1>1
  <2>2. QED BY <1>1, <2>1
<1>4. QED BY <1>1, <1>2, <1>3

\* esp_wifi_disconnect keeps the queue truthful.
LEMMA Disconnected ==
  ASSUME TypeOK, GotIpCurrent, Len(events) < MaxEvents, esp_wifi_disconnect
  PROVE  /\ events' \in Seq(Event) /\ Len(events') <= MaxEvents
         /\ link' = "down"
         /\ GotIpCurrent'
         /\ Pending("STA_DISCONNECTED") => Pending("STA_DISCONNECTED")'
         /\ link = "up" => Pending("STA_DISCONNECTED")'
<1>1. CASE link = "down"
  BY <1>1, LenProperties, WifiAssumption
     DEF esp_wifi_disconnect, TypeOK, Event, GotIpCurrent, Pending
<1>2. CASE link # "down"
  BY <1>2, PushedLoss, LenProperties, WifiAssumption
     DEF esp_wifi_disconnect, TypeOK, Event
<1>3. QED BY <1>1, <1>2
-----------------------------------------------------------------------------
(* The steps.                                                              *)

\* A queue that holds the start of the station and nothing else.
LEMMA Started ==
  ASSUME NEW q, q = <<"STA_START">>
  PROVE  /\ q \in Seq(Event) /\ Len(q) <= MaxEvents
         /\ \A i \in DOMAIN q : q[i] = "STA_START"
BY WifiAssumption DEF Event

\* After a start or a restart.
LEMMA BootPcType ==
  /\ BootPc \in [handler : {"idle", "clear"},
                 callback : {"idle", "config", "connect", "linked"},
                 task : {"none", "start", "enter", "wait", "connected",
                         "done", "stop", "connect", "clear", "gone"}]
  /\ BootPc["handler"] = "idle" /\ BootPc["task"] = "none"
BY DEF BootPc

LEMMA InitIInv == Init => IInv
<1> SUFFICES ASSUME Init PROVE IInv
    OBVIOUS
<1>1. /\ events \in Seq(Event) /\ Len(events) <= MaxEvents
      /\ \A i \in DOMAIN events : events[i] = "STA_START"
  BY Started DEF Init
<1>2. TypeOK
  <2>1. /\ CONNECTED_BIT \in BOOLEAN /\ ESPTOUCH_DONE_BIT \in BOOLEAN
        /\ configured \in BOOLEAN /\ smartconfig \in BOOLEAN
        /\ wifi_connection \in BOOLEAN
    BY Zenon DEF Init
  <2>2. waiter \in [{"azure", "rtc"} ->
                    {"begin", "wait", "released", "run", "done"}]
    BY DEF Init
  <2>3. /\ link \in {"down", "connecting", "up"}
        /\ drops \in 0 .. MaxDrops /\ links \in 0 .. MaxLinks
    BY WifiAssumption DEF Init
  <2>4. pc = BootPc
    BY DEF Init
  <2>5. QED BY <1>1, <2>1, <2>2, <2>3, <2>4, BootPcType DEF TypeOK, Event
<1>3. GotIpCurrent /\ BitIsCurrent /\ ~Begun
  BY <1>1, BootPcType DEF Init, GotIpCurrent, BitIsCurrent, Begun
<1>4. QED BY <1>2, <1>3 DEF IInv

\* What a step leaves alone stays as it was.
LEMMA QueueKept ==
  ASSUME UNCHANGED <<events, link>>
  PROVE  /\ GotIpCurrent => GotIpCurrent'
         /\ Pending("STA_DISCONNECTED") => Pending("STA_DISCONNECTED")'
BY DEF GotIpCurrent, Pending

\* esp_wifi_connect takes no address away.
LEMMA Connected ==
  ASSUME TypeOK, esp_wifi_connect, UNCHANGED events
  PROVE  /\ link' \in {"connecting", "up"}
         /\ link = "up" => link' = "up"
         /\ GotIpCurrent => GotIpCurrent'
         /\ Pending("STA_DISCONNECTED") => Pending("STA_DISCONNECTED")'
BY DEF TypeOK, esp_wifi_connect, GotIpCurrent, Pending

LEMMA DriverStep ==
  ASSUME IInv, Driver
  PROVE  IInv'
<1>1. CASE GotIp
  <2>1. TypeOK'
    <3>1. /\ events' \in Seq(Event) /\ Len(events') = Len(events) + 1
          /\ Len(events) \in Nat
      BY <1>1, AppendProperties, LenProperties DEF IInv, TypeOK, GotIp, Event
    <3>2. QED BY <1>1, <3>1, WifiAssumption
                 DEF IInv, TypeOK, GotIp, Event, bits, waiters
  <2>2. link' = "up"
    BY <1>1 DEF GotIp
  <2>3. QED BY <2>1, <2>2 DEF IInv, GotIpCurrent, BitIsCurrent, Persist
<1>2. CASE Lost
  <2>1. /\ events' \in Seq(Event) /\ Len(events') = Len(events) + 1
        /\ Pending("STA_DISCONNECTED")' /\ GotIpCurrent'
        /\ Len(events) \in Nat
    BY <1>2, PushedLoss, LenProperties DEF IInv, TypeOK, Lost, Event
  <2>2. TypeOK'
    BY <1>2, <2>1, WifiAssumption
       DEF IInv, TypeOK, Lost, Event, bits, waiters
  <2>3. QED BY <2>1, <2>2 DEF IInv, BitIsCurrent, Persist
<1>3. QED BY <1>1, <1>2 DEF Driver

LEMMA HandlerStep ==
  ASSUME IInv, Handler
  PROVE  IInv'
<1> USE DEF Event
<1>0. TypeOK /\ GotIpCurrent /\ BitIsCurrent /\ (Begun => Persist)
  BY DEF IInv
<1>1. CASE HandleStart
  <2>1. /\ Received("STA_START") /\ link' = link
        /\ pc' = [pc EXCEPT !["task"] = "start"] /\ pc["task"] = "none"
        /\ UNCHANGED <<bits, configured, smartconfig, waiters, drops, links>>
    BY <1>1 DEF HandleStart, Step
  <2>2. GotIpCurrent'
    BY <1>0, <2>1, PoppedGotIp
  <2>3. Pending("STA_DISCONNECTED") => Pending("STA_DISCONNECTED")'
    BY <1>0, <2>1, PoppedPending
  <2>4. TypeOK'
    BY <1>0, <2>1, Popped, WifiAssumption DEF TypeOK, bits, waiters
  <2>5. BitIsCurrent'
    BY <1>0, <2>1, <2>3 DEF BitIsCurrent, bits, TypeOK
  <2>6. Begun' => Persist'
    BY <1>0, <2>1, <2>3 DEF Begun, Persist, bits, TypeOK
  <2>7. QED BY <2>2, <2>4, <2>5, <2>6 DEF IInv
<1>2. CASE HandleGotIp
  <2>1. /\ Received("STA_GOT_IP") /\ link' = link
        /\ CONNECTED_BIT' = TRUE
        /\ pc' = [pc EXCEPT !["task"] = IF @ = "wait" THEN "connected" ELSE @]
        /\ ReleaseWaiters
        /\ UNCHANGED <<ESPTOUCH_DONE_BIT, configured, smartconfig,
                       wifi_connection, drops, links>>
    BY <1>2 DEF HandleGotIp
  <2>2. GotIpCurrent'
    BY <1>0, <2>1, PoppedGotIp
  <2>3. link = "up" \/ Pending("STA_DISCONNECTED")
    <3>1. 1 \in DOMAIN events /\ events[1] = "STA_GOT_IP"
      BY <1>0, <2>1, Popped DEF TypeOK
    <3>2. QED BY <1>0, <3>1 DEF GotIpCurrent, Pending
  <2>4. link' = "up" \/ Pending("STA_DISCONNECTED")'
    BY <1>0, <2>1, <2>3, PoppedPending
  <2>5. TypeOK'
    <3>1. waiter' \in [{"azure", "rtc"} ->
                       {"begin", "wait", "released", "run", "done"}]
      BY <1>0, <2>1 DEF TypeOK, ReleaseWaiters
    <3>2. pc' \in [handler : {"idle", "clear"},
                   callback : {"idle", "config", "connect", "linked"},
                   task : {"none", "start", "enter", "wait", "connected",
                           "done", "stop", "connect", "clear", "gone"}]
      BY <1>0, <2>1 DEF TypeOK
    <3>3. events' \in Seq(Event) /\ Len(events') <= MaxEvents
      BY <1>0, <2>1, Popped, WifiAssumption DEF TypeOK
    <3>4. /\ CONNECTED_BIT' \in BOOLEAN /\ ESPTOUCH_DONE_BIT' \in BOOLEAN
          /\ link' \in {"down", "connecting", "up"}
          /\ configured' \in BOOLEAN /\ smartconfig' \in BOOLEAN
      BY <1>0, <2>1 DEF TypeOK
    <3>5. /\ wifi_connection' \in BOOLEAN
          /\ drops' \in 0 .. MaxDrops /\ links' \in 0 .. MaxLinks
      BY <1>0, <2>1 DEF TypeOK
    <3>6. QED BY <3>1, <3>2, <3>3, <3>4, <3>5, Zenon DEF TypeOK, Event
  <2>6. BitIsCurrent' /\ Persist'
    BY <2>4 DEF BitIsCurrent, Persist
  <2>7. QED BY <2>2, <2>5, <2>6 DEF IInv
<1>3. CASE HandleDisconnected
  <2>1. /\ Received("STA_DISCONNECTED") /\ esp_wifi_connect
        /\ pc' = [pc EXCEPT !["handler"] = "clear"]
        /\ UNCHANGED <<bits, configured, smartconfig, waiters, drops, links>>
    BY <1>3 DEF HandleDisconnected, Step
  <2>2. link' \in {"connecting", "up"} /\ (link = "up" => link' = "up")
    BY <1>0, <2>1 DEF esp_wifi_connect, TypeOK
  <2>3. GotIpCurrent'
    BY <1>0, <2>1, <2>2, PoppedGotIp
  <2>4. TypeOK'
    <3>1. events' \in Seq(Event) /\ Len(events') <= MaxEvents
      BY <1>0, <2>1, Popped, WifiAssumption DEF TypeOK
    <3>2. pc' \in [handler : {"idle", "clear"},
                   callback : {"idle", "config", "connect", "linked"},
                   task : {"none", "start", "enter", "wait", "connected",
                           "done", "stop", "connect", "clear", "gone"}]
      BY <1>0, <2>1 DEF TypeOK
    <3>3. /\ CONNECTED_BIT' \in BOOLEAN /\ ESPTOUCH_DONE_BIT' \in BOOLEAN
          /\ configured' \in BOOLEAN /\ smartconfig' \in BOOLEAN
      BY <1>0, <2>1 DEF TypeOK, bits
    <3>4. /\ waiter' \in [{"azure", "rtc"} ->
                         {"begin", "wait", "released", "run", "done"}]
          /\ wifi_connection' \in BOOLEAN
          /\ drops' \in 0 .. MaxDrops /\ links' \in 0 .. MaxLinks
      BY <1>0, <2>1 DEF TypeOK, waiters
    <3>5. link' \in {"down", "connecting", "up"}
      BY <2>2
    <3>6. QED BY <3>1, <3>2, <3>3, <3>4, <3>5, Zenon DEF TypeOK, Event
  <2>5. pc'["handler"] = "clear"
    BY <1>0, <2>1 DEF TypeOK
  <2>6. QED BY <2>2, <2>3, <2>4, <2>5 DEF IInv, BitIsCurrent, Persist
<1>4. CASE HandlerClear
  <2>1. /\ pc["handler"] = "clear" /\ pc' = [pc EXCEPT !["handler"] = "idle"]
        /\ CONNECTED_BIT' = FALSE
        /\ UNCHANGED <<ESPTOUCH_DONE_BIT, driver, waiters, drops, links>>
    BY <1>4 DEF HandlerClear, Step
  <2>2. UNCHANGED <<link, events>>
    BY <2>1 DEF driver
  <2>3. GotIpCurrent'
    BY <1>0, <2>2, QueueKept
  <2>4. Persist /\ pc'["callback"] = pc["callback"]
    BY <1>0, <2>1 DEF Begun, TypeOK
  <2>5. Persist'
    BY <2>2, <2>4 DEF Persist, Pending
  <2>6. TypeOK'
    BY <1>0, <2>1 DEF TypeOK, driver, waiters
  <2>7. QED BY <2>1, <2>3, <2>5, <2>6 DEF IInv, BitIsCurrent
<1>5. QED BY <1>1, <1>2, <1>3, <1>4 DEF Handler

\* The types of what most steps leave alone.
LEMMA TypeKept ==
  ASSUME TypeOK,
         CONNECTED_BIT' \in BOOLEAN, ESPTOUCH_DONE_BIT' \in BOOLEAN,
         link' \in {"down", "connecting", "up"},
         events' \in Seq(Event), Len(events') <= MaxEvents,
         configured' \in BOOLEAN, smartconfig' \in BOOLEAN,
         pc' \in [handler : {"idle", "clear"},
                 callback : {"idle", "config", "connect", "linked"},
                 task : {"none", "start", "enter", "wait", "connected",
                         "done", "stop", "connect", "clear", "gone"}],
         UNCHANGED <<waiters, drops>>, links' \in 0 .. MaxLinks
  PROVE  TypeOK'
BY DEF TypeOK, Event, waiters

LEMMA CallbackStep ==
  ASSUME IInv, Callback
  PROVE  IInv'
<1>0. TypeOK /\ GotIpCurrent /\ BitIsCurrent /\ (Begun => Persist)
  BY DEF IInv
<1>1. CASE LinkDisconnect
  <2>1. /\ Len(events) < MaxEvents /\ esp_wifi_disconnect
        /\ pc' = [pc EXCEPT !["callback"] = "config"]
        /\ links < MaxLinks /\ links' = links + 1
        /\ UNCHANGED <<bits, configured, smartconfig, waiters, drops>>
    BY <1>1 DEF LinkDisconnect, Step
  <2>2. /\ events' \in Seq(Event) /\ Len(events') <= MaxEvents
        /\ link' = "down" /\ GotIpCurrent'
        /\ Pending("STA_DISCONNECTED") => Pending("STA_DISCONNECTED")'
        /\ link = "up" => Pending("STA_DISCONNECTED")'
    BY <1>0, <2>1, Disconnected
  <2>3. TypeOK'
    <3>1. links' \in 0 .. MaxLinks
      BY <1>0, <2>1, WifiAssumption DEF TypeOK
    <3>2. pc' \in [handler : {"idle", "clear"},
                   callback : {"idle", "config", "connect", "linked"},
                   task : {"none", "start", "enter", "wait", "connected",
                           "done", "stop", "connect", "clear", "gone"}]
      BY <1>0, <2>1 DEF TypeOK
    <3>3. QED BY <1>0, <2>1, <2>2, <3>1, <3>2, TypeKept DEF TypeOK, bits, Event
  <2>4. BitIsCurrent'
    BY <1>0, <2>1, <2>2 DEF BitIsCurrent, bits, TypeOK
  <2>5. Persist'
    BY <1>0, <2>1 DEF Persist, TypeOK
  <2>6. QED BY <2>2, <2>3, <2>4, <2>5 DEF IInv
<1>2. CASE LinkConfig
  <2>1. /\ pc' = [pc EXCEPT !["callback"] = "connect"]
        /\ configured' = TRUE
        /\ UNCHANGED <<bits, link, events, smartconfig, waiters, drops, links>>
    BY <1>2 DEF LinkConfig, Step
  <2>2. TypeOK'
    BY <1>0, <2>1, TypeKept DEF TypeOK, bits, Event
  <2>3. GotIpCurrent'
    BY <1>0, <2>1, QueueKept
  <2>4. BitIsCurrent'
    BY <1>0, <2>1 DEF BitIsCurrent, Pending, bits, TypeOK
  <2>5. Persist'
    BY <1>0, <2>1 DEF Persist, TypeOK
  <2>6. QED BY <2>2, <2>3, <2>4, <2>5 DEF IInv
<1>3. CASE LinkConnect
  <2>1. /\ pc' = [pc EXCEPT !["callback"] = "linked"]
        /\ esp_wifi_connect
        /\ UNCHANGED <<bits, events, configured, smartconfig, waiters, drops,
                       links>>
    BY <1>3 DEF LinkConnect, Step
  <2>2. /\ link' \in {"connecting", "up"} /\ (link = "up" => link' = "up")
        /\ GotIpCurrent'
        /\ Pending("STA_DISCONNECTED") => Pending("STA_DISCONNECTED")'
    BY <1>0, <2>1, Connected
  <2>3. TypeOK'
    BY <1>0, <2>1, <2>2, TypeKept DEF TypeOK, bits, Event
  <2>4. BitIsCurrent'
    BY <1>0, <2>1, <2>2 DEF BitIsCurrent, bits, TypeOK
  <2>5. QED BY <2>2, <2>3, <2>4 DEF IInv, Persist
<1>4. CASE LinkOver
  <2>1. /\ link = "up" /\ ESPTOUCH_DONE_BIT' = TRUE /\ ReleaseWaiters
        /\ pc' = [pc EXCEPT !["callback"] = "idle",
                            !["task"] = IF @ = "wait" THEN "done" ELSE @]
        /\ UNCHANGED <<CONNECTED_BIT, link, events, configured, smartconfig,
                       wifi_connection, drops, links>>
    BY <1>4 DEF LinkOver, driver
  <2>2. waiter' \in [{"azure", "rtc"} ->
                     {"begin", "wait", "released", "run", "done"}]
    BY <1>0, <2>1 DEF TypeOK, ReleaseWaiters
  <2>3. pc' \in [handler : {"idle", "clear"},
                 callback : {"idle", "config", "connect", "linked"},
                 task : {"none", "start", "enter", "wait", "connected",
                         "done", "stop", "connect", "clear", "gone"}]
    BY <1>0, <2>1 DEF TypeOK
  <2>4. TypeOK'
    BY <1>0, <2>1, <2>2, <2>3 DEF TypeOK
  <2>5. GotIpCurrent'
    BY <1>0, <2>1, QueueKept
  <2>6. QED BY <2>1, <2>4, <2>5 DEF IInv, BitIsCurrent, Persist
<1>5. QED BY <1>1, <1>2, <1>3, <1>4 DEF Callback

\* A restart is a new beginning.
LEMMA AbortStep ==
  ASSUME IInv, LinkAborts
  PROVE  IInv'
<1>1. /\ events' \in Seq(Event) /\ Len(events') <= MaxEvents
      /\ \A i \in DOMAIN events' : events'[i] = "STA_START"
  BY Started DEF LinkAborts
<1>2. TypeOK'
  <2>1. waiter' \in [{"azure", "rtc"} ->
                     {"begin", "wait", "released", "run", "done"}]
    BY DEF LinkAborts
  <2>2. /\ CONNECTED_BIT' \in BOOLEAN /\ ESPTOUCH_DONE_BIT' \in BOOLEAN
        /\ smartconfig' \in BOOLEAN /\ wifi_connection' \in BOOLEAN
    BY Zenon DEF LinkAborts
  <2>3. /\ link' \in {"down", "connecting", "up"}
        /\ configured' \in BOOLEAN
        /\ drops' \in 0 .. MaxDrops /\ links' \in 0 .. MaxLinks
    BY DEF IInv, TypeOK, LinkAborts
  <2>4. pc' = BootPc
    BY DEF LinkAborts
  <2>5. pc' \in [handler : {"idle", "clear"},
                 callback : {"idle", "config", "connect", "linked"},
                 task : {"none", "start", "enter", "wait", "connected",
                         "done", "stop", "connect", "clear", "gone"}]
    BY <2>4, BootPcType
  <2>6. QED BY <1>1, <2>1, <2>2, <2>3, <2>5 DEF TypeOK, Event
<1>3. (GotIpCurrent /\ BitIsCurrent /\ ~Begun)'
  BY <1>1, BootPcType DEF LinkAborts, GotIpCurrent, BitIsCurrent, Begun
<1>4. QED BY <1>2, <1>3 DEF IInv

LEMMA TaskStep ==
  ASSUME IInv, Task
  PROVE  IInv'
<1>0. TypeOK /\ GotIpCurrent /\ BitIsCurrent /\ (Begun => Persist)
  BY DEF IInv
\* Most steps only move the task, perhaps switch smartconfig.
<1>1. ASSUME NEW to \in {"enter", "wait", "connected", "done", "stop",
                         "connect", "gone"},
             pc' = [pc EXCEPT !["task"] = to],
             smartconfig' \in BOOLEAN,
             UNCHANGED <<bits, link, events, configured, waiters, drops, links>>,
             to \in {"connected", "done", "gone"} => Begun
      PROVE  IInv'
  <2>1. TypeOK'
    BY <1>0, <1>1, TypeKept DEF TypeOK, bits, Event
  <2>2. GotIpCurrent'
    BY <1>0, <1>1, QueueKept
  <2>3. /\ pc'["task"] = to /\ pc'["handler"] = pc["handler"]
        /\ pc'["callback"] = pc["callback"]
    BY <1>0, <1>1 DEF TypeOK
  <2>4. BitIsCurrent'
    BY <1>0, <1>1, <2>3 DEF BitIsCurrent, Pending, bits
  <2>5. Begun' => Begun
    BY <1>1, <2>3 DEF Begun, bits
  <2>6. Persist => Persist'
    BY <1>1, <2>3 DEF Persist, Pending
  <2>7. QED BY <1>0, <2>1, <2>2, <2>4, <2>5, <2>6 DEF IInv
<1>2. CASE TaskStart
  BY <1>1, <1>2 DEF TaskStart, Step
<1>3. CASE TaskWait
  <2>1. CASE CONNECTED_BIT
    BY <1>0, <1>1, <1>3, <2>1 DEF TaskWait, Step, driver, Begun, TypeOK
  <2>2. CASE ~CONNECTED_BIT /\ ESPTOUCH_DONE_BIT
    BY <1>0, <1>1, <1>3, <2>2 DEF TaskWait, Step, driver, Begun, TypeOK
  <2>3. CASE ~CONNECTED_BIT /\ ~ESPTOUCH_DONE_BIT
    BY <1>0, <1>1, <1>3, <2>3 DEF TaskWait, Step, driver, TypeOK
  <2>4. QED BY <2>1, <2>2, <2>3
<1>4. CASE TaskConnected
  BY <1>0, <1>1, <1>4 DEF TaskConnected, Step, driver, Begun, TypeOK
<1>5. CASE TaskDone
  BY <1>1, <1>5 DEF TaskDone, Step, Begun
<1>6. CASE TaskTimeout
  BY <1>0, <1>1, <1>6 DEF TaskTimeout, Step, driver, TypeOK
<1>7. CASE TaskStop
  BY <1>1, <1>7 DEF TaskStop, Step
<1>8. CASE TaskConnect
  <2>1. /\ pc' = [pc EXCEPT !["task"] = "clear"] /\ esp_wifi_connect
        /\ UNCHANGED <<bits, events, configured, smartconfig, waiters, drops,
                       links>>
    BY <1>8 DEF TaskConnect, Step
  <2>2. /\ link' \in {"connecting", "up"} /\ (link = "up" => link' = "up")
        /\ GotIpCurrent'
        /\ Pending("STA_DISCONNECTED") => Pending("STA_DISCONNECTED")'
    BY <1>0, <2>1, Connected
  <2>3. TypeOK'
    BY <1>0, <2>1, <2>2, TypeKept DEF TypeOK, bits, Event
  <2>4. BitIsCurrent'
    BY <1>0, <2>1, <2>2 DEF BitIsCurrent, bits, TypeOK
  <2>5. QED BY <2>2, <2>3, <2>4 DEF IInv, Persist
<1>9. CASE TaskClear
  <2>1. /\ pc["task"] = "clear" /\ pc' = [pc EXCEPT !["task"] = "gone"]
        /\ CONNECTED_BIT' = FALSE
        /\ UNCHANGED <<ESPTOUCH_DONE_BIT, link, events, configured,
                       smartconfig, waiters, drops, links>>
    BY <1>9 DEF TaskClear, Step, driver
  <2>2. TypeOK'
    BY <1>0, <2>1, TypeKept DEF TypeOK, Event
  <2>3. GotIpCurrent'
    BY <1>0, <2>1, QueueKept
  <2>4. Persist /\ pc'["callback"] = pc["callback"]
    BY <1>0, <2>1 DEF Begun, TypeOK
  <2>5. Persist'
    BY <2>1, <2>4 DEF Persist, Pending
  <2>6. QED BY <2>1, <2>2, <2>3, <2>5 DEF IInv, BitIsCurrent
<1>10. QED BY <1>2, <1>3, <1>4, <1>5, <1>6, <1>7, <1>8, <1>9 DEF Task

LEMMA WaitersStep ==
  ASSUME IInv, Waiters
  PROVE  IInv'
<1>0. TypeOK /\ GotIpCurrent /\ BitIsCurrent /\ (Begun => Persist)
  BY DEF IInv
<1>1. UNCHANGED <<bits, driver, pc, drops, links>>
  BY DEF Waiters, AzureEnds, WaitBits, GoOn
<1>2. waiter' \in [{"azure", "rtc"} ->
                   {"begin", "wait", "released", "run", "done"}]
  BY <1>0 DEF Waiters, AzureEnds, WaitBits, GoOn, TypeOK
<1>3. wifi_connection' \in BOOLEAN
  BY <1>0 DEF Waiters, AzureEnds, WaitBits, GoOn, TypeOK
<1>4. TypeOK'
  BY <1>0, <1>1, <1>2, <1>3 DEF TypeOK, bits, driver
<1>5. (GotIpCurrent /\ BitIsCurrent /\ (Begun => Persist))'
  BY <1>0, <1>1
     DEF GotIpCurrent, BitIsCurrent, Begun, Persist, Pending, bits, driver
<1>6. QED BY <1>4, <1>5 DEF IInv

LEMMA StepIInv == IInv /\ [Next]_vars => IInv'
<1> SUFFICES ASSUME IInv, [Next]_vars
             PROVE  IInv'
    OBVIOUS
<1>1. CASE Next
  BY <1>1, DriverStep, HandlerStep, CallbackStep, AbortStep, TaskStep,
     WaitersStep DEF Next
<1>2. CASE UNCHANGED vars
  BY <1>2 DEF vars, bits, driver, waiters, IInv, TypeOK, GotIpCurrent,
              BitIsCurrent, Begun, Persist, Pending
<1>3. QED BY <1>1, <1>2
-----------------------------------------------------------------------------
\* The queue, the bits and the points of the code keep their types.
THEOREM TypeCorrect == Spec => []TypeOK
<1>1. IInv => TypeOK
  BY DEF IInv
<1>2. QED BY InitIInv, StepIInv, <1>1, PTL DEF Spec

\* "are we connected to the AP with an IP?" (smartconfig.c:37-40): for any
\* number of losses, phones and restarts the bit is set only for a connection
\* that is up or whose loss is being told.
THEOREM BitCorrect == Spec => []BitIsCurrent
<1>1. IInv => BitIsCurrent
  BY DEF IInv
<1>2. QED BY InitIInv, StepIInv, <1>1, PTL DEF Spec

\* The driver is never left idle once smartconfig_example_task has ended
\* (smartconfig.c:55-57,102-104,142).
THEOREM PersistenceCorrect == Spec => []StationPersists
<1>1. IInv => StationPersists
  BY DEF IInv, Begun, Persist, StationPersists
<1>2. QED BY InitIInv, StepIInv, <1>1, PTL DEF Spec
-----------------------------------------------------------------------------
(* Nobody sleeps through a connection.                                     *)

\* No address waits in the queue inside the branch for the time-out: the premise
\* of WaitersProceed.
Unspoiled == InTimeout => ~Pending("STA_GOT_IP")

\* The newest news in the queue is an address.
Announced ==
  \E i \in DOMAIN events :
    /\ events[i] = "STA_GOT_IP"
    /\ \A j \in DOMAIN events : i < j => events[j] # "STA_DISCONNECTED"

\* The connection has been told, and no loss of an earlier one is left that would
\* clear the bit.
Told == CONNECTED_BIT /\ pc["handler"] = "idle" /\ ~Pending("STA_DISCONNECTED")

\* Nobody waits while a bit is set.
Asleep ==
  /\ pc["task"] = "wait" \/ InTimeout => ~CONNECTED_BIT
  /\ \A w \in {"azure", "rtc"} : waiter[w] = "wait" => ~AnyBit

WInv == (link = "up" => Announced \/ Told) /\ Asleep

\* Whoever waits although the station is up will be woken by an event that is in
\* the queue.
NobodyOverslept ==
  \A w \in {"azure", "rtc"} :
    waiter[w] = "wait" /\ link = "up" => Pending("STA_GOT_IP")

\* What leaves the queue is older than what stays.
LEMMA PoppedAnnounced ==
  ASSUME TypeOK, NEW e, Received(e), NEW i \in DOMAIN events, i # 1,
         events[i] = "STA_GOT_IP",
         \A j \in DOMAIN events : i < j => events[j] # "STA_DISCONNECTED"
  PROVE  Announced'
<1>1. events \in Seq(Event)
  BY DEF TypeOK, Event
<1>2. /\ Len(events') = Len(events) - 1 /\ Len(events) \in Nat \ {0}
      /\ DOMAIN events' = 1 .. Len(events') /\ DOMAIN events = 1 .. Len(events)
      /\ \A k \in 1 .. Len(events') : events'[k] = events[k + 1]
  BY <1>1, Popped
<1>3. i \in 2 .. Len(events) /\ i - 1 \in DOMAIN events' /\ (i - 1) + 1 = i
  BY <1>2
<1>4. events'[i - 1] = "STA_GOT_IP"
  BY <1>2, <1>3
<1>5. ASSUME NEW j \in DOMAIN events', i - 1 < j
      PROVE  events'[j] # "STA_DISCONNECTED"
  <2>1. j \in 1 .. Len(events') /\ j + 1 \in DOMAIN events /\ i < j + 1
    BY <1>2, <1>3, <1>5
  <2>2. events'[j] = events[j + 1]
    BY <1>2, <2>1
  <2>3. QED BY <2>1, <2>2
<1>6. QED BY <1>3, <1>4, <1>5 DEF Announced

\* Nothing appears in a queue that loses its first event.
LEMMA PoppedNone ==
  ASSUME TypeOK, NEW e, Received(e), NEW d,
         \A j \in DOMAIN events : 1 < j => events[j] # d
  PROVE  ~Pending(d)'
<1> SUFFICES ASSUME NEW j \in DOMAIN events', events'[j] = d
             PROVE  FALSE
    BY DEF Pending
<1>1. events \in Seq(Event)
  BY DEF TypeOK, Event
<1>2. j \in 1 .. Len(events') /\ j + 1 \in DOMAIN events /\ 1 < j + 1
  BY <1>1, Popped
<1>3. events'[j] = events[j + 1]
  BY <1>2, Popped
<1>4. QED BY <1>2, <1>3

\* What leaves queue and bit alone, and does not bring the station up.
LEMMA ToldKept ==
  ASSUME link = "up" => Announced \/ Told,
         UNCHANGED events, link' = "up" => link = "up",
         CONNECTED_BIT => CONNECTED_BIT', UNCHANGED pc["handler"]
  PROVE  (link = "up" => Announced \/ Told)'
BY DEF Announced, Told, Pending

\* An address is announced before it is told, and told before the next news.
LEMMA ToldStep ==
  ASSUME IInv, WInv, Unspoiled, [Next]_vars
  PROVE  (link = "up" => Announced \/ Told)'
<1>0. TypeOK /\ (link = "up" => Announced \/ Told) /\ events \in Seq(Event)
  BY DEF IInv, WInv, TypeOK, Event
<1>1. CASE GotIp
  <2>1. /\ DOMAIN events' = 1 .. Len(events) + 1 /\ Len(events) \in Nat
        /\ events'[Len(events) + 1] = "STA_GOT_IP"
    BY <1>0, <1>1, AppendProperties, LenProperties DEF GotIp, Event
  <2>2. /\ Len(events) + 1 \in DOMAIN events'
        /\ \A j \in DOMAIN events' : ~(Len(events) + 1 < j)
    BY <2>1
  <2>3. Announced'
    BY <2>1, <2>2 DEF Announced
  <2>4. QED BY <2>3
<1>2. CASE Lost \/ LinkDisconnect \/ LinkAborts
  BY <1>2 DEF Lost, LinkDisconnect, LinkAborts, esp_wifi_disconnect
<1>3. CASE HandleStart
  <2>1. /\ Received("STA_START") /\ link' = link
        /\ UNCHANGED <<CONNECTED_BIT, pc["handler"]>>
    BY <1>0, <1>3 DEF HandleStart, Step, TypeOK, bits
  <2>2. events[1] = "STA_START"
    BY <1>0, <2>1, Popped
  <2>3. Announced => Announced'
    BY <1>0, <2>1, <2>2, PoppedAnnounced DEF Announced
  <2>4. ~Pending("STA_DISCONNECTED") => ~Pending("STA_DISCONNECTED")'
    BY <1>0, <2>1, PoppedNone DEF Pending
  <2>5. QED BY <1>0, <2>1, <2>3, <2>4 DEF Told
<1>4. CASE HandleGotIp
  <2>1. /\ Received("STA_GOT_IP") /\ link' = link
        /\ CONNECTED_BIT' = TRUE /\ pc'["handler"] = "idle"
    BY <1>0, <1>4 DEF HandleGotIp, TypeOK
  <2> SUFFICES ASSUME link = "up"
               PROVE  Announced' \/ ~Pending("STA_DISCONNECTED")'
      BY <2>1 DEF Told
  <2>2. CASE Told
    BY <1>0, <2>1, <2>2, PoppedNone DEF Told, Pending
  <2>3. CASE Announced
    <3>1. PICK i \in DOMAIN events :
            /\ events[i] = "STA_GOT_IP"
            /\ \A j \in DOMAIN events : i < j => events[j] # "STA_DISCONNECTED"
      BY <2>3 DEF Announced
    <3>2. CASE i = 1
      BY <1>0, <2>1, <3>1, <3>2, PoppedNone
    <3>3. CASE i # 1
      BY <1>0, <2>1, <3>1, <3>3, PoppedAnnounced
    <3>4. QED BY <3>2, <3>3
  <2>4. QED BY <1>0, <2>2, <2>3
<1>5. CASE HandleDisconnected
  <2>1. Received("STA_DISCONNECTED") /\ (link' = "up" => link = "up")
    BY <1>5 DEF HandleDisconnected, esp_wifi_connect
  <2>2. 1 \in DOMAIN events /\ events[1] = "STA_DISCONNECTED"
    BY <1>0, <2>1, Popped
  <2>3. link = "up" => Announced
    BY <1>0, <2>2 DEF Told, Pending
  <2>4. Announced => Announced'
    BY <1>0, <2>1, <2>2, PoppedAnnounced DEF Announced
  <2>5. QED BY <2>1, <2>3, <2>4
<1>6. CASE HandlerClear
  <2>1. pc["handler"] = "clear" /\ UNCHANGED <<events, link>>
    BY <1>6 DEF HandlerClear, Step, driver
  <2>2. QED BY <1>0, <2>1 DEF Told, Announced
<1>7. CASE TaskClear
  <2>1. InTimeout /\ UNCHANGED link
    BY <1>7 DEF TaskClear, Step, InTimeout, driver
  <2>2. ~Announced /\ ~Told
    BY <2>1 DEF Unspoiled, Announced, Pending, WInv, Asleep, Told
  <2>3. QED BY <1>0, <2>1, <2>2
<1>8. CASE LinkConfig \/ LinkConnect
  <2>1. /\ UNCHANGED <<events, CONNECTED_BIT, pc["handler"]>>
        /\ link' = "up" => link = "up"
    BY <1>0, <1>8
    DEF LinkConfig, LinkConnect, Step, TypeOK, bits, esp_wifi_connect
  <2>2. QED BY <1>0, <2>1, ToldKept
<1>9. CASE LinkOver
  <2>1. UNCHANGED <<events, link, CONNECTED_BIT, pc["handler"]>>
    BY <1>0, <1>9 DEF LinkOver, TypeOK, driver
  <2>2. QED BY <1>0, <2>1, ToldKept
<1>10. CASE Task /\ ~TaskClear
  <2>1. /\ UNCHANGED <<events, CONNECTED_BIT, pc["handler"]>>
        /\ link' = "up" => link = "up"
    BY <1>0, <1>10
    DEF Task, TaskStart, TaskWait, TaskConnected, TaskDone, TaskTimeout,
        TaskStop, TaskConnect, Step, TypeOK, bits, driver, esp_wifi_connect
  <2>2. QED BY <1>0, <2>1, ToldKept
<1>11. CASE Waiters \/ UNCHANGED vars
  <2>1. UNCHANGED <<events, link, CONNECTED_BIT, pc["handler"]>>
    BY <1>11
    DEF Waiters, AzureEnds, WaitBits, GoOn, vars, bits, driver
  <2>2. QED BY <1>0, <2>1, ToldKept
<1>12. QED
  BY <1>1, <1>2, <1>3, <1>4, <1>5, <1>6, <1>7, <1>8, <1>9, <1>10, <1>11
  DEF Next, Driver, Handler, Callback

\* A bit that is set wakes everybody, and who comes to a set bit does not wait.
LEMMA AsleepStep ==
  ASSUME IInv, WInv, Unspoiled, [Next]_vars
  PROVE  Asleep'
<1>0. TypeOK /\ Asleep
  BY DEF IInv, WInv
<1>1. CASE Lost \/ GotIp \/ LinkDisconnect \/ LinkConfig \/ LinkConnect
           \/ HandleStart \/ HandleDisconnected \/ UNCHANGED vars
  <2>1. /\ UNCHANGED <<CONNECTED_BIT, ESPTOUCH_DONE_BIT, waiter>>
        /\ pc'["task"] \in {pc["task"], "start"}
    BY <1>0, <1>1
    DEF Lost, GotIp, LinkDisconnect, LinkConfig, LinkConnect, HandleStart,
        HandleDisconnected, Step, TypeOK, vars, bits, waiters
  <2>2. QED BY <1>0, <2>1 DEF Asleep, AnyBit, InTimeout
<1>2. CASE HandleGotIp
  <2>1. ~InTimeout
    <3>1. 1 \in DOMAIN events /\ events[1] = "STA_GOT_IP"
      BY <1>0, <1>2, Popped DEF HandleGotIp, TypeOK
    <3>2. QED BY <3>1 DEF Unspoiled, Pending
  <2>2. pc'["task"] = IF pc["task"] = "wait" THEN "connected" ELSE pc["task"]
    BY <1>0, <1>2 DEF HandleGotIp, TypeOK
  <2>3. \A w \in {"azure", "rtc"} : waiter'[w] # "wait"
    BY <1>0, <1>2 DEF HandleGotIp, ReleaseWaiters, TypeOK
  <2>4. QED BY <2>1, <2>2, <2>3 DEF Asleep, InTimeout
<1>3. CASE LinkOver
  <2>1. /\ UNCHANGED CONNECTED_BIT
        /\ pc'["task"] = IF pc["task"] = "wait" THEN "done" ELSE pc["task"]
    BY <1>0, <1>3 DEF LinkOver, TypeOK
  <2>2. \A w \in {"azure", "rtc"} : waiter'[w] # "wait"
    BY <1>0, <1>3 DEF LinkOver, ReleaseWaiters, TypeOK
  <2>3. QED BY <1>0, <2>1, <2>2 DEF Asleep, InTimeout
<1>4. CASE HandlerClear \/ TaskClear
  BY <1>0, <1>4
  DEF HandlerClear, TaskClear, Step, Asleep, AnyBit, waiters, TypeOK
<1>5. CASE LinkAborts
  <2>1. CONNECTED_BIT' = FALSE /\ ESPTOUCH_DONE_BIT' = FALSE
    BY <1>5 DEF LinkAborts
  <2>2. QED BY <2>1 DEF Asleep, AnyBit
<1>6. CASE Task /\ ~TaskClear
  <2>1. UNCHANGED <<CONNECTED_BIT, ESPTOUCH_DONE_BIT, waiter>>
    BY <1>6
    DEF Task, TaskStart, TaskWait, TaskConnected, TaskDone, TaskTimeout,
        TaskStop, TaskConnect, bits, waiters
  <2>2. \/ ~CONNECTED_BIT
        \/ ~(pc'["task"] = "wait" \/ pc'["task"] \in {"stop", "connect", "clear"})
    BY <1>0, <1>6
    DEF Task, TaskStart, TaskWait, TaskConnected, TaskDone, TaskTimeout,
        TaskStop, TaskConnect, Step, TypeOK, Asleep, InTimeout
  <2>3. QED BY <1>0, <2>1, <2>2 DEF Asleep, AnyBit, InTimeout
<1>7. CASE Waiters
  <2>1. UNCHANGED <<CONNECTED_BIT, ESPTOUCH_DONE_BIT, pc>>
    BY <1>7 DEF Waiters, AzureEnds, WaitBits, GoOn, bits
  <2>2. \A w \in {"azure", "rtc"} : waiter'[w] = "wait" => waiter[w] = "wait" \/ ~AnyBit
    BY <1>0, <1>7 DEF Waiters, AzureEnds, WaitBits, GoOn, TypeOK
  <2>3. QED BY <1>0, <2>1, <2>2 DEF Asleep, AnyBit, InTimeout
<1>8. QED
  BY <1>1, <1>2, <1>3, <1>4, <1>5, <1>6, <1>7
  DEF Next, Driver, Handler, Callback

\* What WaitersProceed rests on beside fairness: while no address arrives inside
\* the branch for the time-out, whose clearing of the bit (smartconfig.c:143)
\* would undo it, azure_task and rtc_tie_test wait on a connected station only as
\* long as the address that wakes them is in the handler's queue (:53), whatever
\* losses, phones and restarts came before.
THEOREM NobodyOversleeps == Spec /\ []Unspoiled => []NobodyOverslept
<1>1. Init => WInv
  <2>1. ASSUME Init PROVE Asleep /\ link = "down"
    <3>1. CONNECTED_BIT = FALSE /\ ESPTOUCH_DONE_BIT = FALSE /\ link = "down"
      BY <2>1 DEF Init
    <3>2. QED BY <3>1 DEF Asleep, AnyBit
  <2>2. QED BY <2>1 DEF WInv
<1>2. IInv /\ WInv /\ Unspoiled /\ [Next]_vars => WInv'
  BY ToldStep, AsleepStep DEF WInv
<1>3. WInv => NobodyOverslept
  BY DEF WInv, Asleep, AnyBit, Told, Announced, Pending, NobodyOverslept
<1>4. QED BY InitIInv, StepIInv, <1>1, <1>2, <1>3, PTL DEF Spec
==============================================================================
