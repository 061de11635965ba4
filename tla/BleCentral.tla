----------------------------- MODULE BleCentral ------------------------------
(***************************************************************************)
(* ble.c: the central that looks for the sensors of the building and keeps *)
(* a connection to each, one per GATT profile.  Bluedroid calls esp_gap_cb *)
(* and esp_gattc_cb one after the other from one task, so a callback is    *)
(* one step; what it is told lies in that task's queue, and what it asks   *)
(* for is answered later.  The controller and the sensors are environment. *)
(* Recording an address (:755-767) is the module ScanList, a notification  *)
(* the module BleReports.  Isconnecting is left out: nothing reads it.     *)
(***************************************************************************)
EXTENDS Naturals, Sequences

CONSTANTS PROFILE_NUM,   \* 3 in the code
          Device,        \* sensors: bonded, or with the name "enware"
          Stranger,      \* an advertiser that is neither
          NoAddr,        \* a zeroed remote_bda
          Service,       \* temperature and Vdd
          MaxEvents,     \* bound on the queue of the Bluetooth task
          MaxOpens       \* bound on the connections that are tried

ASSUME CentralAssumption ==
  /\ PROFILE_NUM \in Nat \ {0} /\ MaxEvents \in Nat \ {0} /\ MaxOpens \in Nat
  /\ Stranger \notin Device /\ NoAddr \notin Device \cup {Stranger}

VARIABLES
  conn_device,      \* conn_device_a, _b, _c: the slot is taken
  remote_bda, get_service, char_handle,   \* gl_profile_tab
  stop_scan_done,
  registering,      \* profiles whose registration has not led to a scan
  scanning,         \* the controller scans
  requests,         \* what was asked of the stack and is to be answered
  link,             \* pairs: the profile has a connection to the device
  notifying,        \* registrations for notifications
  events,           \* callbacks to come
  opens             \* history: connections tried

slots == <<conn_device, remote_bda, get_service, char_handle>>
gateway == <<slots, stop_scan_done, registering, opens>>
stack == <<requests, link, notifying>>
vars == <<gateway, scanning, stack, events>>

Profile == 0 .. PROFILE_NUM - 1
Kind == {"open", "mtu", "search", "found"}
Request == Kind \X Profile \X Device

Init ==
  /\ conn_device = [p \in Profile |-> FALSE]
  /\ remote_bda = [p \in Profile |-> NoAddr]
  /\ get_service = [p \in Profile |-> {}]
  /\ char_handle = [p \in Profile |-> {}]
  /\ stop_scan_done = FALSE
  /\ registering = PROFILE_NUM
  /\ scanning = FALSE
  /\ requests = {} /\ link = {} /\ notifying = {}
  /\ events = << >> /\ opens = 0

AllConnected == \A p \in Profile : conn_device[p]
-----------------------------------------------------------------------------
(* The controller and the sensors.                                         *)

Post(e) == Len(events) < MaxEvents /\ events' = Append(events, e)

\* Fault: the completion comes without a registration.
ParamsSetAgain ==
  /\ registering' = registering - 1
  /\ Post([type |-> "params_set"])
  /\ UNCHANGED <<slots, stop_scan_done, scanning, stack, opens>>

\* ESP_GATTC_REG_EVT asks for local privacy (:429), its completion sets the
\* scan parameters (:869), and that is reported.
ParamsSet ==
  /\ registering > 0 /\ registering' = registering - 1
  /\ Post([type |-> "params_set"])
  /\ UNCHANGED <<slots, stop_scan_done, scanning, stack, opens>>

\* A sensor that is connected does not advertise.
Advertise(d) ==
  /\ scanning /\ \A p \in Profile : <<p, d>> \notin link
  /\ opens < MaxOpens
  /\ Post([type |-> "result", bda |-> d])
  /\ UNCHANGED <<gateway, scanning, stack>>

\* One second is over.
ScanEnds ==
  /\ scanning /\ scanning' = FALSE
  /\ Post([type |-> "inq_cmpl"])
  /\ UNCHANGED <<gateway, stack>>

Opened(p, d) ==
  /\ <<"open", p, d>> \in requests
  /\ requests' = requests \ {<<"open", p, d>>}
  /\ link' = link \cup {<<p, d>>}
  /\ Post([type |-> "open", prof |-> p, bda |-> d])
  /\ UNCHANGED <<gateway, scanning, notifying>>

OpenFails(p, d) ==
  /\ <<"open", p, d>> \in requests
  /\ requests' = requests \ {<<"open", p, d>>}
  /\ Post([type |-> "open_failed", prof |-> p, bda |-> d])
  /\ UNCHANGED <<gateway, scanning, link, notifying>>

\* The size of a packet is agreed, or not: the callback does not care.
MtuSet(p, d) ==
  /\ <<"mtu", p, d>> \in requests
  /\ requests' = requests \ {<<"mtu", p, d>>}
  /\ Post([type |-> "cfg_mtu", prof |-> p, bda |-> d])
  /\ UNCHANGED <<gateway, scanning, link, notifying>>

\* The services of the sensor; their callbacks come in a row and are one here.
ServicesFound(p, d, services) ==
  /\ <<"search", p, d>> \in requests
  /\ requests' = (requests \ {<<"search", p, d>>}) \cup {<<"found", p, d>>}
  /\ Post([type |-> "search_res", prof |-> p, services |-> services])
  /\ UNCHANGED <<gateway, scanning, link, notifying>>

SearchEnds(p, d) ==
  /\ <<"found", p, d>> \in requests
  /\ requests' = requests \ {<<"found", p, d>>}
  /\ Post([type |-> "search_cmpl", prof |-> p, bda |-> d])
  /\ UNCHANGED <<gateway, scanning, link, notifying>>

SearchFails(p, d) ==
  /\ \E kind \in {"search", "found"} :
       /\ <<kind, p, d>> \in requests
       /\ requests' = requests \ {<<kind, p, d>>}
  /\ Post([type |-> "search_failed", prof |-> p])
  /\ UNCHANGED <<gateway, scanning, link, notifying>>

\* The connection breaks, for every profile that uses it; what was asked of
\* the sensor stays unanswered.
LinkLost(d) ==
  /\ \E p \in Profile : <<p, d>> \in link
  /\ link' = {l \in link : l[2] # d}
  /\ notifying' = {n \in notifying : n[1][2] # d}
  /\ requests' = {r \in requests : r[1] = "open" \/ r[3] # d}
  /\ Post([type |-> "disconnect", bda |-> d])
  /\ UNCHANGED <<gateway, scanning>>

Answers == \E p \in Profile, d \in Device :
             \/ Opened(p, d) \/ MtuSet(p, d) \/ SearchEnds(p, d)
             \/ \E services \in SUBSET Service : ServicesFound(p, d, services)
Failures == \E p \in Profile, d \in Device :
              OpenFails(p, d) \/ SearchFails(p, d)

Radio == \/ ParamsSet \/ ScanEnds
         \/ \E d \in Device \cup {Stranger} : Advertise(d)
         \/ \E d \in Device : LinkLost(d)
-----------------------------------------------------------------------------
(* The callbacks.                                                          *)

Received(type) ==
  /\ events # << >> /\ Head(events).type = type
  /\ events' = Tail(events)

Event == Head(events)

start_scan == stop_scan_done' = FALSE /\ scanning' = TRUE

\* ESP_GAP_BLE_SCAN_PARAM_SET_COMPLETE_EVT
HandleParamsSet ==
  /\ Received("params_set")
  /\ start_scan
  /\ UNCHANGED <<slots, registering, stack, opens>>

\* ESP_GAP_SEARCH_INQ_CMPL_EVT
HandleScanEnds ==
  /\ Received("inq_cmpl")
  /\ start_scan
  /\ UNCHANGED <<slots, registering, stack, opens>>

\* ESP_GAP_SEARCH_INQ_RES_EVT when every slot is taken: the scan is stopped,
\* whoever was heard.
HandleResultWhenFull ==
  /\ Received("result")
  /\ AllConnected /\ ~stop_scan_done
  /\ stop_scan_done' = TRUE /\ scanning' = FALSE
  /\ UNCHANGED <<slots, registering, stack, opens>>

\* A sensor goes to the first slot that is free, whichever of the two tests
\* it passes; the scan is stopped for the time of the connection.
HandleResultOpens ==
  /\ Received("result") /\ Event.bda \in Device
  /\ opens' = opens + 1
  /\ \E p \in Profile :
       /\ ~conn_device[p] /\ \A q \in Profile : q < p => conn_device[q]
       /\ conn_device' = [conn_device EXCEPT ![p] = TRUE]
       /\ requests' = requests \cup {<<"open", p, Event.bda>>}
  /\ scanning' = FALSE
  /\ UNCHANGED <<remote_bda, get_service, char_handle, stop_scan_done,
                 registering, link, notifying>>

HandleResultIgnored ==
  /\ Received("result")
  /\ IF AllConnected THEN stop_scan_done ELSE Event.bda = Stranger
  /\ UNCHANGED <<gateway, scanning, stack>>

\* Fault: the flag of the slot is not reset.
HandleOpenFailsKept ==
  /\ Received("open_failed")
  /\ UNCHANGED <<gateway, scanning, stack>>

\* ESP_GATTC_OPEN_EVT
HandleOpenFails ==
  /\ Received("open_failed")
  /\ conn_device' = [conn_device EXCEPT ![Event.prof] = FALSE]
  /\ UNCHANGED <<remote_bda, get_service, char_handle, stop_scan_done,
                 registering, scanning, stack, opens>>

\* What is asked of a connection that is already gone is refused.
Ask(kind) ==
  requests' = requests \cup
    IF <<Event.prof, Event.bda>> \in link THEN {<<kind, Event.prof, Event.bda>>}
                                           ELSE {}

HandleOpen ==
  /\ Received("open")
  /\ remote_bda' = [remote_bda EXCEPT ![Event.prof] = Event.bda]
  /\ Ask("mtu")
  /\ UNCHANGED <<conn_device, get_service, char_handle, stop_scan_done,
                 registering, scanning, link, notifying, opens>>

\* ESP_GATTC_CFG_MTU_EVT
HandleCfgMtu ==
  /\ Received("cfg_mtu")
  /\ Ask("search")
  /\ UNCHANGED <<gateway, scanning, link, notifying>>

\* ESP_GATTC_SEARCH_RES_EVT
HandleSearchRes ==
  /\ Received("search_res")
  /\ get_service' = [get_service EXCEPT ![Event.prof] = @ \cup Event.services]
  /\ UNCHANGED <<conn_device, remote_bda, char_handle, stop_scan_done,
                 registering, scanning, stack, opens>>

\* Fault: the scan is not started again.
HandleSearchCmplSilent ==
  /\ Received("search_cmpl")
  /\ LET p == Event.prof
          found == IF <<p, Event.bda>> \in link THEN get_service[p] ELSE {}
      IN  /\ char_handle' = [char_handle EXCEPT ![p] = @ \cup found]
          /\ notifying' = notifying \cup ({<<p, remote_bda[p]>>} \X found)
  /\ UNCHANGED <<conn_device, remote_bda, get_service, stop_scan_done,
                 registering, scanning, requests, link, opens>>

\* ESP_GATTC_SEARCH_CMPL_EVT: a characteristic is looked up on the connection
\* of the search, but registered for the address of the slot.
HandleSearchCmpl ==
  /\ Received("search_cmpl")
  /\ LET p == Event.prof
          found == IF <<p, Event.bda>> \in link THEN get_service[p] ELSE {}
      IN  /\ char_handle' = [char_handle EXCEPT ![p] = @ \cup found]
          /\ notifying' = notifying \cup ({<<p, remote_bda[p]>>} \X found)
  /\ start_scan
  /\ UNCHANGED <<conn_device, remote_bda, get_service, registering, requests,
                 link, opens>>

HandleSearchFails ==
  /\ Received("search_failed")
  /\ UNCHANGED <<gateway, scanning, stack>>

\* ESP_GATTC_DISCONNECT_EVT, which every profile gets.
HandleDisconnect ==
  /\ Received("disconnect")
  /\ start_scan
  /\ LET theirs == {p \in Profile : remote_bda[p] = Event.bda}
      IN  /\ conn_device' =
               [p \in Profile |-> conn_device[p] /\ p \notin theirs]
          /\ get_service' =
               [p \in Profile |-> IF p \in theirs THEN {} ELSE get_service[p]]
  /\ UNCHANGED <<remote_bda, char_handle, registering, stack, opens>>

Handle == \/ HandleParamsSet \/ HandleScanEnds
          \/ HandleResultWhenFull \/ HandleResultOpens \/ HandleResultIgnored
          \/ HandleOpenFails \/ HandleOpen \/ HandleCfgMtu
          \/ HandleSearchRes \/ HandleSearchCmpl \/ HandleSearchFails
          \/ HandleDisconnect

Next == Answers \/ Failures \/ Radio \/ Handle

\* The Bluetooth task runs, the stack answers, a scan ends.
Fairness == WF_vars(Handle) /\ SF_vars(Answers) /\ SF_vars(ScanEnds)
            /\ SF_vars(ParamsSet)

Spec == Init /\ [][Next]_vars /\ Fairness
-----------------------------------------------------------------------------
EventSet ==
  [type : {"params_set", "inq_cmpl"}]
  \cup [type : {"result"}, bda : Device \cup {Stranger}]
  \cup [type : {"disconnect"}, bda : Device]
  \cup [type : {"open", "open_failed", "cfg_mtu", "search_cmpl"},
        prof : Profile, bda : Device]
  \cup [type : {"search_res"}, prof : Profile, services : SUBSET Service]
  \cup [type : {"search_failed"}, prof : Profile]

TypeOK ==
  /\ conn_device \in [Profile -> BOOLEAN]
  /\ remote_bda \in [Profile -> Device \cup {NoAddr}]
  /\ get_service \in [Profile -> SUBSET Service]
  /\ char_handle \in [Profile -> SUBSET Service]
  /\ stop_scan_done \in BOOLEAN /\ scanning \in BOOLEAN
  /\ registering \in 0 .. PROFILE_NUM
  /\ requests \subseteq Request
  /\ link \subseteq Profile \X Device
  /\ notifying \subseteq (Profile \X Device) \X Service
  /\ events \in Seq(EventSet) /\ Len(events) <= MaxEvents
  /\ opens \in Nat

Pending(e) == \E i \in DOMAIN events : events[i] = e

\* The answer to esp_ble_gattc_open is to come or in the queue.
Opening(p) ==
  \E d \in Device : \/ <<"open", p, d>> \in requests
                    \/ \E type \in {"open", "open_failed"} :
                         Pending([type |-> type, prof |-> p, bda |-> d])

\* A slot is never lost (ble.c:436-442,680-682,780-798): a profile whose flag is
\* set has an open that will be answered, or a connection to the address it
\* remembers, or that connection's end is in the queue.  Otherwise the slot
\* would stay taken for ever, without a sensor.
NoSlotLost ==
  \A p \in Profile : conn_device[p] =>
    \/ Opening(p)
    \/ <<p, remote_bda[p]>> \in link
    \/ Pending([type |-> "disconnect", bda |-> remote_bda[p]])

\* "restarting..." (:834), "Start scanning again" (:678), "start scan after
\* stopping scan for connection" (:576): as long as what is opened opens and
\* what is searched is found, while a slot is free the central comes back to
\* scanning again and again, whatever connections break in between.
KeepsLooking ==
  [](\A i \in DOMAIN events :
       events[i].type \notin {"open_failed", "search_failed"})
    => []<>(scanning \/ AllConnected)
=============================================================================
