-------------------------- MODULE BleReports_proofs ---------------------------
(***************************************************************************)
(* Proofs about the central of ble.c, for any number of profiles, sensors  *)
(* and queued callbacks: types, that no slot is lost and that the central  *)
(* never falls silent (BleCentral); the range of what is reported and that *)
(* a fault is whole (BleReports).                                          *)
(***************************************************************************)
EXTENDS BleReports, TLAPS

-----------------------------------------------------------------------------
(* The queue of callbacks, whatever set the events are from.               *)

\* Post appends its event.
LEMMA Posted ==
  ASSUME NEW S, events \in Seq(S), NEW e \in S, Post(e)
  PROVE  /\ events' \in Seq(S)
         /\ Len(events') = Len(events) + 1 /\ Len(events) < MaxEvents
         /\ \A i \in 1 .. Len(events) : events'[i] = events[i]
         /\ events'[Len(events) + 1] = e
BY DEF Post

\* A callback takes the oldest event.
LEMMA Taken ==
  ASSUME NEW S, events \in Seq(S), NEW type, Received(type)
  PROVE  /\ events' \in Seq(S)
         /\ Len(events) > 0 /\ Len(events') = Len(events) - 1
         /\ \A i \in 1 .. Len(events') : events'[i] = events[i + 1]
         /\ Event = events[1] /\ Event \in S /\ Event.type = type
BY DEF Received, Event

\* What is pending stays pending when an event is added.
LEMMA PendingPosted ==
  ASSUME NEW S, events \in Seq(S), NEW e \in S, Post(e), NEW x, Pending(x)
  PROVE  Pending(x)'
<1>1. PICK i \in 1 .. Len(events) : events[i] = x
  BY DEF Pending
<1>2. events' \in Seq(S) /\ i \in 1 .. Len(events') /\ events'[i] = x
  BY <1>1, Posted
<1> QED BY <1>2 DEF Pending

\* An event that is added is pending.
LEMMA PostedPending ==
  ASSUME NEW S, events \in Seq(S), NEW e \in S, Post(e)
  PROVE  Pending(e)'
<1>1. /\ events' \in Seq(S) /\ Len(events) + 1 \in 1 .. Len(events')
      /\ events'[Len(events) + 1] = e
  BY Posted
<1> QED BY <1>1 DEF Pending

\* What is pending and not the oldest event stays pending.
LEMMA PendingTaken ==
  ASSUME NEW S, events \in Seq(S), NEW type, Received(type),
         NEW x, Pending(x), x # Event
  PROVE  Pending(x)'
<1>1. PICK i \in 1 .. Len(events) : events[i] = x
  BY DEF Pending
<1>2. i # 1
  BY <1>1, Taken
<1>3. events' \in Seq(S) /\ i - 1 \in 1 .. Len(events') /\ events'[i - 1] = x
  BY <1>1, <1>2, Taken
<1> QED BY <1>3 DEF Pending

\* A callback takes an event and leaves the connections alone.
LEMMA HandleTakes ==
  ASSUME Handle
  PROVE  link' = link /\ \E type : Received(type)
<1> USE DEF Handle, gateway, slots, stack
<1>1. link' = link
  BY DEF HandleParamsSet, HandleScanEnds, HandleResultWhenFull,
     HandleResultOpens, HandleResultIgnored, HandleOpenFails, HandleOpen,
     HandleCfgMtu, HandleSearchRes, HandleSearchCmpl, HandleSearchFails,
     HandleDisconnect
<1>2. \/ Received("params_set") \/ Received("inq_cmpl") \/ Received("result")
      \/ Received("open_failed") \/ Received("open") \/ Received("cfg_mtu")
      \/ Received("search_res") \/ Received("search_cmpl")
      \/ Received("search_failed") \/ Received("disconnect")
  BY DEF HandleParamsSet, HandleScanEnds, HandleResultWhenFull,
     HandleResultOpens, HandleResultIgnored, HandleOpenFails, HandleOpen,
     HandleCfgMtu, HandleSearchRes, HandleSearchCmpl, HandleSearchFails,
     HandleDisconnect
<1>3. \E type : Received(type)
  BY <1>2
<1> QED BY <1>1, <1>3
-----------------------------------------------------------------------------
(* Types of the central.                                                   *)

\* What is asked of a connection, and its answers, concern a profile that has
\* an address.
AddressKnown ==
  /\ \A r \in requests : r[1] # "open" => remote_bda[r[2]] \in Device
  /\ \A i \in 1 .. Len(events) :
       events[i].type \in {"cfg_mtu", "search_cmpl"} =>
         remote_bda[events[i].prof] \in Device

LEMMA TypeInit == Init => TypeOK
BY CentralAssumption DEF Init, TypeOK, Profile

LEMMA TypeRadio ==
  ASSUME TypeOK, Answers \/ Failures \/ Radio
  PROVE  TypeOK'
<1> events \in Seq(EventSet) /\ Len(events) <= MaxEvents
  BY DEF TypeOK
<1> USE CentralAssumption
<1>1. ASSUME NEW e \in EventSet, Post(e)
      PROVE  events' \in Seq(EventSet) /\ Len(events') <= MaxEvents
  BY <1>1, Posted
<1>2. CASE ParamsSet
  <2>1. [type |-> "params_set"] \in EventSet
    BY DEF EventSet
  <2> QED BY <1>1, <1>2, <2>1 DEF TypeOK, ParamsSet, slots, stack
<1>3. CASE ScanEnds
  <2>1. [type |-> "inq_cmpl"] \in EventSet
    BY DEF EventSet
  <2> QED BY <1>1, <1>3, <2>1 DEF TypeOK, ScanEnds, gateway, slots, stack
<1>4. ASSUME NEW d \in Device \cup {Stranger}, Advertise(d)
      PROVE  TypeOK'
  <2>1. [type |-> "result", bda |-> d] \in EventSet
    BY DEF EventSet
  <2> QED BY <1>1, <1>4, <2>1 DEF TypeOK, Advertise, gateway, slots, stack
<1>5. ASSUME NEW d \in Device, LinkLost(d)
      PROVE  TypeOK'
  <2>1. [type |-> "disconnect", bda |-> d] \in EventSet
    BY DEF EventSet
  <2> QED BY <1>1, <1>5, <2>1 DEF TypeOK, LinkLost, gateway, slots
<1>6. ASSUME NEW p \in Profile, NEW d \in Device, Opened(p, d)
      PROVE  TypeOK'
  <2>1. [type |-> "open", prof |-> p, bda |-> d] \in EventSet
    BY DEF EventSet
  <2> QED BY <1>1, <1>6, <2>1 DEF TypeOK, Opened, gateway, slots
<1>7. ASSUME NEW p \in Profile, NEW d \in Device, OpenFails(p, d)
      PROVE  TypeOK'
  <2>1. [type |-> "open_failed", prof |-> p, bda |-> d] \in EventSet
    BY DEF EventSet
  <2> QED BY <1>1, <1>7, <2>1 DEF TypeOK, OpenFails, gateway, slots
<1>8. ASSUME NEW p \in Profile, NEW d \in Device, MtuSet(p, d)
      PROVE  TypeOK'
  <2>1. [type |-> "cfg_mtu", prof |-> p, bda |-> d] \in EventSet
    BY DEF EventSet
  <2> QED BY <1>1, <1>8, <2>1 DEF TypeOK, MtuSet, gateway, slots
<1>9. ASSUME NEW p \in Profile, NEW d \in Device,
             NEW services \in SUBSET Service, ServicesFound(p, d, services)
      PROVE  TypeOK'
  <2>1. [type |-> "search_res", prof |-> p, services |-> services] \in EventSet
    BY DEF EventSet
  <2>2. <<"found", p, d>> \in Request
    BY DEF Request, Kind
  <2> QED BY <1>1, <1>9, <2>1, <2>2 DEF TypeOK, ServicesFound, gateway, slots
<1>10. ASSUME NEW p \in Profile, NEW d \in Device, SearchEnds(p, d)
       PROVE  TypeOK'
  <2>1. [type |-> "search_cmpl", prof |-> p, bda |-> d] \in EventSet
    BY DEF EventSet
  <2> QED BY <1>1, <1>10, <2>1 DEF TypeOK, SearchEnds, gateway, slots
<1>11. ASSUME NEW p \in Profile, NEW d \in Device, SearchFails(p, d)
       PROVE  TypeOK'
  <2>1. [type |-> "search_failed", prof |-> p] \in EventSet
    BY DEF EventSet
  <2> QED BY <1>1, <1>11, <2>1 DEF TypeOK, SearchFails, gateway, slots
<1> QED
  BY <1>2, <1>3, <1>4, <1>5, <1>6, <1>7, <1>8, <1>9, <1>10, <1>11
  DEF Answers, Failures, Radio

LEMMA TypeHandle ==
  ASSUME TypeOK, AddressKnown, Handle
  PROVE  TypeOK'
<1> events \in Seq(EventSet) /\ Len(events) <= MaxEvents
  BY DEF TypeOK
<1>1. ASSUME NEW type, Received(type)
      PROVE  /\ events' \in Seq(EventSet) /\ Len(events') <= MaxEvents
             /\ Event \in EventSet /\ Event.type = type
  BY <1>1, Taken, CentralAssumption
<1>2. CASE HandleParamsSet
  BY <1>1, <1>2 DEF TypeOK, HandleParamsSet, start_scan, slots, stack
<1>3. CASE HandleScanEnds
  BY <1>1, <1>3 DEF TypeOK, HandleScanEnds, start_scan, slots, stack
<1>4. CASE HandleResultWhenFull
  BY <1>1, <1>4 DEF TypeOK, HandleResultWhenFull, slots, stack
<1>5. CASE HandleResultOpens
  <2>1. PICK p \in Profile :
          /\ conn_device' = [conn_device EXCEPT ![p] = TRUE]
          /\ requests' = requests \cup {<<"open", p, Event.bda>>}
    BY <1>5 DEF HandleResultOpens
  <2>2. <<"open", p, Event.bda>> \in Request
    BY <1>5 DEF HandleResultOpens, Request, Kind
  <2>3. conn_device' \in [Profile -> BOOLEAN]
    BY <2>1 DEF TypeOK
  <2>5. requests' \subseteq Request
    BY <2>1, <2>2 DEF TypeOK
  <2>4. events' \in Seq(EventSet) /\ Len(events') <= MaxEvents
    BY <1>1, <1>5 DEF HandleResultOpens
  <2>6. /\ opens' = opens + 1 /\ scanning' = FALSE
        /\ UNCHANGED <<remote_bda, get_service, char_handle, stop_scan_done,
                       registering, link, notifying>>
    BY <1>5 DEF HandleResultOpens
  <2>7. opens' \in Nat
    BY <2>6 DEF TypeOK
  <2> QED BY <2>3, <2>4, <2>5, <2>6, <2>7, Zenon DEF TypeOK
<1>6. CASE HandleResultIgnored
  BY <1>1, <1>6 DEF TypeOK, HandleResultIgnored, gateway, slots, stack
<1>7. CASE HandleOpenFails
  BY <1>1, <1>7 DEF TypeOK, HandleOpenFails, stack
<1>8. ASSUME NEW kind \in Kind, Ask(kind),
             Event \in EventSet,
             Event.type \in {"open", "cfg_mtu"}
      PROVE  requests' \subseteq Request
  <2>1. Event.prof \in Profile /\ Event.bda \in Device
    BY <1>8 DEF EventSet
  <2> QED BY <1>8, <2>1 DEF TypeOK, Ask, Request
<1>9. CASE HandleOpen
  <2>1. Event \in EventSet /\ Event.type = "open"
    BY <1>1, <1>9 DEF HandleOpen
  <2>2. Event.bda \in Device
    BY <2>1 DEF EventSet
  <2>3. requests' \subseteq Request
    BY <1>8, <1>9, <2>1 DEF HandleOpen, Kind
  <2> QED BY <1>1, <1>9, <2>2, <2>3 DEF TypeOK, HandleOpen
<1>10. CASE HandleCfgMtu
  <2>1. Event \in EventSet /\ Event.type = "cfg_mtu"
    BY <1>1, <1>10 DEF HandleCfgMtu
  <2>2. requests' \subseteq Request
    BY <1>8, <1>10, <2>1 DEF HandleCfgMtu, Kind
  <2> QED BY <1>1, <1>10, <2>2 DEF TypeOK, HandleCfgMtu, gateway, slots
<1>11. CASE HandleSearchRes
  <2>1. Event \in EventSet /\ Event.type = "search_res"
    BY <1>1, <1>11 DEF HandleSearchRes
  <2>2. Event.services \in SUBSET Service
    BY <2>1 DEF EventSet
  <2> QED BY <1>1, <1>11, <2>2 DEF TypeOK, HandleSearchRes, stack
<1>12. CASE HandleSearchCmpl
  <2> DEFINE p == Event.prof
             found == IF <<p, Event.bda>> \in link THEN get_service[p] ELSE {}
  <2>1. Event \in EventSet /\ Event.type = "search_cmpl"
    BY <1>1, <1>12 DEF HandleSearchCmpl
  <2>2. p \in Profile
    BY <2>1 DEF EventSet
  <2>3. found \subseteq Service
    BY <2>2 DEF TypeOK
  <2> HIDE DEF found, p
  <2>4. /\ char_handle' = [char_handle EXCEPT ![p] = @ \cup found]
        /\ notifying' = notifying \cup ({<<p, remote_bda[p]>>} \X found)
    BY <1>12 DEF HandleSearchCmpl, found, p
  <2>5. char_handle' \in [Profile -> SUBSET Service]
    BY <2>2, <2>3, <2>4 DEF TypeOK
  <2>6. remote_bda[p] \in Device
    <3>1. /\ 1 \in 1 .. Len(events) /\ events[1].type = "search_cmpl"
          /\ events[1].prof = p
      BY <1>12, <2>1, Taken DEF HandleSearchCmpl, p
    <3> QED BY <3>1 DEF AddressKnown
  <2>7. {<<p, remote_bda[p]>>} \X found \subseteq (Profile \X Device) \X Service
    BY <2>2, <2>3, <2>6
  <2>8. /\ notifying' \subseteq (Profile \X Device) \X Service
        /\ stop_scan_done' = FALSE /\ scanning' = TRUE
        /\ UNCHANGED <<conn_device, remote_bda, get_service, registering,
                       requests, link, opens>>
    BY <1>12, <2>4, <2>7 DEF TypeOK, HandleSearchCmpl, start_scan
  <2>9. events' \in Seq(EventSet) /\ Len(events') <= MaxEvents
    BY <1>1, <1>12 DEF HandleSearchCmpl
  <2> QED BY <2>5, <2>8, <2>9 DEF TypeOK
<1>13. CASE HandleSearchFails
  BY <1>1, <1>13 DEF TypeOK, HandleSearchFails, gateway, slots, stack
<1>14. CASE HandleDisconnect
  <2> DEFINE theirs == {p \in Profile : remote_bda[p] = Event.bda}
  <2>1. /\ conn_device' =
             [p \in Profile |-> conn_device[p] /\ p \notin theirs]
        /\ get_service' =
             [p \in Profile |-> IF p \in theirs THEN {} ELSE get_service[p]]
    BY <1>14 DEF HandleDisconnect
  <2> HIDE DEF theirs
  <2>2. conn_device' \in [Profile -> BOOLEAN]
    BY <2>1 DEF TypeOK
  <2>3. get_service' \in [Profile -> SUBSET Service]
    BY <2>1 DEF TypeOK
  <2> QED
    BY <1>1, <1>14, <2>2, <2>3 DEF TypeOK, HandleDisconnect, start_scan, stack
<1> QED
  BY <1>2, <1>3, <1>4, <1>5, <1>6, <1>7, <1>9, <1>10, <1>11, <1>12, <1>13,
     <1>14 DEF Handle
(* Whom requests and answers concern.                                      *)

LEMMA AddressRadio ==
  ASSUME TypeOK, AddressKnown, Answers \/ Failures \/ Radio
  PROVE  AddressKnown'
<1> events \in Seq(EventSet)
  BY DEF TypeOK
<1>1. ASSUME NEW e \in EventSet, Post(e), remote_bda' = remote_bda,
             e.type \in {"cfg_mtu", "search_cmpl"} =>
               remote_bda[e.prof] \in Device,
             \A r \in requests' : r \in requests \/ r[1] = "open"
                                 \/ remote_bda[r[2]] \in Device
      PROVE  AddressKnown'
  <2>1. \A r \in requests' : r[1] # "open" => remote_bda'[r[2]] \in Device
    BY <1>1 DEF AddressKnown
  <2>2. ASSUME NEW i \in 1 .. Len(events'),
               events'[i].type \in {"cfg_mtu", "search_cmpl"}
        PROVE  remote_bda'[events'[i].prof] \in Device
    <3>1. CASE i \in 1 .. Len(events)
      <4>1. events'[i] = events[i]
        BY <1>1, <3>1, Posted
      <4> QED BY <1>1, <2>2, <3>1, <4>1 DEF AddressKnown
    <3>2. CASE i = Len(events) + 1
      <4>1. events'[i] = e
        BY <1>1, <3>2, Posted
      <4> QED BY <1>1, <2>2, <4>1
    <3> QED BY <1>1, <2>2, <3>1, <3>2, Posted
  <2> QED BY <2>1, <2>2 DEF AddressKnown
<1>2. CASE ParamsSet
  <2>1. [type |-> "params_set"] \in EventSet
    BY DEF EventSet
  <2> QED BY <1>1, <1>2, <2>1 DEF ParamsSet, slots, stack
<1>3. CASE ScanEnds
  <2>1. [type |-> "inq_cmpl"] \in EventSet
    BY DEF EventSet
  <2> QED BY <1>1, <1>3, <2>1 DEF ScanEnds, gateway, slots, stack
<1>4. ASSUME NEW d \in Device \cup {Stranger}, Advertise(d)
      PROVE  AddressKnown'
  <2>1. [type |-> "result", bda |-> d] \in EventSet
    BY DEF EventSet
  <2> QED BY <1>1, <1>4, <2>1 DEF Advertise, gateway, slots, stack
<1>5. ASSUME NEW d \in Device, LinkLost(d)
      PROVE  AddressKnown'
  <2>1. [type |-> "disconnect", bda |-> d] \in EventSet
    BY DEF EventSet
  <2> QED BY <1>1, <1>5, <2>1 DEF LinkLost, gateway, slots
<1>6. ASSUME NEW p \in Profile, NEW d \in Device, Opened(p, d)
      PROVE  AddressKnown'
  <2>1. [type |-> "open", prof |-> p, bda |-> d] \in EventSet
    BY DEF EventSet
  <2> QED BY <1>1, <1>6, <2>1 DEF Opened, gateway, slots
<1>7. ASSUME NEW p \in Profile, NEW d \in Device, OpenFails(p, d)
      PROVE  AddressKnown'
  <2>1. [type |-> "open_failed", prof |-> p, bda |-> d] \in EventSet
    BY DEF EventSet
  <2> QED BY <1>1, <1>7, <2>1 DEF OpenFails, gateway, slots
<1>8. ASSUME NEW p \in Profile, NEW d \in Device, MtuSet(p, d)
      PROVE  AddressKnown'
  <2>1. [type |-> "cfg_mtu", prof |-> p, bda |-> d] \in EventSet
    BY DEF EventSet
  <2>2. remote_bda[p] \in Device
    BY <1>8 DEF MtuSet, AddressKnown
  <2> QED BY <1>1, <1>8, <2>1, <2>2 DEF MtuSet, gateway, slots
<1>9. ASSUME NEW p \in Profile, NEW d \in Device,
             NEW services \in SUBSET Service, ServicesFound(p, d, services)
      PROVE  AddressKnown'
  <2>1. [type |-> "search_res", prof |-> p, services |-> services] \in EventSet
    BY DEF EventSet
  <2>2. remote_bda[p] \in Device
    BY <1>9 DEF ServicesFound, AddressKnown
  <2> QED BY <1>1, <1>9, <2>1, <2>2 DEF ServicesFound, gateway, slots
<1>10. ASSUME NEW p \in Profile, NEW d \in Device, SearchEnds(p, d)
       PROVE  AddressKnown'
  <2>1. [type |-> "search_cmpl", prof |-> p, bda |-> d] \in EventSet
    BY DEF EventSet
  <2>2. remote_bda[p] \in Device
    BY <1>10 DEF SearchEnds, AddressKnown
  <2> QED BY <1>1, <1>10, <2>1, <2>2 DEF SearchEnds, gateway, slots
<1>11. ASSUME NEW p \in Profile, NEW d \in Device, SearchFails(p, d)
       PROVE  AddressKnown'
  <2>1. [type |-> "search_failed", prof |-> p] \in EventSet
    BY DEF EventSet
  <2> QED BY <1>1, <1>11, <2>1 DEF SearchFails, gateway, slots
<1> QED
  BY <1>2, <1>3, <1>4, <1>5, <1>6, <1>7, <1>8, <1>9, <1>10, <1>11
  DEF Answers, Failures, Radio

LEMMA AddressHandle ==
  ASSUME TypeOK, AddressKnown, Handle
  PROVE  AddressKnown'
<1> events \in Seq(EventSet)
  BY DEF TypeOK
<1>1. ASSUME NEW type, Received(type),
             \A p \in Profile : remote_bda[p] \in Device =>
                                 remote_bda'[p] \in Device,
             \A r \in requests' : r \in requests \/ r[1] = "open"
                                 \/ remote_bda'[r[2]] \in Device
      PROVE  AddressKnown'
  <2>1. \A r \in requests : r[2] \in Profile
    BY DEF TypeOK, Request
  <2>2. \A r \in requests' : r[1] # "open" => remote_bda'[r[2]] \in Device
    BY <1>1, <2>1 DEF AddressKnown
  <2>3. ASSUME NEW i \in 1 .. Len(events'),
               events'[i].type \in {"cfg_mtu", "search_cmpl"}
        PROVE  remote_bda'[events'[i].prof] \in Device
    <3>1. /\ i + 1 \in 1 .. Len(events) /\ events'[i] = events[i + 1]
          /\ events[i + 1] \in EventSet
      BY <1>1, Taken
    <3>2. events[i + 1].prof \in Profile
      BY <2>3, <3>1 DEF EventSet
    <3>3. remote_bda[events[i + 1].prof] \in Device
      BY <2>3, <3>1 DEF AddressKnown
    <3> QED BY <1>1, <3>1, <3>2, <3>3
  <2> QED BY <2>2, <2>3 DEF AddressKnown
<1>2. CASE HandleOpen
  <2>1. Event \in EventSet /\ Event.type = "open"
    BY <1>2, Taken DEF HandleOpen
  <2>2. Event.bda \in Device /\ Event.prof \in Profile
    BY <2>1 DEF EventSet
  <2>3. remote_bda' = [remote_bda EXCEPT ![Event.prof] = Event.bda]
    BY <1>2 DEF HandleOpen
  <2>4. remote_bda'[Event.prof] \in Device
    BY <2>2, <2>3 DEF TypeOK
  <2>5. \A p \in Profile : remote_bda[p] \in Device => remote_bda'[p] \in Device
    BY <2>2, <2>3 DEF TypeOK
  <2>6. \A r \in requests' : r \in requests \/ r[2] = Event.prof
    BY <1>2 DEF HandleOpen, Ask
  <2> QED BY <1>1, <1>2, <2>4, <2>5, <2>6 DEF HandleOpen
<1>3. CASE HandleCfgMtu
  <2>1. /\ 1 \in 1 .. Len(events) /\ events[1] = Event
        /\ Event.type = "cfg_mtu"
    BY <1>3, Taken DEF HandleCfgMtu
  <2>2. remote_bda[Event.prof] \in Device
    BY <2>1 DEF AddressKnown
  <2>3. \A r \in requests' : r \in requests \/ r[2] = Event.prof
    BY <1>3 DEF HandleCfgMtu, Ask
  <2> QED BY <1>1, <1>3, <2>2, <2>3 DEF HandleCfgMtu, gateway, slots
<1>4. CASE HandleResultOpens
  <2>1. \A r \in requests' : r \in requests \/ r[1] = "open"
    BY <1>4 DEF HandleResultOpens
  <2> QED BY <1>1, <1>4, <2>1 DEF HandleResultOpens
<1>5. CASE \/ HandleParamsSet \/ HandleScanEnds \/ HandleResultWhenFull
           \/ HandleResultIgnored \/ HandleOpenFails \/ HandleSearchRes
           \/ HandleSearchCmpl \/ HandleSearchFails \/ HandleDisconnect
  <2>1. UNCHANGED <<remote_bda, requests>>
    BY <1>5 DEF HandleParamsSet, HandleScanEnds, HandleResultWhenFull,
       HandleResultIgnored, HandleOpenFails, HandleSearchRes, HandleSearchCmpl,
       HandleSearchFails, HandleDisconnect, gateway, slots, stack
  <2>2. PICK type : Received(type)
    BY HandleTakes
  <2> QED BY <1>1, <2>1, <2>2
<1> QED BY <1>2, <1>3, <1>4, <1>5 DEF Handle
-----------------------------------------------------------------------------
(* No slot is lost.                                                        *)

\* The end of the connection to d is in the queue behind the i-th event.
EndBehind(i, d) ==
  \E j \in 1 .. Len(events) :
    i < j /\ events[j] = [type |-> "disconnect", bda |-> d]

\* A connection that was opened is still there when its callback comes, or its
\* end comes later.
OpenedLinked ==
  \A i \in 1 .. Len(events) : events[i].type = "open" =>
    \/ <<events[i].prof, events[i].bda>> \in link
    \/ EndBehind(i, events[i].bda)

\* What NoSlotLost says of one profile.
SlotHeld(p) ==
  \/ Opening(p)
  \/ <<p, remote_bda[p]>> \in link
  \/ Pending([type |-> "disconnect", bda |-> remote_bda[p]])

\* An event of the stack keeps both, if it is the end of every connection that
\* goes away and the answer to every open that is no longer asked for.
LEMMA SlotsPosted ==
  ASSUME events \in Seq(EventSet), OpenedLinked, NoSlotLost,
         NEW e \in EventSet, Post(e), UNCHANGED <<conn_device, remote_bda>>,
         \A l \in link : l \in link' \/ e = [type |-> "disconnect", bda |-> l[2]],
         \A p \in Profile, d \in Device :
           <<"open", p, d>> \in requests =>
             \/ <<"open", p, d>> \in requests'
             \/ \E type \in {"open", "open_failed"} :
                  e = [type |-> type, prof |-> p, bda |-> d],
         e.type = "open" => <<e.prof, e.bda>> \in link'
  PROVE  OpenedLinked' /\ NoSlotLost'
<1>1. /\ events' \in Seq(EventSet) /\ Len(events) \in Nat
      /\ Len(events') = Len(events) + 1
      /\ \A i \in 1 .. Len(events) : events'[i] = events[i]
      /\ events'[Len(events) + 1] = e
  BY Posted
<1>2. ASSUME NEW i \in 1 .. Len(events'), events'[i].type = "open"
      PROVE  \/ <<events'[i].prof, events'[i].bda>> \in link'
             \/ EndBehind(i, events[i].bda)'
  <2>1. CASE i = Len(events) + 1
    BY <1>1, <1>2, <2>1
  <2>2. CASE i \in 1 .. Len(events)
    <3>1. events'[i] = events[i] /\ events[i].type = "open"
      BY <1>1, <1>2, <2>2
    <3>2. CASE EndBehind(i, events[i].bda)
      <4>1. PICK j \in 1 .. Len(events) :
              i < j /\ events[j] = [type |-> "disconnect", bda |-> events[i].bda]
        BY <3>2 DEF EndBehind
      <4>2. j \in 1 .. Len(events') /\ events'[j] = events[j]
        BY <1>1
      <4> QED BY <3>1, <4>1, <4>2 DEF EndBehind
    <3>3. CASE <<events[i].prof, events[i].bda>> \in link
      <4>1. CASE <<events[i].prof, events[i].bda>> \in link'
        BY <3>1, <4>1
      <4>2. CASE e = [type |-> "disconnect", bda |-> events[i].bda]
        <5>1. /\ Len(events) + 1 \in 1 .. Len(events')
              /\ i < Len(events) + 1
          BY <1>1, <2>2
        <5> QED BY <1>1, <3>1, <4>2, <5>1 DEF EndBehind
      <4> QED BY <3>3, <4>1, <4>2
    <3> QED BY <2>2, <3>1, <3>2, <3>3 DEF OpenedLinked
  <2> QED BY <1>1, <2>1, <2>2
<1>3. ASSUME NEW p \in Profile, conn_device'[p]
      PROVE  SlotHeld(p)'
  <2>1. SlotHeld(p) /\ remote_bda' = remote_bda
    BY <1>3 DEF NoSlotLost, SlotHeld
  <2>2. CASE <<p, remote_bda[p]>> \in link
    BY <2>1, <2>2, PostedPending DEF SlotHeld
  <2>3. CASE Pending([type |-> "disconnect", bda |-> remote_bda[p]])
    BY <2>1, <2>3, PendingPosted DEF SlotHeld
  <2>4. ASSUME NEW d \in Device, <<"open", p, d>> \in requests
        PROVE  Opening(p)'
    <3>1. CASE <<"open", p, d>> \in requests'
      BY <3>1 DEF Opening
    <3>2. ASSUME NEW type \in {"open", "open_failed"},
                 e = [type |-> type, prof |-> p, bda |-> d]
          PROVE  Opening(p)'
      BY <3>2, PostedPending DEF Opening
    <3> QED BY <2>4, <3>1, <3>2
  <2>5. ASSUME NEW d \in Device, NEW type \in {"open", "open_failed"},
               Pending([type |-> type, prof |-> p, bda |-> d])
        PROVE  Opening(p)'
    BY <2>5, PendingPosted DEF Opening
  <2> QED BY <2>1, <2>2, <2>3, <2>4, <2>5 DEF SlotHeld, Opening
<1> QED BY <1>2, <1>3 DEF OpenedLinked, NoSlotLost, SlotHeld

LEMMA SlotsRadio ==
  ASSUME TypeOK, OpenedLinked, NoSlotLost, Answers \/ Failures \/ Radio
  PROVE  OpenedLinked' /\ NoSlotLost'
<1> events \in Seq(EventSet)
  BY DEF TypeOK
<1>2. CASE ParamsSet
  <2>1. [type |-> "params_set"] \in EventSet
    BY DEF EventSet
  <2> QED BY <1>2, <2>1, SlotsPosted DEF ParamsSet, slots, stack
<1>3. CASE ScanEnds
  <2>1. [type |-> "inq_cmpl"] \in EventSet
    BY DEF EventSet
  <2> QED BY <1>3, <2>1, SlotsPosted DEF ScanEnds, gateway, slots, stack
<1>4. ASSUME NEW d \in Device \cup {Stranger}, Advertise(d)
      PROVE  OpenedLinked' /\ NoSlotLost'
  <2>1. [type |-> "result", bda |-> d] \in EventSet
    BY DEF EventSet
  <2> QED BY <1>4, <2>1, SlotsPosted DEF Advertise, gateway, slots, stack
<1>5. ASSUME NEW d \in Device, LinkLost(d)
      PROVE  OpenedLinked' /\ NoSlotLost'
  <2>1. [type |-> "disconnect", bda |-> d] \in EventSet
    BY DEF EventSet
  <2> QED BY <1>5, <2>1, SlotsPosted DEF LinkLost, gateway, slots
<1>6. ASSUME NEW p \in Profile, NEW d \in Device, Opened(p, d)
      PROVE  OpenedLinked' /\ NoSlotLost'
  <2>1. [type |-> "open", prof |-> p, bda |-> d] \in EventSet
    BY DEF EventSet
  <2> QED BY <1>6, <2>1, SlotsPosted DEF Opened, gateway, slots
<1>7. ASSUME NEW p \in Profile, NEW d \in Device, OpenFails(p, d)
      PROVE  OpenedLinked' /\ NoSlotLost'
  <2>1. [type |-> "open_failed", prof |-> p, bda |-> d] \in EventSet
    BY DEF EventSet
  <2> QED BY <1>7, <2>1, SlotsPosted DEF OpenFails, gateway, slots
<1>8. ASSUME NEW p \in Profile, NEW d \in Device, MtuSet(p, d)
      PROVE  OpenedLinked' /\ NoSlotLost'
  <2>1. [type |-> "cfg_mtu", prof |-> p, bda |-> d] \in EventSet
    BY DEF EventSet
  <2> QED BY <1>8, <2>1, SlotsPosted DEF MtuSet, gateway, slots
<1>9. ASSUME NEW p \in Profile, NEW d \in Device,
             NEW services \in SUBSET Service, ServicesFound(p, d, services)
      PROVE  OpenedLinked' /\ NoSlotLost'
  <2>1. [type |-> "search_res", prof |-> p, services |-> services] \in EventSet
    BY DEF EventSet
  <2> QED BY <1>9, <2>1, SlotsPosted DEF ServicesFound, gateway, slots
<1>10. ASSUME NEW p \in Profile, NEW d \in Device, SearchEnds(p, d)
       PROVE  OpenedLinked' /\ NoSlotLost'
  <2>1. [type |-> "search_cmpl", prof |-> p, bda |-> d] \in EventSet
    BY DEF EventSet
  <2> QED BY <1>10, <2>1, SlotsPosted DEF SearchEnds, gateway, slots
<1>11. ASSUME NEW p \in Profile, NEW d \in Device, SearchFails(p, d)
       PROVE  OpenedLinked' /\ NoSlotLost'
  <2>1. [type |-> "search_failed", prof |-> p] \in EventSet
    BY DEF EventSet
  <2> QED BY <1>11, <2>1, SlotsPosted DEF SearchFails, gateway, slots
<1> QED
  BY <1>2, <1>3, <1>4, <1>5, <1>6, <1>7, <1>8, <1>9, <1>10, <1>11
  DEF Answers, Failures, Radio

\* A callback leaves the connections alone.
LEMMA OpenedTaken ==
  ASSUME events \in Seq(EventSet), OpenedLinked, NEW type, Received(type),
         link' = link
  PROVE  OpenedLinked'
<1>1. /\ events' \in Seq(EventSet) /\ Len(events) \in Nat
      /\ Len(events') = Len(events) - 1
      /\ \A i \in 1 .. Len(events') : events'[i] = events[i + 1]
  BY Taken
<1>2. ASSUME NEW i \in 1 .. Len(events'), events'[i].type = "open"
      PROVE  \/ <<events'[i].prof, events'[i].bda>> \in link
             \/ EndBehind(i, events[i].bda)'
  <2>1. i + 1 \in 1 .. Len(events) /\ events'[i] = events[i + 1]
    BY <1>1
  <2>2. CASE EndBehind(i + 1, events[i + 1].bda)
    <3>1. PICK j \in 1 .. Len(events) :
            /\ i + 1 < j
            /\ events[j] = [type |-> "disconnect", bda |-> events[i + 1].bda]
      BY <2>2 DEF EndBehind
    <3>2. j - 1 \in 1 .. Len(events') /\ events'[j - 1] = events[j] /\ i < j - 1
      BY <1>1, <3>1
    <3> QED BY <2>1, <3>1, <3>2 DEF EndBehind
  <2> QED BY <1>2, <2>1, <2>2 DEF OpenedLinked
<1> QED BY <1>2 DEF OpenedLinked

\* A slot that the callback is not about stays held.
LEMMA HeldTaken ==
  ASSUME events \in Seq(EventSet), NEW type, Received(type),
         NEW p \in Profile, SlotHeld(p), remote_bda'[p] = remote_bda[p],
         link' = link, requests \subseteq requests',
         type \in {"open", "open_failed"} => Event.prof # p,
         type = "disconnect" => Event.bda # remote_bda[p]
  PROVE  SlotHeld(p)'
<1>1. Event.type = type
  BY Taken
<1>2. CASE <<p, remote_bda[p]>> \in link
  BY <1>2 DEF SlotHeld
<1>3. CASE Pending([type |-> "disconnect", bda |-> remote_bda[p]])
  <2>1. [type |-> "disconnect", bda |-> remote_bda[p]] # Event
    BY <1>1
  <2> QED BY <1>3, <2>1, PendingTaken DEF SlotHeld
<1>4. ASSUME NEW d \in Device, <<"open", p, d>> \in requests
      PROVE  Opening(p)'
  BY <1>4 DEF Opening
<1>5. ASSUME NEW d \in Device, NEW t \in {"open", "open_failed"},
             Pending([type |-> t, prof |-> p, bda |-> d])
      PROVE  Opening(p)'
  <2>1. [type |-> t, prof |-> p, bda |-> d] # Event
    BY <1>1
  <2>2. Pending([type |-> t, prof |-> p, bda |-> d])'
    BY <1>5, <2>1, PendingTaken
  <2> QED BY <2>2 DEF Opening
<1> QED BY <1>2, <1>3, <1>4, <1>5 DEF SlotHeld, Opening

LEMMA SlotsHandle ==
  ASSUME TypeOK, OpenedLinked, NoSlotLost, Handle
  PROVE  OpenedLinked' /\ NoSlotLost'
<1> events \in Seq(EventSet)
  BY DEF TypeOK
<1>0. OpenedLinked'
  BY HandleTakes, OpenedTaken
<1>1. SUFFICES ASSUME NEW p \in Profile, conn_device'[p]
               PROVE  SlotHeld(p)'
  BY <1>0 DEF NoSlotLost, SlotHeld
<1>2. conn_device[p] => SlotHeld(p)
  BY DEF NoSlotLost, SlotHeld
<1>3. CASE HandleResultOpens
  <2>1. PICK q \in Profile :
          /\ conn_device' = [conn_device EXCEPT ![q] = TRUE]
          /\ requests' = requests \cup {<<"open", q, Event.bda>>}
    BY <1>3 DEF HandleResultOpens
  <2>3. CASE p = q
    <3>1. Event.bda \in Device /\ <<"open", p, Event.bda>> \in requests'
      BY <1>3, <2>1, <2>3 DEF HandleResultOpens
    <3> QED BY <3>1 DEF SlotHeld, Opening
  <2>4. CASE p # q
    <3>1. SlotHeld(p)
      BY <1>1, <1>2, <2>1, <2>4 DEF TypeOK
    <3> QED BY <1>3, <2>1, <3>1, HeldTaken DEF HandleResultOpens
  <2> QED BY <2>3, <2>4
<1>4. CASE HandleOpenFails
  <2>2. Event.type = "open_failed" /\ Event \in EventSet
    BY <1>4, Taken DEF HandleOpenFails
  <2>3. Event.prof \in Profile
    BY <2>2 DEF EventSet
  <2>4. p # Event.prof /\ SlotHeld(p)
    BY <1>1, <1>2, <1>4, <2>3 DEF HandleOpenFails, TypeOK
  <2> QED BY <1>4, <2>4, HeldTaken DEF HandleOpenFails, stack
<1>5. CASE HandleOpen
  <2>2. /\ Event.type = "open" /\ Event \in EventSet /\ Event = events[1]
        /\ Len(events) > 0
    BY <1>5, Taken DEF HandleOpen
  <2>3. Event.prof \in Profile /\ Event.bda \in Device
    BY <2>2 DEF EventSet
  <2>4. remote_bda' = [remote_bda EXCEPT ![Event.prof] = Event.bda]
    BY <1>5 DEF HandleOpen
  <2>5. CASE p # Event.prof
    <3>1. remote_bda'[p] = remote_bda[p]
      BY <2>4, <2>5 DEF TypeOK
    <3>2. requests \subseteq requests' /\ link' = link /\ conn_device' = conn_device
      BY <1>5 DEF HandleOpen, Ask
    <3> QED BY <1>1, <1>2, <1>5, <2>5, <3>1, <3>2, HeldTaken DEF HandleOpen
  <2>6. CASE p = Event.prof
    <3>1. remote_bda'[p] = Event.bda /\ link' = link
      BY <1>5, <2>4, <2>6 DEF TypeOK, HandleOpen
    <3>2. CASE <<p, Event.bda>> \in link
      BY <3>1, <3>2 DEF SlotHeld
    <3>3. CASE EndBehind(1, Event.bda)
      <4>1. PICK j \in 1 .. Len(events) :
              1 < j /\ events[j] = [type |-> "disconnect", bda |-> Event.bda]
        BY <3>3 DEF EndBehind
      <4>2. /\ events' \in Seq(EventSet) /\ j - 1 \in 1 .. Len(events')
            /\ events'[j - 1] = events[j]
        BY <1>5, <4>1, Taken DEF HandleOpen
      <4>3. events'[j - 1] = [type |-> "disconnect", bda |-> remote_bda'[p]]
        BY <3>1, <4>1, <4>2
      <4>4. Pending([type |-> "disconnect", bda |-> remote_bda[p]])'
        BY <4>2, <4>3 DEF Pending
      <4> QED BY <4>4 DEF SlotHeld
    <3> QED BY <2>2, <2>6, <3>2, <3>3 DEF OpenedLinked
  <2> QED BY <2>5, <2>6
<1>6. CASE HandleDisconnect
  <2>2. conn_device[p] /\ remote_bda[p] # Event.bda
    BY <1>1, <1>6 DEF HandleDisconnect
  <2> QED BY <1>2, <1>6, <2>2, HeldTaken DEF HandleDisconnect, stack
<1>7. CASE HandleCfgMtu
  <2>2. requests \subseteq requests'
    BY <1>7 DEF HandleCfgMtu, Ask
  <2> QED BY <1>1, <1>2, <1>7, <2>2, HeldTaken
          DEF HandleCfgMtu, gateway, slots
<1>8. ASSUME NEW type, Received(type),
             type \notin {"open", "open_failed", "disconnect"},
             UNCHANGED <<conn_device, remote_bda, link, requests>>
      PROVE  SlotHeld(p)'
  BY <1>1, <1>2, <1>8, HeldTaken
<1>9. CASE HandleParamsSet
  BY <1>8, <1>9 DEF HandleParamsSet, slots, stack
<1>10. CASE HandleScanEnds
  BY <1>8, <1>10 DEF HandleScanEnds, slots, stack
<1>11. CASE HandleResultWhenFull
  BY <1>8, <1>11 DEF HandleResultWhenFull, slots, stack
<1>12. CASE HandleResultIgnored
  BY <1>8, <1>12 DEF HandleResultIgnored, gateway, slots, stack
<1>13. CASE HandleSearchRes
  BY <1>8, <1>13 DEF HandleSearchRes, stack
<1>14. CASE HandleSearchCmpl
  BY <1>8, <1>14 DEF HandleSearchCmpl
<1>15. CASE HandleSearchFails
  BY <1>8, <1>15 DEF HandleSearchFails, gateway, slots, stack
<1> QED
  BY <1>3, <1>4, <1>5, <1>6, <1>7, <1>9, <1>10, <1>11, <1>12, <1>13, <1>14,
     <1>15 DEF Handle
-----------------------------------------------------------------------------
\* The inductive invariant of the central.
IInv == TypeOK /\ AddressKnown /\ OpenedLinked /\ NoSlotLost

LEMMA IInvInit == Init => IInv
<1> SUFFICES ASSUME Init
             PROVE  IInv
  OBVIOUS
<1>1. TypeOK
  BY TypeInit
<1>2. events = << >> /\ requests = {} /\ \A p \in Profile : ~conn_device[p]
  BY DEF Init
<1> QED BY <1>1, <1>2 DEF IInv, AddressKnown, OpenedLinked, NoSlotLost

LEMMA IInvNext == IInv /\ [Next]_vars => IInv'
<1> SUFFICES ASSUME IInv, [Next]_vars
             PROVE  IInv'
  OBVIOUS
<1>1. CASE Answers \/ Failures \/ Radio
  BY <1>1, TypeRadio, AddressRadio, SlotsRadio DEF IInv
<1>2. CASE Handle
  BY <1>2, TypeHandle, AddressHandle, SlotsHandle DEF IInv
<1>3. CASE UNCHANGED vars
  BY <1>3 DEF IInv, TypeOK, AddressKnown, OpenedLinked, EndBehind, NoSlotLost,
     Opening, Pending, vars, gateway, slots, stack
<1> QED BY <1>1, <1>2, <1>3 DEF Next

\* The slots, the requests and the queue of callbacks keep their types, and a
\* notification is registered only for an address (ble.c:421-700).
THEOREM TypeCorrect == Spec => []TypeOK
<1>1. IInv => TypeOK
  BY DEF IInv
<1> QED BY <1>1, IInvInit, IInvNext, PTL DEF Spec

\* A slot whose flag is set has an open under way, its connection, or that
\* connection's end in the queue, for any number of profiles and sensors
\* (ble.c:436-444,680-682,780-798).
THEOREM SlotsNeverLost == Spec => []NoSlotLost
<1>1. IInv => NoSlotLost
  BY DEF IInv
<1> QED BY <1>1, IInvInit, IInvNext, PTL DEF Spec
-----------------------------------------------------------------------------
(* The central does not fall silent.                                       *)

\* What is opened opens and what is searched is found, the premise of
\* KeepsLooking.
NoFailure ==
  \A i \in DOMAIN events :
    events[i].type \notin {"open_failed", "search_failed"}

\* The callbacks that scan again, and those that ask for what leads to them.
Onward == {"params_set", "inq_cmpl", "search_cmpl", "disconnect", "open", "cfg_mtu"}

OnwardPending == \E i \in 1 .. Len(events) : events[i].type \in Onward

\* While a slot is free, the central scans or something is under way after which
\* it does.
NeverSilent ==
  scanning \/ AllConnected \/ registering > 0 \/ requests # {} \/ OnwardPending

\* Only a connection that is there is asked for something.
AskedLinked == \A r \in requests : r[1] # "open" => <<r[2], r[3]>> \in link

\* A callback that will ask finds the connection, or its end comes later.
AskersLinked ==
  \A i \in 1 .. Len(events) : events[i].type \in {"open", "cfg_mtu"} =>
    \/ <<events[i].prof, events[i].bda>> \in link
    \/ EndBehind(i, events[i].bda)

LInv == AskedLinked /\ AskersLinked /\ NeverSilent

\* An event that is added keeps both, as in SlotsPosted, and itself leads on.
LEMMA LInvPosted ==
  ASSUME events \in Seq(EventSet), LInv, NEW e \in EventSet, Post(e),
         UNCHANGED conn_device,
         \A l \in link : l \in link' \/ e = [type |-> "disconnect", bda |-> l[2]],
         AskedLinked',
         e.type \in {"open", "cfg_mtu"} => <<e.prof, e.bda>> \in link',
         \/ e.type \in Onward \/ requests' # {}
         \/ UNCHANGED <<scanning, registering, requests>>
  PROVE  LInv'
<1>1. /\ events' \in Seq(EventSet) /\ Len(events) \in Nat
      /\ Len(events') = Len(events) + 1
      /\ \A i \in 1 .. Len(events) : events'[i] = events[i]
      /\ events'[Len(events) + 1] = e
  BY Posted
<1>2. ASSUME NEW i \in 1 .. Len(events'), events'[i].type \in {"open", "cfg_mtu"}
      PROVE  \/ <<events'[i].prof, events'[i].bda>> \in link'
             \/ EndBehind(i, events[i].bda)'
  <2>1. CASE i = Len(events) + 1
    BY <1>1, <1>2, <2>1
  <2>2. CASE i \in 1 .. Len(events)
    <3>1. events'[i] = events[i] /\ events[i].type \in {"open", "cfg_mtu"}
      BY <1>1, <1>2, <2>2
    <3>2. CASE EndBehind(i, events[i].bda)
      <4>1. PICK j \in 1 .. Len(events) :
              i < j /\ events[j] = [type |-> "disconnect", bda |-> events[i].bda]
        BY <3>2 DEF EndBehind
      <4>2. j \in 1 .. Len(events') /\ events'[j] = events[j]
        BY <1>1
      <4> QED BY <3>1, <4>1, <4>2 DEF EndBehind
    <3>3. CASE <<events[i].prof, events[i].bda>> \in link
      <4>1. CASE <<events[i].prof, events[i].bda>> \in link'
        BY <3>1, <4>1
      <4>2. CASE e = [type |-> "disconnect", bda |-> events[i].bda]
        <5>1. Len(events) + 1 \in 1 .. Len(events') /\ i < Len(events) + 1
          BY <1>1, <2>2
        <5> QED BY <1>1, <3>1, <4>2, <5>1 DEF EndBehind
      <4> QED BY <3>3, <4>1, <4>2
    <3> QED BY <2>2, <3>1, <3>2, <3>3 DEF LInv, AskersLinked
  <2> QED BY <1>1, <2>1, <2>2
<1>3. NeverSilent'
  <2>1. CASE e.type \in Onward
    <3>1. Len(events) + 1 \in 1 .. Len(events')
      BY <1>1
    <3> QED BY <1>1, <2>1, <3>1 DEF NeverSilent, OnwardPending
  <2>2. CASE requests' # {}
    BY <2>2 DEF NeverSilent
  <2>3. CASE UNCHANGED <<scanning, registering, requests>>
    <3>1. AllConnected => AllConnected'
      BY DEF AllConnected
    <3>2. OnwardPending => OnwardPending'
      <4>1. \A i \in 1 .. Len(events) : i \in 1 .. Len(events')
        BY <1>1
      <4> QED BY <1>1, <4>1 DEF OnwardPending
    <3> QED BY <2>3, <3>1, <3>2 DEF LInv, NeverSilent
  <2> QED BY <2>1, <2>2, <2>3
<1> QED BY <1>2, <1>3 DEF LInv, AskersLinked

LEMMA LInvRadio ==
  ASSUME TypeOK, LInv, NoFailure', Answers \/ Failures \/ Radio
  PROVE  LInv'
<1> events \in Seq(EventSet)
  BY DEF TypeOK
<1>0. AskedLinked
  BY DEF LInv
<1>2. CASE ParamsSet
  <2>1. [type |-> "params_set"] \in EventSet
    BY DEF EventSet
  <2>2. AskedLinked'
    BY <1>0, <1>2 DEF ParamsSet, stack, AskedLinked
  <2> QED BY <1>2, <2>1, <2>2, LInvPosted DEF ParamsSet, slots, stack, Onward
<1>3. CASE ScanEnds
  <2>1. [type |-> "inq_cmpl"] \in EventSet
    BY DEF EventSet
  <2>2. AskedLinked'
    BY <1>0, <1>3 DEF ScanEnds, stack, AskedLinked
  <2> QED BY <1>3, <2>1, <2>2, LInvPosted
          DEF ScanEnds, gateway, slots, stack, Onward
<1>4. ASSUME NEW d \in Device \cup {Stranger}, Advertise(d)
      PROVE  LInv'
  <2>1. [type |-> "result", bda |-> d] \in EventSet
    BY DEF EventSet
  <2>2. AskedLinked'
    BY <1>0, <1>4 DEF Advertise, stack, AskedLinked
  <2> QED BY <1>4, <2>1, <2>2, LInvPosted DEF Advertise, gateway, slots, stack
<1>5. ASSUME NEW d \in Device, LinkLost(d)
      PROVE  LInv'
  <2>1. [type |-> "disconnect", bda |-> d] \in EventSet
    BY DEF EventSet
  <2>2. AskedLinked'
    BY <1>0, <1>5 DEF LinkLost, AskedLinked
  <2> QED BY <1>5, <2>1, <2>2, LInvPosted DEF LinkLost, gateway, slots, Onward
<1>6. ASSUME NEW p \in Profile, NEW d \in Device, Opened(p, d)
      PROVE  LInv'
  <2>1. [type |-> "open", prof |-> p, bda |-> d] \in EventSet
    BY DEF EventSet
  <2>2. AskedLinked'
    BY <1>0, <1>6 DEF Opened, AskedLinked
  <2> QED BY <1>6, <2>1, <2>2, LInvPosted DEF Opened, gateway, slots, Onward
<1>7. ASSUME NEW e, e.type \in {"open_failed", "search_failed"}, Post(e),
             e \in EventSet
      PROVE  FALSE
  <2>1. /\ events' \in Seq(EventSet) /\ Len(events) + 1 \in 1 .. Len(events')
        /\ events'[Len(events) + 1] = e
    BY <1>7, Posted
  <2> QED BY <1>7, <2>1 DEF NoFailure
<1>8. ASSUME NEW p \in Profile, NEW d \in Device, OpenFails(p, d)
      PROVE  LInv'
  <2>1. [type |-> "open_failed", prof |-> p, bda |-> d] \in EventSet
    BY DEF EventSet
  <2> QED BY <1>7, <1>8, <2>1 DEF OpenFails
<1>9. ASSUME NEW p \in Profile, NEW d \in Device, SearchFails(p, d)
      PROVE  LInv'
  <2>1. [type |-> "search_failed", prof |-> p] \in EventSet
    BY DEF EventSet
  <2> QED BY <1>7, <1>9, <2>1 DEF SearchFails
<1>10. ASSUME NEW p \in Profile, NEW d \in Device, MtuSet(p, d)
       PROVE  LInv'
  <2>1. [type |-> "cfg_mtu", prof |-> p, bda |-> d] \in EventSet
    BY DEF EventSet
  <2>2. AskedLinked' /\ <<p, d>> \in link'
    BY <1>0, <1>10 DEF MtuSet, AskedLinked
  <2> QED BY <1>10, <2>1, <2>2, LInvPosted DEF MtuSet, gateway, slots, Onward
<1>11. ASSUME NEW p \in Profile, NEW d \in Device,
              NEW services \in SUBSET Service, ServicesFound(p, d, services)
       PROVE  LInv'
  <2>1. [type |-> "search_res", prof |-> p, services |-> services] \in EventSet
    BY DEF EventSet
  <2>2. /\ <<"search", p, d>> \in requests /\ link' = link
        /\ requests' = (requests \ {<<"search", p, d>>}) \cup {<<"found", p, d>>}
    BY <1>11 DEF ServicesFound
  <2>3. <<p, d>> \in link
    BY <1>0, <2>2 DEF AskedLinked
  <2>4. <<"found", p, d>> \in requests'
    BY <2>2
  <2>5. AskedLinked'
    BY <1>0, <2>2, <2>3 DEF AskedLinked
  <2> QED BY <1>11, <2>1, <2>4, <2>5, LInvPosted DEF ServicesFound, gateway, slots
<1>12. ASSUME NEW p \in Profile, NEW d \in Device, SearchEnds(p, d)
       PROVE  LInv'
  <2>1. [type |-> "search_cmpl", prof |-> p, bda |-> d] \in EventSet
    BY DEF EventSet
  <2>2. AskedLinked'
    BY <1>0, <1>12 DEF SearchEnds, AskedLinked
  <2> QED BY <1>12, <2>1, <2>2, LInvPosted DEF SearchEnds, gateway, slots, Onward
<1> QED
  BY <1>2, <1>3, <1>4, <1>5, <1>6, <1>8, <1>9, <1>10, <1>11, <1>12
  DEF Answers, Failures, Radio

\* A callback leaves the connections alone.
LEMMA AskersTaken ==
  ASSUME events \in Seq(EventSet), AskersLinked, NEW type, Received(type),
         link' = link
  PROVE  AskersLinked'
<1>1. /\ events' \in Seq(EventSet) /\ Len(events) \in Nat
      /\ Len(events') = Len(events) - 1
      /\ \A i \in 1 .. Len(events') : events'[i] = events[i + 1]
  BY Taken
<1>2. ASSUME NEW i \in 1 .. Len(events'), events'[i].type \in {"open", "cfg_mtu"}
      PROVE  \/ <<events'[i].prof, events'[i].bda>> \in link
             \/ EndBehind(i, events[i].bda)'
  <2>1. i + 1 \in 1 .. Len(events) /\ events'[i] = events[i + 1]
    BY <1>1
  <2>2. CASE EndBehind(i + 1, events[i + 1].bda)
    <3>1. PICK j \in 1 .. Len(events) :
            /\ i + 1 < j
            /\ events[j] = [type |-> "disconnect", bda |-> events[i + 1].bda]
      BY <2>2 DEF EndBehind
    <3>2. j - 1 \in 1 .. Len(events') /\ events'[j - 1] = events[j] /\ i < j - 1
      BY <1>1, <3>1
    <3> QED BY <2>1, <3>1, <3>2 DEF EndBehind
  <2> QED BY <1>2, <2>1, <2>2 DEF AskersLinked
<1> QED BY <1>2 DEF AskersLinked

\* A callback that asks gets an answer later, or the end of the connection.
LEMMA AskLeadsOn ==
  ASSUME TypeOK, AskersLinked, NEW type \in {"open", "cfg_mtu"}, Received(type),
         NEW kind, Ask(kind)
  PROVE  requests' # {} \/ OnwardPending'
<1>1. events \in Seq(EventSet)
  BY DEF TypeOK
<1>2. /\ 1 \in 1 .. Len(events) /\ events[1] = Event /\ Event.type = type
      /\ events' \in Seq(EventSet) /\ Len(events') = Len(events) - 1
      /\ Len(events) \in Nat
      /\ \A i \in 1 .. Len(events') : events'[i] = events[i + 1]
  BY <1>1, Taken
<1>3. CASE <<Event.prof, Event.bda>> \in link
  BY <1>3 DEF Ask
<1>4. CASE EndBehind(1, Event.bda)
  <2>1. PICK j \in 1 .. Len(events) :
          1 < j /\ events[j] = [type |-> "disconnect", bda |-> Event.bda]
    BY <1>4 DEF EndBehind
  <2>2. j - 1 \in 1 .. Len(events') /\ (j - 1) + 1 = j
    BY <1>2, <2>1
  <2>3. events'[j - 1].type \in Onward
    BY <1>2, <2>1, <2>2 DEF Onward
  <2> QED BY <2>2, <2>3 DEF OnwardPending
<1> QED BY <1>2, <1>3, <1>4 DEF AskersLinked

LEMMA LInvHandle ==
  ASSUME TypeOK, LInv, NoFailure, Handle
  PROVE  LInv'
<1> events \in Seq(EventSet)
  BY DEF TypeOK
<1>1. AskersLinked'
  BY HandleTakes, AskersTaken DEF LInv
<1>2. AskedLinked'
  <2>1. link' = link
    BY HandleTakes
  <2>2. \A r \in requests' : \/ r \in requests \/ r[1] = "open"
                             \/ <<r[2], r[3]>> \in link
    BY DEF Handle, HandleParamsSet, HandleScanEnds, HandleResultWhenFull,
       HandleResultOpens, HandleResultIgnored, HandleOpenFails, HandleOpen,
       HandleCfgMtu, HandleSearchRes, HandleSearchCmpl, HandleSearchFails,
       HandleDisconnect, Ask, stack
  <2> QED BY <2>1, <2>2 DEF LInv, AskedLinked
<1>3. CASE HandleParamsSet \/ HandleScanEnds \/ HandleSearchCmpl
           \/ HandleDisconnect
  BY <1>1, <1>2, <1>3
  DEF HandleParamsSet, HandleScanEnds, HandleSearchCmpl, HandleDisconnect,
      start_scan, LInv, NeverSilent
<1>4. CASE HandleResultWhenFull
  <2>1. AllConnected /\ UNCHANGED conn_device
    BY <1>4 DEF HandleResultWhenFull, slots
  <2>2. AllConnected'
    BY <2>1 DEF AllConnected
  <2> QED BY <1>1, <1>2, <2>2 DEF LInv, NeverSilent
<1>5. CASE HandleResultOpens
  <2>1. requests' # {}
    BY <1>5 DEF HandleResultOpens
  <2> QED BY <1>1, <1>2, <2>1 DEF LInv, NeverSilent
<1>6. CASE HandleResultIgnored \/ HandleSearchRes
  <2>1. UNCHANGED <<scanning, conn_device, registering, requests>>
    BY <1>6 DEF HandleResultIgnored, HandleSearchRes, gateway, slots, stack
  <2>2. PICK type \in {"result", "search_res"} : Received(type)
    BY <1>6 DEF HandleResultIgnored, HandleSearchRes
  <2>3. /\ events[1].type = type
        /\ events' \in Seq(EventSet) /\ Len(events') = Len(events) - 1
        /\ Len(events) \in Nat
        /\ \A i \in 1 .. Len(events') : events'[i] = events[i + 1]
    BY <2>2, Taken
  <2>4. OnwardPending => OnwardPending'
    <3> SUFFICES ASSUME NEW i \in 1 .. Len(events), events[i].type \in Onward
                 PROVE  OnwardPending'
        BY DEF OnwardPending
    <3>1. i # 1
      BY <2>2, <2>3 DEF Onward
    <3>2. i - 1 \in 1 .. Len(events') /\ (i - 1) + 1 = i
      BY <2>3, <3>1
    <3> QED BY <2>3, <3>2 DEF OnwardPending
  <2>5. AllConnected => AllConnected'
    BY <2>1 DEF AllConnected
  <2> QED BY <1>1, <1>2, <2>1, <2>4, <2>5 DEF LInv, NeverSilent
<1>7. CASE HandleOpenFails \/ HandleSearchFails
  <2>1. PICK type \in {"open_failed", "search_failed"} : Received(type)
    BY <1>7 DEF HandleOpenFails, HandleSearchFails
  <2>2. 1 \in DOMAIN events /\ events[1].type = type
    BY <2>1, Taken
  <2> QED BY <2>1, <2>2 DEF NoFailure
<1>8. CASE HandleOpen
  BY <1>1, <1>2, <1>8, AskLeadsOn DEF HandleOpen, LInv, NeverSilent
<1>9. CASE HandleCfgMtu
  BY <1>1, <1>2, <1>9, AskLeadsOn DEF HandleCfgMtu, LInv, NeverSilent
<1> QED BY <1>3, <1>4, <1>5, <1>6, <1>7, <1>8, <1>9 DEF Handle

\* What KeepsLooking rests on beside fairness: as long as what is opened opens
\* and what is searched is found, a central with a free slot scans, or has asked
\* for, or is told, something after which it scans again, whatever connections
\* break between two callbacks (ble.c:436,461,576,678,834).
THEOREM CentralNeverSilent == Spec /\ []NoFailure => []NeverSilent
<1>1. Init => LInv
  <2> SUFFICES ASSUME Init
               PROVE  LInv
    OBVIOUS
  <2>1. events = << >> /\ requests = {} /\ registering > 0
    BY CentralAssumption DEF Init
  <2> QED BY <2>1 DEF LInv, AskedLinked, AskersLinked, NeverSilent
<1>2. IInv /\ LInv /\ NoFailure /\ NoFailure' /\ [Next]_vars => LInv'
  <2> SUFFICES ASSUME IInv, LInv, NoFailure, NoFailure', [Next]_vars
               PROVE  LInv'
    OBVIOUS
  <2>1. CASE UNCHANGED vars
    BY <2>1
    DEF LInv, AskedLinked, AskersLinked, EndBehind, NeverSilent, OnwardPending,
        AllConnected, vars, gateway, slots, stack
  <2> QED BY <2>1, LInvRadio, LInvHandle DEF IInv, Next
<1>3. LInv => NeverSilent
  BY DEF LInv
<1> QED BY IInvInit, IInvNext, <1>1, <1>2, <1>3, PTL DEF Spec
-----------------------------------------------------------------------------
(* The reports.                                                            *)

AllEvents == EventSet \cup [type : {"notify"}, prof : Profile, bda : Device,
                            service : Service, value : Word \cup {Malformed}]

\* What registers, and what notifies, has its handle in the slot.
HandleKnown ==
  /\ char_handle \in [Profile -> SUBSET Service]
  /\ get_service \in [Profile -> SUBSET Service]
  /\ \A n \in notifying : n[1][1] \in Profile /\ n[2] \in char_handle[n[1][1]]
  /\ events \in Seq(AllEvents)
  /\ \A i \in 1 .. Len(events) : events[i].type = "notify" =>
       events[i].service \in char_handle[events[i].prof]

Value == [temperature : 0 .. 1023, status : 0 .. 2, vdd : Word16]

\* The slots hold values of their types, and no fault beside a good temperature.
ValuesWhole ==
  /\ value \in [Profile -> Value]
  /\ \A p \in Profile : value[p].status = 2 => value[p].temperature = 1000

RInv == HandleKnown /\ ValuesWhole /\ TypeOKReports /\ FaultIsWhole

\* The low byte of two.
LEMMA LowByte ==
  ASSUME NEW w \in Word16
  PROVE  w % 256 \in 0 .. 255
<1>1. w \in Nat
  BY DEF Word16
<1> QED BY <1>1, SMTT(30)

\* A word is not malformed, and a number.
LEMMA WordRange ==
  ASSUME NEW w \in Word
  PROVE  w \in Word16 /\ w \in Nat /\ w # Malformed
<1>1. w \in Word16 /\ w # Malformed
  BY ReportsAssumption
<1>2. w \in Nat
  BY <1>1 DEF Word16
<1> QED BY <1>1, <1>2

\* The temperature's mask and the switch's together keep eleven bits.
LEMMA ElevenBits ==
  ASSUME NEW w \in Nat
  PROVE  /\ w % 1024 \in 0 .. 1023 /\ (w \div 1024) % 2 \in 0 .. 1
         /\ (w % 1024) + 1024 * ((w \div 1024) % 2) = w % 2048
<1>1. /\ w = 1024 * (w \div 1024) + (w % 1024) /\ w % 1024 \in 0 .. 1023
      /\ w \div 1024 \in Nat
  OBVIOUS
<1>2. ASSUME NEW k \in Nat, NEW r \in 0 .. 1023
      PROVE  k % 2 \in 0 .. 1 /\ r + 1024 * (k % 2) = (1024 * k + r) % 2048
  <2>1. /\ k % 2 \in 0 .. 1 /\ k \div 2 \in Nat
        /\ k = 2 * (k \div 2) + (k % 2)
    OBVIOUS
  <2>2. /\ 1024 * k + r = 2048 * (k \div 2) + (1024 * (k % 2) + r)
        /\ 1024 * (k % 2) + r \in 0 .. 2047
    BY <2>1
  <2>3. ASSUME NEW a \in Nat, NEW b \in 0 .. 2047
        PROVE  (2048 * a + b) % 2048 = b
    OBVIOUS
  <2> QED BY <2>1, <2>2, <2>3, SMTT(30)
<1> QED BY <1>1, <1>2, SMTT(30)

\* A fault is whole and everything else is in range.
LEMMA Decoded ==
  ASSUME NEW w \in Word \cup {Malformed}
  PROVE  /\ DataToTemperature(w) \in 0 .. 1023
         /\ DataToSwitch(w) \in 0 .. 2
         /\ DataToVdd(w) \in Word16
         /\ DataToSwitch(w) = 2 => DataToTemperature(w) = 1000
<1>1. CASE w = Malformed
  <2>1. 0 \in Word16
    BY DEF Word16
  <2> QED BY <1>1, <2>1 DEF DataToTemperature, DataToSwitch, DataToVdd
<1>2. CASE w # Malformed
  <2>1. w \in Word
    BY <1>2
  <2> QED
    BY <2>1, WordRange, ElevenBits DEF DataToTemperature, DataToSwitch, DataToVdd
<1> QED BY <1>1, <1>2

LEMMA MasksMeet ==
  ASSUME NEW w \in Word
  PROVE  DataToTemperature(w) + 1024 * DataToSwitch(w) = w % 2048
BY WordRange, ElevenBits DEF DataToTemperature, DataToSwitch

\* Handles are only learnt, and before the registration for notifications.
LEMMA HandleKnownPosted ==
  ASSUME HandleKnown, NEW e \in AllEvents, Post(e),
         UNCHANGED <<char_handle, get_service>>, notifying' \subseteq notifying,
         e.type = "notify" => e.service \in char_handle[e.prof]
  PROVE  HandleKnown'
<1>1. /\ events \in Seq(AllEvents) /\ events' \in Seq(AllEvents)
      /\ Len(events') = Len(events) + 1
      /\ \A i \in 1 .. Len(events) : events'[i] = events[i]
      /\ events'[Len(events) + 1] = e
  BY Posted DEF HandleKnown
<1>2. ASSUME NEW i \in 1 .. Len(events'), events'[i].type = "notify"
      PROVE  events'[i].service \in char_handle[events'[i].prof]
  <2>1. CASE i \in 1 .. Len(events)
    BY <1>1, <1>2, <2>1 DEF HandleKnown
  <2>2. CASE i = Len(events) + 1
    BY <1>1, <1>2, <2>2
  <2> QED BY <1>1, <2>1, <2>2
<1> QED BY <1>1, <1>2 DEF HandleKnown

LEMMA HandleKnownTaken ==
  ASSUME HandleKnown, NEW type, Received(type),
         char_handle' \in [Profile -> SUBSET Service],
         get_service' \in [Profile -> SUBSET Service],
         \A p \in Profile : char_handle[p] \subseteq char_handle'[p],
         \A n \in notifying' : n \in notifying \/
           (n[1][1] \in Profile /\ n[2] \in char_handle'[n[1][1]])
  PROVE  HandleKnown'
<1>1. /\ events \in Seq(AllEvents) /\ events' \in Seq(AllEvents)
      /\ Len(events') = Len(events) - 1
      /\ \A i \in 1 .. Len(events') : events'[i] = events[i + 1]
  BY Taken DEF HandleKnown
<1>2. \A n \in notifying' : n[1][1] \in Profile /\ n[2] \in char_handle'[n[1][1]]
  BY DEF HandleKnown
<1>3. ASSUME NEW i \in 1 .. Len(events'), events'[i].type = "notify"
      PROVE  events'[i].service \in char_handle'[events'[i].prof]
  <2>1. /\ i + 1 \in 1 .. Len(events) /\ events'[i] = events[i + 1]
        /\ events[i + 1] \in AllEvents
    BY <1>1
  <2>2. events[i + 1].prof \in Profile
    BY <1>3, <2>1 DEF AllEvents, EventSet
  <2> QED BY <1>3, <2>1, <2>2 DEF HandleKnown
<1> QED BY <1>1, <1>2, <1>3 DEF HandleKnown

LEMMA HandleKnownNext ==
  ASSUME HandleKnown, Next
  PROVE  HandleKnown'
<1> USE DEF gateway, slots, stack
<1>1. EventSet \subseteq AllEvents /\ \A e \in EventSet : e.type # "notify"
  BY DEF AllEvents, EventSet
<1>2. ASSUME NEW e \in EventSet, Post(e),
             UNCHANGED <<char_handle, get_service>>, notifying' \subseteq notifying
      PROVE  HandleKnown'
  BY <1>1, <1>2, HandleKnownPosted
<1>3. CASE ParamsSet
  <2>1. [type |-> "params_set"] \in EventSet
    BY DEF EventSet
  <2> QED BY <1>2, <1>3, <2>1 DEF ParamsSet
<1>4. CASE ScanEnds
  <2>1. [type |-> "inq_cmpl"] \in EventSet
    BY DEF EventSet
  <2> QED BY <1>2, <1>4, <2>1 DEF ScanEnds
<1>5. ASSUME NEW d \in Device \cup {Stranger}, Advertise(d)
      PROVE  HandleKnown'
  <2>1. [type |-> "result", bda |-> d] \in EventSet
    BY DEF EventSet
  <2> QED BY <1>2, <1>5, <2>1 DEF Advertise
<1>6. ASSUME NEW d \in Device, LinkLost(d)
      PROVE  HandleKnown'
  <2>1. [type |-> "disconnect", bda |-> d] \in EventSet
    BY DEF EventSet
  <2> QED BY <1>2, <1>6, <2>1 DEF LinkLost
<1>7. ASSUME NEW p \in Profile, NEW d \in Device,
             \/ Opened(p, d) \/ OpenFails(p, d) \/ MtuSet(p, d)
             \/ SearchEnds(p, d) \/ SearchFails(p, d)
             \/ \E services \in SUBSET Service : ServicesFound(p, d, services)
      PROVE  HandleKnown'
  <2>1. /\ \A type \in {"open", "open_failed", "cfg_mtu", "search_cmpl"} :
             [type |-> type, prof |-> p, bda |-> d] \in EventSet
        /\ [type |-> "search_failed", prof |-> p] \in EventSet
        /\ \A services \in SUBSET Service :
             [type |-> "search_res", prof |-> p, services |-> services]
               \in EventSet
    BY DEF EventSet
  <2>2. \E e \in EventSet : Post(e)
    BY <1>7, <2>1 DEF Opened, OpenFails, MtuSet, SearchEnds, SearchFails,
       ServicesFound
  <2>3. UNCHANGED <<char_handle, get_service, notifying>>
    BY <1>7 DEF Opened, OpenFails, MtuSet, SearchEnds, SearchFails,
       ServicesFound
  <2> QED BY <1>2, <2>2, <2>3
<1>8. CASE HandleSearchCmpl
  <2> DEFINE p == Event.prof
             found == IF <<p, Event.bda>> \in link THEN get_service[p] ELSE {}
  <2>1. /\ char_handle' = [char_handle EXCEPT ![p] = @ \cup found]
        /\ notifying' = notifying \cup ({<<p, remote_bda[p]>>} \X found)
        /\ get_service' = get_service
    BY <1>8 DEF HandleSearchCmpl
  <2>2. Event \in AllEvents /\ Event.type = "search_cmpl"
    BY <1>8, Taken DEF HandleSearchCmpl, HandleKnown
  <2>3. p \in Profile
    BY <2>2 DEF AllEvents, EventSet
  <2>4. found \subseteq Service
    BY <2>3 DEF HandleKnown
  <2> HIDE DEF p, found
  <2>5. /\ char_handle' \in [Profile -> SUBSET Service]
        /\ \A q \in Profile : char_handle[q] \subseteq char_handle'[q]
        /\ found \subseteq char_handle'[p]
    BY <2>1, <2>3, <2>4 DEF HandleKnown
  <2>6. \A n \in notifying' : n \in notifying \/
          (n[1][1] \in Profile /\ n[2] \in char_handle'[n[1][1]])
    BY <2>1, <2>3, <2>5
  <2>7. get_service' \in [Profile -> SUBSET Service]
    BY <2>1 DEF HandleKnown
  <2> QED BY <1>8, <2>5, <2>6, <2>7, HandleKnownTaken DEF HandleSearchCmpl
<1>9. ASSUME NEW type, Received(type), UNCHANGED <<char_handle, notifying>>,
             get_service' \in [Profile -> SUBSET Service]
      PROVE  HandleKnown'
  BY <1>9, HandleKnownTaken DEF HandleKnown
<1>10. CASE HandleSearchRes
  <2>1. Event \in AllEvents /\ Event.type = "search_res"
    BY <1>10, Taken DEF HandleSearchRes, HandleKnown
  <2>2. Event.services \subseteq Service
    BY <2>1 DEF AllEvents, EventSet
  <2>3. get_service' \in [Profile -> SUBSET Service]
    BY <1>10, <2>2 DEF HandleSearchRes, HandleKnown
  <2> QED BY <1>9, <1>10, <2>3 DEF HandleSearchRes
<1>11. CASE HandleDisconnect
  <2>1. get_service' \in [Profile -> SUBSET Service]
    BY <1>11 DEF HandleDisconnect, HandleKnown
  <2> QED BY <1>9, <1>11, <2>1 DEF HandleDisconnect
<1>12. CASE \/ HandleParamsSet \/ HandleScanEnds \/ HandleResultWhenFull
            \/ HandleResultOpens \/ HandleResultIgnored \/ HandleOpenFails
            \/ HandleOpen \/ HandleCfgMtu \/ HandleSearchFails
  <2>1. UNCHANGED <<char_handle, notifying, get_service>>
    BY <1>12 DEF HandleParamsSet, HandleScanEnds, HandleResultWhenFull,
       HandleResultOpens, HandleResultIgnored, HandleOpenFails, HandleOpen,
       HandleCfgMtu, HandleSearchFails
  <2>2. PICK type : Received(type)
    BY <1>12, HandleTakes DEF Handle
  <2>3. get_service' \in [Profile -> SUBSET Service]
    BY <2>1 DEF HandleKnown
  <2> QED BY <1>9, <2>1, <2>2, <2>3
<1> QED
  BY <1>3, <1>4, <1>5, <1>6, <1>7, <1>8, <1>10, <1>11, <1>12
  DEF Next, Answers, Failures, Radio, Handle

LEMMA HandleKnownNotify ==
  ASSUME HandleKnown, NEW p \in Profile, NEW d \in Device, NEW s \in Service,
         NEW w \in Word \cup {Malformed}, Notify(p, d, s, w)
  PROVE  HandleKnown'
<1> DEFINE e == [type |-> "notify", prof |-> p, bda |-> d, service |-> s,
                 value |-> w]
<1>1. e \in AllEvents
  BY DEF AllEvents
<1>2. s \in char_handle[p]
  BY DEF Notify, HandleKnown
<1>3. e.type = "notify" => e.service \in char_handle[e.prof]
  BY <1>2
<1>4. Post(e) /\ UNCHANGED <<char_handle, get_service, notifying>>
  BY DEF Notify, gateway, slots, stack
<1> QED BY <1>1, <1>3, <1>4, HandleKnownPosted

LEMMA HandleKnownNotified ==
  ASSUME HandleKnown, HandleNotify
  PROVE  HandleKnown'
<1>1. Received("notify") /\ UNCHANGED <<char_handle, get_service, notifying>>
  BY DEF HandleNotify, gateway, slots, stack
<1>2. /\ char_handle' \in [Profile -> SUBSET Service]
      /\ get_service' \in [Profile -> SUBSET Service]
      /\ \A p \in Profile : char_handle[p] \subseteq char_handle'[p]
  BY <1>1 DEF HandleKnown
<1> QED BY <1>1, <1>2, HandleKnownTaken
-----------------------------------------------------------------------------
(* A notification.                                                         *)

\* Of one that is taken the parts have their types, and the slot that asked for
\* it knows its handle.
LEMMA NotifyEvent ==
  ASSUME HandleKnown, HandleNotify
  PROVE  /\ Event.type = "notify" /\ Event.prof \in Profile
         /\ Event.bda \in Device /\ Event.service \in Service
         /\ Event.value \in Word \cup {Malformed}
         /\ Event.service \in char_handle[Event.prof]
<1>1. /\ events \in Seq(AllEvents) /\ Len(events) > 0 /\ Event = events[1]
      /\ Event \in AllEvents /\ Event.type = "notify"
  BY Taken DEF HandleNotify, HandleKnown
<1>2. /\ Event.prof \in Profile /\ Event.bda \in Device
      /\ Event.service \in Service /\ Event.value \in Word \cup {Malformed}
  BY <1>1 DEF AllEvents, EventSet
<1>3. Event.service \in char_handle[Event.prof]
  BY <1>1 DEF HandleKnown
<1> QED BY <1>1, <1>2, <1>3

\* What the slot holds afterwards.
LEMMA KeptValue ==
  ASSUME HandleKnown, ValuesWhole, HandleNotify, NEW p \in Profile, Keep(p)
  PROVE  /\ value' \in [Profile -> Value]
         /\ \A q \in Profile : value'[q].status = 2 => value'[q].temperature = 1000
         /\ Event.service \in char_handle[p] =>
              IF Event.service = "temperature"
              THEN /\ value'[p].status = DataToSwitch(Event.value)
                   /\ value'[p].temperature = DataToTemperature(Event.value)
              ELSE value'[p].vdd = DataToVdd(Event.value)
<1> DEFINE t == DataToTemperature(Event.value)
           b == DataToSwitch(Event.value)
           v == DataToVdd(Event.value)
           new == IF Event.service \notin char_handle[p] THEN value[p]
                  ELSE IF Event.service = "temperature"
                  THEN [value[p] EXCEPT !.status = b, !.temperature = t]
                  ELSE [value[p] EXCEPT !.vdd = v]
<1>1. value' = [value EXCEPT ![p] = new]
  BY DEF Keep
<1>2. t \in 0 .. 1023 /\ b \in 0 .. 2 /\ v \in Word16 /\ (b = 2 => t = 1000)
  BY NotifyEvent, Decoded
<1> HIDE DEF t, b, v
<1>3. value[p] \in Value /\ (value[p].status = 2 => value[p].temperature = 1000)
  BY DEF ValuesWhole
<1>4. new \in Value /\ (new.status = 2 => new.temperature = 1000)
  <2>1. CASE Event.service \notin char_handle[p]
    BY <1>3, <2>1
  <2>2. CASE Event.service \in char_handle[p] /\ Event.service = "temperature"
    <3> HIDE DEF new
    <3>1. new = [value[p] EXCEPT !.status = b, !.temperature = t]
      BY <2>2 DEF new
    <3>2. new = [temperature |-> t, status |-> b, vdd |-> value[p].vdd]
      BY <1>3, <3>1, ZenonT(40) DEF Value
    <3>3. value[p].vdd \in Word16
      BY <1>3 DEF Value
    <3> QED BY <1>2, <3>2, <3>3 DEF Value
  <2>3. CASE Event.service \in char_handle[p] /\ Event.service # "temperature"
    <3> HIDE DEF new
    <3>1. new = [value[p] EXCEPT !.vdd = v]
      BY <2>3 DEF new
    <3> QED BY <1>2, <1>3, <3>1 DEF Value
  <2> QED BY <2>1, <2>2, <2>3
<1>5. Event.service \in char_handle[p] =>
        IF Event.service = "temperature"
        THEN new.status = b /\ new.temperature = t
        ELSE new.vdd = v
  BY <1>3 DEF Value
<1> HIDE DEF new
<1>6. value \in [Profile -> Value] /\ value'[p] = new
  BY <1>1 DEF ValuesWhole
<1>7. value' \in [Profile -> Value]
  BY <1>1, <1>4, <1>6
<1>8. \A q \in Profile : value'[q].status = 2 => value'[q].temperature = 1000
  BY <1>1, <1>4, <1>6 DEF ValuesWhole
<1> QED BY <1>5, <1>6, <1>7, <1>8 DEF t, b, v

LEMMA ReportStep ==
  ASSUME RInv, HandleNotify
  PROVE  ValuesWhole' /\ TypeOKReports' /\ FaultIsWhole'
<1>0. HandleKnown /\ ValuesWhole /\ TypeOKReports /\ FaultIsWhole
  BY DEF RInv
<1>1. CASE UNCHANGED <<value, report>>
  BY <1>0, <1>1 DEF ValuesWhole, TypeOKReports, FaultIsWhole
<1>2. ASSUME NEW p \in FirstAddressed, Keep(p), Assemble(p)
      PROVE  ValuesWhole' /\ TypeOKReports' /\ FaultIsWhole'
  <2>1. p \in Profile
    BY DEF FirstAddressed, Addressed
  <2>2. ValuesWhole'
    BY <1>0, <1>2, <2>1, KeptValue DEF ValuesWhole
  <2>3. value'[p] \in Value /\ Event.bda \in Device
    BY <1>0, <2>1, <2>2, NotifyEvent DEF ValuesWhole
  <2>4. value'[p].vdd % 256 \in 0 .. 255
    <3>1. value'[p].vdd \in Word16
      BY <2>3 DEF Value
    <3> QED BY <3>1, LowByte
  <2>5. report' \in [bda : Device \cup {NoAddr}, temperature : 0 .. 1023,
                     status : 0 .. 2, vdd : 0 .. 255]
    BY <1>2, <2>3, <2>4 DEF Assemble, Value
  <2>6. report'.status = 2 => report'.temperature = 1000
    BY <1>2, <2>1, <2>2 DEF Assemble, ValuesWhole
  <2> QED BY <2>2, <2>5, <2>6 DEF TypeOKReports, ValuesWhole, Value, FaultIsWhole
<1> QED BY <1>1, <1>2 DEF HandleNotify

LEMMA RInvInit == InitReports => RInv
<1> SUFFICES ASSUME InitReports
             PROVE  RInv
  OBVIOUS
<1>1. HandleKnown
  BY DEF InitReports, Init, HandleKnown
<1>2. 0 \in Word16
  BY DEF Word16
<1>3. ValuesWhole
  BY <1>2 DEF InitReports, NoValue, ValuesWhole, Value
<1>4. TypeOKReports /\ FaultIsWhole
  BY <1>2 DEF InitReports, NoValue, TypeOKReports, FaultIsWhole
<1> QED BY <1>1, <1>3, <1>4 DEF RInv

LEMMA RInvNext == RInv /\ [NextReports]_varsReports => RInv'
<1> SUFFICES ASSUME RInv, [NextReports]_varsReports
             PROVE  RInv'
  OBVIOUS
<1>1. HandleKnown /\ ValuesWhole /\ TypeOKReports /\ FaultIsWhole
  BY DEF RInv
<1>2. ASSUME UNCHANGED <<value, report>>
      PROVE  ValuesWhole' /\ TypeOKReports' /\ FaultIsWhole'
  BY <1>1, <1>2 DEF ValuesWhole, TypeOKReports, FaultIsWhole
<1>3. CASE Next /\ UNCHANGED <<value, report>>
  BY <1>1, <1>2, <1>3, HandleKnownNext DEF RInv
<1>4. ASSUME NEW p \in Profile, NEW d \in Device, NEW s \in Service,
             NEW w \in Word \cup {Malformed}, Notify(p, d, s, w)
      PROVE  RInv'
  <2>1. UNCHANGED <<value, report>>
    BY <1>4 DEF Notify
  <2> QED BY <1>1, <1>2, <1>4, <2>1, HandleKnownNotify DEF RInv
<1>5. CASE HandleNotify
  BY <1>1, <1>5, HandleKnownNotified, ReportStep DEF RInv
<1>6. CASE UNCHANGED varsReports
  <2>1. HandleKnown'
    BY <1>1, <1>6 DEF HandleKnown, varsReports, vars, gateway, slots, stack
  <2> QED BY <1>2, <1>6, <2>1 DEF RInv, varsReports
<1> QED BY <1>3, <1>4, <1>5, <1>6 DEF NextReports

\* The step that NotifiedValueReported speaks of.
LEMMA NotifiedStep ==
  ASSUME RInv, NEW p \in Profile, NEW d \in Device, NEW s \in Service,
         NEW w \in Word, HandleNotify, Addressed = {p},
         Event = [type |-> "notify", prof |-> p, bda |-> d, service |-> s,
                  value |-> w]
  PROVE  /\ report'.bda = d
         /\ IF s = "temperature"
            THEN report'.temperature + 1024 * report'.status = w % 2048
            ELSE report'.vdd = w % 256
<1>1. HandleKnown /\ ValuesWhole
  BY DEF RInv
<1>2. FirstAddressed = {p}
  <2>1. p <= p
    BY CentralAssumption DEF Profile
  <2> QED BY <2>1 DEF FirstAddressed
<1>3. Keep(p) /\ Assemble(p)
  BY <1>2 DEF HandleNotify
<1>4. /\ s \in char_handle[p] /\ Event.service = s /\ Event.value = w
      /\ Event.bda = d
  BY <1>1, NotifyEvent
<1>5. IF s = "temperature"
      THEN /\ value'[p].status = DataToSwitch(w)
           /\ value'[p].temperature = DataToTemperature(w)
      ELSE value'[p].vdd = DataToVdd(w)
  BY <1>1, <1>3, <1>4, KeptValue
<1>6. DataToVdd(w) = w
  BY WordRange DEF DataToVdd
<1> QED BY <1>3, <1>4, <1>5, <1>6, MasksMeet DEF Assemble

\* Slots and reports hold values in range, for any number of profiles and
\* sensors and any words (ble.c:321-397).
THEOREM ReportsTypeCorrect == SpecReports => []TypeOKReports
<1>1. RInv => TypeOKReports
  BY DEF RInv
<1> QED BY <1>1, RInvInit, RInvNext, PTL DEF SpecReports

\* A reported fault has the temperature of a fault (ble.c:331,343,387-388).
THEOREM FaultsAreWhole == SpecReports => []FaultIsWhole
<1>1. RInv => FaultIsWhole
  BY DEF RInv
<1> QED BY <1>1, RInvInit, RInvNext, PTL DEF SpecReports

\* A notification whose address only the slot has that asked for it is reported
\* with its own value (ble.c:377-404).
THEOREM NotificationsReported == SpecReports => NotifiedValueReported
<1>1. RInv /\ [NextReports]_varsReports =>
        [\A p \in Profile, d \in Device, s \in Service, w \in Word :
           /\ HandleNotify
           /\ Event = [type |-> "notify", prof |-> p, bda |-> d, service |-> s,
                       value |-> w]
           /\ Addressed = {p}
           => /\ report'.bda = d
              /\ IF s = "temperature"
                 THEN report'.temperature + 1024 * report'.status = w % 2048
                 ELSE report'.vdd = w % 256]_varsReports
  BY NotifiedStep
<1> QED BY <1>1, RInvInit, RInvNext, PTL DEF SpecReports, NotifiedValueReported
==============================================================================
