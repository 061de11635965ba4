----------------------------- MODULE BleReports ------------------------------
(***************************************************************************)
(* ble.c:321-409: what the central makes of a notification.  A sensor      *)
(* sends its temperature and its Vdd in notifications of their own; each   *)
(* one is kept in the slot that has the sensor's address and brings a      *)
(* report of everything the slot holds into the ring.                      *)
(***************************************************************************)
EXTENDS BleCentral, TLC

CONSTANTS Word,       \* the two bytes of a notification, low byte first
          Malformed   \* a notification of any other length

\* What two bytes hold.
Word16 == 0 .. 65535

ASSUME ReportsAssumption ==
  /\ Service \subseteq {"temperature", "vdd"}
  /\ Word \subseteq Word16 /\ Malformed \notin Word16

VARIABLES
  value,    \* gl_profile_tab: temperature, status and vdd
  report    \* what queue_buffer_insert was given last

varsReports == <<vars, value, report>>

\* Fault: one bit too many is masked in.
DataToTemperatureWide(w) == IF w = Malformed THEN 1000 ELSE w % 2048

\* Fault: a faulty value is zero degrees.
DataToTemperatureZero(w) == IF w = Malformed THEN 0 ELSE w % 1024

\* (value[1] & 0x03) * 256 + value[0]
DataToTemperature(w) == IF w = Malformed THEN 1000 ELSE w % 1024

\* Fault: the mask is the next bit.
DataToSwitchNext(w) == IF w = Malformed THEN 2 ELSE (w \div 2048) % 2

\* value[1] & 0x04; 2 is a fault.
DataToSwitch(w) == IF w = Malformed THEN 2 ELSE (w \div 1024) % 2

DataToVdd(w) == IF w = Malformed THEN 0 ELSE w

NoValue == [temperature |-> 0, status |-> 0, vdd |-> 0]

InitReports ==
  /\ Init
  /\ value = [p \in Profile |-> NoValue]
  /\ report = [bda |-> NoAddr, temperature |-> 0, status |-> 0, vdd |-> 0]

\* A sensor notifies a profile that has registered with it.
Notify(p, d, s, w) ==
  /\ <<<<p, d>>, s>> \in notifying
  /\ Post([type |-> "notify", prof |-> p, bda |-> d, service |-> s,
           value |-> w])
  /\ UNCHANGED <<gateway, scanning, stack, value, report>>

\* The slots whose address is that of the notification, the first one if any.
Addressed == {p \in Profile : remote_bda[p] = Event.bda}
FirstAddressed == {p \in Addressed : \A q \in Addressed : p <= q}

\* A value whose handle the slot knows is kept there.
Keep(p) ==
  value' = [value EXCEPT ![p] =
              IF Event.service \notin char_handle[p] THEN @
              ELSE IF Event.service = "temperature"
              THEN [@ EXCEPT !.status = DataToSwitch(Event.value),
                             !.temperature = DataToTemperature(Event.value)]
              ELSE [@ EXCEPT !.vdd = DataToVdd(Event.value)]]

\* The vdd of a report is a uint8_t, that of a slot an int.
Assemble(p) ==
  report' = [bda |-> Event.bda, temperature |-> value'[p].temperature,
             status |-> value'[p].status, vdd |-> value'[p].vdd % 256]

\* ESP_GATTC_NOTIFY_EVT: notifyCallback
HandleNotify ==
  /\ Received("notify")
  /\ \/ \E p \in FirstAddressed : Keep(p) /\ Assemble(p)
     \/ FirstAddressed = {} /\ UNCHANGED <<value, report>>
  /\ UNCHANGED <<gateway, scanning, stack>>

NextReports ==
  \/ Next /\ UNCHANGED <<value, report>>
  \/ \E p \in Profile, d \in Device, s \in Service, w \in Word \cup {Malformed} :
       Notify(p, d, s, w)
  \/ HandleNotify

SpecReports == InitReports /\ [][NextReports]_varsReports

\* Sensors are interchangeable.
DeviceSymmetry == Permutations(Device)
-----------------------------------------------------------------------------
TypeOKReports ==
  /\ value \in [Profile -> [temperature : 0 .. 1023, status : 0 .. 2,
                            vdd : Word16]]
  /\ report \in [bda : Device \cup {NoAddr}, temperature : 0 .. 1023,
                 status : 0 .. 2, vdd : 0 .. 255]

\* A notification brings a report with the value it carries, under the address
\* of its sensor (ble.c:381-397), although the handles are learnt (:524,565),
\* the addresses set (:444) and the registrations made (:525,566) by other
\* callbacks, between which the connection may be lost and opened again, with
\* another sensor or in another slot.  Of a temperature's word the two masks
\* (:332,344) lose no bit of the eleven.  The loop goes by the address alone
\* (:382-403), so the slot that registered, and no other, must have it.
NotifiedValueReported ==
  [][\A p \in Profile, d \in Device, s \in Service, w \in Word :
       /\ HandleNotify
       /\ Event = [type |-> "notify", prof |-> p, bda |-> d, service |-> s,
                   value |-> w]
       /\ Addressed = {p}
       => /\ report'.bda = d
          /\ IF s = "temperature"
             THEN report'.temperature + 1024 * report'.status = w % 2048
             ELSE report'.vdd = w % 256]_varsReports

\* "2- fault" (:339): a reported fault never stands beside the temperature of
\* an earlier, good notification (:331,343,387-388).
FaultIsWhole == report.status = 2 => report.temperature = 1000
=============================================================================
