------------------------------ MODULE ScanList -------------------------------
(***************************************************************************)
(* scan_list.c and its use in esp_gap_cb (ble.c:755-767): the addresses    *)
(* discovered last, each once.  A scan result whose address is not in the  *)
(* list overwrites the oldest slot.  Callbacks of the Bluetooth stack are  *)
(* serialised in one task, so a result is one step.                        *)
(***************************************************************************)
EXTENDS Naturals, Sequences

CONSTANTS Addr,              \* addresses that can be advertised
          NoAddr,            \* the zeroed static storage of a slot
          SCAN_LIST_LENGTH   \* 20 in the code

ASSUME ScanListAssumption ==
  /\ SCAN_LIST_LENGTH \in Nat \ {0}
  /\ NoAddr \notin Addr

VARIABLES ud_scan_list,   \* the slots
          n_end           \* the slot the next address goes into

vars == <<ud_scan_list, n_end>>

Slots == 0 .. SCAN_LIST_LENGTH - 1

Init == ud_scan_list = [i \in Slots |-> NoAddr] /\ n_end = 0

\* Fault: the wrap-around test is off by one.
NextEndPastEnd == IF n_end + 1 > SCAN_LIST_LENGTH THEN 0 ELSE n_end + 1

\* n_end++ followed by "if (n_end >= SCAN_LIST_LENGTH) n_end = 0".
NextEnd == IF n_end + 1 >= SCAN_LIST_LENGTH THEN 0 ELSE n_end + 1

\* Fault: the index is advanced before the slot is chosen.
ud_gap_scan_list_addAfter(bd) ==
  /\ ud_scan_list' = [ud_scan_list EXCEPT ![NextEnd] = bd]
  /\ n_end' = NextEnd

ud_gap_scan_list_add(bd) ==
  /\ ud_scan_list' = [ud_scan_list EXCEPT ![n_end] = bd]
  /\ n_end' = NextEnd

\* Fault: only the slots before n_end are searched.
ud_gap_scan_list_checkUsed(bd) == \E i \in 0 .. n_end - 1 : ud_scan_list[i] = bd

\* Every slot is compared, in use or not.
ud_gap_scan_list_check(bd) == \E i \in Slots : ud_scan_list[i] = bd

\* ESP_GAP_SEARCH_INQ_RES_EVT, the part that records the address; one that is
\* in the list changes nothing.
ScanResult(bd) == ~ud_gap_scan_list_check(bd) /\ ud_gap_scan_list_add(bd)

Next == \E bd \in Addr : ScanResult(bd)

Spec == Init /\ [][Next]_vars
-----------------------------------------------------------------------------
\* A list that has not come round yet ends at n_end.
Filled == IF ud_scan_list[n_end] = NoAddr THEN n_end ELSE SCAN_LIST_LENGTH

\* The slot of the i-th oldest address.
SlotOf(i) ==
  IF Filled = n_end THEN i - 1
  ELSE IF n_end + i > SCAN_LIST_LENGTH THEN n_end + i - 1 - SCAN_LIST_LENGTH
                                       ELSE n_end + i - 1

Latest == [i \in 1 .. Filled |-> ud_scan_list[SlotOf(i)]]

Fifo == INSTANCE FifoQueue WITH items <- Latest, Data <- Addr,
                                Capacity <- SCAN_LIST_LENGTH

TypeOK ==
  /\ ud_scan_list \in [Slots -> Addr \cup {NoAddr}]
  /\ n_end \in Slots

\* No address is recorded twice (ble.c:755-760): the check covers the slots of
\* the last round that are about to be overwritten.
Distinct ==
  \A i, j \in Slots :
    ud_scan_list[i] = ud_scan_list[j] /\ ud_scan_list[i] # NoAddr => i = j

\* "user defined scan list to record the latest n" (ble.c:261): once the slots
\* are used up each new address displaces the one discovered longest ago.
RecordsLatest == Fifo!Spec
==============================================================================
