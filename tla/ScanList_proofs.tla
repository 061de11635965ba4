--------------------------- MODULE ScanList_proofs ---------------------------
(***************************************************************************)
(* Proofs about the list of scan_list.c for every length and every set of  *)
(* addresses.                                                              *)
(***************************************************************************)
EXTENDS ScanList, SequenceTheorems, TLAPS

\* The slots before n_end are used; those behind it are used once the list
\* has come round.
UsedFirst ==
  \/ \A i \in Slots : ud_scan_list[i] # NoAddr
  \/ \A i \in Slots : ud_scan_list[i] # NoAddr <=> i < n_end

IInv == TypeOK /\ UsedFirst /\ Distinct

LEMMA InitIInv == Init => IInv
BY ScanListAssumption DEF Init, IInv, TypeOK, UsedFirst, Distinct, Slots

\* A new address is stored.
LEMMA AddIInv ==
  ASSUME IInv, NEW bd \in Addr, ScanResult(bd)
  PROVE  IInv'
<1> USE ScanListAssumption
<1>1. /\ \A i \in Slots : ud_scan_list[i] # bd
      /\ ud_scan_list' = [ud_scan_list EXCEPT ![n_end] = bd]
      /\ n_end' = NextEnd
      /\ bd # NoAddr
  BY DEF ScanResult, ud_gap_scan_list_check, ud_gap_scan_list_add
<1>2. n_end \in Slots /\ ud_scan_list \in [Slots -> Addr \cup {NoAddr}]
  BY DEF IInv, TypeOK
<1>3. NextEnd \in Slots
  BY <1>2 DEF NextEnd, Slots
<1>4. TypeOK'
  BY <1>1, <1>2, <1>3 DEF TypeOK
<1>5. \A i \in Slots : ud_scan_list'[i] = IF i = n_end THEN bd
                                                      ELSE ud_scan_list[i]
  BY <1>1, <1>2
<1>6. UsedFirst'
  <2>1. CASE \A i \in Slots : ud_scan_list[i] # NoAddr
    BY <2>1, <1>1, <1>5 DEF UsedFirst
  <2>2. CASE \A i \in Slots : ud_scan_list[i] # NoAddr <=> i < n_end
    <3>1. \A i \in Slots : ud_scan_list'[i] # NoAddr <=> i <= n_end
      BY <2>2, <1>1, <1>2, <1>5 DEF Slots
    <3>2. CASE n_end + 1 = SCAN_LIST_LENGTH
      <4>1. \A i \in Slots : ud_scan_list'[i] # NoAddr
        BY <3>1, <3>2, <1>2 DEF Slots
      <4>2. QED BY <4>1 DEF UsedFirst, Slots
    <3>3. CASE n_end + 1 # SCAN_LIST_LENGTH
      <4>1. n_end' = n_end + 1
        BY <3>3, <1>1, <1>2 DEF NextEnd, Slots
      <4>2. QED BY <3>1, <4>1, <1>2 DEF UsedFirst, Slots
    <3>4. QED BY <3>2, <3>3
  <2>3. QED BY <2>1, <2>2 DEF IInv, UsedFirst
<1>7. Distinct'
  BY <1>1, <1>2, <1>5 DEF IInv, Distinct
<1>8. QED BY <1>4, <1>6, <1>7 DEF IInv

LEMMA StepIInv == IInv /\ [Next]_vars => IInv'
<1> SUFFICES ASSUME IInv, [Next]_vars
             PROVE  IInv'
    OBVIOUS
<1>1. CASE Next
  BY <1>1, AddIInv DEF Next
<1>2. CASE UNCHANGED vars
  BY <1>2 DEF vars, IInv, TypeOK, UsedFirst, Distinct
<1>3. QED BY <1>1, <1>2

\* n_end stays in the array, the slots hold addresses (scan_list.c:29-33).
THEOREM TypeCorrect == Spec => []TypeOK
<1>1. IInv => TypeOK
  BY DEF IInv
<1>2. QED BY InitIInv, StepIInv, <1>1, PTL DEF Spec

\* No address is recorded twice, for every length of the list (ble.c:755-760).
THEOREM NoDuplicates == Spec => []Distinct
<1>1. IInv => Distinct
  BY DEF IInv
<1>2. QED BY InitIInv, StepIInv, <1>1, PTL DEF Spec
-----------------------------------------------------------------------------
\* A sequence is what its length and its elements say.
LEMMA SeqAsFunction ==
  ASSUME NEW S, NEW s \in Seq(S)
  PROVE  s = [i \in 1 .. Len(s) |-> s[i]]
BY LenProperties

\* Dropping the oldest entry and adding a new one.
LEMMA AppendTailAsFunction ==
  ASSUME NEW S, NEW s \in Seq(S), s # << >>, NEW e \in S
  PROVE  Append(Tail(s), e) = [i \in 1 .. Len(s) |->
                                 IF i = Len(s) THEN e ELSE s[i + 1]]
<1> DEFINE t == Tail(s)
           a == Append(t, e)
<1>1. /\ t \in Seq(S)
      /\ Len(t) = Len(s) - 1
      /\ \A i \in 1 .. Len(t) : t[i] = s[i + 1]
  BY HeadTailProperties
<1> HIDE DEF t
<1>2. /\ a \in Seq(S)
      /\ Len(a) = Len(t) + 1
      /\ \A i \in 1 .. Len(t) : a[i] = t[i]
      /\ a[Len(t) + 1] = e
  BY <1>1, AppendProperties
<1> HIDE DEF a
<1>3. a = [i \in 1 .. Len(a) |-> a[i]]
  BY <1>2, SeqAsFunction
<1>4. Len(s) \in Nat
  BY LenProperties
<1>5. a = [i \in 1 .. Len(s) |-> IF i = Len(s) THEN e ELSE s[i + 1]]
  BY <1>1, <1>2, <1>3, <1>4
<1>6. QED BY <1>5 DEF a, t

\* The list as a queue: a sequence of addresses, as long as the used slots.
LEMMA LatestSeq ==
  ASSUME IInv
  PROVE  /\ Latest \in Seq(Addr)
         /\ Len(Latest) = Filled
         /\ Filled \in 0 .. SCAN_LIST_LENGTH
         /\ \A i \in 1 .. Filled : SlotOf(i) \in Slots
<1> USE ScanListAssumption
<1>1. Filled \in 0 .. SCAN_LIST_LENGTH
  BY DEF IInv, TypeOK, Slots, Filled
<1>2. \A i \in 1 .. Filled : SlotOf(i) \in Slots
  BY DEF IInv, TypeOK, Slots, Filled, SlotOf
<1>3. \A i \in 1 .. Filled : ud_scan_list[SlotOf(i)] \in Addr
  <2> SUFFICES ASSUME NEW i \in 1 .. Filled
               PROVE  ud_scan_list[SlotOf(i)] # NoAddr
    BY <1>2 DEF IInv, TypeOK
  <2>1. SlotOf(i) \in Slots
    BY <1>2
  <2>2. CASE \A k \in Slots : ud_scan_list[k] # NoAddr
    BY <2>1, <2>2
  <2>3. CASE \A k \in Slots : ud_scan_list[k] # NoAddr <=> k < n_end
    <3>1. Filled = n_end /\ n_end \in Slots
      BY <2>3 DEF IInv, TypeOK, Filled, Slots
    <3>2. SlotOf(i) < n_end
      BY <3>1 DEF SlotOf, Slots
    <3>3. QED BY <2>1, <2>3, <3>2
  <2>4. QED BY <2>2, <2>3 DEF IInv, UsedFirst
<1>4. Latest \in Seq(Addr) /\ Len(Latest) = Filled
  BY <1>1, <1>3 DEF Latest
<1>5. QED BY <1>1, <1>2, <1>4

\* While slots are free the new address joins the others.
LEMMA AddIsPut ==
  ASSUME IInv, NEW bd \in Addr, ScanResult(bd), ud_scan_list[n_end] = NoAddr
  PROVE  Fifo!Put(bd)
<1> USE ScanListAssumption
<1>1. /\ n_end \in Slots /\ ud_scan_list \in [Slots -> Addr \cup {NoAddr}]
      /\ bd # NoAddr
      /\ ud_scan_list' = [ud_scan_list EXCEPT ![n_end] = bd]
      /\ n_end' = NextEnd
      /\ Filled = n_end
  BY DEF IInv, TypeOK, ScanResult, ud_gap_scan_list_add, Filled
<1>2. \A k \in Slots : ud_scan_list[k] # NoAddr <=> k < n_end
  BY <1>1 DEF IInv, UsedFirst
<1>3. Filled' = n_end + 1 /\ \A i \in 1 .. n_end + 1 : SlotOf(i)' = i - 1
  <2>1. CASE n_end + 1 = SCAN_LIST_LENGTH
    <3>1. n_end' = 0
      BY <2>1, <1>1 DEF NextEnd
    <3>2. ud_scan_list'[0] # NoAddr
      BY <1>1, <1>2 DEF Slots
    <3>3. Filled' = SCAN_LIST_LENGTH
      BY <3>1, <3>2 DEF Filled
    <3>4. QED BY <2>1, <3>1, <3>3, <1>1 DEF SlotOf, Slots
  <2>2. CASE n_end + 1 # SCAN_LIST_LENGTH
    <3>1. n_end' = n_end + 1 /\ n_end' \in Slots
      BY <2>2, <1>1 DEF NextEnd, Slots
    <3>2. ud_scan_list'[n_end'] = NoAddr
      BY <3>1, <1>1, <1>2 DEF Slots
    <3>3. Filled' = n_end + 1
      BY <3>1, <3>2 DEF Filled
    <3>4. QED BY <3>1, <3>3, <1>1 DEF SlotOf, Slots
  <2>3. QED BY <2>1, <2>2
<1>4. Latest' = [i \in 1 .. n_end + 1 |-> ud_scan_list'[i - 1]]
  BY <1>3 DEF Latest
<1>5. Latest = [i \in 1 .. n_end |-> ud_scan_list[i - 1]]
  BY <1>1 DEF Latest, SlotOf
<1>6. Latest' = [i \in 1 .. n_end + 1 |->
                   IF i = n_end + 1 THEN bd ELSE ud_scan_list[i - 1]]
  <2>1. \A i \in 1 .. n_end + 1 :
          ud_scan_list'[i - 1] =
            IF i = n_end + 1 THEN bd ELSE ud_scan_list[i - 1]
    BY <1>1 DEF Slots
  <2>2. QED BY <1>4, <2>1
<1>7. Append(Latest, bd) = [i \in 1 .. n_end + 1 |->
                   IF i = n_end + 1 THEN bd ELSE ud_scan_list[i - 1]]
  BY <1>1, <1>5 DEF Slots
<1>8. Len(Latest) < SCAN_LIST_LENGTH
  BY <1>1, LatestSeq DEF Slots
<1>9. QED BY <1>6, <1>7, <1>8, <1>1, LatestSeq DEF Fifo!Put, Fifo!IsFull, Slots

\* Once all are used it displaces the oldest.
LEMMA AddIsPutDroppingOldest ==
  ASSUME IInv, NEW bd \in Addr, ScanResult(bd), ud_scan_list[n_end] # NoAddr
  PROVE  Fifo!PutDroppingOldest(bd)
<1> USE ScanListAssumption
<1> DEFINE L == SCAN_LIST_LENGTH
<1>1. /\ n_end \in Slots /\ ud_scan_list \in [Slots -> Addr \cup {NoAddr}]
      /\ bd # NoAddr
      /\ ud_scan_list' = [ud_scan_list EXCEPT ![n_end] = bd]
      /\ n_end' = NextEnd
      /\ Filled = L
  BY DEF IInv, TypeOK, ScanResult, ud_gap_scan_list_add, Filled
<1>2. \A k \in Slots : ud_scan_list[k] # NoAddr
  BY <1>1 DEF IInv, UsedFirst, Slots
<1>3. NextEnd \in Slots
  BY <1>1 DEF NextEnd, Slots
<1>4. Filled' = L
  <2>1. ud_scan_list'[n_end'] # NoAddr
    BY <1>1, <1>2, <1>3
  <2>2. QED BY <2>1 DEF Filled
<1>5. \A i \in 1 .. L - 1 : SlotOf(i)' = SlotOf(i + 1)
  BY <1>1, <1>4 DEF SlotOf, NextEnd, Slots
<1>6. SlotOf(L)' = n_end
  BY <1>1, <1>4 DEF SlotOf, NextEnd, Slots
<1>7. \A i \in 2 .. L : SlotOf(i) \in Slots \ {n_end}
  BY <1>1 DEF SlotOf, Slots
<1>8. Latest' = [i \in 1 .. L |->
                   IF i = L THEN bd ELSE ud_scan_list[SlotOf(i + 1)]]
  <2>1. ASSUME NEW i \in 1 .. L
        PROVE  ud_scan_list'[SlotOf(i)'] =
                 IF i = L THEN bd ELSE ud_scan_list[SlotOf(i + 1)]
    <3>1. CASE i = L
      BY <3>1, <1>1, <1>6
    <3>2. CASE i # L
      <4>1. i + 1 \in 2 .. L /\ i \in 1 .. L - 1
        BY <3>2
      <4>2. QED BY <3>2, <4>1, <1>1, <1>5, <1>7
    <3>3. QED BY <3>1, <3>2
  <2>2. Latest' = [i \in 1 .. L |-> ud_scan_list'[SlotOf(i)']]
    BY <1>4 DEF Latest
  <2>3. QED BY <2>1, <2>2
<1>9. Append(Tail(Latest), bd) = [i \in 1 .. L |->
                   IF i = L THEN bd ELSE ud_scan_list[SlotOf(i + 1)]]
  <2>1. Latest \in Seq(Addr) /\ Latest # << >> /\ Len(Latest) = L
    BY <1>1, LatestSeq
  <2>2. Append(Tail(Latest), bd) = [i \in 1 .. L |->
                   IF i = L THEN bd ELSE Latest[i + 1]]
    BY <2>1, AppendTailAsFunction
  <2>3. \A i \in 1 .. L : i # L => Latest[i + 1] = ud_scan_list[SlotOf(i + 1)]
    BY <1>1 DEF Latest
  <2>4. QED BY <2>2, <2>3
<1>10. QED BY <1>8, <1>9, <1>1, LatestSeq DEF Fifo!PutDroppingOldest, Fifo!IsFull

\* "user defined scan list to record the latest n" (ble.c:261): for every
\* length the list implements the queue that drops its oldest entry.
THEOREM ListIsFifo == Spec => RecordsLatest
<1>1. Init => Fifo!Init
  <2>1. SUFFICES ASSUME Init PROVE Latest = << >>
    BY DEF Fifo!Init
  <2>2. Filled = 0
    BY <2>1, ScanListAssumption DEF Init, Filled, Slots
  <2>3. QED BY <2>2 DEF Latest
<1>2. IInv /\ [Next]_vars => [Fifo!Next]_Latest
  <2> SUFFICES ASSUME IInv, [Next]_vars
               PROVE  Fifo!Next \/ UNCHANGED Latest
    OBVIOUS
  <2>1. ASSUME NEW bd \in Addr, ScanResult(bd)
        PROVE  Fifo!Next
    BY <2>1, AddIsPut, AddIsPutDroppingOldest DEF Fifo!Next
  <2>2. CASE UNCHANGED vars
    BY <2>2 DEF vars, Latest, Filled, SlotOf
  <2>3. QED BY <2>1, <2>2 DEF Next
<1>3. QED BY InitIInv, StepIInv, <1>1, <1>2, PTL
          DEF Spec, RecordsLatest, Fifo!Spec
==============================================================================
