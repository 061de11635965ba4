------------------------ MODULE EmergencyTest_proofs --------------------------
(***************************************************************************)
(* Proofs about the emergency-light test, for any time-outs, any length of *)
(* the event queue and any number of commands.  The argument is that, as   *)
(* long as no alarm's interrupt falls inside a TEST ON, the interrupt      *)
(* handler and TEST ON exclude each other (Apart), so that the alarm value *)
(* is TEST ON's while a test runs (OnTime), and exactly startedAt plus the *)
(* time-out when the timer was at rest (FullTime).  Then a test under way  *)
(* always has its end before it (Runs).                                    *)
(***************************************************************************)
EXTENDS EmergencyTest, TLAPS

T == TIMER_EL_TEST_TIMEOUT_SEC

Point == {"idle", "isrRead", "isrAlarm", "isrPause", "isrSend", "evtLatch",
          "evtFlag", "offPin", "offStatus", "onPin", "onStatus", "onRead",
          "onClear", "onAlarm", "onStart", "onFlag"}

Types ==
  /\ TypeOK
  /\ pc \in [Actors -> Point] /\ reg \in [Actors -> Nat]
  /\ startedAt \in 0 .. cnt
  /\ startedFresh \in BOOLEAN /\ crossed \in BOOLEAN

\* The alarm is being handled or about to be.
Alarming == int_st \/ pc["isr"] # "idle"

\* The interrupt handler and TEST ON exclude each other, the handler leaves the
\* timer paused, armed, and latched at its counter.
Apart ==
  ~crossed =>
    /\ StartingTest => ~Alarming
    /\ ~alarm_en => Alarming
    /\ pc["isr"] = "isrRead" => int_st
    /\ pc["isr"] = "isrSend" => ~counter_en
    /\ pc["isr"] \in {"isrAlarm", "isrPause", "isrSend"} \/ ~counter_en =>
         latched = cnt

\* TEST ON takes no time, and a running test's alarm is due within T.
OnTime ==
  /\ pc["azure"] \in {"onStatus", "onRead", "onClear", "onAlarm", "onStart",
                      "onFlag"} => startedAt = cnt
  /\ pc["azure"] \in {"onClear", "onAlarm"} => reg["azure"] <= startedAt
  /\ ~crossed =>
       /\ pc["azure"] \in {"onStart", "onFlag"} => alarm <= startedAt + T
       /\ ~end_of_test /\ ~StartingTest =>
            /\ cnt <= startedAt + T
            /\ counter_en /\ ~Alarming => alarm <= startedAt + T

\* A test that found the timer at rest and nothing under way, and whose time is
\* not over.
Waiting ==
  /\ timer_queue = 0 /\ pc["evt"] = "idle" /\ pc["led"] = "idle" /\ ~Alarming
  /\ pc["azure"] \in {"onStatus", "onRead"} => ~counter_en
  /\ pc["azure"] \in {"onClear", "onAlarm"} => reg["azure"] = startedAt
  /\ pc["azure"] \notin {"onStatus", "onRead", "onClear", "onAlarm"} =>
       alarm = startedAt + T
  /\ pc["azure"] \notin {"onStatus", "onRead", "onClear", "onAlarm", "onStart",
                         "onFlag"} => ~end_of_test

FullTime == ~crossed /\ startedFresh => cnt >= startedAt + T \/ Waiting

IInv == Types /\ Apart /\ OnTime /\ FullTime

\* Alarm values are sums of counter values and time-outs; an event is posted
\* only while there is room.
LEMMA TypesStep ==
  ASSUME IInv, [Next]_vars
  PROVE  Types'
<1> USE EmergencyAssumption
    DEF IInv, Types, TypeOK, Step, Point,
    Actors, timer, light, history
<1>1. CASE Fire
  BY <1>1 DEF Fire
<1>2. CASE TickBetween
  BY <1>2 DEF Tick, TickBetween
<1>3. CASE IsrEnter
  BY <1>3 DEF IsrEnter
<1>4. CASE IsrRead
  BY <1>4 DEF IsrRead
<1>5. CASE IsrAlarm
  <2>1. reg["isr"] \in Nat
    BY SMT
  <2>2. reg["isr"] + TIMER_INTERVAL0_SEC \in Nat
    BY <2>1
  <2>3. alarm' \in Nat /\ int_st' = FALSE
    BY <1>5, <2>2 DEF IsrAlarm
  <2> QED BY <1>5, <2>3 DEF IsrAlarm
<1>6. CASE IsrPause
  BY <1>6 DEF IsrPause
<1>7. CASE IsrSend
  BY <1>7 DEF IsrSend
<1>8. CASE EvtReceive
  BY <1>8 DEF EvtReceive
<1>9. CASE EvtLatch
  BY <1>9 DEF EvtLatch
<1>10. CASE EvtFlag
  BY <1>10 DEF EvtFlag
<1>11. CASE LedManager
  BY <1>11 DEF LedManager
<1>12. ASSUME NEW a \in {"led", "azure"}, OffPin(a) 
      PROVE  Types'
  BY <1>12 DEF OffPin
<1>13. ASSUME NEW a \in {"led", "azure"}, OffStatus(a) 
      PROVE  Types'
  BY <1>13 DEF OffStatus
<1>14. ASSUME NEW command \in {"TEST ON", "TEST OFF"}, Receive(command) 
      PROVE  Types'
  BY <1>14 DEF Receive
<1>15. CASE OnPin
  BY <1>15 DEF OnPin
<1>16. CASE OnStatus
  BY <1>16 DEF OnStatus
<1>17. CASE OnRead
  BY <1>17 DEF OnRead
<1>18. CASE OnClear
  BY <1>18 DEF OnClear
<1>19. CASE OnAlarm
  BY <1>19 DEF OnAlarm
<1>20. CASE OnStart
  BY <1>20 DEF OnStart
<1>21. CASE OnFlag
  BY <1>21 DEF OnFlag
<1>22. CASE UNCHANGED vars
  BY <1>22 DEF vars
<1> QED
  BY <1>1, <1>2, <1>3, <1>4, <1>5, <1>6, <1>7, <1>8, <1>9, <1>10,
     <1>11, <1>12, <1>13, <1>14, <1>15, <1>16, <1>17, <1>18, <1>19, <1>20,
     <1>21, <1>22
  DEF Next, Isr, Evt, Led, Azure

\* The handler and TEST ON exclude each other: what would make them meet sets
\* crossed.
LEMMA ApartStep ==
  ASSUME IInv, [Next]_vars
  PROVE  Apart'
<1> USE EmergencyAssumption
    DEF IInv, Types, TypeOK, Apart, Alarming, StartingTest, Step, Point,
    Actors, timer, light, history
<1>1. CASE Fire
  BY <1>1 DEF Fire
<1>2. CASE TickBetween
  BY <1>2 DEF Tick, TickBetween
<1>3. CASE IsrEnter
  BY <1>3 DEF IsrEnter
<1>4. CASE IsrRead
  BY <1>4 DEF IsrRead
<1>5. CASE IsrAlarm
  BY <1>5 DEF IsrAlarm
<1>6. CASE IsrPause
  BY <1>6 DEF IsrPause
<1>7. CASE IsrSend
  BY <1>7 DEF IsrSend
<1>8. CASE EvtReceive
  BY <1>8 DEF EvtReceive
<1>9. CASE EvtLatch
  BY <1>9 DEF EvtLatch
<1>10. CASE EvtFlag
  BY <1>10 DEF EvtFlag
<1>11. CASE LedManager
  BY <1>11 DEF LedManager
<1>12. ASSUME NEW a \in {"led", "azure"}, OffPin(a) 
      PROVE  Apart'
  BY <1>12 DEF OffPin
<1>13. ASSUME NEW a \in {"led", "azure"}, OffStatus(a) 
      PROVE  Apart'
  BY <1>13 DEF OffStatus
<1>14. ASSUME NEW command \in {"TEST ON", "TEST OFF"}, Receive(command) 
      PROVE  Apart'
  BY <1>14 DEF Receive
<1>15. CASE OnPin
  BY <1>15 DEF OnPin
<1>16. CASE OnStatus
  BY <1>16 DEF OnStatus
<1>17. CASE OnRead
  BY <1>17 DEF OnRead
<1>18. CASE OnClear
  BY <1>18 DEF OnClear
<1>19. CASE OnAlarm
  BY <1>19 DEF OnAlarm
<1>20. CASE OnStart
  BY <1>20 DEF OnStart
<1>21. CASE OnFlag
  BY <1>21 DEF OnFlag
<1>22. CASE UNCHANGED vars
  BY <1>22 DEF vars
<1> QED
  BY <1>1, <1>2, <1>3, <1>4, <1>5, <1>6, <1>7, <1>8, <1>9, <1>10,
     <1>11, <1>12, <1>13, <1>14, <1>15, <1>16, <1>17, <1>18, <1>19, <1>20,
     <1>21, <1>22
  DEF Next, Isr, Evt, Led, Azure

\* No time passes during a TEST ON: it ends at the count it began at.
LEMMA OnTimeStep ==
  ASSUME IInv, [Next]_vars
  PROVE  OnTime'
<1> USE EmergencyAssumption
    DEF IInv, Types, TypeOK, Apart, OnTime, Alarming, StartingTest, T, Step, Point,
    Actors, timer, light, history
<1>1. CASE Fire
  BY <1>1 DEF Fire
<1>2. CASE TickBetween
  BY <1>2 DEF Tick, TickBetween
<1>3. CASE IsrEnter
  BY <1>3 DEF IsrEnter
<1>4. CASE IsrRead
  BY <1>4 DEF IsrRead
<1>5. CASE IsrAlarm
  BY <1>5 DEF IsrAlarm
<1>6. CASE IsrPause
  BY <1>6 DEF IsrPause
<1>7. CASE IsrSend
  BY <1>7 DEF IsrSend
<1>8. CASE EvtReceive
  BY <1>8 DEF EvtReceive
<1>9. CASE EvtLatch
  BY <1>9 DEF EvtLatch
<1>10. CASE EvtFlag
  BY <1>10 DEF EvtFlag
<1>11. CASE LedManager
  BY <1>11 DEF LedManager
<1>12. ASSUME NEW a \in {"led", "azure"}, OffPin(a) 
      PROVE  OnTime'
  BY <1>12 DEF OffPin
<1>13. ASSUME NEW a \in {"led", "azure"}, OffStatus(a) 
      PROVE  OnTime'
  BY <1>13 DEF OffStatus
<1>14. ASSUME NEW command \in {"TEST ON", "TEST OFF"}, Receive(command) 
      PROVE  OnTime'
  BY <1>14 DEF Receive
<1>15. CASE OnPin
  BY <1>15 DEF OnPin
<1>16. CASE OnStatus
  BY <1>16 DEF OnStatus
<1>17. CASE OnRead
  BY <1>17 DEF OnRead
<1>18. CASE OnClear
  BY <1>18 DEF OnClear
<1>19. CASE OnAlarm
  BY <1>19 DEF OnAlarm
<1>20. CASE OnStart
  BY <1>20 DEF OnStart
<1>21. CASE OnFlag
  BY <1>21 DEF OnFlag
<1>22. CASE UNCHANGED vars
  BY <1>22 DEF vars
<1> QED
  BY <1>1, <1>2, <1>3, <1>4, <1>5, <1>6, <1>7, <1>8, <1>9, <1>10,
     <1>11, <1>12, <1>13, <1>14, <1>15, <1>16, <1>17, <1>18, <1>19, <1>20,
     <1>21, <1>22
  DEF Next, Isr, Evt, Led, Azure

\* A timer at rest shows the count it stands at, so that the alarm is a full
\* time-out away, and until it is due nothing ends the test.
LEMMA FullTimeStep ==
  ASSUME IInv, [Next]_vars
  PROVE  FullTime'
<1> USE EmergencyAssumption
    DEF IInv, Types, TypeOK, Apart, OnTime, FullTime, Waiting, Alarming,
    StartingTest, T, Step, Point,
    Actors, timer, light, history
<1>1. CASE Fire
  BY <1>1 DEF Fire
<1>2. CASE TickBetween
  BY <1>2 DEF Tick, TickBetween
<1>3. CASE IsrEnter
  BY <1>3 DEF IsrEnter
<1>4. CASE IsrRead
  BY <1>4 DEF IsrRead
<1>5. CASE IsrAlarm
  BY <1>5 DEF IsrAlarm
<1>6. CASE IsrPause
  BY <1>6 DEF IsrPause
<1>7. CASE IsrSend
  BY <1>7 DEF IsrSend
<1>8. CASE EvtReceive
  BY <1>8 DEF EvtReceive
<1>9. CASE EvtLatch
  BY <1>9 DEF EvtLatch
<1>10. CASE EvtFlag
  BY <1>10 DEF EvtFlag
<1>11. CASE LedManager
  BY <1>11 DEF LedManager
<1>12. ASSUME NEW a \in {"led", "azure"}, OffPin(a) 
      PROVE  FullTime'
  BY <1>12 DEF OffPin
<1>13. ASSUME NEW a \in {"led", "azure"}, OffStatus(a) 
      PROVE  FullTime'
  BY <1>13 DEF OffStatus
<1>14. ASSUME NEW command \in {"TEST ON", "TEST OFF"}, Receive(command) 
      PROVE  FullTime'
  BY <1>14 DEF Receive
<1>15. CASE OnPin
  BY <1>15 DEF OnPin
<1>16. CASE OnStatus
  BY <1>16 DEF OnStatus
<1>17. CASE OnRead
  BY <1>17 DEF OnRead
<1>18. CASE OnClear
  BY <1>18 DEF OnClear
<1>19. CASE OnAlarm
  BY <1>19 DEF OnAlarm
<1>20. CASE OnStart
  BY <1>20 DEF OnStart
<1>21. CASE OnFlag
  BY <1>21 DEF OnFlag
<1>22. CASE UNCHANGED vars
  BY <1>22 DEF vars
<1> QED
  BY <1>1, <1>2, <1>3, <1>4, <1>5, <1>6, <1>7, <1>8, <1>9, <1>10,
     <1>11, <1>12, <1>13, <1>14, <1>15, <1>16, <1>17, <1>18, <1>19, <1>20,
     <1>21, <1>22
  DEF Next, Isr, Evt, Led, Azure

\* The timer as app_timer leaves it is armed, and no test is under way.
LEMMA IInvInit == Init => IInv
<1> SUFFICES ASSUME Init
             PROVE  IInv
    OBVIOUS
<1>1. \A a \in Actors : pc[a] = "idle" /\ reg[a] = 0
  BY DEF Init
<1>2. "idle" \in Point /\ 0 \in Nat
  BY DEF Point
<1>3. pc \in [Actors -> Point] /\ reg \in [Actors -> Nat]
  BY <1>2, Zenon DEF Init
<1>4. /\ cnt = 0 /\ latched = 0 /\ timer_queue = 0 /\ startedAt = 0
      /\ alarm = TIMER_INTERVAL0_SEC
      /\ gpio = 0 /\ status_el_gi = 0
  BY DEF Init
<1>5. /\ alarm_en = TRUE /\ counter_en = TRUE /\ int_st = FALSE
      /\ end_of_test = TRUE /\ startedFresh = FALSE /\ crossed = FALSE
  BY DEF Init
<1>6. /\ alarm_en \in BOOLEAN /\ counter_en \in BOOLEAN /\ int_st \in BOOLEAN
      /\ end_of_test \in BOOLEAN /\ startedFresh \in BOOLEAN
      /\ crossed \in BOOLEAN
  BY <1>5, Zenon
<1>7. /\ cnt \in 0 .. MaxCount /\ latched \in 0 .. cnt /\ startedAt \in 0 .. cnt
      /\ alarm \in Nat /\ timer_queue \in 0 .. QueueLength
      /\ gpio \in {0, 1} /\ status_el_gi \in {0, 1}
  BY <1>4, EmergencyAssumption
<1>8. Types
  BY <1>3, <1>6, <1>7, Zenon DEF Types, TypeOK
<1>9. Apart /\ OnTime /\ FullTime
  BY <1>1, <1>4, <1>5
  DEF Apart, OnTime, FullTime, Alarming, StartingTest, Actors
<1> QED BY <1>8, <1>9 DEF IInv

LEMMA Invariant == Spec => []IInv
<1>1. IInv /\ [Next]_vars => IInv'
  BY TypesStep, ApartStep, OnTimeStep, FullTimeStep DEF IInv
<1> QED BY IInvInit, <1>1, PTL DEF Spec
-----------------------------------------------------------------------------
\* Every variable keeps its type; in particular the latched counter never runs
\* ahead of the counter, and timer_queue never holds more than QueueLength
\* (timer_group.c:221).
THEOREM TypeCorrect == Spec => []TypeOK
<1>1. IInv => TypeOK
  BY DEF IInv, Types
<1> QED BY Invariant, <1>1, PTL

\* A test is over within TIMER_EL_TEST_TIMEOUT_SEC of the TEST ON that started
\* it, for every time-out and whatever interleaves, unless an alarm's interrupt
\* fell inside a TEST ON (timer_group.c:93-100 against :153-165).
THEOREM TestsOffInTime == Spec => []OffInTime
<1>1. IInv => OffInTime
  BY DEF IInv, OnTime, OffInTime, StartingTest, T
<1> QED BY Invariant, <1>1, PTL

\* A test that found the timer at rest lasts TIMER_EL_TEST_TIMEOUT_SEC
\* (gpio_ctrl.c:42), for every time-out, under the same condition.
THEOREM TestsRunFullTime == Spec => RunsFullTime
<1>1. ASSUME IInv, OffPin("led"), startedFresh, ~crossed
      PROVE  cnt >= startedAt + TIMER_EL_TEST_TIMEOUT_SEC
  <2>1. pc["led"] = "offPin"
    BY <1>1 DEF OffPin, Step
  <2>2. ~Waiting
    BY <2>1 DEF Waiting
  <2> QED BY <1>1, <2>2 DEF IInv, FullTime, T
<1>2. IInv /\ [Next]_vars
      => [OffPin("led") /\ gpio = 1 /\ startedFresh /\ ~crossed =>
            cnt >= startedAt + TIMER_EL_TEST_TIMEOUT_SEC]_vars
  BY <1>1
<1> QED BY Invariant, <1>2, PTL DEF Spec, RunsFullTime
-----------------------------------------------------------------------------
\* What is left of an alarm that ended a test: the interrupt that posts the event,
\* the event in the queue, or the task that received it.
EventUnderWay == Alarming \/ timer_queue > 0 \/ pc["evt"] # "idle"

\* TEST ON leaves the timer running; a timer that was paused since has its event
\* under way.
Runs ==
  ~crossed =>
    /\ pc["azure"] = "onFlag" => counter_en
    /\ ~end_of_test /\ ~StartingTest => counter_en \/ EventUnderWay

\* A test that is under way is never left without something that ends it: the
\* flag is up, or the event that raises it is under way, or the timer runs towards
\* an armed alarm that is due in time.
NeverStuck ==
  ~crossed /\ ~StartingTest =>
    \/ end_of_test \/ EventUnderWay
    \/ counter_en /\ alarm_en /\ alarm <= startedAt + T

\* Only the interrupt handler pauses the timer, and it posts the event after.
LEMMA RunsStep ==
  ASSUME IInv, Runs, [Next]_vars
  PROVE  Runs'
<1> USE EmergencyAssumption
    DEF IInv, Types, TypeOK, Apart, Runs, EventUnderWay, Alarming, StartingTest,
    Step, Point, Actors, timer, light, history
<1>1. CASE Fire
  BY <1>1 DEF Fire
<1>2. CASE TickBetween
  BY <1>2 DEF Tick, TickBetween
<1>3. CASE IsrEnter
  BY <1>3 DEF IsrEnter
<1>4. CASE IsrRead
  BY <1>4 DEF IsrRead
<1>5. CASE IsrAlarm
  BY <1>5 DEF IsrAlarm
<1>6. CASE IsrPause
  BY <1>6 DEF IsrPause
<1>7. CASE IsrSend
  BY <1>7 DEF IsrSend
<1>8. CASE EvtReceive
  BY <1>8 DEF EvtReceive
<1>9. CASE EvtLatch
  BY <1>9 DEF EvtLatch
<1>10. CASE EvtFlag
  BY <1>10 DEF EvtFlag
<1>11. CASE LedManager
  BY <1>11 DEF LedManager
<1>12. ASSUME NEW a \in {"led", "azure"}, OffPin(a)
      PROVE  Runs'
  BY <1>12 DEF OffPin
<1>13. ASSUME NEW a \in {"led", "azure"}, OffStatus(a)
      PROVE  Runs'
  BY <1>13 DEF OffStatus
<1>14. ASSUME NEW command \in {"TEST ON", "TEST OFF"}, Receive(command)
      PROVE  Runs'
  BY <1>14 DEF Receive
<1>15. CASE OnPin
  BY <1>15 DEF OnPin
<1>16. CASE OnStatus
  BY <1>16 DEF OnStatus
<1>17. CASE OnRead
  BY <1>17 DEF OnRead
<1>18. CASE OnClear
  BY <1>18 DEF OnClear
<1>19. CASE OnAlarm
  BY <1>19 DEF OnAlarm
<1>20. CASE OnStart
  BY <1>20 DEF OnStart
<1>21. CASE OnFlag
  BY <1>21 DEF OnFlag
<1>22. CASE UNCHANGED vars
  BY <1>22 DEF vars
<1> QED
  BY <1>1, <1>2, <1>3, <1>4, <1>5, <1>6, <1>7, <1>8, <1>9, <1>10,
     <1>11, <1>12, <1>13, <1>14, <1>15, <1>16, <1>17, <1>18, <1>19, <1>20,
     <1>21, <1>22
  DEF Next, Isr, Evt, Led, Azure

\* What TestEnds rests on beside fairness: whatever else interleaves, and unless
\* an alarm's interrupt fell inside a TEST ON, a test under way always has its
\* end before it, although TEST ON does not arm the alarm (timer_group.c:159) and
\* the handler pauses the timer before it posts the event (:98-118).
THEOREM TestNeverStuck == Spec => []NeverStuck
<1>1. Init => Runs
  BY DEF Init, Runs, StartingTest, Actors
<1>2. IInv /\ Runs => NeverStuck
  BY DEF IInv, Apart, OnTime, Runs, NeverStuck, EventUnderWay, Alarming
<1>3. IInv /\ Runs /\ [Next]_vars => Runs'
  BY RunsStep
<1> QED BY Invariant, <1>1, <1>2, <1>3, PTL DEF Spec
==============================================================================
