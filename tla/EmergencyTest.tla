---------------------------- MODULE EmergencyTest ----------------------------
(***************************************************************************)
(* The emergency-light test: a cloud command switches the light on and     *)
(* starts a hardware timer (gpio_ctrl.c, timer_group.c); the alarm         *)
(* interrupt posts an event, a task turns it into end_of_test, and the LED *)
(* task switches the light off at its next pass.  Four actors on two cores *)
(* share gpio, status_el_gi, end_of_test and the timer's registers without *)
(* a lock; every shared access is a step of its own.                       *)
(*                                                                         *)
(* One tick of the timer stands for the part of a second that matters; the *)
(* registers and the driver calls that set them are environment.           *)
(***************************************************************************)
EXTENDS Naturals

CONSTANTS TIMER_EL_TEST_TIMEOUT_SEC,   \* 60 in the code
          TIMER_INTERVAL0_SEC,         \* 3.4179 in the code
          QueueLength,                 \* of timer_queue; 10 in the code
          MaxCommands,                 \* bound on the cloud commands
          MaxCount                     \* bound on the timer's counter

ASSUME EmergencyAssumption ==
  /\ TIMER_EL_TEST_TIMEOUT_SEC \in Nat \ {0}
  /\ TIMER_INTERVAL0_SEC \in Nat \ {0}
  /\ QueueLength \in Nat \ {0}
  /\ MaxCommands \in Nat /\ MaxCount \in Nat

VARIABLES
  cnt, latched,        \* the counter; what cnt_high:cnt_low show of it
  alarm, alarm_en,     \* alarm value and whether it is armed
  counter_en,          \* the counter runs
  int_st,              \* interrupt status bit of timer 0
  timer_queue,         \* events posted and not yet received
  end_of_test,         \* timer_group.c:51
  gpio, status_el_gi,  \* the pin of the light; its status for adc_task
  pc, reg,             \* where each actor is and the counter value it holds
  startedAt,           \* history: cnt when the last TEST ON was executed
  startedFresh,        \* history: the timer then stood still, nothing under way
  crossed,             \* history: an alarm's interrupt fell inside a TEST ON
  commands             \* history: how many commands arrived

timer == <<cnt, latched, alarm, alarm_en, counter_en, int_st>>
light == <<gpio, status_el_gi>>
history == <<startedAt, startedFresh, crossed, commands>>
vars == <<timer, timer_queue, end_of_test, light, pc, reg, history>>

Actors == {"azure", "led", "evt", "isr"}

\* The state app_timer leaves: the timer counts towards its first alarm.
Init ==
  /\ cnt = 0 /\ latched = 0
  /\ alarm = TIMER_INTERVAL0_SEC /\ alarm_en = TRUE
  /\ counter_en = TRUE /\ int_st = FALSE
  /\ timer_queue = 0
  /\ end_of_test = TRUE
  /\ gpio = 0 /\ status_el_gi = 0
  /\ pc = [a \in Actors |-> "idle"]
  /\ reg = [a \in Actors |-> 0]
  /\ startedAt = 0 /\ startedFresh = FALSE /\ crossed = FALSE
  /\ commands = 0

Step(a, from, to) == pc[a] = from /\ pc' = [pc EXCEPT ![a] = to]
-----------------------------------------------------------------------------
(* The timer.                                                              *)

\* azure_task is executing TEST ON.
StartingTest == pc["azure"] \in {"onPin", "onStatus", "onRead", "onClear",
                                "onAlarm", "onStart", "onFlag"}

\* An armed alarm that is reached raises the interrupt and disarms itself.
Fire ==
  /\ counter_en /\ alarm_en /\ cnt >= alarm
  /\ int_st' = TRUE
  /\ alarm_en' = FALSE
  /\ crossed' = (crossed \/ StartingTest)
  /\ UNCHANGED <<cnt, latched, alarm, counter_en, timer_queue, end_of_test,
                 light, pc, reg, startedAt, startedFresh, commands>>

Tick ==
  /\ counter_en /\ ~(alarm_en /\ cnt >= alarm)
  /\ cnt < MaxCount
  /\ cnt' = cnt + 1
  /\ UNCHANGED <<latched, alarm, alarm_en, counter_en, int_st, timer_queue,
                 end_of_test, light, pc, reg, history>>
-----------------------------------------------------------------------------
(* timer_group0_isr.                                                       *)

IsrEnter ==
  /\ int_st
  /\ Step("isr", "idle", "isrRead")
  /\ UNCHANGED <<timer, timer_queue, end_of_test, light, reg, history>>

\* intr_status, then update = 1 and the counter's value.  The bit may have
\* been cleared since the processor took the interrupt.
IsrRead ==
  /\ Step("isr", "isrRead", IF int_st THEN "isrAlarm" ELSE "isrSend")
  /\ latched' = cnt
  /\ reg' = [reg EXCEPT !["isr"] = cnt]
  /\ UNCHANGED <<cnt, alarm, alarm_en, counter_en, int_st, timer_queue,
                 end_of_test, light, history>>

\* int_clr_timers.t0 = 1 and the next alarm value.
IsrAlarm ==
  /\ Step("isr", "isrAlarm", "isrPause")
  /\ int_st' = FALSE
  /\ alarm' = reg["isr"] + TIMER_INTERVAL0_SEC
  /\ UNCHANGED <<cnt, latched, alarm_en, counter_en, timer_queue, end_of_test,
                 light, reg, history>>

\* timer_pause(TIMER_GROUP_0, TIMER_0);
IsrPause ==
  /\ Step("isr", "isrPause", "isrSend")
  /\ counter_en' = FALSE
  /\ UNCHANGED <<cnt, latched, alarm, alarm_en, int_st, timer_queue,
                 end_of_test, light, reg, history>>

\* Fault: the event is posted into a full queue.
IsrSendAnyway ==
  /\ Step("isr", "isrSend", "idle")
  /\ alarm_en' = TRUE
  /\ timer_queue' = timer_queue + 1
  /\ UNCHANGED <<cnt, latched, alarm, counter_en, int_st, end_of_test, light,
                 reg, history>>

\* config.alarm_en = TIMER_ALARM_EN; the event, which a full queue loses.
IsrSend ==
  /\ Step("isr", "isrSend", "idle")
  /\ alarm_en' = TRUE
  /\ timer_queue' = IF timer_queue < QueueLength THEN timer_queue + 1
                                                 ELSE timer_queue
  /\ UNCHANGED <<cnt, latched, alarm, counter_en, int_st, end_of_test, light,
                 reg, history>>

Isr == IsrEnter \/ IsrRead \/ IsrAlarm \/ IsrPause \/ IsrSend
-----------------------------------------------------------------------------
(* timer_example_evt_task.                                                 *)

EvtReceive ==
  /\ timer_queue > 0
  /\ Step("evt", "idle", "evtLatch")
  /\ timer_queue' = timer_queue - 1
  /\ UNCHANGED <<timer, end_of_test, light, reg, history>>

\* timer_get_counter_value latches the counter too.
EvtLatch ==
  /\ Step("evt", "evtLatch", "evtFlag")
  /\ latched' = cnt
  /\ UNCHANGED <<cnt, alarm, alarm_en, counter_en, int_st, timer_queue,
                 end_of_test, light, reg, history>>

\* Whatever the event's type, an event of timer 0 ends the test.
EvtFlag ==
  /\ Step("evt", "evtFlag", "idle")
  /\ end_of_test' = TRUE
  /\ UNCHANGED <<timer, timer_queue, light, reg, history>>

Evt == EvtReceive \/ EvtLatch \/ EvtFlag
-----------------------------------------------------------------------------
(* app_emergency_light_test_button(false), by azure_task or the LED task:  *)
(* the pin, then the status.                                               *)

OffPin(a) ==
  /\ Step(a, "offPin", "offStatus")
  /\ gpio' = 0
  /\ UNCHANGED <<timer, timer_queue, end_of_test, status_el_gi, reg, history>>

\* Fault: the status is set where it should be cleared.
OffStatusInverted(a) ==
  /\ Step(a, "offStatus", "idle")
  /\ status_el_gi' = 1
  /\ UNCHANGED <<timer, timer_queue, end_of_test, gpio, reg, history>>

OffStatus(a) ==
  /\ Step(a, "offStatus", "idle")
  /\ status_el_gi' = 0
  /\ UNCHANGED <<timer, timer_queue, end_of_test, gpio, reg, history>>

\* app_el_test_manager, once a second in led_flash_control.
LedManager ==
  /\ end_of_test
  /\ Step("led", "idle", "offPin")
  /\ startedFresh' = (startedFresh /\ ~StartingTest)
  /\ UNCHANGED <<timer, timer_queue, end_of_test, light, reg, startedAt,
                 crossed, commands>>

Led == LedManager \/ OffPin("led") \/ OffStatus("led")
-----------------------------------------------------------------------------
(* ReceiveMessageCallback in azure_task.                                   *)

\* "TEST ON" or "TEST OFF"; other messages change nothing.
Receive(command) ==
  /\ commands < MaxCommands
  /\ Step("azure", "idle", IF command = "TEST ON" THEN "onPin" ELSE "offPin")
  /\ commands' = commands + 1
  /\ crossed' = \/ crossed
                \/ command = "TEST ON" /\ (int_st \/ pc["isr"] # "idle")
  /\ UNCHANGED <<timer, timer_queue, end_of_test, light, reg, startedAt,
                 startedFresh>>

OnPin ==
  /\ Step("azure", "onPin", "onStatus")
  /\ gpio' = 1
  /\ startedAt' = cnt
  /\ startedFresh' = (/\ ~counter_en /\ timer_queue = 0
                      /\ pc["evt"] = "idle" /\ pc["led"] = "idle")
  /\ UNCHANGED <<timer, timer_queue, end_of_test, status_el_gi, reg, crossed,
                 commands>>

OnStatus ==
  /\ Step("azure", "onStatus", "onRead")
  /\ status_el_gi' = 1
  /\ UNCHANGED <<timer, timer_queue, end_of_test, gpio, reg, history>>

\* eve_timer_trigger reads the counter as it was last latched.
OnRead ==
  /\ Step("azure", "onRead", "onClear")
  /\ reg' = [reg EXCEPT !["azure"] = latched]
  /\ UNCHANGED <<timer, timer_queue, end_of_test, light, history>>

OnClear ==
  /\ Step("azure", "onClear", "onAlarm")
  /\ int_st' = FALSE
  /\ UNCHANGED <<cnt, latched, alarm, alarm_en, counter_en, timer_queue,
                 end_of_test, light, reg, history>>

\* Fault: the time-out is counted from one tick later.
OnAlarmLate ==
  /\ Step("azure", "onAlarm", "onStart")
  /\ alarm' = reg["azure"] + TIMER_EL_TEST_TIMEOUT_SEC + 1
  /\ UNCHANGED <<cnt, latched, alarm_en, counter_en, int_st, timer_queue,
                 end_of_test, light, reg, history>>

\* Fault: the alarm value is the interval of the interrupt handler.
OnAlarmInterval ==
  /\ Step("azure", "onAlarm", "onStart")
  /\ alarm' = reg["azure"] + TIMER_INTERVAL0_SEC
  /\ UNCHANGED <<cnt, latched, alarm_en, counter_en, int_st, timer_queue,
                 end_of_test, light, reg, history>>

OnAlarm ==
  /\ Step("azure", "onAlarm", "onStart")
  /\ alarm' = reg["azure"] + TIMER_EL_TEST_TIMEOUT_SEC
  /\ UNCHANGED <<cnt, latched, alarm_en, counter_en, int_st, timer_queue,
                 end_of_test, light, reg, history>>

\* Fault: the paused timer is not started again.
OnStartMissing ==
  /\ Step("azure", "onStart", "onFlag")
  /\ UNCHANGED <<timer, timer_queue, end_of_test, light, reg, history>>

\* timer_start; the alarm is not armed again (that line is commented out).
OnStart ==
  /\ Step("azure", "onStart", "onFlag")
  /\ counter_en' = TRUE
  /\ UNCHANGED <<cnt, latched, alarm, alarm_en, int_st, timer_queue,
                 end_of_test, light, reg, history>>

OnFlag ==
  /\ Step("azure", "onFlag", "idle")
  /\ end_of_test' = FALSE
  /\ UNCHANGED <<timer, timer_queue, light, reg, history>>

Azure ==
  \/ \E command \in {"TEST ON", "TEST OFF"} : Receive(command)
  \/ OnPin \/ OnStatus \/ OnRead \/ OnClear \/ OnAlarm \/ OnStart \/ OnFlag
  \/ OffPin("azure") \/ OffStatus("azure")

\* A command that has arrived is executed; none has to arrive.
AzureGoesOn == Azure /\ pc["azure"] # "idle"
-----------------------------------------------------------------------------
\* Every interleaving of the accesses.  No actor is held up for as long as a
\* tick between its first and its last access, and no interrupt is pending that
\* long: a tick is a good part of a second.  An event may wait in the queue, and
\* the LED task between two passes, for any number of them.
TickBetween == Tick /\ ~int_st /\ \A a \in Actors : pc[a] = "idle"

Next == Fire \/ TickBetween \/ Isr \/ Evt \/ Led \/ Azure

\* Time passes, the interrupt is taken, and FreeRTOS runs the three tasks.
Fairness == /\ WF_vars(Fire) /\ SF_vars(TickBetween) /\ WF_vars(Isr)
            /\ WF_vars(Evt) /\ WF_vars(Led) /\ WF_vars(AzureGoesOn)

Spec == Init /\ [][Next]_vars /\ Fairness
-----------------------------------------------------------------------------
\* The latched counter never runs ahead of the counter, and the queue never
\* holds more than it was created for (timer_group.c:221).
TypeOK ==
  /\ cnt \in 0 .. MaxCount /\ latched \in 0 .. cnt
  /\ alarm \in Nat /\ alarm_en \in BOOLEAN
  /\ counter_en \in BOOLEAN /\ int_st \in BOOLEAN
  /\ timer_queue \in 0 .. QueueLength
  /\ end_of_test \in BOOLEAN
  /\ gpio \in {0, 1} /\ status_el_gi \in {0, 1}

\* When the test is over for good, pin and status end up off, together and for
\* good, however TEST ON, TEST OFF and the LED task's passes interleaved
\* (gpio_ctrl.c:155-183): the manager repeats what a race undid.
EndedMeansOff == <>[]end_of_test => <>[](gpio = 0 /\ status_el_gi = 0)

\* "start timer for end of test" (gpio_ctrl.c:160): a light switched on is
\* switched off again without another command.
EveryTestEnds == gpio = 1 ~> gpio = 0

\* It is, whatever else interleaves (the event task with a new TEST ON, :165 and
\* :211, the LED task with either), unless the alarm of an earlier test was
\* raised or handled inside a TEST ON (timer_group.c:93-100 against :153-165).
TestEnds == []~crossed => EveryTestEnds

\* No test outlasts its time: while the light is on, the flag is down and no
\* command is under way, the time since the last TEST ON is within
\* TIMER_EL_TEST_TIMEOUT_SEC (gpio_ctrl.c:160, timer_group.c:153-166), although
\* eve_timer_trigger reads the counter without latching it.
OffInTime ==
  pc["azure"] = "idle" /\ ~end_of_test /\ gpio = 1 /\ ~crossed =>
    cnt <= startedAt + TIMER_EL_TEST_TIMEOUT_SEC

\* "emergency light test time out ... set it to 1 minute for test"
\* (gpio_ctrl.c:42): when a TEST ON found the timer at rest, the end of the test
\* switches the light off only when that time has passed, although the alarm
\* starts from a counter value that the interrupt or the event task latched
\* (timer_group.c:155) and the interrupt handler set the alarm before (:95-98).
RunsFullTime == [][OffPin("led") /\ gpio = 1 /\ startedFresh /\ ~crossed =>
                     cnt >= startedAt + TIMER_EL_TEST_TIMEOUT_SEC]_vars
==============================================================================
