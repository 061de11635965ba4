----------------------------- MODULE AdcSampler ------------------------------
(***************************************************************************)
(* adc_task (adc.c): every five seconds it measures the brightness and the *)
(* supply voltage, reads the status of the emergency light, and inserts a  *)
(* report into the ring when something moved or when ten passes went by.   *)
(* The voltages are those of the 64-sample average after calibration; the  *)
(* light is switched by the other tasks at any moment.                     *)
(***************************************************************************)
EXTENDS Integers

CONSTANTS MaxMv,        \* bound on the voltages
          Deadband1,    \* 5: how far the brightness may move unreported
          Deadband2,    \* 10: how far the supply may move unreported
          Heartbeat     \* 10: passes after which a report is due anyway

ASSUME SamplerAssumption ==
  /\ MaxMv \in Nat /\ Deadband1 \in Nat /\ Deadband2 \in Nat
  /\ Heartbeat \in 1 .. 65535

VARIABLES pc,                       \* "sample", "status", "compare", "delay"
          tmp_data_queue,           \* the last report, unset at first
          mv1_new, mv2_new,         \* this pass's voltages
          status_el_new,            \* this pass's status
          cnt,                      \* passes since the last report, uint16_t
          status_el_gi,             \* gpio_ctrl.c's status
          silent                    \* history: passes since a report, or -1

locals == <<tmp_data_queue, mv1_new, mv2_new, status_el_new, cnt>>
vars == <<pc, locals, status_el_gi, silent>>

Mv == 0 .. MaxMv
Status == {0, 1}
Report == [mv1 : Mv, mv2 : Mv, status : Status]

Distance(a, b) == IF a < b THEN b - a ELSE a - b

\* tmp_data_queue is an uninitialised local.
Init ==
  /\ pc = "sample"
  /\ tmp_data_queue \in Report
  /\ mv1_new = 0 /\ mv2_new = 0 /\ status_el_new = 0
  /\ cnt = 0
  /\ status_el_gi = 0
  /\ silent = -1
-----------------------------------------------------------------------------
\* The two averages, converted to millivolts.
Sample ==
  /\ pc = "sample"
  /\ pc' = "status"
  /\ mv1_new' \in Mv /\ mv2_new' \in Mv
  /\ UNCHANGED <<tmp_data_queue, status_el_new, cnt, status_el_gi, silent>>

\* status_el_new = app_emergency_light_read_status();
ReadStatus ==
  /\ pc = "status"
  /\ pc' = "compare"
  /\ status_el_new' = status_el_gi
  /\ UNCHANGED <<tmp_data_queue, mv1_new, mv2_new, cnt, status_el_gi, silent>>

\* Fault: the supply voltage is compared with the wrong deadband.
MovedTooMuch == \/ Distance(tmp_data_queue.mv1, mv1_new) > Deadband1
                \/ Distance(tmp_data_queue.mv2, mv2_new) > Deadband2 + 1
                \/ Distance(tmp_data_queue.status, status_el_new) > 0

Moved == \/ Distance(tmp_data_queue.mv1, mv1_new) > Deadband1
         \/ Distance(tmp_data_queue.mv2, mv2_new) > Deadband2
         \/ Distance(tmp_data_queue.status, status_el_new) > 0

Due == Moved \/ cnt % Heartbeat = 0

\* Fault: the counter is not restarted by a report.
SendWithoutRestart ==
  /\ pc = "compare" /\ Due
  /\ pc' = "delay"
  /\ tmp_data_queue' = [mv1 |-> mv1_new, mv2 |-> mv2_new,
                        status |-> status_el_new]
  /\ cnt' = (cnt + 1) % 65536
  /\ silent' = 0
  /\ UNCHANGED <<mv1_new, mv2_new, status_el_new, status_el_gi>>

\* Fault: the counter restarts at zero for the next pass.
SendRestartsAtZero ==
  /\ pc = "compare" /\ Due
  /\ pc' = "delay"
  /\ tmp_data_queue' = [mv1 |-> mv1_new, mv2 |-> mv2_new,
                        status |-> status_el_new]
  /\ cnt' = 0
  /\ silent' = 0
  /\ UNCHANGED <<mv1_new, mv2_new, status_el_new, status_el_gi>>

\* Fault: the new status is not copied into the report.
SendOldStatus ==
  /\ pc = "compare" /\ Due
  /\ pc' = "delay"
  /\ tmp_data_queue' = [tmp_data_queue EXCEPT !.mv1 = mv1_new,
                                              !.mv2 = mv2_new]
  /\ cnt' = 1
  /\ silent' = 0
  /\ UNCHANGED <<mv1_new, mv2_new, status_el_new, status_el_gi>>

\* The report is inserted into the ring; cnt = 0 and then cnt++.
SendReport ==
  /\ pc = "compare" /\ Due
  /\ pc' = "delay"
  /\ tmp_data_queue' = [mv1 |-> mv1_new, mv2 |-> mv2_new,
                        status |-> status_el_new]
  /\ cnt' = 1
  /\ silent' = 0
  /\ UNCHANGED <<mv1_new, mv2_new, status_el_new, status_el_gi>>

\* Fault: a silent pass is not counted, so that no heartbeat comes.
SilentUncounted ==
  /\ pc = "compare" /\ ~Due
  /\ pc' = "delay"
  /\ UNCHANGED <<locals, status_el_gi, silent>>

StaySilent ==
  /\ pc = "compare" /\ ~Due
  /\ pc' = "delay"
  /\ cnt' = (cnt + 1) % 65536
  /\ silent' = silent + 1
  /\ UNCHANGED <<tmp_data_queue, mv1_new, mv2_new, status_el_new, status_el_gi>>

\* vTaskDelay(pdMS_TO_TICKS(5000))
Delay ==
  /\ pc = "delay"
  /\ pc' = "sample"
  /\ UNCHANGED <<locals, status_el_gi, silent>>

\* app_emergency_light_test_button, by azure_task or the LED task.
SwitchLight ==
  /\ status_el_gi' = 1 - status_el_gi
  /\ UNCHANGED <<pc, locals, silent>>

AdcTask == Sample \/ ReadStatus \/ SendReport \/ StaySilent \/ Delay

Next == AdcTask \/ SwitchLight

\* FreeRTOS runs adc_task.
Spec == Init /\ [][Next]_vars /\ WF_vars(AdcTask)
-----------------------------------------------------------------------------
TypeOK ==
  /\ pc \in {"sample", "status", "compare", "delay"}
  /\ tmp_data_queue \in Report
  /\ mv1_new \in Mv /\ mv2_new \in Mv
  /\ status_el_new \in Status /\ status_el_gi \in Status
  /\ cnt \in 0 .. Heartbeat
  /\ silent \in -1 .. Heartbeat - 1

\* After every pass the hub's picture is close to the measurement, although
\* each pass is compared with the last report and not with the last pass
\* (adc.c:94-98): slow drifts do not accumulate, and the uninitialised first
\* tmp_data_queue is never the reference.
ReportIsClose ==
  pc = "delay" =>
    /\ silent # -1
    /\ Distance(tmp_data_queue.mv1, mv1_new) <= Deadband1
    /\ Distance(tmp_data_queue.mv2, mv2_new) <= Deadband2
    /\ tmp_data_queue.status = status_el_new

\* adc.c:94-103: a quiet device reports on every Heartbeat-th pass after its
\* last report, neither later (the counter is restarted by every report, its
\* sixteen bits never wrap) nor earlier.
HeartbeatOnTime ==
  [][SendReport /\ ~Moved => silent \in {-1, Heartbeat - 1}]_vars

\* A status the light keeps is the status reported from some pass on
\* (adc.c:92-100 with gpio_ctrl.c:159,165): a switch between two samples is
\* caught by the next pass.
StatusArrives ==
  \A s \in Status : <>[](status_el_gi = s) => <>[](tmp_data_queue.status = s)
==============================================================================
