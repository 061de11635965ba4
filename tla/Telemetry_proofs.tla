--------------------------- MODULE Telemetry_proofs ---------------------------
(***************************************************************************)
(* Proofs about adc_task for all deadbands and heartbeats, and about its   *)
(* composition with azure_task for every ring and every messages[].  The   *)
(* composition extends the module of the one and instantiates that of the  *)
(* other, whose proofs are instantiated with it.                           *)
(***************************************************************************)
EXTENDS Telemetry, TLAPS

\* The assumption without the width of the counter.
LEMMA SamplerConstants ==
  /\ MaxMv \in Nat /\ Deadband1 \in Nat /\ Deadband2 \in Nat
  /\ Heartbeat \in Nat \ {0}
BY SamplerAssumption, SMTT(30)

\* What lies strictly between 0 and h is no multiple of h.
LEMMA NoMultiple ==
  ASSUME NEW h \in Nat, NEW c \in Nat, c > 0, c < h
  PROVE  c % h # 0
OBVIOUS

\* 0 and h are multiples of h.
LEMMA NotAtMultiple ==
  ASSUME NEW h \in Nat \ {0}, NEW c, c % h # 0
  PROVE  c # 0 /\ c # h
<1>1. 0 % h = 0 /\ h % h = 0
  OBVIOUS
<1>2. QED BY <1>1, Zenon

\* cnt is one more than the passes since the last report once a pass is over,
\* and the same while a pass is under way; before the first report it is zero.
CountsSilence ==
  IF silent = -1 THEN cnt = 0 /\ pc # "delay" ELSE cnt = silent + 1

IInv == TypeOK /\ CountsSilence /\ ReportIsClose

\* adc_task starts in the invariant, and no step of it or of the light leaves it.
LEMMA InitIInv == Init => IInv
<1> SUFFICES ASSUME Init
             PROVE  IInv
    OBVIOUS
<1>1. 0 \in Mv /\ 0 \in Status
  BY SamplerConstants DEF Mv, Status
<1>2. 0 \in 0 .. Heartbeat /\ -1 \in -1 .. Heartbeat - 1
  BY SamplerConstants
<1>3. TypeOK
  BY <1>1, <1>2 DEF Init, TypeOK
<1>4. CountsSilence /\ ReportIsClose
  BY DEF Init, CountsSilence, ReportIsClose
<1>5. QED BY <1>3, <1>4 DEF IInv

\* A reading that is exactly what was reported is within every deadband.
LEMMA NoDistance ==
  ASSUME NEW m \in Mv
  PROVE  Distance(m, m) = 0
BY SamplerConstants DEF Distance, Mv

\* What Moved denies is what ReportIsClose claims.
LEMMA NotMoved ==
  ASSUME TypeOK, ~Moved
  PROVE  /\ Distance(tmp_data_queue.mv1, mv1_new) <= Deadband1
         /\ Distance(tmp_data_queue.mv2, mv2_new) <= Deadband2
         /\ tmp_data_queue.status = status_el_new
<1>1. /\ tmp_data_queue.mv1 \in Mv /\ tmp_data_queue.mv2 \in Mv
      /\ tmp_data_queue.status \in {0, 1} /\ status_el_new \in {0, 1}
      /\ mv1_new \in Mv /\ mv2_new \in Mv
  BY DEF TypeOK, Report, Status
<1>2. ~(Distance(tmp_data_queue.status, status_el_new) > 0)
  BY DEF Moved
<1>3. tmp_data_queue.status = status_el_new
  BY <1>1, <1>2 DEF Distance
<1>4. \A a, b \in Mv : Distance(a, b) \in Nat
  BY SamplerConstants DEF Distance, Mv
<1>5. /\ Distance(tmp_data_queue.mv1, mv1_new) \in Nat
      /\ Distance(tmp_data_queue.mv2, mv2_new) \in Nat
  BY <1>1, <1>4
<1>6. /\ ~(Distance(tmp_data_queue.mv1, mv1_new) > Deadband1)
      /\ ~(Distance(tmp_data_queue.mv2, mv2_new) > Deadband2)
  BY DEF Moved
<1>7. QED BY <1>3, <1>5, <1>6, SamplerConstants

LEMMA StepIInv == IInv /\ [Next]_vars => IInv'
<1> SUFFICES ASSUME IInv, [Next]_vars
             PROVE  IInv'
    OBVIOUS
<1>0. TypeOK /\ CountsSilence /\ ReportIsClose
  BY DEF IInv
<1>1. CASE Sample
  <2>1. TypeOK'
    BY <1>0, <1>1 DEF Sample, TypeOK
  <2>2. CountsSilence'
    BY <1>0, <1>1 DEF Sample, CountsSilence
  <2>3. ReportIsClose'
    BY <1>1 DEF Sample, ReportIsClose
  <2>4. QED BY <2>1, <2>2, <2>3 DEF IInv
<1>2. CASE ReadStatus
  <2>1. TypeOK'
    BY <1>0, <1>2 DEF ReadStatus, TypeOK
  <2>2. CountsSilence'
    BY <1>0, <1>2 DEF ReadStatus, CountsSilence
  <2>3. ReportIsClose'
    BY <1>2 DEF ReadStatus, ReportIsClose
  <2>4. QED BY <2>1, <2>2, <2>3 DEF IInv
<1>3. CASE SendReport
  <2>1. /\ pc' = "delay" /\ cnt' = 1 /\ silent' = 0
        /\ tmp_data_queue' = [mv1 |-> mv1_new, mv2 |-> mv2_new,
                              status |-> status_el_new]
        /\ UNCHANGED <<mv1_new, mv2_new, status_el_new, status_el_gi>>
    BY <1>3 DEF SendReport
  <2>2. TypeOK'
    <3>1. 1 \in 0 .. Heartbeat /\ 0 \in -1 .. Heartbeat - 1
      BY SamplerConstants
    <3>2. tmp_data_queue' \in Report
      BY <1>0, <2>1 DEF TypeOK, Report
    <3>3. QED BY <1>0, <2>1, <3>1, <3>2 DEF TypeOK
  <2>3. CountsSilence'
    BY <2>1 DEF CountsSilence
  <2>4. ReportIsClose'
    <3>1. /\ Distance(mv1_new, mv1_new) = 0 /\ Distance(mv2_new, mv2_new) = 0
      BY <1>0, NoDistance DEF TypeOK
    <3>2. /\ tmp_data_queue'.mv1 = mv1_new /\ tmp_data_queue'.mv2 = mv2_new
          /\ tmp_data_queue'.status = status_el_new
      BY <2>1
    <3>3. 0 <= Deadband1 /\ 0 <= Deadband2 /\ 0 # -1
      BY SamplerConstants
    <3>4. QED BY <2>1, <3>1, <3>2, <3>3 DEF ReportIsClose
  <2>5. QED BY <2>2, <2>3, <2>4 DEF IInv
<1>4. CASE StaySilent
  <2>1. /\ pc = "compare" /\ pc' = "delay"
        /\ cnt' = (cnt + 1) % 65536 /\ silent' = silent + 1
        /\ UNCHANGED <<tmp_data_queue, mv1_new, mv2_new, status_el_new,
                       status_el_gi>>
    BY <1>4 DEF StaySilent
  <2>2. cnt \in 1 .. Heartbeat - 1 /\ silent = cnt - 1
    <3>1. Heartbeat \in Nat \ {0}
      BY SamplerConstants
    <3>2. cnt # 0 /\ cnt # Heartbeat
      <4>1. cnt % Heartbeat # 0
        BY <1>4 DEF StaySilent, Due
      <4>2. QED BY ONLY <4>1, <3>1, NotAtMultiple, Zenon
    <3>3. cnt \in 0 .. Heartbeat /\ silent \in Int
      BY <1>0, SamplerConstants DEF TypeOK
    <3>4. silent # -1 => cnt = silent + 1
      BY <1>0 DEF CountsSilence
    <3>5. silent = -1 => cnt = 0
      BY <1>0 DEF CountsSilence
    <3>6. QED BY <3>1, <3>2, <3>3, <3>4, <3>5
  <2>3. cnt' = cnt + 1 /\ silent' = cnt
    <3>1. (cnt + 1) % 65536 = cnt + 1
      BY <2>2, SamplerAssumption, SMTT(30)
    <3>2. QED BY <2>1, <2>2, <3>1, SamplerConstants
  <2>4. TypeOK'
    <3>1. cnt' \in 0 .. Heartbeat /\ silent' \in -1 .. Heartbeat - 1
      BY <2>2, <2>3, SamplerConstants
    <3>2. QED BY <1>0, <2>1, <3>1 DEF TypeOK
  <2>5. CountsSilence'
    BY <2>2, <2>3, SamplerConstants DEF CountsSilence
  <2>6. ReportIsClose'
    <3>1. silent' # -1
      BY <2>2, <2>3, SamplerConstants
    <3>2. ~Moved
      BY <1>4 DEF StaySilent, Due
    <3>3. QED BY <1>0, <2>1, <3>1, <3>2, NotMoved DEF ReportIsClose
  <2>7. QED BY <2>4, <2>5, <2>6 DEF IInv
<1>5. CASE Delay
  <2>1. TypeOK'
    BY <1>0, <1>5 DEF Delay, TypeOK, locals
  <2>2. silent # -1
    BY <1>0, <1>5 DEF Delay, ReportIsClose
  <2>3. CountsSilence'
    BY <1>0, <1>5, <2>2 DEF Delay, CountsSilence, locals
  <2>4. ReportIsClose'
    BY <1>5 DEF Delay, ReportIsClose
  <2>5. QED BY <2>1, <2>3, <2>4 DEF IInv
<1>6. CASE SwitchLight
  <2>1. status_el_gi' \in Status
    BY <1>0, <1>6 DEF SwitchLight, TypeOK, Status
  <2>2. UNCHANGED <<pc, tmp_data_queue, mv1_new, mv2_new, status_el_new, cnt,
                    silent>>
    BY <1>6 DEF SwitchLight, locals
  <2>3. TypeOK'
    BY <1>0, <2>1, <2>2 DEF TypeOK
  <2>4. CountsSilence' /\ ReportIsClose'
    BY <1>0, <2>2 DEF CountsSilence, ReportIsClose
  <2>5. QED BY <2>3, <2>4 DEF IInv
<1>7. CASE UNCHANGED vars
  <2>1. TypeOK'
    BY <1>0, <1>7 DEF vars, locals, TypeOK
  <2>2. CountsSilence' /\ ReportIsClose'
    BY <1>0, <1>7 DEF vars, locals, CountsSilence, ReportIsClose
  <2>3. QED BY <2>1, <2>2 DEF IInv
<1>8. QED
  BY <1>1, <1>2, <1>3, <1>4, <1>5, <1>6, <1>7 DEF Next, AdcTask

LEMMA Invariance == Init /\ [][Next]_vars => []IInv
BY InitIInv, StepIInv, PTL

\* The counter of passes never exceeds the heartbeat, so that its sixteen bits
\* never wrap, for every heartbeat that they can count to.
THEOREM TypeCorrect == Spec => []TypeOK
<1>1. IInv => TypeOK
  BY DEF IInv
<1>2. QED BY <1>1, Invariance, PTL DEF Spec

\* After every pass the last report is within the deadbands of the measurement.
THEOREM ReportCorrect == Spec => []ReportIsClose
<1>1. IInv => ReportIsClose
  BY DEF IInv
<1>2. QED BY <1>1, Invariance, PTL DEF Spec

\* A report of a quiet device is one for which the counter is a multiple of
\* the heartbeat, and it counts no further than that.
LEMMA HeartbeatStep ==
  IInv => (SendReport /\ ~Moved => silent \in {-1, Heartbeat - 1})
<1> SUFFICES ASSUME IInv, SendReport, ~Moved, silent # -1
             PROVE  silent = Heartbeat - 1
    OBVIOUS
<1>1. cnt % Heartbeat = 0 /\ cnt \in 1 .. Heartbeat /\ cnt = silent + 1
  <2>1. cnt % Heartbeat = 0
    BY DEF SendReport, Due
  <2>2. cnt \in 0 .. Heartbeat /\ silent \in -1 .. Heartbeat - 1
    BY DEF IInv, TypeOK
  <2>3. cnt = silent + 1
    BY DEF IInv, CountsSilence
  <2>4. QED BY <2>1, <2>2, <2>3, SamplerConstants
<1>2. cnt = Heartbeat
  <2>1. ~(cnt < Heartbeat)
    BY <1>1, NoMultiple, SamplerConstants
  <2>2. QED BY <1>1, <2>1, SamplerConstants
<1>3. QED BY <1>1, <1>2, SamplerConstants DEF IInv, TypeOK

\* A quiet device reports exactly on the Heartbeat-th pass, for every heartbeat
\* that sixteen bits can count to.
THEOREM HeartbeatCorrect == Spec => HeartbeatOnTime
BY HeartbeatStep, Invariance, PTL DEF Spec, HeartbeatOnTime

-----------------------------------------------------------------------------
(***************************************************************************)
(* The composition.  Its steps are steps of each part or leave it alone,   *)
(* so that what is proved of the parts is true of it.                      *)
(***************************************************************************)
ClientProofs ==
  INSTANCE IoTHubClient_proofs WITH pc <- azure_pc, queued <- Len(readings)

\* The assumption of the client is that of the composition.
LEMMA ClientConstants == ClientProofs!ClientAssumption
BY PathAssumption DEF ClientProofs!ClientAssumption

\* A step of the composition is one of the sampler or leaves it alone.
LEMMA SamplerStep == [NextTelemetry]_varsTelemetry => [Next]_vars
<1>1. AdcStep \/ Switch => Next
  BY DEF AdcStep, InsertReport, AdcElse, Switch, Next, AdcTask
<1>2. AzureStep \/ Network => UNCHANGED vars
  BY DEF AzureStep, SendReading, DestroyHandle, AzureElse, Network
<1>3. ASSUME NEW i \in Client!Index, Delivered(i) \/ Failed(i)
      PROVE  UNCHANGED vars
  BY <1>3 DEF Delivered, Failed
<1>4. UNCHANGED varsTelemetry => UNCHANGED vars
  BY DEF varsTelemetry
<1>5. QED BY <1>1, <1>2, <1>3, <1>4 DEF NextTelemetry

\* What the composition leaves alone of the client.
LEMMA ClientAlone == UNCHANGED <<azure, path>> => UNCHANGED Client!vars
BY DEF azure, path, Client!vars, Client!counters, Client!flags

\* A step of the composition is one of the client or leaves it alone.
LEMMA ClientStep == [NextTelemetry]_varsTelemetry => [Client!Next]_(Client!vars)
<1>1. InsertReport => Client!Next
  BY DEF InsertReport, Client!Next
<1>2. AdcElse \/ Switch => UNCHANGED Client!vars
  BY ClientAlone DEF AdcElse, Switch
<1>3. AzureStep => Client!Next
  BY DEF AzureStep, SendReading, DestroyHandle, AzureElse, Client!Next,
         Client!AzureStep
<1>4. Network => Client!Next
  BY DEF Network, Client!Next, Client!Sdk
<1>5. ASSUME NEW i \in Client!Index, Delivered(i) \/ Failed(i)
      PROVE  Client!Next
  BY <1>5 DEF Delivered, Failed, Client!Next, Client!Sdk
<1>6. UNCHANGED varsTelemetry => UNCHANGED Client!vars
  BY ClientAlone DEF varsTelemetry
<1>7. QED BY <1>1, <1>2, <1>3, <1>4, <1>5, <1>6 DEF NextTelemetry, AdcStep

\* adc_task in the composition is adc_task alone: what AdcSampler promises
\* holds whatever azure_task does with the reports.
THEOREM SamplerInside == SpecTelemetry => Init /\ [][Next]_vars
<1>1. InitTelemetry => Init
  BY DEF InitTelemetry
<1>2. QED BY <1>1, SamplerStep, PTL DEF SpecTelemetry

\* azure_task in the composition is azure_task alone, with the readings of
\* adc_task for those that its own module lets come at any time.
THEOREM ClientInside ==
  SpecTelemetry => Client!Init /\ [][Client!Next]_(Client!vars)
<1>1. InitTelemetry => Client!Init
  BY DEF InitTelemetry
<1>2. QED BY <1>1, ClientStep, PTL DEF SpecTelemetry

\* The client keeps its inductive invariant in the composition.
LEMMA ClientInit ==
  InitTelemetry => ClientProofs!IInv /\ ClientProofs!NoHandleNothingPending
<1>1. InitTelemetry => ClientProofs!Init
  BY DEF InitTelemetry, Client!Init, ClientProofs!Init
<1>2. QED
  BY <1>1, ClientConstants, ClientProofs!InitIInv,
     ClientProofs!InitNothingPending

\* The client whose proofs are cited is the client of the composition.
LEMMA SameClient ==
  /\ [Client!Next]_(Client!vars) => [ClientProofs!Next]_(ClientProofs!vars)
  /\ Client!Index = ClientProofs!Index
  /\ Client!MaySend = ClientProofs!MaySend
  /\ Client!SendIndex = ClientProofs!SendIndex
  /\ Client!GiveUp = ClientProofs!GiveUp
<1>1. UNCHANGED Client!vars => UNCHANGED ClientProofs!vars
  BY DEF Client!vars, Client!counters, Client!flags,
         ClientProofs!vars, ClientProofs!counters, ClientProofs!flags
<1>2. /\ Client!Index = ClientProofs!Index
      /\ Client!MaySend = ClientProofs!MaySend
      /\ Client!SendIndex = ClientProofs!SendIndex
      /\ Client!Confirmed = ClientProofs!Confirmed
  BY DEF Client!Index, ClientProofs!Index, Client!MaySend,
         ClientProofs!MaySend, Client!SendIndex, ClientProofs!SendIndex,
         Client!Confirmed, ClientProofs!Confirmed
<1>3. /\ Client!counters = ClientProofs!counters
      /\ Client!counters' = ClientProofs!counters'
      /\ Client!flags = ClientProofs!flags
      /\ Client!flags' = ClientProofs!flags'
  BY DEF Client!counters, Client!flags, ClientProofs!counters,
         ClientProofs!flags
<1>4. Client!AzureStep => ClientProofs!AzureStep
  <2>1. /\ Client!AzureTask => ClientProofs!AzureTask
        /\ Client!CreateFails => ClientProofs!CreateFails
        /\ Client!CallbackFails => ClientProofs!CallbackFails
        /\ Client!OpenHandle => ClientProofs!OpenHandle
    BY <1>3
       DEF Client!AzureTask, ClientProofs!AzureTask,
           Client!CreateFails, ClientProofs!CreateFails,
           Client!CallbackFails, ClientProofs!CallbackFails,
           Client!OpenHandle, ClientProofs!OpenHandle
  <2>2. /\ Client!InitFails => ClientProofs!InitFails
        /\ Client!GiveUp => ClientProofs!GiveUp
    BY <1>3
       DEF Client!InitFails, ClientProofs!InitFails, Client!GiveUp,
           ClientProofs!GiveUp, Client!Return, ClientProofs!Return
  <2>3. /\ Client!NothingToSend => ClientProofs!NothingToSend
        /\ Client!SendAccepted => ClientProofs!SendAccepted
        /\ Client!SendRefused => ClientProofs!SendRefused
    BY <1>2, <1>3
       DEF Client!NothingToSend, ClientProofs!NothingToSend,
           Client!SendAccepted, ClientProofs!SendAccepted,
           Client!SendRefused, ClientProofs!SendRefused
  <2>4. /\ Client!KeepLooping => ClientProofs!KeepLooping
        /\ Client!LeaveLoop => ClientProofs!LeaveLoop
        /\ Client!DrainOver => ClientProofs!DrainOver
    BY <1>3
       DEF Client!KeepLooping, ClientProofs!KeepLooping,
           Client!LeaveLoop, ClientProofs!LeaveLoop, Client!DrainOver,
           ClientProofs!DrainOver
  <2>5. /\ Client!Destroy => ClientProofs!Destroy
        /\ Client!Reconnect => ClientProofs!Reconnect
    BY <1>3
       DEF Client!Destroy, ClientProofs!Destroy, Client!Reconnect,
           ClientProofs!Reconnect, Client!Cardinality,
           ClientProofs!Cardinality
  <2>6. QED
    BY <2>1, <2>2, <2>3, <2>4, <2>5
       DEF Client!AzureStep, ClientProofs!AzureStep
<1>5. Client!Sdk => ClientProofs!Sdk
  BY <1>2, <1>3
     DEF Client!Sdk, Client!Confirm, Client!SocketError, ClientProofs!Sdk,
         ClientProofs!Confirm, ClientProofs!SocketError
<1>6. Client!Insert \/ Client!WifiChange =>
        ClientProofs!Insert \/ ClientProofs!WifiChange
  BY <1>3
     DEF Client!Insert, Client!WifiChange, ClientProofs!Insert,
         ClientProofs!WifiChange
<1>7. Client!GiveUp = ClientProofs!GiveUp
  BY <1>3 DEF Client!GiveUp, Client!Return, ClientProofs!GiveUp,
              ClientProofs!Return
<1>8. QED
  BY <1>1, <1>2, <1>4, <1>5, <1>6, <1>7 DEF Client!Next, ClientProofs!Next

\* What is inductive in the client is inductive in the composition.
LEMMA ClientPreserved ==
  /\ ClientProofs!IInv /\ [NextTelemetry]_varsTelemetry => ClientProofs!IInv'
  /\ ClientProofs!NoHandleNothingPending /\ [NextTelemetry]_varsTelemetry
       => ClientProofs!NoHandleNothingPending'
BY ClientStep, SameClient, ClientConstants, ClientProofs!StepIInv,
   ClientProofs!StepNothingPending
-----------------------------------------------------------------------------
\* An insertion into the ring, full or not.  Its length is what Client!Insert
\* says of queued, which is thus no further condition on InsertReport.
LEMMA RingInsert ==
  ASSUME NEW S, NEW q \in Seq(S), NEW x \in S, NEW n \in Nat \ {0},
         NEW r, r = Append(IF Len(q) < n THEN q ELSE Tail(q), x)
  PROVE  /\ r \in Seq(S) /\ r # << >> /\ r[Len(r)] = x
         /\ Len(r) = IF Len(q) < n THEN Len(q) + 1 ELSE Len(q)
<1>1. CASE Len(q) < n
  BY <1>1
<1>2. CASE ~(Len(q) < n)
  <2>1. q # << >> /\ Tail(q) \in Seq(S) /\ Len(Tail(q)) = Len(q) - 1
    BY <1>2
  <2>2. r = Append(Tail(q), x)
    BY <1>2
  <2>3. QED BY <1>2, <2>1, <2>2
<1>3. QED BY <1>1, <1>2

\* A removal from the ring, likewise with Client!SendAccepted.
LEMMA RingTake ==
  ASSUME NEW S, NEW q \in Seq(S), q # << >>
  PROVE  /\ Head(q) \in S /\ Tail(q) \in Seq(S) /\ Len(Tail(q)) = Len(q) - 1
         /\ Tail(q) = << >> => Head(q) = q[Len(q)]
         /\ Tail(q) # << >> => Tail(q)[Len(Tail(q))] = q[Len(q)]
<1>1. Head(q) \in S /\ Tail(q) \in Seq(S) /\ Len(Tail(q)) = Len(q) - 1
  OBVIOUS
<1>2. Tail(q) = << >> => Head(q) = q[Len(q)]
  <2>1. Tail(q) = << >> => Len(q) = 1
    BY <1>1
  <2>2. QED BY <2>1
<1>3. Tail(q) # << >> => Tail(q)[Len(Tail(q))] = q[Len(q)]
  OBVIOUS
<1>4. QED BY <1>1, <1>2, <1>3

\* What is under way are reports.
Carried ==
  /\ readings \in Seq(Report)
  /\ message \in [pending -> Report]
  /\ hub \in Report \cup {NoReport}

\* The last report is the newest entry of the ring or, when all were sent, in
\* what is still to be confirmed.
Newest ==
  /\ readings # << >> => readings[Len(readings)] = tmp_data_queue
  /\ readings = << >> => \A i \in pending : message[i] = tmp_data_queue

PathInv == Carried /\ Newest

\* A step that sends, inserts, confirms and reports nothing.
LEMMA PathKept ==
  ASSUME PathInv, readings' = readings, message' = message, hub' = hub,
         pending' = pending, tmp_data_queue' = tmp_data_queue
  PROVE  PathInv'
BY DEF PathInv, Carried, Newest

\* An answer of the SDK, after which fewer messages are pending.
LEMMA PathAnswered ==
  ASSUME PathInv, readings' = readings, Forget, pending' \subseteq pending,
         hub' \in {hub} \cup {message[i] : i \in pending},
         tmp_data_queue' = tmp_data_queue
  PROVE  PathInv'
<1>1. message' \in [pending' -> Report] /\ hub' \in Report \cup {NoReport}
  BY DEF PathInv, Carried, Forget
<1>2. \A i \in pending' : message'[i] = message[i]
  BY DEF Forget
<1>3. Carried'
  BY <1>1 DEF PathInv, Carried
<1>4. Newest'
  BY <1>2 DEF PathInv, Newest
<1>5. QED BY <1>3, <1>4 DEF PathInv

\* The step that needs the invariant of the client is the send: nothing else is
\* pending then, so the reading that empties the ring is all there is to confirm.
LEMMA StepPathInv ==
  IInv /\ ClientProofs!IInv /\ PathInv /\ [NextTelemetry]_varsTelemetry
    => PathInv'
<1> SUFFICES ASSUME IInv, ClientProofs!IInv, PathInv,
                    [NextTelemetry]_varsTelemetry
             PROVE  PathInv'
    OBVIOUS
<1>1. CASE InsertReport
  <2>1. tmp_data_queue' \in Report
    BY <1>1, SamplerStep, StepIInv DEF IInv, TypeOK
  <2>2. pending' = pending /\ message' = message /\ hub' = hub
    BY <1>1 DEF InsertReport, Client!Insert, Client!counters
  <2>3. readings' \in Seq(Report) /\ readings' # << >>
        /\ readings'[Len(readings')] = tmp_data_queue'
    BY <1>1, <2>1, RingInsert, PathAssumption
       DEF InsertReport, PathInv, Carried
  <2>4. QED BY <2>2, <2>3 DEF PathInv, Carried, Newest
<1>2. CASE AdcElse \/ Switch
  BY <1>2, PathKept
     DEF AdcElse, Switch, Sample, ReadStatus, StaySilent, Delay, SwitchLight,
         locals, azure, path
<1>3. CASE SendReading
  <2>1. /\ readings # << >> /\ readings' = Tail(readings) /\ hub' = hub
        /\ tmp_data_queue' = tmp_data_queue
    BY <1>3 DEF SendReading, vars, locals
  <2>2. pending' = {Client!SendIndex}
    <3>1. pending = {}
      BY <1>3, SameClient, ClientConstants, ClientProofs!GateMeansSettled
         DEF SendReading, Client!SendAccepted
    <3>2. QED BY <1>3, <3>1 DEF SendReading, Client!SendAccepted
  <2>3. message' = [i \in {Client!SendIndex} |-> Head(readings)]
    BY <1>3, <2>2 DEF SendReading
  <2>4. readings \in Seq(Report)
    BY DEF PathInv, Carried
  <2>5. Carried'
    BY <2>1, <2>2, <2>3, <2>4, RingTake DEF PathInv, Carried
  <2>6. Newest'
    BY <2>1, <2>2, <2>3, <2>4, RingTake DEF PathInv, Newest
  <2>7. QED BY <2>5, <2>6 DEF PathInv
<1>4. CASE DestroyHandle
  BY <1>4, PathAnswered DEF DestroyHandle, Client!Destroy, vars, locals
<1>5. CASE AzureElse \/ Network
  <2>1. pending' = pending
    BY <1>5
       DEF AzureElse, Network, Client!AzureTask, Client!InitFails,
           Client!CreateFails, Client!CallbackFails, Client!OpenHandle,
           Client!NothingToSend, Client!SendRefused, Client!KeepLooping,
           Client!LeaveLoop, Client!DrainOver, Client!Reconnect,
           Client!GiveUp, Client!SocketError, Client!WifiChange,
           Client!counters
  <2>2. QED BY <1>5, <2>1, PathKept DEF AzureElse, Network, path, vars, locals
<1>6. ASSUME NEW i \in Client!Index, Delivered(i) \/ Failed(i)
      PROVE  PathInv'
  BY <1>6, PathAnswered DEF Delivered, Failed, Client!Confirm, vars, locals
<1>7. CASE UNCHANGED varsTelemetry
  BY <1>7, PathKept DEF varsTelemetry, vars, locals, azure, path
<1>8. QED
  BY <1>1, <1>2, <1>3, <1>4, <1>5, <1>6, <1>7
     DEF NextTelemetry, AdcStep, AzureStep

\* Nothing is under way at first.
LEMMA InitPathInv == InitTelemetry => PathInv
BY DEF InitTelemetry, Client!Init, PathInv, Carried, Newest

\* The inductive invariant of the composition.
LEMMA TelemetryInvariance ==
  SpecTelemetry =>
    []IInv /\ []ClientProofs!IInv /\ []ClientProofs!NoHandleNothingPending
    /\ []PathInv
<1>1. InitTelemetry => IInv
  BY InitIInv DEF InitTelemetry
<1>2. IInv /\ [NextTelemetry]_varsTelemetry => IInv'
  BY StepIInv, SamplerStep
<1>3. QED
  BY <1>1, <1>2, ClientInit, ClientPreserved, InitPathInv, StepPathInv, PTL
     DEF SpecTelemetry

\* The readings in the ring, in the messages and at the hub are reports of
\* the sampler, a message has a reading exactly as long as it is pending, and
\* the two tasks keep their types together, for every ring and messages[].
THEOREM TelemetryTypeCorrect == SpecTelemetry => []TypeOKTelemetry
<1>1. ClientProofs!IInv => Client!TypeOK
  BY SameClient DEF ClientProofs!IInv, ClientProofs!TypeOK, Client!TypeOK
<1>2. IInv /\ ClientProofs!IInv /\ PathInv => TypeOKTelemetry
  BY <1>1 DEF IInv, PathInv, Carried, TypeOKTelemetry
<1>3. QED BY <1>2, TelemetryInvariance, PTL

\* A delivery after which the ring is empty brings the hub the last report,
\* for every ring and messages[] and every loss of readings and connections.
THEOREM DeliveryCorrect == SpecTelemetry => CaughtUp
<1>1. PathInv =>
        \A i \in Client!Index :
          Delivered(i) /\ readings = << >> => hub' = tmp_data_queue
  BY DEF PathInv, Newest, Delivered, Client!Confirm
<1>2. QED BY <1>1, TelemetryInvariance, PTL DEF CaughtUp

\* In the composition adc_task keeps its promises, whose theorems are above.
THEOREM SamplerKeepsPromises ==
  SpecTelemetry => []ReportIsClose /\ HeartbeatOnTime
<1>1. Init /\ [][Next]_vars => []ReportIsClose
  <2>1. IInv => ReportIsClose
    BY DEF IInv
  <2>2. QED BY <2>1, Invariance, PTL
<1>2. Init /\ [][Next]_vars => HeartbeatOnTime
  BY HeartbeatStep, Invariance, PTL DEF HeartbeatOnTime
<1>3. QED BY <1>1, <1>2, SamplerInside, PTL

\* So does azure_task: with the readings of adc_task in its ring its counters
\* agree, the slot a send overwrites is free, nothing leaves the ring after a
\* refusal, and it gives up only between two runs of MESSAGE_COUNT messages.
THEOREM ClientKeepsPromises ==
  SpecTelemetry =>
    /\ []Client!CountersAgree /\ []Client!SlotIsFree
    /\ Client!RefusalIsFinal /\ Client!GiveUpOnlyAtBoundary
<1>1. ClientProofs!IInv => Client!CountersAgree /\ Client!SlotIsFree
  <2>1. ClientProofs!IInv => ClientProofs!SlotIsFree
    BY ClientConstants, ClientProofs!IInvSlot
  <2>2. ClientProofs!SlotIsFree => Client!SlotIsFree
    BY SameClient DEF ClientProofs!SlotIsFree, Client!SlotIsFree
  <2>3. QED
    BY <2>1, <2>2
       DEF ClientProofs!IInv, ClientProofs!CountersAgree, Client!CountersAgree
<1>2. ClientProofs!IInv /\ [NextTelemetry]_varsTelemetry =>
        [refused > 0 =>
           pending' = pending /\ Len(readings)' >= Len(readings)]_(Client!vars)
  <2>1. ClientProofs!IInv /\ [ClientProofs!Next]_(ClientProofs!vars) =>
          [refused > 0 =>
             pending' = pending
             /\ Len(readings)' >= Len(readings)]_(ClientProofs!vars)
    BY ClientConstants, ClientProofs!StepRefusal
  <2>2. Client!vars = ClientProofs!vars /\ Client!vars' = ClientProofs!vars'
    BY DEF Client!vars, Client!counters, Client!flags,
           ClientProofs!vars, ClientProofs!counters, ClientProofs!flags
  <2>3. QED BY <2>1, <2>2, ClientStep, SameClient
<1>3. ClientProofs!IInv /\ ClientProofs!NoHandleNothingPending =>
        (Client!GiveUp /\ refused = 0 => iterator \in {0, MESSAGE_COUNT})
  BY SameClient, ClientConstants, ClientProofs!IInvGiveUp
<1>4. SpecTelemetry => []Client!CountersAgree /\ []Client!SlotIsFree
  BY <1>1, TelemetryInvariance, PTL
<1>5. SpecTelemetry => Client!RefusalIsFinal
  BY <1>2, TelemetryInvariance, PTL DEF SpecTelemetry, Client!RefusalIsFinal
<1>6. SpecTelemetry => Client!GiveUpOnlyAtBoundary
  BY <1>3, TelemetryInvariance, PTL DEF Client!GiveUpOnlyAtBoundary
<1>7. QED BY <1>4, <1>5, <1>6

\* The ring of the composition as the queue that data_buffer.c implements.
Ring == INSTANCE FifoQueue WITH items <- readings, Data <- Report

\* On its ring the composition only does what the queue allows that DataBuffer is
\* proved to implement (data_buffer.c:58-96): the insertion of a report, which
\* drops the oldest from a full ring, and the removal of the reading sent.
THEOREM RingIsQueue == SpecTelemetry => Ring!Spec
<1>1. InitTelemetry => Ring!Init
  BY DEF InitTelemetry, Ring!Init
<1>2. IInv /\ PathInv /\ [NextTelemetry]_varsTelemetry => [Ring!Next]_readings
  <2> SUFFICES ASSUME IInv, PathInv, [NextTelemetry]_varsTelemetry
               PROVE  [Ring!Next]_readings
      OBVIOUS
  <2>1. CASE InsertReport
    <3>1. tmp_data_queue' \in Report
      BY <2>1, SamplerStep, StepIInv DEF IInv, TypeOK
    <3>2. readings \in Seq(Report)
      BY DEF PathInv, Carried
    <3>3. \/ ~Ring!IsFull /\ readings' = Append(readings, tmp_data_queue')
          \/ Ring!IsFull /\ readings' = Append(Tail(readings), tmp_data_queue')
      <4>1. Len(readings) \in Nat /\ Capacity \in Nat
        BY <3>2, PathAssumption
      <4>2. Ring!IsFull <=> ~(Len(readings) < Capacity)
        BY <4>1 DEF Ring!IsFull
      <4>3. QED BY <2>1, <4>2 DEF InsertReport
    <3>4. QED
      BY <3>1, <3>3 DEF Ring!Next, Ring!Put, Ring!PutDroppingOldest
  <2>2. CASE SendReading
    BY <2>2 DEF SendReading, Ring!Next, Ring!Take
  <2>3. CASE AdcElse \/ Switch \/ DestroyHandle \/ AzureElse \/ Network
    BY <2>3 DEF AdcElse, Switch, DestroyHandle, AzureElse, Network, path
  <2>4. ASSUME NEW i \in Client!Index, Delivered(i) \/ Failed(i)
        PROVE  UNCHANGED readings
    BY <2>4 DEF Delivered, Failed
  <2>5. CASE UNCHANGED varsTelemetry
    BY <2>5 DEF varsTelemetry, path
  <2>6. QED
    BY <2>1, <2>2, <2>3, <2>4, <2>5 DEF NextTelemetry, AdcStep, AzureStep
<1>3. QED
  BY <1>1, <1>2, TelemetryInvariance, PTL DEF SpecTelemetry, Ring!Spec
==============================================================================
