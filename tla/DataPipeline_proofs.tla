------------------------- MODULE DataPipeline_proofs --------------------------
(***************************************************************************)
(* Proofs about the telemetry pipeline, for a ring of 3 to 255 slots and   *)
(* any number of readings.  head and tail are moved in several steps, and  *)
(* each is past the last slot for a while, so the argument is about where  *)
(* they will be when the wrap-around is done (First, Past) and the number  *)
(* of entries between them (Count).                                        *)
(*                                                                         *)
(* IInv holds however the two tasks interleave: because their turns meet   *)
(* at most once (MeetsOnce), the two stores of head by removals that       *)
(* overlap are of the same value, and the ring never runs full or empty    *)
(* unseen (Counts); the slots then hold the latest readings (Stored).      *)
(* OInv adds what holds as long as no two calls overlap (~mixed): each     *)
(* task finds head as it left it (Apart), so that what was sent is older   *)
(* than what is left in the ring (Sent).                                   *)
(***************************************************************************)
EXTENDS DataPipeline, TLAPS

N == QUEUE_BUFFER_MAX

\* The task is in queue_buffer_removeData, before or after its store to head.
Removing == {"removeCheck", "headLoad", "headStore"}
Removed == {"headWrap", "decLoad", "decStore"}

\* adc_task has made room and not moved tail yet.
MadeRoom == Removed \cup {"isFull2", "tailStore"}
\* adc_task has a new reading and not moved tail yet.
BeforeTail == {"isFull1"} \cup Removing \cup MadeRoom
\* tail is moved and its wrap-around not done.
Filling == {"copy", "tailWrap"}

AdcPoint == {"idle", "incLoad", "incStore"} \cup BeforeTail \cup Filling
AzurePoint == {"poll", "peek", "send", "sleep"} \cup Removing \cup Removed

Other(t) == IF t = "adc" THEN "azure" ELSE "adc"

\* How far it is from slot i on to slot j, and the slot i before slot s.
Dist(i, j) == IF j >= i THEN j - i ELSE j + N - i
Back(s, i) == IF s >= i THEN s - i ELSE s + N - i

\* Where head and tail are once a pending wrap-around is done, and how many
\* entries lie between them.
First == IF head >= N THEN 0 ELSE head
Past == IF pc["adc"] \in Filling THEN Next1(reg["adc"]) ELSE tail
Count == Dist(First, Past)

\* How many readings tail was moved for, and the oldest one in the ring.
Inserted == IF pc["adc"] \in BeforeTail THEN produced - 1 ELSE produced
Front == Inserted + 1 - Count

\* The slot after the latest one filled, and the reading that is in there.
Written == IF pc["adc"] = "copy" THEN reg["adc"] ELSE Past
Latest == IF pc["adc"] = "copy" THEN produced - 1 ELSE Inserted
-----------------------------------------------------------------------------
Points ==
  /\ pc \in [Tasks -> AdcPoint \cup AzurePoint]
  /\ pc["adc"] \in AdcPoint /\ pc["azure"] \in AzurePoint
  /\ reg \in [Tasks -> 0 .. 255]
  /\ \A t \in Tasks : pc[t] \in {"headStore", "headWrap"} => reg[t] <= N
  /\ pc["adc"] = "idle" \/ produced >= 1

\* Two turns that overlap are known to meet.
TurnsMeet == InTurn("adc") /\ InTurn("azure") => met

\* Task t does not move head any more while the other's turn lasts.
Done(t) ==
  IF t = "adc"
  THEN \/ pc[t] \in MadeRoom \cup Filling \cup {"incLoad", "incStore"}
       \/ pc[t] = "idle" /\ met
  ELSE \/ pc[t] \in Removed
       \/ pc[t] \in {"poll", "sleep"} /\ met

\* head is past the last slot only while a task has the wrap-around to do.
HeadRange ==
  /\ head >= N => \E t \in Tasks : pc[t] = "headWrap" /\ reg[t] + 1 >= N
  /\ head > N => Done("adc") /\ Done("azure")

\* tail is, between its store and its wrap-around only.
TailRange ==
  IF pc["adc"] \in Filling
  THEN reg["adc"] \in Slots /\ tail = reg["adc"] + 1
  ELSE tail \in Slots

\* The store of head++ moves head on by one slot, or repeats what the other
\* task did.
StoreMoves ==
  \A t \in Tasks : pc[t] = "headStore" =>
    \/ head \in Slots /\ head = reg[t]
    \/ First = Next1(reg[t]) /\ Done(Other(t))

\* The wrap-around does not undo what the other task did.
WrapKeeps ==
  \A t \in Tasks : pc[t] = "headWrap" /\ reg[t] + 1 >= N =>
    First = 0 /\ (head >= N \/ Done(Other(t)))

\* What each task may rely on: adc_task removes from a ring that is full, or
\* was when it looked, and then has room; azure_task removes what is there.
Counts ==
  /\ Count <= Inserted
  /\ head >= N => /\ Count <= N - 2 \/ Done("adc")
                  /\ Count >= 1 \/ Done("azure")
  /\ pc["adc"] \in Removing =>
       Count = N - 1 \/ (Count = N - 2 /\ Done("azure"))
  /\ pc["adc"] = "headStore" /\ head # reg["adc"] => Count = N - 2
  /\ pc["adc"] \in MadeRoom => Count <= N - 2
  /\ pc["adc"] \in Filling => Count >= 1 \/ Done("azure")
  /\ pc["azure"] \in {"peek", "send", "removeCheck", "headLoad"} => Count >= 1
  /\ pc["azure"] = "headStore" /\ head = reg["azure"] => Count >= 1

\* The slots hold the latest readings, backwards from the latest one filled.
Stored ==
  \A i \in 1 .. N :
    queue_buffer[Back(Written, i)] = IF i <= Latest THEN Latest + 1 - i ELSE 0

IInv == TypeOK /\ Points /\ TurnsMeet /\ HeadRange /\ TailRange /\ StoreMoves
        /\ WrapKeeps /\ Counts /\ Stored

\* As long as no two calls overlapped, azure_task is alone in its calls and
\* either task removes from the ring that it looked at.
Apart ==
  /\ InsideCall("azure") => pc["adc"] = "idle"
  /\ \A t \in Tasks : pc[t] = "headStore" => head = reg[t]
  /\ pc["adc"] \in Removing => Count = N - 1

\* What was sent is older than what is left in the ring, and what is being
\* sent is the oldest in there unless adc_task dropped it to make room.
Sent ==
  /\ SentInOrder
  /\ \A i \in DOMAIN sent : sent[i] <= Front
  /\ pc["azure"] \notin Removing => \A i \in DOMAIN sent : sent[i] < Front
  /\ pc["azure"] = "send" =>
       /\ peeked \in Reading /\ peeked <= Front
       /\ \A i \in DOMAIN sent : sent[i] < peeked
  /\ pc["azure"] \in Removing => peeked \in Range(sent)
  /\ pc["azure"] \in Removing \cup {"send"} =>
       \/ peeked = Front
       \/ Done("adc") /\ Count = IF pc["adc"] \in MadeRoom THEN N - 2
                                                           ELSE N - 1

OInv == ~mixed => Apart /\ Sent
-----------------------------------------------------------------------------
\* A task loads head while it is at most one slot past the last one, and holds
\* a byte in any case.
LEMMA HeadIsLoaded ==
  ASSUME IInv, NEW t \in Tasks, HeadLoad(t)
  PROVE  head <= N /\ reg' \in [Tasks -> 0 .. 255] /\ reg'[t] = head
<1>1. pc[t] = "headLoad" /\ reg' = [reg EXCEPT ![t] = head]
  BY DEF HeadLoad, Step
<1>2. ~Done(t) /\ (head > N => Done(t))
  BY <1>1 DEF IInv, HeadRange, Done, Tasks, MadeRoom, Removed, Filling
<1>3. head \in 0 .. 255 /\ head <= N
  BY <1>2, PipelineAssumption DEF IInv, TypeOK, N
<1>4. reg \in [Tasks -> 0 .. 255]
  BY DEF IInv, Points
<1>5. QED BY <1>1, <1>3, <1>4

\* itemCount is a byte (data_buffer.c:24).
LEMMA Byte == ASSUME NEW n \in Nat PROVE n % 256 \in 0 .. 255
OBVIOUS

\* What the registers hold.
LEMMA Registers ==
  ASSUME IInv
  PROVE  /\ \A t \in Tasks : reg[t] \in Nat
         /\ \A t \in Tasks : pc[t] \in {"headStore", "headWrap"} =>
              reg[t] \in 0 .. N
         /\ reg["adc"] \in Nat
BY DEF IInv, Points, Tasks

\* Every step keeps the types.
LEMMA TypeOKStep ==
  ASSUME IInv, [Adc \/ Azure]_vars
  PROVE  TypeOK'
<1> USE PipelineAssumption DEF IInv, TypeOK, Tasks, Step, ring, cloud, timing
<1>1. ASSUME NEW t \in Tasks, RemoveCheck(t) PROVE TypeOK'
  BY <1>1 DEF RemoveCheck
<1>2. ASSUME NEW t \in Tasks, HeadLoad(t) PROVE TypeOK'
  BY <1>2, HeadIsLoaded DEF HeadLoad
<1>3. ASSUME NEW t \in Tasks, HeadStore(t) PROVE TypeOK'
  <2>1. head' = reg[t] + 1 /\ reg[t] \in 0 .. N
    BY <1>3, Registers DEF HeadStore
  <2>2. reg[t] + 1 \in 0 .. N + 1
    BY <2>1 DEF N
  <2>3. QED BY <1>3, <2>1, <2>2 DEF HeadStore, N
<1>4. ASSUME NEW t \in Tasks, HeadWrap(t) PROVE TypeOK'
  BY <1>4 DEF HeadWrap
<1>5. ASSUME NEW t \in Tasks, DecLoad(t) PROVE TypeOK'
  BY <1>5 DEF DecLoad
<1>6. ASSUME NEW t \in Tasks, DecStore(t) PROVE TypeOK'
  <2>1. reg[t] + 255 \in Nat
    BY Registers
  <2>2. (reg[t] + 255) % 256 \in 0 .. 255
    BY <2>1, Byte, Zenon
  <2>3. QED BY <1>6, <2>2 DEF DecStore
<1>7. CASE AdcSample
  <2>1. produced' \in Cell
    BY <1>7 DEF AdcSample, Cell
  <2>2. met' \in BOOLEAN /\ mixed' \in BOOLEAN
    BY <1>7, Zenon DEF AdcSample, MeetsOnce, Calls, InTurn, InsideCall
  <2>3. QED BY <1>7, <2>1, <2>2 DEF AdcSample
<1>8. CASE AdcIsFull1
  BY <1>8 DEF AdcIsFull1
<1>9. CASE AdcIsFull2
  BY <1>9 DEF AdcIsFull2
<1>10. CASE AdcTailStore
  <2>1. reg' \in [Tasks -> 0 .. 255] /\ tail' \in 0 .. N
    BY <1>10 DEF AdcTailStore, TailRange, Filling, Slots, N
  <2>2. QED BY <1>10, <2>1 DEF AdcTailStore, N
<1>11. CASE AdcCopy
  <2>1. queue_buffer' \in [Slots -> Cell]
    BY <1>11 DEF AdcCopy
  <2>2. QED BY <1>11, <2>1 DEF AdcCopy
<1>12. CASE AdcTailWrap
  BY <1>12 DEF AdcTailWrap
<1>13. CASE AdcIncLoad
  BY <1>13 DEF AdcIncLoad
<1>14. CASE AdcIncStore
  <2>1. reg["adc"] + 1 \in Nat
    BY Registers
  <2>2. (reg["adc"] + 1) % 256 \in 0 .. 255
    BY <2>1, Byte, Zenon
  <2>3. QED BY <1>14, <2>2 DEF AdcIncStore
<1>15. CASE AzurePoll
  <2>1. met' \in BOOLEAN /\ mixed' \in BOOLEAN
    BY <1>15, Zenon DEF AzurePoll, MeetsOnce, Calls, InTurn, InsideCall
  <2>2. QED BY <1>15, <2>1 DEF AzurePoll
<1>16. CASE AzurePeek
  <2>1. peeked' \in Cell \cup {Garbage}
    BY <1>16 DEF AzurePeek
  <2>2. mixed' \in BOOLEAN
    BY <1>16, Zenon DEF AzurePeek, Calls, InsideCall
  <2>3. QED BY <1>16, <2>1, <2>2 DEF AzurePeek
<1>17. CASE AzureSendAccepted
  <2>1. sent' \in Seq(Cell \cup {Garbage})
    BY <1>17 DEF AzureSendAccepted
  <2>2. mixed' \in BOOLEAN
    BY <1>17, Zenon DEF AzureSendAccepted, Calls, InsideCall
  <2>3. QED BY <1>17, <2>1, <2>2 DEF AzureSendAccepted
<1>18. CASE AzureSendRefused
  BY <1>18 DEF AzureSendRefused
<1>19. CASE AzureSleep
  BY <1>19 DEF AzureSleep
<1>20. CASE AzureConfirm
  BY <1>20 DEF AzureConfirm
<1>21. CASE UNCHANGED vars
  BY <1>21 DEF vars
<1>22. QED BY <1>1, <1>2, <1>3, <1>4, <1>5, <1>6, <1>7, <1>8, <1>9, <1>10,
            <1>11, <1>12, <1>13, <1>14, <1>15, <1>16, <1>17, <1>18, <1>19,
            <1>20, <1>21
            DEF Adc, Azure, RemoveData, Tasks

\* Every step keeps the tasks at points of their own code.
LEMMA PointsStep ==
  ASSUME IInv, [Adc \/ Azure]_vars
  PROVE  Points'
<1> USE PipelineAssumption DEF IInv, Points, TypeOK, Tasks, Step, AfterRemove,
        AdcPoint, AzurePoint, Removing, Removed, MadeRoom, BeforeTail, Filling
<1>1. ASSUME NEW t \in Tasks, RemoveCheck(t) PROVE Points'
  BY <1>1 DEF RemoveCheck
<1>2. ASSUME NEW t \in Tasks, HeadLoad(t) PROVE Points'
  <2>1. head <= N /\ reg' \in [Tasks -> 0 .. 255] /\ reg'[t] = head
    BY <1>2, HeadIsLoaded
  <2>2. QED BY <1>2, <2>1 DEF HeadLoad
<1>3. ASSUME NEW t \in Tasks, HeadStore(t) PROVE Points'
  BY <1>3 DEF HeadStore
<1>4. ASSUME NEW t \in Tasks, HeadWrap(t) PROVE Points'
  BY <1>4 DEF HeadWrap
<1>5. ASSUME NEW t \in Tasks, DecLoad(t) PROVE Points'
  BY <1>5 DEF DecLoad
<1>6. ASSUME NEW t \in Tasks, DecStore(t) PROVE Points'
  BY <1>6 DEF DecStore
<1>7. CASE AdcSample
  <2>1. produced' >= 1
    BY <1>7 DEF AdcSample, Cell
  <2>2. QED BY <1>7, <2>1 DEF AdcSample
<1>8. CASE AdcIsFull1
  BY <1>8 DEF AdcIsFull1
<1>9. CASE AdcIsFull2
  BY <1>9 DEF AdcIsFull2
<1>10. CASE AdcTailStore
  BY <1>10 DEF AdcTailStore
<1>11. CASE AdcCopy
  BY <1>11 DEF AdcCopy
<1>12. CASE AdcTailWrap
  BY <1>12 DEF AdcTailWrap
<1>13. CASE AdcIncLoad
  BY <1>13 DEF AdcIncLoad
<1>14. CASE AdcIncStore
  BY <1>14 DEF AdcIncStore
<1>15. CASE AzurePoll
  BY <1>15 DEF AzurePoll, MeetsOnce
<1>16. CASE AzurePeek
  BY <1>16 DEF AzurePeek
<1>17. CASE AzureSendAccepted
  BY <1>17 DEF AzureSendAccepted
<1>18. CASE AzureSendRefused
  BY <1>18 DEF AzureSendRefused
<1>19. CASE AzureSleep
  BY <1>19 DEF AzureSleep
<1>20. CASE AzureConfirm
  BY <1>20 DEF AzureConfirm
<1>21. CASE UNCHANGED vars
  BY <1>21 DEF vars
<1>22. QED BY <1>1, <1>2, <1>3, <1>4, <1>5, <1>6, <1>7, <1>8, <1>9, <1>10,
            <1>11, <1>12, <1>13, <1>14, <1>15, <1>16, <1>17, <1>18, <1>19,
            <1>20, <1>21
            DEF Adc, Azure, RemoveData, Tasks

\* Every step keeps track of turns that meet.
LEMMA TurnsMeetStep ==
  ASSUME IInv, [Adc \/ Azure]_vars
  PROVE  TurnsMeet'
<1> USE PipelineAssumption DEF IInv, Points, Tasks, Step, TurnsMeet, InTurn,
        timing, AfterRemove, AdcPoint, AzurePoint, Removing, Removed, MadeRoom,
        BeforeTail, Filling
<1>1. ASSUME NEW t \in Tasks, RemoveCheck(t) PROVE TurnsMeet'
  BY <1>1 DEF RemoveCheck
<1>2. ASSUME NEW t \in Tasks, HeadLoad(t) PROVE TurnsMeet'
  BY <1>2 DEF HeadLoad
<1>3. ASSUME NEW t \in Tasks, HeadStore(t) PROVE TurnsMeet'
  BY <1>3 DEF HeadStore
<1>4. ASSUME NEW t \in Tasks, HeadWrap(t) PROVE TurnsMeet'
  BY <1>4 DEF HeadWrap
<1>5. ASSUME NEW t \in Tasks, DecLoad(t) PROVE TurnsMeet'
  BY <1>5 DEF DecLoad
<1>6. ASSUME NEW t \in Tasks, DecStore(t) PROVE TurnsMeet'
  BY <1>6 DEF DecStore
<1>7. CASE AdcSample
  BY <1>7 DEF AdcSample, MeetsOnce
<1>8. CASE AdcIsFull1
  BY <1>8 DEF AdcIsFull1
<1>9. CASE AdcIsFull2
  BY <1>9 DEF AdcIsFull2
<1>10. CASE AdcTailStore
  BY <1>10 DEF AdcTailStore
<1>11. CASE AdcCopy
  BY <1>11 DEF AdcCopy
<1>12. CASE AdcTailWrap
  BY <1>12 DEF AdcTailWrap
<1>13. CASE AdcIncLoad
  BY <1>13 DEF AdcIncLoad
<1>14. CASE AdcIncStore
  BY <1>14 DEF AdcIncStore
<1>15. CASE AzurePoll
  BY <1>15 DEF AzurePoll, MeetsOnce
<1>16. CASE AzurePeek
  BY <1>16 DEF AzurePeek
<1>17. CASE AzureSendAccepted
  BY <1>17 DEF AzureSendAccepted
<1>18. CASE AzureSendRefused
  BY <1>18 DEF AzureSendRefused
<1>19. CASE AzureSleep
  BY <1>19 DEF AzureSleep
<1>20. CASE AzureConfirm
  BY <1>20 DEF AzureConfirm
<1>21. CASE UNCHANGED vars
  BY <1>21 DEF vars
<1>22. QED BY <1>1, <1>2, <1>3, <1>4, <1>5, <1>6, <1>7, <1>8, <1>9, <1>10,
            <1>11, <1>12, <1>13, <1>14, <1>15, <1>16, <1>17, <1>18, <1>19,
            <1>20, <1>21
            DEF Adc, Azure, RemoveData, Tasks

\* Whoever moves head past the last slot has the wrap-around to do
\* (data_buffer.c:88-92).
LEMMA HeadRangeStep ==
  ASSUME IInv, [Adc \/ Azure]_vars
  PROVE  HeadRange'
<1> USE PipelineAssumption DEF IInv, Points, TypeOK, Tasks, Step, ring, timing,
        N, AdcPoint, AzurePoint, Removing, Removed, MadeRoom, BeforeTail,
        Filling, Done, InTurn, TurnsMeet, HeadRange, AfterRemove
<1>1. ASSUME NEW t \in Tasks, RemoveCheck(t) PROVE HeadRange'
  BY <1>1 DEF RemoveCheck
<1>2. ASSUME NEW t \in Tasks, HeadLoad(t) PROVE HeadRange'
  BY <1>2 DEF HeadLoad
<1>3. ASSUME NEW t \in Tasks, HeadStore(t) PROVE HeadRange'
  BY <1>3 DEF HeadStore, StoreMoves, Other, Slots, First, Next1
<1>4. ASSUME NEW t \in Tasks, HeadWrap(t) PROVE HeadRange'
  BY <1>4 DEF HeadWrap, WrapKeeps, First
<1>5. ASSUME NEW t \in Tasks, DecLoad(t) PROVE HeadRange'
  BY <1>5 DEF DecLoad
<1>6. ASSUME NEW t \in Tasks, DecStore(t) PROVE HeadRange'
  BY <1>6 DEF DecStore
<1>7. CASE AdcSample
  BY <1>7 DEF AdcSample, MeetsOnce
<1>8. CASE AdcIsFull1
  BY <1>8 DEF AdcIsFull1
<1>9. CASE AdcIsFull2
  BY <1>9 DEF AdcIsFull2
<1>10. CASE AdcTailStore
  BY <1>10 DEF AdcTailStore
<1>11. CASE AdcCopy
  BY <1>11 DEF AdcCopy
<1>12. CASE AdcTailWrap
  BY <1>12 DEF AdcTailWrap
<1>13. CASE AdcIncLoad
  BY <1>13 DEF AdcIncLoad
<1>14. CASE AdcIncStore
  BY <1>14 DEF AdcIncStore
<1>15. CASE AzurePoll
  BY <1>15 DEF AzurePoll, MeetsOnce
<1>16. CASE AzurePeek
  BY <1>16 DEF AzurePeek
<1>17. CASE AzureSendAccepted
  BY <1>17 DEF AzureSendAccepted
<1>18. CASE AzureSendRefused
  BY <1>18 DEF AzureSendRefused
<1>19. CASE AzureSleep
  BY <1>19 DEF AzureSleep
<1>20. CASE AzureConfirm
  BY <1>20 DEF AzureConfirm
<1>21. CASE UNCHANGED vars
  BY <1>21 DEF vars
<1>22. QED BY <1>1, <1>2, <1>3, <1>4, <1>5, <1>6, <1>7, <1>8, <1>9, <1>10,
            <1>11, <1>12, <1>13, <1>14, <1>15, <1>16, <1>17, <1>18, <1>19,
            <1>20, <1>21
            DEF Adc, Azure, RemoveData, Tasks

\* adc_task alone moves tail (data_buffer.c:71-75).
LEMMA TailRangeStep ==
  ASSUME IInv, [Adc \/ Azure]_vars
  PROVE  TailRange'
<1> USE PipelineAssumption DEF IInv, Points, TypeOK, Tasks, Slots, Step, ring,
        TailRange, AfterRemove, AdcPoint, AzurePoint, Removing, Removed,
        MadeRoom, BeforeTail, Filling
<1>1. ASSUME NEW t \in Tasks, RemoveCheck(t) PROVE TailRange'
  BY <1>1 DEF RemoveCheck
<1>2. ASSUME NEW t \in Tasks, HeadLoad(t) PROVE TailRange'
  BY <1>2 DEF HeadLoad
<1>3. ASSUME NEW t \in Tasks, HeadStore(t) PROVE TailRange'
  BY <1>3 DEF HeadStore
<1>4. ASSUME NEW t \in Tasks, HeadWrap(t) PROVE TailRange'
  BY <1>4 DEF HeadWrap
<1>5. ASSUME NEW t \in Tasks, DecLoad(t) PROVE TailRange'
  BY <1>5 DEF DecLoad
<1>6. ASSUME NEW t \in Tasks, DecStore(t) PROVE TailRange'
  BY <1>6 DEF DecStore
<1>7. CASE AdcSample
  BY <1>7 DEF AdcSample, MeetsOnce
<1>8. CASE AdcIsFull1
  BY <1>8 DEF AdcIsFull1
<1>9. CASE AdcIsFull2
  BY <1>9 DEF AdcIsFull2
<1>10. CASE AdcTailStore
  BY <1>10 DEF AdcTailStore
<1>11. CASE AdcCopy
  BY <1>11 DEF AdcCopy
<1>12. CASE AdcTailWrap
  BY <1>12 DEF AdcTailWrap
<1>13. CASE AdcIncLoad
  BY <1>13 DEF AdcIncLoad
<1>14. CASE AdcIncStore
  BY <1>14 DEF AdcIncStore
<1>15. CASE AzurePoll
  BY <1>15 DEF AzurePoll, MeetsOnce
<1>16. CASE AzurePeek
  BY <1>16 DEF AzurePeek
<1>17. CASE AzureSendAccepted
  BY <1>17 DEF AzureSendAccepted
<1>18. CASE AzureSendRefused
  BY <1>18 DEF AzureSendRefused
<1>19. CASE AzureSleep
  BY <1>19 DEF AzureSleep
<1>20. CASE AzureConfirm
  BY <1>20 DEF AzureConfirm
<1>21. CASE UNCHANGED vars
  BY <1>21 DEF vars
<1>22. QED BY <1>1, <1>2, <1>3, <1>4, <1>5, <1>6, <1>7, <1>8, <1>9, <1>10,
            <1>11, <1>12, <1>13, <1>14, <1>15, <1>16, <1>17, <1>18, <1>19,
            <1>20, <1>21
            DEF Adc, Azure, RemoveData, Tasks

\* A removal of one task does not make the other's store a different one.
LEMMA StoreMovesStep ==
  ASSUME IInv, [Adc \/ Azure]_vars
  PROVE  StoreMoves'
<1> USE PipelineAssumption DEF IInv, Points, TypeOK, Tasks, Step, ring, timing,
        N, AdcPoint, AzurePoint, Removing, Removed, MadeRoom, BeforeTail,
        Filling, Done, InTurn, TurnsMeet, HeadRange, AfterRemove, Slots, Other,
        First, StoreMoves, Next1
<1>1. ASSUME NEW t \in Tasks, RemoveCheck(t) PROVE StoreMoves'
  BY <1>1 DEF RemoveCheck
<1>2. ASSUME NEW t \in Tasks, HeadLoad(t) PROVE StoreMoves'
  BY <1>2 DEF HeadLoad
<1>3. ASSUME NEW t \in Tasks, HeadStore(t) PROVE StoreMoves'
  BY <1>3 DEF HeadStore
<1>4. ASSUME NEW t \in Tasks, HeadWrap(t) PROVE StoreMoves'
  BY <1>4 DEF HeadWrap, WrapKeeps
<1>5. ASSUME NEW t \in Tasks, DecLoad(t) PROVE StoreMoves'
  BY <1>5 DEF DecLoad
<1>6. ASSUME NEW t \in Tasks, DecStore(t) PROVE StoreMoves'
  BY <1>6 DEF DecStore
<1>7. CASE AdcSample
  BY <1>7 DEF AdcSample, MeetsOnce
<1>8. CASE AdcIsFull1
  BY <1>8 DEF AdcIsFull1
<1>9. CASE AdcIsFull2
  BY <1>9 DEF AdcIsFull2
<1>10. CASE AdcTailStore
  BY <1>10 DEF AdcTailStore
<1>11. CASE AdcCopy
  BY <1>11 DEF AdcCopy
<1>12. CASE AdcTailWrap
  BY <1>12 DEF AdcTailWrap
<1>13. CASE AdcIncLoad
  BY <1>13 DEF AdcIncLoad
<1>14. CASE AdcIncStore
  BY <1>14 DEF AdcIncStore
<1>15. CASE AzurePoll
  BY <1>15 DEF AzurePoll, MeetsOnce
<1>16. CASE AzurePeek
  BY <1>16 DEF AzurePeek
<1>17. CASE AzureSendAccepted
  BY <1>17 DEF AzureSendAccepted
<1>18. CASE AzureSendRefused
  BY <1>18 DEF AzureSendRefused
<1>19. CASE AzureSleep
  BY <1>19 DEF AzureSleep
<1>20. CASE AzureConfirm
  BY <1>20 DEF AzureConfirm
<1>21. CASE UNCHANGED vars
  BY <1>21 DEF vars
<1>22. QED BY <1>1, <1>2, <1>3, <1>4, <1>5, <1>6, <1>7, <1>8, <1>9, <1>10,
            <1>11, <1>12, <1>13, <1>14, <1>15, <1>16, <1>17, <1>18, <1>19,
            <1>20, <1>21
            DEF Adc, Azure, RemoveData, Tasks

\* A removal of one task does not make the other's wrap-around a different one.
LEMMA WrapKeepsStep ==
  ASSUME IInv, [Adc \/ Azure]_vars
  PROVE  WrapKeeps'
<1> USE PipelineAssumption DEF IInv, Points, TypeOK, Tasks, Step, ring, timing,
        N, AdcPoint, AzurePoint, Removing, Removed, MadeRoom, BeforeTail,
        Filling, Done, InTurn, TurnsMeet, HeadRange, AfterRemove, Slots, Other,
        First, WrapKeeps
<1>1. ASSUME NEW t \in Tasks, RemoveCheck(t) PROVE WrapKeeps'
  BY <1>1 DEF RemoveCheck
<1>2. ASSUME NEW t \in Tasks, HeadLoad(t) PROVE WrapKeeps'
  BY <1>2 DEF HeadLoad
<1>3. ASSUME NEW t \in Tasks, HeadStore(t) PROVE WrapKeeps'
  BY <1>3 DEF HeadStore, StoreMoves, Next1
<1>4. ASSUME NEW t \in Tasks, HeadWrap(t) PROVE WrapKeeps'
  BY <1>4 DEF HeadWrap
<1>5. ASSUME NEW t \in Tasks, DecLoad(t) PROVE WrapKeeps'
  BY <1>5 DEF DecLoad
<1>6. ASSUME NEW t \in Tasks, DecStore(t) PROVE WrapKeeps'
  BY <1>6 DEF DecStore
<1>7. CASE AdcSample
  BY <1>7 DEF AdcSample, MeetsOnce
<1>8. CASE AdcIsFull1
  BY <1>8 DEF AdcIsFull1
<1>9. CASE AdcIsFull2
  BY <1>9 DEF AdcIsFull2
<1>10. CASE AdcTailStore
  BY <1>10 DEF AdcTailStore
<1>11. CASE AdcCopy
  BY <1>11 DEF AdcCopy
<1>12. CASE AdcTailWrap
  BY <1>12 DEF AdcTailWrap
<1>13. CASE AdcIncLoad
  BY <1>13 DEF AdcIncLoad
<1>14. CASE AdcIncStore
  BY <1>14 DEF AdcIncStore
<1>15. CASE AzurePoll
  BY <1>15 DEF AzurePoll, MeetsOnce
<1>16. CASE AzurePeek
  BY <1>16 DEF AzurePeek
<1>17. CASE AzureSendAccepted
  BY <1>17 DEF AzureSendAccepted
<1>18. CASE AzureSendRefused
  BY <1>18 DEF AzureSendRefused
<1>19. CASE AzureSleep
  BY <1>19 DEF AzureSleep
<1>20. CASE AzureConfirm
  BY <1>20 DEF AzureConfirm
<1>21. CASE UNCHANGED vars
  BY <1>21 DEF vars
<1>22. QED BY <1>1, <1>2, <1>3, <1>4, <1>5, <1>6, <1>7, <1>8, <1>9, <1>10,
            <1>11, <1>12, <1>13, <1>14, <1>15, <1>16, <1>17, <1>18, <1>19,
            <1>20, <1>21
            DEF Adc, Azure, RemoveData, Tasks
-----------------------------------------------------------------------------
\* Distances round the ring.
LEMMA Distances ==
  ASSUME NEW a \in Slots, NEW b \in Slots
  PROVE  /\ Next1(a) \in Slots
         /\ Dist(a, b) \in 0 .. N - 1
         /\ Dist(a, b) = 0 <=> a = b
         /\ Dist(a, b) = N - 1 <=> a = Next1(b)
         /\ a # b => Dist(Next1(a), b) = Dist(a, b) - 1
         /\ a # Next1(b) => Dist(a, Next1(b)) = Dist(a, b) + 1
BY PipelineAssumption DEF Slots, Next1, Dist, N

\* First and Past are slots.
LEMMA Ends ==
  ASSUME IInv
  PROVE  First \in Slots /\ Past \in Slots
<1>1. First \in Slots
  BY PipelineAssumption DEF IInv, TypeOK, First, Slots, N
<1>2. Past \in Slots
  <2>1. CASE pc["adc"] \in Filling
    BY <2>1, PipelineAssumption DEF IInv, TailRange, Past, Next1, Slots
  <2>2. CASE pc["adc"] \notin Filling
    BY <2>2 DEF IInv, TailRange, Past
  <2>3. QED BY <2>1, <2>2
<1>3. QED BY <1>1, <1>2

\* A ring of N slots holds at most N - 1 entries.
LEMMA CountRange ==
  ASSUME IInv
  PROVE  Count \in 0 .. N - 1 /\ N \in 3 .. 255 /\ Inserted \in Nat
<1>1. Count \in 0 .. N - 1
  BY Ends, Distances DEF Count
<1>2. Inserted \in Nat
  <2>1. produced \in Nat
    BY DEF IInv, TypeOK, Cell
  <2>2. pc["adc"] \in BeforeTail => produced >= 1
    BY DEF IInv, Points, BeforeTail, Removing, MadeRoom, Removed
  <2>3. QED BY <2>1, <2>2 DEF Inserted
<1>3. QED BY <1>1, <1>2, PipelineAssumption DEF N

\* The store of head++ removes one entry, or none because the other task did.
LEMMA HeadStoreEffect ==
  ASSUME IInv, NEW t \in Tasks, HeadStore(t)
  PROVE  /\ pc[t] = "headStore" /\ pc' = [pc EXCEPT ![t] = "headWrap"]
         /\ head' = reg[t] + 1 /\ reg[t] \in 0 .. N
         /\ reg' = reg /\ produced' = produced /\ met' = met
         /\ peeked' = peeked /\ sent' = sent
         /\ Inserted' = Inserted /\ Past' = Past
         /\ \/ /\ head \in Slots /\ head = reg[t] /\ First = head
               /\ First' = Next1(First)
               /\ Count >= 1 /\ Count' = Count - 1
            \/ /\ First' = First /\ First = Next1(reg[t])
               /\ Count' = Count /\ Done(Other(t))
<1>1. /\ pc[t] = "headStore" /\ pc' = [pc EXCEPT ![t] = "headWrap"]
      /\ head' = reg[t] + 1
      /\ UNCHANGED <<queue_buffer, tail, itemCount, reg, produced>>
      /\ UNCHANGED <<peeked, sent>> /\ UNCHANGED <<met, mixed>>
  BY DEF HeadStore, Step, cloud, timing
<1>2. reg[t] \in 0 .. N
  BY <1>1, Registers
<1>3. Inserted' = Inserted /\ Past' = Past
  BY <1>1 DEF IInv, Points, Inserted, Past, Filling, BeforeTail, Removing,
              MadeRoom, Removed, Tasks, Next1
<1>4. First' = Next1(reg[t])
  BY <1>1, <1>2, PipelineAssumption DEF First, Next1, N
<1>5. CASE head \in Slots /\ head = reg[t]
  <2>1. First = head
    BY <1>5, PipelineAssumption DEF First, Slots, N
  <2>2. Count >= 1
    <3>1. CASE t = "azure"
      BY <1>1, <1>5, <3>1 DEF IInv, Counts
    <3>2. CASE t = "adc"
      BY <1>1, <3>2, CountRange DEF IInv, Counts, Removing
    <3>3. QED BY <3>1, <3>2 DEF Tasks
  <2>3. First # Past
    BY <2>2, Ends, Distances DEF Count
  <2>4. Count' = Count - 1
    BY <1>3, <1>4, <1>5, <2>1, <2>3, Ends, Distances DEF Count
  <2>5. QED BY <1>1, <1>2, <1>3, <1>4, <1>5, <2>1, <2>2, <2>4
<1>6. CASE First = Next1(reg[t]) /\ Done(Other(t))
  BY <1>1, <1>2, <1>3, <1>4, <1>6 DEF Count
<1>7. QED BY <1>1, <1>5, <1>6 DEF IInv, StoreMoves

\* The store of tail++ adds one entry to a ring that has room for it.
LEMMA TailStoreEffect ==
  ASSUME IInv, AdcTailStore
  PROVE  /\ pc["adc"] = "tailStore" /\ pc' = [pc EXCEPT !["adc"] = "copy"]
         /\ tail \in Slots /\ tail' = tail + 1
         /\ reg' = [reg EXCEPT !["adc"] = tail] /\ reg'["adc"] = tail
         /\ UNCHANGED <<queue_buffer, head, produced, met>>
         /\ Past = tail /\ Past' = Next1(tail) /\ First' = First
         /\ Count <= N - 2 /\ Count' = Count + 1 /\ Inserted' = Inserted + 1
<1>1. /\ pc["adc"] = "tailStore" /\ pc' = [pc EXCEPT !["adc"] = "copy"]
      /\ reg' = [reg EXCEPT !["adc"] = tail] /\ tail' = tail + 1
      /\ UNCHANGED <<queue_buffer, head, itemCount, produced>>
      /\ UNCHANGED <<met, mixed>>
  BY DEF AdcTailStore, Step, timing
<1>2. pc'["adc"] = "copy" /\ reg'["adc"] = tail
  BY <1>1 DEF IInv, Points, Tasks
<1>3. tail \in Slots
  BY <1>1 DEF IInv, TailRange, Filling
<1>4. Past = tail /\ Past' = Next1(tail) /\ First' = First
  BY <1>1, <1>2 DEF Past, Filling, First, Next1, N
<1>5. Count <= N - 2
  BY <1>1 DEF IInv, Counts, MadeRoom
<1>6. First # Next1(Past)
  BY <1>5, CountRange, Ends, Distances DEF Count
<1>7. Count' = Count + 1
  BY <1>4, <1>6, Ends, Distances DEF Count
<1>8. Inserted' = Inserted + 1
  BY <1>1, <1>2 DEF Inserted, BeforeTail, MadeRoom, Removing, Removed, IInv,
                    TypeOK, Cell
<1>9. QED BY <1>1, <1>2, <1>3, <1>4, <1>5, <1>7, <1>8

\* What the two tests say of the entries in the ring.
LEMMA Tests ==
  ASSUME IInv, pc["adc"] \notin Filling
  PROVE  /\ queue_buffer_isFull => Count = N - 1
         /\ head < N /\ Count = N - 1 => queue_buffer_isFull
         /\ queue_buffer_isEmpty => Count = 0
         /\ head < N /\ Count = 0 => queue_buffer_isEmpty
<1>1. tail \in Slots /\ Past = tail
  BY DEF IInv, TailRange, Past
<1>2. head < N <=> head \in Slots
  BY PipelineAssumption DEF IInv, TypeOK, Slots, N
<1>3. head \in Slots => First = head
  BY PipelineAssumption DEF First, Slots, N
<1>4. Next1(tail) \in Slots
  BY <1>1, Distances
<1>5. Count = N - 1 <=> First = Next1(tail)
  BY <1>1, Ends, Distances DEF Count
<1>6. Count = 0 <=> First = tail
  BY <1>1, Ends, Distances DEF Count
<1>7. QED BY <1>1, <1>2, <1>3, <1>4, <1>5, <1>6
          DEF queue_buffer_isFull, queue_buffer_isEmpty

\* The second look never finds the ring full: the reading is always inserted.
LEMMA RoomFound ==
  ASSUME IInv, pc["adc"] = "isFull2"
  PROVE  ~queue_buffer_isFull
<1>1. pc["adc"] \notin Filling
  BY DEF Filling
<1>2. Count <= N - 2
  BY DEF IInv, Counts, MadeRoom
<1>3. QED BY <1>1, <1>2, CountRange, Tests

\* The first look tells a full ring from one with room for a reading, also
\* while head is past the last slot (data_buffer.c:65).
LEMMA FirstLook ==
  ASSUME IInv, pc["adc"] = "isFull1"
  PROVE  IF queue_buffer_isFull THEN Count = N - 1 ELSE Count <= N - 2
<1>1. pc["adc"] \notin Filling
  BY DEF Filling
<1>2. head \in Nat
  BY DEF IInv, TypeOK
<1>3. head >= N => Count <= N - 2
  BY DEF IInv, Counts, Done, MadeRoom, Removed, Filling
<1>4. queue_buffer_isFull => Count = N - 1
  BY <1>1, Tests
<1>5. ~queue_buffer_isFull => Count <= N - 2
  <2>1. head < N => Count # N - 1 \/ queue_buffer_isFull
    BY <1>1, Tests
  <2>2. QED BY <1>2, <1>3, <2>1, CountRange
<1>6. QED BY <1>4, <1>5

\* azure_task starts a turn on a ring that does hold an entry.
LEMMA PollSeesEntry ==
  ASSUME IInv, AzurePoll
  PROVE  Count >= 1 /\ ~(InTurn("adc") /\ met)
<1>1. /\ pc["azure"] = "poll" /\ ~queue_buffer_isEmpty
      /\ ~(InTurn("adc") /\ met)
  BY DEF AzurePoll, Step, MeetsOnce
<1>2. pc["adc"] \in Filling => Count >= 1
  BY <1>1 DEF IInv, Counts, Done, Filling, Removed, InTurn
<1>3. head \in Nat /\ (head >= N => Count >= 1)
  BY <1>1 DEF IInv, TypeOK, Counts, HeadRange, Done, Removed, InTurn, Tasks
<1>4. pc["adc"] \notin Filling /\ head < N => Count # 0
  BY <1>1, Tests
<1>5. QED BY <1>1, <1>2, <1>3, <1>4, CountRange

\* No other step changes the ends of the ring or what was inserted.
LEMMA EndsKept ==
  ASSUME IInv, [Adc \/ Azure]_vars,
         \A t \in Tasks : ~HeadStore(t), ~AdcTailStore
  PROVE  First' = First /\ Past' = Past /\ Inserted' = Inserted
<1> DEFINE Same == First' = First /\ Past' = Past /\ Inserted' = Inserted
<1> USE PipelineAssumption DEF IInv, Points, TypeOK, Tasks, Step, ring, cloud,
        timing, First, Past, Inserted, BeforeTail, MadeRoom, Removing,
        Removed, Filling, Next1, N
<1>1. ASSUME NEW t \in Tasks, RemoveCheck(t) PROVE Same
  BY <1>1 DEF RemoveCheck, AfterRemove
<1>2. ASSUME NEW t \in Tasks, HeadLoad(t) PROVE Same
  BY <1>2 DEF HeadLoad
<1>3. ASSUME NEW t \in Tasks, HeadStore(t) PROVE Same
  BY <1>3
<1>4. ASSUME NEW t \in Tasks, HeadWrap(t) PROVE Same
  BY <1>4 DEF HeadWrap, WrapKeeps
<1>5. ASSUME NEW t \in Tasks, DecLoad(t) PROVE Same
  BY <1>5 DEF DecLoad
<1>6. ASSUME NEW t \in Tasks, DecStore(t) PROVE Same
  BY <1>6 DEF DecStore, AfterRemove
<1>7. CASE AdcSample
  BY <1>7 DEF AdcSample, Cell
<1>8. CASE AdcIsFull1
  BY <1>8 DEF AdcIsFull1
<1>9. CASE AdcIsFull2
  BY <1>9, RoomFound DEF AdcIsFull2
<1>10. CASE AdcTailStore
  BY <1>10
<1>11. CASE AdcCopy
  BY <1>11 DEF AdcCopy
<1>12. CASE AdcTailWrap
  BY <1>12 DEF AdcTailWrap, TailRange
<1>13. CASE AdcIncLoad
  BY <1>13 DEF AdcIncLoad
<1>14. CASE AdcIncStore
  BY <1>14 DEF AdcIncStore
<1>15. CASE AzurePoll
  BY <1>15 DEF AzurePoll
<1>16. CASE AzurePeek
  BY <1>16 DEF AzurePeek
<1>17. CASE AzureSendAccepted
  BY <1>17 DEF AzureSendAccepted
<1>18. CASE AzureSendRefused
  BY <1>18 DEF AzureSendRefused
<1>19. CASE AzureSleep
  BY <1>19 DEF AzureSleep
<1>20. CASE AzureConfirm
  BY <1>20 DEF AzureConfirm
<1>21. CASE UNCHANGED vars
  BY <1>21 DEF vars
<1>22. QED BY <1>1, <1>2, <1>3, <1>4, <1>5, <1>6, <1>7, <1>8, <1>9, <1>10,
            <1>11, <1>12, <1>13, <1>14, <1>15, <1>16, <1>17, <1>18, <1>19,
            <1>20, <1>21
            DEF Adc, Azure, RemoveData, Tasks

\* So no other step changes the number of entries.
LEMMA CountKept ==
  ASSUME IInv, [Adc \/ Azure]_vars,
         \A t \in Tasks : ~HeadStore(t), ~AdcTailStore
  PROVE  Count' = Count
BY EndsKept DEF Count

\* A removal leaves what either task relies on, whichever of them stores head
\* first (data_buffer.c:88).
LEMMA HeadStoreCounts ==
  ASSUME IInv, NEW t \in Tasks, HeadStore(t)
  PROVE  Counts'
<1> USE HeadStoreEffect, CountRange DEF IInv, Points, Done, Other, Tasks,
        Removing, Removed, MadeRoom, BeforeTail, Filling
<1>1. CASE t = "adc"
  <2>1. Count' <= N - 2
    <3>1. CASE First' = Next1(First)
      BY <1>1, <3>1, Ends, Distances
    <3>2. CASE First = Next1(reg[t]) /\ Count' = Count
      <4>1. head # reg[t] \/ head >= N
        BY <3>2, PipelineAssumption DEF TypeOK, First, Next1, N
      <4>2. QED BY <1>1, <3>2, <4>1 DEF Counts
    <3>3. QED BY <3>1, <3>2
  <2>2. ~Done("azure") => Count' >= 1
    BY <1>1 DEF Counts
  <2>3. QED BY <1>1, <2>1, <2>2 DEF Counts
<1>2. CASE t = "azure"
  <2>1. pc["adc"] \in Removing => Count = N - 1
    BY <1>2 DEF Counts
  <2>2. QED BY <1>2, <2>1 DEF Counts
<1>3. QED BY <1>1, <1>2

\* So does an insertion (data_buffer.c:71).
LEMMA TailStoreCounts ==
  ASSUME IInv, AdcTailStore
  PROVE  Counts'
BY TailStoreEffect, CountRange
   DEF IInv, Points, Done, Tasks, Counts, Removing, Removed, MadeRoom,
       BeforeTail, Filling

\* adc_task begins a turn while azure_task is in one: azure_task may have head
\* past the last slot, and has not met adc_task then.
LEMMA SampleCounts ==
  ASSUME IInv, AdcSample, Count' = Count, Inserted' = Inserted
  PROVE  Counts'
<1>1. /\ pc["adc"] = "idle" /\ pc' = [pc EXCEPT !["adc"] = "isFull1"]
      /\ UNCHANGED <<ring, reg>> /\ met' = InTurn("azure")
      /\ ~(InTurn("azure") /\ met)
  BY DEF AdcSample, Step, MeetsOnce
<1>2. head >= N => pc["azure"] = "headWrap" /\ ~met
  BY <1>1 DEF IInv, HeadRange, InTurn, Tasks
<1>3. QED BY <1>1, <1>2
  DEF IInv, Points, Counts, Done, InTurn, Tasks, ring, AzurePoint, Removing,
      Removed, MadeRoom, BeforeTail, Filling

\* Every step keeps what the two tasks rely on.
LEMMA CountsStep ==
  ASSUME IInv, [Adc \/ Azure]_vars
  PROVE  Counts'
<1>1. ASSUME NEW t \in Tasks, HeadStore(t) PROVE Counts'
  BY <1>1, HeadStoreCounts
<1>2. CASE AdcTailStore
  BY <1>2, TailStoreCounts
<1>3. AzurePoll => Count >= 1 /\ ~(InTurn("adc") /\ met)
  BY PollSeesEntry
<1>4. CASE (\A t \in Tasks : ~HeadStore(t)) /\ ~AdcTailStore
  <2> USE CountRange DEF IInv, Points, Tasks, Step, ring, cloud, timing,
          Counts, Done, AfterRemove, Removing, Removed, MadeRoom, BeforeTail,
          Filling
  <2>1. Count' = Count /\ Inserted' = Inserted
    BY <1>4, EndsKept, CountKept
  <2>2. ASSUME NEW t \in Tasks, RemoveCheck(t) PROVE Counts'
    BY <2>2, <2>1, Tests DEF RemoveCheck, TurnsMeet, InTurn
  <2>3. ASSUME NEW t \in Tasks, HeadLoad(t) PROVE Counts'
    BY <2>3, <2>1 DEF HeadLoad
  <2>4. ASSUME NEW t \in Tasks, HeadWrap(t) PROVE Counts'
    <3>1. head \in Nat /\ (head' = head \/ (head >= N /\ head' = 0))
      BY <2>4, PipelineAssumption DEF HeadWrap, WrapKeeps, First, TypeOK, N
    <3>2. QED BY <2>4, <2>1, <3>1 DEF HeadWrap
  <2>5. ASSUME NEW t \in Tasks, DecLoad(t) PROVE Counts'
    BY <2>5, <2>1 DEF DecLoad
  <2>6. ASSUME NEW t \in Tasks, DecStore(t) PROVE Counts'
    BY <2>6, <2>1 DEF DecStore, TurnsMeet, InTurn, HeadRange
  <2>7. CASE AdcSample
    BY <2>7, <2>1, SampleCounts
  <2>8. CASE AdcIsFull1
    BY <2>8, <2>1, FirstLook DEF AdcIsFull1
  <2>9. CASE AdcIsFull2
    BY <2>9, <2>1 DEF AdcIsFull2
  <2>10. CASE AdcCopy
    BY <2>10, <2>1 DEF AdcCopy
  <2>11. CASE AdcTailWrap
    BY <2>11, <2>1 DEF AdcTailWrap
  <2>12. CASE AdcIncLoad
    BY <2>12, <2>1 DEF AdcIncLoad
  <2>13. CASE AdcIncStore
    BY <2>13, <2>1 DEF AdcIncStore, TurnsMeet, InTurn, HeadRange
  <2>14. CASE AzurePoll
    BY <2>14, <2>1, <1>3 DEF AzurePoll, InTurn, MeetsOnce, HeadRange
  <2>15. CASE AzurePeek
    BY <2>15, <2>1 DEF AzurePeek
  <2>16. CASE AzureSendAccepted
    BY <2>16, <2>1 DEF AzureSendAccepted
  <2>17. CASE AzureSendRefused
    BY <2>17, <2>1 DEF AzureSendRefused
  <2>18. CASE AzureSleep
    BY <2>18, <2>1 DEF AzureSleep
  <2>19. CASE AzureConfirm
    BY <2>19, <2>1 DEF AzureConfirm
  <2>20. CASE UNCHANGED vars
    BY <2>20, <2>1 DEF vars
  <2>21. QED BY <1>4, <2>2, <2>3, <2>4, <2>5, <2>6, <2>7, <2>8, <2>9, <2>10,
              <2>11, <2>12, <2>13, <2>14, <2>15, <2>16, <2>17, <2>18, <2>19,
              <2>20 DEF Adc, Azure, RemoveData
<1>5. QED BY <1>1, <1>2, <1>4

\* The i-th slot before the next one is the slot i - 1 before this one.
LEMMA SlotsBefore ==
  ASSUME NEW r \in Slots, NEW i \in 1 .. N, i # 1
  PROVE  /\ Back(Next1(r), i) = Back(r, i - 1)
         /\ Back(r, i - 1) \in Slots \ {r}
         /\ i - 1 \in 1 .. N
<1> USE PipelineAssumption DEF Back, Next1, Slots, N
<1>1. Back(Next1(r), i) = Back(r, i - 1)
  OBVIOUS
<1>2. Back(r, i - 1) \in Slots \ {r}
  OBVIOUS
<1>3. i - 1 \in 1 .. N
  OBVIOUS
<1>4. QED BY <1>1, <1>2, <1>3

\* The copy into the slot that tail designated makes the new reading the latest
\* one, and drops none of the N - 1 before it (data_buffer.c:71).
LEMMA CopyStores ==
  ASSUME IInv, AdcCopy
  PROVE  Stored'
<1>1. /\ pc["adc"] = "copy" /\ pc' = [pc EXCEPT !["adc"] = "tailWrap"]
      /\ queue_buffer' = [queue_buffer EXCEPT ![reg["adc"]] = produced]
      /\ UNCHANGED <<tail, reg, produced>>
  BY DEF AdcCopy, Step
<1>2. pc'["adc"] = "tailWrap" /\ queue_buffer \in [Slots -> Cell]
      /\ reg["adc"] \in Slots /\ produced \in Nat
  BY <1>1 DEF IInv, Points, TypeOK, TailRange, Filling, Tasks, Cell
<1>3. Written = reg["adc"] /\ Latest = produced - 1
  BY <1>1 DEF Written, Latest
<1>4. Written' = Next1(reg["adc"]) /\ Latest' = produced
  BY <1>1, <1>2 DEF Written, Latest, Past, Filling, Inserted, BeforeTail,
                    MadeRoom, Removing, Removed, Next1
<1>5. SUFFICES ASSUME NEW i \in 1 .. N
               PROVE  queue_buffer'[Back(Next1(reg["adc"]), i)] =
                        IF i <= produced THEN produced + 1 - i ELSE 0
  BY <1>4 DEF Stored, Back, N
<1>6. CASE i = 1
  <2>1. Back(Next1(reg["adc"]), 1) = reg["adc"]
    BY <1>2, PipelineAssumption DEF Back, Next1, Slots, N
  <2>2. produced >= 1
    BY <1>1 DEF IInv, Points
  <2>3. QED BY <1>1, <1>2, <1>6, <2>1, <2>2
<1>7. CASE i # 1
  <2>1. /\ Back(Next1(reg["adc"]), i) = Back(reg["adc"], i - 1)
        /\ Back(reg["adc"], i - 1) \in Slots \ {reg["adc"]}
        /\ i - 1 \in 1 .. N
    BY <1>2, <1>5, <1>7, SlotsBefore
  <2>2. queue_buffer[Back(reg["adc"], i - 1)] =
          IF i - 1 <= produced - 1 THEN produced - (i - 1) ELSE 0
    BY <1>2, <1>3, <2>1 DEF IInv, Stored
  <2>3. QED BY <1>1, <1>2, <2>1, <2>2
<1>8. QED BY <1>6, <1>7

\* Every other step leaves the stored readings where they are.
LEMMA StoredStep ==
  ASSUME IInv, [Adc \/ Azure]_vars
  PROVE  Stored'
<1> DEFINE Kept == Written' = Written /\ Latest' = Latest
                   /\ queue_buffer' = queue_buffer
<1>1. ASSUME Kept PROVE Stored'
  BY <1>1 DEF Stored, Back, N, IInv
<1>2. ASSUME NEW t \in Tasks, HeadStore(t) PROVE Kept
  BY <1>2, HeadStoreEffect DEF HeadStore, Written, Latest, IInv, Points, Tasks
<1>3. ASSUME AdcTailStore PROVE Kept
  <2>1. pc'["adc"] = "copy"
    BY <1>3, TailStoreEffect DEF IInv, Points, Tasks
  <2>2. QED BY <1>3, <2>1, TailStoreEffect
            DEF Written, Latest, Inserted, BeforeTail, MadeRoom
<1>4. CASE AdcCopy
  BY <1>4, CopyStores
<1>5. ASSUME \A t \in Tasks : ~HeadStore(t), ~AdcTailStore, ~AdcCopy
      PROVE  Kept
  <2> USE DEF IInv, Points, Tasks, Step, ring, cloud, timing, Written, Latest,
          AfterRemove
  <2>1. Past' = Past /\ Inserted' = Inserted
    BY <1>5, EndsKept
  <2>2. ASSUME NEW t \in Tasks, RemoveCheck(t) PROVE Kept
    BY <2>1, <2>2 DEF RemoveCheck
  <2>3. ASSUME NEW t \in Tasks, HeadLoad(t) PROVE Kept
    BY <2>1, <2>3 DEF HeadLoad
  <2>4. ASSUME NEW t \in Tasks, HeadWrap(t) PROVE Kept
    BY <2>1, <2>4 DEF HeadWrap
  <2>5. ASSUME NEW t \in Tasks, DecLoad(t) PROVE Kept
    BY <2>1, <2>5 DEF DecLoad
  <2>6. ASSUME NEW t \in Tasks, DecStore(t) PROVE Kept
    BY <2>1, <2>6 DEF DecStore
  <2>7. CASE AdcSample
    BY <2>1, <2>7 DEF AdcSample, Cell, TypeOK
  <2>8. CASE AdcIsFull1
    BY <2>1, <2>8 DEF AdcIsFull1
  <2>9. CASE AdcIsFull2
    BY <2>1, <2>9 DEF AdcIsFull2
  <2>10. CASE AdcTailWrap
    BY <2>1, <2>10 DEF AdcTailWrap
  <2>11. CASE AdcIncLoad
    BY <2>1, <2>11 DEF AdcIncLoad
  <2>12. CASE AdcIncStore
    BY <2>1, <2>12 DEF AdcIncStore
  <2>13. CASE AzurePoll
    BY <2>1, <2>13 DEF AzurePoll
  <2>14. CASE AzurePeek
    BY <2>1, <2>14 DEF AzurePeek
  <2>15. CASE AzureSendAccepted
    BY <2>1, <2>15 DEF AzureSendAccepted
  <2>16. CASE AzureSendRefused
    BY <2>1, <2>16 DEF AzureSendRefused
  <2>17. CASE AzureSleep
    BY <2>1, <2>17 DEF AzureSleep
  <2>18. CASE AzureConfirm
    BY <2>1, <2>18 DEF AzureConfirm
  <2>19. CASE UNCHANGED vars
    BY <2>1, <2>19 DEF vars
  <2>20. QED BY <1>5, <2>2, <2>3, <2>4, <2>5, <2>6, <2>7, <2>8, <2>9,
              <2>10, <2>11, <2>12, <2>13, <2>14, <2>15, <2>16, <2>17, <2>18,
              <2>19
              DEF Adc, Azure, RemoveData
<1>6. QED BY <1>1, <1>2, <1>3, <1>4, <1>5

\* The ring starts empty, with both tasks outside it.
LEMMA InvInit == Init => IInv
<1> SUFFICES ASSUME Init PROVE IInv
  OBVIOUS
<1>0. /\ queue_buffer \in [Slots -> Cell] /\ reg \in [Tasks -> 0 .. 255]
      /\ 0 \in Cell
  <2>1. 0 \in Cell /\ 0 \in 0 .. 255
    BY PipelineAssumption DEF Cell
  <2>2. queue_buffer = [s \in Slots |-> 0] /\ reg = [t \in Tasks |-> 0]
    BY DEF Init
  <2>3. QED BY <2>1, <2>2
<1> USE PipelineAssumption DEF Init, Tasks, N
<1>1. TypeOK
  <2>1. /\ queue_buffer \in [Slots -> Cell] /\ reg \in [Tasks -> 0 .. 255]
        /\ produced \in Cell /\ peeked \in Cell
    BY <1>0
  <2>2. sent \in Seq(Cell \cup {Garbage}) /\ gate \in {"open"}
    OBVIOUS
  <2>3. 0 \in 0 .. N + 1 /\ 0 \in 0 .. N /\ 0 \in 0 .. 255
    OBVIOUS
  <2>4. QED BY <2>1, <2>2, <2>3 DEF TypeOK
<1>2. Points
  BY <1>0 DEF Points, AdcPoint, AzurePoint
<1>3. TurnsMeet
  BY DEF TurnsMeet, InTurn
<1>4. HeadRange /\ TailRange /\ StoreMoves /\ WrapKeeps
  <2>1. head = 0 /\ tail = 0 /\ 0 \in Slots /\ N > 0
    BY DEF Slots
  <2>2. pc["adc"] = "idle" /\ pc["azure"] = "poll"
    OBVIOUS
  <2>3. HeadRange /\ TailRange
    BY <2>1, <2>2 DEF HeadRange, TailRange, Filling
  <2>4. StoreMoves /\ WrapKeeps
    BY <2>2 DEF StoreMoves, WrapKeeps
  <2>5. QED BY <2>3, <2>4
<1>5. First = 0 /\ Past = 0 /\ Count = 0 /\ Inserted = 0
  BY DEF First, Past, Count, Dist, Inserted, Filling, BeforeTail, MadeRoom,
         Removing, Removed
<1>6. Counts
  BY <1>5 DEF Counts, Removing, MadeRoom, Removed, Filling
<1>7. Stored
  <2>1. Written = 0 /\ Latest = 0
    BY <1>5 DEF Written, Latest
  <2>2. \A i \in 1 .. N : Back(0, i) \in Slots
    BY DEF Back, Slots
  <2>3. QED BY <2>1, <2>2 DEF Stored
<1>8. QED BY <1>1, <1>2, <1>3, <1>4, <1>6, <1>7 DEF IInv

\* However the loads and stores of the two tasks interleave, the ring is in one
\* of the states that IInv describes.
THEOREM Invariant == Spec => []IInv
<1>1. IInv /\ [Adc \/ Azure]_vars => IInv'
  BY TypeOKStep, PointsStep, TurnsMeetStep, HeadRangeStep, TailRangeStep,
     StoreMovesStep, WrapKeepsStep, CountsStep, StoredStep DEF IInv
<1>2. QED BY InvInit, <1>1, PTL DEF Spec
-----------------------------------------------------------------------------
\* The oldest entry has a serial number.
LEMMA FrontPositive == IInv => Front \in Nat \ {0} /\ Count \in Nat
BY CountRange DEF IInv, Counts, Front

\* While no calls overlap, a removal takes away the oldest entry.
LEMMA HeadStoreRemoves ==
  ASSUME IInv, Apart, NEW t \in Tasks, HeadStore(t)
  PROVE  /\ head \in Slots /\ First = head /\ Count >= 1
         /\ Front' = Front + 1 /\ Count' = Count - 1
<1>1. pc[t] = "headStore" /\ head = reg[t]
  BY HeadStoreEffect DEF Apart
<1>2. \A u \in Tasks : pc[u] # "headWrap"
  BY <1>1 DEF Apart, InsideCall, Tasks
<1>3. head \in Slots /\ First = head
  BY <1>2, PipelineAssumption
     DEF IInv, HeadRange, TypeOK, First, Slots, N
<1>4. Next1(head) # head
  BY <1>3, PipelineAssumption DEF Next1, Slots
<1>5. Count >= 1 /\ Count' = Count - 1 /\ Inserted' = Inserted
  BY <1>1, <1>3, <1>4, HeadStoreEffect
<1>6. QED BY <1>3, <1>5, CountRange DEF Front

\* No other step changes what the oldest entry is.
LEMMA FrontKept ==
  ASSUME IInv, [Adc \/ Azure]_vars, \A t \in Tasks : ~HeadStore(t)
  PROVE  Front' = Front
<1>1. CASE AdcTailStore
  BY <1>1, TailStoreEffect, CountRange DEF Front
<1>2. CASE ~AdcTailStore
  BY <1>2, EndsKept, CountKept DEF Front
<1>3. QED BY <1>1, <1>2

\* Outside adc_task's calls, the oldest entry is at head.
LEMMA OldestIsFront ==
  ASSUME IInv, pc["adc"] = "idle", head \in Slots, Count >= 1
  PROVE  queue_buffer[head] = Front /\ Front \in Reading
<1>2. First = head
  BY PipelineAssumption DEF First, Slots, N
<1>3. Count <= Inserted
  BY DEF IInv, Counts
<1>4. /\ Written = Past /\ Latest = Inserted /\ Inserted = produced
      /\ produced \in 0 .. MaxReadings
  BY DEF Written, Latest, Inserted, BeforeTail, MadeRoom, Removing, Removed,
         IInv, TypeOK, Cell
<1>5. Back(Past, Count) = head
  BY <1>2, Ends, PipelineAssumption DEF Back, Count, Dist, Slots, N
<1>6. queue_buffer[head] = Front
  BY <1>3, <1>4, <1>5, CountRange DEF IInv, Stored, Front
<1>7. Front \in Reading
  BY <1>3, <1>4, CountRange, PipelineAssumption DEF Front, Reading
<1>8. QED BY <1>6, <1>7

\* queue_buffer_peek outside adc_task's calls returns the oldest entry
\* (data_buffer.c:26-32).
LEMMA PeekReadsFront ==
  ASSUME IInv, AzurePeek, pc["adc"] = "idle"
  PROVE  peeked' = Front /\ Front \in Reading
<1>1. pc["azure"] = "peek"
  BY DEF AzurePeek, Step
<1>2. head \in Slots
  BY <1>1, PipelineAssumption DEF IInv, HeadRange, TypeOK, Slots, N, Tasks
<1>3. Count >= 1
  BY <1>1 DEF IInv, Counts
<1>4. QED BY <1>2, <1>3, OldestIsFront DEF AzurePeek

\* As long as no two calls overlap, each task removes from the ring that it
\* looked at.
LEMMA ApartStep ==
  ASSUME IInv, Apart, [Adc \/ Azure]_vars, ~mixed'
  PROVE  Apart'
<1> USE DEF IInv, Points, Tasks, Step, ring, cloud, timing, Apart, InsideCall,
        Removing, Removed, MadeRoom, BeforeTail, Filling, AfterRemove
<1>1. ASSUME NEW t \in Tasks, HeadStore(t) PROVE Apart'
  BY <1>1 DEF HeadStore
<1>2. CASE AdcTailStore
  BY <1>2 DEF AdcTailStore
<1>3. CASE (\A t \in Tasks : ~HeadStore(t)) /\ ~AdcTailStore
  <2>1. Count' = Count
    BY <1>3, CountKept
  <2>2. ASSUME NEW t \in Tasks, RemoveCheck(t) PROVE Apart'
    BY <2>2, <2>1 DEF RemoveCheck, InsideCall
  <2>3. ASSUME NEW t \in Tasks, HeadLoad(t) PROVE Apart'
    BY <2>3, <2>1 DEF HeadLoad, InsideCall
  <2>4. ASSUME NEW t \in Tasks, HeadWrap(t) PROVE Apart'
    BY <2>4, <2>1 DEF HeadWrap, InsideCall
  <2>5. ASSUME NEW t \in Tasks, DecLoad(t) PROVE Apart'
    BY <2>5, <2>1 DEF DecLoad, InsideCall
  <2>6. ASSUME NEW t \in Tasks, DecStore(t) PROVE Apart'
    BY <2>6, <2>1 DEF DecStore, InsideCall
  <2>7. CASE AdcSample
    BY <2>7, <2>1 DEF AdcSample, Calls
  <2>8. CASE AdcIsFull1
    BY <2>8, <2>1, FirstLook DEF AdcIsFull1
  <2>9. CASE AdcIsFull2
    BY <2>9, <2>1 DEF AdcIsFull2
  <2>10. CASE AdcCopy
    BY <2>10, <2>1 DEF AdcCopy
  <2>11. CASE AdcTailWrap
    BY <2>11, <2>1 DEF AdcTailWrap
  <2>12. CASE AdcIncLoad
    BY <2>12, <2>1 DEF AdcIncLoad
  <2>13. CASE AdcIncStore
    BY <2>13, <2>1 DEF AdcIncStore
  <2>14. CASE AzurePoll
    BY <2>14, <2>1 DEF AzurePoll
  <2>15. CASE AzurePeek
    BY <2>15, <2>1 DEF AzurePeek
  <2>16. CASE AzureSendAccepted
    BY <2>16, <2>1 DEF AzureSendAccepted, Calls
  <2>17. CASE AzureSendRefused
    BY <2>17, <2>1 DEF AzureSendRefused
  <2>18. CASE AzureSleep
    BY <2>18, <2>1 DEF AzureSleep
  <2>19. CASE AzureConfirm
    BY <2>19, <2>1 DEF AzureConfirm
  <2>20. CASE UNCHANGED vars
    BY <2>20, <2>1 DEF vars
  <2>21. QED BY <1>3, <2>2, <2>3, <2>4, <2>5, <2>6, <2>7, <2>8, <2>9, <2>10,
              <2>11, <2>12, <2>13, <2>14, <2>15, <2>16, <2>17, <2>18, <2>19,
              <2>20
              DEF Adc, Azure, RemoveData
<1>4. QED BY <1>1, <1>2, <1>3

\* Appending a later reading keeps a sequence of readings in order.
LEMMA AppendKeepsOrder ==
  ASSUME NEW S, NEW s \in Seq(S), NEW e \in S, e \in Nat,
         \A i \in DOMAIN s : s[i] \in Nat /\ s[i] < e,
         \A i, j \in DOMAIN s : i < j => s[i] < s[j],
         NEW a, a = Append(s, e)
  PROVE  /\ \A i \in DOMAIN a : a[i] = e \/ \E j \in DOMAIN s : a[i] = s[j]
         /\ \A i \in DOMAIN a : a[i] \in Nat /\ a[i] <= e
         /\ \A i, j \in DOMAIN a : i < j => a[i] < a[j]
         /\ \E i \in DOMAIN a : a[i] = e
<1> DEFINE n == Len(s)
<1>1. /\ n \in Nat /\ DOMAIN s = 1 .. n /\ DOMAIN a = 1 .. n + 1
      /\ \A i \in 1 .. n : a[i] = s[i]
      /\ a[n + 1] = e
  OBVIOUS
<1> HIDE DEF n
<1>2. \A i \in 1 .. n : a[i] \in Nat /\ a[i] < e
  BY <1>1
<1>3. \A i \in 1 .. n + 1 : i = n + 1 \/ i \in 1 .. n
  BY <1>1
<1>4. \A i, j \in 1 .. n : i < j => a[i] < a[j]
  BY <1>1
<1>5. \A i, j \in 1 .. n + 1 : i < j => i \in 1 .. n
  BY <1>1
<1>6. n + 1 \in 1 .. n + 1
  BY <1>1
<1>7. \A i \in DOMAIN a : a[i] = e \/ \E j \in DOMAIN s : a[i] = s[j]
  BY <1>1, <1>3
<1>8. \A i \in DOMAIN a : a[i] \in Nat /\ a[i] <= e
  BY <1>1, <1>2, <1>3
<1>9. \A i, j \in DOMAIN a : i < j => a[i] < a[j]
  BY <1>1, <1>2, <1>3, <1>4, <1>5
<1>10. QED BY <1>1, <1>6, <1>7, <1>8, <1>9

\* So what was sent stays in order when a later reading is sent
\* (iothub_client_sample_mqtt.c:260).
LEMMA SendKeepsOrder ==
  ASSUME IInv, SentInOrder, peeked \in Reading,
         \A i \in DOMAIN sent : sent[i] < peeked
  PROVE  sent' = Append(sent, peeked) =>
           /\ SentInOrder'
           /\ peeked \in Range(sent')
           /\ \A i \in DOMAIN sent' : sent'[i] \in Nat /\ sent'[i] <= peeked
<1>1. sent \in Seq(Cell \cup {Garbage}) /\ peeked \in Cell \cup {Garbage}
  BY DEF IInv, TypeOK
<1>2. peeked \in Nat /\ \A i \in DOMAIN sent : sent[i] \in Nat
  BY DEF SentInOrder, Range, Reading
<1>3. \A i, j \in DOMAIN sent : i < j => sent[i] < sent[j]
  BY DEF SentInOrder
<1>4. ASSUME sent' = Append(sent, peeked)
      PROVE  /\ \A i \in DOMAIN sent' :
                  \/ sent'[i] = peeked
                  \/ \E j \in DOMAIN sent : sent'[i] = sent[j]
             /\ \A i \in DOMAIN sent' : sent'[i] \in Nat /\ sent'[i] <= peeked
             /\ \A i, j \in DOMAIN sent' : i < j => sent'[i] < sent'[j]
             /\ \E i \in DOMAIN sent' : sent'[i] = peeked
  BY <1>1, <1>2, <1>3, <1>4, AppendKeepsOrder
<1>5. QED BY <1>4 DEF SentInOrder, Range

\* azure_task's removal finds an entry (data_buffer.c:86).
LEMMA PeekedIsThere ==
  ASSUME IInv, Apart, pc["azure"] = "removeCheck"
  PROVE  ~queue_buffer_isEmpty
<1>1. pc["adc"] = "idle" /\ Count >= 1
  BY DEF Apart, InsideCall, IInv, Counts
<1>2. QED BY <1>1, Tests DEF Filling

\* As long as no two calls overlap, what was sent is older than what is left.
LEMMA SentStep ==
  ASSUME IInv, Apart, Sent, [Adc \/ Azure]_vars, ~mixed'
  PROVE  Sent'
<1>1. ASSUME NEW t \in Tasks, HeadStore(t) PROVE Sent'
  <2>1. /\ Front' = Front + 1 /\ Count' = Count - 1 /\ Count \in Nat
        /\ Front \in Nat /\ N \in Nat
    BY <1>1, HeadStoreRemoves, FrontPositive, CountRange
  <2>2. \A i \in DOMAIN sent : sent[i] \in Nat
    BY DEF Sent, SentInOrder, Range, Reading
  <2>3. /\ pc[t] = "headStore" /\ pc' = [pc EXCEPT ![t] = "headWrap"]
        /\ peeked' = peeked /\ sent' = sent /\ met' = met
    BY <1>1, HeadStoreEffect
  <2>4. SentInOrder' /\ \A i \in DOMAIN sent : sent[i] < Front'
    BY <2>1, <2>2, <2>3 DEF Sent, SentInOrder
  <2>5. CASE t = "azure"
    BY <2>1, <2>2, <2>3, <2>4, <2>5
       DEF IInv, Points, Tasks, Sent, Removing
  <2>6. CASE t = "adc"
    <3>1. pc["azure"] \notin Removing /\ Count = N - 1
      BY <2>3, <2>6 DEF Apart, InsideCall, Removing
    <3>2. Done("adc")' /\ pc'["adc"] \in MadeRoom /\ pc'["azure"] = pc["azure"]
      BY <2>3, <2>6 DEF IInv, Points, Tasks, Done, MadeRoom, Removed
    <3>3. QED BY <2>1, <2>2, <2>3, <2>4, <3>1, <3>2 DEF Sent, Reading
  <2>7. QED BY <2>5, <2>6 DEF Tasks
<1>2. CASE AdcTailStore
  <2>1. Front' = Front /\ Count' = Count + 1 /\ Count \in Nat /\ N \in Nat
    BY <1>2, FrontKept, TailStoreEffect, FrontPositive, CountRange
       DEF HeadStore, AdcTailStore, Step, Tasks
  <2>2. QED BY <1>2, <2>1, TailStoreEffect
    DEF AdcTailStore, cloud, IInv, Points, Tasks, Sent, SentInOrder, Done,
        Removing, Removed, MadeRoom, Filling
<1>3. AzureSendAccepted =>
        /\ SentInOrder' /\ peeked \in Range(sent')
        /\ \A i \in DOMAIN sent' : sent'[i] \in Nat /\ sent'[i] <= peeked
  <2>1. AzureSendAccepted =>
          pc["azure"] = "send" /\ sent' = Append(sent, peeked)
    BY DEF AzureSendAccepted, Step
  <2>2. QED BY <2>1, SendKeepsOrder DEF Sent, SentInOrder, Range, Reading
<1>4. AzurePeek => peeked' = Front /\ Front \in Reading
  BY PeekReadsFront DEF AzurePeek, Calls, InsideCall
<1>5. CASE (\A t \in Tasks : ~HeadStore(t)) /\ ~AdcTailStore
  <2>1. /\ Front' = Front /\ Count' = Count
        /\ Front \in Nat /\ Count \in Nat /\ N \in Nat
    BY <1>5, FrontKept, CountKept, FrontPositive, CountRange
  <2> USE DEF IInv, Points, Tasks, Step, ring, cloud, timing, Apart,
          InsideCall, Sent, SentInOrder, Done, Removing, Removed, MadeRoom,
          BeforeTail, Filling, AfterRemove
  <2>2. ASSUME NEW t \in Tasks, RemoveCheck(t) PROVE Sent'
    <3>1. t = "azure" => ~queue_buffer_isEmpty
      BY <2>2, PeekedIsThere DEF RemoveCheck
    <3>2. QED BY <2>2, <2>1, <3>1 DEF RemoveCheck
  <2>3. ASSUME NEW t \in Tasks, HeadLoad(t) PROVE Sent'
    BY <2>3, <2>1 DEF HeadLoad
  <2>4. ASSUME NEW t \in Tasks, HeadWrap(t) PROVE Sent'
    BY <2>4, <2>1 DEF HeadWrap
  <2>5. ASSUME NEW t \in Tasks, DecLoad(t) PROVE Sent'
    BY <2>5, <2>1 DEF DecLoad
  <2>6. ASSUME NEW t \in Tasks, DecStore(t) PROVE Sent'
    BY <2>6, <2>1 DEF DecStore
  <2>7. CASE AdcSample
    BY <2>7, <2>1 DEF AdcSample, Calls, MeetsOnce, InTurn
  <2>8. CASE AdcIsFull1
    BY <2>8, <2>1 DEF AdcIsFull1
  <2>9. CASE AdcIsFull2
    BY <2>9, <2>1, RoomFound DEF AdcIsFull2
  <2>10. CASE AdcCopy
    BY <2>10, <2>1 DEF AdcCopy
  <2>11. CASE AdcTailWrap
    BY <2>11, <2>1 DEF AdcTailWrap
  <2>12. CASE AdcIncLoad
    BY <2>12, <2>1 DEF AdcIncLoad
  <2>13. CASE AdcIncStore
    BY <2>13, <2>1 DEF AdcIncStore, TurnsMeet, InTurn
  <2>14. CASE AzurePoll
    BY <2>14, <2>1 DEF AzurePoll
  <2>15. CASE AzurePeek
    BY <2>15, <1>4, <2>1 DEF AzurePeek
  <2>16. CASE AzureSendAccepted
    BY <2>16, <1>3, <2>1 DEF AzureSendAccepted
  <2>17. CASE AzureSendRefused
    BY <2>17, <2>1 DEF AzureSendRefused
  <2>18. CASE AzureSleep
    BY <2>18, <2>1 DEF AzureSleep
  <2>19. CASE AzureConfirm
    BY <2>19, <2>1 DEF AzureConfirm
  <2>20. CASE UNCHANGED vars
    BY <2>20, <2>1 DEF vars
  <2>21. QED BY <1>5, <2>2, <2>3, <2>4, <2>5, <2>6, <2>7, <2>8, <2>9, <2>10,
              <2>11, <2>12, <2>13, <2>14, <2>15, <2>16, <2>17, <2>18, <2>19,
              <2>20
              DEF Adc, Azure, RemoveData
<1>6. QED BY <1>1, <1>2, <1>5
-----------------------------------------------------------------------------
\* mixed is a history: calls that overlapped stay on record.
LEMMA MixedStays == [Adc \/ Azure]_vars /\ mixed => mixed'
<1> SUFFICES ASSUME [Adc \/ Azure]_vars, mixed PROVE mixed'
  OBVIOUS
<1> USE DEF timing, Calls
<1>1. ASSUME NEW t \in Tasks, RemoveCheck(t) PROVE mixed'
  BY <1>1 DEF RemoveCheck
<1>2. ASSUME NEW t \in Tasks, HeadLoad(t) PROVE mixed'
  BY <1>2 DEF HeadLoad
<1>3. ASSUME NEW t \in Tasks, HeadStore(t) PROVE mixed'
  BY <1>3 DEF HeadStore
<1>4. ASSUME NEW t \in Tasks, HeadWrap(t) PROVE mixed'
  BY <1>4 DEF HeadWrap
<1>5. ASSUME NEW t \in Tasks, DecLoad(t) PROVE mixed'
  BY <1>5 DEF DecLoad
<1>6. ASSUME NEW t \in Tasks, DecStore(t) PROVE mixed'
  BY <1>6 DEF DecStore
<1>7. CASE AdcSample
  BY <1>7 DEF AdcSample
<1>8. CASE AdcIsFull1
  BY <1>8 DEF AdcIsFull1
<1>9. CASE AdcIsFull2
  BY <1>9 DEF AdcIsFull2
<1>10. CASE AdcTailStore
  BY <1>10 DEF AdcTailStore
<1>11. CASE AdcCopy
  BY <1>11 DEF AdcCopy
<1>12. CASE AdcTailWrap
  BY <1>12 DEF AdcTailWrap
<1>13. CASE AdcIncLoad
  BY <1>13 DEF AdcIncLoad
<1>14. CASE AdcIncStore
  BY <1>14 DEF AdcIncStore
<1>15. CASE AzurePoll
  BY <1>15 DEF AzurePoll
<1>16. CASE AzurePeek
  BY <1>16 DEF AzurePeek
<1>17. CASE AzureSendAccepted
  BY <1>17 DEF AzureSendAccepted
<1>18. CASE AzureSendRefused
  BY <1>18 DEF AzureSendRefused
<1>19. CASE AzureSleep
  BY <1>19 DEF AzureSleep
<1>20. CASE AzureConfirm
  BY <1>20 DEF AzureConfirm
<1>21. CASE UNCHANGED vars
  BY <1>21 DEF vars
<1>22. QED BY <1>1, <1>2, <1>3, <1>4, <1>5, <1>6, <1>7, <1>8, <1>9, <1>10,
            <1>11, <1>12, <1>13, <1>14, <1>15, <1>16, <1>17, <1>18, <1>19,
            <1>20, <1>21
            DEF Adc, Azure, RemoveData, Tasks

\* As long as no two calls overlapped, OInv holds as well.
THEOREM OrderInvariant == Spec => []OInv
<1>1. Init => OInv
  <2> SUFFICES ASSUME Init PROVE Apart /\ Sent
    BY DEF OInv
  <2>1. /\ pc["adc"] = "idle" /\ pc["azure"] = "poll" /\ sent = << >>
        /\ \A t \in Tasks : pc[t] \in {"idle", "poll"}
    BY DEF Init, Tasks
  <2>2. Apart
    BY <2>1 DEF Apart, InsideCall, Removing
  <2>3. Sent
    BY <2>1 DEF Sent, SentInOrder, Range, Removing
  <2>4. QED BY <2>2, <2>3
<1>2. IInv /\ OInv /\ [Adc \/ Azure]_vars => OInv'
  BY MixedStays, ApartStep, SentStep DEF OInv
<1>3. QED BY Invariant, <1>1, <1>2, PTL DEF Spec

\* Every state is of the types declared, and no index or counter leaves its
\* range (data_buffer.c:20-24).
THEOREM TypeCorrect == Spec => []TypeOK
<1>1. IInv => TypeOK
  BY DEF IInv
<1>2. QED BY <1>1, Invariant, PTL

\* Once both tasks are outside the ring, it holds the latest consecutive
\* readings (data_buffer.c:71-75, 88-92), for every size of ring and number of
\* readings.
THEOREM RestCorrect == Spec => []RestHoldsLatest
<1>1. IInv => RestHoldsLatest
  <2> SUFFICES ASSUME IInv, pc["adc"] = "idle", ~InsideCall("azure")
               PROVE  /\ head \in Slots /\ tail \in Slots
                      /\ \A i \in 1 .. Occupied :
                           queue_buffer[SlotOf(i)] = produced - Occupied + i
    BY DEF RestHoldsLatest
  <2>1. head \in Slots /\ tail \in Slots
    BY PipelineAssumption DEF IInv, HeadRange, TailRange, TypeOK, Filling,
       InsideCall, Slots, N, Tasks
  <2>2. First = head /\ Past = tail /\ Occupied = Count
    BY <2>1, PipelineAssumption
       DEF First, Past, Filling, Count, Dist, Occupied, Slots, N
  <2>3. /\ Written = tail /\ Latest = produced /\ Inserted = produced
        /\ produced \in Nat
    BY <2>2 DEF Written, Latest, Inserted, BeforeTail, MadeRoom, Removing,
                Removed, IInv, TypeOK, Cell
  <2>4. ASSUME NEW i \in 1 .. Occupied
        PROVE  queue_buffer[SlotOf(i)] = produced - Occupied + i
    <3> DEFINE j == Occupied + 1 - i
    <3>1. Occupied \in 0 .. N - 1 /\ Occupied <= produced
      BY <2>2, <2>3, CountRange DEF IInv, Counts
    <3>2. j \in 1 .. N /\ j <= produced
      BY <2>3, <2>4, <3>1, CountRange
    <3>3. Back(tail, j) = SlotOf(i)
      BY <2>1, <2>4, PipelineAssumption DEF Back, SlotOf, Occupied, Slots, N
    <3> HIDE DEF j
    <3>4. queue_buffer[SlotOf(i)] = produced + 1 - j
      BY <2>3, <3>2, <3>3 DEF IInv, Stored
    <3>5. QED BY <2>3, <2>4, <3>1, <3>4 DEF j
  <2>5. QED BY <2>1, <2>4
<1>2. QED BY <1>1, Invariant, PTL

\* data_buffer.c:60 "keep the latest data always": whatever azure_task does in
\* between, the second look of an insertion (data_buffer.c:69) never finds the
\* ring full again, so that the new reading is stored.
LatestIsInserted == pc["adc"] = "isFull2" => ~queue_buffer_isFull

\* It is, under every interleaving, for every size of ring.
THEOREM InsertCorrect == Spec => []LatestIsInserted
<1>1. IInv => LatestIsInserted
  BY RoomFound DEF LatestIsInserted
<1>2. QED BY <1>1, Invariant, PTL

\* As long as no two calls overlap, what is sent are readings that were
\* inserted, each once and in order (data_buffer.c:7,
\* iothub_client_sample_mqtt.c:234-269).
THEOREM OrderCorrect == Spec => []CallsKeepOrder
<1>1. OInv => CallsKeepOrder
  BY DEF OInv, Sent, CallsKeepOrder
<1>2. QED BY <1>1, OrderInvariant, PTL

\* Then also, a reading leaves the ring unsent only to make room
\* (data_buffer.c:65-67, 88).
THEOREM LossCorrect == Spec => LossOnlyWhenFull
<1> DEFINE Loss == \A t \in Tasks : HeadStore(t) /\ ~mixed =>
                     queue_buffer[head] \in Range(sent) \/ queue_buffer_isFull
<1>1. ASSUME IInv, OInv, NEW t \in Tasks, HeadStore(t), ~mixed
      PROVE  queue_buffer[head] \in Range(sent) \/ queue_buffer_isFull
  <2>1. Apart /\ Sent
    BY <1>1 DEF OInv
  <2>2. pc[t] = "headStore" /\ head \in Slots
    BY <1>1, <2>1, HeadStoreRemoves, HeadStoreEffect
  <2>3. pc["adc"] \notin Filling /\ head < N
    BY <2>1, <2>2, PipelineAssumption
       DEF Apart, InsideCall, Tasks, Filling, Slots, N
  <2>4. Count = N - 1 => queue_buffer_isFull
    BY <1>1, <2>3, Tests
  <2>5. CASE t = "adc"
    BY <2>1, <2>2, <2>4, <2>5 DEF Apart, Removing
  <2>6. CASE t = "azure"
    <3>1. pc["adc"] = "idle" /\ peeked \in Range(sent)
      BY <2>1, <2>2, <2>6 DEF Apart, Sent, InsideCall, Removing
    <3>2. peeked = Front \/ Count = N - 1
      BY <2>1, <2>2, <2>6, <3>1 DEF Sent, Removing, MadeRoom, Removed
    <3>3. queue_buffer[head] = Front
      BY <1>1, <2>1, <3>1, HeadStoreRemoves, OldestIsFront
    <3>4. QED BY <2>4, <3>1, <3>2, <3>3
  <2>7. QED BY <2>5, <2>6 DEF Tasks
<1>2. IInv /\ OInv => Loss
  BY <1>1
<1>3. QED BY <1>2, Invariant, OrderInvariant, PTL DEF LossOnlyWhenFull
-----------------------------------------------------------------------------
\* The latest reading that was inserted is in the ring or was sent.
Kept == Inserted = 0 \/ Count >= 1 \/ Inserted \in Range(sent)

\* What was accepted stays on record.
LEMMA SentGrows ==
  ASSUME sent \in Seq(Cell \cup {Garbage}), peeked \in Cell \cup {Garbage},
         [Adc \/ Azure]_vars
  PROVE  Range(sent) \subseteq Range(sent')
<1> USE DEF ring, cloud
<1>1. CASE AzureSendAccepted
  <2>1. sent' = Append(sent, peeked)
    BY <1>1 DEF AzureSendAccepted
  <2>2. \A i \in DOMAIN sent : i \in DOMAIN sent' /\ sent'[i] = sent[i]
    BY <2>1
  <2>3. QED BY <2>2 DEF Range
<1>2. CASE ~AzureSendAccepted
  <2>1. sent' = sent
    BY <1>2
    DEF Adc, Azure, RemoveData, RemoveCheck, HeadLoad, HeadStore, HeadWrap,
        DecLoad, DecStore, AdcSample, AdcIsFull1, AdcIsFull2, AdcTailStore,
        AdcCopy, AdcTailWrap, AdcIncLoad, AdcIncStore, AzurePoll, AzurePeek,
        AzureSendRefused, AzureSleep, AzureConfirm, vars
  <2>2. QED BY <2>1
<1>3. QED BY <1>1, <1>2

\* Only azure_task takes the last entry, and it has sent that one: adc_task drops
\* from a ring that holds others, and after a drop so does the ring that
\* azure_task removes from.
LEMMA KeptStep ==
  ASSUME IInv, Apart, Sent, Kept, [Adc \/ Azure]_vars
  PROVE  Kept'
<1>1. ASSUME NEW t \in Tasks, HeadStore(t)
      PROVE  Kept'
  <2>1. Count >= 1 /\ Count' = Count - 1 /\ Inserted' = Inserted /\ sent' = sent
    BY <1>1, HeadStoreRemoves, HeadStoreEffect
  <2>2. Count \in Nat /\ Inserted \in Nat /\ N \in 3 .. 255
    BY CountRange
  <2>3. CASE Count = N - 1
    BY <2>1, <2>2, <2>3 DEF Kept
  <2>4. CASE Count # N - 1
    <3>1. pc[t] = "headStore" /\ t # "adc"
      BY <1>1, <2>4, HeadStoreEffect DEF Apart, Removing
    <3>2. pc["azure"] = "headStore" /\ pc["adc"] = "idle"
      BY <3>1 DEF Apart, InsideCall, Tasks
    <3>3. peeked = Front /\ peeked \in Range(sent)
      BY <2>4, <3>2 DEF Sent, Removing, MadeRoom, Removed
    <3>4. Count = 1 => Front = Inserted
      BY <2>2 DEF Front
    <3>5. QED BY <2>1, <2>2, <3>3, <3>4 DEF Kept
  <2>5. QED BY <2>3, <2>4
<1>2. CASE AdcTailStore
  <2>1. Count' = Count + 1
    BY <1>2, TailStoreEffect
  <2>2. QED BY <2>1, CountRange DEF Kept
<1>3. CASE ~AdcTailStore /\ \A t \in Tasks : ~HeadStore(t)
  <2>1. Inserted' = Inserted /\ Count' = Count
    BY <1>3, EndsKept, CountKept
  <2>2. Range(sent) \subseteq Range(sent')
    BY SentGrows DEF IInv, TypeOK
  <2>3. QED BY <2>1, <2>2 DEF Kept
<1>4. QED BY <1>1, <1>2, <1>3

\* data_buffer.c:60 "keep the latest data always": adc_task finds the ring empty
\* after an insertion only when azure_task has sent what it inserted.
LatestIsKept ==
  ~mixed /\ pc["adc"] = "idle" /\ produced > 0 /\ queue_buffer_isEmpty =>
    produced \in Range(sent)

\* As long as no two calls overlap, the latest reading is never lost, however the
\* drops (data_buffer.c:65-67) and the removals
\* (iothub_client_sample_mqtt.c:269) fall between peek, send and removal: what
\* LatestIsSent rests on beside fairness.
THEOREM LatestCorrect == Spec => []LatestIsKept
<1>1. Init => (~mixed => Kept)
  <2>1. Init => Inserted = 0
    BY DEF Init, Inserted, BeforeTail, MadeRoom, Removing, Removed
  <2>2. QED BY <2>1 DEF Kept
<1>2. IInv /\ OInv /\ (~mixed => Kept) /\ [Adc \/ Azure]_vars => (~mixed => Kept)'
  BY MixedStays, KeptStep DEF OInv
<1>3. IInv /\ (~mixed => Kept) => LatestIsKept
  <2> SUFFICES ASSUME IInv, Kept, pc["adc"] = "idle", produced > 0,
                      queue_buffer_isEmpty
               PROVE  produced \in Range(sent)
      BY DEF LatestIsKept
  <2>1. Count = 0
    BY Tests DEF Filling
  <2>2. Inserted = produced /\ produced \in Nat
    BY DEF Inserted, BeforeTail, MadeRoom, Removing, Removed, IInv, TypeOK, Cell
  <2>3. QED BY <2>1, <2>2 DEF Kept
<1>4. QED BY Invariant, OrderInvariant, <1>1, <1>2, <1>3, PTL DEF Spec
===============================================================================
