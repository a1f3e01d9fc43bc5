--------------------------- MODULE ProvTimerProofs ---------------------------
(***************************************************************************)
(* What holds of ProvTimer for all periods and all amounts of PSRAM.       *)
(***************************************************************************)
EXTENDS ProvTimer, TLAPS

-----------------------------------------------------------------------------
\* xQueueSend keeps the type of the queue and adds at most one command.
LEMMA SendFacts ==
    ASSUME NEW q \in Seq(prov_cmd_t), Len(q) <= QUEUE_LEN, NEW cmd \in prov_cmd_t
    PROVE  /\ AfterSend(q, cmd) \in Seq(prov_cmd_t)
           /\ Len(AfterSend(q, cmd)) <= QUEUE_LEN
           /\ Len(AfterSend(q, cmd)) <= Len(q) + 1
           /\ Len(q) < QUEUE_LEN => AfterSend(q, cmd) # q
  <1>1. CASE Len(q) < QUEUE_LEN
    <2>1. /\ Append(q, cmd) \in Seq(prov_cmd_t)
          /\ Len(Append(q, cmd)) = Len(q) + 1
      OBVIOUS
    <2>2. Append(q, cmd) # q
      BY <2>1
    <2>3. QED
      BY <1>1, <2>1, <2>2, ProvQueueAssumption DEF AfterSend
  <1>2. CASE ~(Len(q) < QUEUE_LEN)
    BY <1>2 DEF AfterSend
  <1>3. QED
    BY <1>1, <1>2

USE DEF timerVars, provVars, ages

\* The state provision_init leaves, which a reset comes back to.
LEMMA TypeInit == Init => TypeOK
  <1> SUFFICES ASSUME Init PROVE TypeOK
    OBVIOUS
  <1>1. queue \in Seq(prov_cmd_t) /\ Len(queue) = 0
    BY DEF Init
  <1>2. created \in BOOLEAN /\ alone \in BOOLEAN /\ lost \in BOOLEAN
    BY Zenon DEF Init
  <1>3. ProvTypeOK
    BY <1>1, <1>2, ProvQueueAssumption DEF Init, ProvTypeOK
  <1>4. QED
    BY <1>2, <1>3, ProvTimerAssumption DEF Init, TypeOK

\* A reset restores the types.
LEMMA TypeReset == Reset => TypeOK'
  <1> SUFFICES ASSUME Reset PROVE TypeOK'
    OBVIOUS
  <1>1. queue' \in Seq(prov_cmd_t) /\ Len(queue') = 0
    BY DEF Reset
  <1>2. created' \in BOOLEAN /\ alone' \in BOOLEAN /\ lost' \in BOOLEAN
    BY Zenon DEF Reset
  <1>3. ProvTypeOK'
    BY <1>1, <1>2, ProvQueueAssumption DEF Reset, ProvTypeOK
  <1>4. QED
    BY <1>2, <1>3, ProvTimerAssumption DEF Reset, TypeOK

\* A send of the handler preserves the type of the queue.
LEMMA TypeSend ==
    ASSUME ProvTypeOK, NEW cmd \in prov_cmd_t, Send(cmd),
           UNCHANGED <<created, worker, psram, updates>>
    PROVE  ProvTypeOK' /\ lost' \in BOOLEAN
  <1>1. queue' \in Seq(prov_cmd_t) /\ Len(queue') <= QUEUE_LEN
    BY SendFacts DEF ProvTypeOK, Send
  <1>2. lost' \in BOOLEAN
    BY Zenon DEF Send
  <1>3. QED
    BY <1>1, <1>2 DEF ProvTypeOK

\* The worker preserves the types.
LEMMA TypeWorker == TypeOK /\ Worker => TypeOK'
  <1> SUFFICES ASSUME TypeOK, Worker PROVE TypeOK'
    OBVIOUS
  <1> DEFINE Rest == UNCHANGED <<timerVars, ages, alone, lost>>
  <1>1. CASE Receive /\ Rest
    <2>1. queue \in Seq(prov_cmd_t) /\ queue # <<>>
      BY <1>1 DEF Receive, TypeOK, ProvTypeOK
    <2>2. Head(queue) \in prov_cmd_t /\ Tail(queue) \in Seq(prov_cmd_t)
          /\ Len(Tail(queue)) = Len(queue) - 1
      BY <2>1
    <2>3. ProvTypeOK'
      BY <1>1, <2>2, ProvQueueAssumption DEF Receive, TypeOK, ProvTypeOK
    <2>4. QED
      BY <1>1, <2>3 DEF TypeOK
  <1>2. CASE ConfigUpdate /\ Rest
    <2>1. ProvTypeOK'
      BY <1>2, ProvQueueAssumption DEF ConfigUpdate, Exhausted, BytesPerUpdate, TypeOK, ProvTypeOK
    <2>2. QED
      BY <1>2, <2>1 DEF TypeOK
  <1>3. CASE NoWork /\ Rest
    <2>1. ProvTypeOK'
      BY <1>3 DEF NoWork, TypeOK, ProvTypeOK
    <2>2. QED
      BY <1>3, <2>1 DEF TypeOK
  <1>4. CASE Reset
    BY <1>4, TypeReset
  <1>5. QED
    BY <1>1, <1>2, <1>3, <1>4 DEF Worker

\* Every step preserves the types.
LEMMA TypeStep == TypeOK /\ [Next]_vars => TypeOK'
  <1> SUFFICES ASSUME TypeOK, [Next]_vars PROVE TypeOK'
    OBVIOUS
  <1>1. CASE provisioning_start
    BY <1>1, ProvTimerAssumption DEF provisioning_start, TypeOK, ProvTypeOK
  <1>2. CASE Minute
    BY <1>2 DEF Minute, TypeOK, ProvTypeOK
  <1>3. CASE Tick
    <2>1. alone' \in BOOLEAN /\ lost' \in BOOLEAN
      BY <1>3, Zenon DEF Tick
    <2>2. ProvTypeOK'
      BY <1>3 DEF Tick, TypeOK, ProvTypeOK
    <2>3. QED
      BY <1>3, <2>1, <2>2, ProvTimerAssumption DEF Tick, TypeOK
  <1>4. CASE CheckConfig
    <2>1. ProvTypeOK' /\ lost' \in BOOLEAN
      <3>1. CASE Send("PERIODIC_UPDATE_CONFIG")
        BY <1>4, <3>1, TypeSend DEF CheckConfig, TypeOK, prov_cmd_t
      <3>2. CASE UNCHANGED <<queue, lost>>
        BY <1>4, <3>2 DEF CheckConfig, TypeOK, ProvTypeOK
      <3>3. QED
        BY <1>4, <3>1, <3>2 DEF CheckConfig
    <2>2. QED
      BY <1>4, <2>1, ProvTimerAssumption DEF CheckConfig, TypeOK
  <1>5. CASE CheckFirmware
    <2>1. ProvTypeOK' /\ lost' \in BOOLEAN
      <3>1. CASE Send("PERIODIC_FIRMWARE_UPDATE")
        BY <1>5, <3>1, TypeSend DEF CheckFirmware, TypeOK, prov_cmd_t
      <3>2. CASE UNCHANGED <<queue, lost>>
        BY <1>5, <3>2 DEF CheckFirmware, TypeOK, ProvTypeOK
      <3>3. QED
        BY <1>5, <3>1, <3>2 DEF CheckFirmware
    <2>2. QED
      BY <1>5, <2>1, ProvTimerAssumption DEF CheckFirmware, TypeOK
  <1>6. CASE Worker
    BY <1>6, TypeWorker
  <1>7. CASE update_config \/ update_firmware
    <2>1. PICK cmd \in prov_cmd_t, call \in {"update_config", "update_firmware"} : Call(call, cmd)
      BY <1>7 DEF update_config, update_firmware, prov_cmd_t
    <2>2. queue' \in Seq(prov_cmd_t) /\ Len(queue') <= QUEUE_LEN
      BY <2>1, SendFacts DEF Call, TypeOK, ProvTypeOK
    <2>3. alone' \in BOOLEAN
      BY <2>1, Zenon DEF Call
    <2>4. QED
      BY <2>1, <2>2, <2>3 DEF Call, TypeOK, ProvTypeOK
  <1>8. CASE UNCHANGED vars
    BY <1>8 DEF vars, TypeOK, ProvTypeOK
  <1>9. QED
    BY <1>1, <1>2, <1>3, <1>4, <1>5, <1>6, <1>7, <1>8 DEF Next, TimerTask

\* Every variable keeps its type, with any number of timers.
THEOREM TypeCorrect == Spec => []TypeOK
  BY TypeInit, TypeStep, PTL DEF Spec

-----------------------------------------------------------------------------
(***************************************************************************)
(* With one timer the counters count the minutes: they differ only while   *)
(* the timer has expired and its handler has not begun.                    *)
(***************************************************************************)
AgesMatch ==
    /\ age_config = n_config + due
    /\ age_firmware = n_firmware + due
    /\ handler # "idle" => due = 0
    /\ timers = 0 => handler = "idle"

\* Every step with at most one timer keeps counters and minutes together.
LEMMA AgesStep ==
    ASSUME MaxTimers \in 0 .. 1, TypeOK, AgesMatch, [Next]_vars
    PROVE  AgesMatch'
  <1> USE DEF TypeOK
  <1>1. CASE provisioning_start
    BY <1>1 DEF provisioning_start, AgesMatch
  <1>2. CASE Minute
    BY <1>2 DEF Minute, AgesMatch
  <1>3. CASE Tick
    BY <1>3 DEF Tick, AgesMatch
  <1>4. CASE CheckConfig
    BY <1>4 DEF CheckConfig, AgesMatch
  <1>5. CASE CheckFirmware
    BY <1>5 DEF CheckFirmware, AgesMatch
  <1>6. CASE Worker
    BY <1>6 DEF Worker, Reset, AgesMatch
  <1>7. CASE update_config \/ update_firmware
    BY <1>7 DEF update_config, update_firmware, Call, AgesMatch
  <1>8. CASE UNCHANGED vars
    BY <1>8 DEF vars, AgesMatch
  <1>9. QED
    BY <1>1, <1>2, <1>3, <1>4, <1>5, <1>6, <1>7, <1>8 DEF Next, TimerTask

\* The periodic commands keep their periods, for all periods, whatever the
\* queue holds and whoever else uses it, if provisioning_start starts one timer.
THEOREM PeriodsKept ==
    ASSUME MaxTimers \in 0 .. 1
    PROVE  Spec => []OnTime
  <1>1. Init => AgesMatch
    BY DEF Init, AgesMatch
  <1>2. TypeOK /\ AgesMatch /\ [Next]_vars => AgesMatch'
    BY AgesStep
  <1>3. TypeOK /\ AgesMatch => OnTime
    BY ProvTimerAssumption DEF TypeOK, AgesMatch, OnTime
  <1>4. QED
    BY <1>1, <1>2, <1>3, TypeCorrect, PTL DEF Spec

-----------------------------------------------------------------------------
(***************************************************************************)
(* Room in the queue for the two commands of one handler run.              *)
(***************************************************************************)
Room ==
    alone => /\ ~lost
             /\ handler = "config" => Len(queue) = 0
             /\ handler = "firmware" => Len(queue) <= 1

\* A send into a queue with room succeeds.
LEMMA RoomSend ==
    ASSUME QUEUE_LEN >= 2, ProvTypeOK, NEW cmd \in prov_cmd_t, Send(cmd),
           ~lost, Len(queue) <= 1
    PROVE  ~lost' /\ Len(queue') <= Len(queue) + 1
  <1>1. queue \in Seq(prov_cmd_t) /\ Len(queue) < QUEUE_LEN /\ Len(queue) <= QUEUE_LEN
    BY ProvQueueAssumption DEF ProvTypeOK
  <1>2. /\ AfterSend(queue, cmd) # queue
        /\ Len(AfterSend(queue, cmd)) <= Len(queue) + 1
    BY <1>1, SendFacts
  <1>3. ~lost'
    BY <1>2, Zenon DEF Send
  <1>4. QED
    BY <1>2, <1>3 DEF Send

\* Every step keeps the room, if there are two slots.
LEMMA RoomStep ==
    ASSUME QUEUE_LEN >= 2, TypeOK, Room, [Next]_vars
    PROVE  Room'
  <1> USE DEF TypeOK
  <1>1. CASE provisioning_start \/ Minute
    BY <1>1 DEF provisioning_start, Minute, Room
  <1>2. CASE Tick
    BY <1>2 DEF Tick, Room
  <1>3. CASE CheckConfig
    <2>1. CASE ~alone
      BY <1>3, <2>1 DEF CheckConfig, Room
    <2>2. CASE alone
      <3>1. ~lost /\ Len(queue) = 0
        BY <1>3, <2>2 DEF CheckConfig, Room
      <3>2. ~lost' /\ Len(queue') <= 1
        BY <1>3, <3>1, RoomSend DEF CheckConfig, prov_cmd_t
      <3>3. handler' = "firmware"
        BY <1>3 DEF CheckConfig
      <3>4. QED
        BY <3>2, <3>3 DEF Room
    <2>3. QED
      BY <2>1, <2>2
  <1>4. CASE CheckFirmware
    <2>1. CASE ~alone
      BY <1>4, <2>1 DEF CheckFirmware, Room
    <2>2. CASE alone
      <3>1. ~lost /\ Len(queue) <= 1
        BY <1>4, <2>2 DEF CheckFirmware, Room
      <3>2. ~lost' /\ handler' = "idle"
        BY <1>4, <3>1, RoomSend DEF CheckFirmware, prov_cmd_t
      <3>3. QED
        BY <3>2 DEF Room
    <2>3. QED
      BY <2>1, <2>2
  <1>5. CASE Worker
    <2>1. CASE Receive /\ UNCHANGED <<timerVars, ages, alone, lost>>
      <3>1. queue \in Seq(prov_cmd_t) /\ queue # <<>>
        BY <2>1 DEF Receive, ProvTypeOK
      <3>2. Len(queue') = Len(queue) - 1 /\ Len(queue) > 0
        BY <2>1, <3>1 DEF Receive
      <3>3. QED
        BY <2>1, <3>1, <3>2 DEF Room
    <2>2. CASE Reset
      BY <2>2 DEF Reset, Room
    <2>3. QED
      BY <1>5, <2>1, <2>2 DEF Worker, ConfigUpdate, NoWork, Room
  <1>6. CASE update_config \/ update_firmware
    BY <1>6 DEF update_config, update_firmware, Call, Room
  <1>7. CASE UNCHANGED vars
    BY <1>7 DEF vars, Room
  <1>8. QED
    BY <1>1, <1>2, <1>3, <1>4, <1>5, <1>6, <1>7 DEF Next, TimerTask

\* Two slots are enough for the handler: alone with the worker it loses
\* nothing, also in the minute in which both periods end.
THEOREM TwoSlotsSuffice ==
    ASSUME QUEUE_LEN >= 2
    PROVE  Spec => []BothFit
  <1>1. Init => Room
    BY DEF Init, Room
  <1>2. TypeOK /\ Room /\ [Next]_vars => Room'
    BY RoomStep
  <1>3. Room => BothFit
    BY DEF Room, BothFit
  <1>4. QED
    BY <1>1, <1>2, <1>3, TypeCorrect, PTL DEF Spec
==============================================================================
