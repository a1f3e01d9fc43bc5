------------------------- MODULE ProvisioningProofs -------------------------
(***************************************************************************)
(* What holds of Provisioning for every length of the two queues, every    *)
(* amount of PSRAM and any number of IP addresses obtained.                *)
(***************************************************************************)
EXTENDS Provisioning, TLAPS

-----------------------------------------------------------------------------
(***************************************************************************)
(* Queues.                                                                 *)
(***************************************************************************)
\* xQueueSend keeps the queue within its length, and what is in it in it.
LEMMA AfterSendFacts ==
    ASSUME NEW q \in Seq(prov_cmd_t), Len(q) <= QUEUE_LEN, NEW cmd \in prov_cmd_t
    PROVE  /\ AfterSend(q, cmd) \in Seq(prov_cmd_t)
           /\ Len(AfterSend(q, cmd)) <= QUEUE_LEN
           /\ \A x : Holds(q, x) => Holds(AfterSend(q, cmd), x)
           /\ \A x : Holds(AfterSend(q, cmd), x) => Holds(q, x) \/ x = cmd
           /\ Len(q) < QUEUE_LEN => Holds(AfterSend(q, cmd), cmd)
  <1>1. CASE Len(q) < QUEUE_LEN
    <2> DEFINE r == Append(q, cmd)
    <2>1. /\ r \in Seq(prov_cmd_t)
          /\ Len(r) = Len(q) + 1
          /\ \A i \in 1 .. Len(q) : r[i] = q[i]
          /\ r[Len(q) + 1] = cmd
      OBVIOUS
    <2>2. AfterSend(q, cmd) = r
      BY <1>1 DEF AfterSend
    <2> HIDE DEF r
    <2>3. \A x : Holds(r, x) <=> Holds(q, x) \/ x = cmd
      BY <2>1 DEF Holds
    <2>4. QED
      BY <1>1, <2>1, <2>2, <2>3, ProvQueueAssumption
  <1>2. CASE ~(Len(q) < QUEUE_LEN)
    BY <1>2 DEF AfterSend
  <1>3. QED
    BY <1>1, <1>2

\* The same for the queue of the event loop.
LEMMA event_sendFacts ==
    ASSUME TypeOK, NEW id \in EventID, event_send(id)
    PROVE  /\ events' \in Seq(EventID)
           /\ Len(events') <= QUEUE_SIZE
           /\ \A x : Holds(events, x) => Holds(events', x)
           /\ \A x : Holds(events', x) => Holds(events, x) \/ x = id
           /\ Len(events) < QUEUE_SIZE => Holds(events', id)
  <1>0. events \in Seq(EventID) /\ Len(events) <= QUEUE_SIZE
    BY DEF TypeOK
  <1>1. CASE Len(events) < QUEUE_SIZE
    <2> DEFINE r == Append(events, id)
    <2>1. /\ r \in Seq(EventID)
          /\ Len(r) = Len(events) + 1
          /\ \A i \in 1 .. Len(events) : r[i] = events[i]
          /\ r[Len(events) + 1] = id
      BY <1>0
    <2>2. events' = r
      BY <1>1 DEF event_send
    <2> HIDE DEF r
    <2>3. \A x : Holds(r, x) <=> Holds(events, x) \/ x = id
      BY <1>0, <2>1 DEF Holds
    <2>4. QED
      BY <1>0, <1>1, <2>1, <2>2, <2>3, ProvisioningAssumption
  <1>2. CASE ~(Len(events) < QUEUE_SIZE)
    BY <1>0, <1>2 DEF event_send
  <1>3. QED
    BY <1>1, <1>2

\* Taking the head of a queue leaves the rest.
LEMMA TailFacts ==
    ASSUME NEW S, NEW q \in Seq(S), q # <<>>
    PROVE  /\ Head(q) \in S
           /\ Tail(q) \in Seq(S)
           /\ Len(Tail(q)) = Len(q) - 1
           /\ \A x : Holds(q, x) <=> x = Head(q) \/ Holds(Tail(q), x)
  <1>1. /\ Head(q) = q[1] /\ Tail(q) \in Seq(S) /\ Len(Tail(q)) = Len(q) - 1
        /\ \A i \in DOMAIN Tail(q) : Tail(q)[i] = q[i + 1]
        /\ Len(q) \in Nat \ {0} /\ DOMAIN q = 1 .. Len(q) /\ DOMAIN Tail(q) = 1 .. Len(q) - 1
    OBVIOUS
  <1>2. ASSUME NEW x, Holds(q, x) PROVE x = Head(q) \/ Holds(Tail(q), x)
    <2>1. PICK i \in DOMAIN q : q[i] = x
      BY <1>2 DEF Holds
    <2>2. CASE i = 1
      BY <1>1, <2>1, <2>2
    <2>3. CASE i # 1
      <3>1. i - 1 \in DOMAIN Tail(q) /\ Tail(q)[i - 1] = x
        BY <1>1, <2>1, <2>3
      <3>2. QED
        BY <3>1 DEF Holds
    <2>4. QED
      BY <2>2, <2>3
  <1>3. ASSUME NEW x, x = Head(q) \/ Holds(Tail(q), x) PROVE Holds(q, x)
    <2>1. CASE x = Head(q)
      BY <1>1, <2>1 DEF Holds
    <2>2. CASE Holds(Tail(q), x)
      <3>1. PICK i \in DOMAIN Tail(q) : Tail(q)[i] = x
        BY <2>2 DEF Holds
      <3>2. i + 1 \in DOMAIN q /\ q[i + 1] = x
        BY <1>1, <3>1
      <3>3. QED
        BY <3>2 DEF Holds
    <2>3. QED
      BY <1>3, <2>1, <2>2
  <1>4. QED
    BY <1>1, <1>2, <1>3

\* A queue that is not empty holds something of its type.
LEMMA NonEmptyHolds ==
    ASSUME NEW S, NEW q \in Seq(S), Len(q) > 0
    PROVE  \E x \in S : Holds(q, x)
  BY DEF Holds

-----------------------------------------------------------------------------
(***************************************************************************)
(* Type correctness.                                                       *)
(***************************************************************************)
USE DEF EventID, AppMain, Cause

\* The chip comes up with the types.
LEMMA TypeInit == Init => TypeOK
  <1> SUFFICES ASSUME Init PROVE TypeOK
    OBVIOUS
  <1>1. events = <<>> /\ events \in Seq(EventID) /\ Len(events) = 0
    BY DEF Init, Fresh
  <1>2. queue = <<>> /\ queue \in Seq(prov_cmd_t) /\ Len(queue) = 0
    BY DEF Init, ProvReset
  <1>3. created \in BOOLEAN
    BY Zenon DEF Init, ProvReset
  <1>4. worker = "none" /\ psram = 0 /\ updates = 0
    BY DEF Init, ProvReset
  <1>5. ProvTypeOK
    BY <1>2, <1>3, <1>4, ProvQueueAssumption DEF ProvTypeOK
  <1>6. /\ registered \in BOOLEAN /\ prov_done \in BOOLEAN
        /\ owed \in BOOLEAN /\ done_at_boot \in BOOLEAN
    BY Zenon DEF Init, Fresh
  <1>7. /\ app_main = "nvram_init" /\ event_loop = "waiting" /\ leases = 0
        /\ reset \in Cause
    BY DEF Init, Fresh
  <1>8. QED
    BY <1>1, <1>5, <1>6, <1>7, ProvisioningAssumption DEF TypeOK

\* A reset is a fresh start, whatever the state before.
LEMMA TypeReset == ASSUME NEW c \in Cause, Reset(c) PROVE TypeOK'
  <1>1. events' = <<>> /\ events' \in Seq(EventID) /\ Len(events') = 0
    BY DEF Reset, Fresh
  <1>2. queue' = <<>> /\ queue' \in Seq(prov_cmd_t) /\ Len(queue') = 0
    BY DEF Reset, ProvReset
  <1>3. created' \in BOOLEAN
    BY Zenon DEF Reset, ProvReset
  <1>4. worker' = "none" /\ psram' = 0 /\ updates' = 0
    BY DEF Reset, ProvReset
  <1>5. ProvTypeOK'
    BY <1>2, <1>3, <1>4, ProvQueueAssumption DEF ProvTypeOK
  <1>6. /\ registered' \in BOOLEAN /\ prov_done' \in BOOLEAN
        /\ owed' \in BOOLEAN /\ done_at_boot' \in BOOLEAN
    BY Zenon DEF Reset, Fresh
  <1>7. /\ app_main' = "nvram_init" /\ event_loop' = "waiting" /\ leases' = 0
        /\ reset' \in Cause
    BY DEF Reset, Fresh
  <1>8. QED
    BY <1>1, <1>5, <1>6, <1>7, ProvisioningAssumption DEF TypeOK

\* Every step preserves the types.
LEMMA TypeStep == TypeOK /\ [Next]_vars => TypeOK'
  <1> SUFFICES ASSUME TypeOK, [Next]_vars PROVE TypeOK'
    OBVIOUS
  <1> USE DEF mainVars, loopVars, provVars
  <1>1. CASE PowerCycle
    BY <1>1, TypeReset DEF PowerCycle
  <1>2. CASE Main
    <2>1. CASE nvram_init
      BY <2>1, TypeReset DEF nvram_init, TypeOK, ProvTypeOK
    <2>2. CASE event_handler_init
      BY <2>2, TypeReset DEF event_handler_init, TypeOK, ProvTypeOK
    <2>3. CASE net_iface_init
      BY <2>3, TypeReset DEF net_iface_init, TypeOK, ProvTypeOK
    <2>4. CASE provision_init
      <3>1. app_main' \in AppMain
        BY <2>4 DEF provision_init, AppMain
      <3>2. created' \in BOOLEAN
        BY <2>4, Zenon DEF provision_init, TypeOK, ProvTypeOK
      <3>3. UNCHANGED <<prov_done, leases, reset, done_at_boot, registered, events, event_loop,
                        queue, worker, psram, updates, owed>>
        BY <2>4 DEF provision_init
      <3>4. QED
        BY <3>1, <3>2, <3>3 DEF TypeOK, ProvTypeOK
    <2>5. CASE create_worker
      BY <2>5 DEF create_worker, TypeOK, ProvTypeOK
    <2>6. QED
      BY <1>2, <2>1, <2>2, <2>3, <2>4, <2>5 DEF Main
  <1>3. CASE net_ip_event_handler
    <2>1. events' \in Seq(EventID) /\ Len(events') <= QUEUE_SIZE
      BY <1>3, event_sendFacts DEF net_ip_event_handler
    <2>2. leases' \in 0 .. MaxLeases
      BY <1>3, ProvisioningAssumption DEF net_ip_event_handler, TypeOK
    <2>3. owed' \in BOOLEAN
      BY <1>3, Zenon DEF net_ip_event_handler, nvram_need_provisioning
    <2>4. QED
      BY <1>3, <2>1, <2>2, <2>3 DEF net_ip_event_handler, TypeOK, ProvTypeOK
  <1>4. CASE Dispatch
    <2>1. events \in Seq(EventID) /\ events # <<>>
      BY <1>4 DEF Dispatch, TypeOK
    <2>2. Head(events) \in EventID /\ Tail(events) \in Seq(EventID)
          /\ Len(Tail(events)) = Len(events) - 1
      BY <2>1, TailFacts
    <2>3. QED
      BY <1>4, <2>2, ProvisioningAssumption DEF Dispatch, TypeOK, ProvTypeOK
  <1>5. CASE HandleRecvIp \/ StartProvisioning
    <2>1. events' \in Seq(EventID) /\ Len(events') <= QUEUE_SIZE
      <3>1. event_send("EVT_PROVISIONING") \/ UNCHANGED events
        BY <1>5 DEF HandleRecvIp, StartProvisioning
      <3>2. QED
        BY <3>1, event_sendFacts DEF TypeOK
    <2>2. /\ event_loop' \in {"waiting", "start_provisioning"}
          /\ UNCHANGED <<mainVars, registered, provVars, owed>>
      BY <1>5 DEF HandleRecvIp, StartProvisioning
    <2>3. QED
      BY <2>1, <2>2 DEF TypeOK, ProvTypeOK
  <1>6. CASE HandleProvisioning
    <2>1. AfterSend(queue, "RUN_UPDATE_CONFIG") \in Seq(prov_cmd_t)
          /\ Len(AfterSend(queue, "RUN_UPDATE_CONFIG")) <= QUEUE_LEN
      BY AfterSendFacts DEF TypeOK, ProvTypeOK, prov_cmd_t
    <2>2. QED
      BY <1>6, <2>1, TypeReset DEF HandleProvisioning, TypeOK, ProvTypeOK
  <1>7. CASE HandleOther
    BY <1>7 DEF HandleOther, TypeOK, ProvTypeOK
  <1>8. CASE WorkerReceive
    <2>1. queue \in Seq(prov_cmd_t) /\ queue # <<>>
      BY <1>8 DEF WorkerReceive, Receive, TypeOK, ProvTypeOK
    <2>2. Head(queue) \in prov_cmd_t /\ Tail(queue) \in Seq(prov_cmd_t)
          /\ Len(Tail(queue)) = Len(queue) - 1
      BY <2>1, TailFacts
    <2>3. QED
      BY <1>8, <2>2, ProvQueueAssumption DEF WorkerReceive, Receive, TypeOK, ProvTypeOK
  <1>9. CASE WorkerRuns
    <2>1. CASE ConfigUpdate /\ UNCHANGED <<mainVars, loopVars, owed>>
      BY <2>1, ProvQueueAssumption
         DEF ConfigUpdate, Exhausted, BytesPerUpdate, TypeOK, ProvTypeOK
    <2>2. CASE NoWork /\ UNCHANGED <<mainVars, loopVars, owed>>
      BY <2>2 DEF NoWork, TypeOK, ProvTypeOK
    <2>3. CASE Reset("psram")
      BY <2>3, TypeReset
    <2>4. QED
      BY <1>9, <2>1, <2>2, <2>3 DEF WorkerRuns
  <1>10. CASE send_test
    <2>1. events' \in Seq(EventID) /\ Len(events') <= QUEUE_SIZE
      BY <1>10, event_sendFacts DEF send_test
    <2>2. QED
      BY <1>10, <2>1 DEF send_test, TypeOK, ProvTypeOK
  <1>11. CASE update_config \/ update_firmware
    <2>1. PICK cmd \in prov_cmd_t, call \in {"update_config", "update_firmware"} : Send(call, cmd)
      BY <1>11 DEF update_config, update_firmware, prov_cmd_t
    <2>2. AfterSend(queue, cmd) \in Seq(prov_cmd_t) /\ Len(AfterSend(queue, cmd)) <= QUEUE_LEN
      BY AfterSendFacts DEF TypeOK, ProvTypeOK
    <2>3. QED
      BY <2>1, <2>2 DEF Send, TypeOK, ProvTypeOK
  <1>12. CASE nvram_set_prov_done
    BY <1>12 DEF nvram_set_prov_done, TypeOK, ProvTypeOK
  <1>13. CASE UNCHANGED vars
    BY <1>13 DEF vars, TypeOK, ProvTypeOK
  <1>14. QED
    BY <1>1, <1>2, <1>3, <1>4, <1>5, <1>6, <1>7, <1>8, <1>9, <1>10, <1>11, <1>12, <1>13
       DEF Next, EventLoop, Worker

\* Every variable keeps its type, with any callers and any failures.
THEOREM TypeCorrect == Spec => []TypeOK
  BY TypeInit, TypeStep, PTL DEF Spec

-----------------------------------------------------------------------------
(***************************************************************************)
(* What the order of the calls in app_main guarantees, and what the worker *)
(* has allocated.                                                          *)
(***************************************************************************)
BootOrder ==
    /\ ~LoopExists => events = <<>> /\ event_loop = "waiting" /\ ~owed
    /\ event_loop # "waiting" => registered
    /\ ~created => queue = <<>> /\ worker = "none"
    /\ app_main = "xTaskCreate" => created
    /\ created => app_main \in {"xTaskCreate", "done"}
    /\ app_main # "done" => worker = "none"

Allocated ==
    /\ worker = "none" => updates = 0
    /\ psram = updates * BytesPerUpdate

BootInv == TypeOK /\ BootOrder /\ Allocated

\* The chip comes up with the boot not begun and nothing allocated.
LEMMA BootInit == Init => BootInv
  <1> SUFFICES ASSUME Init PROVE BootOrder /\ Allocated
    BY TypeInit DEF BootInv
  <1>1. BootOrder
    BY DEF Init, Fresh, ProvReset, BootOrder, LoopExists
  <1>2. Allocated
    BY ProvQueueAssumption DEF Init, ProvReset, Allocated, BytesPerUpdate
  <1>3. QED
    BY <1>1, <1>2

\* A reset begins the boot anew and frees everything.
LEMMA BootReset == ASSUME NEW c, Reset(c) PROVE BootOrder' /\ Allocated'
  <1>1. BootOrder'
    BY DEF Reset, Fresh, ProvReset, BootOrder, LoopExists
  <1>2. Allocated'
    BY ProvQueueAssumption DEF Reset, ProvReset, Allocated, BytesPerUpdate
  <1>3. QED
    BY <1>1, <1>2

\* Every step respects the order of the boot.
LEMMA BootStep == BootInv /\ [Next]_vars => BootInv'
  <1> SUFFICES ASSUME BootInv, [Next]_vars PROVE BootOrder' /\ Allocated'
    BY TypeStep DEF BootInv
  <1>0. TypeOK /\ BootOrder /\ Allocated
    BY DEF BootInv
  <1> USE DEF mainVars, loopVars, provVars
  <1>1. CASE PowerCycle
    BY <1>1, BootReset DEF PowerCycle
  <1>2. CASE Main
    <2>1. CASE nvram_init
      BY <1>0, <2>1, BootReset DEF nvram_init, BootOrder, Allocated, LoopExists
    <2>2. CASE event_handler_init
      <3>1. CASE Reset("event_handler_init")
        BY <3>1, BootReset
      <3>2. CASE app_main' = "net_iface_init" /\ UNCHANGED <<events, event_loop, provVars, owed>>
        <4>1. event_loop = "waiting" /\ ~owed /\ events = <<>> /\ ~created
          BY <1>0, <2>2 DEF event_handler_init, BootOrder, LoopExists
        <4>2. BootOrder'
          BY <1>0, <3>2, <4>1 DEF BootOrder, LoopExists
        <4>3. QED
          BY <1>0, <3>2, <4>2 DEF Allocated
      <3>3. QED
        BY <2>2, <3>1, <3>2 DEF event_handler_init
    <2>3. CASE net_iface_init
      BY <1>0, <2>3, BootReset DEF net_iface_init, BootOrder, Allocated, LoopExists
    <2>4. CASE provision_init
      BY <1>0, <2>4 DEF provision_init, BootOrder, Allocated, LoopExists
    <2>5. CASE create_worker
      <3>1. /\ app_main = "xTaskCreate" /\ created /\ app_main' = "done"
            /\ UNCHANGED <<loopVars, created, queue, psram, updates, owed>>
            /\ worker' \in {"xQueueReceive", "none"}
        BY <1>0, <2>5 DEF create_worker, BootOrder
      <3>2. updates = 0
        BY <1>0, <2>5 DEF create_worker, BootOrder, Allocated
      <3>3. BootOrder'
        BY <1>0, <3>1 DEF BootOrder, LoopExists
      <3>4. QED
        BY <1>0, <3>1, <3>2, <3>3 DEF Allocated
    <2>6. QED
      BY <1>2, <2>1, <2>2, <2>3, <2>4, <2>5 DEF Main
  <1>3. CASE net_ip_event_handler \/ send_test
    BY <1>0, <1>3 DEF net_ip_event_handler, send_test, BootOrder, Allocated, LoopExists, NetStarted
  <1>4. CASE Dispatch
    BY <1>0, <1>4 DEF Dispatch, BootOrder, Allocated, LoopExists
  <1>5. CASE HandleRecvIp \/ StartProvisioning
    <2>1. LoopExists /\ registered
      BY <1>0, <1>5 DEF HandleRecvIp, StartProvisioning, BootOrder
    <2>2. UNCHANGED <<mainVars, registered, provVars, owed>>
      BY <1>5 DEF HandleRecvIp, StartProvisioning
    <2>3. QED
      BY <1>0, <2>1, <2>2 DEF BootOrder, Allocated, LoopExists
  <1>6. CASE HandleProvisioning
    BY <1>0, <1>6, BootReset DEF HandleProvisioning, BootOrder, Allocated, LoopExists
  <1>7. CASE HandleOther
    BY <1>0, <1>7 DEF HandleOther, BootOrder, Allocated, LoopExists
  <1>8. CASE WorkerReceive
    <2>1. /\ worker = "xQueueReceive" /\ worker' = Head(queue) /\ Head(queue) \in prov_cmd_t
          /\ UNCHANGED <<mainVars, loopVars, created, psram, updates>>
      <3>1. queue \in Seq(prov_cmd_t) /\ queue # <<>>
        BY <1>0, <1>8 DEF WorkerReceive, Receive, TypeOK, ProvTypeOK
      <3>2. QED
        BY <1>8, <3>1, TailFacts DEF WorkerReceive, Receive
    <2>2. owed' => owed
      BY <1>8 DEF WorkerReceive
    <2>3. QED
      BY <1>0, <2>1, <2>2 DEF BootOrder, Allocated, LoopExists, prov_cmd_t
  <1>9. CASE WorkerRuns
    <2>1. CASE ConfigUpdate /\ UNCHANGED <<mainVars, loopVars, owed>>
      <3>1. BytesPerUpdate \in Nat /\ updates \in Nat
        BY <1>0, ProvQueueAssumption DEF BytesPerUpdate, TypeOK, ProvTypeOK
      <3>2. (updates + 1) * BytesPerUpdate = updates * BytesPerUpdate + BytesPerUpdate
        BY <3>1
      <3>3. QED
        BY <1>0, <2>1, <3>2 DEF ConfigUpdate, BootOrder, Allocated, LoopExists
    <2>2. CASE NoWork /\ UNCHANGED <<mainVars, loopVars, owed>>
      BY <1>0, <2>2 DEF NoWork, prov_cmd_t, BootOrder, Allocated, LoopExists
    <2>3. CASE Reset("psram")
      BY <2>3, BootReset
    <2>4. QED
      BY <1>9, <2>1, <2>2, <2>3 DEF WorkerRuns
  <1>10. CASE update_config \/ update_firmware
    BY <1>0, <1>10 DEF update_config, update_firmware, Send, BootOrder, Allocated, LoopExists
  <1>11. CASE nvram_set_prov_done
    BY <1>0, <1>11 DEF nvram_set_prov_done, BootOrder, Allocated, LoopExists
  <1>12. CASE UNCHANGED vars
    BY <1>0, <1>12 DEF vars, BootOrder, Allocated, LoopExists
  <1>13. QED
    BY <1>1, <1>2, <1>3, <1>4, <1>5, <1>6, <1>7, <1>8, <1>9, <1>10, <1>11, <1>12
       DEF Next, EventLoop, Worker

\* Every reachable state respects the order of the boot.
LEMMA BootInvariance == Spec => []BootInv
  BY BootInit, BootStep, PTL DEF Spec

-----------------------------------------------------------------------------
(***************************************************************************)
(* What resets the device.                                                 *)
(***************************************************************************)
\* The event loop starts provisioning only with an address, and never on a
\* device that booted provisioned.
LoopQuiet ==
    /\ done_at_boot => prov_done
    /\ leases = 0 => event_loop # "EVT_RECV_IP" /\ ~Holds(events, "EVT_RECV_IP")
    /\ leases = 0 \/ done_at_boot =>
         /\ event_loop \notin {"start_provisioning", "EVT_PROVISIONING"}
         /\ ~Holds(events, "EVT_PROVISIONING")

\* A reset takes back what was asked for.
LEMMA LoopQuietReset == ASSUME NEW c, Reset(c) PROVE LoopQuiet'
  BY DEF Reset, Fresh, LoopQuiet, Holds

\* A step that leaves the loop, its queue and what they answer to alone keeps it.
LEMMA LoopQuietKept ==
    ASSUME LoopQuiet, UNCHANGED <<events, event_loop, leases, done_at_boot>>,
           prov_done => prov_done'
    PROVE  LoopQuiet'
  BY DEF LoopQuiet, Holds

\* Whoever calls, every step keeps this.
LEMMA LoopQuietStep ==
    ASSUME BootInv, LoopQuiet, [Next]_vars
    PROVE  LoopQuiet'
  <1>0. TypeOK /\ BootOrder
    BY DEF BootInv
  <1> USE DEF mainVars, loopVars, provVars
  <1>1. CASE PowerCycle
    BY <1>1, LoopQuietReset DEF PowerCycle
  <1>2. CASE nvram_init
    <2>1. CASE Reset("nvram_init")
      BY <2>1, LoopQuietReset
    <2>2. CASE ~Reset("nvram_init")
      <3>1. events = <<>> /\ event_loop = "waiting"
        BY <1>0, <1>2 DEF nvram_init, BootOrder, LoopExists
      <3>2. UNCHANGED loopVars /\ (done_at_boot' => prov_done')
        BY <1>2, <2>2 DEF nvram_init
      <3>3. QED
        BY <3>1, <3>2 DEF LoopQuiet, Holds
    <2>3. QED
      BY <2>1, <2>2
  <1>3. CASE event_handler_init \/ net_iface_init \/ provision_init \/ create_worker
    <2>1. \/ \E c : Reset(c)
          \/ UNCHANGED <<events, event_loop, leases, prov_done, done_at_boot>>
      BY <1>3 DEF event_handler_init, net_iface_init, provision_init, create_worker
    <2>2. QED
      BY <2>1, LoopQuietReset, LoopQuietKept
  <1>4. CASE net_ip_event_handler
    <2>1. \A x : Holds(events', x) => Holds(events, x) \/ x = "EVT_RECV_IP"
      BY <1>0, <1>4, event_sendFacts DEF net_ip_event_handler
    <2>2. leases' # 0 /\ UNCHANGED <<event_loop, prov_done, done_at_boot>>
      BY <1>0, <1>4, ProvisioningAssumption DEF net_ip_event_handler, TypeOK
    <2>3. QED
      BY <2>1, <2>2 DEF LoopQuiet, Holds
  <1>5. CASE send_test
    <2>1. \A x : Holds(events', x) => Holds(events, x) \/ x = "EVT_TEST"
      BY <1>0, <1>5, event_sendFacts DEF send_test
    <2>2. UNCHANGED <<event_loop, leases, prov_done, done_at_boot>>
      BY <1>5 DEF send_test
    <2>3. QED
      BY <2>1, <2>2 DEF LoopQuiet, Holds
  <1>6. CASE Dispatch
    <2>1. events \in Seq(EventID) /\ events # <<>>
      BY <1>0, <1>6 DEF Dispatch, TypeOK
    <2>2. \A x : Holds(events, x) <=> x = Head(events) \/ Holds(events', x)
      BY <1>6, <2>1, TailFacts DEF Dispatch
    <2>3. /\ event_loop' \in {"waiting", Head(events)}
          /\ UNCHANGED <<leases, prov_done, done_at_boot>>
      BY <1>6 DEF Dispatch
    <2>4. Head(events) # "start_provisioning"
      BY <2>1, TailFacts DEF EventID
    <2>5. QED
      BY <2>2, <2>3, <2>4 DEF LoopQuiet, Holds
  <1>7. CASE HandleRecvIp
    <2>1. /\ event_loop = "EVT_RECV_IP"
          /\ event_loop' \in {"waiting", "start_provisioning"}
          /\ prov_done => event_loop' = "waiting"
          /\ UNCHANGED <<events, leases, prov_done, done_at_boot>>
      BY <1>7 DEF HandleRecvIp, nvram_need_provisioning
    <2>2. QED
      BY <2>1 DEF LoopQuiet, Holds
  <1>8. CASE StartProvisioning
    <2>1. \A x : Holds(events', x) => Holds(events, x) \/ x = "EVT_PROVISIONING"
      BY <1>0, <1>8, event_sendFacts DEF StartProvisioning
    <2>2. /\ event_loop = "start_provisioning" /\ event_loop' = "waiting"
          /\ UNCHANGED <<leases, prov_done, done_at_boot>>
      BY <1>8 DEF StartProvisioning
    <2>3. QED
      BY <2>1, <2>2 DEF LoopQuiet, Holds
  <1>9. CASE HandleProvisioning \/ HandleOther
    <2>1. \/ \E c : Reset(c)
          \/ /\ event_loop' = "waiting"
             /\ UNCHANGED <<events, leases, prov_done, done_at_boot>>
      BY <1>9 DEF HandleProvisioning, HandleOther
    <2>2. QED
      BY <2>1, LoopQuietReset DEF LoopQuiet, Holds
  <1>10. CASE Worker \/ update_config \/ update_firmware
    <2>1. \/ \E c : Reset(c)
          \/ UNCHANGED <<events, event_loop, leases, prov_done, done_at_boot>>
      BY <1>10 DEF Worker, WorkerReceive, WorkerRuns, update_config, update_firmware, Send
    <2>2. QED
      BY <2>1, LoopQuietReset, LoopQuietKept
  <1>11. CASE nvram_set_prov_done \/ UNCHANGED vars
    BY <1>11, LoopQuietKept DEF nvram_set_prov_done, vars
  <1>12. QED
    BY <1>1, <1>2, <1>3, <1>4, <1>5, <1>6, <1>7, <1>8, <1>9, <1>10, <1>11
       DEF Next, Main, EventLoop

\* In every reachable state provisioning has been started for a reason.
LEMMA LoopQuietInvariance == Spec => []LoopQuiet
  <1>1. Init => LoopQuiet
    BY DEF Init, Fresh, LoopQuiet, Holds
  <1>2. QED
    BY <1>1, LoopQuietStep, BootInvariance, PTL DEF Spec

\* What resets the device is a power cut, a call of app_main that fails, a
\* queue not there when a device in need has an address, or PSRAM used up by
\* this boot's config updates.
THEOREM Uptime == Spec => UptimeAfterBoot
  <1> DEFINE A == ResetStep =>
                    \/ reset' = "power_on"
                    \/ reset' = app_main
                    \/ reset' = "null_queue" /\ worker = "none" /\ leases > 0 /\ ~done_at_boot
                    \/ reset' = "psram" /\ (updates + 1) * BytesPerUpdate > Psram
  <1>1. BootInv /\ LoopQuiet /\ [Next]_vars => [A]_vars
    <2> SUFFICES ASSUME BootInv, LoopQuiet, Next, ResetStep PROVE A
      OBVIOUS
    <2>1. PowerCycle \/ event_handler_init \/ net_iface_init \/ HandleProvisioning \/ WorkerRuns
      BY DEF Next, ResetStep, Main, nvram_init, provision_init, create_worker,
             net_ip_event_handler, EventLoop, Dispatch, HandleRecvIp, StartProvisioning,
             HandleOther, Worker, WorkerReceive, send_test, update_config, update_firmware,
             Send, nvram_set_prov_done, mainVars
    <2>2. CASE PowerCycle
      BY <2>2 DEF PowerCycle, Reset
    <2>3. CASE event_handler_init \/ net_iface_init
      BY <2>3 DEF event_handler_init, net_iface_init, Reset, ResetStep
    <2>4. CASE HandleProvisioning
      <3>1. reset' = "null_queue" /\ ~created /\ event_loop = "EVT_PROVISIONING"
        BY <2>4 DEF HandleProvisioning, Reset, ResetStep, mainVars
      <3>2. leases \in Nat
        BY ProvisioningAssumption DEF BootInv, TypeOK
      <3>3. QED
        BY <3>1, <3>2 DEF BootInv, BootOrder, LoopQuiet
    <2>5. CASE WorkerRuns
      <3>1. WritesToNull /\ Reset("psram")
        BY <2>5 DEF WorkerRuns, ResetStep, mainVars
      <3>2. BytesPerUpdate \in Nat /\ updates \in Nat
        BY ProvQueueAssumption DEF BytesPerUpdate, BootInv, TypeOK, ProvTypeOK
      <3>3. (updates + 1) * BytesPerUpdate = updates * BytesPerUpdate + BytesPerUpdate
        BY <3>2
      <3>4. QED
        BY <3>1, <3>3 DEF WritesToNull, Exhausted, Reset, BootInv, Allocated
    <2>6. QED
      BY <2>1, <2>2, <2>3, <2>4, <2>5
  <1>2. QED
    BY <1>1, BootInvariance, LoopQuietInvariance, PTL DEF Spec, UptimeAfterBoot

-----------------------------------------------------------------------------
(***************************************************************************)
(* No request is lost.                                                     *)
(*                                                                         *)
(* A send may drop its item, but only because the queue is full, and with  *)
(* no other callers all that can fill it are requests: a full event queue  *)
(* holds another EVT_RECV_IP or EVT_PROVISIONING, a full command queue     *)
(* another RUN_UPDATE_CONFIG.                                              *)
(***************************************************************************)
OnlyRequests ==
    /\ event_loop # "EVT_TEST"
    /\ \A x : Holds(events, x) => x \in {"EVT_RECV_IP", "EVT_PROVISIONING"}
    /\ \A x : Holds(queue, x) => x = "RUN_UPDATE_CONFIG"

RequestInv == BootInv /\ OnlyRequests /\ RequestNotLost

\* The chip comes up with no request and nothing owed.
LEMMA RequestInit == Init => OnlyRequests /\ RequestNotLost
  BY DEF Init, Fresh, ProvReset, OnlyRequests, RequestNotLost, Holds

\* A reset leaves no request and nothing owed.
LEMMA RequestReset == ASSUME NEW c, Reset(c) PROVE OnlyRequests' /\ RequestNotLost'
  <1>1. events' = <<>> /\ queue' = <<>> /\ event_loop' = "waiting" /\ owed' = FALSE
    BY DEF Reset, Fresh, ProvReset
  <1>2. QED
    BY <1>1 DEF OnlyRequests, RequestNotLost, Holds

\* A step that changes no queue, neither the event in hand nor what is owed.
LEMMA RequestKeptBy ==
    ASSUME RequestInv, UNCHANGED <<events, event_loop, queue, owed, registered>>,
           prov_done => prov_done'
    PROVE  OnlyRequests' /\ RequestNotLost'
  BY DEF RequestInv, OnlyRequests, RequestNotLost, OnItsWay, Holds, nvram_need_provisioning

\* Posting a request leaves one in the queue: it has room or holds another.
LEMMA RequestQueued ==
    ASSUME TypeOK, OnlyRequests, NEW id \in {"EVT_RECV_IP", "EVT_PROVISIONING"}, event_send(id)
    PROVE  /\ \A x : Holds(events', x) => Holds(events, x) \/ x = id
           /\ \E x \in {"EVT_RECV_IP", "EVT_PROVISIONING"} : Holds(events', x)
  <1>1. /\ \A x : Holds(events, x) => Holds(events', x)
        /\ \A x : Holds(events', x) => Holds(events, x) \/ x = id
        /\ Len(events) < QUEUE_SIZE => Holds(events', id)
    BY event_sendFacts
  <1>2. CASE Len(events) < QUEUE_SIZE
    BY <1>1, <1>2
  <1>3. CASE ~(Len(events) < QUEUE_SIZE)
    <2>1. events \in Seq(EventID) /\ Len(events) > 0
      BY <1>3, ProvisioningAssumption DEF TypeOK
    <2>2. PICK x \in EventID : Holds(events, x)
      BY <2>1, NonEmptyHolds
    <2>3. QED
      BY <1>1, <2>2 DEF OnlyRequests
  <1>4. QED
    BY <1>2, <1>3

\* With update_config as the only other caller every step keeps the requests.
LEMMA RequestStep ==
    ASSUME Callers \subseteq {"update_config"}, RequestInv, [Next]_vars
    PROVE  OnlyRequests' /\ RequestNotLost'
  <1>0. TypeOK /\ BootOrder /\ OnlyRequests /\ RequestNotLost
    BY DEF RequestInv, BootInv
  <1> USE DEF mainVars, loopVars, provVars
  <1>1. CASE PowerCycle
    BY <1>1, RequestReset DEF PowerCycle
  <1>2. CASE Main
    <2>1. CASE nvram_init \/ event_handler_init
      <3>1. \/ \E c : Reset(c)
            \/ ~owed /\ UNCHANGED <<events, event_loop, queue, owed>>
        BY <1>0, <2>1 DEF nvram_init, event_handler_init, BootOrder, LoopExists
      <3>2. QED
        BY <1>0, <3>1, RequestReset DEF OnlyRequests, RequestNotLost, Holds
    <2>3. CASE net_iface_init
      BY <2>3, RequestReset, RequestKeptBy DEF net_iface_init
    <2>4. CASE provision_init \/ create_worker
      BY <2>4, RequestKeptBy DEF provision_init, create_worker
    <2>5. QED
      BY <1>2, <2>1, <2>3, <2>4 DEF Main
  <1>3. CASE net_ip_event_handler
    <2>1. event_send("EVT_RECV_IP") /\ UNCHANGED <<event_loop, queue>>
      BY <1>3 DEF net_ip_event_handler
    <2>2. /\ \A x : Holds(events', x) => Holds(events, x) \/ x = "EVT_RECV_IP"
          /\ \E x \in {"EVT_RECV_IP", "EVT_PROVISIONING"} : Holds(events', x)
      BY <1>0, <2>1, RequestQueued
    <2>3. OnlyRequests' /\ RequestNotLost'
      BY <1>0, <2>1, <2>2 DEF OnlyRequests, RequestNotLost, OnItsWay, Holds
    <2>4. QED
      BY <2>3
  <1>4. CASE HandleProvisioning
    <2>1. CASE Reset("null_queue")
      BY <2>1, RequestReset
    <2>2. CASE /\ queue' = AfterSend(queue, "RUN_UPDATE_CONFIG")
               /\ event_loop' = "waiting"
               /\ UNCHANGED <<mainVars, registered, events, created, worker, psram, updates, owed>>
      <3>1. queue \in Seq(prov_cmd_t) /\ Len(queue) <= QUEUE_LEN
        BY <1>0 DEF TypeOK, ProvTypeOK
      <3>2. /\ \A x : Holds(queue', x) => Holds(queue, x) \/ x = "RUN_UPDATE_CONFIG"
            /\ Len(queue) < QUEUE_LEN => Holds(queue', "RUN_UPDATE_CONFIG")
            /\ \A x : Holds(queue, x) => Holds(queue', x)
        BY <2>2, <3>1, AfterSendFacts DEF prov_cmd_t
      <3>3. Holds(queue', "RUN_UPDATE_CONFIG")
        <4>1. CASE Len(queue) < QUEUE_LEN
          BY <3>2, <4>1
        <4>2. CASE ~(Len(queue) < QUEUE_LEN)
          <5>1. Len(queue) > 0
            BY <3>1, <4>2, ProvQueueAssumption
          <5>2. PICK x \in prov_cmd_t : Holds(queue, x)
            BY <3>1, <5>1, NonEmptyHolds
          <5>3. QED
            BY <1>0, <3>2, <5>2 DEF OnlyRequests
        <4>3. QED
          BY <4>1, <4>2
      <3>4. QED
        BY <1>0, <2>2, <3>2, <3>3 DEF OnlyRequests, RequestNotLost, OnItsWay, Holds
    <2>3. QED
      BY <1>4, <2>1, <2>2 DEF HandleProvisioning
  <1>5. CASE Dispatch
    <2>1. events \in Seq(EventID) /\ events # <<>>
      BY <1>0, <1>5 DEF Dispatch, TypeOK
    <2>2. \A x : Holds(events, x) <=> x = Head(events) \/ Holds(events', x)
      BY <1>5, <2>1, TailFacts DEF Dispatch
    <2>3. /\ event_loop' \in {"waiting", Head(events)}
          /\ UNCHANGED <<queue, owed, prov_done, registered>>
      BY <1>5 DEF Dispatch
    <2>4. OnlyRequests'
      BY <1>0, <2>2, <2>3 DEF OnlyRequests, Holds
    <2>5. RequestNotLost'
      <3>1. CASE registered
        BY <1>0, <1>5, <2>2, <2>3, <3>1
           DEF Dispatch, RequestNotLost, OnItsWay, nvram_need_provisioning, OnlyRequests, Holds
      <3>2. CASE ~registered
        BY <2>3, <3>2 DEF RequestNotLost
      <3>3. QED
        BY <3>1, <3>2
    <2>6. QED
      BY <2>4, <2>5
  <1>6. CASE HandleRecvIp \/ StartProvisioning
    <2>1. CASE HandleRecvIp
      <3>1. UNCHANGED <<events, queue>>
        BY <2>1 DEF HandleRecvIp
      <3>2. event_loop' \in {"waiting", "start_provisioning"}
        BY <2>1 DEF HandleRecvIp
      <3>3. UNCHANGED prov_done /\ (~prov_done => event_loop' = "start_provisioning")
        BY <2>1 DEF HandleRecvIp, nvram_need_provisioning
      <3>4. QED
        BY <1>0, <3>1, <3>2, <3>3
           DEF OnlyRequests, RequestNotLost, OnItsWay, nvram_need_provisioning, Holds
    <2>2. CASE StartProvisioning
      <3>1. event_send("EVT_PROVISIONING") /\ event_loop' = "waiting" /\ UNCHANGED queue
        BY <2>2 DEF StartProvisioning
      <3>2. /\ \A x : Holds(events', x) => Holds(events, x) \/ x = "EVT_PROVISIONING"
            /\ \E x \in {"EVT_RECV_IP", "EVT_PROVISIONING"} : Holds(events', x)
        BY <1>0, <3>1, RequestQueued
      <3>3. OnlyRequests'
        BY <1>0, <3>1, <3>2 DEF OnlyRequests, Holds
      <3>4. RequestNotLost'
        BY <3>2 DEF RequestNotLost, OnItsWay
      <3>5. QED
        BY <3>3, <3>4
    <2>3. QED
      BY <1>6, <2>1, <2>2
  <1>7. CASE HandleOther
    BY <1>0, <1>7 DEF HandleOther, OnlyRequests
  <1>8. CASE WorkerReceive
    <2>1. queue \in Seq(prov_cmd_t) /\ queue # <<>>
      BY <1>0, <1>8 DEF WorkerReceive, Receive, TypeOK, ProvTypeOK
    <2>2. \A x : Holds(queue, x) <=> x = Head(queue) \/ Holds(queue', x)
      BY <1>8, <2>1, TailFacts DEF WorkerReceive, Receive
    <2>3. Head(queue) = "RUN_UPDATE_CONFIG"
      BY <1>0, <2>2 DEF OnlyRequests
    <2>4. ~owed'
      BY <1>8, <2>3 DEF WorkerReceive, Receive
    <2>5. UNCHANGED <<events, event_loop>>
      BY <1>8 DEF WorkerReceive
    <2>6. OnlyRequests'
      BY <1>0, <2>2, <2>5 DEF OnlyRequests, Holds
    <2>7. RequestNotLost'
      BY <2>4 DEF RequestNotLost
    <2>8. QED
      BY <2>6, <2>7
  <1>9. CASE WorkerRuns
    BY <1>9, RequestReset, RequestKeptBy DEF WorkerRuns, ConfigUpdate, NoWork
  <1>10. CASE send_test \/ update_firmware
    BY <1>10 DEF send_test, update_firmware, Send
  <1>11. CASE update_config
    <2>1. queue \in Seq(prov_cmd_t) /\ Len(queue) <= QUEUE_LEN
      BY <1>0 DEF TypeOK, ProvTypeOK
    <2>2. queue' = AfterSend(queue, "RUN_UPDATE_CONFIG")
          /\ UNCHANGED <<events, event_loop, owed, prov_done, registered>>
      BY <1>11 DEF update_config, Send
    <2>3. /\ \A x : Holds(queue, x) => Holds(queue', x)
          /\ \A x : Holds(queue', x) => Holds(queue, x) \/ x = "RUN_UPDATE_CONFIG"
      BY <2>1, <2>2, AfterSendFacts DEF prov_cmd_t
    <2>4. OnlyRequests'
      BY <1>0, <2>2, <2>3 DEF OnlyRequests, Holds
    <2>5. RequestNotLost'
      BY <1>0, <2>2, <2>3 DEF RequestNotLost, OnItsWay, nvram_need_provisioning, Holds
    <2>6. QED
      BY <2>4, <2>5
  <1>12. CASE nvram_set_prov_done
    BY <1>12, RequestKeptBy DEF nvram_set_prov_done
  <1>13. CASE UNCHANGED vars
    BY <1>13, RequestKeptBy DEF vars
  <1>14. QED
    BY <1>1, <1>2, <1>3, <1>4, <1>5, <1>6, <1>7, <1>8, <1>9, <1>10, <1>11, <1>12, <1>13
       DEF Next, EventLoop, Worker

\* As long as update_config is all that others ask for, a device in need that
\* was given an address always has a config update on its way, unless this
\* boot could not register the handler: no send of sys_evt, of the event loop
\* or of a caller loses the last request, for all lengths of the queues and any
\* number of addresses.
THEOREM RequestKept ==
    ASSUME Callers \subseteq {"update_config"}
    PROVE  Spec => []RequestNotLost
  <1>1. Init => RequestInv
    BY RequestInit, BootInit DEF RequestInv
  <1>2. RequestInv /\ [Next]_vars => RequestInv'
    BY RequestStep, BootStep DEF RequestInv
  <1>3. RequestInv => RequestNotLost
    BY DEF RequestInv
  <1>4. QED
    BY <1>1, <1>2, <1>3, PTL DEF Spec

-----------------------------------------------------------------------------
(***************************************************************************)
(* With other callers a request can be lost.                               *)
(***************************************************************************)
\* A request that is posted and is nowhere after that has met a full queue.
LEMMA NoRoom ==
    ASSUME TypeOK, NEW id \in {"EVT_RECV_IP", "EVT_PROVISIONING"}, event_send(id), ~OnItsWay'
    PROVE  Len(events) = QUEUE_SIZE /\ \A x \in EventID \ {"EVT_TEST"} : ~Holds(events, x)
  <1>1. /\ \A x : Holds(events, x) => Holds(events', x)
        /\ Len(events) < QUEUE_SIZE => Holds(events', id)
    BY event_sendFacts
  <1>2. ~Holds(events', "EVT_RECV_IP") /\ ~Holds(events', "EVT_PROVISIONING")
    BY DEF OnItsWay, Holds
  <1>3. Len(events) = QUEUE_SIZE
    BY <1>1, <1>2, ProvisioningAssumption DEF TypeOK
  <1>4. QED
    BY <1>1, <1>2, <1>3

\* No other step loses one, and none of a loop without its handler counts.
LEMMA CrowdedOutStep ==
    ASSUME BootInv, Next, RequestNotLost, ~RequestNotLost'
    PROVE  \/ /\ leases' # leases \/ event_loop = "start_provisioning"
              /\ Len(events) = QUEUE_SIZE
              /\ \A x \in EventID \ {"EVT_TEST"} : ~Holds(events, x)
           \/ /\ event_loop = "EVT_PROVISIONING"
              /\ Len(queue) = QUEUE_LEN
              /\ ~Holds(queue, "RUN_UPDATE_CONFIG")
  <1>0. TypeOK /\ BootOrder /\ owed' /\ ~prov_done' /\ ~OnItsWay' /\ registered'
    BY DEF BootInv, RequestNotLost, nvram_need_provisioning
  <1> USE DEF mainVars, loopVars, provVars
  <1>1. ASSUME NEW c, Reset(c) PROVE FALSE
    BY <1>0, <1>1, RequestReset
  <1>2. ASSUME UNCHANGED <<events, event_loop, queue, owed, registered>>,
               prov_done => prov_done'
        PROVE  FALSE
    BY <1>0, <1>2 DEF RequestNotLost, OnItsWay, Holds, nvram_need_provisioning
  <1>3. CASE PowerCycle \/ Main
    <2>1. CASE nvram_init \/ event_handler_init
      <3>1. ~owed /\ ((\E c : Reset(c)) \/ UNCHANGED owed)
        BY <1>0, <2>1 DEF nvram_init, event_handler_init, BootOrder, LoopExists
      <3>2. QED
        BY <1>0, <1>1, <3>1
    <2>2. CASE net_iface_init
      BY <1>1, <1>2, <2>2 DEF net_iface_init
    <2>3. CASE provision_init \/ create_worker
      BY <1>2, <2>3 DEF provision_init, create_worker
    <2>4. QED
      BY <1>1, <1>3, <2>1, <2>2, <2>3 DEF PowerCycle, Main
  <1>4. CASE net_ip_event_handler
    <2>1. event_send("EVT_RECV_IP") /\ leases' # leases
      BY <1>0, <1>4, ProvisioningAssumption DEF net_ip_event_handler, TypeOK
    <2>2. QED
      BY <1>0, <2>1, NoRoom
  <1>5. CASE send_test
    <2>1. \A x : Holds(events, x) => Holds(events', x)
      BY <1>0, <1>5, event_sendFacts DEF send_test
    <2>2. UNCHANGED <<event_loop, queue, owed, prov_done, registered>>
      BY <1>5 DEF send_test
    <2>3. QED
      BY <1>0, <2>1, <2>2 DEF RequestNotLost, OnItsWay, nvram_need_provisioning, Holds
  <1>6. CASE Dispatch
    <2>1. events \in Seq(EventID) /\ events # <<>>
      BY <1>0, <1>6 DEF Dispatch, TypeOK
    <2>2. \A x : Holds(events, x) <=> x = Head(events) \/ Holds(events', x)
      BY <1>6, <2>1, TailFacts DEF Dispatch
    <2>3. registered /\ event_loop' = Head(events) /\ UNCHANGED <<queue, owed, prov_done>>
      BY <1>0, <1>6 DEF Dispatch
    <2>4. event_loop = "waiting" /\ OnItsWay
      BY <1>0, <1>6, <2>3 DEF Dispatch, RequestNotLost, nvram_need_provisioning
    <2>5. Holds(queue, "RUN_UPDATE_CONFIG") = Holds(queue', "RUN_UPDATE_CONFIG")
      BY <2>3
    <2>6. OnItsWay'
      BY <2>2, <2>3, <2>4, <2>5 DEF OnItsWay, Holds
    <2>7. QED
      BY <1>0, <2>6
  <1>7. CASE HandleRecvIp
    BY <1>0, <1>7 DEF HandleRecvIp, OnItsWay, nvram_need_provisioning
  <1>8. CASE StartProvisioning
    <2>1. event_send("EVT_PROVISIONING") /\ event_loop = "start_provisioning"
      BY <1>8 DEF StartProvisioning
    <2>2. QED
      BY <1>0, <2>1, NoRoom
  <1>9. CASE HandleProvisioning
    <2>1. event_loop = "EVT_PROVISIONING" /\ queue' = AfterSend(queue, "RUN_UPDATE_CONFIG")
      BY <1>1, <1>9 DEF HandleProvisioning
    <2>2. queue \in Seq(prov_cmd_t) /\ Len(queue) <= QUEUE_LEN
      BY <1>0 DEF TypeOK, ProvTypeOK
    <2>3. /\ \A x : Holds(queue, x) => Holds(queue', x)
          /\ Len(queue) < QUEUE_LEN => Holds(queue', "RUN_UPDATE_CONFIG")
      BY <2>1, <2>2, AfterSendFacts DEF prov_cmd_t
    <2>4. ~Holds(queue', "RUN_UPDATE_CONFIG")
      BY <1>0 DEF OnItsWay, Holds
    <2>5. QED
      BY <2>1, <2>2, <2>3, <2>4, ProvQueueAssumption
  <1>10. CASE HandleOther
    BY <1>0, <1>10 DEF HandleOther, RequestNotLost, OnItsWay, nvram_need_provisioning, Holds
  <1>11. CASE WorkerReceive
    <2>1. queue \in Seq(prov_cmd_t) /\ queue # <<>>
      BY <1>0, <1>11 DEF WorkerReceive, Receive, TypeOK, ProvTypeOK
    <2>2. \A x : Holds(queue, x) <=> x = Head(queue) \/ Holds(queue', x)
      BY <1>11, <2>1, TailFacts DEF WorkerReceive, Receive
    <2>3. /\ owed /\ Head(queue) # "RUN_UPDATE_CONFIG"
          /\ UNCHANGED <<events, event_loop, prov_done, registered>>
      BY <1>0, <1>11 DEF WorkerReceive, Receive
    <2>4. QED
      BY <1>0, <2>2, <2>3 DEF RequestNotLost, OnItsWay, nvram_need_provisioning, Holds
  <1>12. CASE WorkerRuns
    BY <1>1, <1>2, <1>12 DEF WorkerRuns, ConfigUpdate, NoWork
  <1>13. CASE update_config \/ update_firmware
    <2>1. PICK cmd \in prov_cmd_t : queue' = AfterSend(queue, cmd)
      BY <1>13 DEF update_config, update_firmware, Send, prov_cmd_t
    <2>2. UNCHANGED <<events, event_loop, owed, prov_done, registered>>
      BY <1>13 DEF update_config, update_firmware, Send
    <2>3. \A x : Holds(queue, x) => Holds(queue', x)
      BY <1>0, <2>1, AfterSendFacts DEF TypeOK, ProvTypeOK
    <2>4. QED
      BY <1>0, <2>2, <2>3 DEF RequestNotLost, OnItsWay, nvram_need_provisioning, Holds
  <1>14. CASE nvram_set_prov_done
    BY <1>2, <1>14 DEF nvram_set_prov_done
  <1>15. QED
    BY <1>3, <1>4, <1>5, <1>6, <1>7, <1>8, <1>9, <1>10, <1>11, <1>12, <1>13, <1>14
       DEF Next, EventLoop, Worker

\* Whatever other tasks send, a device with its handler registered loses a
\* request only in a send of sys_evt or of the event loop that meets a full
\* queue without a request in it.
THEOREM LossesNamed == Spec => OnlyCrowdedOut
  <1> DEFINE A == RequestNotLost /\ ~RequestNotLost' =>
                    \/ /\ leases' # leases \/ event_loop = "start_provisioning"
                       /\ Len(events) = QUEUE_SIZE
                       /\ \A x \in EventID \ {"EVT_TEST"} : ~Holds(events, x)
                    \/ /\ event_loop = "EVT_PROVISIONING"
                       /\ Len(queue) = QUEUE_LEN
                       /\ ~Holds(queue, "RUN_UPDATE_CONFIG")
  <1>1. BootInv /\ [Next]_vars => [A]_vars
    BY CrowdedOutStep
  <1>2. QED
    BY <1>1, BootInvariance, PTL DEF Spec, OnlyCrowdedOut

-----------------------------------------------------------------------------
(***************************************************************************)
(* A device that booted provisioned downloads no configuration.            *)
(***************************************************************************)
Quiet ==
    done_at_boot =>
      /\ ~Holds(queue, "RUN_UPDATE_CONFIG")
      /\ worker # "RUN_UPDATE_CONFIG"
      /\ updates = 0

\* A reset forgets what the boot before had found.
LEMMA QuietReset == ASSUME NEW c, Reset(c) PROVE Quiet'
  BY DEF Reset, Fresh, Quiet

\* Without a caller of update_config every step leaves the worker quiet.
LEMMA QuietStep ==
    ASSUME "update_config" \notin Callers, BootInv, LoopQuiet, Quiet, [Next]_vars
    PROVE  Quiet'
  <1>0. TypeOK /\ BootOrder /\ Allocated
    BY DEF BootInv
  <1> USE DEF mainVars, loopVars, provVars
  <1>1. CASE PowerCycle
    BY <1>1, QuietReset DEF PowerCycle
  <1>2. CASE nvram_init
    <2>1. queue = <<>> /\ worker = "none" /\ updates = 0
      BY <1>0, <1>2 DEF nvram_init, BootOrder, Allocated
    <2>2. Reset("nvram_init") \/ UNCHANGED provVars
      BY <1>2 DEF nvram_init
    <2>3. QED
      BY <2>1, <2>2, QuietReset DEF Quiet, Holds
  <1>3. CASE event_handler_init \/ net_iface_init
    <2>1. \/ \E c : Reset(c)
          \/ UNCHANGED <<queue, worker, updates, done_at_boot>>
      BY <1>3 DEF event_handler_init, net_iface_init
    <2>2. QED
      BY <2>1, QuietReset DEF Quiet, Holds
  <1>4. CASE provision_init \/ create_worker
    <2>1. /\ UNCHANGED <<queue, updates, done_at_boot>>
          /\ worker' \in {worker, "xQueueReceive", "none"}
      BY <1>4 DEF provision_init, create_worker
    <2>2. QED
      BY <2>1 DEF Quiet, Holds
  <1>5. CASE \/ net_ip_event_handler \/ send_test \/ Dispatch \/ HandleRecvIp
             \/ StartProvisioning \/ HandleOther \/ nvram_set_prov_done \/ UNCHANGED vars
    <2>1. UNCHANGED <<queue, worker, updates, done_at_boot>>
      BY <1>5 DEF net_ip_event_handler, send_test, Dispatch, HandleRecvIp, StartProvisioning,
                  HandleOther, nvram_set_prov_done, vars
    <2>2. QED
      BY <2>1 DEF Quiet, Holds
  <1>6. CASE HandleProvisioning
    <2>1. Reset("null_queue") \/ UNCHANGED done_at_boot
      BY <1>6 DEF HandleProvisioning
    <2>2. ~done_at_boot
      BY <1>6 DEF HandleProvisioning, LoopQuiet
    <2>3. QED
      BY <2>1, <2>2, QuietReset DEF Quiet
  <1>7. CASE WorkerReceive
    <2>1. queue \in Seq(prov_cmd_t) /\ queue # <<>>
      BY <1>0, <1>7 DEF WorkerReceive, Receive, TypeOK, ProvTypeOK
    <2>2. \A x : Holds(queue, x) <=> x = Head(queue) \/ Holds(queue', x)
      BY <1>7, <2>1, TailFacts DEF WorkerReceive, Receive
    <2>3. worker' = Head(queue) /\ UNCHANGED <<updates, done_at_boot>>
      BY <1>7 DEF WorkerReceive, Receive
    <2>4. QED
      BY <2>2, <2>3 DEF Quiet, Holds
  <1>8. CASE WorkerRuns
    <2>1. CASE NoWork /\ UNCHANGED <<mainVars, loopVars, owed>>
      BY <2>1 DEF NoWork, Quiet, Holds
    <2>2. CASE ConfigUpdate /\ UNCHANGED <<mainVars, loopVars, owed>>
      BY <2>2 DEF ConfigUpdate, Quiet
    <2>3. CASE Reset("psram")
      BY <2>3, QuietReset
    <2>4. QED
      BY <1>8, <2>1, <2>2, <2>3 DEF WorkerRuns
  <1>9. CASE update_config
    BY <1>9 DEF update_config, Send
  <1>10. CASE update_firmware
    <2>1. queue \in Seq(prov_cmd_t) /\ Len(queue) <= QUEUE_LEN
      BY <1>0 DEF TypeOK, ProvTypeOK
    <2>2. queue' = AfterSend(queue, "RUN_FIRMWARE_UPDATE")
          /\ UNCHANGED <<worker, updates, done_at_boot>>
      BY <1>10 DEF update_firmware, Send
    <2>3. \A x : Holds(queue', x) => Holds(queue, x) \/ x = "RUN_FIRMWARE_UPDATE"
      BY <2>1, <2>2, AfterSendFacts DEF prov_cmd_t
    <2>4. QED
      BY <2>2, <2>3 DEF Quiet, Holds
  <1>11. QED
    BY <1>1, <1>2, <1>3, <1>4, <1>5, <1>6, <1>7, <1>8, <1>9, <1>10
       DEF Next, Main, EventLoop, Worker

\* A device that boots provisioned neither queues nor runs a config update,
\* however many addresses it gets, unless some task calls update_config.
THEOREM QuietWhenProvisioned ==
    ASSUME "update_config" \notin Callers
    PROVE  Spec => []ProvisionedStaysQuiet
  <1>1. Init => Quiet
    BY DEF Init, Fresh, Quiet
  <1>2. BootInv /\ LoopQuiet /\ Quiet /\ [Next]_vars => Quiet'
    BY QuietStep
  <1>3. Quiet => ProvisionedStaysQuiet
    BY DEF Quiet, ProvisionedStaysQuiet
  <1>4. QED
    BY <1>1, <1>2, <1>3, BootInvariance, LoopQuietInvariance, PTL DEF Spec
=============================================================================
