---------------------------- MODULE Provisioning ----------------------------
(***************************************************************************)
(* From power-on to the configuration download: app_main (main/main.c),    *)
(* the IP event of main/ethernet.c, the application's event loop           *)
(* (main/event_handler.c) and the provisioning worker (main/prov.c).       *)
(*                                                                         *)
(* Four tasks run: main, which ends with app_main; sys_evt, which calls    *)
(* net_ip_event_handler; event_loop; provision_worker.  A step of a task   *)
(* ends where it reads or writes what another task can change.  A panic    *)
(* reboots the chip (CONFIG_ESP_SYSTEM_PANIC_PRINT_REBOOT).                *)
(***************************************************************************)
EXTENDS ProvQueue

CONSTANTS
    QUEUE_SIZE,     \* events the event loop's queue holds
    MaxLeases,      \* bound: IP_EVENT_ETH_GOT_IP events per boot
    BootFailures,   \* the calls of app_main that can fail
    Callers         \* what other tasks ask for through event_send and prov.h

ASSUME ProvisioningAssumption ==
    /\ QUEUE_SIZE \in Nat \ {0}
    /\ MaxLeases \in Nat
    /\ BootFailures \subseteq {"nvs_flash_erase", "esp_event_loop_create", "register",
                              "net_iface_init", "xQueueCreate", "xTaskCreate"}
    /\ Callers \subseteq {"EVT_TEST", "update_config", "update_firmware"}

VARIABLES
    app_main,       \* the next call of app_main
    registered,     \* event_loop is registered with the loop
    events,         \* the events in the loop's queue
    event_loop,     \* the event loop: waiting, or the event it is handling, or
                    \* about to post EVT_PROVISIONING
    prov_done,      \* nvdata.misc.prov_done
    leases,         \* IP_EVENT_ETH_GOT_IP events since the boot
    reset,          \* why the chip has last reset
    owed,           \* history: sys_evt has reported an IP address to a device in
                    \* need and no config update has started since
    done_at_boot    \* history: nvram_init left prov_done set

loopVars == <<registered, events, event_loop>>
mainVars == <<app_main, prov_done, leases, reset, done_at_boot>>
vars == <<mainVars, loopVars, provVars, owed>>

EventID == {"EVT_TEST", "EVT_RECV_IP", "EVT_PROVISIONING"}
AppMain == {"nvram_init", "event_handler_init", "net_iface_init", "provision_init",
            "xTaskCreate", "done"}
Cause == {"power_on", "nvram_init", "event_handler_init", "net_iface_init", "null_queue",
          "psram"}
-----------------------------------------------------------------------------
\* RAM as a reset leaves it.
Fresh(main, reg, evs, loop, done, n, asked, doneThen) ==
    /\ main = "nvram_init"
    /\ reg = FALSE
    /\ evs = <<>>
    /\ loop = "waiting"
    /\ done = FALSE
    /\ n = 0
    /\ asked = FALSE
    /\ doneThen = FALSE

Init ==
    /\ Fresh(app_main, registered, events, event_loop, prov_done, leases, owed, done_at_boot)
    /\ ProvReset(created, queue, worker, psram, updates)
    /\ reset = "power_on"

Reset(cause) ==
    /\ Fresh(app_main', registered', events', event_loop', prov_done', leases', owed',
             done_at_boot')
    /\ ProvReset(created', queue', worker', psram', updates')
    /\ reset' = cause

\* Power is cut and comes back.
PowerCycle ==
    /\ app_main # "nvram_init"
    /\ Reset("power_on")
-----------------------------------------------------------------------------
(***************************************************************************)
(* app_main.                                                               *)
(***************************************************************************)
\* nvram_init leaves prov_done set or not (module Nvram says when).  Its
\* nvs_flash_erase is under ESP_ERROR_CHECK.
nvram_init ==
    /\ app_main = "nvram_init"
    /\ \/ /\ "nvs_flash_erase" \in BootFailures
          /\ Reset("nvram_init")
       \/ /\ app_main' = "event_handler_init"
          /\ prov_done' \in BOOLEAN
          /\ done_at_boot' = prov_done'
          /\ UNCHANGED <<leases, reset, loopVars, provVars, owed>>

\* The result of creating the loop is not looked at; to register a handler
\* with no loop is an assertion failure.  The result of registering is
\* returned to app_main, which drops it.
event_handler_init ==
    /\ app_main = "event_handler_init"
    /\ \/ /\ "esp_event_loop_create" \in BootFailures
          /\ Reset("event_handler_init")
       \/ /\ app_main' = "net_iface_init"
          /\ registered' \in {TRUE} \cup {b \in {FALSE} : "register" \in BootFailures}
          /\ UNCHANGED <<prov_done, leases, reset, done_at_boot, events, event_loop, provVars,
                         owed>>

\* Every call is under ESP_ERROR_CHECK.  Once the driver has started there can
\* be an IP address.
net_iface_init ==
    /\ app_main = "net_iface_init"
    /\ \/ /\ "net_iface_init" \in BootFailures
          /\ Reset("net_iface_init")
       \/ /\ app_main' = "provision_init"
          /\ UNCHANGED <<prov_done, leases, reset, done_at_boot, loopVars, provVars, owed>>

\* provision_init up to the queue.
provision_init ==
    /\ app_main = "provision_init"
    /\ \/ /\ "xQueueCreate" \in BootFailures
          /\ app_main' = "done"
          /\ UNCHANGED created
       \/ /\ created' = TRUE
          /\ app_main' = "xTaskCreate"
    /\ UNCHANGED <<prov_done, leases, reset, done_at_boot, loopVars, queue, worker, psram,
                   updates, owed>>

\* The rest of provision_init.
create_worker ==
    /\ app_main = "xTaskCreate"
    /\ app_main' = "done"
    /\ worker' \in {"xQueueReceive"} \cup {w \in {"none"} : "xTaskCreate" \in BootFailures}
    /\ UNCHANGED <<prov_done, leases, reset, done_at_boot, loopVars, created, queue, psram,
                   updates, owed>>

Main ==
    \/ nvram_init
    \/ event_handler_init
    \/ net_iface_init
    \/ provision_init
    \/ create_worker
-----------------------------------------------------------------------------
(***************************************************************************)
(* The event loop and the tasks that post to it.                           *)
(***************************************************************************)
LoopExists == app_main \in {"net_iface_init", "provision_init", "xTaskCreate", "done"}
NetStarted == app_main \in {"provision_init", "xTaskCreate", "done"}

\* event_send: esp_event_post_to with a timeout of 0.  No caller looks at the
\* result.
event_send(id) ==
    events' = IF Len(events) < QUEUE_SIZE THEN Append(events, id) ELSE events

nvram_need_provisioning == ~prov_done

\* net_ip_event_handler, in task sys_evt.  Losing the address changes nothing.
net_ip_event_handler ==
    /\ NetStarted
    /\ leases < MaxLeases
    /\ leases' = leases + 1
    /\ event_send("EVT_RECV_IP")
    /\ owed' = (owed \/ nvram_need_provisioning)
    /\ UNCHANGED <<app_main, prov_done, reset, done_at_boot, registered, event_loop, provVars>>

\* The loop takes the next event, for the handler if there is one.
Dispatch ==
    /\ event_loop = "waiting"
    /\ events # <<>>
    /\ event_loop' = IF registered THEN Head(events) ELSE "waiting"
    /\ events' = Tail(events)
    /\ UNCHANGED <<mainVars, registered, provVars, owed>>

\* Mutated form: the test is inverted.
RecvIpInverted ==
    /\ event_loop = "EVT_RECV_IP"
    /\ event_loop' = IF nvram_need_provisioning THEN "waiting" ELSE "start_provisioning"
    /\ UNCHANGED <<mainVars, registered, events, provVars, owed>>

\* The test of prov_done.  Another task may set it before the next step.
HandleRecvIp ==
    /\ event_loop = "EVT_RECV_IP"
    /\ event_loop' = IF nvram_need_provisioning THEN "start_provisioning" ELSE "waiting"
    /\ UNCHANGED <<mainVars, registered, events, provVars, owed>>

\* The event loop posts to its own queue.
StartProvisioning ==
    /\ event_loop = "start_provisioning"
    /\ event_send("EVT_PROVISIONING")
    /\ event_loop' = "waiting"
    /\ UNCHANGED <<mainVars, registered, provVars, owed>>

\* Mutated form: a missing queue is checked for and the command dropped.
ProvisioningNullChecked ==
    /\ event_loop = "EVT_PROVISIONING"
    /\ queue' = IF created THEN AfterSend(queue, "RUN_UPDATE_CONFIG") ELSE queue
    /\ event_loop' = "waiting"
    /\ UNCHANGED <<mainVars, registered, events, created, worker, psram, updates, owed>>

\* update_config: xQueueSend asserts that the queue is not NULL.
HandleProvisioning ==
    /\ event_loop = "EVT_PROVISIONING"
    /\ \/ /\ ~created
          /\ Reset("null_queue")
       \/ /\ created
          /\ queue' = AfterSend(queue, "RUN_UPDATE_CONFIG")
          /\ event_loop' = "waiting"
          /\ UNCHANGED <<mainVars, registered, events, created, worker, psram, updates, owed>>

HandleOther ==
    /\ event_loop = "EVT_TEST"
    /\ event_loop' = "waiting"
    /\ UNCHANGED <<mainVars, registered, events, provVars, owed>>

EventLoop ==
    \/ Dispatch
    \/ HandleRecvIp
    \/ StartProvisioning
    \/ HandleProvisioning
    \/ HandleOther
-----------------------------------------------------------------------------
(***************************************************************************)
(* The worker, and the calls of other tasks.                               *)
(***************************************************************************)
WorkerReceive ==
    /\ Receive
    /\ owed' = (owed /\ worker' # "RUN_UPDATE_CONFIG")
    /\ UNCHANGED <<mainVars, loopVars>>

WorkerRuns ==
    \/ /\ ConfigUpdate \/ NoWork
       /\ UNCHANGED <<mainVars, loopVars, owed>>
    \/ /\ WritesToNull
       /\ Reset("psram")

Worker == WorkerReceive \/ WorkerRuns

\* event_send(EVT_TEST) of a task that has none of the roles above.
send_test ==
    /\ "EVT_TEST" \in Callers
    /\ LoopExists
    /\ event_send("EVT_TEST")
    /\ UNCHANGED <<mainVars, registered, event_loop, provVars, owed>>

\* update_config and update_firmware, called after app_main has returned.
Send(call, cmd) ==
    /\ call \in Callers
    /\ app_main = "done"
    /\ created
    /\ queue' = AfterSend(queue, cmd)
    /\ UNCHANGED <<mainVars, loopVars, created, worker, psram, updates, owed>>

update_config == Send("update_config", "RUN_UPDATE_CONFIG")
update_firmware == Send("update_firmware", "RUN_FIRMWARE_UPDATE")

\* The application declares the device provisioned.
nvram_set_prov_done ==
    /\ app_main # "nvram_init"
    /\ ~prov_done
    /\ prov_done' = TRUE
    /\ UNCHANGED <<app_main, leases, reset, done_at_boot, loopVars, provVars, owed>>

Next ==
    \/ PowerCycle
    \/ Main
    \/ net_ip_event_handler
    \/ EventLoop
    \/ Worker
    \/ send_test
    \/ update_config
    \/ update_firmware
    \/ nvram_set_prov_done

\* The scheduler does not starve a ready task: the event loop and sys_evt
\* have priorities of their own, and main and the worker share priority 1 by
\* time slicing.
Fairness == WF_vars(Main) /\ WF_vars(EventLoop) /\ WF_vars(Worker)

Spec == Init /\ [][Next]_vars
FairSpec == Spec /\ Fairness
-----------------------------------------------------------------------------
\* Every variable has its type.
TypeOK ==
    /\ app_main \in AppMain
    /\ registered \in BOOLEAN
    /\ events \in Seq(EventID)
    /\ Len(events) <= QUEUE_SIZE
    /\ event_loop \in {"waiting", "start_provisioning"} \cup EventID
    /\ prov_done \in BOOLEAN
    /\ leases \in 0 .. MaxLeases
    /\ reset \in Cause
    /\ owed \in BOOLEAN
    /\ done_at_boot \in BOOLEAN
    /\ ProvTypeOK

Holds(s, x) == \E i \in DOMAIN s : s[i] = x

\* The request for a config update is somewhere on its way to the worker.
OnItsWay ==
    \/ event_loop \in {"EVT_RECV_IP", "start_provisioning", "EVT_PROVISIONING"}
    \/ Holds(events, "EVT_RECV_IP")
    \/ Holds(events, "EVT_PROVISIONING")
    \/ Holds(queue, "RUN_UPDATE_CONFIG")

\* From the moment sys_evt reports an address to a device that needs
\* provisioning, the config update it is owed is still going to come from an
\* event or a command in a queue, although both queues drop what does not fit
\* and nobody looks at the results of the sends.  The one exception: a device
\* whose handler event_handler_init could not register, a result nobody looks
\* at either, throws every request away.
RequestNotLost == owed /\ nvram_need_provisioning => OnItsWay \/ ~registered

\* Whoever else sends: with its handler registered a device loses a request
\* only where it meets a full queue in which other tasks' items have every
\* place, so that none of them could stand for it: at the send of sys_evt, at
\* the event loop's own, or at the command queue.
OnlyCrowdedOut ==
    [][RequestNotLost /\ ~RequestNotLost' =>
         \/ /\ leases' # leases \/ event_loop = "start_provisioning"
            /\ Len(events) = QUEUE_SIZE
            /\ \A x \in EventID \ {"EVT_TEST"} : ~Holds(events, x)
         \/ /\ event_loop = "EVT_PROVISIONING"
            /\ Len(queue) = QUEUE_LEN
            /\ ~Holds(queue, "RUN_UPDATE_CONFIG")]_vars

\* A device that booted provisioned never asks its worker for the
\* configuration, however often it gets an address.
ProvisionedStaysQuiet ==
    done_at_boot => /\ updates = 0
                    /\ worker # "RUN_UPDATE_CONFIG"
                    /\ ~Holds(queue, "RUN_UPDATE_CONFIG")

ResetStep == app_main # "nvram_init" /\ app_main' = "nvram_init"

\* The device resets by itself only in a call of app_main that fails; for a
\* device that booted in need of provisioning and has an address, because
\* provision_init has not created its queue, yet or ever; or because the
\* config updates of this boot have leaked all the PSRAM there is.
UptimeAfterBoot ==
    [][ResetStep =>
         \/ reset' = "power_on"
         \/ reset' = app_main
         \/ reset' = "null_queue" /\ worker = "none" /\ leases > 0 /\ ~done_at_boot
         \/ reset' = "psram" /\ (updates + 1) * BytesPerUpdate > Psram]_vars

\* A device that needs provisioning and got an address eventually starts a
\* config update, unless it resets or is declared provisioned first, or this
\* boot could not register the event handler or found no memory for the worker.
ConfigEventuallyStarts ==
    owed ~> \/ ~owed
            \/ ~nvram_need_provisioning
            \/ ~registered
            \/ app_main = "done" /\ worker = "none"

\* event_handler.c on EVT_PROVISIONING: "Start Firmware Update and Config
\* Download".  Either there is no room for both commands or both are queued.
ProvisioningStartsBoth ==
    [][event_loop = "EVT_PROVISIONING" /\ event_loop' = "waiting" /\ app_main' = app_main =>
         \/ Len(queue') = QUEUE_LEN
         \/ Holds(queue', "RUN_FIRMWARE_UPDATE") /\ Holds(queue', "RUN_UPDATE_CONFIG")]_vars
=============================================================================
