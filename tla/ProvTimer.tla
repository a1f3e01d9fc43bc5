----------------------------- MODULE ProvTimer -----------------------------
(***************************************************************************)
(* main/prov.c: the one-minute timer that provisioning_start creates, its  *)
(* handler, which runs in the FreeRTOS timer task, and the provisioning    *)
(* worker, from the end of provision_init on.                              *)
(*                                                                         *)
(* The handler's two sends are separate steps: the worker and the callers  *)
(* of update_config and update_firmware run between them.  The timer task  *)
(* runs one handler at a time, and a handler never blocks, so that it is   *)
(* done within its minute.                                                 *)
(***************************************************************************)
EXTENDS ProvQueue

CONSTANTS
    PERIODIC_CONFIG_MINUTES,
    PERIODIC_FIRMWARE_MINUTES,
    MaxTimers,      \* bound: the timers that get started
    Callers,        \* what other tasks call
    Prompt          \* the worker works off the queue within a minute

ASSUME ProvTimerAssumption ==
    /\ PERIODIC_CONFIG_MINUTES \in Nat \ {0}
    /\ PERIODIC_FIRMWARE_MINUTES \in Nat \ {0}
    /\ MaxTimers \in Nat
    /\ Callers \subseteq {"update_config", "update_firmware"}
    /\ Prompt \in BOOLEAN

VARIABLES
    n_config,       \* ctx.n_periodic_config
    n_firmware,     \* ctx.n_periodic_firmware
    timers,         \* timers that run
    due,            \* timers that have expired and whose handler has not run
    handler,        \* the timer task: "idle", or the check its handler is at
    age_config,     \* history: minutes since the last periodic config command
    age_firmware,   \* history: minutes since the last periodic firmware command
    alone,          \* history: when the handler began nothing waited in the
                    \* queue, and nobody else has sent since
    lost            \* history: a send of this handler run has failed

timerVars == <<n_config, n_firmware, timers, due, handler>>
ages == <<age_config, age_firmware>>
vars == <<timerVars, provVars, ages, alone, lost>>
-----------------------------------------------------------------------------
\* provision_init has succeeded.
Init ==
    /\ created = TRUE
    /\ queue = <<>>
    /\ worker = "xQueueReceive"
    /\ psram = 0
    /\ updates = 0
    /\ n_config = 0
    /\ n_firmware = 0
    /\ timers = 0
    /\ due = 0
    /\ handler = "idle"
    /\ age_config = 0
    /\ age_firmware = 0
    /\ alone = FALSE
    /\ lost = FALSE

\* provisioning_start.  It makes a new timer every time; if creating or
\* starting it fails nothing runs, and the call reports it.
provisioning_start ==
    /\ timers < MaxTimers
    /\ timers' = timers + 1
    /\ UNCHANGED <<n_config, n_firmware, due, handler, provVars, ages, alone, lost>>

\* A minute passes and every timer expires.
Minute ==
    /\ timers > 0
    /\ due = 0
    /\ handler = "idle"
    /\ Prompt => queue = <<>> /\ worker = "xQueueReceive"
    /\ due' = timers
    /\ age_config' = age_config + 1
    /\ age_firmware' = age_firmware + 1
    /\ UNCHANGED <<n_config, n_firmware, timers, handler, provVars, alone, lost>>

\* provision_timer_handler begins.
Tick ==
    /\ handler = "idle"
    /\ due > 0
    /\ due' = due - 1
    /\ n_config' = n_config + 1
    /\ n_firmware' = n_firmware + 1
    /\ handler' = "config"
    /\ alone' = (queue = <<>>)
    /\ lost' = FALSE
    /\ UNCHANGED <<timers, provVars, ages>>

\* The handler's xQueueSend; a failure is logged only.
Send(cmd) ==
    /\ queue' = AfterSend(queue, cmd)
    /\ lost' = (lost \/ AfterSend(queue, cmd) = queue)

\* Mutated form: the count starts again only when the command was queued.
ConfigResetOnSuccess ==
    /\ handler = "config"
    /\ \/ /\ n_config >= PERIODIC_CONFIG_MINUTES
          /\ Send("PERIODIC_UPDATE_CONFIG")
          /\ n_config' = IF Len(queue) < QUEUE_LEN THEN 0 ELSE n_config
          /\ age_config' = 0
       \/ /\ n_config < PERIODIC_CONFIG_MINUTES
          /\ UNCHANGED <<queue, lost, n_config, age_config>>
    /\ handler' = "firmware"
    /\ UNCHANGED <<n_firmware, timers, due, created, worker, psram, updates, age_firmware, alone>>

\* Mutated form: the config command is sent a second time.
ConfigSentTwice ==
    /\ handler = "config"
    /\ \/ /\ n_config >= PERIODIC_CONFIG_MINUTES
          /\ queue' = AfterSend(AfterSend(queue, "PERIODIC_UPDATE_CONFIG"),
                               "PERIODIC_UPDATE_CONFIG")
          /\ lost' = (lost \/ Len(queue) + 1 >= QUEUE_LEN)
          /\ n_config' = 0
          /\ age_config' = 0
       \/ /\ n_config < PERIODIC_CONFIG_MINUTES
          /\ UNCHANGED <<queue, lost, n_config, age_config>>
    /\ handler' = "firmware"
    /\ UNCHANGED <<n_firmware, timers, due, created, worker, psram, updates, age_firmware, alone>>

\* Mutated form: both counts start again when the config command is sent.
ConfigResetsBoth ==
    /\ handler = "config"
    /\ \/ /\ n_config >= PERIODIC_CONFIG_MINUTES
          /\ Send("PERIODIC_UPDATE_CONFIG")
          /\ n_config' = 0
          /\ n_firmware' = 0
          /\ age_config' = 0
          /\ age_firmware' = 0
       \/ /\ n_config < PERIODIC_CONFIG_MINUTES
          /\ UNCHANGED <<queue, lost, n_config, n_firmware, ages>>
    /\ handler' = "firmware"
    /\ UNCHANGED <<timers, due, created, worker, psram, updates, alone>>

CheckConfig ==
    /\ handler = "config"
    /\ \/ /\ n_config >= PERIODIC_CONFIG_MINUTES
          /\ Send("PERIODIC_UPDATE_CONFIG")
          /\ n_config' = 0
          /\ age_config' = 0
       \/ /\ n_config < PERIODIC_CONFIG_MINUTES
          /\ UNCHANGED <<queue, lost, n_config, age_config>>
    /\ handler' = "firmware"
    /\ UNCHANGED <<n_firmware, timers, due, created, worker, psram, updates, age_firmware, alone>>

CheckFirmware ==
    /\ handler = "firmware"
    /\ \/ /\ n_firmware >= PERIODIC_FIRMWARE_MINUTES
          /\ Send("PERIODIC_FIRMWARE_UPDATE")
          /\ n_firmware' = 0
          /\ age_firmware' = 0
       \/ /\ n_firmware < PERIODIC_FIRMWARE_MINUTES
          /\ UNCHANGED <<queue, lost, n_firmware, age_firmware>>
    /\ handler' = "idle"
    /\ UNCHANGED <<n_config, timers, due, created, worker, psram, updates, age_config, alone>>

TimerTask == Tick \/ CheckConfig \/ CheckFirmware
-----------------------------------------------------------------------------
\* A panic resets the chip; the boot sets ctx up anew.
Reset ==
    /\ created' = TRUE
    /\ queue' = <<>>
    /\ worker' = "xQueueReceive"
    /\ psram' = 0
    /\ updates' = 0
    /\ n_config' = 0
    /\ n_firmware' = 0
    /\ timers' = 0
    /\ due' = 0
    /\ handler' = "idle"
    /\ age_config' = 0
    /\ age_firmware' = 0
    /\ alone' = FALSE
    /\ lost' = FALSE

Worker ==
    \/ /\ Receive \/ ConfigUpdate \/ NoWork
       /\ UNCHANGED <<timerVars, ages, alone, lost>>
    \/ /\ WritesToNull
       /\ Reset

\* update_config and update_firmware of other tasks.
Call(call, cmd) ==
    /\ call \in Callers
    /\ queue' = AfterSend(queue, cmd)
    /\ alone' = FALSE
    /\ UNCHANGED <<timerVars, created, worker, psram, updates, ages, lost>>

update_config == Call("update_config", "RUN_UPDATE_CONFIG")
update_firmware == Call("update_firmware", "RUN_FIRMWARE_UPDATE")

Next ==
    \/ provisioning_start
    \/ Minute
    \/ TimerTask
    \/ Worker
    \/ update_config
    \/ update_firmware

\* Time passes, and neither the timer task nor the worker is starved.
Fairness == WF_vars(Minute) /\ WF_vars(TimerTask) /\ WF_vars(Worker)

Spec == Init /\ [][Next]_vars
FairSpec == Spec /\ Fairness
-----------------------------------------------------------------------------
\* Every variable has its type; a counter that has reached its period does
\* not survive the check.
TypeOK ==
    /\ ProvTypeOK
    /\ n_config \in 0 .. PERIODIC_CONFIG_MINUTES
    /\ n_firmware \in 0 .. PERIODIC_FIRMWARE_MINUTES
    /\ handler # "config" => n_config < PERIODIC_CONFIG_MINUTES
    /\ handler = "idle" => n_firmware < PERIODIC_FIRMWARE_MINUTES
    /\ timers \in 0 .. MaxTimers
    /\ due \in 0 .. timers
    /\ handler \in {"idle", "config", "firmware"}
    /\ age_config \in Nat
    /\ age_firmware \in Nat
    /\ alone \in BOOLEAN
    /\ lost \in BOOLEAN

\* "1hr" and "6hr": with one timer a periodic command is sent neither earlier
\* nor later than its period after the last one, also when that one found the
\* queue full.
OnTime ==
    /\ age_config <= PERIODIC_CONFIG_MINUTES
    /\ age_firmware <= PERIODIC_FIRMWARE_MINUTES
    /\ handler = "config" /\ n_config >= PERIODIC_CONFIG_MINUTES =>
         age_config = PERIODIC_CONFIG_MINUTES
    /\ handler = "firmware" /\ n_firmware >= PERIODIC_FIRMWARE_MINUTES =>
         age_firmware = PERIODIC_FIRMWARE_MINUTES

\* The queue has room for both commands of the minute in which both periods
\* end: if it was empty when the handler began and only the worker has touched
\* it since, no send of the handler fails.
BothFit == lost => ~alone

\* With a worker that keeps up and no other callers, every started timer keeps
\* delivering firmware updates.
FirmwareKeepsComing == timers > 0 ~> worker = "PERIODIC_FIRMWARE_UPDATE"
=============================================================================
