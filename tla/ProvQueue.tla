----------------------------- MODULE ProvQueue -----------------------------
(***************************************************************************)
(* main/prov.c: the command queue of the provisioning component, the task  *)
(* that works it off and the PSRAM its work takes.  The modules that       *)
(* extend this one add the tasks that send the commands.                   *)
(*                                                                         *)
(* The FreeRTOS queue is external: xQueueSend with a timeout of 0 appends  *)
(* the item or returns errQUEUE_FULL at once; xQueueReceive takes the      *)
(* oldest item.  Both are atomic.                                          *)
(***************************************************************************)
EXTENDS Naturals, Sequences

CONSTANTS
    QUEUE_LEN,          \* commands the queue holds
    MAX_PROV_DATA_LEN,  \* bytes of each of the two data buffers
    MAX_URL_LEN,        \* bytes of the url buffer
    Psram               \* bytes of PSRAM there are for these buffers

ASSUME ProvQueueAssumption ==
    /\ QUEUE_LEN \in Nat \ {0}
    /\ MAX_PROV_DATA_LEN \in Nat \ {0}
    /\ MAX_URL_LEN \in Nat \ {0}
    /\ Psram \in Nat

VARIABLES
    created,    \* ctx.queue is not NULL
    queue,      \* the commands in ctx.queue
    worker,     \* the worker: "none", at "xQueueReceive", or the command it has
    psram,      \* bytes allocated since the boot
    updates     \* history: config updates completed since the boot

provVars == <<created, queue, worker, psram, updates>>

prov_cmd_t == {"RUN_UPDATE_CONFIG", "RUN_FIRMWARE_UPDATE",
               "PERIODIC_UPDATE_CONFIG", "PERIODIC_FIRMWARE_UPDATE"}

ProvTypeOK ==
    /\ created \in BOOLEAN
    /\ queue \in Seq(prov_cmd_t)
    /\ Len(queue) <= QUEUE_LEN
    /\ worker \in {"none", "xQueueReceive"} \cup prov_cmd_t
    /\ psram \in 0 .. Psram
    /\ updates \in Nat

\* ctx and the heap after a reset, before provision_init.
ProvReset(isCreated, cmds, task, bytes, n) ==
    /\ isCreated = FALSE
    /\ cmds = <<>>
    /\ task = "none"
    /\ bytes = 0
    /\ n = 0
-----------------------------------------------------------------------------
\* The queue after xQueueSend(ctx.queue, &cmd, 0).
AfterSend(q, cmd) == IF Len(q) < QUEUE_LEN THEN Append(q, cmd) ELSE q

\* provision_worker: the blocking xQueueReceive.
Receive ==
    /\ worker = "xQueueReceive"
    /\ queue # <<>>
    /\ worker' = Head(queue)
    /\ queue' = Tail(queue)
    /\ UNCHANGED <<created, psram, updates>>

\* The heap_caps_malloc calls of provision_config_update.  Nothing frees them.
BytesPerUpdate == 2 * MAX_PROV_DATA_LEN + MAX_URL_LEN
Exhausted == psram + BytesPerUpdate > Psram

\* Mutated form: the buffers are allocated twice.
UpdateAllocatingTwice ==
    /\ worker = "RUN_UPDATE_CONFIG"
    /\ ~Exhausted
    /\ psram' = psram + 2 * BytesPerUpdate
    /\ updates' = updates + 1
    /\ worker' = "xQueueReceive"
    /\ UNCHANGED <<created, queue>>

\* provision_config_update, with the three buffers there are.
ConfigUpdate ==
    /\ worker = "RUN_UPDATE_CONFIG"
    /\ ~Exhausted
    /\ psram' = psram + BytesPerUpdate
    /\ updates' = updates + 1
    /\ worker' = "xQueueReceive"
    /\ UNCHANGED <<created, queue>>

\* The memset of a buffer that heap_caps_malloc could not provide: a panic.
WritesToNull ==
    /\ worker = "RUN_UPDATE_CONFIG"
    /\ Exhausted

\* The commands the worker takes and does nothing for.
NoWork ==
    /\ worker \in prov_cmd_t \ {"RUN_UPDATE_CONFIG"}
    /\ worker' = "xQueueReceive"
    /\ UNCHANGED <<created, queue, psram, updates>>
=============================================================================
