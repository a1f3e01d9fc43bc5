------------------------------- MODULE Nvram -------------------------------
(***************************************************************************)
(* main/nvram.c: the parameter image nvdata in RAM, its copy in NVS flash, *)
(* the tasks that call the setters, power loss and boot.                   *)
(*                                                                         *)
(* A setter stores into nvdata without a lock, then opens the namespace,   *)
(* writes the whole record with nvs_set_blob and commits.  The chip has    *)
(* two cores (CONFIG_FREERTOS_UNICORE is not set), so the steps of two     *)
(* setters interleave, the copying of nvdata inside nvs_set_blob included. *)
(*                                                                         *)
(* NVS is external.  What the code relies on: one call at a time is inside *)
(* NVS; a blob is replaced as a whole; after nvs_commit has succeeded it   *)
(* survives power loss, and before that it may (WriteBack); every call can *)
(* fail, and a failed nvs_set_blob may have taken effect or not.           *)
(***************************************************************************)
EXTENDS NvramApi, FiniteSets

CONSTANTS
    Tasks,      \* the RTOS tasks that call the setters
    Losses,     \* bound: sets of records that a failing erase has got to
    Missing     \* content of a cell whose key is not in NVS

ASSUME NvramAssumption ==
    /\ Tasks # {}
    /\ Losses \subseteq SUBSET Keys
    /\ Missing \notin Word

VARIABLES
    up,         \* nvram_init has returned and the power is on
    ready,      \* nvs_flash_init succeeded on this boot
    ram,        \* nvdata, per cell
    nvs,        \* what nvs_get_blob would read, per cell
    flash,      \* what survives power loss, per cell
    pc,         \* per task: where its setter call is
    key,        \* per task: the record the call persists
    todo,       \* per task: the stores it has still to make
    left,       \* per task: the cells nvs_set_blob has still to copy
    err,        \* per task: the value the call is going to return
    owned,      \* history: the cells the caller expects this call to save
    behind,     \* history: cells reported as not saved, or not read at boot
    loaded,     \* history: the keys this boot read successfully
    touched     \* history: the cells setters stored into since the boot

callVars == <<pc, key, todo, left, err, owned>>
storeVars == <<ram, nvs, flash>>
history == <<behind, loaded, touched>>
vars == <<up, ready, storeVars, callVars, history>>

Content == Word \cup {Missing}
PC == {"idle", "store", "open", "set_blob", "copy", "commit", "close"}
-----------------------------------------------------------------------------
(***************************************************************************)
(* Boot: nvram_init.  It runs in app_main before any other task exists, so *)
(* nothing interleaves with it.                                            *)
(***************************************************************************)
\* The records read by the || chain at the end of nvram_init, in order.
Chain == <<"net", "token", "mqtt", "misc">>

Present(k, store) == \A c \in CellsOf(k) : store[c] # Missing

\* The keys read when the keys in `readable` can be: the chain stops at the
\* first record that fails, the two records before it are read regardless.
ReadAtBoot(readable) ==
    (readable \cap {"beacon", "folds"})
      \cup {Chain[i] : i \in {j \in DOMAIN Chain : \A h \in 1 .. j : Chain[h] \in readable}}

ChainComplete(read) == \A i \in DOMAIN Chain : Chain[i] \in read

\* Mutated form: a failed read does not reset prov_done.
BootRamWithoutReset(store, read, garbled) ==
    [c \in Cell |-> IF KeyOf(c) \in read \cup garbled THEN store[c] ELSE Default[c]]

\* Mutated form: the records are read into a copy of nvdata.
BootRamDefaults(store, read, garbled) ==
    [Default EXCEPT ![ProvDone] = IF ChainComplete(read) THEN store[ProvDone] ELSE false]

\* Mutated form: a record is taken whether the read has found it or not.
BootRamUnchecked(store, read, garbled) ==
    [c \in Cell |-> IF c = ProvDone /\ ~ChainComplete(read) THEN false ELSE store[c]]

\* nvdata after nvram_init.  A read that fails may already have filled the
\* caller's buffer (garbled).
BootRam(store, read, garbled) ==
    [c \in Cell |->
        IF c = ProvDone /\ ~ChainComplete(read) THEN false
        ELSE IF KeyOf(c) \in read \cup garbled THEN store[c]
        ELSE Default[c]]

\* No task is in a setter.
NoCall(pcs, keys, todos, lefts, errs, owns) ==
    /\ pcs = [t \in Tasks |-> "idle"]
    /\ keys = [t \in Tasks |-> "none"]
    /\ todos = [t \in Tasks |-> <<>>]
    /\ lefts = [t \in Tasks |-> {}]
    /\ errs = [t \in Tasks |-> "ESP_OK"]
    /\ owns = [t \in Tasks |-> {}]

\* The flash of a new device, and of one with a static address and MQTT whose
\* records earlier calls of the setters have all saved.
Factory == [c \in Cell |-> Missing]
Saved == CHOOSE v \in Data : TRUE
Provisioned ==
    [c \in Cell |->
        IF c \in {ProvDone, <<"net", "proto">>, <<"mqtt", "enable">>} THEN true
        ELSE IF c \in {<<"net", "ip_info">>, <<"net", "primary_dns">>, <<"mqtt", "host">>}
        THEN Saved
        ELSE Default[c]]

\* The device is off, before its first boot or after any later one.
Init ==
    /\ up = FALSE
    /\ ready = FALSE
    /\ ram = Default
    /\ flash \in {Factory, Provisioned}
    /\ nvs = flash
    /\ NoCall(pc, key, todo, left, err, owned)
    /\ behind = {}
    /\ loaded = {}
    /\ touched = {}

\* nvs_flash_init may ask for an erase and a second try, whose result is not
\* looked at: with ready = FALSE every nvs_open of this boot fails.
Boot ==
    /\ ~up
    /\ up' = TRUE
    /\ \E erase, works \in BOOLEAN, failing \in SUBSET Keys :
         LET store    == IF erase THEN Factory ELSE flash
             readable == {k \in Keys \ failing : works /\ Present(k, store)}
             read     == ReadAtBoot(readable)
         IN \E garbled \in SUBSET {k \in failing : works /\ Present(k, store)} :
              /\ ready' = works
              /\ flash' = store
              /\ nvs' = store
              /\ ram' = BootRam(store, read, garbled)
              /\ loaded' = read
              /\ behind' = {c \in Cell : KeyOf(c) \notin read}
              /\ touched' = {}
    /\ UNCHANGED callVars

\* The erase, under ESP_ERROR_CHECK, fails on its way: a panic and another
\* boot, with the records that it has got to lost.
EraseFails ==
    /\ ~up
    /\ \E lost \in Losses :
         flash' = [c \in Cell |-> IF KeyOf(c) \in lost THEN Missing ELSE flash[c]]
    /\ nvs' = flash'
    /\ UNCHANGED <<up, ready, ram, callVars, history>>

\* Power loss or panic: only the flash survives.
Crash ==
    /\ up
    /\ up' = FALSE
    /\ ready' = FALSE
    /\ ram' = Default
    /\ nvs' = flash
    /\ flash' = flash
    /\ NoCall(pc', key', todo', left', err', owned')
    /\ behind' = {}
    /\ loaded' = {}
    /\ touched' = {}
-----------------------------------------------------------------------------
(***************************************************************************)
(* A setter call of task t.                                                *)
(***************************************************************************)
At(t, loc) == up /\ pc[t] = loc
Goto(t, loc) == pc' = [pc EXCEPT ![t] = loc]

\* A task is inside nvs_set_blob and holds the lock of NVS.
NvsBusy == \E t \in Tasks : pc[t] = "copy"

Call(t) ==
    /\ At(t, "idle")
    /\ \E call \in Calls :
         /\ key' = [key EXCEPT ![t] = call.key]
         /\ todo' = [todo EXCEPT ![t] = call.stores]
         /\ owned' = [owned EXCEPT ![t] = CellsStored(call.stores)]
    /\ Goto(t, "store")
    /\ UNCHANGED <<up, ready, storeVars, left, err, history>>

\* The next assignment, strcpy or memcpy into nvdata.
StoreCell(t) ==
    /\ At(t, "store")
    /\ todo[t] # <<>>
    /\ LET store == Head(todo[t])
       IN /\ ram' = [ram EXCEPT ![store.cell] = store.val]
          /\ touched' = touched \cup {store.cell}
    /\ todo' = [todo EXCEPT ![t] = Tail(@)]
    /\ UNCHANGED <<up, ready, nvs, flash, pc, key, left, err, owned, behind, loaded>>

\* The stores are done: nvram_update_* is entered.
CallUpdate(t) ==
    /\ At(t, "store")
    /\ todo[t] = <<>>
    /\ Goto(t, "open")
    /\ UNCHANGED <<up, ready, storeVars, key, todo, left, err, owned, history>>

Open(t) ==
    /\ At(t, "open")
    /\ ~NvsBusy
    /\ ready
    /\ Goto(t, "set_blob")
    /\ UNCHANGED <<up, ready, storeVars, key, todo, left, err, owned, history>>

\* The call returns e to its caller.  If e is an error the caller knows that
\* the cells it wanted saved may not be.
Return(t, e) ==
    /\ Goto(t, "idle")
    /\ key' = [key EXCEPT ![t] = "none"]
    /\ left' = [left EXCEPT ![t] = {}]
    /\ err' = [err EXCEPT ![t] = "ESP_OK"]
    /\ owned' = [owned EXCEPT ![t] = {}]
    /\ behind' = IF e = "ESP_OK" THEN behind ELSE behind \cup owned[t]
    /\ UNCHANGED <<up, ready, storeVars, todo, loaded, touched>>

OpenFails(t) ==
    /\ At(t, "open")
    /\ ~NvsBusy
    /\ Return(t, "ESP_FAIL")

\* nvs_set_blob starts to read the record from nvdata.  From here on the call
\* also saves what earlier calls on this record failed to save.
SetBlob(t) ==
    /\ At(t, "set_blob")
    /\ ~NvsBusy
    /\ left' = [left EXCEPT ![t] = CellsOf(key[t])]
    /\ owned' = [owned EXCEPT ![t] = @ \cup (behind \cap CellsOf(key[t]))]
    /\ behind' = behind \ CellsOf(key[t])
    /\ Goto(t, "copy")
    /\ UNCHANGED <<up, ready, storeVars, key, todo, err, loaded, touched>>

\* Mutated form: the result of nvs_set_blob is ignored.
SetBlobErrorIgnored(t) ==
    /\ At(t, "set_blob")
    /\ ~NvsBusy
    /\ Goto(t, "commit")
    /\ UNCHANGED <<up, ready, storeVars, key, todo, left, err, owned, history>>

SetBlobFails(t) ==
    /\ At(t, "set_blob")
    /\ ~NvsBusy
    /\ err' = [err EXCEPT ![t] = "ESP_FAIL"]
    /\ Goto(t, "close")
    /\ UNCHANGED <<up, ready, storeVars, key, todo, left, owned, history>>

CopyCell(t) ==
    /\ At(t, "copy")
    /\ \E c \in left[t] :
         /\ nvs' = [nvs EXCEPT ![c] = ram[c]]
         /\ left' = [left EXCEPT ![t] = @ \ {c}]
    /\ UNCHANGED <<up, ready, ram, flash, pc, key, todo, err, owned, history>>

\* nvs_set_blob returns, possibly with an error although the value is in.
SetBlobReturns(t) ==
    /\ At(t, "copy")
    /\ left[t] = {}
    /\ \/ /\ Goto(t, "commit")
          /\ UNCHANGED err
       \/ /\ Goto(t, "close")
          /\ err' = [err EXCEPT ![t] = "ESP_FAIL"]
    /\ UNCHANGED <<up, ready, storeVars, key, todo, left, owned, history>>

\* flash with the blob of key k as NVS holds it now.
Flushed(k) == [c \in Cell |-> IF KeyOf(c) = k THEN nvs[c] ELSE flash[c]]

\* Mutated form: nvs_commit is not called.
CommitSkipped(t) ==
    /\ At(t, "commit")
    /\ ~NvsBusy
    /\ Goto(t, "close")
    /\ UNCHANGED <<up, ready, storeVars, key, todo, left, err, owned, history>>

Commit(t) ==
    /\ At(t, "commit")
    /\ ~NvsBusy
    /\ flash' = Flushed(key[t])
    /\ Goto(t, "close")
    /\ UNCHANGED <<up, ready, ram, nvs, key, todo, left, err, owned, history>>

CommitFails(t) ==
    /\ At(t, "commit")
    /\ ~NvsBusy
    /\ err' = [err EXCEPT ![t] = "ESP_FAIL"]
    /\ Goto(t, "close")
    /\ UNCHANGED <<up, ready, storeVars, key, todo, left, owned, history>>

\* nvs_close, then the setter returns.
Close(t) ==
    /\ At(t, "close")
    /\ Return(t, err[t])

\* NVS may write a blob to the flash before it is committed.
WriteBack(k) ==
    /\ up
    /\ ~NvsBusy
    /\ flash' = Flushed(k)
    /\ UNCHANGED <<up, ready, ram, nvs, callVars, history>>

SetterStep(t) ==
    \/ Call(t)
    \/ StoreCell(t)
    \/ CallUpdate(t)
    \/ Open(t)
    \/ OpenFails(t)
    \/ SetBlob(t)
    \/ SetBlobFails(t)
    \/ CopyCell(t)
    \/ SetBlobReturns(t)
    \/ Commit(t)
    \/ CommitFails(t)
    \/ Close(t)

Next ==
    \/ Boot
    \/ EraseFails
    \/ Crash
    \/ \E t \in Tasks : SetterStep(t)
    \/ \E k \in Keys : WriteBack(k)

Spec == Init /\ [][Next]_vars
-----------------------------------------------------------------------------
\* What nvram_need_provisioning answers.
nvram_need_provisioning == ram[ProvDone] = false

\* Every variable has its type.
TypeOK ==
    /\ up \in BOOLEAN
    /\ ready \in BOOLEAN
    /\ ram \in [Cell -> Word]
    /\ nvs \in [Cell -> Content]
    /\ flash \in [Cell -> Content]
    /\ pc \in [Tasks -> PC]
    /\ key \in [Tasks -> Keys \cup {"none"}]
    /\ todo \in [Tasks -> Seq(Stores)]
    /\ left \in [Tasks -> SUBSET Cell]
    /\ err \in [Tasks -> {"ESP_OK", "ESP_FAIL"}]
    /\ owned \in [Tasks -> SUBSET Cell]
    /\ behind \subseteq Cell
    /\ loaded \subseteq Keys
    /\ touched \subseteq Cell

\* No lost update.  When no setter of a record is running, whatever tasks have
\* set its fields in whatever order, the flash holds every field as it is in
\* nvdata, except the fields whose saving was reported to a caller as failed
\* and the fields of a record that this boot has not read, until a call saves
\* them.
Settled(k) == \A t \in Tasks : key[t] # k
SettledMeansSaved ==
    up => \A k \in Keys : Settled(k) =>
            \A c \in CellsOf(k) \ behind : flash[c] = ram[c]

\* Persisting a record never changes a field that no setter has stored into,
\* if this boot had read the record: setting tgs5141 does not lose prov_done
\* and setting prov_done does not lose tgs5141.
UntouchedCellsSurvive ==
    [][up /\ up' => \A c \in Cell :
         flash'[c] # flash[c] => c \in touched \/ KeyOf(c) \notin loaded]_vars

\* A device that comes up provisioned has net, token, mqtt and misc as they
\* are in the flash, whatever reads failed during the boot.
BootAdoptsCompleteConfig ==
    [][~up /\ up' /\ ~nvram_need_provisioning' =>
         \A c \in Cell : KeyOf(c) \in {"net", "token", "mqtt", "misc"} =>
             ram'[c] = flash'[c] /\ flash'[c] # Missing]_vars

\* With a single task that sets tokens, power loss at any step leaves the
\* flash with two tokens of the same call.
TokenPairWhole ==
    flash[<<"token", "access">>] = flash[<<"token", "refresh">>]
=============================================================================
