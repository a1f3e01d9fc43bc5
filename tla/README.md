# Verification of esp32s3-w5500

The firmware of an ESP32-S3 with a W5500 Ethernet controller: it keeps its
parameters in NVS flash, brings the network up, and provisions itself from a
server when it has no configuration. This directory models the parts of it that
decide something, checks them with TLC on small instances, and proves the main
results for every value of the constants with TLAPS.

1 Inventory, 2 Modules, 3 Runs, 4 Proofs, 5 Not modelled.

## 1. Inventory

| Component | State | Operations | Interacts through |
|---|---|---|---|
| `main/nvram.c`, `params.h` | `nvdata`: six persisted records (net, mqtt, token, folds, misc, beacon) and the device identifiers; their NVS blobs | 8 setters, each "store into `nvdata`, then persist the record"; getters; `nvram_init` | called by any task, no lock; NVS |
| `main/event_handler.c` | the event loop and its queue of 10 | `event_handler_init`, `event_send`, `event_loop` with `EVT_TEST`, `EVT_RECV_IP`, `EVT_PROVISIONING` | posts to itself, reads `prov_done`, calls `update_config` |
| `main/ethernet.c` | none of its own | `net_iface_init`, `net_ip_event_handler` | posts `EVT_RECV_IP` from the task `sys_evt` |
| `main/prov.c`, queue and worker | `ctx.queue` (2 commands), the worker task, PSRAM | `provision_init`, `update_config`, `update_firmware`, `provision_worker`, `provision_config_update` | the queue |
| `main/prov.c`, timer | two minute counters | `provisioning_start`, `provision_timer_handler` | sends to the queue from the timer task |
| `main/prov.c`, decryption | none | `generate_hash`, `decrypt_data` | mbedtls; not called yet |
| `main/http_client.c` | one client per call | `https_get` | esp_http_client; not called yet |
| `main/utils.c` | none | `hex2char`, `bin2hex` | called by `nvram_read_ids` |
| `main/main.c` | none | `app_main`: nvram, event handler, network, provisioning, in this order | calls the others |
| `components/xxhash` | `XXH3_state_t` and the states of XXH32 and XXH64: accumulators, buffer, secret, counts | hashes in one call and as streams (`reset`, `update`, `digest`), in five modes; `XXH3_generateSecret`; compare, canonical form | vendored; `nvram_read_ids` calls `XXH3_128bits` |

What is hard in it, and what makes each part correct:

- **nvram.** No lock on `nvdata`; the chip has two cores; every NVS call can
  fail after `nvdata` has changed; power can go at any step. Correct means: what
  a call has acknowledged is in the flash, with whatever other calls did at the
  same time; a call never damages a saved field it is not about; the flash does
  not hold halves of two token pairs; a boot that cannot read everything does
  not come up provisioned.
- **Boot and provisioning.** Four tasks. The network starts before the command
  queue exists, and both queues drop what does not fit while nobody looks at the
  result of a send. Correct means: no request for a config update gets lost, a
  provisioned device makes none, a device in need gets to it eventually, and the
  device does not reset itself for other reasons than the known ones.
- **Timer.** The handler runs in a task of its own between the worker and other
  senders, and resets its counters whether or not its sends succeed. Correct
  means: the periods are kept, and the queue of two is enough for the minute in
  which both commands are due.

- **Readers.** The getters take no lock and copy field by field; their tests are
  reads of their own. Correct means: what an undisturbed reader is given belongs
  together, whatever boots and power losses came before.
- **Identifiers, decryption, download.** `nvram_read_ids` derives a serial in
  two byte orders; `decrypt_data` derives keys from it through fifteen library
  calls that can each fail and returns a variable that success never sets;
  `https_get` keeps its client. Correct means: the forms of a serial agree and
  different devices have different ones; success is reported only for what was
  done; only the known memory is lost.
- **xxhash.** A stream is cut anywhere, and stripes, blocks, the buffer and the
  stale bytes in it have their own boundaries. Correct means: the digest of a
  stream is the hash of the message in one call, every byte of a message enters
  it and no other byte does.

Every hazard with its line, and the property it led to or the reason why there
is none, is in `PROJECT.json` under `hazards`.

## 2. Modules

| Module | Models | State and actions |
|---|---|---|
| `NvramApi` | `params.h`, the setters of `nvram.c` as data | per setter: the record it persists and the sequence of its stores |
| `Nvram` | `nvram.c` with NVS, tasks, power | `ram` = `nvdata`; `nvs` and `flash` = the blobs as NVS returns them and as power loss leaves them; `pc`, `key`, `todo`, `left`, `err` = where each task's call is. `Call`, `StoreCell`, `CallUpdate`, `Open`, `SetBlob`, `CopyCell`, `SetBlobReturns`, `Commit`, `Close` follow one call; `OpenFails`, `SetBlobFails`, `CommitFails` are its error paths; `Boot` is `nvram_init`, `EraseFails` its way out by a panic; `Crash`; `WriteBack` |
| `MCNvram` | - | the symmetry of the tasks |
| `ProvQueue` | the queue, the worker and the PSRAM of `prov.c` | shared by the next two, which extend it |
| `Provisioning` | `app_main`, `net_iface_init`, the IP event, the event loop, the worker | `app_main` = the next call of the boot; `events`, `event_loop`; `created`, `queue`, `worker`, `psram`. One action per call of the boot, per handler case and per queue operation |
| `ProvTimer` | `provisioning_start`, `provision_timer_handler`, the worker, other senders | `n_config`, `n_firmware`; `Tick`, `CheckConfig`, `CheckFirmware` are the handler, split at its two sends |
| `NvramReaders` | the getters of `nvram.c` that copy several fields | `reader` = where a getter is, what it has still to copy, its caller's buffers; it extends `NvramRefinement` and its steps interleave with all of `Nvram`'s |
| `ParamStore` | abstract: a write-back cache over the flash | `cache`, `disk`, `dirty`; `PowerOn`, `Lose`, `PowerOff`, `Begin`, `Set`, `Save`, `End` |
| `NvramRefinement` | - | `ParamStore` with `cache <- ram`, `disk <- flash`, `dirty <-` the cells of records whose setters run and those known not to be saved |
| `Utils` | `utils.c` | `hex2char`, `bin2hex` as operators |
| `DeviceIds` | `nvram_read_ids`; compare and canonical form of a 128-bit hash | operators on words as sequences of bytes; the hash is a constant |
| `Download` | `generate_hash`, `decrypt_data`, `https_get`, the boot that reads the identifiers | `call` = where each task's call is, and its variables; `free`, `kept` = the heap. One step per library call, one action per way it goes on |
| `XxhMemory` | which byte of which object a read finds | a word read is the sequence of where its bytes came from |
| `Xxh32`, `Xxh64`, `Xxh3Short`, `Xxh3`, `XxhSecret` | the hashes in one call, by length; the secrets | operators |
| `Xxh3Stream`, `XxhStream` | the states, resets, `update`, `digest`; their caller | `s` = the state; `ResetSmall`, `ResetDefault`, `ResetWithSeed`, `ResetWithSecret`, `ResetWithSecretandSeed`, `Update`, `UpdateWhole` |
| `XxhProduct` | the arithmetic of `XXH3_len_4to8_128b`, the hash of a device id | two devices compute it side by side: `Key`, `Multiply`, `Cross`, `Finish` |
| `MCNvramReaders`, `MCDownload`, `MCXxhProduct` | - | values for TLC |
| `NvramProofs` (with the refinement), `NvramReaderProofs`, `ProvisioningProofs`, `ProvTimerProofs`, `DownloadProofs` (with the identifiers and `Utils`), `XxhStreamProofs`, `XxhCoverageProofs`, `XxhProductProofs` | - | the theorems about these |

`Nvram` and `Provisioning` meet in `nvram_need_provisioning`: `Nvram` says when
a boot leaves `prov_done` set, and `Provisioning` takes both outcomes.

### Choices

- *A cell* is one field of a record, and the unit of interleaving in RAM.
  Address, netmask and gateway are one cell, host and port are one. Values are
  members of a small set; the strings of a token pair carry one tag, so that a
  mixed pair shows. The zero value also stands for a NULL argument.
- *NVS* is external. Assumed: one call at a time runs inside NVS, a blob is
  replaced as a whole, a successful commit survives power loss, an uncommitted
  value may (`WriteBack`), and every call can fail, `nvs_set_blob` also after
  the value is in. `nvs_set_blob` reads `nvdata` cell by cell while other tasks
  store into it. Opening read-only a namespace that nothing has ever written
  fails in NVS like the missing key does.
- *Boot* runs before any other task exists and is one step. It chooses whether
  NVS asks for an erase, whether it works at all, which reads fail, and which
  failed reads have filled the caller's buffer all the same. Default values,
  the order of the reads and the `||` chain are the code's. An erase that fails
  is a panic under `ESP_ERROR_CHECK`: `EraseFails` leaves the device without
  power, and without the records that the erase has got to.
- *A step of a task* ends where it reads or writes what another task can change.
  The case `EVT_RECV_IP` is two steps, the test of `prov_done` (`HandleRecvIp`)
  and the post (`StartProvisioning`): another task may declare the device
  provisioned in between, and other tasks may fill the queue.
- *A request is owed* (`owed`) from the step of `net_ip_event_handler` in which
  a device in need of provisioning gets its address, before the event is posted,
  until the worker takes `RUN_UPDATE_CONFIG`. So a drop at any send on the way
  counts, and so does an event loop without a handler.
- *A panic* resets the chip and the boot starts again
  (`CONFIG_ESP_SYSTEM_PANIC_PRINT_REBOOT`). Sending to a NULL queue panics
  because `xQueueSend` asserts on it; writing to a buffer that
  `heap_caps_malloc` could not provide panics because the address is invalid.
- *PSRAM* is counted in the buffers' sizes. Other users of PSRAM are not
  modelled, so `Psram` stands for what these buffers can have.
- *A getter's caller* looks at its buffers at once. `reader.disturbed` records
  that a setter of the same record was storing while the getter ran. The
  caller's buffers may be empty or not, because `nvram_get_mqtt_params` tests
  them.
- *The libraries of `Download`* are external. Each of their calls that has a
  result can fail, also with room in the heap; those that set a context up take
  a block of `Heap` and fail without one. A digest is the sequence of what it
  was fed. `ret` in `generate_hash` and `decrypt_data` has no value on success:
  the caller finds `ESP_OK` or something else. `esp_http_client_set_header` and
  `_perform` follow a null client and panic, whyever `esp_http_client_init` has
  failed.
- *The padding.* `mbedtls_cipher_setup` gives a CBC context PKCS7 padding, and
  nothing selects another. When it decrypts with padding, `mbedtls_cipher_update`
  keeps the last block for `mbedtls_cipher_finish`, which the code never calls.
  `Updated` is the number of bytes that do come out.
- *Words in xxhash.* `Xxh32`, `Xxh64`, `Xxh3` and their streams treat the
  arithmetic as opaque: a value is the term of how it came about, and every byte
  in it says where it was read, in the message, the secret, or `Stale` memory.
  Equal terms are equal hashes in every arithmetic. `XxhProduct` has the
  arithmetic itself, of the one length the firmware uses, with the widths, the
  secret and the primes as constants.
- *The build* of xxhash is the one the chip gets: scalar, little-endian, 32-bit,
  without the size option of `-Os`. `VariantsAgree` also compares the variants
  of `XXH32_finalize` and of the 17 to 128 byte hashes that other options select.
- *The history variables* (`owned`, `behind`, `loaded`, `touched`; `owed`,
  `done_at_boot`, `updates`; `age_*`, `alone`, `lost`; `disturbed`; `kept`, which counts what is lost by the kind of the context) are
  read by no guard.
- *Mutated forms*, marked as such, stand beside the definitions they change.
  No specification uses them. Each is a plausible bug under which a property
  named in `PROJECT.json` must fail, which shows that the property looks at the
  code.

## 3. What the runs check

| Run | Instance | Shows |
|---|---|---|
| `nvram_two_writers` | 2 symmetric tasks, the two setters of `misc` | `SettledMeansSaved`, `UntouchedCellsSurvive`, types, and that `Nvram` implements `ParamStore` |
| `nvram_one_writer` | 1 task, 2 token pairs and `prov_done`, 1 reader | `TokenPairWhole`, `BootAdoptsCompleteConfig`, `TokensMatch`, `EnabledHasHost`, `StaticHasAddress` |
| `nvram_records` | 1 task, the setters of net and folds | `SettledMeansSaved` |
| `nvram_mqtt` | 1 task, mqtt with and without credentials or disabled, beacon | `SettledMeansSaved`, `UntouchedCellsSurvive` |
| `provisioning_closed` | the repository's callers, every boot call may fail, fair scheduling | `RequestNotLost`, `ProvisionedStaysQuiet`, `ConfigEventuallyStarts`, types |
| `provisioning_open` | further callers of `event_send` and `prov.h` | `UptimeAfterBoot`, `OnlyCrowdedOut` |
| `provisioning_firmware` | as above | a disagreement, below |
| `timer_open` | 1 timer, slow worker, other senders | `OnTime`, `BothFit`, types |
| `timer_live` | up to 2 timers, a worker that keeps up | `FirmwareKeepsComing` |
| `xxh_streams` | every mode, messages cut at and around every boundary | `StreamEqualsOneShot`, `EveryByteCounts`, `StaysInBounds`, `VariantsAgree`, `GeneratedSecretWhole` |
| `downloads` | 2 symmetric tasks, heap for 3 contexts, 3 devices | `OkMeansDecrypted`, `OkMeansFetched`, `OnlyContextsLost`, `SerialFormsAgree`, `SerialsDiffer`, `SerialsSort`, `HexStringsReadBack` |
| `xxh_product` | all pairs of ids of six one-bit bytes, words of 8 bits | `NeverMeet`, `ProductExact` |

- `SettledMeansSaved`: when no setter of a record is running, the flash holds
  every field as `nvdata` has it, except fields whose saving was reported to a
  caller as failed and fields of a record that the boot has not read, until a
  call saves them. It holds without a lock because every call stores first and
  then persists the whole record: the last call to copy a record copies
  everybody's stores, and a call that copied too early is followed by its rival.
- `UntouchedCellsSurvive`: the flash value of a field changes only if a setter
  has stored into it since the boot, or if this boot had not read the record.
  The exception is real: when an earlier record of the `||` chain fails, `misc`
  is not read, and `nvram_set_prov_done` then saves a zero `tgs5141` over the
  stored one.
- `TokenPairWhole` is checked for one writer. With two, the code mixes pairs.
- `BootAdoptsCompleteConfig`: a boot ends provisioned only with net, token,
  mqtt and misc as they are in the flash.
- `RequestNotLost`: from the moment a device in need of provisioning gets an
  address, the request is in the event loop or in one of the two queues until
  the worker takes it. When a queue is full, what fills it is itself such a
  request: that is why dropping is harmless with the repository's callers, in
  all three sends, of `sys_evt`, of the event loop to itself and to the worker.
  One exception is named: a device whose handler could not be registered throws
  every event away (`event_handler_init` returns that result, `app_main` drops
  it), and the run goes there.
- `OnlyCrowdedOut`: with callers of `update_firmware`, of which there are none,
  or other posters of events, `RequestNotLost` is false. A request is then lost
  only at one of the three sends, where it meets a queue that is full of others'
  items.
- `ConfigEventuallyStarts`: a request that is owed reaches the worker, unless
  the device resets, is declared provisioned, could not register its handler or
  could not create its worker.
- `UptimeAfterBoot`: the device resets itself only in a call of `app_main` that
  fails, with a boot's config updates having leaked all PSRAM, or on a command
  queue that is not there, because the address was earlier than
  `provision_init` or because there was no memory for the queue. The last
  happens only with an address, and only to a device that booted in need.
- `OnTime`, with one timer: a periodic command is sent exactly its period after
  the last, also when that one was dropped. `BothFit`: no send of the handler
  fails if the queue was empty when it began and nobody else sent.
- `ImplementsParamStore`: outside the setters `nvram.c` looks like a store that
  changes the flash one record at a time and only where a call is at work, or
  has said that it failed, and that is declared provisioned by a boot only with
  all of its records.
- `TokensMatch`, `EnabledHasHost`, `StaticHasAddress`: what a getter gives out
  that no setter disturbs is of one call of the setter. Disturbed, it can mix
  two token pairs, or say that MQTT is off and give a host.
- `StreamEqualsOneShot`: after any resets and any pieces, the digest is the
  term that one call computes for the whole message. This covers the reused
  `customSecret`, the stripe kept from the bytes before, the scramble at the end
  of a block and the wrap of `total_len_32`.
- `OkMeansDecrypted`: `ESP_OK` of `decrypt_data` comes only with data of whole
  blocks, of which all but at most the last have been decrypted, with the keys
  of this device. The last block is never given out (see the padding above), so
  that data of one block comes out empty, with `ESP_OK`. Nor does the converse
  hold: `decrypt_data` may report a failure that was none.
- `OkMeansFetched`: an `ESP_OK` of `https_get` is worth an answer with any status but 404, not its body, and a
  length that the server does not name reads 2^32 - 1.
- `OnlyContextsLost`: no path through `generate_hash` loses its digest context
  or leaves it set up, and what the heap lacks for good are the cipher contexts
  and the clients of calls that have returned.
- `NeverMeet`: different ids have different values after every step of the
  hash, so that no two devices share a serial.

**Disagreement.** `event_handler.c:52` says of `EVT_PROVISIONING` "Start
Firmware Update and Config Download". The code calls `update_config()` only.
`provisioning_firmware` finds the step.

### Bounds

- Nvram: two tasks are enough for every pairwise interleaving of two calls, and
  a third call on the record comes from a task that calls again. Two data values
  tell two token pairs apart; elsewhere one value and the default suffice.
  `NumTypes` is 1 in the runs, arbitrary in the proofs. `Losses` bounds what an
  erase that fails has got to: in each run the one record that its setters are
  about (of the reader's, the token record, whose loss ends the `||` chain). All
  sets of records give the runs many times the states and no new kind of boot,
  because `Boot` already chooses which records cannot be read; the proofs have
  them all. Boots, crashes and calls are not bounded.
- Provisioning: `MaxLeases` bounds the addresses per boot. Its value 5 is more
  than `QUEUE_SIZE` (3 for 10) and `QUEUE_LEN` together hold on their way, so
  that both queues overflow. `Psram` has room for three updates. Boots are not
  bounded.
- Timer: the periods are 2 and 6 minutes for 60 and 360, in such a ratio that
  they coincide again. `MaxTimers` bounds the timers.
- Readers: one reader, which reads the three records by turns and as often as it
  likes. Only the token record changes under it in the run, the other two are as
  a boot left them; with a setter of mqtt or of net instead, the same properties
  hold, at 0.8 and 1.0 million states.
- Streams: `MaxTotal` is two blocks of XXH3 and more, `Sizes` has pieces below,
  at and above a stripe and the buffer and one longer than a block; `SmallTotal`
  is past the wrap of the scaled `TotalLenMod`. `MaxUpdates` bounds the pieces of
  a message; resets are not bounded.
- Downloads: three blocks for two tasks, so that the heap runs out while a task
  holds one. `BlockSize` is 2 for 16, and `DataLengths` has one length of whole
  blocks and one that is none. `SizeMod` is 16 for 2^32; three addresses that differ at both ends
  and in the sign bit.
- Product: every number of bits is an eighth of the code's, so that all 4096
  pairs of ids can be tried; the proofs have any width.

### Fairness

`FairSpec` of `Provisioning` has weak fairness of `app_main`, of the event loop
and of the worker: FreeRTOS runs every ready task in the end, because tasks
above them block and main and the worker share their priority by time slices.
Nothing is assumed about addresses or about power. `FairSpec` of `ProvTimer`
adds that time passes; `Prompt` says that the worker is done within a minute,
which holds for a worker whose longest command formats one string.

## 4. What is proved

The proofs hold for every number of tasks, values, fold types, queue lengths,
buffer sizes, periods, addresses, messages, seeds and secrets that the
constants' assumptions allow. Every invariant that a run checks has its theorem,
and so have the action property and the refinement.

- `NvramProofs`. The invariant `IInv` adds to `TypeOK` what each program
  location has established and, for every cell, who still has to save it: a cell
  whose flash value differs from `ram` is either reported as failed, or some
  task is going to copy it (`ToCopy`) or has copied it and is going to commit it
  (`ToCommit`). `SettledMeansSaved` is not inductive, since it says nothing
  while a setter runs. From `Invariance` follow `TypeCorrect`, `NoLostUpdate`
  and, as action properties, `FieldsKept`; `BootComplete` needs only the types.
- `NvramProofs!PairWhole` (assumes one setting task) adds `RecordInv`, that the
  fields of a record fit together (`RecordOk`: two tokens of one call, a host
  where MQTT is on, one call's address and server where the address is static)
  in `ram`, `nvs` and `flash`. Between the stores of a setter they do not fit in
  `ram`, but will when the stores still to come are made (`PendingOk`, for which
  a call stores into a cell once, `OneStoreEach`), and no copy is under way then.
- `NvramProofs!Refinement` says `Spec => ImplementsParamStore`. A step of
  `Nvram` maps to one of `ParamStore` or to a stutter: `Call` to `Begin`, a store
  to `Set`, `EraseFails` to `Lose`, `Commit` and `WriteBack` to `Save`, the return of the last setter to
  `End`, `Boot` and `Crash` to `PowerOn` and `PowerOff`. It needs `IInv` for
  `End`, where the cells that become clean must be in the flash, and `OffQuiet`,
  that a device without power has no setter running.
- `NvramReaderProofs` (assumes one setting task): `TokensTogether`,
  `EnabledComesWithHost`, `StaticComesWithAddress`. `ReaderInv` says of a reader
  that no store into its record has disturbed that what it has copied is what
  `ram` holds, that the rest is still on its list, and that the flag it tested
  holds in `ram`. `QuietRecord` is why: a store into a record comes from a task
  whose call is a setter of that record, which disturbs. With `RecordInv` what
  `ram` holds fits together, also after boots that read only part of it.
- `ProvisioningProofs`. `TypeOK` is inductive. `Uptime` adds `BootOrder`, what
  exists at each point of the boot, and `Allocated`: `psram` is `updates` times
  the bytes of one update, and `LoopQuiet`: a device that booted provisioned, or
  has no address yet, has no request in its event loop, so that a missing queue
  cannot hurt it. `RequestKept` assumes that `update_config` is the only
  outside caller; it adds `OnlyRequests`, that whatever stands in a queue is
  itself a request, so that a full queue holds one. `LossesNamed` is for any
  callers, and goes from action to action: all but the send of `sys_evt` and
  the two of the event loop keep what was on its way, and each of these queues
  the request unless its queue is full (`NoRoom`). `QuietWhenProvisioned`
  assumes that `update_config` is no outside caller; its invariant `Quiet`
  excludes `EVT_PROVISIONING` from the loop and its queue.
- `ProvTimerProofs`. `TypeCorrect` for any number of timers; `PeriodsKept`
  (assumes at most one timer) needs that the minutes since the last command are
  the counter plus the expiry not yet handled; `TwoSlotsSuffice` (assumes
  `QUEUE_LEN >= 2`) needs that, while the handler has the queue to itself, it is
  empty before the first send and holds at most one command before the second.
- `DownloadProofs`, tasks. `CallOk` says what the variables of a call hold at
  each of its library calls: the digest what it was fed, `iv` and `key` the
  digests they are. `ids` changes only while no call runs. From it follow
  `Decrypted` and `Fetched`. `HeapAccounted` (for finitely many tasks): a call
  holds a context of a kind exactly from its set-up to where it is freed or the
  call returns (`HeldAt`), which for a digest is always the former, so that the
  blocks held are counted by the cardinality of `Holders`, to which a step adds
  a task, or from which it takes one.
- `DownloadProofs`, identifiers. `OneSerial`: reversing a word and taking it from
  memory are each other's inverse, so that both byte orders give the canonical
  form. `SerialsInOrder`: two words differ first at some byte (`Least`, by
  well-founded induction on the numbers), and their digits differ first there,
  in the same direction. `OwnSerial` needs of `Hash` that it tells addresses
  apart, an assumption of `DeviceIds` that `DifferentSerials` shows of the
  arithmetic. `HexReadable` and its lemma `HexAlways`: the digits of a byte
  determine it, and what is written stays within the room given.
- `XxhStreamProofs!StreamIsWhole`, for messages of any length, cut anywhere. The
  invariant `StreamInv`: the accumulators are the first steps of one fixed
  program (`Round32`, `Round64`, and `Program` for XXH3, where every step knows
  its block and its place in it), as many as whole stripes have been consumed,
  and the buffer holds the rest of the message from there (`Holds`). For XXH3,
  fewer than 64 buffered bytes have the stripe before them at the end of the
  buffer (`Kept`), and a cached secret is that of the seed in the state
  (`Cached`). A digest then continues the program to its end, where the hash in
  one call arrives as well (`HashLong`, `DigestLong`); short messages are hashed
  from the buffer, which reads like the message (`Alike`). A stream of XXH32
  keeps its length modulo `TotalLenMod`, and `large_len` the one bit of the rest
  that matters.
- `XxhCoverageProofs`. `Covers(f, B)` says that the steps `f` read the bytes `B`,
  all of them and no others, and keep their windows within the secret. It is
  shown of each length's function from how its reads overlap, of the long ones
  from `Program` (`Before`: which steps come before the n-th stripe), and so of
  every digest by `StreamInv`: `AllBytesCount`, `AlwaysInBounds`. The invariant
  adds that a reset with a secret succeeds only if there is one.
  `OneHashPerVariant` unrolls the loops of the middle lengths one run at a time
  (`ChainLonger`), and finds each tail in one case of the switch (`ChainsAt`).
  `GeneratedSecrets` looks at one byte of the secret at a time.
- `XxhProductProofs`. Every step of the hash is injective, whatever the width:
  the four bytes of a word are its digits in base 256 and have one
  representation (`ReadLE32Injective`), and the two overlapping words cover all
  six bytes (`KeyedFacts`); xor with the secret cancels; the four partial
  products and their sums fit their words, so that the product is the exact one
  (`MultExact`), and a product by a number greater than 0 determines its factor;
  adding twice the low half, and xor of a word with a shift of another, can be
  undone in turn (`CrossedFacts`); an odd factor has an inverse
  (`ModMulInjective`), and of a word xored with its own shift the bits come back
  from above, in three rounds (`XorshiftInjective`).

The assumptions on the constants are those of the code: the tasks are finitely
many, the lengths of the pieces are natural numbers, `TotalLenMod` is at least
two stripes, a secret of the caller has at least `XXH3_SECRET_SIZE_MIN` bytes
(the resets refuse a shorter one). Those of `XxhProduct` are what its proofs
take from the constants: how `^` and `>>` go together, the odd primes, the
widths of the shifts.

Only model-checked: the two liveness properties, `ConfigEventuallyStarts` and
`FirmwareKeepsComing`, which with ENABLED and fairness are out of the prover's
reach. The proofs about the streams are of the terms, as the models are: that
equal steps make equal hashes is what the terms mean, and that different
messages have different hashes is proved of the length that the firmware uses,
and no property of the others.

## 5. Not modelled

- `net_iface_event_handler` only logs; `net_iface_set_static_ip` is not called.
- The getters of `nvram.c` that return one field or a pointer: they are one read.
  What `nvram_get_fold_param` finds for a negative id depends on the layout of
  `nvdata`.
- xxhash: the SIMD variants and the branches for other compilers, which the
  build does not select; `XXH_alignedMalloc` and its kin; the arithmetic of the
  hashes other than that of a device id. How well a hash mixes is no property of
  a state machine.
- mbedtls and esp_http_client, but for which of their calls can fail and what
  they allocate; TLS; the body of an answer, which `http_resp_cb` drops.
- Certificates, Kconfig and sdkconfig have no behaviour.
- The contents of strings, and their lengths: `strcpy` into the fixed fields,
  and the token in the 256 bytes of `https_get`.
- The composition of `Nvram` with `Provisioning` in one state space: they share
  one flag, of which each takes all values that the other can give it.
