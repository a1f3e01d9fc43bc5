------------------------------ MODULE Download ------------------------------
(***************************************************************************)
(* Two helpers of the updates, with the identifiers they work with:        *)
(* https_get (main/http_client.c) and decrypt_data with its generate_hash  *)
(* (main/prov.c).  Nothing in the repository calls them yet; any task may. *)
(*                                                                         *)
(* A call of mbedtls or esp_http_client is one step, and the steps of the  *)
(* tasks interleave.  The libraries are external: each of their calls that *)
(* has a result can fail, the ones that set a context up take a block of   *)
(* the heap for it and fail when there is none.                            *)
(***************************************************************************)
EXTENDS DeviceIds, FiniteSets

CONSTANTS
    Tasks,
    Heap,       \* blocks that contexts can take
    BlockSize,  \* bytes of a block of the cipher
    DataLengths,  \* bytes of the data that is to be decrypted
    Statuses,   \* status codes of the server's answers
    Lengths,    \* their content lengths, -1 if the server names none
    SizeMod     \* 2^32: recv_size is a uint32_t

ASSUME DownloadAssumption ==
    /\ Heap \in Nat
    /\ BlockSize \in Nat \ {0}
    /\ DataLengths \subseteq Nat
    /\ SizeMod \in Nat \ {0}
    /\ Statuses \subseteq Nat
    /\ Lengths \subseteq Int
    /\ IsFiniteSet(Tasks)

VARIABLES
    device,     \* the device all this runs on
    up,         \* it has booted
    ids,        \* nvdata.ids
    free,       \* blocks left in the heap
    call,       \* per task: the call it makes, and its variables
    kept        \* history: of each kind, the contexts nobody can free any more

vars == <<device, up, ids, free, call, kept>>

\* The calls of mbedtls and esp_http_client that the functions make, and the
\* one that comes after each.
HashCalls == {"md_info", "md_setup", "starts_iv", "update_iv", "finish_iv",
              "starts_key", "update_key", "finish_key"}
CipherCalls == {"cipher_info", "cipher_setup", "setkey", "set_iv", "reset", "block_size",
                "cipher_update"}
HttpCalls == {"client_init", "set_header", "perform"}
After ==
    [md_info |-> "md_setup", md_setup |-> "starts_iv", starts_iv |-> "update_iv",
     update_iv |-> "finish_iv", finish_iv |-> "starts_key", starts_key |-> "update_key",
     update_key |-> "finish_key", finish_key |-> "cipher_info",
     cipher_info |-> "cipher_setup", cipher_setup |-> "setkey", setkey |-> "set_iv",
     set_iv |-> "reset", reset |-> "block_size", block_size |-> "cipher_update",
     client_init |-> "set_header", set_header |-> "perform"]

\* The kinds of contexts, by the calls that set them up.
ContextOf == [md_setup |-> "md", cipher_setup |-> "cipher", client_init |-> "client"]
Context == {"md", "cipher", "client"}
NoneKept == [k \in Context |-> 0]

SHA256(data) == <<"SHA256", data>>
Nothing == <<"zero", <<>>>>
NoAnswer == [status |-> -1, length |-> 0]

\* fed: what the digest has been given; held: the context that is set up;
\* plain: the iv and the key that dec_data_len bytes were decrypted with;
\* answer: what the server said; recv_size: the caller's variable.
Idle == [fn |-> "none", pc |-> "idle", fed |-> <<>>, iv |-> Nothing, key |-> Nothing,
         held |-> "none", result |-> "none", enc_data_len |-> 0, plain |-> <<>>,
         dec_data_len |-> 0, answer |-> NoAnswer, recv_size |-> 0]

Init ==
    /\ device \in Devices
    /\ up = FALSE
    /\ ids = NoIds
    /\ free = Heap
    /\ call = [t \in Tasks |-> Idle]
    /\ kept = NoneKept

\* nvram_init, which ignores the result of nvram_read_ids.
Boot ==
    /\ ~up
    /\ up' = TRUE
    /\ ids' \in nvram_read_ids(device)
    /\ UNCHANGED <<device, free, call, kept>>

Reset ==
    /\ up' = FALSE
    /\ ids' = NoIds
    /\ free' = Heap
    /\ call' = [t \in Tasks |-> Idle]
    /\ kept' = NoneKept
    /\ UNCHANGED device

PowerCycle == up /\ Reset

At(t, pc) == up /\ call[t].pc = pc

\* A function is called, with its variables in c.
Begin(t, c) ==
    /\ At(t, "idle")
    /\ call' = [call EXCEPT ![t] = [c EXCEPT !.recv_size = call[t].recv_size]]
    /\ UNCHANGED <<device, up, ids, free, kept>>

\* The next call, with the variables in c.
Continue(t, c) ==
    /\ call' = [call EXCEPT ![t] = [c EXCEPT !.pc = After[call[t].pc]]]
    /\ UNCHANGED <<device, up, ids, kept>>

\* A context is set up, if there is a block for it.
SetUp(t, pc) ==
    /\ At(t, pc)
    /\ free > 0
    /\ free' = free - 1
    /\ Continue(t, [call[t] EXCEPT !.held = ContextOf[pc]])

\* The heap once the context of task t, if it has one, is freed.
FreeAfter(t) == IF call[t].held = "none" THEN free ELSE free + 1

\* The function returns with the variables in c; a context that is still set
\* up is lost.
Return(t, c, result) ==
    /\ call' = [call EXCEPT ![t] = [c EXCEPT !.pc = "idle", !.held = "none", !.result = result,
                                             !.fed = <<>>]]
    /\ kept' = [k \in Context |-> IF c.held = k THEN kept[k] + 1 ELSE kept[k]]
    /\ UNCHANGED <<device, up, ids>>
-----------------------------------------------------------------------------
(***************************************************************************)
(* decrypt_data, and in it generate_hash.                                  *)
(***************************************************************************)
decrypt_data(t) ==
    \E n \in DataLengths :
      Begin(t, [Idle EXCEPT !.fn = "decrypt_data", !.pc = "md_info", !.enc_data_len = n])

\* What the call at pc does to its variables.  starts begins
\* a new digest; update gives it the device id, and later the serial.
Hashed(c) ==
    CASE c.pc \in {"starts_iv", "starts_key"} -> [c EXCEPT !.fed = <<>>]
      [] c.pc = "update_iv" -> [c EXCEPT !.fed = Append(@, ids.device_id)]
      [] c.pc = "update_key" -> [c EXCEPT !.fed = Append(@, ids.serial)]
      [] c.pc = "finish_iv" -> [c EXCEPT !.iv = SHA256(c.fed)]
      [] c.pc = "finish_key" -> [c EXCEPT !.key = SHA256(c.fed)]
      [] OTHER -> c

HashStep(t) ==
    /\ \/ SetUp(t, "md_setup")
       \/ /\ \E pc \in HashCalls \ {"md_setup", "finish_key"} : At(t, pc)
          /\ Continue(t, Hashed(call[t]))
          /\ UNCHANGED free

\* Mutated form: the error paths return at once.
HashFailsKeeping(t) ==
    /\ \E pc \in HashCalls : At(t, pc)
    /\ Return(t, call[t], "ESP_FAIL")
    /\ UNCHANGED free

\* Any call fails: generate_hash frees its context and returns ESP_FAIL, and
\* so does decrypt_data.
HashFails(t) ==
    /\ \E pc \in HashCalls : At(t, pc)
    /\ free' = FreeAfter(t)
    /\ Return(t, [call[t] EXCEPT !.held = "none"], "ESP_FAIL")

\* The last call succeeds.  ret has no value: decrypt_data finds ESP_OK in it
\* or something else.
HashReturns(t) ==
    LET c == [Hashed(call[t]) EXCEPT !.held = "none"]
    IN /\ At(t, "finish_key")
       /\ free' = FreeAfter(t)
       /\ \/ Continue(t, c)
          \/ Return(t, c, "ESP_FAIL")

WholeBlocks(t) == call[t].enc_data_len % BlockSize = 0

\* The length has to be a multiple of the block size.
CipherStep(t) ==
    \/ SetUp(t, "cipher_setup")
    \/ /\ \E pc \in CipherCalls \ {"cipher_setup", "cipher_update"} : At(t, pc)
       /\ At(t, "block_size") => WholeBlocks(t)
       /\ Continue(t, call[t])
       /\ UNCHANGED free

\* Mutated form: the result is not set on the last of the error paths.
CipherFailsUnset(t) ==
    /\ \E pc \in CipherCalls : At(t, pc)
    /\ At(t, "block_size") => ~WholeBlocks(t)
    /\ \E ret \in {"ESP_OK", "ESP_FAIL"} :
         Return(t, call[t], IF At(t, "cipher_update") THEN ret ELSE "ESP_FAIL")
    /\ UNCHANGED free

\* A call fails, or the length is wrong: asking for the block size cannot fail.
CipherFails(t) ==
    /\ \E pc \in CipherCalls : At(t, pc)
    /\ At(t, "block_size") => ~WholeBlocks(t)
    /\ Return(t, call[t], "ESP_FAIL")
    /\ UNCHANGED free

\* What mbedtls_cipher_update gives out: with the padding a new CBC context
\* has it keeps the last block for mbedtls_cipher_finish to look at.
Updated(n) == IF n = 0 THEN 0 ELSE n - BlockSize

\* mbedtls_cipher_update succeeds, and nobody calls mbedtls_cipher_finish.
\* Again ret has no value.
CipherReturns(t) ==
    /\ At(t, "cipher_update")
    /\ \E ret \in {"ESP_OK", "ESP_FAIL"} :
         Return(t, [call[t] EXCEPT !.plain = <<call[t].iv, call[t].key>>,
                                   !.dec_data_len = Updated(call[t].enc_data_len)], ret)
    /\ UNCHANGED free
-----------------------------------------------------------------------------
(***************************************************************************)
(* https_get.                                                              *)
(***************************************************************************)
\* A call without host or buffer, or with a path, fails at once.
https_get_rejects(t) ==
    /\ At(t, "idle")
    /\ Return(t, [Idle EXCEPT !.fn = "https_get", !.recv_size = call[t].recv_size], "ESP_FAIL")
    /\ UNCHANGED free

https_get(t) == Begin(t, [Idle EXCEPT !.fn = "https_get", !.pc = "client_init"])

\* The header is set if there is a token; no result is looked at.
HttpStep(t) ==
    \/ SetUp(t, "client_init")
    \/ /\ At(t, "set_header")
       /\ Continue(t, call[t])
       /\ UNCHANGED free

\* esp_http_client_init fails: the next call follows its null pointer.
NoClient(t) ==
    /\ At(t, "client_init")
    /\ Reset

\* Mutated form: the test for 404 comes after the result is passed on.
PerformsAnyStatus(t) ==
    /\ At(t, "perform")
    /\ \E status \in Statuses, length \in Lengths :
         Return(t, [call[t] EXCEPT !.answer = [status |-> status, length |-> length],
                                   !.recv_size = length % SizeMod], "ESP_OK")
    /\ UNCHANGED free

Performs(t) ==
    /\ At(t, "perform")
    /\ \E status \in Statuses, length \in Lengths :
         Return(t, [call[t] EXCEPT !.answer = [status |-> status, length |-> length],
                                   !.recv_size = length % SizeMod],
                IF status = 404 THEN "ESP_FAIL" ELSE "ESP_OK")
    /\ UNCHANGED free

\* recv_size keeps what it held.
PerformFails(t) ==
    /\ At(t, "perform")
    /\ Return(t, call[t], "ESP_ERR_HTTP_CONNECT")
    /\ UNCHANGED free
-----------------------------------------------------------------------------
Task(t) ==
    \/ decrypt_data(t)
    \/ HashStep(t)
    \/ HashFails(t)
    \/ HashReturns(t)
    \/ CipherStep(t)
    \/ CipherFails(t)
    \/ CipherReturns(t)
    \/ https_get_rejects(t)
    \/ https_get(t)
    \/ HttpStep(t)
    \/ NoClient(t)
    \/ Performs(t)
    \/ PerformFails(t)

Next == Boot \/ PowerCycle \/ \E t \in Tasks : Task(t)

Spec == Init /\ [][Next]_vars
-----------------------------------------------------------------------------
Returned(t, fn, result) == At(t, "idle") /\ call[t].fn = fn /\ call[t].result = result

\* The boot has read both addresses.
Identified == ids = AllIds(device)

(***************************************************************************)
(* The two forms of the identifiers agree, with each other and with the    *)
(* canonical form of the hash, so that the serial a person reads is the    *)
(* one that keys are derived from.                                         *)
(***************************************************************************)
SerialFormsAgree == up /\ Identified => FormsAgree(ids, device)

(***************************************************************************)
(* A device that has read its addresses has no serial of another device,   *)
(* neither as bytes nor as a string.                                       *)
(***************************************************************************)
SerialsDiffer ==
    up /\ Identified => \A d \in Devices \ {device} :
        /\ ids.serial # AllIds(d).serial
        /\ ids.serial_str # AllIds(d).serial_str

(***************************************************************************)
(* In both forms of its serial a device sorts among the others as its hash *)
(* does in XXH128_cmp.                                                     *)
(***************************************************************************)
SerialsSort == up /\ Identified => \A d \in Devices : OrderAgrees(device, d)

(***************************************************************************)
(* decrypt_data says ESP_OK only to data of whole blocks, and only when at *)
(* most the last of them (which mbedtls_cipher_finish, never called, would *)
(* give out) has not been decrypted, with the digests of this device's id  *)
(* and serial, whatever failed in this call or another task did meanwhile, *)
(* although ret is never set to ESP_OK.                                    *)
(***************************************************************************)
OkMeansDecrypted ==
    \A t \in Tasks : Returned(t, "decrypt_data", "ESP_OK") =>
        /\ WholeBlocks(t)
        /\ call[t].enc_data_len - call[t].dec_data_len \in {0, BlockSize}
        /\ call[t].plain = <<SHA256(<<ids.device_id>>), SHA256(<<ids.serial>>)>>

(***************************************************************************)
(* https_get says ESP_OK only when the server has answered this call, not  *)
(* with 404, and recv_size is the length of that answer.  (Any other       *)
(* status passes, and a length that the server does not name is 2^32 - 1.) *)
(***************************************************************************)
OkMeansFetched ==
    \A t \in Tasks : Returned(t, "https_get", "ESP_OK") =>
        /\ call[t].answer # NoAnswer
        /\ call[t].answer.status # 404
        /\ call[t].recv_size = call[t].answer.length % SizeMod

(***************************************************************************)
(* Of all the memory the calls take, only the cipher contexts and the HTTP *)
(* clients of calls that have returned are lost.  No digest context is:    *)
(* generate_hash gives its own back on every path, before decrypt_data     *)
(* goes on or returns.                                                     *)
(***************************************************************************)
OnlyContextsLost ==
    /\ kept["md"] = 0
    /\ \A t \in Tasks : call[t].held = "md" => call[t].pc \in HashCalls
    /\ free + kept["cipher"] + kept["client"]
         + Cardinality({t \in Tasks : call[t].held # "none"}) = Heap
=============================================================================
