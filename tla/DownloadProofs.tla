--------------------------- MODULE DownloadProofs ---------------------------
(***************************************************************************)
(* What the callers of decrypt_data and https_get can rely on, for any     *)
(* number of tasks, any heap and any answers; and the identifiers that     *)
(* they work with.                                                         *)
(***************************************************************************)
EXTENDS MCDownload, FiniteSetTheorems, SequenceTheorems, WellFoundedInduction, TLAPS

Iv == SHA256(<<ids.device_id>>)
Key == SHA256(<<ids.serial>>)

KeyCalls == {"starts_key", "update_key", "finish_key"}

\* What an ESP_OK of decrypt_data and of https_get says.
DecryptOk(c) ==
    /\ c.fn = "decrypt_data"
    /\ c.enc_data_len % BlockSize = 0
    /\ c.enc_data_len - c.dec_data_len \in {0, BlockSize}
    /\ c.plain = <<Iv, Key>>
FetchOk(c) ==
    /\ c.fn = "https_get"
    /\ c.answer # NoAnswer
    /\ c.answer.status # 404
    /\ c.recv_size = c.answer.length % SizeMod

\* What the variables of a call hold at each of its library calls.
CallOk(c) ==
    /\ c.pc \in {"idle"} \cup HashCalls \cup CipherCalls \cup HttpCalls
    /\ DOMAIN c = DOMAIN Idle
    /\ c.pc \in HashCalls \cup CipherCalls => c.fn = "decrypt_data"
    /\ c.pc \in HttpCalls => c.fn = "https_get"
    /\ c.pc \in {"update_iv", "update_key"} => c.fed = <<>>
    /\ c.pc = "finish_iv" => c.fed = <<ids.device_id>>
    /\ c.pc = "finish_key" => c.fed = <<ids.serial>>
    /\ c.pc \in KeyCalls \cup CipherCalls => c.iv = Iv
    /\ c.pc \in CipherCalls => c.key = Key
    /\ c.enc_data_len \in Nat
    /\ c.pc = "cipher_update" => c.enc_data_len % BlockSize = 0
    /\ c.pc = "idle" /\ c.result = "ESP_OK" => DecryptOk(c) \/ FetchOk(c)

\* The inductive invariant.
IInv ==
    /\ call = [t \in Tasks |-> call[t]]
    /\ \A t \in Tasks : CallOk(call[t])
    /\ ~up => call = [t \in Tasks |-> Idle]

-----------------------------------------------------------------------------
PCs == {"idle"} \cup HashCalls \cup CipherCalls \cup HttpCalls

LEMMA IdleOk == CallOk(Idle)
  BY DEF CallOk, Idle, HashCalls, CipherCalls, HttpCalls, KeyCalls

\* A step of one task has to keep that task's call in order.
LEMMA OneCall ==
    ASSUME IInv, up, up' = up, ids' = ids, NEW t \in Tasks, NEW d, CallOk(d),
           call' = [call EXCEPT ![t] = d]
    PROVE  IInv'
<1>1. call' = [u \in Tasks |-> call'[u]]
  BY DEF IInv
<1>2. ASSUME NEW u \in Tasks PROVE CallOk(call[u])'
  <2>1. call'[u] = IF u = t THEN d ELSE call[u]
    BY DEF IInv
  <2>2. CallOk(call'[u])
    BY <2>1 DEF IInv
  <2> QED
    BY <2>2 DEF CallOk, DecryptOk, FetchOk, Iv, Key
<1> QED
  BY <1>1, <1>2 DEF IInv

LEMMA InitOk == Init => IInv
  BY IdleOk DEF Init, IInv

LEMMA BootOk == IInv /\ Boot => IInv'
<1> SUFFICES ASSUME IInv, Boot PROVE IInv'
  OBVIOUS
<1>1. call' = [t \in Tasks |-> Idle] /\ up'
  BY DEF IInv, Boot
<1>2. CallOk(Idle)'
  BY DEF CallOk, Idle, HashCalls, CipherCalls, HttpCalls, KeyCalls
<1> QED
  BY <1>1, <1>2 DEF IInv, CallOk

LEMMA ResetOk == Reset => IInv'
<1> SUFFICES ASSUME Reset PROVE IInv'
  OBVIOUS
<1>1. call' = [t \in Tasks |-> Idle]
  BY DEF Reset
<1>2. CallOk(Idle)'
  BY DEF CallOk, Idle, HashCalls, CipherCalls, HttpCalls, KeyCalls
<1> QED
  BY <1>1, <1>2 DEF IInv, CallOk

LEMMA BeginOk ==
    ASSUME IInv, NEW t \in Tasks, NEW c, Begin(t, c),
           CallOk([c EXCEPT !.recv_size = call[t].recv_size])
    PROVE  IInv'
  BY OneCall DEF Begin, At

LEMMA decrypt_dataOk ==
    ASSUME IInv, NEW t \in Tasks, decrypt_data(t)
    PROVE  IInv'
<1>1. PICK n \in DataLengths :
        Begin(t, [Idle EXCEPT !.fn = "decrypt_data", !.pc = "md_info", !.enc_data_len = n])
  BY DEF decrypt_data
<1> DEFINE c == [Idle EXCEPT !.fn = "decrypt_data", !.pc = "md_info", !.enc_data_len = n]
<1>2. n \in Nat
  BY DownloadAssumption
<1>3. CallOk([c EXCEPT !.recv_size = call[t].recv_size])
  BY <1>2 DEF CallOk, Idle, HashCalls, CipherCalls, HttpCalls, KeyCalls
<1> QED
  BY <1>1, <1>3, BeginOk

LEMMA https_getOk ==
    ASSUME IInv, NEW t \in Tasks, https_get(t)
    PROVE  IInv'
<1> DEFINE c == [Idle EXCEPT !.fn = "https_get", !.pc = "client_init"]
<1>1. CallOk([c EXCEPT !.recv_size = call[t].recv_size])
  BY DEF CallOk, Idle, HashCalls, CipherCalls, HttpCalls, KeyCalls
<1> QED
  BY <1>1, BeginOk DEF https_get

\* The call at pc is followed by the next one, with the variables in c.
LEMMA ContinueOk ==
    ASSUME IInv, NEW t \in Tasks, NEW c, up, Continue(t, c),
           CallOk([c EXCEPT !.pc = After[call[t].pc]])
    PROVE  IInv'
  BY OneCall DEF Continue

\* A function returns.  What it says ESP_OK to has been done.
LEMMA ReturnOk ==
    ASSUME IInv, NEW t \in Tasks, NEW c, NEW result, up, Return(t, c, result),
           DOMAIN c = DOMAIN Idle, c.enc_data_len \in Nat,
           result = "ESP_OK" => DecryptOk(c) \/ FetchOk(c)
    PROVE  IInv'
<1> DEFINE d == [c EXCEPT !.pc = "idle", !.held = "none", !.result = result, !.fed = <<>>]
<1>1. /\ DOMAIN d = DOMAIN Idle
      /\ d.pc = "idle" /\ d.result = result
      /\ d.fn = c.fn /\ d.plain = c.plain /\ d.answer = c.answer
      /\ d.recv_size = c.recv_size
      /\ d.enc_data_len = c.enc_data_len /\ d.dec_data_len = c.dec_data_len
  BY DEF Idle
<1>2. CallOk(d)
  <2> HIDE DEF d
  <2>1. d.result = "ESP_OK" => DecryptOk(d) \/ FetchOk(d)
    BY <1>1 DEF DecryptOk, FetchOk
  <2> QED
    BY <1>1, <2>1 DEF CallOk, HashCalls, CipherCalls, HttpCalls, KeyCalls
<1> QED
  BY <1>2, OneCall DEF Return

-----------------------------------------------------------------------------
\* A library call of decrypt_data that only goes on to the next one.
LEMMA HashStepOk ==
    ASSUME IInv, NEW t \in Tasks, HashStep(t)
    PROVE  IInv'
<1> DEFINE c == call[t]
           h == IF c.pc = "md_setup" THEN [c EXCEPT !.held = "md"] ELSE Hashed(c)
           d == [h EXCEPT !.pc = After[c.pc]]
<1>1. up /\ c.pc \in HashCalls \ {"finish_key"} /\ Continue(t, h)
  BY DEF HashStep, SetUp, At, HashCalls, ContextOf
<1>2. CallOk(c)
  BY DEF IInv
<1>3. c.pc \in {"md_info", "md_setup", "starts_iv", "update_iv", "finish_iv",
                "starts_key", "update_key"}
  BY <1>1 DEF HashCalls
<1>4. CallOk(d)
  <2>1. CASE c.pc \in {"md_info", "md_setup"}
    BY <1>2, <2>1 DEF CallOk, Hashed, After, Idle, HashCalls, CipherCalls, HttpCalls, KeyCalls
  <2>2. CASE c.pc \in {"starts_iv", "starts_key"}
    BY <1>2, <2>2 DEF CallOk, Hashed, After, Idle, HashCalls, CipherCalls, HttpCalls, KeyCalls
  <2>3. CASE c.pc \in {"update_iv", "update_key"}
    <3>1. c.fed = <<>>
      BY <1>2, <2>3 DEF CallOk
    <3>2. /\ Append(<<>>, ids.device_id) = <<ids.device_id>>
          /\ Append(<<>>, ids.serial) = <<ids.serial>>
      OBVIOUS
    <3> QED
      BY <1>2, <2>3, <3>1, <3>2
      DEF CallOk, Hashed, After, Idle, HashCalls, CipherCalls, HttpCalls, KeyCalls
  <2>4. CASE c.pc = "finish_iv"
    BY <1>2, <2>4
    DEF CallOk, Hashed, After, Idle, HashCalls, CipherCalls, HttpCalls, KeyCalls, Iv
  <2> QED
    BY <1>3, <2>1, <2>2, <2>3, <2>4
<1> QED
  BY <1>1, <1>4, ContinueOk

LEMMA HashFailsOk ==
    ASSUME IInv, NEW t \in Tasks, HashFails(t)
    PROVE  IInv'
<1> DEFINE h == [call[t] EXCEPT !.held = "none"]
<1>1. DOMAIN h = DOMAIN Idle /\ h.enc_data_len \in Nat
  BY DEF IInv, CallOk, Idle
<1>2. up /\ Return(t, h, "ESP_FAIL")
  BY DEF HashFails, At
<1> HIDE DEF h
<1> QED
  BY <1>1, <1>2, ReturnOk

LEMMA HashReturnsOk ==
    ASSUME IInv, NEW t \in Tasks, HashReturns(t)
    PROVE  IInv'
<1> DEFINE c == call[t]
           h == [Hashed(c) EXCEPT !.held = "none"]
           d == [h EXCEPT !.pc = After[c.pc]]
<1>1. up /\ c.pc = "finish_key" /\ (Continue(t, h) \/ Return(t, h, "ESP_FAIL"))
  BY DEF HashReturns, At
<1>2. CallOk(c)
  BY DEF IInv
<1>3. CallOk(d) /\ DOMAIN h = DOMAIN Idle /\ h.enc_data_len \in Nat
  BY <1>1, <1>2
  DEF CallOk, Hashed, After, Idle, HashCalls, CipherCalls, HttpCalls, KeyCalls, Key
<1>4. CASE Continue(t, h)
  BY <1>1, <1>3, <1>4, ContinueOk
<1>5. CASE Return(t, h, "ESP_FAIL")
  <2> HIDE DEF h
  <2> QED
    BY <1>1, <1>3, <1>5, ReturnOk
<1> QED
  BY <1>1, <1>4, <1>5

LEMMA CipherStepOk ==
    ASSUME IInv, NEW t \in Tasks, CipherStep(t)
    PROVE  IInv'
<1> DEFINE c == call[t]
           h == IF c.pc = "cipher_setup" THEN [c EXCEPT !.held = "cipher"] ELSE c
           d == [h EXCEPT !.pc = After[c.pc]]
<1>1. /\ up /\ c.pc \in CipherCalls \ {"cipher_update"} /\ Continue(t, h)
      /\ c.pc = "block_size" => c.enc_data_len % BlockSize = 0
  BY DEF CipherStep, SetUp, At, CipherCalls, ContextOf, WholeBlocks
<1>2. CallOk(c)
  BY DEF IInv
<1>3. CallOk(d)
  BY <1>1, <1>2 DEF CallOk, After, Idle, HashCalls, CipherCalls, HttpCalls, KeyCalls
<1> QED
  BY <1>1, <1>3, ContinueOk

LEMMA CipherFailsOk ==
    ASSUME IInv, NEW t \in Tasks, CipherFails(t)
    PROVE  IInv'
<1>1. DOMAIN call[t] = DOMAIN Idle /\ call[t].enc_data_len \in Nat
  BY DEF IInv, CallOk
<1> QED
  BY <1>1, ReturnOk DEF CipherFails, At

LEMMA CipherReturnsOk ==
    ASSUME IInv, NEW t \in Tasks, CipherReturns(t)
    PROVE  IInv'
<1> DEFINE n == call[t].enc_data_len
           c == [call[t] EXCEPT !.plain = <<call[t].iv, call[t].key>>,
                                !.dec_data_len = Updated(n)]
<1>1. PICK ret \in {"ESP_OK", "ESP_FAIL"} : Return(t, c, ret)
  BY DEF CipherReturns
<1>2. up /\ call[t].pc = "cipher_update" /\ CallOk(call[t])
  BY DEF CipherReturns, At, IInv
<1>3. /\ DOMAIN c = DOMAIN Idle /\ c.fn = "decrypt_data" /\ c.plain = <<Iv, Key>>
      /\ c.enc_data_len = n /\ n \in Nat /\ n % BlockSize = 0 /\ c.dec_data_len = Updated(n)
  BY <1>2 DEF CallOk, CipherCalls, Idle
<1>4. n - Updated(n) \in {0, BlockSize}
  BY <1>3, DownloadAssumption DEF Updated
<1> HIDE DEF c
<1>5. DecryptOk(c)
  BY <1>3, <1>4 DEF DecryptOk
<1> HIDE DEF n
<1> QED
  BY <1>1, <1>2, <1>3, <1>5, ReturnOk

-----------------------------------------------------------------------------
LEMMA RejectsOk ==
    ASSUME IInv, NEW t \in Tasks, https_get_rejects(t)
    PROVE  IInv'
<1> DEFINE c == [Idle EXCEPT !.fn = "https_get", !.recv_size = call[t].recv_size]
<1>1. DOMAIN c = DOMAIN Idle /\ c.enc_data_len \in Nat
  BY DEF Idle
<1>2. up /\ Return(t, c, "ESP_FAIL")
  BY DEF https_get_rejects, At
<1> HIDE DEF c
<1> QED
  BY <1>1, <1>2, ReturnOk

LEMMA HttpStepOk ==
    ASSUME IInv, NEW t \in Tasks, HttpStep(t)
    PROVE  IInv'
<1> DEFINE c == call[t]
           h == IF c.pc = "client_init" THEN [c EXCEPT !.held = "client"] ELSE c
           d == [h EXCEPT !.pc = After[c.pc]]
<1>1. up /\ c.pc \in {"client_init", "set_header"} /\ Continue(t, h)
  BY DEF HttpStep, SetUp, At, ContextOf
<1>2. CallOk(c)
  BY DEF IInv
<1>3. CallOk(d)
  BY <1>1, <1>2 DEF CallOk, After, Idle, HashCalls, CipherCalls, HttpCalls, KeyCalls
<1> QED
  BY <1>1, <1>3, ContinueOk

\* No answer of a server equals NoAnswer, whose status no server sends.
LEMMA PerformsOk ==
    ASSUME IInv, NEW t \in Tasks, Performs(t)
    PROVE  IInv'
<1>1. PICK status \in Statuses, length \in Lengths :
        Return(t, [call[t] EXCEPT !.answer = [status |-> status, length |-> length],
                                  !.recv_size = length % SizeMod],
               IF status = 404 THEN "ESP_FAIL" ELSE "ESP_OK")
  BY DEF Performs
<1> DEFINE c == [call[t] EXCEPT !.answer = [status |-> status, length |-> length],
                                !.recv_size = length % SizeMod]
<1>2. up /\ call[t].pc = "perform" /\ CallOk(call[t])
  BY DEF Performs, At, IInv
<1>3. /\ DOMAIN c = DOMAIN Idle /\ c.enc_data_len \in Nat
      /\ c.fn = "https_get"
      /\ c.answer = [status |-> status, length |-> length]
      /\ c.recv_size = length % SizeMod
  BY <1>2 DEF CallOk, HttpCalls, Idle
<1>4. [status |-> status, length |-> length] # NoAnswer
  <2>1. status # -1
    BY DownloadAssumption
  <2> QED
    BY <2>1 DEF NoAnswer
<1> HIDE DEF c
<1> DEFINE result == IF status = 404 THEN "ESP_FAIL" ELSE "ESP_OK"
<1>5. result = "ESP_OK" => status # 404
  OBVIOUS
<1>6. Return(t, c, result)
  BY <1>1 DEF c
<1>7. c.answer.status = status /\ c.answer.length = length
  BY <1>3
<1> HIDE DEF result
<1>8. result = "ESP_OK" => FetchOk(c)
  BY <1>3, <1>4, <1>5, <1>7 DEF FetchOk
<1> QED
  BY <1>2, <1>3, <1>6, <1>8, ReturnOk

LEMMA PerformFailsOk ==
    ASSUME IInv, NEW t \in Tasks, PerformFails(t)
    PROVE  IInv'
<1>1. DOMAIN call[t] = DOMAIN Idle /\ call[t].enc_data_len \in Nat
  BY DEF IInv, CallOk
<1> QED
  BY <1>1, ReturnOk DEF PerformFails, At

LEMMA StepOk == IInv /\ [Next]_vars => IInv'
<1> SUFFICES ASSUME IInv, [Next]_vars PROVE IInv'
  OBVIOUS
<1>1. CASE Boot
  BY <1>1, BootOk
<1>2. CASE PowerCycle
  BY <1>2, ResetOk DEF PowerCycle
<1>3. ASSUME NEW t \in Tasks, Task(t) PROVE IInv'
  <2>1. CASE decrypt_data(t)
    BY <2>1, decrypt_dataOk
  <2>2. CASE HashStep(t)
    BY <2>2, HashStepOk
  <2>3. CASE HashFails(t)
    BY <2>3, HashFailsOk
  <2>4. CASE HashReturns(t)
    BY <2>4, HashReturnsOk
  <2>5. CASE CipherStep(t)
    BY <2>5, CipherStepOk
  <2>6. CASE CipherFails(t)
    BY <2>6, CipherFailsOk
  <2>7. CASE CipherReturns(t)
    BY <2>7, CipherReturnsOk
  <2>8. CASE https_get_rejects(t)
    BY <2>8, RejectsOk
  <2>9. CASE https_get(t)
    BY <2>9, https_getOk
  <2>10. CASE HttpStep(t)
    BY <2>10, HttpStepOk
  <2>11. CASE NoClient(t)
    BY <2>11, ResetOk DEF NoClient
  <2>12. CASE Performs(t)
    BY <2>12, PerformsOk
  <2>13. CASE PerformFails(t)
    BY <2>13, PerformFailsOk
  <2> QED
    BY <1>3, <2>1, <2>2, <2>3, <2>4, <2>5, <2>6, <2>7, <2>8, <2>9, <2>10, <2>11, <2>12,
       <2>13 DEF Task
<1>4. CASE UNCHANGED vars
  BY <1>4 DEF vars, IInv, CallOk, DecryptOk, FetchOk, Iv, Key
<1> QED
  BY <1>1, <1>2, <1>3, <1>4 DEF Next

LEMMA Invariant == Spec => []IInv
  BY InitOk, StepOk, PTL DEF Spec

(***************************************************************************)
(* For any number of tasks, any lengths and any size of block, with any of *)
(* the library calls failing: when decrypt_data (prov.c) says ESP_OK, the  *)
(* data was whole blocks and all of them but the last have been decrypted, *)
(* with the digests of the device's own identifiers.                       *)
(***************************************************************************)
THEOREM Decrypted == Spec => []OkMeansDecrypted
<1>1. IInv => OkMeansDecrypted
  BY DEF IInv, CallOk, DecryptOk, FetchOk, WholeBlocks, OkMeansDecrypted, Returned, At, Iv, Key
<1> QED
  BY <1>1, Invariant, PTL

(***************************************************************************)
(* For any status codes and lengths: when https_get (http_client.c) says   *)
(* ESP_OK, the server has answered, not with 404, and recv_size is the     *)
(* length of that answer as a uint32_t.                                    *)
(***************************************************************************)
THEOREM Fetched == Spec => []OkMeansFetched
<1>1. IInv => OkMeansFetched
  BY DEF IInv, CallOk, DecryptOk, FetchOk, OkMeansFetched, Returned, At
<1> QED
  BY <1>1, Invariant, PTL
-----------------------------------------------------------------------------
(***************************************************************************)
(* The heap.  A task has a context exactly between the call that sets it   *)
(* up and the end of the function that set it up, so that every block is   *)
(* free, kept or a task's.                                                 *)
(***************************************************************************)
NotSetUp == {"idle", "md_info", "md_setup", "cipher_info", "cipher_setup", "client_init"}

\* The context a task at pc has, the blocks it takes, and the blocks lost.
HeldAt(pc) ==
    IF pc \in NotSetUp THEN "none"
    ELSE IF pc \in HashCalls THEN "md" ELSE IF pc \in CipherCalls THEN "cipher" ELSE "client"
Blocks(h) == IF h = "none" THEN 0 ELSE 1
Lost == kept["cipher"] + kept["client"]

Holders == {t \in Tasks : call[t].held # "none"}

HeapInv ==
    /\ free \in Int /\ kept \in [Context -> Int]
    /\ kept["md"] = 0
    /\ \A t \in Tasks : call[t].held = HeldAt(call[t].pc)
    /\ free + Lost + Cardinality(Holders) = Heap

\* What the functions of the state are numbers of.
LEMMA Counted ==
    ASSUME HeapInv
    PROVE  /\ free \in Int /\ Lost \in Int
           /\ IsFiniteSet(Holders) /\ Cardinality(Holders) \in Nat
<1>1. Holders \subseteq Tasks
  BY DEF Holders
<1> QED
  BY <1>1, DownloadAssumption, FS_Subset, FS_CardinalityType DEF HeapInv, Lost, Context

\* The tasks that have one, when task t gets one or has it no more.
LEMMA HoldersChange ==
    ASSUME IInv, HeapInv, NEW t \in Tasks, NEW d, call' = [call EXCEPT ![t] = d]
    PROVE  Cardinality(Holders') = Cardinality(Holders) - Blocks(call[t].held) + Blocks(d.held)
<1>1. IsFiniteSet(Holders) /\ Cardinality(Holders) \in Nat
  BY Counted
<1>2. \A u \in Tasks : call'[u] = IF u = t THEN d ELSE call[u]
  BY DEF IInv
<1>3. Holders' = IF d.held # "none" THEN Holders \cup {t} ELSE Holders \ {t}
  BY <1>2 DEF Holders
<1>4. t \in Holders <=> call[t].held # "none"
  BY DEF Holders
<1>5. Cardinality(Holders \cup {t}) = IF t \in Holders THEN Cardinality(Holders)
                                     ELSE Cardinality(Holders) + 1
  BY <1>1, FS_AddElement
<1>6. Cardinality(Holders \ {t}) = IF t \in Holders THEN Cardinality(Holders) - 1
                                  ELSE Cardinality(Holders)
  BY <1>1, FS_RemoveElement
<1> QED
  BY <1>1, <1>3, <1>4, <1>5, <1>6 DEF Blocks

\* A step of task t that takes from the heap what it gets and gives back, or
\* keeps for ever, what it has no more.
LEMMA Account ==
    ASSUME IInv, HeapInv, NEW t \in Tasks, NEW d, d.held = HeldAt(d.pc),
           call' = [call EXCEPT ![t] = d],
           free' \in Int, kept' \in [Context -> Int], kept'["md"] = 0,
           free' + Lost' + Blocks(d.held) = free + Lost + Blocks(call[t].held)
    PROVE  HeapInv'
<1>1. \A u \in Tasks : call'[u].held = HeldAt(call'[u].pc)
  BY DEF IInv, HeapInv
<1>2. free \in Int /\ Lost \in Int /\ Cardinality(Holders) \in Nat /\ Lost' \in Int
  BY Counted DEF Lost, Context
<1>3. Cardinality(Holders') = Cardinality(Holders) - Blocks(call[t].held) + Blocks(d.held)
  BY HoldersChange
<1>4. free + Lost + Cardinality(Holders) = Heap
  BY DEF HeapInv
<1>5. Blocks(call[t].held) \in Nat /\ Blocks(d.held) \in Nat
  BY DEF Blocks
<1>6. free' + Lost' + Cardinality(Holders') = Heap
  <2> HIDE DEF Lost, Holders, Blocks
  <2> QED
    BY <1>2, <1>3, <1>4, <1>5, DownloadAssumption
<1> QED
  BY <1>1, <1>6 DEF HeapInv

\* The whole heap is free again.
LEMMA HeapReset ==
    ASSUME call' = [t \in Tasks |-> Idle], free' = Heap, kept' = NoneKept
    PROVE  HeapInv'
<1>1. \A t \in Tasks : call'[t].held = "none" /\ call'[t].pc = "idle"
  BY DEF Idle
<1>2. Holders' = {}
  BY <1>1 DEF Holders
<1>3. kept' \in [Context -> Int] /\ kept'["md"] = 0 /\ Lost' = 0
  BY DEF NoneKept, Context, Lost
<1>4. Cardinality(Holders') = 0 /\ Heap \in Int
  BY <1>2, FS_EmptySet, DownloadAssumption
<1> QED
  BY <1>1, <1>3, <1>4 DEF HeapInv, HeldAt, NotSetUp

\* A call that takes nothing goes on with what it has.
LEMMA HeapContinue ==
    ASSUME IInv, HeapInv, NEW t \in Tasks, NEW c, Continue(t, c), kept' = kept, free' \in Int,
           DOMAIN c = DOMAIN Idle,
           free' + Blocks(c.held) = free + Blocks(call[t].held),
           c.held = HeldAt(After[call[t].pc])
    PROVE  HeapInv'
<1> DEFINE d == [c EXCEPT !.pc = After[call[t].pc]]
<1>1. call' = [call EXCEPT ![t] = d]
  BY DEF Continue
<1>2. d.held = c.held /\ d.pc = After[call[t].pc]
  BY DEF Idle
<1> HIDE DEF d
<1>3. kept' \in [Context -> Int] /\ kept'["md"] = 0 /\ Lost' = Lost
  BY DEF HeapInv, Lost
<1>4. free \in Int /\ Lost \in Int /\ Blocks(c.held) \in Nat /\ Blocks(call[t].held) \in Nat
  BY Counted DEF Blocks
<1>5. free' + Lost' + Blocks(d.held) = free + Lost + Blocks(call[t].held)
  <2>1. Blocks(d.held) = Blocks(c.held) /\ Lost' = Lost
    BY <1>2, <1>3
  <2> QED
    BY <1>4, <2>1
<1> QED
  BY <1>1, <1>2, <1>3, <1>5, Account

\* The function returns, and has given back its digest or lost what it had.
LEMMA HeapReturn ==
    ASSUME IInv, HeapInv, NEW t \in Tasks, NEW c, NEW result, Return(t, c, result),
           free' \in Int, DOMAIN c = DOMAIN Idle, c.held \in {"none", "cipher", "client"},
           free' + Blocks(c.held) = free + Blocks(call[t].held)
    PROVE  HeapInv'
<1> DEFINE d == [c EXCEPT !.pc = "idle", !.held = "none", !.result = result, !.fed = <<>>]
<1>1. /\ call' = [call EXCEPT ![t] = d]
      /\ kept' = [k \in Context |-> IF c.held = k THEN kept[k] + 1 ELSE kept[k]]
  BY DEF Return
<1>2. d.held = "none" /\ d.pc = "idle"
  BY DEF Idle
<1> HIDE DEF d
<1>3. d.held = HeldAt(d.pc) /\ Blocks(d.held) = 0
  BY <1>2 DEF HeldAt, NotSetUp, Blocks
<1>4. kept' \in [Context -> Int] /\ kept'["md"] = 0 /\ Lost' = Lost + Blocks(c.held)
  BY <1>1 DEF HeapInv, Lost, Blocks, Context
<1>5. free \in Int /\ Lost \in Int /\ Blocks(c.held) \in Nat /\ Blocks(call[t].held) \in Nat
  BY Counted DEF Blocks
<1>6. free' + Lost' + Blocks(d.held) = free + Lost + Blocks(call[t].held)
  <2> HIDE DEF Lost, Blocks
  <2> QED
    BY <1>3, <1>4, <1>5
<1> QED
  BY <1>1, <1>3, <1>4, <1>6, Account

\* A context is set up.
LEMMA HeapSetUp ==
    ASSUME IInv, HeapInv, NEW t \in Tasks,
           NEW pc \in {"md_setup", "cipher_setup", "client_init"}, SetUp(t, pc)
    PROVE  HeapInv'
<1> DEFINE h == [call[t] EXCEPT !.held = ContextOf[pc]]
<1>1. call[t].pc = pc /\ free' = free - 1 /\ Continue(t, h) /\ kept' = kept
  BY DEF SetUp, At, Continue
<1>2. DOMAIN call[t] = DOMAIN Idle /\ call[t].held = HeldAt(pc) /\ free \in Int
  BY <1>1 DEF IInv, CallOk, HeapInv
<1>3. h.held = ContextOf[pc] /\ DOMAIN h = DOMAIN Idle
  BY <1>2 DEF Idle
<1>4. Blocks(call[t].held) = 0
  BY <1>2 DEF HeldAt, NotSetUp, Blocks
<1>5. ContextOf[pc] = HeldAt(After[pc]) /\ Blocks(ContextOf[pc]) = 1
  BY DEF ContextOf, HeldAt, After, NotSetUp, HashCalls, CipherCalls, Blocks
<1> HIDE DEF h
<1> QED
  BY <1>1, <1>2, <1>3, <1>4, <1>5, HeapContinue

\* A library call that takes nothing from the heap.
LEMMA HeapKept ==
    ASSUME IInv, HeapInv, NEW t \in Tasks, NEW c, Continue(t, c), UNCHANGED free,
           DOMAIN c = DOMAIN Idle, c.held = call[t].held,
           call[t].pc \in (HashCalls \ {"md_setup", "finish_key"})
             \cup (CipherCalls \ {"cipher_setup", "cipher_update"}) \cup {"set_header"}
    PROVE  HeapInv'
<1>1. kept' = kept /\ free' \in Int
  BY DEF Continue, HeapInv
<1>2. call[t].held = HeldAt(call[t].pc)
  BY DEF HeapInv
<1>3. HeldAt(After[call[t].pc]) = HeldAt(call[t].pc)
  BY DEF HeldAt, After, NotSetUp, HashCalls, CipherCalls
<1> QED
  BY <1>1, <1>2, <1>3, HeapContinue

\* A function returns and frees nothing: it has no digest then.
LEMMA HeapGone ==
    ASSUME IInv, HeapInv, NEW t \in Tasks, NEW c, NEW result, Return(t, c, result),
           UNCHANGED free, DOMAIN c = DOMAIN Idle, c.held = call[t].held,
           call[t].pc \in CipherCalls \cup HttpCalls \cup {"idle"}
    PROVE  HeapInv'
<1>1. c.held \in {"none", "cipher", "client"}
  BY DEF HeapInv, HeldAt, CipherCalls, HttpCalls, HashCalls, NotSetUp
<1>2. free' \in Int
  BY DEF HeapInv
<1> QED
  BY <1>1, <1>2, HeapReturn

\* Every step of a task.
LEMMA HeapTask ==
    ASSUME IInv, HeapInv, NEW t \in Tasks, Task(t)
    PROVE  HeapInv'
<1> DEFINE c == call[t]
<1>1. /\ c.held = HeldAt(c.pc) /\ free \in Int /\ DOMAIN c = DOMAIN Idle
      /\ c.pc \in {"idle"} \cup HashCalls \cup CipherCalls \cup HttpCalls
  BY DEF IInv, CallOk, HeapInv
<1>2. free + Blocks(c.held) = FreeAfter(t) /\ FreeAfter(t) \in Int
  BY <1>1 DEF FreeAfter, Blocks
<1>3. CASE decrypt_data(t) \/ https_get(t)
  <2>1. PICK e : /\ Begin(t, e) /\ DOMAIN e = DOMAIN Idle
                 /\ e.held = "none" /\ e.pc \in {"md_info", "client_init"}
    <3>1. CASE decrypt_data(t)
      <4>1. PICK n : Begin(t, [Idle EXCEPT !.fn = "decrypt_data", !.pc = "md_info",
                                           !.enc_data_len = n])
        BY <3>1 DEF decrypt_data
      <4> DEFINE e == [Idle EXCEPT !.fn = "decrypt_data", !.pc = "md_info", !.enc_data_len = n]
      <4>2. DOMAIN e = DOMAIN Idle /\ e.held = "none" /\ e.pc = "md_info"
        BY DEF Idle
      <4> HIDE DEF e
      <4>3. Begin(t, e)
        BY <4>1 DEF e
      <4> QED
        BY <4>2, <4>3
    <3>2. CASE https_get(t)
      <4> DEFINE e == [Idle EXCEPT !.fn = "https_get", !.pc = "client_init"]
      <4>1. DOMAIN e = DOMAIN Idle /\ e.held = "none" /\ e.pc = "client_init" /\ Begin(t, e)
        BY <3>2 DEF Idle, https_get
      <4> HIDE DEF e
      <4> QED
        BY <4>1
    <3> QED
      BY <1>3, <3>1, <3>2
  <2> DEFINE d == [e EXCEPT !.recv_size = c.recv_size]
  <2>2. call' = [call EXCEPT ![t] = d] /\ c.pc = "idle" /\ UNCHANGED <<free, kept>>
    BY <2>1 DEF Begin, At
  <2>3. d.held = "none" /\ d.pc = e.pc
    BY <2>1 DEF Idle
  <2> HIDE DEF d
  <2>4. d.held = HeldAt(d.pc) /\ c.held = "none"
    BY <1>1, <2>1, <2>2, <2>3 DEF HeldAt, NotSetUp
  <2>5. kept' \in [Context -> Int] /\ kept'["md"] = 0 /\ Lost' = Lost /\ free' = free
    BY <2>2 DEF HeapInv, Lost
  <2> QED
    BY <1>1, <2>2, <2>3, <2>4, <2>5, Account
<1>4. CASE HashStep(t)
  <2>1. CASE SetUp(t, "md_setup")
    BY <2>1, HeapSetUp
  <2>2. CASE /\ c.pc \in HashCalls \ {"md_setup", "finish_key"}
             /\ Continue(t, Hashed(c))
             /\ UNCHANGED free
    <3>1. Hashed(c).held = c.held /\ DOMAIN Hashed(c) = DOMAIN Idle
      BY <1>1 DEF Hashed, Idle
    <3> QED
      BY <2>2, <3>1, HeapKept
  <2> QED
    BY <1>4, <2>1, <2>2 DEF HashStep, At
<1>5. CASE HashFails(t)
  <2> DEFINE h == [c EXCEPT !.held = "none"]
  <2>1. free' = FreeAfter(t) /\ Return(t, h, "ESP_FAIL")
    BY <1>5 DEF HashFails
  <2>2. h.held = "none" /\ DOMAIN h = DOMAIN Idle /\ Blocks(h.held) = 0
    BY <1>1 DEF Idle, Blocks
  <2> HIDE DEF h
  <2> QED
    BY <1>2, <2>1, <2>2, HeapReturn
<1>6. CASE HashReturns(t)
  <2> DEFINE h == [Hashed(c) EXCEPT !.held = "none"]
  <2>1. c.pc = "finish_key" /\ free' = FreeAfter(t)
        /\ (Continue(t, h) \/ Return(t, h, "ESP_FAIL"))
    BY <1>6 DEF HashReturns, At
  <2>2. h.held = "none" /\ DOMAIN h = DOMAIN Idle /\ Blocks(h.held) = 0
    BY <1>1 DEF Idle, Hashed, Blocks
  <2>3. HeldAt(After[c.pc]) = "none"
    BY <2>1 DEF After, NotSetUp, HeldAt
  <2> HIDE DEF h
  <2>4. CASE Continue(t, h)
    <3>1. kept' = kept
      BY <2>4 DEF Continue
    <3> QED
      BY <1>1, <1>2, <2>1, <2>2, <2>3, <2>4, <3>1, HeapContinue
  <2>5. CASE Return(t, h, "ESP_FAIL")
    BY <1>2, <2>1, <2>2, <2>5, HeapReturn
  <2> QED
    BY <2>1, <2>4, <2>5
<1>7. CASE CipherStep(t)
  <2>1. CASE SetUp(t, "cipher_setup")
    BY <2>1, HeapSetUp
  <2>2. CASE /\ c.pc \in CipherCalls \ {"cipher_setup", "cipher_update"}
             /\ Continue(t, c)
             /\ UNCHANGED free
    BY <1>1, <2>2, HeapKept
  <2> QED
    BY <1>7, <2>1, <2>2 DEF CipherStep, At
<1>8. CASE HttpStep(t)
  <2>1. CASE SetUp(t, "client_init")
    BY <2>1, HeapSetUp
  <2>2. CASE c.pc = "set_header" /\ Continue(t, c) /\ UNCHANGED free
    BY <1>1, <2>2, HeapKept
  <2> QED
    BY <1>8, <2>1, <2>2 DEF HttpStep, At
<1>9. CASE CipherFails(t) \/ PerformFails(t)
  <2>1. PICK result : Return(t, c, result) /\ UNCHANGED free
    BY <1>9 DEF CipherFails, PerformFails
  <2>2. c.pc \in CipherCalls \cup HttpCalls
    BY <1>9 DEF CipherFails, PerformFails, At, HttpCalls
  <2> QED
    BY <1>1, <2>1, <2>2, HeapGone
<1>10. CASE CipherReturns(t)
  <2> DEFINE h == [c EXCEPT !.plain = <<c.iv, c.key>>,
                            !.dec_data_len = Updated(c.enc_data_len)]
  <2>1. PICK result : Return(t, h, result) /\ UNCHANGED free
    BY <1>10 DEF CipherReturns
  <2>2. h.held = c.held /\ DOMAIN h = DOMAIN Idle /\ c.pc \in CipherCalls
    BY <1>1, <1>10 DEF Idle, CipherReturns, At, CipherCalls
  <2> HIDE DEF h
  <2> QED
    BY <2>1, <2>2, HeapGone
<1>11. CASE https_get_rejects(t)
  <2> DEFINE h == [Idle EXCEPT !.fn = "https_get", !.recv_size = c.recv_size]
  <2>1. c.pc = "idle" /\ Return(t, h, "ESP_FAIL") /\ UNCHANGED free
    BY <1>11 DEF https_get_rejects, At
  <2>2. h.held = "none" /\ c.held = "none" /\ DOMAIN h = DOMAIN Idle
    BY <1>1, <2>1 DEF HeldAt, Idle, NotSetUp
  <2> HIDE DEF h
  <2> QED
    BY <2>1, <2>2, HeapGone
<1>12. CASE NoClient(t)
  BY <1>12, HeapReset DEF NoClient, Reset
<1>13. CASE Performs(t)
  <2>1. PICK status \in Statuses, length \in Lengths :
          Return(t, [c EXCEPT !.answer = [status |-> status, length |-> length],
                              !.recv_size = length % SizeMod],
                 IF status = 404 THEN "ESP_FAIL" ELSE "ESP_OK")
    BY <1>13 DEF Performs
  <2> DEFINE h == [c EXCEPT !.answer = [status |-> status, length |-> length],
                            !.recv_size = length % SizeMod]
             result == IF status = 404 THEN "ESP_FAIL" ELSE "ESP_OK"
  <2>2. h.held = c.held /\ DOMAIN h = DOMAIN Idle /\ c.pc \in HttpCalls
    BY <1>1, <1>13 DEF Idle, Performs, At, HttpCalls
  <2>3. Return(t, h, result) /\ UNCHANGED free
    BY <1>13, <2>1 DEF Performs
  <2> HIDE DEF h, result
  <2> QED
    BY <2>2, <2>3, HeapGone
<1> QED
  BY <1>3, <1>4, <1>5, <1>6, <1>7, <1>8, <1>9, <1>10, <1>11, <1>12, <1>13 DEF Task

(***************************************************************************)
(* For any finite set of tasks and any heap, whatever fails: generate_hash *)
(* (prov.c) loses no digest context, and the memory that is gone for good  *)
(* is the cipher contexts and HTTP clients that decrypt_data and https_get *)
(* have returned without freeing.                                          *)
(***************************************************************************)
THEOREM HeapAccounted == Spec => []OnlyContextsLost
<1>1. Init => HeapInv
  <2> SUFFICES ASSUME Init PROVE HeapInv
    OBVIOUS
  <2>1. \A t \in Tasks : call[t].held = "none" /\ call[t].pc = "idle"
    BY DEF Init, Idle
  <2>2. Holders = {}
    BY <2>1 DEF Holders
  <2>3. kept \in [Context -> Int] /\ kept["md"] = 0 /\ Lost = 0
    BY DEF Init, NoneKept, Context, Lost
  <2>4. Cardinality(Holders) = 0 /\ free = Heap /\ Heap \in Int
    BY <2>2, FS_EmptySet, DownloadAssumption DEF Init
  <2> QED
    BY <2>1, <2>3, <2>4 DEF HeapInv, HeldAt, NotSetUp
<1>2. IInv /\ HeapInv /\ [Next]_vars => HeapInv'
  <2> SUFFICES ASSUME IInv, HeapInv, [Next]_vars PROVE HeapInv'
    OBVIOUS
  <2>1. CASE Boot
    BY <2>1 DEF Boot, HeapInv, Holders, Lost
  <2>2. CASE PowerCycle
    BY <2>2, HeapReset DEF PowerCycle, Reset
  <2>3. ASSUME NEW t \in Tasks, Task(t) PROVE HeapInv'
    BY <2>3, HeapTask
  <2>4. CASE UNCHANGED vars
    BY <2>4 DEF vars, HeapInv, Holders, Lost
  <2> QED
    BY <2>1, <2>2, <2>3, <2>4 DEF Next
<1>3. HeapInv => OnlyContextsLost
  <2> SUFFICES ASSUME HeapInv PROVE OnlyContextsLost
    OBVIOUS
  <2>1. ASSUME NEW t \in Tasks, call[t].held = "md" PROVE call[t].pc \in HashCalls
    BY <2>1 DEF HeapInv, HeldAt
  <2>2. free + kept["cipher"] + kept["client"] + Cardinality(Holders) = Heap
    <3>1. /\ free \in Int /\ kept["cipher"] \in Int /\ kept["client"] \in Int
          /\ Cardinality(Holders) \in Nat
      BY Counted DEF HeapInv, Context
    <3> QED
      BY <3>1 DEF HeapInv, Lost
  <2> QED
    BY <2>1, <2>2 DEF HeapInv, OnlyContextsLost, Holders
<1> QED
  BY <1>1, <1>2, <1>3, Invariant, PTL DEF Spec

-----------------------------------------------------------------------------
(***************************************************************************)
(* The forms of a device's identifiers, for every address and every hash:  *)
(* the strings that utils.c and snprintf make of bytes, and the order of   *)
(* hashes and serials.                                                     *)
(***************************************************************************)
(***************************************************************************)
(* Digits.                                                                 *)
(***************************************************************************)
Nibble == 0 .. 15

\* The nibbles of a byte tell it from others, and order bytes.
LEMMA Nibbles ==
    ASSUME NEW b \in Byte
    PROVE  b \div 16 \in Nibble /\ b % 16 \in Nibble /\ b = 16 * (b \div 16) + (b % 16)
  BY DEF Byte, Nibble

\* A digit reads back, differs from the terminator and sorts as its nibble.
LEMMA DigitFacts ==
    /\ \A x \in Nibble : /\ hex2char(x) \in Nat /\ hex2char(x) # NUL
                         /\ Digit(hex2char(x)) = x
    /\ \A x, y \in Nibble : hex2char(x) > hex2char(y) <=> x > y
  BY DEF hex2char, Digit, Nibble, NUL

\* The string of buf with its terminator.
Str(buf) == Append(HexDigits(buf), NUL)

LEMMA DigitsAt ==
    ASSUME NEW buf \in Seq(Byte)
    PROVE  /\ HexDigits(buf) \in Seq(Nat) /\ Len(HexDigits(buf)) = 2 * Len(buf)
           /\ \A i \in 1 .. Len(buf) :
                /\ HexDigits(buf)[2 * i - 1] = hex2char(buf[i] \div 16)
                /\ HexDigits(buf)[2 * i] = hex2char(buf[i] % 16)
  <1> DEFINE n == Len(buf)
             h == HexDigits(buf)
             f(k) == LET b == buf[(k + 1) \div 2]
                     IN hex2char(IF k % 2 = 1 THEN b \div 16 ELSE b % 16)
  <1>1. n \in Nat /\ \A i \in 1 .. n : buf[i] \in Byte
    OBVIOUS
  <1>2. h = [k \in 1 .. 2 * n |-> f(k)]
    BY DEF HexDigits
  <1>3. ASSUME NEW k \in 1 .. 2 * n PROVE f(k) \in Nat
    <2>1. (k + 1) \div 2 \in 1 .. n
      BY <1>1
    <2> DEFINE b == buf[(k + 1) \div 2]
    <2>2. b \in Byte
      BY <1>1, <2>1
    <2> HIDE DEF b
    <2>3. b \div 16 \in Nibble /\ b % 16 \in Nibble
      BY <2>2, Nibbles
    <2>4. hex2char(b \div 16) \in Nat /\ hex2char(b % 16) \in Nat
      BY <2>3, DigitFacts
    <2> QED
      BY <2>4 DEF b
  <1>4. ASSUME NEW i \in 1 .. n
        PROVE  f(2 * i - 1) = hex2char(buf[i] \div 16) /\ f(2 * i) = hex2char(buf[i] % 16)
    <2>1. /\ (2 * i - 1 + 1) \div 2 = i /\ (2 * i - 1) % 2 = 1
          /\ (2 * i + 1) \div 2 = i /\ (2 * i) % 2 = 0
      BY <1>1
    <2> QED
      BY <2>1
  <1> HIDE DEF n, f
  <1>5. 2 * n \in Nat
    BY <1>1
  <1>6. h \in [1 .. 2 * n -> Nat]
    BY <1>2, <1>3
  <1>7. h \in Seq(Nat) /\ Len(h) = 2 * n
    <2> HIDE DEF h
    <2> DEFINE m == 2 * n
    <2>1. m \in Nat /\ h \in [1 .. m -> Nat]
      BY <1>5, <1>6
    <2> HIDE DEF m
    <2>2. h \in Seq(Nat) /\ Len(h) = m
      BY <2>1
    <2> QED
      BY <2>2 DEF m
  <1>8. ASSUME NEW i \in 1 .. n
        PROVE  h[2 * i - 1] = f(2 * i - 1) /\ h[2 * i] = f(2 * i)
    BY <1>1, <1>2
  <1> HIDE DEF h
  <1> QED
    BY <1>4, <1>7, <1>8 DEF h, n

\* The same of the string.
LEMMA StrAt ==
    ASSUME NEW buf \in Seq(Byte)
    PROVE  /\ Str(buf) \in Seq(Nat) /\ Len(Str(buf)) = 2 * Len(buf) + 1
           /\ Str(buf)[2 * Len(buf) + 1] = NUL
           /\ \A i \in 1 .. Len(buf) :
                /\ Str(buf)[2 * i - 1] = hex2char(buf[i] \div 16)
                /\ Str(buf)[2 * i] = hex2char(buf[i] % 16)
  <1> DEFINE h == HexDigits(buf)
             n == Len(buf)
  <1>1. n \in Nat /\ h \in Seq(Nat) /\ Len(h) = 2 * n /\ NUL \in Nat
    BY DigitsAt DEF NUL
  <1>2. /\ Append(h, NUL) \in Seq(Nat) /\ Len(Append(h, NUL)) = Len(h) + 1
        /\ Append(h, NUL)[Len(h) + 1] = NUL
        /\ \A k \in 1 .. Len(h) : Append(h, NUL)[k] = h[k]
    BY <1>1
  <1>3. \A i \in 1 .. n : 2 * i - 1 \in 1 .. 2 * n /\ 2 * i \in 1 .. 2 * n
    BY <1>1
  <1>4. \A i \in 1 .. n : /\ h[2 * i - 1] = hex2char(buf[i] \div 16)
                          /\ h[2 * i] = hex2char(buf[i] % 16)
    BY DigitsAt
  <1> HIDE DEF h, n
  <1>5. ASSUME NEW i \in 1 .. n
        PROVE  /\ Append(h, NUL)[2 * i - 1] = hex2char(buf[i] \div 16)
               /\ Append(h, NUL)[2 * i] = hex2char(buf[i] % 16)
    BY <1>1, <1>2, <1>3, <1>4
  <1> QED
    BY <1>1, <1>2, <1>5 DEF Str, h, n

\* The bytes of the string are those it was made of.
LEMMA StrReadsBack ==
    ASSUME NEW buf \in Seq(Byte)
    PROVE  Bytes(Str(buf)) = buf
  <1> DEFINE n == Len(buf)
             h == Str(buf)
  <1>1. n \in Nat /\ (Len(h) - 1) \div 2 = n
    BY StrAt
  <1>2. ASSUME NEW i \in 1 .. n
        PROVE  16 * Digit(h[2 * i - 1]) + Digit(h[2 * i]) = buf[i]
    <2>1. buf[i] \in Byte
      OBVIOUS
    <2>2. buf[i] \div 16 \in Nibble /\ buf[i] % 16 \in Nibble
          /\ buf[i] = 16 * (buf[i] \div 16) + (buf[i] % 16)
      BY <2>1, Nibbles
    <2>3. Digit(h[2 * i - 1]) = buf[i] \div 16 /\ Digit(h[2 * i]) = buf[i] % 16
      BY <2>2, StrAt, DigitFacts
    <2> QED
      BY <2>2, <2>3
  <1>3. Bytes(h) = [i \in 1 .. n |-> 16 * Digit(h[2 * i - 1]) + Digit(h[2 * i])]
    BY <1>1 DEF Bytes
  <1>4. buf = [i \in 1 .. n |-> buf[i]]
    OBVIOUS
  <1> HIDE DEF h, n
  <1> QED
    BY <1>2, <1>3, <1>4 DEF h

\* Whatever bin2hex is given, it writes nothing or a string that ends within
\* the room and reads back.
LEMMA HexAlways ==
    ASSUME NEW bufs, bufs \subseteq Seq(Byte), NEW rooms, rooms \subseteq Nat
    PROVE  HexReadsBack(bufs, rooms)
  <1> SUFFICES ASSUME NEW buf \in bufs, NEW hexlen \in rooms
               PROVE  LET r == bin2hex(buf, hexlen)
                      IN IF r.result = 0
                         THEN r.hex = <<>> \/ (buf = <<>> /\ r.hex = <<NUL>>)
                         ELSE /\ Len(r.hex) <= hexlen
                              /\ Len(r.hex) = r.result + 1
                              /\ Last(r.hex) = NUL
                              /\ NUL \notin ToSet(Front(r.hex))
                              /\ Bytes(r.hex) = buf
    BY DEF HexReadsBack
  <1>0. buf \in Seq(Byte) /\ Len(buf) \in Nat /\ hexlen \in Nat
    OBVIOUS
  <1> DEFINE r == bin2hex(buf, hexlen)
             h == Str(buf)
  <1>1. CASE hexlen < 2 * Len(buf) + 1
    BY <1>1 DEF bin2hex
  <1>2. CASE ~(hexlen < 2 * Len(buf) + 1)
    <2>1. r.result = 2 * Len(buf) /\ r.hex = h
      BY <1>2 DEF bin2hex, Str
    <2>2. h \in Seq(Nat) /\ Len(h) = 2 * Len(buf) + 1
      BY <1>0, StrAt
    <2>3. CASE Len(buf) = 0
      <3>1. buf = <<>>
        BY <1>0, <2>3
      <3>2. h[1] = NUL /\ Len(h) = 1
        BY <1>0, <2>2, <2>3, StrAt
      <3>3. h = <<NUL>>
        <4> HIDE DEF h
        <4> QED
          BY <2>2, <3>2
      <3> QED
        BY <2>1, <2>3, <3>1, <3>3
    <2>4. CASE Len(buf) # 0
      <3>1. Len(h) <= hexlen /\ Last(h) = NUL
        BY <1>0, <1>2, <2>2, StrAt DEF Last
      <3>2. NUL \notin ToSet(Front(h))
        <4>1. \A k \in 1 .. 2 * Len(buf) : h[k] # NUL
          <5> SUFFICES ASSUME NEW k \in 1 .. 2 * Len(buf) PROVE h[k] # NUL
            OBVIOUS
          <5>1. \E i \in 1 .. Len(buf) : k = 2 * i - 1 \/ k = 2 * i
            <6>1. (k + 1) \div 2 \in 1 .. Len(buf)
                  /\ (k = 2 * ((k + 1) \div 2) - 1 \/ k = 2 * ((k + 1) \div 2))
              BY <1>0
            <6> QED
              BY <6>1
          <5>2. PICK i \in 1 .. Len(buf) : k = 2 * i - 1 \/ k = 2 * i
            BY <5>1
          <5>3. buf[i] \in Byte
            BY <1>0
          <5> QED
            BY <1>0, <5>2, <5>3, StrAt, Nibbles, DigitFacts
        <4>2. Front(h) = [k \in 1 .. 2 * Len(buf) |-> h[k]]
          <5> HIDE DEF h
          <5> QED
            BY <1>0, <2>2 DEF Front
        <4> QED
          BY <1>0, <4>1, <4>2 DEF ToSet
      <3>3. Bytes(h) = buf
        BY <1>0, StrReadsBack
      <3> QED
        BY <1>0, <2>1, <2>2, <2>4, <3>1, <3>2, <3>3
    <2> QED
      BY <2>3, <2>4
  <1> QED
    BY <1>1, <1>2
-----------------------------------------------------------------------------
(***************************************************************************)
(* The order of words, of serials and of their strings.                    *)
(***************************************************************************)
\* v is above w from position i on.
AboveAt(v, w, i) == v[i] > w[i] /\ \A j \in 1 .. i - 1 : v[j] = w[j]

\* A set of numbers has a least one.
LEMMA Least ==
    ASSUME NEW S, S \subseteq Nat, S # {}
    PROVE  \E m \in S : \A n \in S : m <= n
  <1> DEFINE R == OpToRel(<, Nat)
  <1>1. IsWellFoundedOn(R, Nat)
    BY NatLessThanWellFounded
  <1>2. \A x, y \in Nat : y < x => <<y, x>> \in R
    BY DEF OpToRel
  <1> HIDE DEF R
  <1>3. \E x \in S : \A y \in S : ~ (<<y, x>> \in R)
    BY <1>1, WFMin
  <1>4. PICK x \in S : \A y \in S : ~ (<<y, x>> \in R)
    BY <1>3
  <1>5. ASSUME NEW y \in S PROVE x <= y
    <2>1. ~(y < x)
      BY <1>2, <1>4
    <2> QED
      BY <2>1
  <1> QED
    BY <1>5

\* Of two words of one length that differ, one is above the other, and only one.
LEMMA AboveTotal ==
    ASSUME NEW n \in Nat, NEW v \in [1 .. n -> Nat], NEW w \in [1 .. n -> Nat]
    PROVE  /\ v # w => Above(v, w) \/ Above(w, v)
           /\ ~(Above(v, w) /\ Above(w, v))
           /\ v = w => ~Above(v, w)
  <1>1. ASSUME v # w PROVE Above(v, w) \/ Above(w, v)
    <2> DEFINE D == {i \in 1 .. n : v[i] # w[i]}
    <2>1. D \subseteq Nat /\ D # {}
      BY <1>1
    <2>2. PICK m \in D : \A i \in D : m <= i
      BY <2>1, Least
    <2>3. /\ m \in DOMAIN v /\ m \in DOMAIN w /\ (v[m] > w[m] \/ w[m] > v[m])
          /\ \A j \in 1 .. m - 1 : v[j] = w[j]
      BY <2>2
    <2> QED
      BY <2>3 DEF Above
  <1>2. ASSUME Above(v, w), Above(w, v) PROVE FALSE
    <2>1. PICK i \in 1 .. n : AboveAt(v, w, i)
      BY <1>2 DEF Above, AboveAt
    <2>2. PICK j \in 1 .. n : AboveAt(w, v, j)
      BY <1>2 DEF Above, AboveAt
    <2>3. i < j => v[i] = w[i]
      BY <2>2 DEF AboveAt
    <2>4. j < i => v[j] = w[j]
      BY <2>1 DEF AboveAt
    <2> QED
      BY <2>1, <2>2, <2>3, <2>4 DEF AboveAt
  <1>3. v = w => ~Above(v, w)
    BY DEF Above
  <1> QED
    BY <1>1, <1>2, <1>3

\* Words compare as equal when they are.
LEMMA CompareEqual ==
    ASSUME NEW n \in Nat, NEW v \in [1 .. n -> Nat], NEW w \in [1 .. n -> Nat]
    PROVE  Compare(v, w) = 0 <=> v = w
  BY AboveTotal DEF Compare

\* The sixteen bytes of two words, the first one before the second.
Joint(h, l) == [i \in 1 .. 16 |-> IF i <= 8 THEN h[i] ELSE l[i - 8]]

\* They compare as the first words do, or when those are equal the second.
LEMMA CompareJoint ==
    ASSUME NEW g \in [1 .. 8 -> Nat], NEW h \in [1 .. 8 -> Nat],
           NEW k \in [1 .. 8 -> Nat], NEW l \in [1 .. 8 -> Nat]
    PROVE  Compare(Joint(g, k), Joint(h, l))
             = IF Compare(g, h) # 0 THEN Compare(g, h) ELSE Compare(k, l)
  <1>1. ASSUME NEW a \in [1 .. 8 -> Nat], NEW b \in [1 .. 8 -> Nat],
               NEW c \in [1 .. 8 -> Nat], NEW d \in [1 .. 8 -> Nat]
        PROVE  Above(Joint(a, c), Joint(b, d)) <=> Above(a, b) \/ (a = b /\ Above(c, d))
    <2> DEFINE v == Joint(a, c)
               w == Joint(b, d)
    <2>1. /\ DOMAIN v = 1 .. 16 /\ DOMAIN w = 1 .. 16
          /\ \A i \in 1 .. 8 : v[i] = a[i] /\ w[i] = b[i]
          /\ \A i \in 1 .. 8 : v[i + 8] = c[i] /\ w[i + 8] = d[i]
      BY DEF Joint
    <2> HIDE DEF v, w
    <2>2. ASSUME NEW i \in 1 .. 8 PROVE AboveAt(v, w, i) <=> AboveAt(a, b, i)
      BY <2>1 DEF AboveAt
    <2>3. ASSUME NEW i \in 1 .. 8 PROVE AboveAt(v, w, i + 8) <=> a = b /\ AboveAt(c, d, i)
      <3>1. (\A j \in 1 .. i + 8 - 1 : v[j] = w[j])
              <=> (\A j \in 1 .. 8 : a[j] = b[j]) /\ (\A j \in 1 .. i - 1 : c[j] = d[j])
        <4>1. ASSUME \A j \in 1 .. i + 8 - 1 : v[j] = w[j]
              PROVE  (\A j \in 1 .. 8 : a[j] = b[j]) /\ (\A j \in 1 .. i - 1 : c[j] = d[j])
          <5>1. \A j \in 1 .. 8 : j \in 1 .. i + 8 - 1
            OBVIOUS
          <5>2. \A j \in 1 .. i - 1 : j + 8 \in 1 .. i + 8 - 1 /\ j \in 1 .. 8
            OBVIOUS
          <5> QED
            BY <2>1, <4>1, <5>1, <5>2
        <4>2. ASSUME \A j \in 1 .. 8 : a[j] = b[j], \A j \in 1 .. i - 1 : c[j] = d[j],
                     NEW j \in 1 .. i + 8 - 1
              PROVE  v[j] = w[j]
          <5>1. CASE j <= 8
            BY <2>1, <4>2, <5>1
          <5>2. CASE j > 8
            <6>1. j - 8 \in 1 .. i - 1 /\ j - 8 \in 1 .. 8 /\ (j - 8) + 8 = j
              BY <5>2
            <6> QED
              BY <2>1, <4>2, <6>1
          <5> QED
            BY <5>1, <5>2
        <4> QED
          BY <4>1, <4>2
      <3>2. (\A j \in 1 .. 8 : a[j] = b[j]) <=> a = b
        OBVIOUS
      <3> QED
        BY <2>1, <3>1, <3>2 DEF AboveAt
    <2>4. Above(v, w) <=> \E i \in 1 .. 16 : AboveAt(v, w, i)
      BY <2>1 DEF Above, AboveAt
    <2>5. (\E i \in 1 .. 16 : AboveAt(v, w, i))
            <=> (\E i \in 1 .. 8 : AboveAt(v, w, i)) \/ (\E i \in 1 .. 8 : AboveAt(v, w, i + 8))
      <3>1. \A i \in 1 .. 16 : i \in 1 .. 8 \/ (i - 8 \in 1 .. 8 /\ (i - 8) + 8 = i)
        OBVIOUS
      <3>2. \A i \in 1 .. 8 : i \in 1 .. 16 /\ i + 8 \in 1 .. 16
        OBVIOUS
      <3> QED
        BY <3>1, <3>2
    <2>6. Above(a, b) <=> \E i \in 1 .. 8 : AboveAt(a, b, i)
      BY DEF Above, AboveAt
    <2>7. Above(c, d) <=> \E i \in 1 .. 8 : AboveAt(c, d, i)
      BY DEF Above, AboveAt
    <2> QED
      BY <2>2, <2>3, <2>4, <2>5, <2>6, <2>7 DEF v, w
  <1>2. Above(Joint(g, k), Joint(h, l)) <=> Above(g, h) \/ (g = h /\ Above(k, l))
    BY <1>1
  <1>3. Above(Joint(h, l), Joint(g, k)) <=> Above(h, g) \/ (g = h /\ Above(l, k))
    BY <1>1
  <1>4. Compare(g, h) = 0 <=> g = h
    <2> DEFINE n == 8
    <2>1. n \in Nat /\ g \in [1 .. n -> Nat] /\ h \in [1 .. n -> Nat]
      OBVIOUS
    <2> HIDE DEF n
    <2> QED
      BY ONLY <2>1, CompareEqual, ZenonT(20)
  <1>5. ~(Above(g, h) /\ Above(h, g)) /\ (g = h => ~Above(g, h) /\ ~Above(h, g))
        /\ (g # h => Above(g, h) \/ Above(h, g))
    BY AboveTotal
  <1> QED
    BY <1>2, <1>3, <1>4, <1>5 DEF Compare

\* Strings of bytes sort as the bytes do.
LEMMA CompareStr ==
    ASSUME NEW v \in Seq(Byte), NEW w \in Seq(Byte), Len(v) = Len(w)
    PROVE  Compare(Str(v), Str(w)) = Compare(v, w)
  <1> DEFINE n == Len(v)
  <1>1. ASSUME NEW a \in Seq(Byte), NEW b \in Seq(Byte), Len(a) = n, Len(b) = n
        PROVE  Above(Str(a), Str(b)) <=> Above(a, b)
    <2> DEFINE s == Str(a)
               t == Str(b)
    <2>1. /\ n \in Nat /\ DOMAIN s = 1 .. 2 * n + 1 /\ DOMAIN t = 1 .. 2 * n + 1
          /\ s[2 * n + 1] = NUL /\ t[2 * n + 1] = NUL
      <3>1. /\ Len(a) \in Nat /\ s \in Seq(Nat) /\ t \in Seq(Nat)
            /\ Len(s) = 2 * Len(a) + 1 /\ Len(t) = 2 * Len(b) + 1
            /\ s[2 * Len(a) + 1] = NUL /\ t[2 * Len(b) + 1] = NUL
        BY StrAt
      <3>2. DOMAIN s = 1 .. Len(s) /\ DOMAIN t = 1 .. Len(t)
        <4> HIDE DEF s, t
        <4> QED
          BY <3>1
      <3> HIDE DEF s, t, n
      <3> QED
        BY <1>1, <3>1, <3>2
    <2>2. ASSUME NEW i \in 1 .. n
          PROVE  /\ a[i] \in Byte /\ b[i] \in Byte
                 /\ s[2 * i - 1] > t[2 * i - 1] <=> a[i] \div 16 > b[i] \div 16
                 /\ s[2 * i] > t[2 * i] <=> a[i] % 16 > b[i] % 16
                 /\ s[2 * i - 1] = t[2 * i - 1] <=> a[i] \div 16 = b[i] \div 16
                 /\ s[2 * i] = t[2 * i] <=> a[i] % 16 = b[i] % 16
      <3>1. a[i] \in Byte /\ b[i] \in Byte
        BY <1>1
      <3>2. /\ a[i] \div 16 \in Nibble /\ b[i] \div 16 \in Nibble
            /\ a[i] % 16 \in Nibble /\ b[i] % 16 \in Nibble
        BY <3>1, Nibbles
      <3>3. /\ s[2 * i - 1] = hex2char(a[i] \div 16) /\ s[2 * i] = hex2char(a[i] % 16)
            /\ t[2 * i - 1] = hex2char(b[i] \div 16) /\ t[2 * i] = hex2char(b[i] % 16)
        BY <1>1, StrAt
      <3>4. \A x, y \in Nibble : hex2char(x) = hex2char(y) <=> x = y
        BY DigitFacts
      <3> QED
        BY <3>1, <3>2, <3>3, <3>4, DigitFacts
    <2> HIDE DEF s, t, n
    <2>3. \A i \in 1 .. n :
            /\ a[i] = 16 * (a[i] \div 16) + (a[i] % 16)
            /\ b[i] = 16 * (b[i] \div 16) + (b[i] % 16)
            /\ a[i] \div 16 \in Nibble /\ b[i] \div 16 \in Nibble
            /\ a[i] % 16 \in Nibble /\ b[i] % 16 \in Nibble
      BY <2>2, Nibbles
    <2>4. ASSUME NEW i \in 1 .. n
          PROVE  (\A k \in 1 .. 2 * i - 2 : s[k] = t[k]) <=> (\A j \in 1 .. i - 1 : a[j] = b[j])
      <3>1. ASSUME \A k \in 1 .. 2 * i - 2 : s[k] = t[k], NEW j \in 1 .. i - 1
            PROVE  a[j] = b[j]
        <4>1. 2 * j - 1 \in 1 .. 2 * i - 2 /\ 2 * j \in 1 .. 2 * i - 2 /\ j \in 1 .. n
          BY <2>1
        <4> QED
          BY <2>2, <2>3, <3>1, <4>1
      <3>2. ASSUME \A j \in 1 .. i - 1 : a[j] = b[j], NEW k \in 1 .. 2 * i - 2
            PROVE  s[k] = t[k]
        <4>1. PICK j \in 1 .. i - 1 : k = 2 * j - 1 \/ k = 2 * j
          <5>1. (k + 1) \div 2 \in 1 .. i - 1
                /\ (k = 2 * ((k + 1) \div 2) - 1 \/ k = 2 * ((k + 1) \div 2))
            BY <2>1
          <5> QED
            BY <5>1
        <4>2. j \in 1 .. n /\ a[j] = b[j]
          BY <2>1, <3>2
        <4> QED
          BY <2>2, <4>1, <4>2
      <3> QED
        BY <3>1, <3>2
    <2>5. ASSUME NEW i \in 1 .. n
          PROVE  AboveAt(a, b, i) <=> AboveAt(s, t, 2 * i - 1) \/ AboveAt(s, t, 2 * i)
      <3>1. (\A k \in 1 .. 2 * i - 1 : s[k] = t[k])
              <=> (\A k \in 1 .. 2 * i - 2 : s[k] = t[k]) /\ s[2 * i - 1] = t[2 * i - 1]
        <4>1. \A k \in 1 .. 2 * i - 1 : k \in 1 .. 2 * i - 2 \/ k = 2 * i - 1
          BY <2>1
        <4>2. 2 * i - 1 \in 1 .. 2 * i - 1 /\ \A k \in 1 .. 2 * i - 2 : k \in 1 .. 2 * i - 1
          BY <2>1
        <4> QED
          BY <4>1, <4>2
      <3>2. a[i] > b[i] <=> \/ a[i] \div 16 > b[i] \div 16
                            \/ a[i] \div 16 = b[i] \div 16 /\ a[i] % 16 > b[i] % 16
        <4> DEFINE p == a[i] \div 16
                   q == a[i] % 16
                   x == b[i] \div 16
                   y == b[i] % 16
        <4>1. /\ p \in 0 .. 15 /\ q \in 0 .. 15 /\ x \in 0 .. 15 /\ y \in 0 .. 15
              /\ a[i] = 16 * p + q /\ b[i] = 16 * x + y
          BY <2>3 DEF Nibble
        <4> HIDE DEF p, q, x, y
        <4>2. 16 * p + q > 16 * x + y <=> p > x \/ (p = x /\ q > y)
          BY <4>1
        <4> QED
          BY <4>1, <4>2 DEF p, q, x, y
      <3>3. (2 * i - 1) - 1 = 2 * i - 2
        BY <2>1
      <3> QED
        BY <2>2, <2>4, <3>1, <3>2, <3>3 DEF AboveAt
    <2>6. Above(s, t) <=> \E k \in 1 .. 2 * n + 1 : AboveAt(s, t, k)
      BY <2>1 DEF Above, AboveAt
    <2>7. ~AboveAt(s, t, 2 * n + 1)
      BY <2>1 DEF AboveAt, NUL
    <2>8. (\E k \in 1 .. 2 * n + 1 : AboveAt(s, t, k))
            <=> \E i \in 1 .. n : AboveAt(s, t, 2 * i - 1) \/ AboveAt(s, t, 2 * i)
      <3>1. ASSUME NEW k \in 1 .. 2 * n + 1, AboveAt(s, t, k)
            PROVE  \E i \in 1 .. n : k = 2 * i - 1 \/ k = 2 * i
        <4>1. k # 2 * n + 1
          BY <2>7, <3>1
        <4>2. (k + 1) \div 2 \in 1 .. n
              /\ (k = 2 * ((k + 1) \div 2) - 1 \/ k = 2 * ((k + 1) \div 2))
          BY <2>1, <4>1
        <4> QED
          BY <4>2
      <3>2. \A i \in 1 .. n : 2 * i - 1 \in 1 .. 2 * n + 1 /\ 2 * i \in 1 .. 2 * n + 1
        BY <2>1
      <3> QED
        BY <3>1, <3>2
    <2>9. Above(a, b) <=> \E i \in 1 .. n : AboveAt(a, b, i)
      <3>1. DOMAIN a = 1 .. n
        BY <1>1 DEF n
      <3> QED
        BY <3>1 DEF Above, AboveAt
    <2> QED
      BY <2>5, <2>6, <2>8, <2>9 DEF s, t
  <1>2. Above(Str(v), Str(w)) <=> Above(v, w)
    BY <1>1
  <1>3. Above(Str(w), Str(v)) <=> Above(w, v)
    BY <1>1
  <1> QED
    BY <1>2, <1>3 DEF Compare
-----------------------------------------------------------------------------
(***************************************************************************)
(* The serial of a device.                                                 *)
(***************************************************************************)
Word8 == [1 .. 8 -> Byte]

\* A word as a sequence.
LEMMA WordSeq ==
    ASSUME NEW v \in Word8
    PROVE  v \in Seq(Byte) /\ Len(v) = 8 /\ v \in [1 .. 8 -> Nat] /\ DOMAIN v = 1 .. 8
  <1>1. v \in [1 .. 8 -> Byte]
    BY DEF Word8
  <1> DEFINE n == 8
  <1>2. n \in Nat /\ v \in [1 .. n -> Byte]
    BY <1>1
  <1> HIDE DEF n
  <1>3. v \in Seq(Byte) /\ Len(v) = n
    BY ONLY <1>2
  <1>4. \A i \in 1 .. 8 : v[i] \in Nat
    BY <1>1 DEF Byte
  <1>5. v \in [1 .. 8 -> Nat]
    BY <1>1, <1>4
  <1> QED
    BY <1>1, <1>3, <1>5 DEF n

\* A word swapped in its bytes and then written with the lowest byte first has
\* the highest byte first.
LEMMA SwappedTwice ==
    ASSUME NEW v \in Word8
    PROVE  Memory(bswap64(v)) = v
  <1> DEFINE r == Reverse(v)
  <1>1. r = [i \in 1 .. 8 |-> v[8 - i + 1]]
    BY WordSeq DEF Reverse
  <1>2. r \in [1 .. 8 -> Byte]
    BY <1>1 DEF Word8
  <1> HIDE DEF r
  <1>3. Len(r) = 8
    BY <1>2
  <1>4. Reverse(r) = [i \in 1 .. 8 |-> r[8 - i + 1]]
    BY <1>3 DEF Reverse
  <1>5. \A i \in 1 .. 8 : 8 - i + 1 \in 1 .. 8 /\ r[8 - i + 1] = v[i]
    BY <1>1
  <1>6. Reverse(r) = v
    BY <1>4, <1>5, WordSeq DEF Word8
  <1> QED
    BY <1>6 DEF Memory, bswap64, r

\* Two words one after the other.
LEMMA JointFacts ==
    ASSUME NEW v \in Word8, NEW w \in Word8
    PROVE  /\ v \o w = Joint(v, w)
           /\ Joint(v, w) \in [1 .. 16 -> Byte]
           /\ Joint(v, w) \in Seq(Byte)
           /\ Len(Joint(v, w)) = 16
  <1> DEFINE j == Joint(v, w)
  <1>1. v \in Seq(Byte) /\ w \in Seq(Byte)
    BY WordSeq
  <1>2. /\ v \o w \in Seq(Byte) /\ Len(v \o w) = Len(v) + Len(w)
        /\ \A i \in 1 .. Len(v) + Len(w) : (v \o w)[i] =
               IF i <= Len(v) THEN v[i] ELSE w[i - Len(v)]
    BY <1>1, ConcatProperties
  <1>3. Len(v) = 8 /\ Len(w) = 8
    BY WordSeq
  <1> DEFINE c == v \o w
  <1> HIDE DEF c
  <1>4. c \in Seq(Byte) /\ Len(c) = 16 /\ \A i \in 1 .. 16 : c[i] = IF i <= 8 THEN v[i] ELSE w[i - 8]
    BY <1>2, <1>3 DEF c
  <1>5. c = [i \in 1 .. 16 |-> c[i]]
    BY <1>4
  <1>6. c = j
    BY <1>4, <1>5 DEF Joint
  <1>7. c \in [1 .. 16 -> Byte]
    <2>1. c \in Seq(Byte)
      BY <1>4
    <2>2. c \in [1 .. Len(c) -> Byte]
      BY <2>1
    <2> QED
      BY <1>4, <2>2
  <1> HIDE DEF j
  <1> QED
    BY <1>4, <1>6, <1>7 DEF c, j

\* Serial, string and canonical form of a hash are its sixteen bytes, from the
\* highest to the lowest.
LEMMA SerialFacts ==
    ASSUME NEW hash \in [{"low64", "high64"} -> Word8]
    PROVE  LET b == Joint(hash.high64, hash.low64)
           IN /\ SerialOf(hash) = b
              /\ XXH128_canonicalFromHash(hash) = b
              /\ SerialStr(hash) = Str(b)
              /\ XXH128_hashFromCanonical(b) = hash
  <1> DEFINE h == hash.high64
             l == hash.low64
             b == Joint(h, l)
  <1>1. h \in Word8 /\ l \in Word8
    OBVIOUS
  <1>2. Memory(bswap64(h)) = h /\ Memory(bswap64(l)) = l
    BY <1>1, SwappedTwice
  <1>3. h \o l = b /\ b \in Seq(Byte) /\ Len(b) = 16 /\ b \in [1 .. 16 -> Byte]
    BY <1>1, JointFacts
  <1>4. SerialOf(hash) = b /\ XXH128_canonicalFromHash(hash) = b
    BY <1>2, <1>3 DEF SerialOf, XXH128_canonicalFromHash
  <1>5. SerialStr(hash) = Str(b)
    <2> DEFINE digits == HexDigits(h \o l)
    <2>1. digits \in Seq(Nat) /\ Len(digits) = 32
      <3>1. /\ HexDigits(b) \in Seq(Nat)
            /\ Len(HexDigits(b)) = 2 * Len(b)
        BY <1>3, DigitsAt
      <3> QED
        BY <1>3, <3>1
    <2> HIDE DEF digits
    <2>2. Min({Len(digits), SERIAL_STR_LEN - 1}) = 32
      <3>1. {Len(digits), SERIAL_STR_LEN - 1} = {32}
        BY <2>1 DEF SERIAL_STR_LEN, SERIAL_LEN
      <3>2. Min({32}) = 32
        BY DEF Min
      <3> QED
        BY <3>1, <3>2
    <2>3. SubSeq(digits, 1, 32) = digits
      BY <2>1
    <2>4. SerialStr(hash) = Append(SubSeq(digits, 1, Min({Len(digits), SERIAL_STR_LEN - 1})), NUL)
      BY DEF SerialStr, digits
    <2> QED
      BY <1>3, <2>2, <2>3, <2>4 DEF digits, Str
  <1>6. XXH128_hashFromCanonical(b) = hash
    <2>1. SubSeq(b, 1, 8) = [i \in 1 .. 8 |-> b[i]]
          /\ SubSeq(b, 9, 16) = [i \in 1 .. 8 |-> b[i + 8]]
      <3> HIDE DEF b
      <3> QED
        BY <1>3
    <2>2. [i \in 1 .. 8 |-> b[i]] = h /\ [i \in 1 .. 8 |-> b[i + 8]] = l
      BY <1>1 DEF Joint, Word8
    <2>3. hash = [high64 |-> h, low64 |-> l]
      OBVIOUS
    <2> HIDE DEF b, h, l
    <2> QED
      BY <2>1, <2>2, <2>3 DEF XXH128_hashFromCanonical
  <1> QED
    BY <1>4, <1>5, <1>6

\* The bytes of the hash of a device, the highest first.
HashBytes(d) == Joint(Hash(Mac(d)).high64, Hash(Mac(d)).low64)

LEMMA DeviceFacts ==
    ASSUME NEW d \in Devices
    PROVE  /\ Hash(Mac(d)) \in [{"low64", "high64"} -> Word8]
           /\ HashBytes(d) \in [1 .. 16 -> Byte]
           /\ HashBytes(d) \in Seq(Byte) /\ Len(HashBytes(d)) = 16
           /\ AllIds(d).serial = HashBytes(d)
           /\ AllIds(d).serial_str = Str(HashBytes(d))
           /\ XXH128_canonicalFromHash(Hash(Mac(d))) = HashBytes(d)
           /\ XXH128_hashFromCanonical(HashBytes(d)) = Hash(Mac(d))
           /\ AllIds(d).device_id = Mac(d)
           /\ AllIds(d).device_id_str = Str(Mac(d))
           /\ Mac(d) \in Seq(Byte)
  <1> DEFINE hash == Hash(Mac(d))
  <1>1. hash \in [{"low64", "high64"} -> Word8] /\ hash.high64 \in Word8 /\ hash.low64 \in Word8
    BY DeviceIdsAssumption DEF Word8
  <1>2. /\ HashBytes(d) \in [1 .. 16 -> Byte]
        /\ HashBytes(d) \in Seq(Byte) /\ Len(HashBytes(d)) = 16
    BY <1>1, JointFacts DEF HashBytes
  <1>3. /\ SerialOf(hash) = HashBytes(d)
        /\ SerialStr(hash) = Str(HashBytes(d))
        /\ XXH128_canonicalFromHash(hash) = HashBytes(d)
        /\ XXH128_hashFromCanonical(HashBytes(d)) = hash
    BY <1>1, SerialFacts DEF HashBytes
  <1>4. Mac(d) \in Seq(Byte) /\ Len(Mac(d)) = 6
    <2> DEFINE n == DEVICE_ID_LEN
               mac == Mac(d)
    <2>1. n \in Nat /\ mac \in [1 .. n -> Byte]
      BY DeviceIdsAssumption DEF DEVICE_ID_LEN
    <2> HIDE DEF n, mac
    <2>2. mac \in Seq(Byte) /\ Len(mac) = n
      BY <2>1
    <2> QED
      BY <2>2 DEF n, mac, DEVICE_ID_LEN
  <1>5. bin2hex(Mac(d), DEVICE_ID_STR_LEN).hex = Str(Mac(d))
    BY <1>4 DEF bin2hex, Str, DEVICE_ID_STR_LEN, DEVICE_ID_LEN
  <1> QED
    BY <1>1, <1>2, <1>3, <1>4, <1>5 DEF AllIds

\* No step changes the device.
Known == device \in Devices

LEMMA DeviceStays == Spec => []Known
  <1>1. Init => Known
    BY DEF Init, Known
  <1>2. Known /\ [Next]_vars => Known'
    BY DEF Known, Next, vars, Boot, PowerCycle, Reset, Task, decrypt_data, HashStep, HashFails,
           HashReturns, CipherStep, CipherFails, CipherReturns, https_get_rejects, https_get,
           HttpStep, NoClient, Performs, PerformFails, Begin, Continue, Return, SetUp
  <1> QED
    BY <1>1, <1>2, PTL DEF Spec

(***************************************************************************)
(* Whatever a device's addresses and their hash: nvram_read_ids (nvram.c)  *)
(* writes bytes and strings of one number, the canonical form of the hash. *)
(***************************************************************************)
THEOREM OneSerial == Spec => []SerialFormsAgree
  <1>1. Known => SerialFormsAgree
    <2> SUFFICES ASSUME device \in Devices, ids = AllIds(device)
                 PROVE  FormsAgree(ids, device)
      BY DEF SerialFormsAgree, Identified, Known
    <2>1. /\ Bytes(Str(HashBytes(device))) = HashBytes(device)
          /\ Bytes(Str(Mac(device))) = Mac(device)
      BY DeviceFacts, StrReadsBack
    <2> QED
      BY <2>1, DeviceFacts DEF FormsAgree
  <1> QED
    BY <1>1, DeviceStays, PTL

(***************************************************************************)
(* No two devices of a fleet of any size have the same serial, as bytes or *)
(* as a string.                                                            *)
(***************************************************************************)
THEOREM OwnSerial == Spec => []SerialsDiffer
  <1>1. Known => SerialsDiffer
    <2> SUFFICES ASSUME device \in Devices, ids = AllIds(device), NEW d \in Devices, d # device
                 PROVE  ids.serial # AllIds(d).serial /\ ids.serial_str # AllIds(d).serial_str
      BY DEF SerialsDiffer, Identified, Known
    <2>1. Hash(Mac(d)) # Hash(Mac(device))
      BY DeviceIdsAssumption
    <2>2. HashBytes(d) # HashBytes(device)
      <3>1. /\ XXH128_hashFromCanonical(HashBytes(d)) = Hash(Mac(d))
            /\ XXH128_hashFromCanonical(HashBytes(device)) = Hash(Mac(device))
        BY DeviceFacts
      <3> QED
        BY <2>1, <3>1
    <2>3. Str(HashBytes(d)) # Str(HashBytes(device))
      <3>1. /\ Bytes(Str(HashBytes(d))) = HashBytes(d)
            /\ Bytes(Str(HashBytes(device))) = HashBytes(device)
        BY DeviceFacts, StrReadsBack
      <3> QED
        BY <2>2, <3>1
    <2> QED
      BY <2>2, <2>3, DeviceFacts
  <1> QED
    BY <1>1, DeviceStays, PTL

(***************************************************************************)
(* Devices sort in XXH128_cmp of their hashes (xxhash.h) as they do in     *)
(* their serials and in the strings of those, for any hashes.              *)
(***************************************************************************)
THEOREM SerialsInOrder == Spec => []SerialsSort
  <1>1. ASSUME NEW d \in Devices, NEW e \in Devices
        PROVE  OrderAgrees(d, e)
    <2> DEFINE g == Hash(Mac(d))
               h == Hash(Mac(e))
    <2>1. /\ g.high64 \in Word8 /\ g.low64 \in Word8 /\ h.high64 \in Word8 /\ h.low64 \in Word8
          /\ g \in [{"low64", "high64"} -> Word8] /\ h \in [{"low64", "high64"} -> Word8]
      BY DeviceFacts
    <2>2. XXH128_cmp(g, h) = Compare(HashBytes(d), HashBytes(e))
      <3>1. /\ g.high64 \in [1 .. 8 -> Nat] /\ g.low64 \in [1 .. 8 -> Nat]
            /\ h.high64 \in [1 .. 8 -> Nat] /\ h.low64 \in [1 .. 8 -> Nat]
        BY <2>1, WordSeq
      <3> QED
        BY <3>1, CompareJoint DEF XXH128_cmp, HashBytes
    <2>3. Compare(Str(HashBytes(d)), Str(HashBytes(e))) = Compare(HashBytes(d), HashBytes(e))
      <3>1. /\ HashBytes(d) \in Seq(Byte) /\ HashBytes(e) \in Seq(Byte)
            /\ Len(HashBytes(d)) = Len(HashBytes(e))
        BY DeviceFacts
      <3> QED
        BY <3>1, CompareStr
    <2>4. XXH128_cmp(g, h) = 0 <=> g = h
      <3>1. Compare(HashBytes(d), HashBytes(e)) = 0 <=> HashBytes(d) = HashBytes(e)
        <4> DEFINE n == 16
        <4>1. /\ n \in Nat /\ HashBytes(d) \in [1 .. n -> Byte] /\ HashBytes(e) \in [1 .. n -> Byte]
          BY DeviceFacts
        <4>2. \A b \in Byte : b \in Nat
          BY DEF Byte
        <4> HIDE DEF n
        <4>3. HashBytes(d) \in [1 .. n -> Nat] /\ HashBytes(e) \in [1 .. n -> Nat]
          BY <4>1, <4>2
        <4> QED
          BY <4>1, <4>3, CompareEqual
      <3>2. HashBytes(d) = HashBytes(e) <=> g = h
        <4>1. /\ XXH128_hashFromCanonical(HashBytes(d)) = g
              /\ XXH128_hashFromCanonical(HashBytes(e)) = h
          BY DeviceFacts
        <4> QED
          BY <4>1 DEF HashBytes
      <3> QED
        BY <2>2, <3>1, <3>2
    <2>5. XXH128_isEqual(g, h) <=> g = h
      <3>1. \A v \in Word8 : Memory(v) \in Word8 /\ Reverse(Memory(v)) = v
        <4> SUFFICES ASSUME NEW v \in Word8 PROVE Memory(v) \in Word8 /\ Reverse(Memory(v)) = v
          OBVIOUS
        <4>1. Memory(v) = [i \in 1 .. 8 |-> v[8 - i + 1]]
          BY WordSeq DEF Memory, Reverse
        <4>2. Memory(v) \in Word8
          BY <4>1 DEF Word8
        <4> QED
          BY <4>2, SwappedTwice DEF Memory, bswap64
      <3>2. ASSUME HashMemory(g) = HashMemory(h) PROVE g = h
        <4> DEFINE a == Memory(g.low64)
                   b == Memory(g.high64)
                   x == Memory(h.low64)
                   y == Memory(h.high64)
        <4>1. a \in Word8 /\ b \in Word8 /\ x \in Word8 /\ y \in Word8
          BY <2>1, <3>1
        <4>2. Joint(a, b) = Joint(x, y)
          BY <3>2, <4>1, JointFacts DEF HashMemory
        <4>3. a = x /\ b = y
          <5> HIDE DEF a, b, x, y
          <5>1. \A i \in 1 .. 8 : Joint(a, b)[i] = a[i] /\ Joint(x, y)[i] = x[i]
                                  /\ Joint(a, b)[i + 8] = b[i] /\ Joint(x, y)[i + 8] = y[i]
            BY DEF Joint
          <5> QED
            BY <4>1, <4>2, <5>1 DEF Word8
        <4>4. g.low64 = h.low64 /\ g.high64 = h.high64
          BY <2>1, <3>1, <4>3
        <4> QED
          BY <2>1, <4>4
      <3> QED
        BY <3>2 DEF XXH128_isEqual
    <2>6. (XXH128_cmp(g, h) = 0) = XXH128_isEqual(g, h)
      <3>1. XXH128_isEqual(g, h) \in BOOLEAN
        BY DEF XXH128_isEqual
      <3> HIDE DEF g, h
      <3> QED
        BY <2>4, <2>5, <3>1
    <2>7. /\ AllIds(d).serial = HashBytes(d) /\ AllIds(d).serial_str = Str(HashBytes(d))
          /\ AllIds(e).serial = HashBytes(e) /\ AllIds(e).serial_str = Str(HashBytes(e))
      BY DeviceFacts
    <2>8. /\ XXH128_cmp(g, h) = Compare(AllIds(d).serial, AllIds(e).serial)
          /\ XXH128_cmp(g, h) = Compare(AllIds(d).serial_str, AllIds(e).serial_str)
      BY <2>2, <2>3, <2>7
    <2> QED
      BY <2>6, <2>8, Zenon DEF OrderAgrees
  <1>2. Known => SerialsSort
    BY <1>1 DEF SerialsSort, Known
  <1> QED
    BY <1>2, DeviceStays, PTL

(***************************************************************************)
(* bin2hex (utils.c) on the buffers the runs look at; HexAlways is the     *)
(* same for every buffer and every room.                                   *)
(***************************************************************************)
THEOREM HexReadable == Spec => []HexStringsReadBack
  <1>1. AllBytes \subseteq Seq(Byte)
    <2>1. 0 \in Byte /\ 255 \in Byte /\ 160 \in Byte /\ 9 \in Byte /\ 16 \in Byte
      BY DEF Byte
    <2> DEFINE Ones == {<<b>> : b \in Byte}
               Others == {<<>>, <<0, 255>>, <<160, 9, 16>>}
    <2>2. Ones \subseteq Seq(Byte)
      OBVIOUS
    <2>3. Others \subseteq Seq(Byte)
      <3>1. <<>> \in Seq(Byte)
        OBVIOUS
      <3>2. <<0, 255>> \in Seq(Byte)
        BY <2>1
      <3>3. <<160, 9, 16>> \in Seq(Byte)
        BY <2>1
      <3> QED
        BY <3>1, <3>2, <3>3, Zenon
    <2>4. AllBytes = Ones \cup Others
      BY Zenon DEF AllBytes
    <2> HIDE DEF Ones, Others
    <2> QED
      BY <2>2, <2>3, <2>4
  <1>2. HexStringsReadBack
    BY <1>1, HexAlways DEF HexStringsReadBack
  <1> QED
    BY <1>2, PTL
=============================================================================
