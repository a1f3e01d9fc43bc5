---------------------------- MODULE NvramProofs ----------------------------
(***************************************************************************)
(* What holds of Nvram for every set of tasks and every set of values.     *)
(***************************************************************************)
EXTENDS NvramRefinement, SequenceTheorems, TLAPS

-----------------------------------------------------------------------------
(***************************************************************************)
(* The shape of the parameter records.                                     *)
(***************************************************************************)

\* A cell belongs to the record whose key it carries.
LEMMA CellKeys ==
    /\ \A c \in Cell : KeyOf(c) \in Keys /\ c \in CellsOf(KeyOf(c))
    /\ \A k \in Keys : CellsOf(k) \subseteq Cell /\ \A c \in CellsOf(k) : KeyOf(c) = k
  BY DEF Cell, CellsOf, KeyOf

\* prov_done is a cell of the misc record, and misc is in the boot chain.
LEMMA ProvDoneCell == ProvDone \in Cell /\ KeyOf(ProvDone) = "misc"
  BY DEF ProvDone, Cell, CellsOf, KeyOf, FieldsOf, Keys

\* The words are the values of nvdata after its initialisation.
LEMMA DefaultWord == Default \in [Cell -> Word]
  BY DEF Default, Word

\* A word stored into a field of a record.
LEMMA StoreIsStores ==
    ASSUME NEW k \in Keys, NEW f \in FieldsOf[k], NEW v \in Word
    PROVE  /\ Store(k, f, v) \in Stores
           /\ Store(k, f, v).cell \in CellsOf(k)
  BY DEF Store, Stores, Cell, CellsOf

\* A setter persists the record whose fields it stores into.
WellFormedCall(call) ==
    /\ call.key \in Keys
    /\ call.stores \in Seq(Stores)
    /\ \A i \in DOMAIN call.stores : call.stores[i].cell \in CellsOf(call.key)

\* A pointer argument that is NULL stores nothing, any other stores its value.
LEMMA OptionalFacts ==
    ASSUME NEW k \in Keys, NEW f \in FieldsOf[k], NEW v \in Word
    PROVE  /\ Optional(k, f, v) \in Seq(Stores)
           /\ \A i \in DOMAIN Optional(k, f, v) : Optional(k, f, v)[i].cell \in CellsOf(k)
  <1>1. Store(k, f, v) \in Stores /\ Store(k, f, v).cell \in CellsOf(k)
    BY StoreIsStores
  <1> DEFINE s == Store(k, f, v)
  <1>2. s \in Stores /\ s.cell \in CellsOf(k)
    BY <1>1
  <1> HIDE DEF s
  <1>3. <<s>> \in Seq(Stores) /\ \A i \in DOMAIN <<s>> : <<s>>[i].cell \in CellsOf(k)
    BY <1>2
  <1>4. CASE v = ZERO
    BY <1>4 DEF Optional
  <1>5. CASE v # ZERO
    BY <1>3, <1>5 DEF Optional, s
  <1>6. QED
    BY <1>4, <1>5

\* Stores into one record, one after the other, are stores into that record.
LEMMA ConcatFacts ==
    ASSUME NEW k \in Keys, NEW s \in Seq(Stores), NEW r \in Seq(Stores),
           \A i \in DOMAIN s : s[i].cell \in CellsOf(k),
           \A i \in DOMAIN r : r[i].cell \in CellsOf(k)
    PROVE  /\ s \o r \in Seq(Stores)
           /\ \A i \in DOMAIN (s \o r) : (s \o r)[i].cell \in CellsOf(k)
  <1>1. s \o r \in Seq(Stores)
    OBVIOUS
  <1>2. ASSUME NEW i \in DOMAIN (s \o r)
        PROVE  (s \o r)[i].cell \in CellsOf(k)
    <2>1. i \in 1 .. Len(s) + Len(r)
      BY <1>2
    <2>2. CASE i <= Len(s)
      BY <2>1, <2>2
    <2>3. CASE i > Len(s)
      <3>1. (s \o r)[i] = r[i - Len(s)] /\ i - Len(s) \in DOMAIN r
        BY <2>1, <2>3
      <3>2. QED
        BY <3>1
    <2>4. QED
      BY <2>1, <2>2, <2>3
  <1>3. QED
    BY <1>1, <1>2

\* Every call of every setter is well formed.
LEMMA CallFacts == \A call \in Calls : WellFormedCall(call)
  <1>1. ASSUME NEW call \in CallsOf.nvram_set_net_params PROVE WellFormedCall(call)
    <2>1. \A f \in {"proto", "ip_info", "primary_dns", "secondary_dns"} : f \in FieldsOf["net"]
      BY DEF FieldsOf
    <2>2. "net" \in Keys /\ {DHCP, STATIC, ZERO} \subseteq Word /\ Data \subseteq Word
      BY DEF Keys, Word, DHCP, STATIC, true, ZERO
    <2>3. CASE call = nvram_set_net_params(true, ZERO, ZERO, ZERO)
      <3>1. Store("net", "proto", DHCP) \in Stores
            /\ Store("net", "proto", DHCP).cell \in CellsOf("net")
        BY <2>1, <2>2, StoreIsStores
      <3>2. QED
        BY <2>2, <2>3, <3>1 DEF nvram_set_net_params, WellFormedCall, true
    <2>4. ASSUME NEW v \in Data, NEW w \in Data \cup {ZERO},
                 call = nvram_set_net_params(false, v, v, w)
          PROVE  WellFormedCall(call)
      <3> DEFINE a == Store("net", "proto", STATIC)
                 b == Store("net", "ip_info", v)
                 d == Store("net", "primary_dns", v)
                 opt == Optional("net", "secondary_dns", w)
      <3>1. /\ a \in Stores /\ a.cell \in CellsOf("net")
            /\ b \in Stores /\ b.cell \in CellsOf("net")
            /\ d \in Stores /\ d.cell \in CellsOf("net")
        BY <2>1, <2>2, StoreIsStores
      <3>2. opt \in Seq(Stores) /\ \A i \in DOMAIN opt : opt[i].cell \in CellsOf("net")
        BY <2>1, <2>2, OptionalFacts
      <3>3. call = [key |-> "net", stores |-> <<a, b, d>> \o opt]
        BY <2>4 DEF nvram_set_net_params, true, false
      <3> HIDE DEF a, b, d, opt
      <3>4. <<a, b, d>> \in Seq(Stores)
            /\ \A i \in DOMAIN <<a, b, d>> : <<a, b, d>>[i].cell \in CellsOf("net")
        BY <3>1
      <3>5. <<a, b, d>> \o opt \in Seq(Stores)
            /\ \A i \in DOMAIN (<<a, b, d>> \o opt) :
                 (<<a, b, d>> \o opt)[i].cell \in CellsOf("net")
        BY <2>2, <3>2, <3>4, ConcatFacts
      <3>6. QED
        BY <2>2, <3>3, <3>5 DEF WellFormedCall
    <2>5. \/ call = nvram_set_net_params(true, ZERO, ZERO, ZERO)
          \/ \E v \in Data, w \in Data \cup {ZERO} :
               call = nvram_set_net_params(false, v, v, w)
      BY <1>1 DEF CallsOf
    <2>6. QED
      BY <2>3, <2>4, <2>5
  <1>2. ASSUME NEW call \in CallsOf.nvram_set_mqtt_params PROVE WellFormedCall(call)
    <2>1. \A f \in {"enable", "host", "id", "pw"} : f \in FieldsOf["mqtt"]
      BY DEF FieldsOf
    <2>2. "mqtt" \in Keys /\ {true, ZERO} \subseteq Word /\ Data \subseteq Word
      BY DEF Keys, Word, true, ZERO
    <2>3. CASE call = nvram_set_mqtt_params(false, ZERO, ZERO, ZERO)
      BY <2>2, <2>3 DEF nvram_set_mqtt_params, WellFormedCall, true, false
    <2>4. ASSUME NEW v \in Data, NEW w \in Data \cup {ZERO},
                 call = nvram_set_mqtt_params(true, v, w, w)
          PROVE  WellFormedCall(call)
      <3> DEFINE a == Store("mqtt", "enable", true)
                 b == Store("mqtt", "host", v)
                 id == Optional("mqtt", "id", w)
                 pw == Optional("mqtt", "pw", w)
      <3>1. /\ a \in Stores /\ a.cell \in CellsOf("mqtt")
            /\ b \in Stores /\ b.cell \in CellsOf("mqtt")
        BY <2>1, <2>2, StoreIsStores
      <3>2. /\ id \in Seq(Stores) /\ \A i \in DOMAIN id : id[i].cell \in CellsOf("mqtt")
            /\ pw \in Seq(Stores) /\ \A i \in DOMAIN pw : pw[i].cell \in CellsOf("mqtt")
        BY <2>1, <2>2, OptionalFacts
      <3>3. call = [key |-> "mqtt", stores |-> (<<a, b>> \o id) \o pw]
        BY <2>4 DEF nvram_set_mqtt_params
      <3> HIDE DEF a, b, id, pw
      <3>4. <<a, b>> \in Seq(Stores)
            /\ \A i \in DOMAIN <<a, b>> : <<a, b>>[i].cell \in CellsOf("mqtt")
        BY <3>1
      <3> DEFINE first == <<a, b>> \o id
      <3>5. first \in Seq(Stores)
            /\ \A i \in DOMAIN first : first[i].cell \in CellsOf("mqtt")
        BY <2>2, <3>2, <3>4, ConcatFacts
      <3> HIDE DEF first
      <3>6. first \o pw \in Seq(Stores)
            /\ \A i \in DOMAIN (first \o pw) : (first \o pw)[i].cell \in CellsOf("mqtt")
        BY <2>2, <3>2, <3>5, ConcatFacts
      <3>7. QED
        BY <2>2, <3>3, <3>6 DEF WellFormedCall, first
    <2>5. \/ call = nvram_set_mqtt_params(false, ZERO, ZERO, ZERO)
          \/ \E v \in Data, w \in Data \cup {ZERO} :
               call = nvram_set_mqtt_params(true, v, w, w)
      BY <1>2 DEF CallsOf
    <2>6. QED
      BY <2>3, <2>4, <2>5
  <1>3. ASSUME NEW call \in CallsOf.nvram_set_token_params PROVE WellFormedCall(call)
    <2>1. PICK v \in Data : call = nvram_set_token_params(v, v)
      BY <1>3 DEF CallsOf
    <2> DEFINE a == Store("token", "access", v)
               b == Store("token", "refresh", v)
    <2>2. /\ a \in Stores /\ a.cell \in CellsOf("token")
          /\ b \in Stores /\ b.cell \in CellsOf("token")
      BY StoreIsStores DEF Keys, FieldsOf, Word
    <2>3. call = [key |-> "token", stores |-> <<a, b>>]
      BY <2>1 DEF nvram_set_token_params
    <2> HIDE DEF a, b
    <2>4. QED
      BY <2>2, <2>3 DEF WellFormedCall, Keys
  <1>4. ASSUME NEW call \in CallsOf.nvram_set_fold_params PROVE WellFormedCall(call)
    <2>1. PICK folds \in [0 .. NumTypes - 1 -> Data] : call = nvram_set_fold_params(folds)
      BY <1>4 DEF CallsOf
    <2>2. \A i \in 1 .. NumTypes :
            /\ Store("folds", i - 1, folds[i - 1]) \in Stores
            /\ Store("folds", i - 1, folds[i - 1]).cell \in CellsOf("folds")
      <3> SUFFICES ASSUME NEW i \in 1 .. NumTypes
                   PROVE  /\ Store("folds", i - 1, folds[i - 1]) \in Stores
                          /\ Store("folds", i - 1, folds[i - 1]).cell \in CellsOf("folds")
        OBVIOUS
      <3>1. i - 1 \in 0 .. NumTypes - 1
        BY NvramApiAssumption
      <3>2. i - 1 \in FieldsOf["folds"] /\ "folds" \in Keys
        BY <3>1 DEF FieldsOf, Keys
      <3>3. folds[i - 1] \in Word
        BY <2>1, <3>1 DEF Word
      <3>4. QED
        BY <3>2, <3>3, StoreIsStores
    <2> DEFINE s == [i \in 1 .. NumTypes |-> Store("folds", i - 1, folds[i - 1])]
    <2>3. s \in Seq(Stores)
      <3>1. s \in [1 .. NumTypes -> Stores]
        BY <2>2
      <3>2. NumTypes \in Nat
        BY NvramApiAssumption
      <3> HIDE DEF s
      <3>3. QED
        BY <3>1, <3>2
    <2>4. \A i \in DOMAIN s : s[i].cell \in CellsOf("folds")
      BY <2>2
    <2>5. call = [key |-> "folds", stores |-> s]
      BY <2>1 DEF nvram_set_fold_params
    <2> HIDE DEF s
    <2>6. QED
      BY <2>3, <2>4, <2>5 DEF WellFormedCall, Keys
  <1>5. ASSUME NEW call \in CallsOf.nvram_set_fold_param PROVE WellFormedCall(call)
    <2>1. PICK i \in 0 .. NumTypes - 1, v \in Data : call = nvram_set_fold_param(i, v)
      BY <1>5 DEF CallsOf
    <2>2. /\ Store("folds", i, v) \in Stores
          /\ Store("folds", i, v).cell \in CellsOf("folds")
      BY StoreIsStores DEF Keys, FieldsOf, Word
    <2>3. QED
      BY <2>1, <2>2 DEF nvram_set_fold_param, WellFormedCall, Keys
  <1>6. ASSUME NEW call \in CallsOf.nvram_set_beacon_params PROVE WellFormedCall(call)
    <2>1. PICK v \in {true, false} : call = nvram_set_beacon_params(v)
      BY <1>6 DEF CallsOf
    <2>2. /\ Store("beacon", "enable", v) \in Stores
          /\ Store("beacon", "enable", v).cell \in CellsOf("beacon")
      BY StoreIsStores DEF Keys, FieldsOf, Word, true, false, ZERO
    <2>3. QED
      BY <2>1, <2>2 DEF nvram_set_beacon_params, WellFormedCall, Keys
  <1>7. ASSUME NEW call \in CallsOf.nvram_set_tgs5141_param PROVE WellFormedCall(call)
    <2>1. PICK v \in Data : call = nvram_set_tgs5141_param(v)
      BY <1>7 DEF CallsOf
    <2>2. /\ Store("misc", "tgs5141", v) \in Stores
          /\ Store("misc", "tgs5141", v).cell \in CellsOf("misc")
      BY StoreIsStores DEF Keys, FieldsOf, Word
    <2>3. QED
      BY <2>1, <2>2 DEF nvram_set_tgs5141_param, WellFormedCall, Keys
  <1>8. ASSUME NEW call \in CallsOf.nvram_set_prov_done PROVE WellFormedCall(call)
    <2>1. /\ Store("misc", "prov_done", true) \in Stores
          /\ Store("misc", "prov_done", true).cell \in CellsOf("misc")
      BY StoreIsStores DEF Keys, FieldsOf, Word, true
    <2>2. QED
      <3>1. call = [key |-> "misc", stores |-> <<Store("misc", "prov_done", true)>>]
        BY <1>8 DEF CallsOf, nvram_set_prov_done
      <3>2. QED
        BY <2>1, <3>1 DEF WellFormedCall, Keys
  <1>9. QED
    BY <1>1, <1>2, <1>3, <1>4, <1>5, <1>6, <1>7, <1>8, NvramApiAssumption DEF Calls

-----------------------------------------------------------------------------
(***************************************************************************)
(* The inductive invariant.                                                *)
(*                                                                         *)
(* SettledMeansSaved is not inductive: it is silent while a setter runs.   *)
(* What holds then is that each difference between nvdata, NVS and flash   *)
(* is the concern of some call that is still going to remove it, or was    *)
(* reported to a caller, or comes from a record that the boot has not read.*)
(***************************************************************************)
\* Call t is still going to copy cell c into NVS, or to report that it is not
\* saved.
ToCopy(t, c) ==
    /\ c \in owned[t]
    /\ \/ pc[t] \in {"store", "open", "set_blob"}
       \/ pc[t] = "copy" /\ c \in left[t]
       \/ pc[t] = "close" /\ err[t] # "ESP_OK"

\* Call t is still going to commit cell c, or to report that it is not saved.
ToCommit(t, c) ==
    /\ c \in owned[t]
    /\ \/ pc[t] \in {"store", "open", "set_blob", "copy", "commit"}
       \/ pc[t] = "close" /\ err[t] # "ESP_OK"

\* The local state of a call: it works on the cells of its own record.
CallWellFormed(t) ==
    /\ pc[t] = "idle" <=> key[t] = "none"
    /\ pc[t] # "idle" => owned[t] \cup left[t] \subseteq CellsOf(key[t])
    /\ pc[t] = "idle" => owned[t] = {}
    /\ pc[t] # "copy" => left[t] = {}
    /\ \A i \in DOMAIN todo[t] : todo[t][i].cell \in owned[t]
    /\ todo[t] # <<>> => pc[t] = "store"
    /\ pc[t] # "close" => err[t] = "ESP_OK"

CallsWellFormed == \A t \in Tasks : CallWellFormed(t)

NvsFollowsRam ==
    \A c \in Cell : nvs[c] = ram[c] \/ c \in behind \/ \E t \in Tasks : ToCopy(t, c)

FlashFollowsNvs ==
    \A c \in Cell : flash[c] = nvs[c] \/ c \in behind \/ \E t \in Tasks : ToCommit(t, c)

UntouchedSame ==
    \A c \in Cell : KeyOf(c) \in loaded /\ c \notin touched =>
                      ram[c] = nvs[c] /\ nvs[c] = flash[c]

IInv ==
    /\ TypeOK
    /\ CallsWellFormed
    /\ up => NvsFollowsRam /\ FlashFollowsNvs /\ UntouchedSame

-----------------------------------------------------------------------------
(***************************************************************************)
(* Type correctness.                                                       *)
(***************************************************************************)
\* What a boot leaves in RAM are words: a cell is taken from the flash only if
\* its record is there.
LEMMA BootRamWord ==
    ASSUME NEW store \in [Cell -> Content], NEW read, NEW garbled,
           \A k \in (read \cup garbled) \cap Keys : Present(k, store)
    PROVE  BootRam(store, read, garbled) \in [Cell -> Word]
  <1>1. ASSUME NEW c \in Cell PROVE BootRam(store, read, garbled)[c] \in Word
    <2>1. KeyOf(c) \in read \cup garbled => store[c] \in Word
      BY CellKeys DEF Present, Content
    <2>2. QED
      BY <2>1, DefaultWord DEF BootRam, Word, false, ZERO
  <1>2. QED
    BY <1>1 DEF BootRam

\* Only records that can be read are.
LEMMA ReadAtBootFacts ==
    ASSUME NEW readable \in SUBSET Keys
    PROVE  /\ ReadAtBoot(readable) \subseteq readable
           /\ "misc" \in ReadAtBoot(readable) => ChainComplete(ReadAtBoot(readable))
  <1>1. DOMAIN Chain = 1 .. 4
        /\ Chain[1] = "net" /\ Chain[2] = "token" /\ Chain[3] = "mqtt" /\ Chain[4] = "misc"
    BY DEF Chain
  <1>2. ReadAtBoot(readable) \subseteq readable
    BY <1>1 DEF ReadAtBoot
  <1>3. ASSUME "misc" \in ReadAtBoot(readable)
        PROVE  ChainComplete(ReadAtBoot(readable))
    <2>1. \A h \in 1 .. 4 : Chain[h] \in readable
      BY <1>1, <1>3 DEF ReadAtBoot
    <2>2. \A j \in 1 .. 4 : Chain[j] \in ReadAtBoot(readable)
      BY <1>1, <2>1 DEF ReadAtBoot
    <2>3. QED
      BY <1>1, <2>2 DEF ChainComplete
  <1>4. QED
    BY <1>2, <1>3

\* The initial state has the types.
LEMMA TypeInit == Init => TypeOK
  <1> SUFFICES ASSUME Init PROVE TypeOK
    OBVIOUS
  <1>1. flash \in [Cell -> Content]
    <2>1. Factory \in [Cell -> Content]
      BY DEF Factory, Content
    <2>2. Saved \in Data
      BY NvramApiAssumption DEF Saved
    <2>3. Provisioned \in [Cell -> Word]
      BY <2>2, DefaultWord DEF Provisioned, Word
    <2>4. Provisioned \in [Cell -> Content]
      BY <2>3 DEF Content
    <2> QED
      BY <2>1, <2>4 DEF Init
  <1>2. /\ pc \in [Tasks -> PC]
        /\ key \in [Tasks -> Keys \cup {"none"}]
        /\ left \in [Tasks -> SUBSET Cell]
        /\ err \in [Tasks -> {"ESP_OK", "ESP_FAIL"}]
        /\ owned \in [Tasks -> SUBSET Cell]
    BY DEF Init, NoCall, PC
  <1>3. todo \in [Tasks -> Seq(Stores)]
    BY DEF Init, NoCall
  <1>4. QED
    BY <1>1, <1>2, <1>3, DefaultWord DEF Init, TypeOK

\* A boot preserves the types.
LEMMA TypeBoot == TypeOK /\ Boot => TypeOK'
  <1> SUFFICES ASSUME TypeOK, Boot PROVE TypeOK'
    OBVIOUS
  <1>1. PICK erase \in BOOLEAN, works \in BOOLEAN, failing \in SUBSET Keys :
          LET store    == IF erase THEN Factory ELSE flash
              readable == {k \in Keys \ failing : works /\ Present(k, store)}
              read     == ReadAtBoot(readable)
          IN \E garbled \in SUBSET {k \in failing : works /\ Present(k, store)} :
               /\ ready' = works
               /\ flash' = store
               /\ nvs' = store
               /\ ram' = BootRam(store, read, garbled)
               /\ loaded' = read
               /\ behind' = {c \in Cell : KeyOf(c) \notin read}
               /\ touched' = {}
    BY DEF Boot
  <1> DEFINE store    == IF erase THEN Factory ELSE flash
             readable == {k \in Keys \ failing : works /\ Present(k, store)}
             read     == ReadAtBoot(readable)
  <1>2. PICK garbled \in SUBSET {k \in failing : works /\ Present(k, store)} :
               /\ ready' = works
               /\ flash' = store
               /\ nvs' = store
               /\ ram' = BootRam(store, read, garbled)
               /\ loaded' = read
               /\ behind' = {c \in Cell : KeyOf(c) \notin read}
               /\ touched' = {}
    BY <1>1
  <1>3. store \in [Cell -> Content]
    BY DEF TypeOK, Factory, Content
  <1>4. read \subseteq readable
    BY ReadAtBootFacts
  <1>5. \A k \in (read \cup garbled) \cap Keys : Present(k, store)
    BY <1>4
  <1>6. ram' \in [Cell -> Word]
    <2> HIDE DEF store, read
    <2>1. QED
      BY <1>2, <1>3, <1>5, BootRamWord
  <1>7. loaded' \subseteq Keys
    BY <1>2, <1>4
  <1>8. up' = TRUE /\ UNCHANGED callVars
    BY DEF Boot
  <1> HIDE DEF store, readable, read
  <1>9. QED
    BY <1>2, <1>3, <1>6, <1>7, <1>8 DEF TypeOK, callVars

\* Starting a call preserves the types.
LEMMA TypeCall == ASSUME TypeOK, NEW t \in Tasks, Call(t) PROVE TypeOK'
  <1>1. PICK call \in Calls :
          /\ key' = [key EXCEPT ![t] = call.key]
          /\ todo' = [todo EXCEPT ![t] = call.stores]
          /\ owned' = [owned EXCEPT ![t] = CellsStored(call.stores)]
    BY DEF Call
  <1>2. WellFormedCall(call)
    BY CallFacts
  <1>3. CellsStored(call.stores) \subseteq Cell
    BY <1>2, CellKeys DEF WellFormedCall, CellsStored
  <1>4. QED
    BY <1>1, <1>2, <1>3 DEF Call, TypeOK, WellFormedCall, Goto, PC, storeVars, history

\* A store preserves the types.
LEMMA TypeStoreCell == ASSUME TypeOK, NEW t \in Tasks, StoreCell(t) PROVE TypeOK'
  <1>1. Head(todo[t]) \in Stores /\ Tail(todo[t]) \in Seq(Stores)
    BY DEF TypeOK, StoreCell
  <1>2. QED
    BY <1>1 DEF TypeOK, StoreCell, Stores

\* Every step preserves the types (nvs_set_blob needs a call with a key).
LEMMA TypeStep == TypeOK /\ CallsWellFormed /\ [Next]_vars => TypeOK'
  <1> SUFFICES ASSUME TypeOK, CallsWellFormed, [Next]_vars PROVE TypeOK'
    OBVIOUS
  <1> USE DEF Goto, PC, storeVars, history
  <1>1. CASE Boot
    BY <1>1, TypeBoot
  <1>2. CASE Crash
    <2>1. /\ pc' \in [Tasks -> PC]
          /\ key' \in [Tasks -> Keys \cup {"none"}]
          /\ left' \in [Tasks -> SUBSET Cell]
          /\ err' \in [Tasks -> {"ESP_OK", "ESP_FAIL"}]
          /\ owned' \in [Tasks -> SUBSET Cell]
      BY <1>2 DEF Crash, NoCall
    <2>2. todo' \in [Tasks -> Seq(Stores)]
      BY <1>2 DEF Crash, NoCall
    <2>3. QED
      BY <1>2, <2>1, <2>2, DefaultWord DEF Crash, TypeOK
  <1>3. ASSUME NEW t \in Tasks, SetterStep(t) PROVE TypeOK'
    <2>1. CASE Call(t)
      BY <2>1, TypeCall
    <2>2. CASE StoreCell(t)
      BY <2>2, TypeStoreCell
    <2>3. CASE CallUpdate(t)
      BY <2>3 DEF CallUpdate, TypeOK
    <2>4. CASE Open(t)
      BY <2>4 DEF Open, TypeOK
    <2>5. CASE OpenFails(t)
      BY <2>5 DEF OpenFails, Return, TypeOK
    <2>6. CASE SetBlob(t)
      <3>1. CellsOf(key[t]) \subseteq Cell
        BY <2>6, CellKeys DEF SetBlob, At, CallsWellFormed, CallWellFormed, TypeOK
      <3>2. QED
        BY <2>6, <3>1 DEF SetBlob, TypeOK
    <2>7. CASE SetBlobFails(t)
      BY <2>7 DEF SetBlobFails, TypeOK
    <2>8. CASE CopyCell(t)
      BY <2>8 DEF CopyCell, TypeOK, Content
    <2>9. CASE SetBlobReturns(t)
      BY <2>9 DEF SetBlobReturns, TypeOK
    <2>10. CASE Commit(t)
      BY <2>10 DEF Commit, Flushed, TypeOK
    <2>11. CASE CommitFails(t)
      BY <2>11 DEF CommitFails, TypeOK
    <2>12. CASE Close(t)
      BY <2>12 DEF Close, Return, TypeOK
    <2>13. QED
      BY <1>3, <2>1, <2>2, <2>3, <2>4, <2>5, <2>6, <2>7, <2>8, <2>9, <2>10, <2>11, <2>12
         DEF SetterStep
  <1>4. ASSUME NEW k \in Keys, WriteBack(k) PROVE TypeOK'
    BY <1>4 DEF WriteBack, Flushed, TypeOK, callVars
  <1>5. CASE UNCHANGED vars
    BY <1>5 DEF vars, callVars, TypeOK
  <1>6. CASE EraseFails
    <2>1. flash' \in [Cell -> Content] /\ nvs' = flash'
      BY <1>6 DEF EraseFails, TypeOK, Content
    <2>2. QED
      BY <1>6, <2>1 DEF EraseFails, callVars, TypeOK
  <1>7. QED
    BY <1>1, <1>2, <1>3, <1>4, <1>5, <1>6 DEF Next

-----------------------------------------------------------------------------
(***************************************************************************)
(* The calls stay well formed.                                             *)
(***************************************************************************)
\* A call that starts owns exactly the cells it is going to store into.
LEMMA CallKeepsWellFormed ==
    ASSUME TypeOK, CallsWellFormed, NEW t \in Tasks, Call(t)
    PROVE  CallWellFormed(t)'
  <1>1. PICK call \in Calls :
          /\ key' = [key EXCEPT ![t] = call.key]
          /\ todo' = [todo EXCEPT ![t] = call.stores]
          /\ owned' = [owned EXCEPT ![t] = CellsStored(call.stores)]
    BY DEF Call
  <1>2. WellFormedCall(call)
    BY CallFacts
  <1>3. CellsStored(call.stores) \subseteq CellsOf(call.key)
    BY <1>2 DEF WellFormedCall, CellsStored
  <1>4. /\ key'[t] = call.key
        /\ todo'[t] = call.stores
        /\ owned'[t] = CellsStored(call.stores)
        /\ pc'[t] = "store"
        /\ left'[t] = {}
        /\ err'[t] = "ESP_OK"
    BY <1>1 DEF Call, TypeOK, Goto, At, CallsWellFormed, CallWellFormed
  <1>5. call.key # "none"
    BY <1>2 DEF WellFormedCall, Keys
  <1>6. \A i \in DOMAIN call.stores : call.stores[i].cell \in CellsStored(call.stores)
    BY DEF CellsStored
  <1>7. QED
    BY <1>3, <1>4, <1>5, <1>6 DEF CallWellFormed

\* A store drops the head of the list of stores to make.
LEMMA StoreKeepsWellFormed ==
    ASSUME TypeOK, CallsWellFormed, NEW t \in Tasks, StoreCell(t)
    PROVE  CallWellFormed(t)'
  <1>1. todo[t] \in Seq(Stores) /\ todo[t] # <<>>
    BY DEF TypeOK, StoreCell
  <1>2. todo'[t] = Tail(todo[t])
    BY DEF TypeOK, StoreCell
  <1>3. \A i \in DOMAIN Tail(todo[t]) : i + 1 \in DOMAIN todo[t]
                                     /\ Tail(todo[t])[i] = todo[t][i + 1]
    BY <1>1
  <1>4. UNCHANGED <<pc, key, left, err, owned>> /\ pc[t] = "store"
    BY DEF StoreCell, At
  <1>5. CallWellFormed(t)
    BY DEF CallsWellFormed
  <1>6. \A i \in DOMAIN todo'[t] : todo'[t][i].cell \in owned[t]
    BY <1>2, <1>3, <1>5 DEF CallWellFormed
  <1>7. QED
    BY <1>4, <1>5, <1>6 DEF CallWellFormed

\* A step of task t changes no other task's call.
LEMMA OthersUntouched ==
    ASSUME TypeOK, NEW t \in Tasks, SetterStep(t), NEW u \in Tasks, u # t
    PROVE  /\ pc'[u] = pc[u] /\ key'[u] = key[u] /\ todo'[u] = todo[u]
           /\ left'[u] = left[u] /\ err'[u] = err[u] /\ owned'[u] = owned[u]
  <1> USE DEF TypeOK, Goto, Return
  <1>1. CASE Call(t)
    BY <1>1 DEF Call
  <1>2. CASE StoreCell(t)
    BY <1>2 DEF StoreCell
  <1>3. CASE CallUpdate(t) \/ Open(t) \/ OpenFails(t)
    BY <1>3 DEF CallUpdate, Open, OpenFails
  <1>4. CASE SetBlob(t) \/ SetBlobFails(t)
    BY <1>4 DEF SetBlob, SetBlobFails
  <1>5. CASE CopyCell(t) \/ SetBlobReturns(t)
    BY <1>5 DEF CopyCell, SetBlobReturns
  <1>6. CASE Commit(t) \/ CommitFails(t) \/ Close(t)
    BY <1>6 DEF Commit, CommitFails, Close
  <1>7. QED
    BY <1>1, <1>2, <1>3, <1>4, <1>5, <1>6 DEF SetterStep

\* Every step of a call keeps it well formed.
LEMMA SetterKeepsWellFormed ==
    ASSUME TypeOK, CallsWellFormed, NEW t \in Tasks, SetterStep(t)
    PROVE  CallsWellFormed'
  <1>1. CallWellFormed(t)'
    <2> USE DEF TypeOK, CallsWellFormed, CallWellFormed, Goto, At
    <2>1. CASE Call(t)
      BY <2>1, CallKeepsWellFormed
    <2>2. CASE StoreCell(t)
      BY <2>2, StoreKeepsWellFormed
    <2>3. CASE CallUpdate(t)
      BY <2>3 DEF CallUpdate
    <2>4. CASE Open(t)
      BY <2>4 DEF Open
    <2>5. CASE OpenFails(t)
      BY <2>5 DEF OpenFails, Return
    <2>6. CASE SetBlob(t)
      BY <2>6 DEF SetBlob
    <2>7. CASE SetBlobFails(t)
      BY <2>7 DEF SetBlobFails
    <2>8. CASE CopyCell(t)
      BY <2>8 DEF CopyCell
    <2>9. CASE SetBlobReturns(t)
      BY <2>9 DEF SetBlobReturns
    <2>10. CASE Commit(t)
      BY <2>10 DEF Commit
    <2>11. CASE CommitFails(t)
      BY <2>11 DEF CommitFails
    <2>12. CASE Close(t)
      BY <2>12 DEF Close, Return
    <2>13. QED
      BY <2>1, <2>2, <2>3, <2>4, <2>5, <2>6, <2>7, <2>8, <2>9, <2>10, <2>11, <2>12
         DEF SetterStep
  <1>2. ASSUME NEW u \in Tasks, u # t PROVE CallWellFormed(u)'
    BY <1>2, OthersUntouched DEF CallsWellFormed, CallWellFormed
  <1>3. \A u \in Tasks : CallWellFormed(u)'
    BY <1>1, <1>2
  <1>4. QED
    BY <1>3 DEF CallsWellFormed, CallWellFormed

\* A device without a running call has well-formed calls.
LEMMA NoCallWellFormed ==
    /\ NoCall(pc, key, todo, left, err, owned) => CallsWellFormed
    /\ NoCall(pc', key', todo', left', err', owned') => CallsWellFormed'
  BY DEF NoCall, CallsWellFormed, CallWellFormed

\* Every step keeps the calls well formed.
LEMMA CallsStep == TypeOK /\ CallsWellFormed /\ [Next]_vars => CallsWellFormed'
  <1> SUFFICES ASSUME TypeOK, CallsWellFormed, [Next]_vars PROVE CallsWellFormed'
    OBVIOUS
  <1>1. CASE UNCHANGED callVars
    BY <1>1 DEF callVars, CallsWellFormed, CallWellFormed
  <1>2. CASE Crash
    BY <1>2, NoCallWellFormed DEF Crash
  <1>3. ASSUME NEW t \in Tasks, SetterStep(t) PROVE CallsWellFormed'
    BY <1>3, SetterKeepsWellFormed
  <1>4. QED
    BY <1>1, <1>2, <1>3 DEF Next, Boot, EraseFails, WriteBack, vars

-----------------------------------------------------------------------------
(***************************************************************************)
(* nvdata, NVS and flash agree up to what running calls are going to save  *)
(* and what was reported as not saved.                                     *)
(***************************************************************************)
\* A boot reads nvdata from the flash, or owns up to not having read it.
LEMMA BootStores ==
    ASSUME IInv, Boot
    PROVE  (NvsFollowsRam /\ FlashFollowsNvs /\ UntouchedSame)'
  <1>1. PICK erase \in BOOLEAN, works \in BOOLEAN, failing \in SUBSET Keys :
          LET store    == IF erase THEN Factory ELSE flash
              readable == {k \in Keys \ failing : works /\ Present(k, store)}
              read     == ReadAtBoot(readable)
          IN \E garbled \in SUBSET {k \in failing : works /\ Present(k, store)} :
               /\ ready' = works
               /\ flash' = store
               /\ nvs' = store
               /\ ram' = BootRam(store, read, garbled)
               /\ loaded' = read
               /\ behind' = {c \in Cell : KeyOf(c) \notin read}
               /\ touched' = {}
    BY DEF Boot
  <1> DEFINE store    == IF erase THEN Factory ELSE flash
             readable == {k \in Keys \ failing : works /\ Present(k, store)}
             read     == ReadAtBoot(readable)
  <1>2. PICK garbled \in SUBSET {k \in failing : works /\ Present(k, store)} :
               /\ flash' = store
               /\ nvs' = store
               /\ ram' = BootRam(store, read, garbled)
               /\ loaded' = read
               /\ behind' = {c \in Cell : KeyOf(c) \notin read}
    BY <1>1
  <1>3. "misc" \in read => ChainComplete(read)
    BY ReadAtBootFacts
  <1> HIDE DEF store, readable, read
  <1>4. ASSUME NEW c \in Cell, KeyOf(c) \in read PROVE ram'[c] = store[c]
    BY <1>2, <1>3, <1>4, ProvDoneCell DEF BootRam
  <1>5. QED
    BY <1>2, <1>4 DEF NvsFollowsRam, FlashFollowsNvs, UntouchedSame

\* The cells a step of a call concerns are cells of its record.
LEMMA OwnedCells ==
    ASSUME IInv, NEW t \in Tasks, NEW c \in owned[t] \cup left[t]
    PROVE  key[t] \in Keys /\ KeyOf(c) = key[t] /\ c \in CellsOf(key[t]) /\ c \in Cell
  <1>1. pc[t] # "idle" /\ key[t] \in Keys
    BY DEF IInv, TypeOK, CallsWellFormed, CallWellFormed
  <1>2. c \in CellsOf(key[t])
    BY <1>1 DEF IInv, CallsWellFormed, CallWellFormed
  <1>3. QED
    BY <1>1, <1>2, CellKeys

\* A call that has still to copy a cell has still to commit it.
LEMMA CopyThenCommit ==
    ASSUME NEW t \in Tasks, NEW c, ToCopy(t, c)
    PROVE  ToCommit(t, c)
  BY DEF ToCopy, ToCommit

\* A step of a call that does not give up any of its own concerns, and
\* changes no cell, keeps the agreement.
LEMMA ConcernsKept ==
    ASSUME IInv, up, NEW t \in Tasks, SetterStep(t),
           UNCHANGED storeVars, UNCHANGED <<loaded, touched>>,
           \A c \in Cell :
             /\ ToCopy(t, c) => ToCopy(t, c)' \/ c \in behind'
             /\ ToCommit(t, c) => ToCommit(t, c)' \/ c \in behind'
             /\ c \in behind => c \in behind' \/ (ToCopy(t, c)' /\ ToCommit(t, c)')
    PROVE  (NvsFollowsRam /\ FlashFollowsNvs /\ UntouchedSame)'
  <1>1. ASSUME NEW u \in Tasks, u # t, NEW c \in Cell
        PROVE  (ToCopy(u, c) => ToCopy(u, c)') /\ (ToCommit(u, c) => ToCommit(u, c)')
    BY <1>1, OthersUntouched DEF IInv, ToCopy, ToCommit
  <1>2. NvsFollowsRam /\ FlashFollowsNvs /\ UntouchedSame
    BY DEF IInv
  <1>3. ASSUME NEW c \in Cell
        PROVE  /\ nvs'[c] = ram'[c] \/ c \in behind' \/ \E u \in Tasks : ToCopy(u, c)'
               /\ flash'[c] = nvs'[c] \/ c \in behind' \/ \E u \in Tasks : ToCommit(u, c)'
    <2>1. CASE c \in behind
      BY <2>1
    <2>2. CASE \E u \in Tasks : ToCopy(u, c)
      <3>1. PICK u \in Tasks : ToCopy(u, c)
        BY <2>2
      <3>2. c \in behind' \/ ToCopy(u, c)'
        BY <1>1, <3>1
      <3>3. c \in behind' \/ ToCommit(u, c)'
        BY <1>1, <3>1, CopyThenCommit
      <3>4. QED
        BY <3>2, <3>3
    <2>3. CASE \E u \in Tasks : ToCommit(u, c)
      <3>1. PICK u \in Tasks : ToCommit(u, c)
        BY <2>3
      <3>2. c \in behind' \/ ToCommit(u, c)'
        BY <1>1, <3>1
      <3>3. nvs'[c] = ram'[c] \/ c \in behind' \/ \E v \in Tasks : ToCopy(v, c)'
        BY <1>2, <2>1, <2>2 DEF NvsFollowsRam, storeVars
      <3>4. QED
        BY <3>2, <3>3
    <2>4. QED
      BY <1>2, <2>1, <2>2, <2>3 DEF NvsFollowsRam, FlashFollowsNvs, storeVars
  <1>4. UntouchedSame'
    BY <1>2 DEF UntouchedSame, storeVars
  <1>5. QED
    BY <1>3, <1>4 DEF NvsFollowsRam, FlashFollowsNvs

\* Returning e, where every call that returns ESP_OK has nothing left to do.
LEMMA ReturnStores ==
    ASSUME IInv, up, NEW t \in Tasks, NEW e, SetterStep(t), Return(t, e),
           e = "ESP_OK" => \A c \in Cell : ~ToCopy(t, c) /\ ~ToCommit(t, c)
    PROVE  (NvsFollowsRam /\ FlashFollowsNvs /\ UntouchedSame)'
  <1>1. \A c \in Cell : ToCopy(t, c) \/ ToCommit(t, c) => c \in behind'
    BY DEF Return, ToCopy, ToCommit
  <1>2. \A c \in Cell : c \in behind => c \in behind'
    BY DEF Return
  <1>3. QED
    BY <1>1, <1>2, ConcernsKept DEF Return

\* A store into nvdata is a concern of the call that makes it.
LEMMA StoreCellStores ==
    ASSUME IInv, up, NEW t \in Tasks, StoreCell(t)
    PROVE  (NvsFollowsRam /\ FlashFollowsNvs /\ UntouchedSame)'
  <1> DEFINE store == Head(todo[t])
  <1>0. PICK target : target = store.cell
    OBVIOUS
  <1>1. store \in Stores /\ target \in owned[t]
    <2>1. todo[t] \in Seq(Stores) /\ todo[t] # <<>>
      BY DEF IInv, TypeOK, StoreCell
    <2>2. 1 \in DOMAIN todo[t] /\ store = todo[t][1]
      BY <2>1
    <2>3. QED
      BY <1>0, <2>1, <2>2 DEF IInv, CallsWellFormed, CallWellFormed
  <1>2. \A c \in Cell : c # target => ram'[c] = ram[c]
    BY <1>0 DEF StoreCell, IInv, TypeOK
  <1>3. touched' = touched \cup {target}
    BY <1>0 DEF StoreCell
  <1>4. pc[t] = "store" /\ UNCHANGED <<nvs, flash, pc, left, err, owned, behind, loaded>>
    BY DEF StoreCell, At
  <1>5. ToCopy(t, target)'
    BY <1>1, <1>4 DEF ToCopy
  <1> HIDE DEF store
  <1>6. NvsFollowsRam /\ FlashFollowsNvs /\ UntouchedSame
    BY DEF IInv
  <1>7. NvsFollowsRam'
    BY <1>2, <1>4, <1>5, <1>6 DEF NvsFollowsRam, ToCopy
  <1>8. FlashFollowsNvs'
    BY <1>4, <1>6 DEF FlashFollowsNvs, ToCommit
  <1>9. UntouchedSame'
    BY <1>2, <1>3, <1>4, <1>6 DEF UntouchedSame
  <1>10. QED
    BY <1>7, <1>8, <1>9

\* Copying a cell into NVS hands it over from ToCopy to ToCommit.
LEMMA CopyCellStores ==
    ASSUME IInv, up, NEW t \in Tasks, CopyCell(t)
    PROVE  (NvsFollowsRam /\ FlashFollowsNvs /\ UntouchedSame)'
  <1>1. PICK c \in left[t] : /\ nvs' = [nvs EXCEPT ![c] = ram[c]]
                             /\ left' = [left EXCEPT ![t] = @ \ {c}]
    BY DEF CopyCell
  <1>2. c \in Cell
    BY DEF IInv, TypeOK
  <1>3. /\ nvs'[c] = ram[c]
        /\ \A d \in Cell : d # c => nvs'[d] = nvs[d]
        /\ left'[t] = left[t] \ {c}
        /\ \A u \in Tasks : u # t => left'[u] = left[u]
    BY <1>1, <1>2 DEF IInv, TypeOK
  <1>4. UNCHANGED <<ram, flash, pc, err, owned, behind, loaded, touched>>
    BY DEF CopyCell, history
  <1>5. NvsFollowsRam /\ FlashFollowsNvs /\ UntouchedSame
    BY DEF IInv
  <1>6. NvsFollowsRam'
    BY <1>3, <1>4, <1>5 DEF NvsFollowsRam, ToCopy
  <1>7. ASSUME NEW d \in Cell
        PROVE  flash'[d] = nvs'[d] \/ d \in behind' \/ \E u \in Tasks : ToCommit(u, d)'
    <2>1. \A u \in Tasks : ToCommit(u, d) => ToCommit(u, d)'
      BY <1>4 DEF ToCommit
    <2>2. CASE nvs'[d] = nvs[d]
      BY <1>4, <1>5, <2>1, <2>2 DEF FlashFollowsNvs
    <2>3. CASE d = c /\ ram[c] # nvs[c]
      <3>1. d \in behind \/ \E u \in Tasks : ToCopy(u, d)
        BY <1>2, <1>5, <2>3 DEF NvsFollowsRam
      <3>2. QED
        BY <1>4, <2>1, <3>1, CopyThenCommit
    <2>4. QED
      BY <1>3, <2>2, <2>3
  <1>8. UntouchedSame'
    BY <1>2, <1>3, <1>4, <1>5 DEF UntouchedSame
  <1>9. QED
    BY <1>6, <1>7, <1>8 DEF FlashFollowsNvs

\* Flushing a record brings its flash up to NVS and touches no other record.
LEMMA FlushStores ==
    ASSUME IInv, up, NEW k \in Keys, flash' = Flushed(k),
           UNCHANGED <<ram, nvs, behind, loaded, touched>>,
           \A t \in Tasks, c \in Cell :
             /\ ToCopy(t, c) => ToCopy(t, c)'
             /\ ToCommit(t, c) => ToCommit(t, c)' \/ KeyOf(c) = k
    PROVE  (NvsFollowsRam /\ FlashFollowsNvs /\ UntouchedSame)'
  <1>1. NvsFollowsRam /\ FlashFollowsNvs /\ UntouchedSame
    BY DEF IInv
  <1>2. \A c \in Cell : flash'[c] = IF KeyOf(c) = k THEN nvs[c] ELSE flash[c]
    BY DEF Flushed
  <1>3. NvsFollowsRam'
    BY <1>1 DEF NvsFollowsRam
  <1>4. FlashFollowsNvs'
    BY <1>1, <1>2 DEF FlashFollowsNvs
  <1>5. UntouchedSame'
    BY <1>1, <1>2 DEF UntouchedSame
  <1>6. QED
    BY <1>3, <1>4, <1>5

\* The commit of a record is the end of its call's concerns.
LEMMA CommitStores ==
    ASSUME IInv, up, NEW t \in Tasks, Commit(t)
    PROVE  (NvsFollowsRam /\ FlashFollowsNvs /\ UntouchedSame)'
  <1>1. pc[t] = "commit" /\ key[t] \in Keys /\ pc' = [pc EXCEPT ![t] = "close"]
    BY DEF Commit, At, Goto, IInv, TypeOK, CallsWellFormed, CallWellFormed
  <1>2. UNCHANGED <<ram, nvs, left, err, owned, behind, loaded, touched>>
    BY DEF Commit, history
  <1>3. ASSUME NEW u \in Tasks, NEW c \in Cell
        PROVE  /\ ToCopy(u, c) => ToCopy(u, c)'
               /\ ToCommit(u, c) => ToCommit(u, c)' \/ KeyOf(c) = key[t]
    <2>1. CASE u = t
      BY <1>1, <2>1, OwnedCells DEF ToCopy, ToCommit
    <2>2. CASE u # t
      BY <1>1, <1>2, <2>2 DEF ToCopy, ToCommit, IInv, TypeOK
    <2>3. QED
      BY <2>1, <2>2
  <1>4. PICK k \in Keys : k = key[t]
    BY <1>1
  <1>5. flash' = Flushed(k)
    BY <1>4 DEF Commit
  <1>6. QED
    BY <1>2, <1>3, <1>4, <1>5, FlushStores

\* Every step of a call keeps the agreement.
LEMMA SetterStores ==
    ASSUME IInv, NEW t \in Tasks, SetterStep(t)
    PROVE  (NvsFollowsRam /\ FlashFollowsNvs /\ UntouchedSame)'
  <1>1. up
    BY DEF SetterStep, At, Call, StoreCell, CallUpdate, Open, OpenFails, SetBlob,
           SetBlobFails, CopyCell, SetBlobReturns, Commit, CommitFails, Close
  <1> USE DEF IInv, TypeOK, CallsWellFormed, CallWellFormed, At, Goto, history
  <1>2. CASE Call(t)
    <2>1. \A c \in Cell : ~ToCopy(t, c) /\ ~ToCommit(t, c)
      BY <1>2 DEF Call, ToCopy, ToCommit
    <2>2. QED
      BY <1>1, <1>2, <2>1, ConcernsKept DEF Call
  <1>3. CASE StoreCell(t)
    BY <1>1, <1>3, StoreCellStores
  <1>4. CASE CallUpdate(t) \/ Open(t) \/ SetBlobFails(t)
    <2>1. \A c \in Cell : ToCopy(t, c) => ToCopy(t, c)'
      BY <1>4 DEF CallUpdate, Open, SetBlobFails, ToCopy
    <2>2. \A c \in Cell : ToCommit(t, c) => ToCommit(t, c)'
      BY <1>4 DEF CallUpdate, Open, SetBlobFails, ToCommit
    <2>3. UNCHANGED <<storeVars, behind, loaded, touched>>
      BY <1>4 DEF CallUpdate, Open, SetBlobFails
    <2>4. QED
      BY <1>1, <2>1, <2>2, <2>3, ConcernsKept
  <1>5. CASE OpenFails(t)
    BY <1>1, <1>5, ReturnStores DEF OpenFails
  <1>6. CASE SetBlob(t)
    <2>1. /\ pc[t] = "set_blob" /\ pc'[t] = "copy"
          /\ left'[t] = CellsOf(key[t])
          /\ owned'[t] = owned[t] \cup (behind \cap CellsOf(key[t]))
          /\ behind' = behind \ CellsOf(key[t])
          /\ UNCHANGED <<storeVars, loaded, touched>>
      BY <1>6 DEF SetBlob
    <2>2. \A c \in Cell : c \in owned[t] => c \in left'[t] /\ c \in owned'[t]
      BY <2>1, OwnedCells
    <2>3. \A c \in Cell : c \in owned[t] => ToCopy(t, c)' /\ ToCommit(t, c)'
      BY <2>1, <2>2 DEF ToCopy, ToCommit
    <2>4. \A c \in Cell : c \in behind => c \in behind' \/ (ToCopy(t, c)' /\ ToCommit(t, c)')
      BY <2>1 DEF ToCopy, ToCommit
    <2>5. \A c \in Cell : ToCopy(t, c) \/ ToCommit(t, c) => c \in owned[t]
      BY DEF ToCopy, ToCommit
    <2>6. QED
      BY <1>1, <2>1, <2>3, <2>4, <2>5, ConcernsKept
  <1>7. CASE CopyCell(t)
    BY <1>1, <1>7, CopyCellStores
  <1>8. CASE SetBlobReturns(t) \/ CommitFails(t)
    <2>1. \A c \in Cell : ToCopy(t, c) => ToCopy(t, c)'
      BY <1>8 DEF SetBlobReturns, CommitFails, ToCopy
    <2>2. \A c \in Cell : ToCommit(t, c) => ToCommit(t, c)'
      BY <1>8 DEF SetBlobReturns, CommitFails, ToCommit
    <2>3. UNCHANGED <<storeVars, behind, loaded, touched>>
      BY <1>8 DEF SetBlobReturns, CommitFails
    <2>4. QED
      BY <1>1, <2>1, <2>2, <2>3, ConcernsKept
  <1>9. CASE Commit(t)
    BY <1>1, <1>9, CommitStores
  <1>10. CASE Close(t)
    <2>1. err[t] = "ESP_OK" => \A c \in Cell : ~ToCopy(t, c) /\ ~ToCommit(t, c)
      BY <1>10 DEF Close, ToCopy, ToCommit
    <2>2. PICK e : e = err[t]
      OBVIOUS
    <2>3. Return(t, e)
      BY <1>10, <2>2 DEF Close
    <2>4. QED
      BY <1>1, <2>1, <2>2, <2>3, ReturnStores
  <1>11. QED
    BY <1>2, <1>3, <1>4, <1>5, <1>6, <1>7, <1>8, <1>9, <1>10 DEF SetterStep

-----------------------------------------------------------------------------
(***************************************************************************)
(* The invariant and the theorems.                                         *)
(***************************************************************************)
\* A device that is off, new or with saved records, satisfies the invariant.
LEMMA InitIInv == Init => IInv
  BY TypeInit, NoCallWellFormed DEF Init, IInv

\* Every step of boot, setters, NVS and power loss keeps the invariant.
LEMMA StepIInv == IInv /\ [Next]_vars => IInv'
  <1> SUFFICES ASSUME IInv, [Next]_vars PROVE IInv'
    OBVIOUS
  <1>1. TypeOK' /\ CallsWellFormed'
    BY TypeStep, CallsStep DEF IInv
  <1>2. ASSUME up' PROVE (NvsFollowsRam /\ FlashFollowsNvs /\ UntouchedSame)'
    <2>1. CASE Boot
      BY <2>1, BootStores
    <2>2. CASE Crash
      BY <1>2, <2>2 DEF Crash
    <2>3. ASSUME NEW t \in Tasks, SetterStep(t)
          PROVE  (NvsFollowsRam /\ FlashFollowsNvs /\ UntouchedSame)'
      BY <2>3, SetterStores
    <2>4. ASSUME NEW k \in Keys, WriteBack(k)
          PROVE  (NvsFollowsRam /\ FlashFollowsNvs /\ UntouchedSame)'
      <3>1. /\ up /\ flash' = Flushed(k)
            /\ UNCHANGED <<ram, nvs, behind, loaded, touched>>
            /\ UNCHANGED <<pc, left, err, owned>>
        BY <2>4 DEF WriteBack, history, callVars
      <3>2. \A t \in Tasks, c \in Cell :
              /\ ToCopy(t, c) => ToCopy(t, c)'
              /\ ToCommit(t, c) => ToCommit(t, c)'
        BY <3>1 DEF ToCopy, ToCommit
      <3>3. QED
        BY <3>1, <3>2, FlushStores
    <2>5. CASE UNCHANGED vars
      <3>1. UNCHANGED <<up, ram, nvs, flash, pc, left, err, owned, behind, loaded, touched>>
        BY <2>5 DEF vars, storeVars, callVars, history
      <3>2. NvsFollowsRam /\ FlashFollowsNvs /\ UntouchedSame
        BY <1>2, <3>1 DEF IInv
      <3>3. QED
        BY <3>1, <3>2 DEF NvsFollowsRam, FlashFollowsNvs, UntouchedSame, ToCopy, ToCommit
    <2>6. CASE EraseFails
      BY <1>2, <2>6 DEF EraseFails
    <2>7. QED
      BY <2>1, <2>2, <2>3, <2>4, <2>5, <2>6 DEF Next
  <1>3. QED
    BY <1>1, <1>2 DEF IInv

\* The invariant holds of every reachable state of nvram.c.
THEOREM Invariance == Spec => []IInv
  BY InitIInv, StepIInv, PTL DEF Spec

\* Every variable keeps its type, for all tasks, data and setters.
THEOREM TypeCorrect == Spec => []TypeOK
  <1>1. IInv => TypeOK
    BY DEF IInv
  <1>2. QED
    BY <1>1, Invariance, PTL

\* No lost update: whatever tasks call whatever setters, interleaved in any
\* way and with NVS failing at any call, a record that nobody is setting is in
\* the flash as it is in nvdata, up to what a caller was told is not saved.
THEOREM NoLostUpdate == Spec => []SettledMeansSaved
  <1>1. IInv => SettledMeansSaved
    <2> SUFFICES ASSUME IInv, up, NEW k \in Keys, Settled(k),
                        NEW c \in CellsOf(k) \ behind
                 PROVE  flash[c] = ram[c]
      BY DEF SettledMeansSaved
    <2>1. c \in Cell /\ KeyOf(c) = k
      BY CellKeys
    <2>2. ASSUME NEW t \in Tasks PROVE ~ToCopy(t, c) /\ ~ToCommit(t, c)
      BY <2>1, OwnedCells DEF Settled, ToCopy, ToCommit
    <2>3. QED
      BY <2>1, <2>2 DEF IInv, NvsFollowsRam, FlashFollowsNvs
  <1>2. QED
    BY <1>1, Invariance, PTL

\* Saving a record never changes a field of it that was read at boot and that
\* no setter has stored into.
THEOREM FieldsKept == Spec => UntouchedCellsSurvive
  <1> DEFINE A == up /\ up' => \A c \in Cell :
                    flash'[c] # flash[c] => c \in touched \/ KeyOf(c) \notin loaded
  <1>1. IInv /\ [Next]_vars => [A]_vars
    <2> SUFFICES ASSUME IInv, Next, up, up', NEW c \in Cell,
                        KeyOf(c) \in loaded, c \notin touched
                 PROVE  flash'[c] = flash[c]
      OBVIOUS
    <2>1. nvs[c] = flash[c]
      BY DEF IInv, UntouchedSame
    <2>2. CASE UNCHANGED flash
      BY <2>2
    <2>3. ASSUME NEW k, flash' = Flushed(k) PROVE flash'[c] = flash[c]
      BY <2>1, <2>3 DEF Flushed
    <2>4. UNCHANGED flash \/ \E k : flash' = Flushed(k)
      <3>1. ~Boot /\ ~EraseFails /\ ~Crash
        BY DEF Boot, EraseFails, Crash
      <3>2. ASSUME NEW t \in Tasks, SetterStep(t), ~Commit(t) PROVE UNCHANGED flash
        BY <3>2 DEF SetterStep, Call, StoreCell, CallUpdate, Open, OpenFails, Return, SetBlob,
                    SetBlobFails, CopyCell, SetBlobReturns, CommitFails, Close, storeVars
      <3>3. ASSUME NEW t \in Tasks, Commit(t) PROVE \E k : flash' = Flushed(k)
        BY <3>3 DEF Commit
      <3>4. QED
        BY <3>1, <3>2, <3>3 DEF Next, WriteBack
    <2>5. QED
      BY <2>2, <2>3, <2>4
  <1>2. QED
    BY <1>1, Invariance, PTL DEF Spec, UntouchedCellsSurvive

\* A boot that ends provisioned has read the four records of the chain.
THEOREM BootComplete == Spec => BootAdoptsCompleteConfig
  <1> DEFINE A == ~up /\ up' /\ ~nvram_need_provisioning' =>
                    \A c \in Cell : KeyOf(c) \in {"net", "token", "mqtt", "misc"} =>
                      ram'[c] = flash'[c] /\ flash'[c] # Missing
  <1>1. [Next]_vars => [A]_vars
    <2> SUFFICES ASSUME Next, ~up, up', ram'[ProvDone] # false, NEW c \in Cell,
                        KeyOf(c) \in {"net", "token", "mqtt", "misc"}
                 PROVE  ram'[c] = flash'[c] /\ flash'[c] # Missing
      BY DEF nvram_need_provisioning
    <2>1. Boot
      BY DEF Next, EraseFails, Crash, WriteBack, SetterStep, At, Call, StoreCell, CallUpdate, Open, OpenFails,
             SetBlob, SetBlobFails, CopyCell, SetBlobReturns, Commit, CommitFails, Close
    <2>2. PICK erase \in BOOLEAN, works \in BOOLEAN, failing \in SUBSET Keys :
            LET store    == IF erase THEN Factory ELSE flash
                readable == {k \in Keys \ failing : works /\ Present(k, store)}
            IN \E garbled \in SUBSET {k \in failing : works /\ Present(k, store)} :
                 /\ flash' = store
                 /\ ram' = BootRam(store, ReadAtBoot(readable), garbled)
      BY <2>1 DEF Boot
    <2> DEFINE store    == IF erase THEN Factory ELSE flash
               readable == {k \in Keys \ failing : works /\ Present(k, store)}
    <2>3. PICK garbled \in SUBSET Keys :
               /\ flash' = store
               /\ ram' = BootRam(store, ReadAtBoot(readable), garbled)
      BY <2>2
    <2>4. ReadAtBoot(readable) \subseteq readable
      BY ReadAtBootFacts
    <2>5. \A k \in readable : Present(k, store)
      OBVIOUS
    <2> HIDE DEF store, readable
    <2>6. ChainComplete(ReadAtBoot(readable))
      BY <2>3, ProvDoneCell DEF BootRam
    <2>7. KeyOf(c) \in ReadAtBoot(readable)
      BY <2>6 DEF ChainComplete, Chain
    <2>8. Present(KeyOf(c), store)
      BY <2>4, <2>5, <2>7
    <2>9. QED
      BY <2>3, <2>6, <2>7, <2>8, CellKeys DEF BootRam, Present
  <1>2. QED
    BY <1>1, PTL DEF Spec, BootAdoptsCompleteConfig
-----------------------------------------------------------------------------
(***************************************************************************)
(* The records as wholes, when a single task calls the setters: the fields *)
(* of one that belong together are of one call, in nvdata when the setter  *)
(* has stored them all, in NVS when nvs_set_blob has copied them all, and  *)
(* in the flash always.                                                    *)
(***************************************************************************)
Access == <<"token", "access">>
Refresh == <<"token", "refresh">>
Enable == <<"mqtt", "enable">>
Host == <<"mqtt", "host">>
Proto == <<"net", "proto">>
Address == <<"net", "ip_info">>
Dns == <<"net", "primary_dns">>

\* The fields of record k fit together in a store.
RecordOk(k, store) ==
    /\ k = "token" => store[Access] = store[Refresh]
    /\ k = "mqtt" => (store[Enable] = true => store[Host] \in Data)
    /\ k = "net" => (store[Proto] = STATIC =>
                       store[Address] \in Data /\ store[Dns] = store[Address])

\* They will, when the stores in `pending` have been made: whatever has their
\* values in their cells, and is the store elsewhere, is such a record.
PendingOk(k, pending, store) ==
    \A r \in [Cell -> Word] :
        /\ \A i \in DOMAIN pending : r[pending[i].cell] = pending[i].val
        /\ \A c \in Cell : (\A i \in DOMAIN pending : pending[i].cell # c) => r[c] = store[c]
        => RecordOk(k, r)

\* A call stores into a cell once.
OneStoreEach(pending) ==
    \A i, j \in DOMAIN pending : pending[i].cell = pending[j].cell => i = j

\* Task t is at loc with record k.
Holds(t, k, loc) == pc[t] = loc /\ key[t] = k

RecordInv(t) ==
    /\ ~up => pc[t] = "idle"
    /\ OneStoreEach(todo[t])
    /\ \A k \in Keys :
         /\ RecordOk(k, flash)
         /\ IF Holds(t, k, "store") THEN PendingOk(k, todo[t], ram) ELSE RecordOk(k, ram)
         /\ IF Holds(t, k, "copy") THEN \A c \in CellsOf(k) \ left[t] : nvs[c] = ram[c]
            ELSE RecordOk(k, nvs)

\* The cells that belong together are cells of their records.
LEMMA RecordCells ==
    /\ {Access, Refresh} \subseteq CellsOf("token") /\ Access # Refresh
    /\ {Enable, Host} \subseteq CellsOf("mqtt") /\ Enable # Host
    /\ {Proto, Address, Dns} \subseteq CellsOf("net")
    /\ Proto # Address /\ Proto # Dns /\ Address # Dns
    /\ {Access, Refresh, Enable, Host, Proto, Address, Dns} \subseteq Cell
    /\ {"token", "mqtt", "net"} \subseteq Keys
  BY DEF Access, Refresh, Enable, Host, Proto, Address, Dns, Cell, CellsOf, FieldsOf, Keys

\* Only the cells of a record count for it.
LEMMA RecordLocal ==
    ASSUME NEW k, NEW s, NEW r, \A c \in CellsOf(k) : r[c] = s[c], RecordOk(k, s)
    PROVE  RecordOk(k, r)
  BY RecordCells DEF RecordOk

\* The records of a new device and of one that has just been initialised have
\* nothing that would have to fit.
LEMMA DefaultOk == \A k \in Keys : RecordOk(k, Default) /\ RecordOk(k, Factory)
  <1>1. \A c \in {Access, Refresh, Enable, Host, Proto, Address, Dns} :
            Default[c] = ZERO /\ Factory[c] = Missing
    BY RecordCells DEF Default, Factory, KeyOf, Access, Refresh, Enable, Host, Proto, Address, Dns
  <1>2. true \in Word /\ Missing \notin Word /\ true # ZERO /\ STATIC = true
    BY NvramAssumption DEF Word, true, STATIC, ZERO
  <1> QED
    BY <1>1, <1>2 DEF RecordOk

\* Those of a provisioned one fit.
LEMMA ProvisionedOk == \A k \in Keys : RecordOk(k, Provisioned)
  <1>1. Saved \in Data
    BY NvramApiAssumption DEF Saved
  <1>2. /\ Provisioned[Host] = Saved /\ Provisioned[Address] = Saved
        /\ Provisioned[Dns] = Saved
    BY RecordCells DEF Provisioned, ProvDone, Host, Address, Dns
  <1>3. Provisioned[Access] = ZERO /\ Provisioned[Refresh] = ZERO
    BY RecordCells DEF Provisioned, ProvDone, Access, Refresh, Default, KeyOf
  <1> QED
    BY <1>1, <1>2, <1>3 DEF RecordOk

\* Where the stores are when two lists of them are joined.
LEMMA Joined ==
    ASSUME NEW S, NEW s \in Seq(S), NEW more \in Seq(S), NEW r, r = s \o more
    PROVE  /\ r \in Seq(S)
           /\ Len(r) = Len(s) + Len(more)
           /\ DOMAIN r = 1 .. (Len(s) + Len(more))
           /\ \A i \in 1 .. Len(s) : r[i] = s[i]
           /\ \A i \in 1 .. Len(more) : r[Len(s) + i] = more[i]
  <1>1. s \o more \in Seq(S) /\ Len(s \o more) = Len(s) + Len(more)
    OBVIOUS
  <1>2. /\ \A i \in 1 .. Len(s) : (s \o more)[i] = s[i]
        /\ \A i \in 1 .. Len(more) : (s \o more)[Len(s) + i] = more[i]
    BY ConcatProperties
  <1>3. DOMAIN (s \o more) = 1 .. (Len(s) + Len(more))
    BY <1>1
  <1> QED
    BY <1>1, <1>2, <1>3

\* The words an accepted call of nvram_set_net_params stores.
LEMMA NetCall ==
    ASSUME NEW call \in CallsOf.nvram_set_net_params, NEW s
    PROVE  call.key = "net" /\ OneStoreEach(call.stores) /\ PendingOk("net", call.stores, s)
  <1>1. CASE call = nvram_set_net_params(true, ZERO, ZERO, ZERO)
    <2>1. call = [key |-> "net", stores |-> <<Store("net", "proto", DHCP)>>]
      BY <1>1 DEF nvram_set_net_params
    <2>2. Store("net", "proto", DHCP) = [cell |-> Proto, val |-> DHCP]
      BY DEF Store, Proto
    <2>3. ASSUME NEW r \in [Cell -> Word],
                 \A i \in DOMAIN call.stores : r[call.stores[i].cell] = call.stores[i].val
          PROVE  r[Proto] = DHCP
      BY <2>1, <2>2, <2>3
    <2> QED
      BY <2>1, <2>2, <2>3 DEF PendingOk, OneStoreEach, RecordOk, DHCP, STATIC
  <1>2. ASSUME NEW v \in Data, NEW w \in Data \cup {ZERO},
               call = nvram_set_net_params(false, v, v, w)
        PROVE  call.key = "net" /\ OneStoreEach(call.stores) /\ PendingOk("net", call.stores, s)
    <2> DEFINE a == [cell |-> Proto, val |-> STATIC]
               b == [cell |-> Address, val |-> v]
               d == [cell |-> Dns, val |-> v]
               e == [cell |-> <<"net", "secondary_dns">>, val |-> w]
    <2>1. /\ call.key = "net"
          /\ DOMAIN call.stores \in {1 .. 3, 1 .. 4}
          /\ call.stores[1] = a /\ call.stores[2] = b /\ call.stores[3] = d
          /\ 4 \in DOMAIN call.stores => call.stores[4] = e
      <3>1. call = [key |-> "net", stores |-> <<a, b, d>> \o Optional("net", "secondary_dns", w)]
        BY <1>2 DEF nvram_set_net_params, Store, true, false, Proto, Address, Dns
      <3>2. Optional("net", "secondary_dns", w) \in {<<>>, <<e>>}
        BY DEF Optional, Store
      <3> HIDE DEF a, b, d, e
      <3>3. /\ call.key = "net"
            /\ call.stores = <<a, b, d>> \o Optional("net", "secondary_dns", w)
        BY <3>1
      <3> DEFINE S == {a, b, d, e}
      <3>4. /\ <<a, b, d>> \in Seq(S) /\ <<>> \in Seq(S) /\ <<e>> \in Seq(S)
            /\ Len(<<a, b, d>>) = 3 /\ Len(<<e>>) = 1 /\ <<e>>[1] = e
            /\ <<a, b, d>>[1] = a /\ <<a, b, d>>[2] = b /\ <<a, b, d>>[3] = d
        OBVIOUS
      <3> HIDE DEF S
      <3>5. CASE Optional("net", "secondary_dns", w) = <<>>
        BY <3>3, <3>4, <3>5
      <3>6. CASE Optional("net", "secondary_dns", w) = <<e>>
        <4> DEFINE start == <<a, b, d>>
                   more == <<e>>
        <4>1. start \in Seq(S) /\ more \in Seq(S)
          BY <3>4
        <4>2. /\ Len(start) = 3 /\ start[1] = a /\ start[2] = b /\ start[3] = d
              /\ Len(more) = 1 /\ more[1] = e
          BY <3>4
        <4>3. call.stores = start \o more
          BY <3>3, <3>6
        <4> HIDE DEF start, more
        <4>4. /\ DOMAIN call.stores = 1 .. (Len(start) + Len(more))
              /\ \A i \in 1 .. Len(start) : call.stores[i] = start[i]
              /\ \A i \in 1 .. Len(more) : call.stores[Len(start) + i] = more[i]
          BY <4>1, <4>3, Joined
        <4> QED
          BY <3>3, <4>2, <4>4
      <3> QED
        BY <3>2, <3>5, <3>6
    <2>2. OneStoreEach(call.stores)
      <3>1. /\ a.cell # b.cell /\ a.cell # d.cell /\ a.cell # e.cell
            /\ b.cell # d.cell /\ b.cell # e.cell /\ d.cell # e.cell
        BY DEF Proto, Address, Dns
      <3> HIDE DEF a, b, d, e
      <3> QED
        BY <2>1, <3>1 DEF OneStoreEach
    <2>3. ASSUME NEW r \in [Cell -> Word],
                 \A i \in DOMAIN call.stores : r[call.stores[i].cell] = call.stores[i].val
          PROVE  r[Address] = v /\ r[Dns] = v
      <3>1. 2 \in DOMAIN call.stores /\ 3 \in DOMAIN call.stores
            /\ call.stores[2] = b /\ call.stores[3] = d
        <4> HIDE DEF a, b, d, e
        <4> QED
          BY <2>1
      <3> QED
        BY <2>3, <3>1
    <2> QED
      BY <2>1, <2>2, <2>3 DEF PendingOk, RecordOk
  <1> QED
    BY <1>1, <1>2 DEF CallsOf

\* The same for nvram_set_mqtt_params, which stores nothing to disable.
LEMMA MqttCall ==
    ASSUME NEW call \in CallsOf.nvram_set_mqtt_params, NEW s \in [Cell -> Word]
    PROVE  /\ call.key = "mqtt"
           /\ OneStoreEach(call.stores)
           /\ RecordOk("mqtt", s) => PendingOk("mqtt", call.stores, s)
  <1>1. CASE call = nvram_set_mqtt_params(false, ZERO, ZERO, ZERO)
    <2>1. call = [key |-> "mqtt", stores |-> <<>>]
      BY <1>1 DEF nvram_set_mqtt_params, true, false
    <2>2. RecordOk("mqtt", s) => PendingOk("mqtt", <<>>, s)
      BY RecordLocal, CellKeys, RecordCells DEF PendingOk
    <2> QED
      BY <2>1, <2>2 DEF OneStoreEach
  <1>2. ASSUME NEW v \in Data, NEW w \in Data \cup {ZERO},
               call = nvram_set_mqtt_params(true, v, w, w)
        PROVE  call.key = "mqtt" /\ OneStoreEach(call.stores) /\ PendingOk("mqtt", call.stores, s)
    <2> DEFINE a == [cell |-> Enable, val |-> true]
               b == [cell |-> Host, val |-> v]
               d == [cell |-> <<"mqtt", "id">>, val |-> w]
               e == [cell |-> <<"mqtt", "pw">>, val |-> w]
    <2>1. /\ call.key = "mqtt"
          /\ DOMAIN call.stores \in {1 .. 2, 1 .. 4}
          /\ call.stores[1] = a /\ call.stores[2] = b
          /\ 4 \in DOMAIN call.stores => call.stores[3] = d /\ call.stores[4] = e
      <3>1. call = [key |-> "mqtt",
                    stores |-> <<a, b>> \o Optional("mqtt", "id", w) \o Optional("mqtt", "pw", w)]
        BY <1>2 DEF nvram_set_mqtt_params, Store, Enable, Host
      <3>2. \/ Optional("mqtt", "id", w) = <<>> /\ Optional("mqtt", "pw", w) = <<>>
            \/ Optional("mqtt", "id", w) = <<d>> /\ Optional("mqtt", "pw", w) = <<e>>
        BY DEF Optional, Store
      <3> HIDE DEF a, b, d, e
      <3>3. /\ call.key = "mqtt"
            /\ call.stores = (<<a, b>> \o Optional("mqtt", "id", w))
                               \o Optional("mqtt", "pw", w)
        BY <3>1
      <3> DEFINE S == {a, b, d, e}
                 start == <<a, b>> \o Optional("mqtt", "id", w)
      <3>4. /\ <<a, b>> \in Seq(S) /\ <<>> \in Seq(S) /\ <<d>> \in Seq(S) /\ <<e>> \in Seq(S)
            /\ Len(<<a, b>>) = 2 /\ Len(<<d>>) = 1 /\ Len(<<e>>) = 1
            /\ <<a, b>>[1] = a /\ <<a, b>>[2] = b /\ <<d>>[1] = d /\ <<e>>[1] = e
        OBVIOUS
      <3> HIDE DEF S
      <3>5. CASE Optional("mqtt", "id", w) = <<>> /\ Optional("mqtt", "pw", w) = <<>>
        BY <3>3, <3>4, <3>5
      <3>6. CASE Optional("mqtt", "id", w) = <<d>> /\ Optional("mqtt", "pw", w) = <<e>>
        <4> DEFINE pair == <<a, b>>
                   third == <<d>>
                   fourth == <<e>>
        <4>1. pair \in Seq(S) /\ third \in Seq(S) /\ fourth \in Seq(S)
          BY <3>4
        <4>2. /\ Len(pair) = 2 /\ pair[1] = a /\ pair[2] = b
              /\ Len(third) = 1 /\ third[1] = d
              /\ Len(fourth) = 1 /\ fourth[1] = e
          BY <3>4
        <4>3. start = pair \o third /\ call.stores = start \o fourth
          BY <3>3, <3>6
        <4> HIDE DEF pair, third, fourth, start
        <4>4. /\ start \in Seq(S)
              /\ Len(start) = Len(pair) + Len(third)
              /\ \A i \in 1 .. Len(pair) : start[i] = pair[i]
              /\ \A i \in 1 .. Len(third) : start[Len(pair) + i] = third[i]
          BY <4>1, <4>3, Joined
        <4>5. /\ DOMAIN call.stores = 1 .. (Len(start) + Len(fourth))
              /\ \A i \in 1 .. Len(start) : call.stores[i] = start[i]
              /\ \A i \in 1 .. Len(fourth) : call.stores[Len(start) + i] = fourth[i]
          <5>1. start \in Seq(S)
            BY <4>4
          <5> QED
            BY <4>1, <4>3, <5>1, Joined
        <4> QED
          BY <3>3, <4>2, <4>4, <4>5
      <3> QED
        BY <3>2, <3>5, <3>6
    <2>2. OneStoreEach(call.stores)
      <3>1. /\ a.cell # b.cell /\ a.cell # d.cell /\ a.cell # e.cell
            /\ b.cell # d.cell /\ b.cell # e.cell /\ d.cell # e.cell
        BY DEF Enable, Host
      <3> HIDE DEF a, b, d, e
      <3> QED
        BY <2>1, <3>1 DEF OneStoreEach
    <2>3. ASSUME NEW r \in [Cell -> Word],
                 \A i \in DOMAIN call.stores : r[call.stores[i].cell] = call.stores[i].val
          PROVE  r[Host] = v
      <3>1. 2 \in DOMAIN call.stores /\ call.stores[2] = b
        <4> HIDE DEF a, b, d, e
        <4> QED
          BY <2>1
      <3> QED
        BY <2>3, <3>1
    <2> QED
      BY <2>1, <2>2, <2>3 DEF PendingOk, RecordOk
  <1> QED
    BY <1>1, <1>2 DEF CallsOf

\* The same for nvram_set_token_params.
LEMMA TokenCall ==
    ASSUME NEW call \in CallsOf.nvram_set_token_params, NEW s
    PROVE  call.key = "token" /\ OneStoreEach(call.stores) /\ PendingOk("token", call.stores, s)
  <1>1. PICK v \in Data : call = nvram_set_token_params(v, v)
    BY DEF CallsOf
  <1> DEFINE a == [cell |-> Access, val |-> v]
             b == [cell |-> Refresh, val |-> v]
  <1>2. call = [key |-> "token", stores |-> <<a, b>>]
    BY <1>1 DEF nvram_set_token_params, Store, Access, Refresh
  <1>3. a.cell # b.cell
    BY RecordCells
  <1>4. OneStoreEach(<<a, b>>)
    <2> HIDE DEF a, b
    <2> QED
      BY <1>3 DEF OneStoreEach
  <1>5. ASSUME NEW r \in [Cell -> Word], \A i \in DOMAIN <<a, b>> : r[<<a, b>>[i].cell] = <<a, b>>[i].val
        PROVE  r[Access] = v /\ r[Refresh] = v
    BY <1>5
  <1> QED
    BY <1>2, <1>4, <1>5 DEF PendingOk, RecordOk

\* Any accepted call, on a nvdata whose records fit.
LEMMA CallRecord ==
    ASSUME NEW call \in Calls, NEW s \in [Cell -> Word], RecordOk(call.key, s)
    PROVE  OneStoreEach(call.stores) /\ PendingOk(call.key, call.stores, s)
  <1>1. PICK name \in Api : call \in CallsOf[name]
    BY DEF Calls
  <1>2. CASE name = "nvram_set_net_params"
    BY <1>1, <1>2, NetCall
  <1>3. CASE name = "nvram_set_mqtt_params"
    BY <1>1, <1>3, MqttCall
  <1>4. CASE name = "nvram_set_token_params"
    BY <1>1, <1>4, TokenCall
  <1>5. CASE name = "nvram_set_fold_params"
    <2>1. PICK folds \in [0 .. NumTypes - 1 -> Data] : call = nvram_set_fold_params(folds)
      BY <1>1, <1>5 DEF CallsOf
    <2>2. /\ call.key = "folds"
          /\ call.stores = [i \in 1 .. NumTypes |-> Store("folds", i - 1, folds[i - 1])]
      BY <2>1 DEF nvram_set_fold_params
    <2>3. \A i \in 1 .. NumTypes : call.stores[i].cell = <<"folds", i - 1>>
      BY <2>2 DEF Store
    <2>4. DOMAIN call.stores = 1 .. NumTypes
      BY <2>2
    <2>5. OneStoreEach(call.stores)
      BY <2>3, <2>4, NvramApiAssumption DEF OneStoreEach
    <2> QED
      BY <2>2, <2>5 DEF PendingOk, RecordOk
  <1>6. CASE name = "nvram_set_fold_param"
    BY <1>1, <1>6 DEF CallsOf, nvram_set_fold_param, OneStoreEach, PendingOk, RecordOk
  <1>7. CASE name \in {"nvram_set_beacon_params", "nvram_set_tgs5141_param", "nvram_set_prov_done"}
    <2>1. call.key \in {"beacon", "misc"} /\ \E x : call.stores = <<x>>
      BY <1>1, <1>7 DEF CallsOf, nvram_set_beacon_params, nvram_set_tgs5141_param,
                        nvram_set_prov_done
    <2> QED
      BY <2>1 DEF OneStoreEach, PendingOk, RecordOk
  <1>8. name \in {"nvram_set_net_params", "nvram_set_mqtt_params", "nvram_set_token_params",
                  "nvram_set_fold_params", "nvram_set_fold_param", "nvram_set_beacon_params",
                  "nvram_set_tgs5141_param", "nvram_set_prov_done"}
    BY <1>1, NvramApiAssumption
  <1>9. \/ name = "nvram_set_net_params" \/ name = "nvram_set_mqtt_params"
        \/ name = "nvram_set_token_params" \/ name = "nvram_set_fold_params"
        \/ name = "nvram_set_fold_param"
        \/ name \in {"nvram_set_beacon_params", "nvram_set_tgs5141_param", "nvram_set_prov_done"}
    BY <1>8
  <1> QED
    BY <1>2, <1>3, <1>4, <1>5, <1>6, <1>7, <1>9, Zenon

\* A store made is one store less to make.
LEMMA PendingStore ==
    ASSUME NEW k, NEW s \in [Cell -> Word], NEW p \in Seq(Stores), p # <<>>,
           OneStoreEach(p), PendingOk(k, p, s),
           NEW r, r = [s EXCEPT ![Head(p).cell] = Head(p).val]
    PROVE  OneStoreEach(Tail(p)) /\ PendingOk(k, Tail(p), r)
  <1> DEFINE q == Tail(p)
  <1>1. /\ 1 \in DOMAIN p /\ Head(p) = p[1]
        /\ \A i \in DOMAIN q : i \in 1 .. Len(p) /\ i + 1 \in DOMAIN p /\ q[i] = p[i + 1] /\ i # 0
        /\ \A i \in DOMAIN p : i # 1 => i - 1 \in DOMAIN q /\ q[i - 1] = p[i]
    OBVIOUS
  <1> HIDE DEF q
  <1>2. OneStoreEach(q)
    <2> SUFFICES ASSUME NEW i \in DOMAIN q, NEW j \in DOMAIN q, q[i].cell = q[j].cell
                 PROVE  i = j
      BY DEF OneStoreEach
    <2>1. i + 1 = j + 1
      BY <1>1 DEF OneStoreEach
    <2> QED
      BY <1>1, <2>1
  <1>3. ASSUME NEW t \in [Cell -> Word],
               \A i \in DOMAIN q : t[q[i].cell] = q[i].val,
               \A c \in Cell : (\A i \in DOMAIN q : q[i].cell # c) => t[c] = r[c]
        PROVE  RecordOk(k, t)
    <2>1. \A i \in DOMAIN q : q[i].cell # p[1].cell
      <3> SUFFICES ASSUME NEW i \in DOMAIN q, p[i + 1].cell = p[1].cell
                   PROVE  FALSE
        BY <1>1
      <3>1. i + 1 = 1 /\ i \in Nat /\ i # 0
        BY <1>1 DEF OneStoreEach
      <3> QED
        BY <3>1
    <2>2. p[1].cell \in Cell
      <3>1. p[1] \in Stores
        BY <1>1
      <3> QED
        BY <3>1 DEF Stores
    <2>3. t[p[1].cell] = p[1].val
      BY <1>1, <1>3, <2>1, <2>2
    <2>4. \A i \in DOMAIN p : t[p[i].cell] = p[i].val
      <3> SUFFICES ASSUME NEW i \in DOMAIN p PROVE t[p[i].cell] = p[i].val
        OBVIOUS
      <3>1. CASE i = 1
        BY <2>3, <3>1
      <3>2. CASE i # 1
        BY <1>1, <1>3, <3>2
      <3> QED
        BY <3>1, <3>2
    <2>5. \A c \in Cell : (\A i \in DOMAIN p : p[i].cell # c) => t[c] = s[c]
      <3> SUFFICES ASSUME NEW c \in Cell, \A i \in DOMAIN p : p[i].cell # c
                   PROVE  t[c] = s[c]
        OBVIOUS
      <3>1. \A i \in DOMAIN q : q[i].cell # c
        BY <1>1
      <3>2. p[1].cell # c
        BY <1>1
      <3> QED
        BY <1>1, <1>3, <3>1, <3>2
    <2> QED
      BY <2>4, <2>5 DEF PendingOk
  <1> QED
    BY <1>2, <1>3 DEF PendingOk, q

\* When all stores have been made the record fits.
LEMMA PendingDone ==
    ASSUME NEW k, NEW s \in [Cell -> Word], PendingOk(k, <<>>, s)
    PROVE  RecordOk(k, s)
  BY DEF PendingOk

\* The chip comes up with records that fit.
LEMMA RecordInit ==
    ASSUME NEW t, Tasks = {t}
    PROVE  Init => RecordInv(t)
  <1> SUFFICES ASSUME Init PROVE RecordInv(t)
    OBVIOUS
  <1>1. pc[t] = "idle" /\ todo[t] = <<>>
    BY DEF Init, NoCall
  <1>2. \A k \in Keys : RecordOk(k, flash) /\ RecordOk(k, ram) /\ RecordOk(k, nvs)
    BY DefaultOk, ProvisionedOk DEF Init
  <1> QED
    BY <1>1, <1>2 DEF RecordInv, Holds, OneStoreEach

\* A boot takes a record from the flash as it is there, or not at all.
LEMMA RecordBoot ==
    ASSUME NEW t \in Tasks, Tasks = {t}, RecordInv(t), Boot
    PROVE  RecordInv(t)'
  <1>1. PICK erase \in BOOLEAN, works \in BOOLEAN, failing \in SUBSET Keys :
          LET store    == IF erase THEN Factory ELSE flash
              readable == {k \in Keys \ failing : works /\ Present(k, store)}
          IN \E garbled \in SUBSET {k \in failing : works /\ Present(k, store)} :
               /\ flash' = store
               /\ nvs' = store
               /\ ram' = BootRam(store, ReadAtBoot(readable), garbled)
    BY DEF Boot
  <1> DEFINE store == IF erase THEN Factory ELSE flash
             read  == ReadAtBoot({k \in Keys \ failing : works /\ Present(k, store)})
  <1>2. PICK garbled :
          flash' = store /\ nvs' = store /\ ram' = BootRam(store, read, garbled)
    BY <1>1
  <1>3. pc[t] = "idle" /\ pc' = pc /\ todo' = todo
    BY DEF Boot, RecordInv, callVars
  <1>4. \A k \in Keys : RecordOk(k, store)
    BY DefaultOk DEF RecordInv
  <1> HIDE DEF store, read
  <1>5. ASSUME NEW k \in Keys PROVE RecordOk(k, ram')
    <2>1. CASE k = "misc"
      BY <2>1 DEF RecordOk
    <2>2. CASE k # "misc" /\ k \in read \cup garbled
      <3>1. \A c \in CellsOf(k) : ram'[c] = store[c]
        BY <1>2, <2>2, CellKeys, ProvDoneCell DEF BootRam
      <3> QED
        BY <1>4, <3>1, RecordLocal
    <2>3. CASE k # "misc" /\ k \notin read \cup garbled
      <3>1. \A c \in CellsOf(k) : ram'[c] = Default[c]
        BY <1>2, <2>3, CellKeys, ProvDoneCell DEF BootRam
      <3> QED
        BY DefaultOk, <3>1, RecordLocal
    <2> QED
      BY <2>1, <2>2, <2>3
  <1> QED
    BY <1>2, <1>3, <1>4, <1>5 DEF RecordInv, Holds, Boot

\* A failing erase takes a record from the flash as a whole.
LEMMA RecordErase ==
    ASSUME NEW t \in Tasks, RecordInv(t), EraseFails
    PROVE  RecordInv(t)'
  <1>1. PICK lost \in Losses :
          flash' = [c \in Cell |-> IF KeyOf(c) \in lost THEN Missing ELSE flash[c]]
    BY DEF EraseFails
  <1>2. ASSUME NEW k \in Keys PROVE RecordOk(k, flash')
    <2>1. CASE k \in lost
      <3>1. \A c \in CellsOf(k) : flash'[c] = Factory[c]
        BY <1>1, <2>1, CellKeys DEF Factory
      <3> QED
        BY <3>1, DefaultOk, RecordLocal
    <2>2. CASE k \notin lost
      <3>1. \A c \in CellsOf(k) : flash'[c] = flash[c]
        BY <1>1, <2>2, CellKeys
      <3>2. RecordOk(k, flash)
        BY DEF RecordInv
      <3> QED
        BY <3>1, <3>2, RecordLocal
    <2> QED
      BY <2>1, <2>2
  <1> QED
    BY <1>2 DEF RecordInv, Holds, EraseFails, callVars

\* A store concerns the record of its call, and no other.
LEMMA StoreOfRecord ==
    ASSUME IInv, NEW t \in Tasks, todo[t] # <<>>
    PROVE  /\ key[t] \in Keys /\ Head(todo[t]).cell \in CellsOf(key[t])
           /\ Head(todo[t]) = todo[t][1] /\ 1 \in DOMAIN todo[t]
           /\ \A k \in Keys \ {key[t]} : Head(todo[t]).cell \notin CellsOf(k)
  <1>1. todo[t] \in Seq(Stores)
    BY DEF IInv, TypeOK
  <1>2. 1 \in DOMAIN todo[t] /\ Head(todo[t]) = todo[t][1]
    BY <1>1
  <1>3. Head(todo[t]).cell \in owned[t]
    BY <1>2 DEF IInv, CallsWellFormed, CallWellFormed
  <1>4. key[t] \in Keys /\ Head(todo[t]).cell \in CellsOf(key[t])
    BY <1>3, OwnedCells
  <1> QED
    BY <1>2, <1>4, CellKeys

\* A store moves its record on towards one that fits.
LEMMA RecordStore ==
    ASSUME NEW t \in Tasks, Tasks = {t}, IInv, RecordInv(t), StoreCell(t)
    PROVE  RecordInv(t)'
  <1> DEFINE store == Head(todo[t])
  <1>1. /\ up /\ up' /\ pc[t] = "store" /\ todo[t] # <<>>
        /\ ram' = [ram EXCEPT ![store.cell] = store.val]
        /\ todo'[t] = Tail(todo[t])
        /\ UNCHANGED <<nvs, flash, pc, key, left>>
    BY DEF StoreCell, At, IInv, TypeOK
  <1>2. ram \in [Cell -> Word] /\ todo[t] \in Seq(Stores)
    BY DEF IInv, TypeOK
  <1>3. Holds(t, key[t], "store") /\ key[t] \in Keys
    BY <1>1, StoreOfRecord DEF Holds
  <1>4. OneStoreEach(todo'[t]) /\ PendingOk(key[t], todo'[t], ram')
    <2>1. OneStoreEach(todo[t]) /\ PendingOk(key[t], todo[t], ram)
      BY <1>3 DEF RecordInv
    <2> QED
      BY <1>1, <1>2, <2>1, PendingStore
  <1>5. ASSUME NEW k \in Keys, k # key[t] PROVE RecordOk(k, ram')
    <2>1. RecordOk(k, ram)
      BY <1>5 DEF RecordInv, Holds
    <2>2. \A c \in CellsOf(k) : ram'[c] = ram[c]
      BY <1>1, <1>2, <1>5, StoreOfRecord, CellKeys
    <2> QED
      BY <2>1, <2>2, RecordLocal
  <1> QED
    BY <1>1, <1>3, <1>4, <1>5 DEF RecordInv, Holds

\* nvs_set_blob copies one record and no other.
LEMMA RecordCopy ==
    ASSUME NEW t \in Tasks, Tasks = {t}, IInv, RecordInv(t), CopyCell(t)
    PROVE  RecordInv(t)'
  <1>1. PICK c \in left[t] : /\ nvs' = [nvs EXCEPT ![c] = ram[c]]
                             /\ left' = [left EXCEPT ![t] = @ \ {c}]
    BY DEF CopyCell
  <1>2. up /\ up' /\ pc[t] = "copy" /\ UNCHANGED <<ram, flash, pc, key, todo>>
    BY DEF CopyCell, At
  <1>3. left'[t] = left[t] \ {c} /\ nvs \in [Cell -> Content]
    BY <1>1 DEF IInv, TypeOK
  <1>4. key[t] \in Keys /\ c \in CellsOf(key[t]) /\ c \in Cell /\ KeyOf(c) = key[t]
    BY OwnedCells
  <1>5. \A d \in CellsOf(key[t]) \ left'[t] : nvs'[d] = ram'[d]
    <2>1. \A d \in CellsOf(key[t]) \ left[t] : nvs[d] = ram[d]
      BY <1>2, <1>4 DEF RecordInv, Holds
    <2> QED
      BY <1>1, <1>2, <1>3, <1>4, <2>1, CellKeys
  <1>6. ASSUME NEW k \in Keys, k # key[t] PROVE RecordOk(k, nvs')
    <2>1. RecordOk(k, nvs)
      BY <1>6 DEF RecordInv, Holds
    <2>2. \A d \in CellsOf(k) : nvs'[d] = nvs[d]
      BY <1>1, <1>3, <1>4, <1>6, CellKeys
    <2> QED
      BY <2>1, <2>2, RecordLocal
  <1> QED
    BY <1>2, <1>5, <1>6 DEF RecordInv, Holds

\* The flash gets a record as NVS has it.
LEMMA RecordFlush ==
    ASSUME NEW k \in Keys, RecordOk(k, nvs), \A h \in Keys : RecordOk(h, flash),
           flash' = Flushed(k), NEW h \in Keys
    PROVE  RecordOk(h, flash')
  <1>1. CASE h = k
    <2>1. \A c \in CellsOf(h) : flash'[c] = nvs[c]
      BY <1>1, CellKeys DEF Flushed
    <2> QED
      BY <1>1, <2>1, RecordLocal
  <1>2. CASE h # k
    <2>1. \A c \in CellsOf(h) : flash'[c] = flash[c]
      BY <1>2, CellKeys DEF Flushed
    <2> QED
      BY <2>1, RecordLocal
  <1> QED
    BY <1>1, <1>2

\* Every step of a setter keeps what is known of the records.
LEMMA RecordSetter ==
    ASSUME NEW t \in Tasks, Tasks = {t}, IInv, RecordInv(t), SetterStep(t)
    PROVE  RecordInv(t)'
  <1> USE DEF At, Goto
  <1>0. pc \in [Tasks -> PC] /\ key \in [Tasks -> Keys \cup {"none"}]
        /\ todo \in [Tasks -> Seq(Stores)] /\ left \in [Tasks -> SUBSET Cell]
    BY DEF IInv, TypeOK
  <1>1. up /\ up'
    BY DEF SetterStep, Call, StoreCell, CallUpdate, Open, OpenFails, SetBlob,
           SetBlobFails, CopyCell, SetBlobReturns, Commit, CommitFails, Close, Return
  <1>2. CASE Call(t)
    <2>1. PICK call \in Calls : key'[t] = call.key /\ todo'[t] = call.stores
      BY <1>0, <1>2 DEF Call
    <2>2. pc[t] = "idle" /\ pc'[t] = "store" /\ UNCHANGED <<ram, nvs, flash>>
      BY <1>0, <1>2 DEF Call, storeVars
    <2>3. \A k \in Keys : RecordOk(k, ram) /\ RecordOk(k, nvs) /\ RecordOk(k, flash)
      BY <2>2 DEF RecordInv, Holds
    <2>4. call.key \in Keys /\ ram \in [Cell -> Word]
      BY CallFacts DEF WellFormedCall, IInv, TypeOK
    <2>5. OneStoreEach(call.stores) /\ PendingOk(call.key, call.stores, ram)
      BY <2>3, <2>4, CallRecord
    <2> QED
      BY <1>1, <2>1, <2>2, <2>3, <2>5 DEF RecordInv, Holds
  <1>3. CASE StoreCell(t)
    BY <1>3, RecordStore
  <1>4. CASE CallUpdate(t)
    <2>1. /\ pc[t] = "store" /\ todo[t] = <<>> /\ pc'[t] = "open"
          /\ UNCHANGED <<ram, nvs, flash, key, todo>>
      BY <1>0, <1>4 DEF CallUpdate, storeVars
    <2>2. ASSUME NEW k \in Keys PROVE RecordOk(k, ram)
      <3>1. Holds(t, k, "store") => PendingOk(k, <<>>, ram)
        BY <2>1 DEF RecordInv
      <3>2. ram \in [Cell -> Word]
        BY DEF IInv, TypeOK
      <3> QED
        BY <3>1, <3>2, PendingDone DEF RecordInv
    <2> QED
      BY <1>1, <2>1, <2>2 DEF RecordInv, Holds
  <1>5. CASE Open(t) \/ OpenFails(t) \/ SetBlobFails(t) \/ CommitFails(t) \/ Close(t)
    <2>1. /\ pc[t] \notin {"store", "copy"} /\ pc'[t] \notin {"store", "copy"}
          /\ UNCHANGED <<ram, nvs, flash, todo>>
      BY <1>0, <1>5 DEF Open, OpenFails, SetBlobFails, CommitFails, Close, Return, storeVars
    <2> QED
      BY <1>1, <2>1 DEF RecordInv, Holds
  <1>6. CASE SetBlob(t)
    <2>1. /\ pc[t] = "set_blob" /\ pc'[t] = "copy" /\ key' = key
          /\ left'[t] = CellsOf(key[t])
          /\ UNCHANGED <<ram, nvs, flash, todo>>
      BY <1>0, <1>6 DEF SetBlob, storeVars
    <2> QED
      BY <1>1, <2>1 DEF RecordInv, Holds
  <1>7. CASE CopyCell(t)
    BY <1>7, RecordCopy
  <1>8. CASE SetBlobReturns(t)
    <2>1. /\ pc[t] = "copy" /\ left[t] = {} /\ pc'[t] \in {"commit", "close"}
          /\ UNCHANGED <<ram, nvs, flash, todo>>
      BY <1>0, <1>8 DEF SetBlobReturns, storeVars
    <2>2. ASSUME NEW k \in Keys PROVE RecordOk(k, ram) /\ RecordOk(k, nvs)
      <3>1. RecordOk(k, ram)
        BY <2>1 DEF RecordInv, Holds
      <3>2. CASE key[t] = k
        <4>1. \A c \in CellsOf(k) : nvs[c] = ram[c]
          BY <2>1, <3>2 DEF RecordInv, Holds
        <4> QED
          BY <3>1, <4>1, RecordLocal
      <3>3. CASE key[t] # k
        BY <3>1, <3>3 DEF RecordInv, Holds
      <3> QED
        BY <3>2, <3>3
    <2> QED
      BY <1>1, <2>1, <2>2 DEF RecordInv, Holds
  <1>9. CASE Commit(t)
    <2>1. /\ pc[t] = "commit" /\ pc'[t] = "close"
          /\ flash' = Flushed(key[t]) /\ UNCHANGED <<ram, nvs, todo>>
      BY <1>0, <1>9 DEF Commit
    <2>2. key[t] \in Keys
      BY <1>0, <2>1 DEF IInv, CallsWellFormed, CallWellFormed
    <2>3. \A k \in Keys : RecordOk(k, ram) /\ RecordOk(k, nvs) /\ RecordOk(k, flash)
      BY <2>1 DEF RecordInv, Holds
    <2>4. \A k \in Keys : RecordOk(k, flash')
      BY <2>1, <2>2, <2>3, RecordFlush
    <2> QED
      BY <1>1, <2>1, <2>3, <2>4 DEF RecordInv, Holds
  <1> QED
    BY <1>2, <1>3, <1>4, <1>5, <1>6, <1>7, <1>8, <1>9 DEF SetterStep

\* Every step does.
LEMMA RecordStep ==
    ASSUME NEW t, Tasks = {t}
    PROVE  IInv /\ RecordInv(t) /\ [Next]_vars => RecordInv(t)'
  <1> SUFFICES ASSUME IInv, RecordInv(t), [Next]_vars
               PROVE  RecordInv(t)'
    OBVIOUS
  <1>1. CASE Boot
    BY <1>1, RecordBoot
  <1>2. CASE Crash
    <2>1. /\ pc'[t] = "idle" /\ todo'[t] = <<>> /\ flash' = flash /\ nvs' = flash
          /\ ram' = Default
      BY <1>2 DEF Crash, NoCall
    <2> QED
      BY <2>1, DefaultOk DEF RecordInv, Holds, OneStoreEach
  <1>3. ASSUME NEW u \in Tasks, SetterStep(u)
        PROVE  RecordInv(t)'
    BY <1>3, RecordSetter
  <1>4. ASSUME NEW k \in Keys, WriteBack(k)
        PROVE  RecordInv(t)'
    <2>1. /\ pc[t] # "copy" /\ flash' = Flushed(k)
          /\ UNCHANGED <<up, ram, nvs, pc, key, todo, left>>
      BY <1>4 DEF WriteBack, NvsBusy, callVars
    <2>2. \A h \in Keys : RecordOk(h, nvs) /\ RecordOk(h, flash)
      BY <2>1 DEF RecordInv, Holds
    <2>3. \A h \in Keys : RecordOk(h, flash')
      BY <2>1, <2>2, RecordFlush
    <2> QED
      BY <2>1, <2>2, <2>3 DEF RecordInv, Holds
  <1>5. CASE UNCHANGED vars
    BY <1>5 DEF vars, storeVars, callVars, RecordInv, Holds
  <1>6. CASE EraseFails
    BY <1>6, RecordErase
  <1> QED
    BY <1>1, <1>2, <1>3, <1>4, <1>5, <1>6 DEF Next

\* With one task setting tokens, power loss at any point leaves the flash with
\* two tokens of one call, for any tokens and any other setters it calls.
THEOREM PairWhole ==
    ASSUME NEW t, Tasks = {t}
    PROVE  Spec => []TokenPairWhole
  <1>1. Init => RecordInv(t)
    BY RecordInit
  <1>2. IInv /\ RecordInv(t) /\ [Next]_vars => RecordInv(t)'
    BY RecordStep
  <1>3. RecordInv(t) => TokenPairWhole
    BY RecordCells DEF RecordInv, RecordOk, TokenPairWhole, Access, Refresh
  <1> QED
    BY <1>1, <1>2, <1>3, Invariance, PTL DEF Spec

-----------------------------------------------------------------------------
(***************************************************************************)
(* nvram.c implements the parameter store, for every set of tasks and of   *)
(* values.                                                                 *)
(***************************************************************************)

\* Without power no task is in a call.
OffQuiet == ~up => behind = {} /\ \A t \in Tasks : key[t] = "none"

LEMMA OffQuietInit == Init => OffQuiet
  BY DEF Init, NoCall, OffQuiet

\* Only a step that needs power, a boot, or the end of power happens.
LEMMA OffQuietStep == OffQuiet /\ [Next]_vars => OffQuiet'
  <1> SUFFICES ASSUME OffQuiet, [Next]_vars PROVE OffQuiet'
    OBVIOUS
  <1>1. CASE Boot
    BY <1>1 DEF Boot, OffQuiet
  <1>2. CASE Crash
    BY <1>2 DEF Crash, NoCall, OffQuiet
  <1>3. ASSUME NEW t \in Tasks, SetterStep(t) PROVE up'
    BY <1>3 DEF SetterStep, At, Call, StoreCell, CallUpdate, Open, OpenFails, Return, SetBlob,
                SetBlobFails, CopyCell, SetBlobReturns, Commit, CommitFails, Close
  <1>4. ASSUME NEW k \in Keys, WriteBack(k) PROVE up'
    BY <1>4 DEF WriteBack
  <1>5. CASE UNCHANGED vars
    BY <1>5 DEF vars, callVars, history, OffQuiet
  <1>6. CASE EraseFails
    BY <1>6 DEF EraseFails, callVars, history, OffQuiet
  <1>7. QED
    BY <1>1, <1>2, <1>3, <1>4, <1>5, <1>6 DEF Next, OffQuiet

\* The cells of a record whose setter runs are dirty.
LEMMA RunningDirty ==
    ASSUME NEW t \in Tasks, NEW c \in Cell, KeyOf(c) = key[t]
    PROVE  c \in Dirty
  BY DEF Dirty, Settled

\* The cells NVS has not yet brought to the flash are dirty.
LEMMA DifferentDirty ==
    ASSUME IInv, up, NEW c \in Cell, flash[c] # nvs[c] \/ nvs[c] # ram[c]
    PROVE  c \in Dirty
  <1>1. c \in behind \/ \E t \in Tasks : c \in owned[t]
    BY DEF IInv, FlashFollowsNvs, NvsFollowsRam, ToCommit, ToCopy
  <1>2. ASSUME NEW t \in Tasks, c \in owned[t] PROVE c \in Dirty
    BY <1>2, OwnedCells, RunningDirty
  <1>3. QED
    BY <1>1, <1>2 DEF Dirty

\* So the clean cells are the same in nvdata, in NVS and in the flash,
CleanAgree ==
    IInv /\ up => \A c \in Cell : c \notin Dirty => flash[c] = nvs[c] /\ nvs[c] = ram[c]

LEMMA CleanCells == CleanAgree
  BY DifferentDirty DEF CleanAgree

\* after a step as before it.
LEMMA CleanCellsNext == CleanAgree'
  BY CleanCells, PTL

-----------------------------------------------------------------------------
\* The device as it is delivered, or as it was switched off.
LEMMA InitParams == Init => Params!Init
  <1> SUFFICES ASSUME Init PROVE Params!Init
    OBVIOUS
  <1>1. flash \in [Cell -> Content]
    BY TypeInit DEF TypeOK
  <1>2. Dirty = {}
    BY CellKeys DEF Init, NoCall, Dirty, Settled, Keys
  <1>3. QED
    BY <1>1, <1>2 DEF Init, Params!Init

\* A boot: what it has not read is dirty.
LEMMA BootParams == IInv /\ OffQuiet /\ Boot => Params!PowerOn
  <1> SUFFICES ASSUME IInv, OffQuiet, Boot PROVE Params!PowerOn
    OBVIOUS
  <1>1. PICK erase \in BOOLEAN, works \in BOOLEAN, failing \in SUBSET Keys :
          LET store    == IF erase THEN Factory ELSE flash
              readable == {k \in Keys \ failing : works /\ Present(k, store)}
              read     == ReadAtBoot(readable)
          IN \E garbled \in SUBSET {k \in failing : works /\ Present(k, store)} :
               /\ flash' = store
               /\ ram' = BootRam(store, read, garbled)
               /\ behind' = {c \in Cell : KeyOf(c) \notin read}
    BY DEF Boot
  <1> DEFINE store    == IF erase THEN Factory ELSE flash
             readable == {k \in Keys \ failing : works /\ Present(k, store)}
             read     == ReadAtBoot(readable)
  <1>2. PICK garbled \in SUBSET Keys :
          /\ flash' = store
          /\ ram' = BootRam(store, read, garbled)
          /\ behind' = {c \in Cell : KeyOf(c) \notin read}
    BY <1>1
  <1>3. read \subseteq readable /\ \A k \in readable : Present(k, store)
    BY ReadAtBootFacts
  <1>4. store = flash \/ store = [c \in Cell |-> Missing]
    BY DEF Factory
  <1> HIDE DEF store, readable, read
  <1>5. Dirty' = behind'
    <2>1. key' = key /\ \A t \in Tasks : key[t] = "none"
      BY DEF Boot, callVars, OffQuiet
    <2>2. \A c \in Cell : KeyOf(c) # "none"
      BY CellKeys DEF Keys
    <2>3. QED
      BY <2>1, <2>2 DEF Dirty, Settled
  <1>6. ram' \in [Cell -> Content]
    <2>1. TypeOK'
      BY TypeBoot DEF IInv
    <2>2. QED
      BY <2>1 DEF TypeOK, Content
  <1>7. ram'[ProvDone] # false => ChainComplete(read)
    BY <1>2, ProvDoneCell DEF BootRam
  <1>8. ASSUME NEW c \in Cell \ Dirty'
        PROVE  ram'[c] = flash'[c] /\ flash'[c] # Missing
    <2>1. KeyOf(c) \in read
      BY <1>2, <1>5, <1>8
    <2>2. c # ProvDone \/ ChainComplete(read)
      <3>1. SUFFICES ASSUME c = ProvDone PROVE ChainComplete(read)
        OBVIOUS
      <3>2. "misc" \in ReadAtBoot(readable) => ChainComplete(ReadAtBoot(readable))
        BY ReadAtBootFacts DEF readable
      <3>3. QED
        BY <2>1, <3>1, <3>2, ProvDoneCell DEF read
    <2>3. store[c] # Missing
      BY <1>3, <2>1, CellKeys DEF Present
    <2>4. QED
      BY <1>2, <2>1, <2>2, <2>3 DEF BootRam
  <1>9. ram'[ProvDone] # false =>
          Dirty' \cap UNION {CellsOf(k) : k \in {"net", "token", "mqtt", "misc"}} = {}
    <2>1. ASSUME ChainComplete(read), NEW k \in {"net", "token", "mqtt", "misc"},
                 NEW c \in CellsOf(k)
          PROVE  c \notin Dirty'
      <3>1. k \in read
        BY <2>1 DEF ChainComplete, Chain
      <3>2. KeyOf(c) = k
        BY CellKeys DEF Keys
      <3>3. QED
        BY <1>2, <1>5, <3>1, <3>2
    <2>2. QED
      BY <1>7, <2>1
  <1>10. Dirty' \subseteq Cell
    BY <1>2, <1>5
  <1>11. ~up /\ up' = TRUE
    BY DEF Boot
  <1>12. QED
    BY <1>2, <1>4, <1>6, <1>8, <1>9, <1>10, <1>11 DEF Params!PowerOn

\* An erase that fails: records are lost.
LEMMA EraseParams == EraseFails => Params!Lose
  <1> SUFFICES ASSUME EraseFails PROVE Params!Lose
    OBVIOUS
  <1>1. PICK lost \in Losses :
          flash' = [c \in Cell |-> IF KeyOf(c) \in lost THEN Missing ELSE flash[c]]
    BY DEF EraseFails
  <1> DEFINE records == {CellsOf(k) : k \in lost}
  <1>2. lost \subseteq Keys
    BY NvramAssumption
  <1>3. records \in SUBSET {CellsOf(k) : k \in Keys}
    BY <1>2
  <1>4. \A c \in Cell : c \in UNION records <=> KeyOf(c) \in lost
    BY <1>2, CellKeys
  <1>5. flash' = [c \in Cell |-> IF c \in UNION records THEN Missing ELSE flash[c]]
    BY <1>1, <1>4
  <1>6. ~up /\ UNCHANGED <<up, ram, key, behind>>
    BY DEF EraseFails, callVars, history
  <1>7. Dirty' = Dirty
    BY <1>6 DEF Dirty, Settled
  <1> QED
    BY <1>3, <1>5, <1>6, <1>7 DEF Params!Lose

\* The end of power.
LEMMA CrashParams == Crash => Params!PowerOff
  <1> SUFFICES ASSUME Crash PROVE Params!PowerOff
    OBVIOUS
  <1>1. Dirty' = {}
    BY CellKeys DEF Crash, NoCall, Dirty, Settled, Keys
  <1>2. QED
    BY <1>1 DEF Crash, Params!PowerOff

\* A call begins: its record becomes dirty.
LEMMA CallParams ==
    ASSUME IInv, NEW t \in Tasks, Call(t)
    PROVE  Params!Begin
  <1>1. PICK call \in Calls : key' = [key EXCEPT ![t] = call.key]
    BY DEF Call
  <1>2. call.key \in Keys
    BY CallFacts DEF WellFormedCall
  <1>3. key[t] = "none" /\ key \in [Tasks -> Keys \cup {"none"}]
    BY DEF Call, At, IInv, TypeOK, CallsWellFormed, CallWellFormed
  <1>4. ASSUME NEW c \in Cell
        PROVE  c \in Dirty' <=> c \in Dirty \/ c \in CellsOf(call.key)
    <2>1. KeyOf(c) \in Keys /\ KeyOf(c) # "none"
          /\ (c \in CellsOf(call.key) <=> KeyOf(c) = call.key)
      BY <1>2, CellKeys DEF Keys
    <2>2. UNCHANGED behind
      BY DEF Call, history
    <2>3. (\E u \in Tasks : key'[u] = KeyOf(c))
            <=> (\E u \in Tasks : key[u] = KeyOf(c)) \/ KeyOf(c) = call.key
      BY <1>1, <1>3, <2>1
    <2>4. QED
      BY <2>1, <2>2, <2>3 DEF Dirty, Settled
  <1>5. Dirty' = Dirty \cup CellsOf(call.key)
    <2>1. behind \subseteq Cell /\ behind' \subseteq Cell
      BY DEF IInv, TypeOK, Call, history
    <2>2. Dirty \subseteq Cell /\ Dirty' \subseteq Cell /\ CellsOf(call.key) \subseteq Cell
      BY <1>2, <2>1, CellKeys DEF Dirty
    <2>3. QED
      BY <1>4, <2>2
  <1>6. QED
    BY <1>2, <1>5 DEF Call, At, storeVars, Params!Begin

\* An assignment into nvdata changes a dirty cell.
LEMMA StoreCellParams ==
    ASSUME IInv, NEW t \in Tasks, StoreCell(t)
    PROVE  Params!Set
  <1> DEFINE store == Head(todo[t])
  <1>1. store \in Stores /\ store.cell \in owned[t]
    <2>1. todo[t] \in Seq(Stores) /\ todo[t] # <<>>
      BY DEF StoreCell, IInv, TypeOK
    <2>2. store = todo[t][1] /\ 1 \in DOMAIN todo[t] /\ store \in Stores
      BY <2>1
    <2>3. QED
      BY <2>2 DEF IInv, CallsWellFormed, CallWellFormed
  <1>2. ram' = [ram EXCEPT ![store.cell] = store.val]
    BY DEF StoreCell
  <1>3. store.cell \in Dirty
    BY <1>1, OwnedCells, RunningDirty
  <1>4. \A c \in Cell \ Dirty : ram'[c] = ram[c]
    BY <1>2, <1>3 DEF IInv, TypeOK
  <1>5. Dirty' = Dirty
    BY DEF StoreCell, Dirty, Settled
  <1>6. ram' \in [Cell -> Content]
    BY TypeStoreCell DEF IInv, TypeOK, Content
  <1>7. QED
    BY <1>4, <1>5, <1>6 DEF StoreCell, At, Params!Set

\* A record is written to the flash: only its dirty cells change there.
LEMMA FlushParams ==
    ASSUME IInv, IInv', up, up', NEW k \in Keys, flash' = Flushed(k),
           UNCHANGED <<ram, key, behind>>
    PROVE  Params!Save
  <1>1. ASSUME NEW c \in Cell, flash'[c] # flash[c]
        PROVE  c \in CellsOf(k) \cap Dirty
    <2>1. KeyOf(c) = k /\ flash'[c] = nvs[c]
      BY <1>1 DEF Flushed
    <2>2. QED
      BY <1>1, <2>1, CellKeys, DifferentDirty
  <1>2. Dirty' = Dirty
    BY DEF Dirty, Settled
  <1>3. flash' \in [Cell -> Content]
    BY DEF IInv, TypeOK
  <1>4. up = TRUE /\ up' = up
    BY DEF IInv, TypeOK
  <1>5. QED
    BY <1>1, <1>2, <1>3, <1>4 DEF Params!Save

\* A call ends: what becomes clean is saved.
LEMMA ReturnParams ==
    ASSUME IInv, IInv', up, NEW t \in Tasks, NEW e, Return(t, e)
    PROVE  Params!End
  <1>1. /\ UNCHANGED <<up, ram, flash>>
        /\ behind' \subseteq behind \cup owned[t]
        /\ key' = [key EXCEPT ![t] = "none"]
    BY DEF Return, storeVars
  <1>2. Dirty' \subseteq Dirty
    <2>1. owned[t] \subseteq Dirty
      BY OwnedCells, RunningDirty
    <2>2. ASSUME NEW c \in Cell, ~Settled(KeyOf(c))' PROVE ~Settled(KeyOf(c))
      <3>1. KeyOf(c) # "none"
        BY CellKeys DEF Keys
      <3>2. PICK u \in Tasks : key'[u] = KeyOf(c)
        BY <2>2 DEF Settled
      <3>3. key[u] = KeyOf(c)
        BY <1>1, <3>1, <3>2 DEF IInv, TypeOK
      <3>4. QED
        BY <3>3 DEF Settled
    <2>3. QED
      BY <1>1, <2>1, <2>2 DEF Dirty
  <1>3. ASSUME NEW c \in Dirty \ Dirty' PROVE flash[c] = ram[c]
    <2>1. c \in Cell
      BY DEF Dirty, IInv, TypeOK
    <2>2. IInv' /\ up' /\ c \notin Dirty'
      BY <1>1, <1>3
    <2>3. flash'[c] = nvs'[c] /\ nvs'[c] = ram'[c]
      BY <2>1, <2>2, CleanCellsNext DEF CleanAgree
    <2>4. QED
      BY <1>1, <2>3
  <1>4. QED
    BY <1>1, <1>2, <1>3 DEF Params!End

-----------------------------------------------------------------------------
\* Every step of a setter is a step of the store or leaves it alone.
LEMMA SetterParams ==
    ASSUME IInv, IInv', NEW t \in Tasks, SetterStep(t)
    PROVE  Params!Next \/ UNCHANGED Params!vars
  <1>1. up /\ up'
    BY DEF SetterStep, At, Call, StoreCell, CallUpdate, Open, OpenFails, Return, SetBlob,
           SetBlobFails, CopyCell, SetBlobReturns, Commit, CommitFails, Close
  <1>2. CASE Call(t)
    BY <1>2, CallParams DEF Params!Next
  <1>3. CASE StoreCell(t)
    BY <1>3, StoreCellParams DEF Params!Next
  <1>4. CASE OpenFails(t)
    <2>1. Return(t, "ESP_FAIL")
      BY <1>4 DEF OpenFails
    <2>2. QED
      BY <1>1, <2>1, ReturnParams DEF Params!Next
  <1>5. CASE Close(t)
    <2>1. Return(t, err[t])
      BY <1>5 DEF Close
    <2>2. QED
      BY <1>1, <2>1, ReturnParams DEF Params!Next
  <1>6. CASE Commit(t)
    <2>1. key[t] \in Keys
      BY <1>6 DEF Commit, At, IInv, TypeOK, CallsWellFormed, CallWellFormed
    <2>2. flash' = Flushed(key[t]) /\ UNCHANGED <<ram, key, behind>>
      BY <1>6 DEF Commit, history
    <2>3. Params!Save
      BY <1>1, <2>1, <2>2, FlushParams
    <2>4. QED
      BY <2>3 DEF Params!Next
  <1>7. CASE SetBlob(t)
    <2>1. /\ UNCHANGED <<up, ram, flash, key>>
          /\ behind' = behind \ CellsOf(key[t])
          /\ behind \subseteq Cell
          /\ key[t] \in Keys
      BY <1>7 DEF SetBlob, storeVars, At, IInv, TypeOK, CallsWellFormed, CallWellFormed
    <2>2. ASSUME NEW c \in behind, c \notin behind' PROVE ~Settled(KeyOf(c))
      BY <2>1, <2>2, CellKeys DEF Settled
    <2>3. Dirty' = Dirty
      BY <2>1, <2>2 DEF Dirty, Settled
    <2>4. QED
      BY <2>1, <2>3 DEF Params!vars
  <1>8. CASE CallUpdate(t) \/ Open(t) \/ SetBlobFails(t) \/ CopyCell(t)
             \/ SetBlobReturns(t) \/ CommitFails(t)
    <2>1. UNCHANGED <<up, ram, flash, key, behind>>
      BY <1>8 DEF CallUpdate, Open, SetBlobFails, CopyCell, SetBlobReturns, CommitFails,
                  storeVars, history
    <2>2. Dirty' = Dirty
      BY <2>1 DEF Dirty, Settled
    <2>3. QED
      BY <2>1, <2>2 DEF Params!vars
  <1>9. QED
    BY <1>2, <1>3, <1>4, <1>5, <1>6, <1>7, <1>8 DEF SetterStep

\* So is every step of the device.
LEMMA StepParams == IInv /\ IInv' /\ OffQuiet /\ [Next]_vars => [Params!Next]_(Params!vars)
  <1> SUFFICES ASSUME IInv, IInv', OffQuiet, [Next]_vars
               PROVE  Params!Next \/ UNCHANGED Params!vars
    OBVIOUS
  <1>1. CASE Boot
    BY <1>1, BootParams DEF Params!Next
  <1>2. CASE Crash
    BY <1>2, CrashParams DEF Params!Next
  <1>3. ASSUME NEW t \in Tasks, SetterStep(t)
        PROVE  Params!Next \/ UNCHANGED Params!vars
    BY <1>3, SetterParams
  <1>4. ASSUME NEW k \in Keys, WriteBack(k)
        PROVE  Params!Next
    <2>1. up /\ up' /\ flash' = Flushed(k) /\ UNCHANGED <<ram, key, behind>>
      BY <1>4 DEF WriteBack, callVars, history
    <2>2. QED
      BY <2>1, FlushParams DEF Params!Next
  <1>5. CASE UNCHANGED vars
    <2>1. UNCHANGED <<up, ram, flash, key, behind>>
      BY <1>5 DEF vars, storeVars, callVars, history
    <2>2. Dirty' = Dirty
      BY <2>1 DEF Dirty, Settled
    <2>3. QED
      BY <2>1, <2>2 DEF Params!vars
  <1>6. CASE EraseFails
    BY <1>6, EraseParams DEF Params!Next
  <1>7. QED
    BY <1>1, <1>2, <1>3, <1>4, <1>5, <1>6 DEF Next

\* nvram.c implements the parameter store, whatever the tasks, their calls,
\* the failures of NVS and the power losses.
THEOREM Refinement == Spec => ImplementsParamStore
  <1>1. Spec => []OffQuiet
    BY OffQuietInit, OffQuietStep, PTL DEF Spec
  <1>2. QED
    BY <1>1, Invariance, InitParams, StepParams, PTL DEF Spec, ImplementsParamStore, Params!Spec
=============================================================================
