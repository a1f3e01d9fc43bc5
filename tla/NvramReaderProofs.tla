------------------------- MODULE NvramReaderProofs --------------------------
(***************************************************************************)
(* What the getters give out that copy fields of a record without a lock.  *)
(***************************************************************************)
EXTENDS NvramReaders, NvramProofs

\* The fields a caller must have got that are of one call of the setter.
Due(k) ==
    CASE k = "token" -> {"access", "refresh"}
      [] k = "mqtt" -> {"enable", "host"}
      [] k = "net" -> {"proto", "ip_info", "primary_dns"}

\* The fields that are copied one by one.
Copyable == {"ip_info", "primary_dns", "secondary_dns", "host", "id", "pw", "access", "refresh"}

\* The caller has field f of record k as it is in nvdata, or is still to get it.
Given(k, f) == reader.out[f] = ram[<<k, f>>]
Awaited(f) == \E i \in DOMAIN reader.todo : reader.todo[i] = f

\* nvram_get_mqtt_params has copied the flag and nothing else.
OnlyFlag ==
    /\ reader.key = "mqtt"
    /\ Given("mqtt", "enable")
    /\ reader.out.host = Buffer
    /\ {reader.out.id, reader.out.pw} \subseteq {ZERO, Buffer}

\* There was nothing to copy.
NothingDue ==
    \/ OnlyFlag /\ ram[Enable] # true
    \/ reader.key = "net" /\ (reader.out.proto = DHCP \/ reader.result = "ESP_FAIL")

(***************************************************************************)
(* A reading that no store disturbs copies what is in nvdata, and that     *)
(* stays there until the reader has it all: every store into the record    *)
(* belongs to a task that is at "store".                                   *)
(***************************************************************************)
UnderWay ==
    LET k == reader.key
    IN /\ k = "mqtt" => ram[Enable] = true
       /\ \/ reader.pc = "copy" /\ \A f \in Due(k) : Given(k, f) \/ Awaited(f)
          \/ reader.pc = "returned" /\ \A f \in Due(k) : Given(k, f)

Copied ==
    \/ reader.pc = "enabled?" /\ OnlyFlag
    \/ reader.pc = "returned" /\ NothingDue
    \/ UnderWay

ReaderInv ==
    /\ DOMAIN reader = DOMAIN Off
    /\ ~up => reader.key = "none"
    /\ reader.key \in {"none", "token", "mqtt", "net"}
    /\ reader.key = "none" => reader.pc = "idle"
    /\ reader.pc = "copy" => reader.todo \in Seq(Copyable) /\ reader.todo # <<>>
    /\ reader.key # "none" => DOMAIN reader.out = FieldsOf[reader.key]
    /\ reader.key # "none" /\ ~reader.disturbed => ~Storing(reader.key, pc, key) /\ Copied

\* The fields due are fields of their records.
LEMMA DueFields ==
    /\ Due("token") = {"access", "refresh"} /\ Due("token") \subseteq FieldsOf["token"]
    /\ Due("mqtt") = {"enable", "host"} /\ {"enable", "host", "id", "pw"} \subseteq FieldsOf["mqtt"]
    /\ Due("net") = {"proto", "ip_info", "primary_dns"} /\ Due("net") \subseteq FieldsOf["net"]
    /\ \A k \in {"token", "mqtt", "net"} : \A f \in Due(k) : <<k, f>> \in CellsOf(k)
    /\ {"token", "mqtt", "net"} \subseteq Keys
  BY DEF Due, FieldsOf, CellsOf, Keys

LEMMA ReaderInit == ReadInit => ReaderInv
  BY DEF ReadInit, ReaderInv, Off

\* While no task is storing into a record it does not change.
LEMMA QuietRecord ==
    ASSUME IInv, Next, up, up', NEW k \in Keys, ~Storing(k, pc, key)
    PROVE  \A c \in CellsOf(k) : ram'[c] = ram[c]
  <1>1. CASE UNCHANGED ram
    BY <1>1
  <1>2. ASSUME NEW t \in Tasks, StoreCell(t)
        PROVE  \A c \in CellsOf(k) : ram'[c] = ram[c]
    <2>1. /\ pc[t] = "store" /\ todo[t] # <<>>
          /\ ram' = [ram EXCEPT ![Head(todo[t]).cell] = Head(todo[t]).val]
      BY <1>2 DEF StoreCell, At
    <2>2. key[t] # k
      BY <2>1 DEF Storing
    <2>3. Head(todo[t]).cell \notin CellsOf(k)
      BY <2>1, <2>2, StoreOfRecord
    <2> QED
      BY <2>1, <2>3, CellKeys DEF IInv, TypeOK
  <1>3. UNCHANGED ram \/ \E t \in Tasks : StoreCell(t)
    BY DEF Next, Boot, EraseFails, Crash, SetterStep, Call, CallUpdate, Open, OpenFails, SetBlob,
           SetBlobFails, CopyCell, SetBlobReturns, Commit, CommitFails, Close, Return, WriteBack, storeVars
  <1> QED
    BY <1>1, <1>2, <1>3

\* A store that comes between disturbs the reader, or it does not matter.
LEMMA ReaderWriterStep ==
    ASSUME IInv, ReaderInv, WriterStep
    PROVE  ReaderInv'
  <1>1. CASE ~up'
    <2>1. reader' = Off
      BY <1>1 DEF WriterStep
    <2> QED
      BY <2>1 DEF ReaderInv, Off
  <1>2. CASE up'
    <2> DEFINE now == reader.pc # "idle" /\ Storing(reader.key, pc', key')
    <2>1. reader' = [reader EXCEPT !.disturbed = @ \/ now]
      BY <1>2 DEF WriterStep
    <2>2. /\ DOMAIN reader' = DOMAIN Off
          /\ reader'.pc = reader.pc /\ reader'.key = reader.key
          /\ reader'.todo = reader.todo /\ reader'.out = reader.out
          /\ reader'.result = reader.result
          /\ reader'.disturbed = (reader.disturbed \/ now)
      BY <2>1 DEF ReaderInv, Off
    <2>3. ASSUME reader.key # "none", ~reader'.disturbed
          PROVE  ~Storing(reader.key, pc', key') /\ Copied'
      <3> DEFINE k == reader.key
      <3>1. /\ up /\ ~Storing(k, pc, key) /\ Copied
            /\ k \in {"token", "mqtt", "net"} /\ k \in Keys
        BY <2>2, <2>3, DueFields DEF ReaderInv
      <3>2. ~Storing(k, pc', key')
        <4>1. reader.pc # "idle"
          BY <3>1 DEF Copied, UnderWay
        <4> QED
          BY <2>2, <2>3, <4>1
      <3>3. \A c \in CellsOf(k) : ram'[c] = ram[c]
        BY <1>2, <3>1, QuietRecord DEF WriterStep
      <3>4. \A f \in Due(k) : ram'[<<k, f>>] = ram[<<k, f>>]
        BY <3>1, <3>3, DueFields
      <3>5. k = "mqtt" => ram'[Enable] = ram[Enable] /\ Enable = <<"mqtt", "enable">>
        BY <3>3, RecordCells DEF Enable
      <3>6. /\ OnlyFlag => OnlyFlag'
            /\ NothingDue => NothingDue'
            /\ \A f \in Due(k) : Given(k, f) => Given(k, f)'
            /\ \A f : Awaited(f) => Awaited(f)'
        BY <2>2, <3>4, <3>5 DEF OnlyFlag, NothingDue, Given, Awaited
      <3>7. UnderWay => UnderWay'
        <4>1. /\ reader.pc = "copy" /\ (\A f \in Due(k) : Given(k, f) \/ Awaited(f))
                => (\A f \in Due(k) : Given(k, f)' \/ Awaited(f)')
              /\ (\A f \in Due(k) : Given(k, f)) => (\A f \in Due(k) : Given(k, f)')
          BY <3>6
        <4> QED
          BY <2>2, <3>5, <4>1 DEF UnderWay, Given
      <3> QED
        BY <2>2, <3>1, <3>2, <3>6, <3>7 DEF Copied
    <2> QED
      BY <1>2, <2>2, <2>3 DEF ReaderInv
  <1> QED
    BY <1>1, <1>2

\* What the getter for the network parameters is going to copy.
LEMMA NetTodo ==
    ASSUME NEW secondary \in BOOLEAN, NEW todos,
           todos = <<"ip_info", "primary_dns">>
                     \o (IF secondary THEN <<"secondary_dns">> ELSE <<>>)
    PROVE  /\ todos \in Seq(Copyable) /\ todos # <<>>
           /\ {1, 2} \subseteq DOMAIN todos
           /\ todos[1] = "ip_info" /\ todos[2] = "primary_dns"
  <1> DEFINE first == <<"ip_info", "primary_dns">>
             rest == IF secondary THEN <<"secondary_dns">> ELSE <<>>
  <1>1. first \in Seq(Copyable) /\ rest \in Seq(Copyable)
    <2>1. {"ip_info", "primary_dns", "secondary_dns"} \subseteq Copyable
      BY DEF Copyable
    <2>2. first \in Seq(Copyable)
      BY <2>1
    <2>3. <<"secondary_dns">> \in Seq(Copyable) /\ <<>> \in Seq(Copyable)
      BY <2>1
    <2> QED
      BY <2>2, <2>3
  <1>2. Len(first) = 2 /\ first[1] = "ip_info" /\ first[2] = "primary_dns" /\ Len(rest) \in Nat
    BY <1>1
  <1> HIDE DEF first, rest
  <1>3. /\ todos \in Seq(Copyable)
        /\ DOMAIN todos = 1 .. (Len(first) + Len(rest))
        /\ \A i \in 1 .. Len(first) : todos[i] = first[i]
    BY <1>1, Joined DEF first, rest
  <1> QED
    BY <1>2, <1>3

\* What the one for MQTT is going to copy when MQTT is enabled.
LEMMA MqttTodo ==
    ASSUME NEW both \in BOOLEAN, NEW todos,
           todos = <<"host">> \o (IF both THEN <<"id", "pw">> ELSE <<>>)
    PROVE  todos \in Seq(Copyable) /\ todos # <<>> /\ 1 \in DOMAIN todos /\ todos[1] = "host"
  <1> DEFINE first == <<"host">>
             rest == IF both THEN <<"id", "pw">> ELSE <<>>
  <1>1. first \in Seq(Copyable) /\ rest \in Seq(Copyable)
    <2>1. {"host", "id", "pw"} \subseteq Copyable
      BY DEF Copyable
    <2>2. first \in Seq(Copyable)
      BY <2>1
    <2>3. <<"id", "pw">> \in Seq(Copyable) /\ <<>> \in Seq(Copyable)
      BY <2>1
    <2> QED
      BY <2>2, <2>3
  <1>2. Len(first) = 1 /\ first[1] = "host" /\ Len(rest) \in Nat
    BY <1>1
  <1> HIDE DEF first, rest
  <1>3. /\ todos \in Seq(Copyable)
        /\ DOMAIN todos = 1 .. (Len(first) + Len(rest))
        /\ \A i \in 1 .. Len(first) : todos[i] = first[i]
    BY <1>1, Joined DEF first, rest
  <1> QED
    BY <1>2, <1>3

\* A getter starts with its first reads done.
LEMMA EnterStep ==
    ASSUME ReaderInv, NEW k \in {"token", "mqtt", "net"}, NEW loc, NEW out, NEW todos, NEW result,
           Enter(k, loc, out, todos, result), UNCHANGED vars,
           DOMAIN out = FieldsOf[k], loc # "idle",
           loc = "copy" => todos \in Seq(Copyable) /\ todos # <<>>,
           Copied'
    PROVE  ReaderInv'
  <1>1. /\ up /\ up' /\ UNCHANGED <<pc, key>>
        /\ reader' = [pc |-> loc, key |-> k, todo |-> todos, out |-> out, result |-> result,
                      disturbed |-> Storing(k, pc, key)]
    BY DEF Enter, ReaderAt, vars, callVars
  <1> QED
    BY <1>1 DEF ReaderInv, Off, Storing

LEMMA GetNetStep ==
    ASSUME ReaderInv, nvram_get_net_params, UNCHANGED vars
    PROVE  ReaderInv'
  <1> DEFINE proto == ram[Proto]
             out   == [Untouched("net", Buffer) EXCEPT !.proto = proto]
             todos(secondary) == <<"ip_info", "primary_dns">>
                                   \o (IF secondary THEN <<"secondary_dns">> ELSE <<>>)
  <1>1. PICK complete \in BOOLEAN, secondary \in BOOLEAN :
          IF proto = DHCP THEN Enter("net", "returned", out, <<>>, "ESP_OK")
          ELSE IF ~complete
          THEN Enter("net", "returned", Untouched("net", Buffer), <<>>, "ESP_FAIL")
          ELSE Enter("net", "copy", out, todos(secondary), "ESP_OK")
    BY DEF nvram_get_net_params, Proto
  <1>2. /\ DOMAIN out = FieldsOf["net"] /\ DOMAIN Untouched("net", Buffer) = FieldsOf["net"]
        /\ out.proto = proto
    BY DEF Untouched, FieldsOf
  <1>3. ram' = ram
    BY DEF vars, storeVars
  <1> HIDE DEF out, todos
  <1>4. CASE Enter("net", "returned", out, <<>>, "ESP_OK") /\ proto = DHCP
    <2>1. Copied'
      BY <1>2, <1>4 DEF Enter, Copied, NothingDue
    <2> QED
      BY <1>2, <1>4, <2>1, EnterStep
  <1>5. CASE Enter("net", "returned", Untouched("net", Buffer), <<>>, "ESP_FAIL")
    <2>1. Copied'
      BY <1>5 DEF Enter, Copied, NothingDue
    <2> QED
      BY <1>2, <1>5, <2>1, EnterStep
  <1>6. CASE Enter("net", "copy", out, todos(secondary), "ESP_OK")
    <2>1. /\ todos(secondary) \in Seq(Copyable) /\ todos(secondary) # <<>>
          /\ {1, 2} \subseteq DOMAIN todos(secondary)
          /\ todos(secondary)[1] = "ip_info" /\ todos(secondary)[2] = "primary_dns"
      BY NetTodo DEF todos
    <2>2. /\ reader'.pc = "copy" /\ reader'.key = "net" /\ reader'.out = out
          /\ reader'.todo = todos(secondary)
      BY <1>6 DEF Enter
    <2>3. \A f \in Due("net") : Given("net", f)' \/ Awaited(f)'
      BY <1>2, <1>3, <2>1, <2>2, DueFields DEF Given, Awaited, Proto
    <2>4. Copied'
      BY <2>2, <2>3 DEF Copied, UnderWay
    <2> QED
      BY <1>2, <1>6, <2>1, <2>4, EnterStep
  <1> QED
    BY <1>1, <1>4, <1>5, <1>6

LEMMA GetMqttStep ==
    ASSUME ReaderInv, nvram_get_mqtt_params, UNCHANGED vars
    PROVE  ReaderInv'
  <1>1. PICK id \in {ZERO, Buffer}, pw \in {ZERO, Buffer} :
          Enter("mqtt", "enabled?",
                [Untouched("mqtt", Buffer) EXCEPT !.enable = ram[<<"mqtt", "enable">>],
                                                  !.id = id, !.pw = pw], <<>>, "void")
    BY DEF nvram_get_mqtt_params
  <1> DEFINE out == [Untouched("mqtt", Buffer) EXCEPT !.enable = ram[<<"mqtt", "enable">>],
                                                      !.id = id, !.pw = pw]
  <1>2. /\ DOMAIN out = FieldsOf["mqtt"]
        /\ out.enable = ram[<<"mqtt", "enable">>] /\ out.host = Buffer
        /\ out.id = id /\ out.pw = pw
    BY DEF Untouched, FieldsOf
  <1>3. ram' = ram
    BY DEF vars, storeVars
  <1> HIDE DEF out
  <1>4. Enter("mqtt", "enabled?", out, <<>>, "void")
    BY <1>1 DEF out
  <1>5. Copied'
    BY <1>2, <1>3, <1>4 DEF Enter, Copied, OnlyFlag, Given
  <1> QED
    BY <1>2, <1>4, <1>5, EnterStep

LEMMA GetTokenStep ==
    ASSUME ReaderInv, nvram_get_token_params, UNCHANGED vars
    PROVE  ReaderInv'
  <1> DEFINE todos == <<"access", "refresh">>
  <1>1. {"access", "refresh"} \subseteq Copyable
    BY DEF Copyable
  <1>2. /\ todos \in Seq(Copyable) /\ todos # <<>> /\ {1, 2} \subseteq DOMAIN todos
        /\ todos[1] = "access" /\ todos[2] = "refresh"
    BY <1>1
  <1>3. DOMAIN Untouched("token", Buffer) = FieldsOf["token"]
    BY DEF Untouched
  <1> HIDE DEF todos
  <1>4. Enter("token", "copy", Untouched("token", Buffer), todos, "void")
    BY DEF nvram_get_token_params, todos
  <1>5. Copied'
    <2>1. reader'.pc = "copy" /\ reader'.key = "token" /\ reader'.todo = todos
      BY <1>4 DEF Enter
    <2>2. \A f \in Due("token") : Awaited(f)'
      BY <1>2, <2>1, DueFields DEF Awaited
    <2> QED
      BY <2>1, <2>2 DEF Copied, UnderWay
  <1> QED
    BY <1>2, <1>3, <1>4, <1>5, EnterStep

\* The flag is tested: with the flag set, and nothing stored since it was
\* copied, the host is going to be copied.
LEMMA TestEnabledStep ==
    ASSUME ReaderInv, TestEnabled, UNCHANGED vars
    PROVE  ReaderInv'
  <1> DEFINE both == reader.out.id # ZERO /\ reader.out.pw # ZERO
             todos == <<"host">> \o (IF both THEN <<"id", "pw">> ELSE <<>>)
  <1>1. todos \in Seq(Copyable) /\ todos # <<>> /\ 1 \in DOMAIN todos /\ todos[1] = "host"
    BY MqttTodo
  <1>2. /\ up /\ up' /\ reader.pc = "enabled?" /\ UNCHANGED <<pc, key, ram>>
        /\ reader' = IF ram[Enable] = true
                     THEN [reader EXCEPT !.pc = "copy", !.todo = todos]
                     ELSE [reader EXCEPT !.pc = "returned"]
    BY DEF TestEnabled, ReaderAt, vars, storeVars, callVars, Enable
  <1> HIDE DEF todos
  <1>3. /\ DOMAIN reader' = DOMAIN Off
        /\ UNCHANGED <<reader.key, reader.out, reader.disturbed, reader.result>>
        /\ IF ram[Enable] = true THEN reader'.pc = "copy" /\ reader'.todo = todos
           ELSE reader'.pc = "returned"
    BY <1>2 DEF ReaderInv, Off
  <1>4. ASSUME reader.key # "none", ~reader.disturbed
        PROVE  Copied'
    <2>1. OnlyFlag
      BY <1>2, <1>4 DEF ReaderInv, Copied, UnderWay
    <2>2. CASE ram[Enable] = true
      <3>1. \A f \in Due("mqtt") : Given("mqtt", f)' \/ Awaited(f)'
        BY <1>1, <1>2, <1>3, <2>1, <2>2, DueFields DEF OnlyFlag, Given, Awaited
      <3> QED
        BY <1>2, <1>3, <2>1, <2>2, <3>1 DEF Copied, UnderWay, OnlyFlag
    <2>3. CASE ram[Enable] # true
      BY <1>2, <1>3, <2>1, <2>3 DEF Copied, NothingDue, OnlyFlag, Given
    <2> QED
      BY <2>2, <2>3
  <1> QED
    BY <1>1, <1>2, <1>3, <1>4 DEF ReaderInv, Storing

\* The getter copies the next field of nvdata.
LEMMA CopyOutStep ==
    ASSUME ReaderInv, CopyOut, UNCHANGED vars
    PROVE  ReaderInv'
  <1> DEFINE f == Head(reader.todo)
  <1>1. /\ up /\ up' /\ reader.pc = "copy"
        /\ reader' = [reader EXCEPT
                        !.out[f] = ram[<<reader.key, f>>],
                        !.todo = Tail(@),
                        !.pc = IF Tail(reader.todo) = <<>> THEN "returned" ELSE "copy"]
        /\ UNCHANGED <<pc, key, ram>>
    BY DEF CopyOut, ReaderAt, vars, storeVars, callVars
  <1>2. /\ DOMAIN reader' = DOMAIN Off
        /\ reader'.key = reader.key /\ reader'.disturbed = reader.disturbed
        /\ reader'.out = [reader.out EXCEPT ![f] = ram[<<reader.key, f>>]]
        /\ reader'.todo = Tail(reader.todo)
        /\ reader'.pc = IF Tail(reader.todo) = <<>> THEN "returned" ELSE "copy"
    BY <1>1 DEF ReaderInv, Off
  <1>3. /\ reader.todo \in Seq(Copyable) /\ reader.todo # <<>>
        /\ reader'.todo \in Seq(Copyable)
        /\ \A i \in DOMAIN reader.todo :
              reader.todo[i] = f \/ \E j \in DOMAIN reader'.todo : reader'.todo[j] = reader.todo[i]
    <2>1. reader.todo \in Seq(Copyable) /\ reader.todo # <<>>
      BY <1>1 DEF ReaderInv
    <2> DEFINE s == reader.todo
    <2>2. s \in Seq(Copyable) /\ s # <<>> /\ reader'.todo = Tail(s) /\ f = Head(s)
      BY <1>2, <2>1
    <2> HIDE DEF s
    <2>3. /\ f = s[1]
          /\ \A i \in DOMAIN s : i # 1 => i - 1 \in DOMAIN Tail(s) /\ Tail(s)[i - 1] = s[i]
      BY <2>2
    <2>4. Tail(s) \in Seq(Copyable)
      BY <2>2
    <2>5. \A i \in DOMAIN s : s[i] = f \/ \E j \in DOMAIN Tail(s) : Tail(s)[j] = s[i]
      BY <2>3
    <2> QED
      BY <2>1, <2>2, <2>4, <2>5 DEF s
  <1>4. DOMAIN reader'.out = DOMAIN reader.out
    BY <1>2
  <1>5. ASSUME reader.key # "none", ~reader.disturbed
        PROVE  Copied'
    <2> DEFINE k == reader.key
    <2>1. /\ k \in {"token", "mqtt", "net"} /\ DOMAIN reader.out = FieldsOf[k]
          /\ k = "mqtt" => ram[Enable] = true
          /\ \A g \in Due(k) : Given(k, g) \/ Awaited(g)
      BY <1>1, <1>5 DEF ReaderInv, Copied, UnderWay
    <2>2. ASSUME NEW g \in Due(k) PROVE Given(k, g)' \/ Awaited(g)'
      <3>1. g \in DOMAIN reader.out
        BY <2>1, <2>2, DueFields
      <3>2. g = f => Given(k, g)'
        BY <1>1, <1>2, <3>1 DEF Given
      <3>3. g # f /\ Given(k, g) => Given(k, g)'
        BY <1>1, <1>2, <3>1 DEF Given
      <3>4. g # f /\ Awaited(g) => Awaited(g)'
        BY <1>3 DEF Awaited
      <3> QED
        BY <2>1, <3>2, <3>3, <3>4
    <2>3. reader'.todo = <<>> => \A g \in Due(k) : Given(k, g)'
      BY <2>2 DEF Awaited
    <2> QED
      BY <1>1, <1>2, <2>1, <2>2, <2>3 DEF Copied, UnderWay, Given
  <1> QED
    BY <1>1, <1>2, <1>3, <1>4, <1>5 DEF ReaderInv, Storing

LEMMA ReaderReaderStep ==
    ASSUME ReaderInv, ReaderStep
    PROVE  ReaderInv'
  <1>1. CASE Get
    BY <1>1, GetNetStep, GetMqttStep, GetTokenStep DEF ReaderStep, Get
  <1>2. CASE TestEnabled
    BY <1>2, TestEnabledStep DEF ReaderStep
  <1>3. CASE CopyOut
    BY <1>3, CopyOutStep DEF ReaderStep
  <1>4. CASE Used
    BY <1>4 DEF Used, ReaderInv, Off
  <1> QED
    BY <1>1, <1>2, <1>3, <1>4 DEF ReaderStep

\* What is known of the setters' task and of the reader together.
BothInv(t) == IInv /\ RecordInv(t) /\ ReaderInv

LEMMA BothAlways ==
    ASSUME NEW t, Tasks = {t}
    PROVE  ReadSpec => []BothInv(t)
  <1>1. ReadInit => BothInv(t)
    BY InitIInv, RecordInit, ReaderInit DEF ReadInit, BothInv
  <1>2. BothInv(t) /\ [ReadNext]_readVars => BothInv(t)'
    <2> SUFFICES ASSUME BothInv(t), [ReadNext]_readVars
                 PROVE  BothInv(t)'
      OBVIOUS
    <2> USE DEF BothInv
    <2>1. IInv' /\ RecordInv(t)'
      <3>1. [Next]_vars
        BY DEF ReadNext, ReaderStep, WriterStep, readVars
      <3> QED
        BY <3>1, StepIInv, RecordStep
    <2>2. ReaderInv'
      <3>1. CASE ReaderStep
        BY <3>1, ReaderReaderStep
      <3>2. CASE WriterStep
        BY <3>2, ReaderWriterStep
      <3>3. CASE UNCHANGED readVars
        BY <3>3 DEF readVars, vars, storeVars, callVars, ReaderInv, Copied, UnderWay, OnlyFlag,
                    NothingDue, Given, Awaited, Storing
      <3> QED
        BY <3>1, <3>2, <3>3 DEF ReadNext
    <2> QED
      BY <2>1, <2>2
  <1> QED
    BY <1>1, <1>2, PTL DEF ReadSpec

\* A reader that nothing has disturbed has what the record holds, and the
\* fields of the record fit together.
LEMMA ReaderResult ==
    ASSUME NEW t, Tasks = {t}, BothInv(t), NEW k \in {"token", "mqtt", "net"}, Reads(k)
    PROVE  /\ RecordOk(k, ram)
           /\ \/ NothingDue
              \/ (\A f \in Due(k) : Given(k, f)) /\ (k = "mqtt" => ram[Enable] = true)
  <1>1. ~Storing(k, pc, key) /\ Copied /\ reader.pc = "returned" /\ reader.key = k
    BY DEF Reads, ReaderAt, BothInv, ReaderInv
  <1>2. ~Holds(t, k, "store")
    BY <1>1 DEF Storing, Holds
  <1>3. RecordOk(k, ram)
    BY <1>2, DueFields DEF BothInv, RecordInv
  <1> QED
    BY <1>1, <1>3 DEF Copied, UnderWay

(***************************************************************************)
(* With one task that sets, a task that calls nvram_get_token_params while *)
(* it is not setting tokens gets two of one call, for any values and any   *)
(* failures and power losses before.                                       *)
(***************************************************************************)
THEOREM TokensTogether ==
    ASSUME NEW t, Tasks = {t}
    PROVE  ReadSpec => []TokensMatch
  <1>1. BothInv(t) => TokensMatch
    <2> SUFFICES ASSUME BothInv(t), Reads("token")
                 PROVE  reader.out.access = reader.out.refresh
      BY DEF TokensMatch
    <2>1. RecordOk("token", ram) /\ \A f \in Due("token") : Given("token", f)
      BY ReaderResult DEF NothingDue, OnlyFlag, Reads
    <2> QED
      BY <2>1, DueFields DEF RecordOk, Given, Access, Refresh
  <1> QED
    BY <1>1, BothAlways, PTL

(***************************************************************************)
(* With one task that sets, a task that calls nvram_get_mqtt_params while  *)
(* it is not setting MQTT gets the host of a setter with a flag that is    *)
(* set and nothing with one that is not, although the flag is read twice.  *)
(***************************************************************************)
THEOREM EnabledComesWithHost ==
    ASSUME NEW t, Tasks = {t}
    PROVE  ReadSpec => []EnabledHasHost
  <1>1. BothInv(t) => EnabledHasHost
    <2> SUFFICES ASSUME BothInv(t), Reads("mqtt")
                 PROVE  /\ reader.out.enable = true => reader.out.host \in Data
                        /\ reader.out.enable = false =>
                             /\ reader.out.host = Buffer
                             /\ {reader.out.id, reader.out.pw} \subseteq {ZERO, Buffer}
      BY DEF EnabledHasHost
    <2>1. /\ RecordOk("mqtt", ram) /\ reader.key = "mqtt"
          /\ \/ NothingDue
             \/ (\A f \in Due("mqtt") : Given("mqtt", f)) /\ ram[Enable] = true
      BY ReaderResult DEF Reads
    <2>2. true # false
      BY DEF true, false
    <2>3. CASE NothingDue
      BY <2>1, <2>3 DEF NothingDue, OnlyFlag, Given, Enable
    <2>4. CASE (\A f \in Due("mqtt") : Given("mqtt", f)) /\ ram[Enable] = true
      BY <2>1, <2>2, <2>4, DueFields DEF RecordOk, Given, Enable, Host
    <2> QED
      BY <2>1, <2>3, <2>4
  <1> QED
    BY <1>1, BothAlways, PTL

(***************************************************************************)
(* With one task that sets, a task that calls nvram_get_net_params while   *)
(* it is not setting them gets a static configuration with the address and *)
(* the DNS server of one call of the setter.                               *)
(***************************************************************************)
THEOREM StaticComesWithAddress ==
    ASSUME NEW t, Tasks = {t}
    PROVE  ReadSpec => []StaticHasAddress
  <1>1. BothInv(t) => StaticHasAddress
    <2> SUFFICES ASSUME BothInv(t), Reads("net"), reader.result = "ESP_OK",
                        reader.out.proto = STATIC
                 PROVE  /\ reader.out.ip_info \in Data
                        /\ reader.out.primary_dns = reader.out.ip_info
      BY DEF StaticHasAddress
    <2>1. RecordOk("net", ram) /\ reader.key = "net"
      BY ReaderResult DEF Reads
    <2>2. ~NothingDue
      BY <2>1 DEF NothingDue, OnlyFlag, STATIC, DHCP, true, false
    <2>3. \A f \in Due("net") : Given("net", f)
      BY <2>2, ReaderResult
    <2> QED
      BY <2>1, <2>3, DueFields DEF RecordOk, Given, Proto, Address, Dns
  <1> QED
    BY <1>1, BothAlways, PTL
=============================================================================
