---------------------------- MODULE NvramReaders ----------------------------
(***************************************************************************)
(* The getters of main/nvram.c that copy several fields, called by a task  *)
(* that reads while others set.  Like the setters they take no lock: what  *)
(* a getter copies out of nvdata, it copies cell by cell, and its tests    *)
(* are reads of their own.                                                 *)
(***************************************************************************)
EXTENDS NvramRefinement

CONSTANTS
    Getters,    \* the getters that are called
    Buffer      \* what a caller has in a buffer that is not empty

ASSUME ReadersAssumption ==
    /\ Getters \subseteq {"nvram_get_net_params", "nvram_get_mqtt_params",
                         "nvram_get_token_params"}
    /\ Buffer \notin Content

VARIABLE reader

readVars == <<vars, reader>>

\* pc: where the getter is; key: the record it reads; todo: the cells it has
\* still to copy; out: the buffers of its caller; result: the value it
\* returns; disturbed: history, a setter has stored into the record meanwhile.
Off == [pc |-> "idle", key |-> "none", todo |-> <<>>, out |-> <<>>, result |-> "none",
        disturbed |-> FALSE]

ReadInit == Init /\ reader = Off

\* A setter is storing into record k.
Storing(k, pcs, keys) == \E t \in Tasks : pcs[t] = "store" /\ keys[t] = k

ReaderAt(loc) == up /\ reader.pc = loc

\* A getter for record k runs to loc with out and todo.
Enter(k, loc, out, todos, result) ==
    /\ ReaderAt("idle")
    /\ reader' = [pc |-> loc, key |-> k, todo |-> todos, out |-> out, result |-> result,
                  disturbed |-> Storing(k, pc, key)]

\* The caller's buffers for the fields of record k.
Untouched(k, v) == [f \in FieldsOf[k] |-> v]

\* Mutated form: both servers are copied only for a caller that wants both.
NetServersTogether ==
    \E complete, secondary \in BOOLEAN :
        LET proto == ram[<<"net", "proto">>]
            out   == [Untouched("net", Buffer) EXCEPT !.proto = proto]
        IN IF proto = DHCP THEN Enter("net", "returned", out, <<>>, "ESP_OK")
           ELSE IF ~complete
           THEN Enter("net", "returned", Untouched("net", Buffer), <<>>, "ESP_FAIL")
           ELSE Enter("net", "copy", out,
                      <<"ip_info">> \o (IF secondary THEN <<"primary_dns", "secondary_dns">>
                                        ELSE <<>>), "ESP_OK")

\* Without ip_info or primary_dns, in `complete`, a static configuration is
\* not given out.
nvram_get_net_params ==
    \E complete, secondary \in BOOLEAN :
        LET proto == ram[<<"net", "proto">>]
            out   == [Untouched("net", Buffer) EXCEPT !.proto = proto]
        IN IF proto = DHCP THEN Enter("net", "returned", out, <<>>, "ESP_OK")
           ELSE IF ~complete
           THEN Enter("net", "returned", Untouched("net", Buffer), <<>>, "ESP_FAIL")
           ELSE Enter("net", "copy", out,
                      <<"ip_info", "primary_dns">>
                        \o (IF secondary THEN <<"secondary_dns">> ELSE <<>>), "ESP_OK")

\* The caller's buffers for id and pw may hold something or not.
nvram_get_mqtt_params ==
    \E id, pw \in {ZERO, Buffer} :
        Enter("mqtt", "enabled?",
              [Untouched("mqtt", Buffer) EXCEPT !.enable = ram[<<"mqtt", "enable">>],
                                                !.id = id, !.pw = pw], <<>>, "void")

\* Mutated form: the host too is copied only for a caller with credentials.
TestEnabledHostLate ==
    /\ ReaderAt("enabled?")
    /\ reader' =
         IF ram[<<"mqtt", "enable">>] = true /\ reader.out.id # ZERO /\ reader.out.pw # ZERO
         THEN [reader EXCEPT !.pc = "copy", !.todo = <<"host", "id", "pw">>]
         ELSE [reader EXCEPT !.pc = "returned"]

\* The flag is tested after it has been copied, and strlen is taken of the
\* caller's buffers.
TestEnabled ==
    /\ ReaderAt("enabled?")
    /\ reader' =
         IF ram[<<"mqtt", "enable">>] = true
         THEN [reader EXCEPT
                 !.pc = "copy",
                 !.todo = <<"host">> \o (IF reader.out.id # ZERO /\ reader.out.pw # ZERO
                                         THEN <<"id", "pw">> ELSE <<>>)]
         ELSE [reader EXCEPT !.pc = "returned"]

\* Mutated form: the second strcpy is missing.
TokenAccessOnly ==
    Enter("token", "copy", Untouched("token", Buffer), <<"access">>, "void")

nvram_get_token_params ==
    Enter("token", "copy", Untouched("token", Buffer), <<"access", "refresh">>, "void")

Get ==
    \/ "nvram_get_net_params" \in Getters /\ nvram_get_net_params
    \/ "nvram_get_mqtt_params" \in Getters /\ nvram_get_mqtt_params
    \/ "nvram_get_token_params" \in Getters /\ nvram_get_token_params

CopyOut ==
    /\ ReaderAt("copy")
    /\ LET f == Head(reader.todo)
       IN reader' = [reader EXCEPT
                       !.out[f] = ram[<<reader.key, f>>],
                       !.todo = Tail(@),
                       !.pc = IF Tail(reader.todo) = <<>> THEN "returned" ELSE "copy"]

\* The caller looks at what it was given, before anything else happens: only
\* it can see it.
Used ==
    /\ ReaderAt("returned")
    /\ reader' = Off

ReaderStep == (Get \/ TestEnabled \/ CopyOut \/ Used) /\ UNCHANGED vars

\* A step of nvram.c proper: power loss ends the reading, a store into the
\* record disturbs it.
WriterStep ==
    /\ reader.pc # "returned"
    /\ Next
    /\ reader' = IF ~up' THEN Off
                 ELSE [reader EXCEPT
                         !.disturbed = @ \/ (reader.pc # "idle" /\ Storing(reader.key, pc', key'))]

ReadNext == ReaderStep \/ WriterStep

ReadSpec == ReadInit /\ [][ReadNext]_readVars
-----------------------------------------------------------------------------
Reads(k) == ReaderAt("returned") /\ reader.key = k /\ ~reader.disturbed

(***************************************************************************)
(* A task that reads the tokens while nobody sets them gets two of one     *)
(* call of the setter, whatever power losses and failed reads at boot came *)
(* before.  (Disturbed, it can get halves of two pairs.)                   *)
(***************************************************************************)
TokensMatch == Reads("token") => reader.out.access = reader.out.refresh

(***************************************************************************)
(* A task that is told that MQTT is enabled has been given the host of a   *)
(* setter, and one that is told it is not has been given nothing, although *)
(* the flag is read twice.                                                 *)
(***************************************************************************)
EnabledHasHost ==
    Reads("mqtt") =>
        /\ reader.out.enable = true => reader.out.host \in Data
        /\ reader.out.enable = false =>
             reader.out.host = Buffer /\ {reader.out.id, reader.out.pw} \subseteq {ZERO, Buffer}

(***************************************************************************)
(* A task that gets a static configuration gets its address and its DNS    *)
(* server with it, those of one call of the setter.                        *)
(***************************************************************************)
StaticHasAddress ==
    Reads("net") /\ reader.result = "ESP_OK" /\ reader.out.proto = STATIC =>
        /\ reader.out.ip_info \in Data
        /\ reader.out.primary_dns = reader.out.ip_info
=============================================================================
