------------------------------ MODULE NvramApi ------------------------------
(***************************************************************************)
(* The parameter records of main/params.h and the setters of main/nvram.c, *)
(* as data: what each setter stores into the RAM image `nvdata`, field by  *)
(* field, before it persists the whole record.                             *)
(*                                                                         *)
(* A cell is one field of one record.  It is the unit in which two tasks   *)
(* that share nvdata can interleave.  Fields that the code always stores   *)
(* together are one cell (host stands for host and port, ip_info for       *)
(* address, netmask and gateway).  The zero value stands for 0, 0.0.0.0    *)
(* and the empty string, and as an argument for the NULL pointer.          *)
(***************************************************************************)
EXTENDS Naturals, Sequences

CONSTANTS
    Data,       \* the non-zero values a caller stores in a plain field
    NumTypes,   \* CONFIG_MAX_NUM_OF_SENSOR_TYPES
    Api         \* the setters that callers use

ASSUME NvramApiAssumption ==
    /\ Data \subseteq Nat \ {0} /\ Data # {}
    /\ NumTypes \in Nat \ {0}
    /\ Api \subseteq {"nvram_set_net_params", "nvram_set_mqtt_params",
                     "nvram_set_token_params", "nvram_set_fold_params",
                     "nvram_set_fold_param", "nvram_set_beacon_params",
                     "nvram_set_tgs5141_param", "nvram_set_prov_done"}

ZERO == 0
FOLD_DEFAULT == 10

\* C's bool and enum proto_t: memset(0) makes a flag false and proto DHCP.
false == 0
true == 1
DHCP == 0
STATIC == 1

\* The values a cell can hold.
Word == Data \cup {ZERO, true, FOLD_DEFAULT}

\* The NVS keys, one blob each.
Keys == {"net", "token", "mqtt", "misc", "folds", "beacon"}

FieldsOf ==
    [net    |-> {"proto", "ip_info", "primary_dns", "secondary_dns"},
     token  |-> {"access", "refresh"},
     mqtt   |-> {"enable", "host", "id", "pw"},
     misc   |-> {"prov_done", "tgs5141"},
     folds  |-> 0 .. NumTypes - 1,
     beacon |-> {"enable"}]

CellsOf(k) == {<<k, f>> : f \in FieldsOf[k]}
Cell == UNION {CellsOf(k) : k \in Keys}
KeyOf(c) == c[1]

ProvDone == <<"misc", "prov_done">>

\* nvdata after the memset and the default assignments of nvram_init.
Default == [c \in Cell |-> IF KeyOf(c) = "folds" THEN FOLD_DEFAULT ELSE ZERO]
-----------------------------------------------------------------------------
(***************************************************************************)
(* The setters.  A call is the record it persists and the stores it makes  *)
(* into nvdata first, in program order.  A call whose arguments the code   *)
(* rejects (NULL token, NULL folds, sensor id out of range) stores and     *)
(* persists nothing and is not in these sets.                              *)
(***************************************************************************)
Store(k, f, v) == [cell |-> <<k, f>>, val |-> v]
Optional(k, f, v) == IF v = ZERO THEN <<>> ELSE <<Store(k, f, v)>>

nvram_set_net_params(dhcp, addr, dns1, dns2) ==
    [key |-> "net",
     stores |-> IF dhcp = true THEN <<Store("net", "proto", DHCP)>>
                ELSE <<Store("net", "proto", STATIC),
                       Store("net", "ip_info", addr),
                       Store("net", "primary_dns", dns1)>>
                     \o Optional("net", "secondary_dns", dns2)]

\* A call with enable = false stores nothing, not even the flag.
nvram_set_mqtt_params(enable, host, id, pw) ==
    [key |-> "mqtt",
     stores |-> IF enable = true
                THEN <<Store("mqtt", "enable", true), Store("mqtt", "host", host)>>
                       \o Optional("mqtt", "id", id) \o Optional("mqtt", "pw", pw)
                ELSE <<>>]

\* Mutated form: the second strcpy is missing.
SetAccessOnly(access, refresh) ==
    [key |-> "token", stores |-> <<Store("token", "access", access)>>]

nvram_set_token_params(access, refresh) ==
    [key |-> "token",
     stores |-> <<Store("token", "access", access), Store("token", "refresh", refresh)>>]

nvram_set_fold_params(folds) ==
    [key |-> "folds",
     stores |-> [i \in 1 .. NumTypes |-> Store("folds", i - 1, folds[i - 1])]]

nvram_set_fold_param(id, fold) ==
    [key |-> "folds", stores |-> <<Store("folds", id, fold)>>]

nvram_set_beacon_params(enable) ==
    [key |-> "beacon", stores |-> <<Store("beacon", "enable", enable)>>]

nvram_set_tgs5141_param(tgs5141) ==
    [key |-> "misc", stores |-> <<Store("misc", "tgs5141", tgs5141)>>]

nvram_set_prov_done ==
    [key |-> "misc", stores |-> <<Store("misc", "prov_done", true)>>]

\* The accepted calls of each setter.  A token pair carries one tag in both
\* strings, so that a mixed pair shows.
CallsOf ==
    [nvram_set_net_params |->
       {nvram_set_net_params(true, ZERO, ZERO, ZERO)}
         \cup {nvram_set_net_params(false, v, v, w) : v \in Data, w \in Data \cup {ZERO}},
     nvram_set_mqtt_params |->
       {nvram_set_mqtt_params(false, ZERO, ZERO, ZERO)}
         \cup {nvram_set_mqtt_params(true, v, w, w) : v \in Data, w \in Data \cup {ZERO}},
     nvram_set_token_params |-> {nvram_set_token_params(v, v) : v \in Data},
     nvram_set_fold_params |->
       {nvram_set_fold_params(f) : f \in [0 .. NumTypes - 1 -> Data]},
     nvram_set_fold_param |->
       {nvram_set_fold_param(i, v) : i \in 0 .. NumTypes - 1, v \in Data},
     nvram_set_beacon_params |-> {nvram_set_beacon_params(b) : b \in {true, false}},
     nvram_set_tgs5141_param |-> {nvram_set_tgs5141_param(v) : v \in Data},
     nvram_set_prov_done |-> {nvram_set_prov_done}]

\* The calls the tasks make.
Calls == UNION {CallsOf[name] : name \in Api}

\* The stores there are.
Stores == [cell : Cell, val : Word]
CellsStored(stores) == {stores[i].cell : i \in DOMAIN stores}
=============================================================================
