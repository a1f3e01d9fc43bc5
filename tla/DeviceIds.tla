----------------------------- MODULE DeviceIds -----------------------------
(***************************************************************************)
(* main/nvram.c: the identifiers of a device, which nvram_read_ids derives *)
(* from the MAC addresses in its eFuses at every boot, with the canonical  *)
(* form and the order of 128-bit hashes in xxhash.h.                       *)
(*                                                                         *)
(* A 64-bit word is the sequence of its eight bytes, the highest first;    *)
(* the chip keeps it in memory with the lowest first.                      *)
(***************************************************************************)
EXTENDS Utils

CONSTANTS
    Devices,    \* devices of the fleet, this one among them
    Mac(_),     \* the base MAC address of a device
    EthMac(_),  \* its MAC address for Ethernet
    Hash(_)     \* XXH3_128bits of six bytes: a record of two words

MAC_ADDR_LEN == 6
DEVICE_ID_LEN == 6
DEVICE_ID_STR_LEN == DEVICE_ID_LEN * 2 + 1
SERIAL_LEN == 16
SERIAL_STR_LEN == SERIAL_LEN * 2 + 1

\* No two devices have the same address, and no two addresses of this length
\* the same hash: module XxhProductProofs shows that XXH3 has this property.
ASSUME DeviceIdsAssumption ==
    /\ \A d \in Devices : Mac(d) \in [1 .. DEVICE_ID_LEN -> Byte]
    /\ \A d, e \in Devices : Mac(d) = Mac(e) => d = e
    /\ \A d, e \in Devices : Hash(Mac(d)) = Hash(Mac(e)) => d = e
    /\ \A d \in Devices : Hash(Mac(d)) \in
           [{"low64", "high64"} -> [1 .. 8 -> Byte]]

Memory(word) == Reverse(word)
bswap64(word) == Reverse(word)
-----------------------------------------------------------------------------
\* The structure has low64 before high64.
HashMemory(hash) == Memory(hash.low64) \o Memory(hash.high64)
XXH128_isEqual(h1, h2) == HashMemory(h1) = HashMemory(h2)

Above(v, w) == \E i \in DOMAIN v : v[i] > w[i] /\ \A j \in 1 .. i - 1 : v[j] = w[j]
Compare(v, w) == IF Above(v, w) THEN 1 ELSE IF Above(w, v) THEN -1 ELSE 0

\* Mutated form: the halves are compared as they lie in memory.
CmpLowFirst(h1, h2) ==
    IF Compare(h1.low64, h2.low64) # 0 THEN Compare(h1.low64, h2.low64)
    ELSE Compare(h1.high64, h2.high64)

XXH128_cmp(h1, h2) ==
    IF Compare(h1.high64, h2.high64) # 0 THEN Compare(h1.high64, h2.high64)
    ELSE Compare(h1.low64, h2.low64)

\* On this chip both words are swapped, then copied.
XXH128_canonicalFromHash(hash) ==
    Memory(bswap64(hash.high64)) \o Memory(bswap64(hash.low64))
XXH128_hashFromCanonical(digest) ==
    [high64 |-> SubSeq(digest, 1, 8), low64 |-> SubSeq(digest, 9, 16)]
-----------------------------------------------------------------------------
Zeros(n) == [i \in 1 .. n |-> 0]
NoIds ==
    [eth_mac |-> Zeros(MAC_ADDR_LEN), device_id |-> Zeros(DEVICE_ID_LEN),
     device_id_str |-> Zeros(DEVICE_ID_STR_LEN), serial |-> Zeros(SERIAL_LEN),
     serial_str |-> Zeros(SERIAL_STR_LEN)]

\* Mutated forms: the words are copied as they lie in memory; the high
\* one is copied twice.
SerialOfMemory(hash) == Memory(hash.high64) \o Memory(hash.low64)
SerialHighTwice(hash) == Memory(bswap64(hash.high64)) \o Memory(bswap64(hash.high64))

SerialOf(hash) == Memory(bswap64(hash.high64)) \o Memory(bswap64(hash.low64))

\* snprintf with "%016llx%016llx": the digits of both words, cut to the room
\* there is, and the terminator.
SerialStr(hash) ==
    LET digits == HexDigits(hash.high64 \o hash.low64)
    IN Append(SubSeq(digits, 1, Min({Len(digits), SERIAL_STR_LEN - 1})), NUL)

\* nvram_read_ids after both addresses have been read.
AllIds(d) ==
    LET hash == Hash(Mac(d))
    IN [eth_mac |-> EthMac(d), device_id |-> Mac(d),
        device_id_str |-> bin2hex(Mac(d), DEVICE_ID_STR_LEN).hex,
        serial |-> SerialOf(hash), serial_str |-> SerialStr(hash)]

\* What a boot can leave in nvdata.ids: esp_read_mac may fail the first or
\* the second time.  nvram_init drops the error and runs on.
nvram_read_ids(d) == {AllIds(d), NoIds, [NoIds EXCEPT !.device_id = Mac(d)]}
-----------------------------------------------------------------------------
(***************************************************************************)
(* The two forms of the serial, the bytes that keys are derived from and   *)
(* the string for people, are the same number, and the one that            *)
(* XXH128_canonicalFromHash defines for the hash: it can be read back on   *)
(* any machine.                                                            *)
(***************************************************************************)
FormsAgree(ids, d) ==
    /\ Bytes(ids.serial_str) = ids.serial
    /\ Bytes(ids.device_id_str) = ids.device_id
    /\ ids.serial = XXH128_canonicalFromHash(Hash(Mac(d)))
    /\ XXH128_hashFromCanonical(ids.serial) = Hash(Mac(d))

\* Sorting hashes with XXH128_cmp sorts the serials of their devices, and two
\* that compare as equal are the same hash.
OrderAgrees(d, e) ==
    LET order == XXH128_cmp(Hash(Mac(d)), Hash(Mac(e)))
    IN /\ order = Compare(AllIds(d).serial_str, AllIds(e).serial_str)
       /\ order = Compare(AllIds(d).serial, AllIds(e).serial)
       /\ (order = 0) = XXH128_isEqual(Hash(Mac(d)), Hash(Mac(e)))
=============================================================================
