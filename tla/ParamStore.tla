----------------------------- MODULE ParamStore -----------------------------
(***************************************************************************)
(* What the parameter store of nvram.c promises to the rest of the         *)
(* firmware: a cache over the flash.  A cell of it is clean, and then the  *)
(* flash has its value, or dirty: a setter is at work on its record, a     *)
(* setter has reported that it could not save it, or the boot could not    *)
(* read it.  With the device on, the flash changes in dirty cells only,    *)
(* one record at a time.                                                   *)
(***************************************************************************)
CONSTANTS
    Cells,      \* the parameters
    Records,    \* sets of parameters that are saved together
    Contents,   \* values of a parameter, `Blank` among them
    Blank,      \* what the flash has of a parameter never saved
    Zero,       \* the cache without power
    Flag,       \* the parameter that declares the others complete
    Clear,      \* its value while they are not
    Required    \* the parameters it speaks of

VARIABLES
    on,         \* the device has booted
    cache,      \* the parameters as the firmware reads them
    disk,       \* the parameters as they survive power loss
    dirty       \* the cells whose cache and disk may differ

vars == <<on, cache, disk, dirty>>

Init ==
    /\ on = FALSE
    /\ cache = Zero
    /\ disk \in [Cells -> Contents]
    /\ dirty = {}

\* The flash may be erased.  Cells that cannot be read are dirty from the
\* start, and then a flag that speaks of them is down.
PowerOn ==
    /\ ~on
    /\ on' = TRUE
    /\ disk' \in {disk, [c \in Cells |-> Blank]}
    /\ dirty' \subseteq Cells
    /\ cache' \in [Cells -> Contents]
    /\ \A c \in Cells \ dirty' : cache'[c] = disk'[c] /\ disk'[c] # Blank
    /\ cache'[Flag] # Clear => dirty' \cap Required = {}

\* Without power records may be lost, as wholes.
Lose ==
    /\ ~on
    /\ \E lost \in SUBSET Records :
         disk' = [c \in Cells |-> IF c \in UNION lost THEN Blank ELSE disk[c]]
    /\ UNCHANGED <<on, cache, dirty>>

PowerOff ==
    /\ on
    /\ on' = FALSE
    /\ cache' = Zero
    /\ dirty' = {}
    /\ UNCHANGED disk

\* A setter is called for a record,
Begin ==
    /\ on
    /\ \E r \in Records : dirty' = dirty \cup r
    /\ UNCHANGED <<on, cache, disk>>

\* it changes parameters of it,
Set ==
    /\ on
    /\ cache' \in [Cells -> Contents]
    /\ \A c \in Cells \ dirty : cache'[c] = cache[c]
    /\ UNCHANGED <<on, disk, dirty>>

\* they get to the flash,
Save ==
    /\ on
    /\ disk' \in [Cells -> Contents]
    /\ \E r \in Records : \A c \in Cells : disk'[c] # disk[c] => c \in r \cap dirty
    /\ UNCHANGED <<on, cache, dirty>>

\* and the call ends.  The cells that it acknowledges are saved.
End ==
    /\ on
    /\ dirty' \subseteq dirty
    /\ \A c \in dirty \ dirty' : disk[c] = cache[c]
    /\ UNCHANGED <<on, cache, disk>>

Next == PowerOn \/ Lose \/ PowerOff \/ Begin \/ Set \/ Save \/ End

Spec == Init /\ [][Next]_vars
-----------------------------------------------------------------------------
\* What a caller may rely on: a clean parameter survives power loss as it is.
CleanMeansSaved == on => \A c \in Cells \ dirty : cache[c] = disk[c]
=============================================================================
