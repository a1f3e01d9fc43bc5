-------------------------- MODULE NvramRefinement --------------------------
(***************************************************************************)
(* nvram.c implements the parameter store.                                 *)
(***************************************************************************)
EXTENDS Nvram

\* A cell is dirty while a setter of its record runs, and as long as its
\* saving is known to have failed.
Dirty == {c \in Cell : ~Settled(KeyOf(c))} \cup behind

Params == INSTANCE ParamStore WITH
    Cells <- Cell,
    Records <- {CellsOf(k) : k \in Keys},
    Contents <- Content,
    Blank <- Missing,
    Zero <- Default,
    Flag <- ProvDone,
    Clear <- false,
    Required <- UNION {CellsOf(k) : k \in {"net", "token", "mqtt", "misc"}},
    on <- up,
    cache <- ram,
    disk <- flash,
    dirty <- Dirty

(***************************************************************************)
(* Whatever the tasks, the failures and the power losses, the firmware     *)
(* sees a store whose clean parameters are in the flash, whose flash       *)
(* changes while it runs only where a call is at work or has reported a    *)
(* failure, or where the boot could not read it, and that is declared      *)
(* provisioned by a boot only with its records read.                       *)
(***************************************************************************)
ImplementsParamStore == Params!Spec
=============================================================================
