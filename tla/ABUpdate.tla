------------------------------ MODULE ABUpdate ------------------------------
(***************************************************************************)
(* What every boot controller promises: an ECU with two slots, of which    *)
(* only the one that does not run is written, never starts from a slot     *)
(* whose image is not whole.  The promise has one exception, which the     *)
(* controllers share: an update started while the boot loader's default    *)
(* is the other slot writes over that default.                             *)
(***************************************************************************)

CONSTANTS SlotA, SlotB, NoSlot

Slots == {SlotA, SlotB}

Other(s) == IF s = SlotA THEN SlotB ELSE SlotA

VARIABLES
    whole,    \* the slot holds everything it needs to run
    running,  \* the slot that runs, NoSlot when the ECU is down
    default,  \* the slot the boot loader starts when nothing else is asked
    exposed   \* the default was written over since it was last chosen

vars == <<whole, running, default, exposed>>

TypeOK ==
    /\ whole \in [Slots -> BOOLEAN]
    /\ running \in Slots \union {NoSlot}
    /\ default \in Slots
    /\ exposed \in BOOLEAN

Init ==
    /\ whole \in [Slots -> BOOLEAN]
    /\ default \in Slots
    /\ whole[default]
    /\ running = NoSlot
    /\ exposed = FALSE

\* A slot is started; which one is the boot loader's choice.
Start(s) ==
    /\ running = NoSlot
    /\ whole[s] \/ exposed
    /\ running' = s
    /\ UNCHANGED <<whole, default, exposed>>

Stop ==
    /\ running # NoSlot
    /\ running' = NoSlot
    /\ UNCHANGED <<whole, default, exposed>>

\* An update begins.
Begin ==
    /\ running # NoSlot
    /\ exposed' = (exposed \/ running # default)
    /\ UNCHANGED <<whole, running, default>>

\* The other slot is written: its image is whole afterwards, or it is not.
Write ==
    /\ running # NoSlot
    /\ running = default \/ exposed
    /\ \E w \in BOOLEAN : whole' = [whole EXCEPT ![Other(running)] = w]
    /\ UNCHANGED <<running, default, exposed>>

\* The boot loader's default is chosen, by the running slot or by the boot
\* loader itself: a whole slot, or the exposure stays.
Choose(s) ==
    /\ default' = s
    /\ exposed' \in BOOLEAN
    /\ ~exposed' => whole[s] /\ (running # NoSlot => whole[running])
    /\ exposed' => exposed
    /\ UNCHANGED <<whole, running>>

Next ==
    \/ Stop \/ Begin \/ Write
    \/ \E s \in Slots : Start(s) \/ Choose(s)

Spec == Init /\ [][Next]_vars

\* The default slot is whole, and so is the slot that runs, as long as the
\* default has not been written over.
AlwaysBootable ==
    ~exposed => whole[default] /\ (running # NoSlot => whole[running])

=============================================================================
