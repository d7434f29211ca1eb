----------------------------- MODULE AddressMap -----------------------------
(***************************************************************************)
(* What memblock promises: the boot-time memory map is two sets of         *)
(* addresses, the memory there is and the part of it that is spoken for.   *)
(* An operation adds a range to one of them or takes a range out, all of   *)
(* it or, when it is refused, none; an allocation is a reservation.        *)
(***************************************************************************)
EXTENDS Integers

CONSTANT Addresses

VARIABLES mem, res, own    \* own: what the tables themselves occupy

Init == mem = {} /\ res = {} /\ own = {}

(* The caller's change done, a table that grows takes free memory for its  *)
(* new array and gives the old one back, if it can: to take it out of the  *)
(* reservations may need room in their table that is not there, and then   *)
(* it stays reserved for nobody.                                           *)
Settle(memNow, resNow) ==
    /\ mem' = memNow
    /\ own' \in SUBSET Addresses
    /\ own' \ own \subseteq memNow \ resNow
    /\ \E back \in SUBSET (own \ own') : res' = (resNow \ back) \cup (own' \ own)

Add(range) == Settle(mem \cup range, res)

Remove(range) == Settle(mem \ range, res)

Reserve(range) == Settle(mem, res \cup range)

Free(range) == Settle(mem, res \ range)

(* Cutting memory off above a limit cuts the reservations there off too.   *)
Limit(top) ==
    /\ mem' = {a \in mem : a < top}
    /\ res' = {a \in res : a < top}
    /\ UNCHANGED own

Ranges == {first .. last : first, last \in Addresses}

Next ==
    \/ \E range \in Ranges :
          Add(range) \/ Remove(range) \/ Reserve(range) \/ Free(range)
    \/ \E top \in Addresses : Limit(top)

Spec == Init /\ [][Next]_<<mem, res, own>>
=============================================================================
