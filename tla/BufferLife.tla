----------------------------- MODULE BufferLife ----------------------------
(***************************************************************************)
(* What reference counting promises the owner of a shared buffer: it comes *)
(* to life once, a new holder gets it from a present one, it is destroyed  *)
(* only when nobody holds it, and then it is gone for good.  Ion           *)
(* implements it with the reference counts of handles, clients and files.  *)
(***************************************************************************)
CONSTANTS Buffers, Holders

VARIABLES life,     \* life[b]: "none", "live" or "freed"
          holders   \* holders[b]: who holds b

vars == <<life, holders>>

Init ==
  /\ life = [b \in Buffers |-> "none"]
  /\ holders = [b \in Buffers |-> {}]

(* A creation that fails half way leaves a buffer without a holder. *)
Create(b) ==
  /\ life[b] = "none"
  /\ life' = [life EXCEPT ![b] = "live"]
  /\ \E H \in {{}} \cup {{x} : x \in Holders} : holders' = [holders EXCEPT ![b] = H]

Hold(b, x) ==
  /\ life[b] = "live"
  /\ holders[b] # {} /\ x \notin holders[b]
  /\ holders' = [holders EXCEPT ![b] = @ \cup {x}]
  /\ UNCHANGED life

Drop(b, x) ==
  /\ x \in holders[b]
  /\ holders' = [holders EXCEPT ![b] = @ \ {x}]
  /\ UNCHANGED life

Destroy(b) ==
  /\ life[b] = "live"
  /\ holders[b] = {}
  /\ life' = [life EXCEPT ![b] = "freed"]
  /\ UNCHANGED holders

Next == \E b \in Buffers :
          \/ Create(b) \/ Destroy(b)
          \/ \E x \in Holders : Hold(b, x) \/ Drop(b, x)

(* Nothing that lost its last holder stays allocated. *)
Fairness == \A b \in Buffers : WF_vars(Destroy(b))

Spec == Init /\ [][Next]_vars /\ Fairness
=============================================================================
