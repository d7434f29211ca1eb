---------------------------- MODULE OmapIonProofs ----------------------------
(***************************************************************************)
(* The safety properties of OmapIon and of the VRFB table under it, for    *)
(* any boards, clients, buffers, tiler blocks, pool sizes and slots.       *)
(***************************************************************************)
EXTENDS OmapIon, FiniteSetTheorems, SequenceTheorems, WellFoundedInduction, TLAPS

(* A set of slots has a first one. *)
LEMMA LeastNat ==
  ASSUME NEW S, S \subseteq Nat, S # {}
  PROVE  /\ First(S) \in S
         /\ \A t \in S : First(S) <= t
<1>1. PICK x \in S : \A y \in S : ~(<<y, x>> \in OpToRel(<, Nat))
  BY WFMin, NatLessThanWellFounded
<1>2. \A y \in S : ~(y < x)
  BY <1>1 DEF OpToRel
<1>3. \E s \in S : \A t \in S : s <= t
  BY <1>2
<1> QED BY <1>3 DEF First

-----------------------------------------------------------------------------
(* The VRFB table.  A mapped slot's context was set up for the buffer that *)
(* is registered in it: freeing and registering unmap it.                  *)
Setups == {Setup(p, mode, w, h) : p \in Buffers, mode \in Modes, w \in Nat, h \in Nat}

VrfbTypes ==
  /\ slot \in [Slots -> [ba : Buffers \cup {NoBuffer}, mapped : BOOLEAN, ctx : Setups \cup {NoSetup}]]
  /\ asks \in [Buffers -> Nat]
  /\ gone \in [Buffers -> Int]

SetUpForIt == \A s \in Mapped : slot[s].ctx \in Setups /\ slot[s].ctx.of = slot[s].ba

VrfbInv == VrfbTypes /\ SlotsExact /\ SetUpForIt /\ ShownAsAsked

(* The sets of contexts are finite.                                         *)
LEMMA SlotSets ==
  ASSUME VrfbTypes
  PROVE  /\ IsFiniteSet(Used) /\ Cardinality(Used) \in Nat
         /\ \A p : SlotsOf(p) \subseteq Nat /\ IsFiniteSet(SlotsOf(p)) /\ Cardinality(SlotsOf(p)) \in Nat
<1>1. ASSUME NEW T, T \subseteq Slots PROVE T \subseteq Nat /\ IsFiniteSet(T) /\ Cardinality(T) \in Nat
  BY <1>1, VrfbAssumption, FS_Subset, FS_CardinalityType
<1>2. Used \subseteq Slots /\ \A p : SlotsOf(p) \subseteq Slots
  BY DEF Used, SlotsOf
<1> QED BY <1>1, <1>2

(* At first no buffer has a context.                                        *)
LEMMA VrfbInitInv == VrfbInit => VrfbInv
<1> SUFFICES ASSUME VrfbInit PROVE VrfbInv
  OBVIOUS
<1>1. VrfbTypes
  BY DEF VrfbInit, VrfbTypes, EmptySlot
<1>2. Used = {} /\ Mapped = {} /\ \A p \in Buffers : SlotsOf(p) = {}
  BY VrfbAssumption DEF VrfbInit, Used, Mapped, SlotsOf, EmptySlot, NoBuffer
<1>3. SlotsExact
  BY <1>2, FS_EmptySet DEF SlotsExact, VrfbInit
<1>4. SetUpForIt /\ ShownAsAsked
  BY <1>2 DEF SetUpForIt, ShownAsAsked, VrfbInit
<1> QED BY <1>1, <1>3, <1>4 DEF VrfbInv

(* A slot that is given to a buffer or taken from it is not mapped; the    *)
(* others are as they were.                                                *)
LEMMA SlotChanges ==
  ASSUME VrfbInv, NEW s \in Slots, NEW q \in Buffers \cup {NoBuffer},
         slot' = [slot EXCEPT ![s] = [@ EXCEPT !.ba = q, !.mapped = FALSE]], UNCHANGED shown
  PROVE  /\ slot' \in [Slots -> [ba : Buffers \cup {NoBuffer}, mapped : BOOLEAN, ctx : Setups \cup {NoSetup}]]
         /\ slot'[s].ba = q /\ \A t \in Slots \ {s} : slot'[t] = slot[t]
         /\ Mapped' = Mapped \ {s}
         /\ SetUpForIt' /\ ShownAsAsked'
<1>1. /\ slot'[s].ba = q /\ slot'[s].mapped = FALSE /\ \A t \in Slots \ {s} : slot'[t] = slot[t]
      /\ slot' \in [Slots -> [ba : Buffers \cup {NoBuffer}, mapped : BOOLEAN, ctx : Setups \cup {NoSetup}]]
  BY DEF VrfbInv, VrfbTypes
<1>2. Mapped' = Mapped \ {s}
  BY <1>1 DEF Mapped
<1>3. SetUpForIt'
  BY <1>1, <1>2 DEF VrfbInv, SetUpForIt, Mapped
<1>4. ShownAsAsked'
  BY <1>1, <1>2 DEF VrfbInv, ShownAsAsked, Mapped
<1> QED BY <1>1, <1>2, <1>3, <1>4

(* Freeing a buffer frees the contexts it has.                              *)
LEMMA FreeBufferInv ==
  ASSUME VrfbInv, NEW p \in Buffers, FreeBuffer(p)
  PROVE  VrfbInv'
<1>1. /\ asks \in [Buffers -> Nat] /\ gone \in [Buffers -> Int] /\ asks[p] > 0
      /\ asks' = [asks EXCEPT ![p] = @ - 1] /\ UNCHANGED shown
  BY DEF VrfbInv, VrfbTypes, FreeBuffer
<1>2. p # NoBuffer
  BY VrfbAssumption DEF NoBuffer
<1>3. VrfbTypes
  BY DEF VrfbInv
<1>4. CASE have > 0 /\ SlotsOf(p) # {}
  <2> DEFINE s == First(SlotsOf(p))
  <2>1. s \in SlotsOf(p)
    BY <1>3, <1>4, SlotSets, LeastNat
  <2> HIDE DEF s
  <2>2. /\ s \in Slots /\ slot[s].ba = p
        /\ slot' = [slot EXCEPT ![s] = [@ EXCEPT !.ba = NoBuffer, !.mapped = FALSE]]
        /\ held' = held \ {s} /\ have' = have - 1 /\ UNCHANGED gone
    BY <1>4, <2>1 DEF FreeBuffer, SlotsOf, s
  <2>3. /\ slot' \in [Slots -> [ba : Buffers \cup {NoBuffer}, mapped : BOOLEAN, ctx : Setups \cup {NoSetup}]]
        /\ slot'[s].ba = NoBuffer /\ \A t \in Slots \ {s} : slot'[t] = slot[t]
        /\ Mapped' = Mapped \ {s} /\ SetUpForIt' /\ ShownAsAsked'
    BY <1>1, <2>2, SlotChanges
  <2>4. Used' = Used \ {s} /\ s \in Used
    BY <1>2, <2>2, <2>3 DEF Used
  <2>5. SlotsOf(p)' = SlotsOf(p) \ {s}
    BY <1>2, <2>2, <2>3, VrfbAssumption DEF SlotsOf, NoBuffer
  <2>6. /\ Cardinality(Used') = Cardinality(Used) - 1
        /\ Cardinality(SlotsOf(p)') = Cardinality(SlotsOf(p)) - 1
    BY <1>3, <2>1, <2>4, <2>5, SlotSets, FS_RemoveElement
  <2>7. have' = Cardinality(Used)' /\ held' = Used' /\ (Mapped \subseteq Used)'
    BY <2>2, <2>3, <2>4, <2>6 DEF SlotsExact, VrfbInv
  <2>8. \A r \in Buffers : Cardinality(SlotsOf(r))' = asks'[r] - gone'[r]
    <3> TAKE r \in Buffers
    <3>1. Cardinality(SlotsOf(r)) = asks[r] - gone[r]
      BY DEF VrfbInv, SlotsExact
    <3>2. Cardinality(SlotsOf(p)) = asks[p] - gone[p]
      BY DEF VrfbInv, SlotsExact
    <3>3. CASE r = p
      <4>1. asks[p] \in Int /\ gone[p] \in Int /\ asks'[p] = asks[p] - 1 /\ gone'[p] = gone[p]
        BY <1>1, <2>2
      <4>2. Cardinality(SlotsOf(p)') = asks'[p] - gone'[p]
        BY <2>6, <3>2, <4>1
      <4> QED BY <3>3, <4>2
    <3>4. CASE r # p
      <4>1. SlotsOf(r)' = SlotsOf(r)
        BY <1>2, <2>2, <2>3, <3>4, VrfbAssumption DEF SlotsOf, NoBuffer
      <4>2. asks'[r] = asks[r] /\ gone'[r] = gone[r]
        BY <1>1, <2>2, <3>4
      <4> QED BY <3>1, <4>1, <4>2
    <3> QED BY <3>3, <3>4
  <2>9. SlotsExact'
    BY <2>7, <2>8 DEF SlotsExact
  <2>10. asks' \in [Buffers -> Nat] /\ gone' \in [Buffers -> Int]
    BY <1>1, <2>2
  <2> QED BY <2>3, <2>9, <2>10 DEF VrfbInv, VrfbTypes
<1>5. CASE ~(have > 0 /\ SlotsOf(p) # {})
  <2>1. gone' = [gone EXCEPT ![p] = @ - 1] /\ UNCHANGED <<slot, held, have>>
    BY <1>5 DEF FreeBuffer
  <2>2. SlotsOf(p) = {}
    <3>1. CASE ~(have > 0)
      BY <3>1, <1>2, <1>3, SlotSets, FS_EmptySet DEF VrfbInv, SlotsExact, Used, SlotsOf
    <3> QED BY <1>5, <3>1
  <2>3. Cardinality(SlotsOf(p)) = 0 /\ \A r \in Buffers : Cardinality(SlotsOf(r)) = asks[r] - gone[r]
    BY <2>2, FS_EmptySet DEF VrfbInv, SlotsExact
  <2>4. \A r \in Buffers : Cardinality(SlotsOf(r)) = asks'[r] - gone'[r]
    BY <1>1, <2>1, <2>3
  <2> QED BY <1>1, <2>1, <2>4 DEF VrfbInv, VrfbTypes, SlotsExact, Used, Mapped, SlotsOf, SetUpForIt, ShownAsAsked
<1> QED BY <1>4, <1>5

(* Registering a buffer takes the first free slot. *)
LEMMA GetBufferInv ==
  ASSUME VrfbInv, NEW p \in Buffers, GetBuffer(p)
  PROVE  VrfbInv'
<1>1. /\ asks \in [Buffers -> Nat] /\ gone \in [Buffers -> Int]
      /\ asks' = [asks EXCEPT ![p] = @ + 1] /\ UNCHANGED <<shown, gone>>
  BY DEF VrfbInv, VrfbTypes, GetBuffer, Asked
<1>2. p # NoBuffer /\ NoBuffer \notin Buffers
  BY VrfbAssumption DEF NoBuffer
<1>3. VrfbTypes
  BY DEF VrfbInv
<1> DEFINE s == First(SlotsOf(NoBuffer))
<1>4. s \in SlotsOf(NoBuffer)
  <2>1. SlotsOf(NoBuffer) # {}
    BY DEF GetBuffer
  <2> QED BY <1>3, <2>1, SlotSets, LeastNat
<1> HIDE DEF s
<1>5. /\ s \in Slots /\ slot[s].ba = NoBuffer
      /\ slot' = [slot EXCEPT ![s] = [@ EXCEPT !.ba = p, !.mapped = FALSE]]
      /\ held' = held \cup {s} /\ have' = have + 1
  BY <1>4 DEF GetBuffer, SlotsOf, s
<1>6. /\ slot' \in [Slots -> [ba : Buffers \cup {NoBuffer}, mapped : BOOLEAN, ctx : Setups \cup {NoSetup}]]
      /\ slot'[s].ba = p /\ \A t \in Slots \ {s} : slot'[t] = slot[t]
      /\ Mapped' = Mapped \ {s} /\ SetUpForIt' /\ ShownAsAsked'
  BY <1>1, <1>5, SlotChanges
<1>7. Used' = Used \cup {s} /\ s \notin Used
  BY <1>2, <1>5, <1>6 DEF Used
<1>8. SlotsOf(p)' = SlotsOf(p) \cup {s} /\ s \notin SlotsOf(p)
  BY <1>2, <1>5, <1>6 DEF SlotsOf
<1>9. /\ Cardinality(Used') = Cardinality(Used) + 1
      /\ Cardinality(SlotsOf(p)') = Cardinality(SlotsOf(p)) + 1
  BY <1>3, <1>7, <1>8, SlotSets, FS_AddElement
<1>10. have' = Cardinality(Used)' /\ held' = Used' /\ (Mapped \subseteq Used)'
  BY <1>5, <1>6, <1>7, <1>9 DEF SlotsExact, VrfbInv
<1>11. \A r \in Buffers : Cardinality(SlotsOf(r))' = asks'[r] - gone'[r]
  <2> TAKE r \in Buffers
  <2>1. Cardinality(SlotsOf(r)) = asks[r] - gone[r] /\ Cardinality(SlotsOf(p)) = asks[p] - gone[p]
    BY DEF VrfbInv, SlotsExact
  <2>2. CASE r = p
    <3>1. asks[p] \in Int /\ gone[p] \in Int /\ asks'[p] = asks[p] + 1 /\ gone'[p] = gone[p]
      BY <1>1
    <3>2. Cardinality(SlotsOf(p)') = asks'[p] - gone'[p]
      BY <1>9, <2>1, <3>1
    <3> QED BY <2>2, <3>2
  <2>3. CASE r # p
    <3>1. SlotsOf(r)' = SlotsOf(r)
      BY <1>2, <1>5, <1>6, <2>3 DEF SlotsOf
    <3>2. asks'[r] = asks[r] /\ gone'[r] = gone[r]
      BY <1>1, <2>3
    <3> QED BY <2>1, <3>1, <3>2
  <2> QED BY <2>2, <2>3
<1>12. SlotsExact'
  BY <1>10, <1>11 DEF SlotsExact
<1>13. asks' \in [Buffers -> Nat] /\ gone' \in [Buffers -> Int]
  BY <1>1
<1> QED BY <1>6, <1>12, <1>13 DEF VrfbInv, VrfbTypes

(* A registration that is refused is one more that was asked for in vain.  *)
LEMMA GetRefusedInv ==
  ASSUME VrfbInv, NEW p \in Buffers, GetRefused(p)
  PROVE  VrfbInv'
<1>1. /\ asks \in [Buffers -> Nat] /\ gone \in [Buffers -> Int]
      /\ asks' = [asks EXCEPT ![p] = @ + 1] /\ gone' = [gone EXCEPT ![p] = @ + 1]
      /\ UNCHANGED <<shown, slot, held, have>>
  BY DEF VrfbInv, VrfbTypes, GetRefused, Asked
<1>2. \A r \in Buffers : Cardinality(SlotsOf(r)) = asks[r] - gone[r]
  BY DEF VrfbInv, SlotsExact
<1>3. \A r \in Buffers : asks'[r] - gone'[r] = asks[r] - gone[r]
  <2> TAKE r \in Buffers
  <2>1. asks[r] \in Int /\ gone[r] \in Int
    BY <1>1
  <2>2. CASE r = p
    <3>1. asks'[r] = asks[r] + 1 /\ gone'[r] = gone[r] + 1
      BY <1>1, <2>2
    <3> QED BY <2>1, <3>1
  <2>3. CASE r # p
    BY <1>1, <2>3
  <2> QED BY <2>2, <2>3
<1>4. \A r \in Buffers : Cardinality(SlotsOf(r))' = asks'[r] - gone'[r]
  <2> TAKE r \in Buffers
  <2>1. SlotsOf(r)' = SlotsOf(r)
    BY <1>1 DEF SlotsOf
  <2> QED BY <1>2, <1>3, <2>1
<1>5. SlotsExact'
  BY <1>1, <1>4 DEF VrfbInv, SlotsExact, Used, Mapped
<1>6. SetUpForIt' /\ ShownAsAsked'
  BY <1>1 DEF VrfbInv, SetUpForIt, ShownAsAsked, Mapped
<1>7. asks' \in [Buffers -> Nat] /\ gone' \in [Buffers -> Int]
  BY <1>1
<1> QED BY <1>1, <1>5, <1>6, <1>7 DEF VrfbInv, VrfbTypes

(* The hardware has no context left: no slot is used any more. *)
LEMMA GetFailsInv ==
  ASSUME VrfbInv, NEW p \in Buffers, GetFails(p)
  PROVE  VrfbInv'
<1>1. /\ asks \in [Buffers -> Nat] /\ gone \in [Buffers -> Int]
      /\ asks' = [asks EXCEPT ![p] = @ + 1] /\ gone' = [q \in Buffers |-> asks'[q]]
      /\ held' = held \ Used /\ have' = have - Cardinality(Used) /\ UNCHANGED shown
      /\ slot' = [s \in Slots |-> [slot[s] EXCEPT !.ba = NoBuffer, !.mapped = FALSE]]
  BY DEF VrfbInv, VrfbTypes, GetFails, Asked, Used
<1>2. /\ \A s \in Slots : slot'[s].ba = NoBuffer /\ slot'[s].mapped = FALSE
      /\ slot' \in [Slots -> [ba : Buffers \cup {NoBuffer}, mapped : BOOLEAN, ctx : Setups \cup {NoSetup}]]
  BY <1>1 DEF VrfbInv, VrfbTypes
<1>3. Used' = {} /\ Mapped' = {} /\ \A r \in Buffers : SlotsOf(r)' = {}
  BY <1>2, VrfbAssumption DEF Used, Mapped, SlotsOf, NoBuffer
<1>4. have = Cardinality(Used) /\ held = Used /\ Cardinality(Used) \in Nat
  BY SlotSets DEF VrfbInv, SlotsExact
<1>5. have' = 0
  <2>1. have' = have - Cardinality(Used)
    BY <1>1
  <2> QED BY <1>4, <2>1
<1>6. held' = {}
  BY <1>1, <1>4
<1>7. asks' \in [Buffers -> Nat] /\ gone' = [q \in Buffers |-> asks'[q]]
  <2>1. asks \in [Buffers -> Nat] /\ asks' = [asks EXCEPT ![p] = @ + 1]
    BY <1>1
  <2>2. asks' \in [Buffers -> Nat]
    BY <2>1
  <2>3. gone' = [q \in Buffers |-> asks'[q]]
    BY <1>1
  <2> QED BY <2>2, <2>3
<1>8. gone' \in [Buffers -> Int] /\ \A r \in Buffers : asks'[r] - gone'[r] = 0
  <2>1. \A r \in Buffers : asks'[r] \in Int /\ gone'[r] = asks'[r]
    <3>1. \A r \in Buffers : asks'[r] \in Nat
      BY <1>7
    <3>2. \A r \in Buffers : gone'[r] = asks'[r]
      BY <1>7
    <3> QED BY <3>1, <3>2
  <2>2. gone' \in [Buffers -> Int]
    BY <1>7, <2>1
  <2>3. \A r \in Buffers : asks'[r] - gone'[r] = 0
    BY <2>1
  <2> QED BY <2>2, <2>3
<1>9. SlotsExact'
  <2>1. \A r \in Buffers : Cardinality(SlotsOf(r))' = asks'[r] - gone'[r]
    BY <1>3, <1>8, FS_EmptySet
  <2> QED BY <1>3, <1>5, <1>6, <2>1, FS_EmptySet DEF SlotsExact
<1>10. SetUpForIt' /\ ShownAsAsked'
  BY <1>1, <1>3 DEF SetUpForIt, ShownAsAsked
<1> QED BY <1>2, <1>7, <1>8, <1>9, <1>10 DEF VrfbInv, VrfbTypes

(* A context that check_vrfb_params lets stand is the one asked for, unless *)
(* the crop has become twice as wide.                                       *)
LEMMA ReuseFits ==
  ASSUME NEW p \in Buffers, NEW mode \in Modes, NEW w \in Nat, NEW h \in Nat,
         NEW ctx \in Setups, ctx.of = p, ~Differs(ctx, mode, w, h)
  PROVE  ctx = Setup(p, mode, w, h) \/ TwiceAsWide(ctx, Setup(p, mode, w, h))
<1>1. PICK m \in Modes, v \in Nat, g \in Nat : ctx = Setup(p, m, v, g)
  BY DEF Setups, Setup
<1>2. IsYuv(m) = IsYuv(mode) /\ ctx.xres * 2 = w /\ g = h
  BY <1>1 DEF Differs, Setup, IsYuv
<1>3. CASE IsYuv(mode)
  <2>1. Bpp(m) = 2 /\ Bpp(mode) = 2
    BY <1>2, <1>3 DEF IsYuv, Bpp, BitsPerPixel
  <2>2. (v \div 2) * 2 = w
    BY <1>1, <1>2, <1>3 DEF Setup
  <2>3. v \div 2 \in Int
    OBVIOUS
  <2>4. w \div 2 = v \div 2
    BY <2>2, <2>3
  <2>5. ctx = [xres |-> v \div 2, yres |-> h, bpp |-> 2 * 2, yuv |-> TRUE, of |-> p]
    BY <1>1, <1>2, <1>3, <2>1 DEF Setup
  <2>6. Setup(p, mode, w, h) = [xres |-> w \div 2, yres |-> h, bpp |-> 2 * 2, yuv |-> TRUE, of |-> p]
    BY <1>3, <2>1 DEF Setup
  <2> QED BY <2>4, <2>5, <2>6
<1>4. CASE ~IsYuv(mode)
  <2>1. /\ ctx.xres = v /\ ctx.yres = h /\ ctx.yuv = FALSE
        /\ Setup(p, mode, w, h).xres = w /\ Setup(p, mode, w, h).yres = h
        /\ Setup(p, mode, w, h).yuv = FALSE /\ Setup(p, mode, w, h).of = p
    BY <1>1, <1>2, <1>4 DEF Setup
  <2>2. 2 * v = w
    BY <1>2, <2>1
  <2> QED BY <2>1, <2>2 DEF TwiceAsWide
<1> QED BY <1>3, <1>4

(* A setup keeps the table's registrations and fits the buffer's slot.     *)
LEMMA SetupBufferInv ==
  ASSUME VrfbInv, NEW p \in Buffers, NEW mode \in Modes, NEW w \in Nat, NEW h \in Nat,
         SetupBuffer(p, mode, w, h)
  PROVE  VrfbInv'
<1>1. /\ VrfbTypes /\ SlotsExact /\ SetUpForIt
      /\ UNCHANGED <<have, held, asks, gone>>
  BY DEF VrfbInv, SetupBuffer
<1>2. p # NoBuffer
  BY VrfbAssumption DEF NoBuffer
<1>3. CASE SlotsOf(p) = {}
  <2>1. shown' = Nothing /\ UNCHANGED slot
    BY <1>3 DEF SetupBuffer
  <2> QED BY <1>1, <2>1 DEF VrfbInv, VrfbTypes, SlotsExact, SetUpForIt, ShownAsAsked, Used, Mapped, SlotsOf
<1>4. CASE SlotsOf(p) # {}
  <2> DEFINE s == First(SlotsOf(p))
             reuse == slot[s].mapped /\ ~Differs(slot[s].ctx, mode, w, h)
             ctx == IF reuse THEN slot[s].ctx ELSE Setup(p, mode, w, h)
  <2>1. /\ slot' = [slot EXCEPT ![s] = [@ EXCEPT !.mapped = TRUE, !.ctx = ctx]]
        /\ shown' = [ba |-> p, slot |-> s, want |-> Setup(p, mode, w, h)]
    BY <1>4 DEF SetupBuffer
  <2>2. s \in SlotsOf(p)
    BY <1>1, <1>4, SlotSets, LeastNat
  <2> HIDE DEF s
  <2>3. s \in Slots /\ slot[s].ba = p
    BY <2>2 DEF SlotsOf
  <2>4. Setup(p, mode, w, h) \in Setups /\ Setup(p, mode, w, h).of = p
    BY DEF Setups, Setup
  <2>5. reuse => slot[s].ctx \in Setups /\ slot[s].ctx.of = p
    BY <1>1, <2>3 DEF SetUpForIt, Mapped
  <2>6. ctx = Setup(p, mode, w, h) \/ TwiceAsWide(ctx, Setup(p, mode, w, h))
    BY <2>5, ReuseFits
  <2>7. ctx \in Setups /\ ctx.of = p
    BY <2>4, <2>5
  <2> HIDE DEF ctx
  <2>8. /\ slot' \in [Slots -> [ba : Buffers \cup {NoBuffer}, mapped : BOOLEAN, ctx : Setups \cup {NoSetup}]]
        /\ slot'[s].ba = p /\ slot'[s].mapped = TRUE /\ slot'[s].ctx = ctx
        /\ \A t \in Slots \ {s} : slot'[t] = slot[t]
    BY <1>1, <2>1, <2>3, <2>7 DEF VrfbTypes
  <2>9. \A t \in Slots : slot'[t].ba = slot[t].ba
    BY <2>3, <2>8
  <2>10. Used' = Used /\ Mapped' = Mapped \cup {s} /\ s \in Used
    BY <1>2, <2>3, <2>8, <2>9 DEF Used, Mapped
  <2>11. \A r \in Buffers : Cardinality(SlotsOf(r))' = asks'[r] - gone'[r]
    <3> TAKE r \in Buffers
    <3>1. SlotsOf(r)' = SlotsOf(r)
      BY <2>9 DEF SlotsOf
    <3>2. asks' = asks /\ gone' = gone
      BY <1>1
    <3>3. Cardinality(SlotsOf(r)) = asks[r] - gone[r]
      BY <1>1 DEF SlotsExact
    <3> QED BY <3>1, <3>2, <3>3
  <2>12. SlotsExact'
    BY <1>1, <2>10, <2>11 DEF SlotsExact
  <2>13. SetUpForIt'
    <3> SUFFICES ASSUME NEW t \in Mapped' PROVE slot'[t].ctx \in Setups /\ slot'[t].ctx.of = slot'[t].ba
      BY DEF SetUpForIt
    <3>1. CASE t = s
      BY <2>7, <2>8, <3>1
    <3>2. CASE t # s
      BY <1>1, <2>8, <2>10, <3>2 DEF SetUpForIt, Mapped
    <3> QED BY <3>1, <3>2
  <2>14. ShownAsAsked'
    BY <2>1, <2>6, <2>8 DEF ShownAsAsked
  <2> QED BY <1>1, <2>8, <2>12, <2>13, <2>14 DEF VrfbInv, VrfbTypes
<1> QED BY <1>3, <1>4

(* The table's invariant holds in every state of OmapIon.                  *)
LEMMA VrfbInvariance == Spec => []VrfbInv
<1>1. Init => VrfbInv
  BY VrfbInitInv DEF Init
<1>2. VrfbInv /\ [Next]_vars => VrfbInv'
  <2> SUFFICES ASSUME VrfbInv, [Next]_vars PROVE VrfbInv'
    OBVIOUS
  <2>1. CASE UNCHANGED vrfbVars
    BY <2>1 DEF vrfbVars, VrfbInv, VrfbTypes, SlotsExact, SetUpForIt, ShownAsAsked, Used, Mapped, SlotsOf
  <2>2. CASE VrfbNext
    <3>1. ASSUME NEW p \in Buffers, FreeBuffer(p) PROVE VrfbInv'
      BY <3>1, FreeBufferInv
    <3>2. ASSUME NEW p \in Buffers, GetBuffer(p) PROVE VrfbInv'
      BY <3>2, GetBufferInv
    <3>3. ASSUME NEW p \in Buffers, GetRefused(p) PROVE VrfbInv'
      BY <3>3, GetRefusedInv
    <3>4. ASSUME NEW p \in Buffers, GetFails(p) PROVE VrfbInv'
      BY <3>4, GetFailsInv
    <3>5. ASSUME NEW p \in Buffers, NEW mode \in Modes, NEW crop \in Crops,
                 SetupBuffer(p, mode, crop[1], crop[2])
          PROVE VrfbInv'
      <4>1. crop[1] \in Nat /\ crop[2] \in Nat
        BY VrfbAssumption
      <4> QED BY <3>5, <4>1, SetupBufferInv
    <3> QED BY <2>2, <3>1, <3>2, <3>3, <3>4, <3>5 DEF VrfbNext
  <2> QED BY <2>1, <2>2 DEF Next, vars
<1> QED BY <1>1, <1>2, PTL DEF Spec

(* The VRFB table agrees with the hardware and with every registration, and *)
(* what a driver is told to show is what it asked to show, up to the        *)
(* doubled width: omap_ion_alloc.c.                                         *)
THEOREM VrfbTableSound == Spec => []VrfbSound
<1>1. VrfbInv => VrfbSound
  BY DEF VrfbInv, VrfbSound
<1> QED BY <1>1, VrfbInvariance, PTL

-----------------------------------------------------------------------------
(* The heaps and the calls.  The tree holds the heaps made so far, newest   *)
(* first; one that is gone although it is in the tree was freed by a failed *)
(* probe.                                                                   *)
LoadInv ==
  /\ board \in Boards
  /\ probe \in {"no", "runs", "done", "removed", "died"}
  /\ heap \in [Indices -> {"none", "made", "freed", "leaked"}]
  /\ trial \in Seq(Nat) /\ Len(trial) <= Len(Data)
  /\ \A k \in DOMAIN trial : trial[k] = Len(trial) + 1 - k
  /\ probe = "no" => trial = <<>> /\ \A i \in Indices : heap[i] = "none"
  /\ probe = "runs" => Len(trial) < Len(Data)
                       /\ \A i \in Indices : i > Making => heap[i] = "none"
  /\ probe = "removed" => trial = <<>>
  /\ \A i \in Indices : InTree(i) /\ Dangling(i) => probe = "died" /\ heap[i] = "freed"

Pcs == {"idle", "area", "lump", "pages", "pin", "handle", "fill", "unpin", "undo",
        "unpages", "nomem"}
WithArea == {"lump", "pages", "pin", "handle", "fill", "unpin", "undo"}
AllPages == Nat \X Nat
Infos == [area : Areas \cup {0}, pages : Seq(AllPages), lump : BOOLEAN]
Calls == [pc : Pcs, on : Nat, n : Nat, info : Infos, buf : BufferIds \cup {0}]
Bufs == [client : Clients \cup {"none"}, on : Nat, pages : Seq(AllPages), info : Infos,
         maps : SUBSET {"dma", "kernel"}]

(* What ion_alloc made for a call that has not filled it in yet.            *)
HandleOf(c) == [NoBuf EXCEPT !.client = c, !.on = 2]

(* How far a call has come decides what it owns: its block from the lump    *)
(* to the clean-up, no pages before the lump and after the clean-up.        *)
CallOK(c, r) ==
  /\ r.pc = "idle" => r = NoCall
  /\ r.pc # "idle" => board = "omap4" /\ r.on = 2 /\ PagesOf(r.info.pages) \subseteq Pool(2)
  /\ r.pc \in WithArea => r.info.area \in Areas
  /\ r.pc \notin WithArea => r.info.area = 0
  /\ r.pc \in {"area", "lump", "nomem"} => r.info.pages = <<>>
  /\ r.pc = "fill" => r.buf \in BufferIds /\ buffer[r.buf] = HandleOf(c)
  /\ r.pc # "fill" => r.buf = 0

(* A buffer's heap is in the tree; a tiler buffer has its block unless its  *)
(* call is about to fill it in.                                             *)
TilerBufOK(b, r) ==
  /\ board = "omap4" /\ r.on = 2 /\ r.pages = <<>> /\ r.maps = {}
  /\ r.info.area \in Areas \/ (call[r.client].pc = "fill" /\ call[r.client].buf = b)

BufOK(b, r) ==
  \/ r = NoBuf
  \/ /\ r.client \in Clients /\ InTree(r.on)
     /\ PagesOf(r.pages) \subseteq Pool(r.on) /\ PagesOf(r.info.pages) \subseteq Pool(r.on)
     /\ TypeOf(r.on) = Tiler => TilerBufOK(b, r)
     /\ TypeOf(r.on) # Tiler => r.info = NoInfo

CallsInv == call \in [Clients -> Calls] /\ \A c \in Clients : CallOK(c, call[c])
BufsInv == buffer \in [BufferIds -> Bufs] /\ \A b \in BufferIds : BufOK(b, buffer[b])

(* Who owns which page and which block, as functions.                       *)
owes == [c \in Clients |-> PagesOf(call[c].info.pages)]
holds == [b \in BufferIds |-> Holds(b)]
pcs == [c \in Clients |-> call[c].pc]
careas == [c \in Clients |-> call[c].info.area]
bareas == [b \in BufferIds |-> buffer[b].info.area]

PageLedger(h, o, t) ==
  /\ \A b, d \in BufferIds : b # d => h[b] \cap h[d] = {}
  /\ \A c, d \in Clients : c # d => o[c] \cap o[d] = {}
  /\ \A b \in BufferIds, c \in Clients : h[b] \cap o[c] = {}
  /\ \A p : p \in t <=> (\E b \in BufferIds : p \in h[b]) \/ (\E c \in Clients : p \in o[c])

PinnedAt == {"handle", "fill", "unpin"}
AreaLedger(ba, ca, pc, ar) ==
  /\ \A b, d \in BufferIds : b # d /\ ba[b] \in Areas => ba[b] # ba[d]
  /\ \A c, d \in Clients : c # d /\ ca[c] \in Areas => ca[c] # ca[d]
  /\ \A b \in BufferIds, c \in Clients : ba[b] \in Areas => ba[b] # ca[c]
  /\ \A a \in Areas :
      /\ ar[a] \in {"free", "reserved", "pinned"}
      /\ ar[a] # "free" <=> (\E b \in BufferIds : ba[b] = a) \/ (\E c \in Clients : ca[c] = a)
      /\ ar[a] = "pinned" <=> \/ \E b \in BufferIds : ba[b] = a
                              \/ \E c \in Clients : ca[c] = a /\ pc[c] \in PinnedAt

Busy == {c \in Clients : call[c].pc # "idle"}
Filled == {b \in BufferIds : buffer[b].info # NoInfo}
DmaMapped == {b \in BufferIds : "dma" \in buffer[b].maps}
Remapped == {b \in BufferIds : ~Free(b) /\ TypeOf(buffer[b].on) = Carveout
                               /\ "kernel" \in buffer[b].maps}
Counts ==
  /\ infos = Cardinality(Busy) + Cardinality(Filled)
  /\ sglists = Cardinality(DmaMapped)
  /\ iomaps = Cardinality(Remapped)

HeapsInv ==
  /\ LoadInv /\ CallsInv /\ BufsInv
  /\ PageLedger(holds, owes, taken)
  /\ area \in [Areas -> {"free", "reserved", "pinned"}]
  /\ AreaLedger(bareas, careas, pcs, area)
  /\ Counts
  /\ oops \subseteq {"client", "remove"}

(* The boards, and the heaps on them. *)
LEMMA BoardFacts ==
  ASSUME board \in Boards
  PROVE  /\ board \in {"omap3", "omap4", "tegra"}
         /\ Indices = 1 .. Len(Data) /\ Len(Data) \in 1 .. 3
         /\ \A i \in Indices : TypeOf(i) \in {Carveout, Tiler, System, Contig} /\ Data[i].id \in 0 .. 3
         /\ board = "omap4" => /\ Len(Data) = 3
                               /\ TypeOf(1) = Carveout /\ TypeOf(2) = Tiler /\ TypeOf(3) = Tiler
                               /\ Data[1].id = SecureInput /\ Data[2].id = TilerId
                               /\ Data[3].id = NonsecureTiler
         /\ board = "omap3" => Len(Data) = 1 /\ TypeOf(1) = Carveout /\ Data[1].id = SecureInput
         /\ board = "tegra" => Len(Data) = 2 /\ TypeOf(1) = System /\ TypeOf(2) = Contig
<1> USE DEF Indices, Data, TypeOf, HeapsOf
<1>1. board \in {"omap3", "omap4", "tegra"}
  BY OmapIonAssumption
<1>2. CASE board = "omap4"
  BY <1>2 DEF Carveout, Tiler, SecureInput, TilerId, NonsecureTiler
<1>3. CASE board = "omap3"
  BY <1>3 DEF Carveout, SecureInput
<1>4. CASE board = "tegra"
  BY <1>4 DEF System, Contig, LargeSurfaces, TilerId
<1> QED BY <1>1, <1>2, <1>3, <1>4

(* A carveout or tiler heap has its pool, the others have none. *)
LEMMA PoolFacts ==
  ASSUME board \in Boards, NEW i \in Indices
  PROVE  /\ Pool(i) \subseteq AllPages
         /\ HasPool(i) => HeapSize[Data[i].id] \in Nat
         /\ ~HasPool(i) => Pool(i) = {}
<1>1. HasPool(i) => HeapSize[Data[i].id] \in Nat
  BY BoardFacts, OmapIonAssumption DEF HasPool, Carveout, Tiler, System, Contig
<1>2. Pool(i) \subseteq AllPages
  BY <1>1, BoardFacts DEF Pool, Page, AllPages
<1> QED BY <1>1, <1>2 DEF Pool

(* An extent is of as many pages as asked for, all of the pool and none of *)
(* them taken.                                                             *)
LEMMA ExtentFacts ==
  ASSUME board \in Boards, NEW i \in Indices, HasPool(i), NEW n \in Nat, NEW e \in Extents(i, n)
  PROVE  /\ e \in Seq(AllPages)
         /\ PagesOf(e) \subseteq Pool(i)
         /\ PagesOf(e) \cap taken = {}
<1> DEFINE size == HeapSize[Data[i].id]
<1>1. size \in Nat
  BY PoolFacts
<1>2. PICK s \in 0 .. size - n : e = [k \in 1 .. n |-> Page(i, s + k)]
  BY DEF Extents
<1> HIDE DEF size
<1>3. \A k \in 1 .. n : e[k] = Page(i, s + k) /\ s + k \in 1 .. size
  BY <1>1, <1>2
<1>4. Pool(i) = {Page(i, k) : k \in 1 .. size}
  BY DEF Pool, size
<1>5. \A k \in 1 .. n : e[k] \in Pool(i)
  BY <1>3, <1>4
<1>6. e \in [1 .. n -> AllPages]
  BY <1>2, <1>5, PoolFacts
<1>7. e \in Seq(AllPages)
  BY <1>6
<1>8. PagesOf(e) \subseteq Pool(i)
  BY <1>5, <1>6 DEF PagesOf
<1>9. PagesOf(e) \cap taken = {}
  BY <1>6 DEF PagesOf, Extents
<1> QED BY <1>7, <1>8, <1>9

(* The pages of no sequence, of two in a row, and of one without its last. *)
LEMMA PagesOfFacts ==
  /\ PagesOf(<<>>) = {}
  /\ \A s, e \in Seq(AllPages) : s \o e \in Seq(AllPages) /\ PagesOf(s \o e) = PagesOf(s) \cup PagesOf(e)
  /\ \A s \in Seq(AllPages) : Len(s) > 1 => LET r == SubSeq(s, 1, Len(s) - 1) IN
        /\ r \in Seq(AllPages) /\ r # <<>> /\ PagesOf(r) \subseteq PagesOf(s)
<1>1. PagesOf(<<>>) = {}
  BY DEF PagesOf
<1>2. ASSUME NEW s \in Seq(AllPages), NEW e \in Seq(AllPages)
      PROVE  s \o e \in Seq(AllPages) /\ PagesOf(s \o e) = PagesOf(s) \cup PagesOf(e)
  <2>1. /\ s \o e \in Seq(AllPages) /\ Len(s \o e) = Len(s) + Len(e)
        /\ Len(s) \in Nat /\ Len(e) \in Nat
        /\ \A k \in 1 .. Len(s) + Len(e) :
             (s \o e)[k] = IF k <= Len(s) THEN s[k] ELSE e[k - Len(s)]
    BY ConcatProperties, LenProperties
  <2>2. ASSUME NEW x, x \in PagesOf(s) \cup PagesOf(e) PROVE x \in PagesOf(s \o e)
    <3>1. CASE x \in PagesOf(s)
      <4>1. PICK k \in 1 .. Len(s) : x = s[k]
        BY <3>1, LenProperties DEF PagesOf
      <4>2. k \in 1 .. Len(s) + Len(e) /\ (s \o e)[k] = x
        BY <2>1, <4>1
      <4> QED BY <2>1, <4>2, LenProperties DEF PagesOf
    <3>2. CASE x \in PagesOf(e)
      <4>1. PICK k \in 1 .. Len(e) : x = e[k]
        BY <3>2, LenProperties DEF PagesOf
      <4>2. k + Len(s) \in 1 .. Len(s) + Len(e) /\ (s \o e)[k + Len(s)] = x
        BY <2>1, <4>1
      <4> QED BY <2>1, <4>2, LenProperties DEF PagesOf
    <3> QED BY <2>2, <3>1, <3>2
  <2>3. ASSUME NEW x, x \in PagesOf(s \o e) PROVE x \in PagesOf(s) \cup PagesOf(e)
    <3>1. PICK k \in 1 .. Len(s) + Len(e) : x = (s \o e)[k]
      BY <2>1, <2>3, LenProperties DEF PagesOf
    <3>2. CASE k <= Len(s)
      <4>1. k \in 1 .. Len(s) /\ x = s[k]
        BY <2>1, <3>1, <3>2
      <4> QED BY <4>1, LenProperties DEF PagesOf
    <3>3. CASE ~(k <= Len(s))
      <4>1. k - Len(s) \in 1 .. Len(e) /\ x = e[k - Len(s)]
        BY <2>1, <3>1, <3>3
      <4> QED BY <4>1, LenProperties DEF PagesOf
    <3> QED BY <3>2, <3>3
  <2> QED BY <2>1, <2>2, <2>3
<1>3. ASSUME NEW s \in Seq(AllPages), Len(s) > 1, NEW r, r = SubSeq(s, 1, Len(s) - 1)
      PROVE  r \in Seq(AllPages) /\ r # <<>> /\ PagesOf(r) \subseteq PagesOf(s)
  <2>1. Len(s) \in Nat /\ Len(s) - 1 \in 1 .. Len(s)
    BY <1>3, LenProperties
  <2>2. /\ r \in Seq(AllPages) /\ Len(r) = Len(s) - 1
        /\ \A k \in 1 .. Len(s) - 1 : r[k] = s[k]
    <3> DEFINE n == Len(s) - 1
    <3>1. n \in Int /\ 1 <= n /\ 1 \in Int /\ n - 1 + 1 = n
      BY <2>1
    <3>2. \A k \in 1 .. n : s[k] \in AllPages
      BY <2>1, ElementOfSeq
    <3> HIDE DEF n
    <3>3. /\ SubSeq(s, 1, n) \in Seq(AllPages) /\ Len(SubSeq(s, 1, n)) = n - 1 + 1
          /\ \A k \in 1 .. n - 1 + 1 : SubSeq(s, 1, n)[k] = s[1 + k - 1]
      BY <3>1, <3>2, SubSeqProperties
    <3>4. \A k \in 1 .. n : SubSeq(s, 1, n)[k] = s[k]
      <4> TAKE k \in 1 .. n
      <4>1. k \in 1 .. n - 1 + 1 /\ 1 + k - 1 = k
        BY <3>1
      <4> QED BY <3>3, <4>1
    <3>5. Len(SubSeq(s, 1, n)) = n
      BY <3>1, <3>3
    <3> QED BY <1>3, <3>3, <3>4, <3>5 DEF n
  <2>3. r # <<>>
    <3>1. Len(r) # 0
      BY <2>1, <2>2
    <3>2. Len(<<>>) = 0
      OBVIOUS
    <3> QED BY <3>1, <3>2
  <2>4. PagesOf(r) \subseteq PagesOf(s)
    BY <2>1, <2>2, LenProperties DEF PagesOf
  <2> QED BY <2>2, <2>3, <2>4
<1> QED BY <1>1, <1>2, <1>3

-----------------------------------------------------------------------------
(* The ledgers: what the books say after pages or a block change hands.    *)

(* The same for the blocks.  A call without a block reserves a free one;   *)
LEMMA BlockReserved ==
  ASSUME NEW ba, NEW ca, NEW pc, NEW ar, NEW ca2, NEW pc2, NEW ar2, NEW c \in Clients, NEW a \in Areas,
         AreaLedger(ba, ca, pc, ar), ar[a] = "free", ca[c] = 0,
         \A d \in Clients : d # c => ca2[d] = ca[d] /\ pc2[d] = pc[d],
         \A x \in Areas : x # a => ar2[x] = ar[x],
         ca2[c] = a, pc2[c] \notin PinnedAt, ar2[a] = "reserved"
  PROVE  AreaLedger(ba, ca2, pc2, ar2)
BY OmapIonAssumption DEF AreaLedger

(* pins and unpins it;                                                     *)
LEMMA BlockPinned ==
  ASSUME NEW ba, NEW ca, NEW pc, NEW ar, NEW pc2, NEW ar2, NEW c \in Clients,
         AreaLedger(ba, ca, pc, ar), ca[c] \in Areas,
         \A d \in Clients : d # c => pc2[d] = pc[d],
         \A x \in Areas : x # ca[c] => ar2[x] = ar[x],
         ar2[ca[c]] = IF pc2[c] \in PinnedAt THEN "pinned" ELSE "reserved"
  PROVE  AreaLedger(ba, ca, pc2, ar2)
BY DEF AreaLedger

(* frees it;                                                               *)
LEMMA BlockFreed ==
  ASSUME NEW ba, NEW ca, NEW pc, NEW ar, NEW ca2, NEW pc2, NEW ar2, NEW c \in Clients,
         AreaLedger(ba, ca, pc, ar), ca[c] \in Areas,
         \A d \in Clients : d # c => ca2[d] = ca[d] /\ pc2[d] = pc[d],
         \A x \in Areas : x # ca[c] => ar2[x] = ar[x],
         ca2[c] = 0, ar2[ca[c]] = "free"
  PROVE  AreaLedger(ba, ca2, pc2, ar2)
BY OmapIonAssumption DEF AreaLedger

(* A call that neither pins nor unpins may go on.                          *)
LEMMA BlocksSame ==
  ASSUME NEW ba, NEW ca, NEW pc, NEW ar, NEW pc2, NEW c \in Clients,
         AreaLedger(ba, ca, pc, ar),
         \A d \in Clients : d # c => pc2[d] = pc[d],
         ca[c] \notin Areas \/ (pc2[c] \in PinnedAt <=> pc[c] \in PinnedAt)
  PROVE  AreaLedger(ba, ca, pc2, ar)
BY DEF AreaLedger

-----------------------------------------------------------------------------
(* What a change of one call, or of one buffer, does to the books.         *)
LEMMA CallChanges ==
  ASSUME CallsInv, NEW c \in Clients, NEW r \in Calls, call' = [call EXCEPT ![c] = r]
  PROVE  /\ call' \in [Clients -> Calls] /\ call'[c] = r
         /\ \A d \in Clients : d # c => call'[d] = call[d]
         /\ owes[c] = PagesOf(call[c].info.pages) /\ owes'[c] = PagesOf(r.info.pages)
         /\ \A d \in Clients : d # c => owes'[d] = owes[d]
         /\ careas[c] = call[c].info.area /\ careas'[c] = r.info.area
         /\ pcs[c] = call[c].pc /\ pcs'[c] = r.pc
         /\ \A d \in Clients : d # c => careas'[d] = careas[d] /\ pcs'[d] = pcs[d]
<1>1. /\ call' \in [Clients -> Calls] /\ call'[c] = r
      /\ \A d \in Clients : d # c => call'[d] = call[d]
  BY DEF CallsInv
<1>2. /\ owes[c] = PagesOf(call[c].info.pages) /\ owes'[c] = PagesOf(r.info.pages)
      /\ \A d \in Clients : d # c => owes'[d] = owes[d]
  BY <1>1 DEF owes, PagesOf
<1>3. /\ careas[c] = call[c].info.area /\ careas'[c] = r.info.area
      /\ \A d \in Clients : d # c => careas'[d] = careas[d]
  BY <1>1 DEF careas
<1>4. /\ pcs[c] = call[c].pc /\ pcs'[c] = r.pc
      /\ \A d \in Clients : d # c => pcs'[d] = pcs[d]
  BY <1>1 DEF pcs
<1> QED BY <1>1, <1>2, <1>3, <1>4

(* The same of one buffer.                                                  *)
LEMMA BufChanges ==
  ASSUME BufsInv, NEW b \in BufferIds, NEW r \in Bufs, buffer' = [buffer EXCEPT ![b] = r]
  PROVE  /\ buffer' \in [BufferIds -> Bufs] /\ buffer'[b] = r
         /\ \A d \in BufferIds : d # b => buffer'[d] = buffer[d]
         /\ holds[b] = PagesOf(buffer[b].pages) \cup PagesOf(buffer[b].info.pages)
         /\ holds'[b] = PagesOf(r.pages) \cup PagesOf(r.info.pages)
         /\ \A d \in BufferIds : d # b => holds'[d] = holds[d]
         /\ bareas[b] = buffer[b].info.area /\ bareas'[b] = r.info.area
         /\ \A d \in BufferIds : d # b => bareas'[d] = bareas[d]
<1>1. /\ buffer' \in [BufferIds -> Bufs] /\ buffer'[b] = r
      /\ \A d \in BufferIds : d # b => buffer'[d] = buffer[d]
  BY DEF BufsInv
<1>2. /\ holds[b] = PagesOf(buffer[b].pages) \cup PagesOf(buffer[b].info.pages)
      /\ holds'[b] = PagesOf(r.pages) \cup PagesOf(r.info.pages)
      /\ \A d \in BufferIds : d # b => holds'[d] = holds[d]
  BY <1>1 DEF holds, Holds, PagesOf
<1>3. /\ bareas[b] = buffer[b].info.area /\ bareas'[b] = r.info.area
      /\ \A d \in BufferIds : d # b => bareas'[d] = bareas[d]
  BY <1>1 DEF bareas
<1> QED BY <1>1, <1>2, <1>3

(* The number of calls under way, with one more and one less.               *)
LEMMA BusyFacts ==
  ASSUME CallsInv, NEW c \in Clients
  PROVE  /\ IsFiniteSet(Busy) /\ Cardinality(Busy) \in Nat
         /\ Cardinality(Busy \cup {c}) = IF call[c].pc = "idle" THEN Cardinality(Busy) + 1 ELSE Cardinality(Busy)
         /\ Cardinality(Busy \ {c}) = IF call[c].pc = "idle" THEN Cardinality(Busy) ELSE Cardinality(Busy) - 1
<1>1. Busy \subseteq Clients /\ IsFiniteSet(Clients)
  BY OmapIonAssumption DEF Busy
<1>2. IsFiniteSet(Busy) /\ Cardinality(Busy) \in Nat
  BY <1>1, FS_Subset, FS_CardinalityType
<1>3. c \in Busy <=> call[c].pc # "idle"
  BY DEF Busy
<1>4. Cardinality(Busy \cup {c}) = IF c \in Busy THEN Cardinality(Busy) ELSE Cardinality(Busy) + 1
  BY <1>2, FS_AddElement
<1>5. Cardinality(Busy \ {c}) = IF c \in Busy THEN Cardinality(Busy) - 1 ELSE Cardinality(Busy)
  BY <1>2, FS_RemoveElement
<1> QED BY <1>2, <1>3, <1>4, <1>5

(* A set of buffers that gains or loses one.                               *)
LEMMA CountOne ==
  ASSUME NEW S, S \subseteq BufferIds, NEW b \in BufferIds
  PROVE  /\ Cardinality(S) \in Nat
         /\ b \notin S => Cardinality(S \cup {b}) = Cardinality(S) + 1
         /\ b \in S => Cardinality(S \ {b}) = Cardinality(S) - 1
<1>1. IsFiniteSet(S)
  BY FS_Subset, OmapIonAssumption
<1> QED BY <1>1, FS_CardinalityType, FS_AddElement, FS_RemoveElement

(* No info, no call and no buffer are of their types.                       *)
LEMMA NothingTyped ==
  /\ NoInfo \in Infos /\ NoCall \in Calls /\ NoBuf \in Bufs
  /\ NoCall.pc = "idle" /\ NoCall.info = NoInfo /\ NoCall.buf = 0
  /\ NoInfo.area = 0 /\ NoInfo.pages = <<>>
  /\ NoBuf.pages = <<>> /\ NoBuf.info = NoInfo /\ NoBuf.client = "none" /\ NoBuf.maps = {}
<1>1. <<>> \in Seq(AllPages)
  BY EmptySeq
<1>2. NoInfo \in Infos
  BY <1>1 DEF NoInfo, Infos
<1>3. NoCall \in Calls
  BY <1>2 DEF NoCall, Calls, Pcs
<1>4. NoBuf \in Bufs
  BY <1>1, <1>2 DEF NoBuf, Bufs
<1>5. /\ NoCall.pc = "idle" /\ NoCall.info = NoInfo /\ NoCall.buf = 0
      /\ NoInfo.area = 0 /\ NoInfo.pages = <<>>
  BY DEF NoCall, NoInfo
<1>6. NoBuf.pages = <<>> /\ NoBuf.info = NoInfo /\ NoBuf.client = "none" /\ NoBuf.maps = {}
  BY DEF NoBuf
<1> QED BY <1>2, <1>3, <1>4, <1>5, <1>6

(* What ion_alloc gives a call fits a buffer that is to be filled in.      *)
LEMMA HandleTyped ==
  ASSUME NEW c \in Clients
  PROVE  /\ HandleOf(c) \in Bufs /\ HandleOf(c) # NoBuf
         /\ HandleOf(c).client = c /\ HandleOf(c).on = 2 /\ HandleOf(c).maps = {}
         /\ HandleOf(c).pages = <<>> /\ HandleOf(c).info = NoInfo
<1>1. HandleOf(c) \in Bufs
  BY NothingTyped DEF HandleOf, Bufs
<1>2. /\ HandleOf(c).client = c /\ HandleOf(c).on = 2 /\ HandleOf(c).maps = {}
      /\ HandleOf(c).pages = <<>> /\ HandleOf(c).info = NoInfo
  BY NothingTyped DEF HandleOf, Bufs
<1>3. HandleOf(c) # NoBuf
  BY <1>2, NothingTyped, OmapIonAssumption
<1> QED BY <1>1, <1>2, <1>3

-----------------------------------------------------------------------------
(* The steps of a call.  Those that make or fill the buffer come after     *)
(* these.                                                                  *)
AreaTypes == [Areas -> {"free", "reserved", "pinned"}]

(* Loading goes by board, probe, heap and trial alone.                     *)
LEMMA LoadKept ==
  ASSUME LoadInv, UNCHANGED <<board, probe, heap, trial>>
  PROVE  LoadInv'
BY DEF LoadInv, Making, InTree, Dangling, Indices, Data

(* A step of one call keeps the invariant if it keeps its parts.            *)
LEMMA CallStep ==
  ASSUME HeapsInv, NEW c \in Clients, NEW r \in Calls, call' = [call EXCEPT ![c] = r],
         UNCHANGED <<board, probe, heap, trial, sglists, iomaps, buffer>>,
         oops' \subseteq {"client", "remove"},
         call[c].pc # "fill", r.pc # "fill", CallOK(c, r),
         PageLedger(holds, owes', taken'),
         area' \in AreaTypes, AreaLedger(bareas, careas', pcs', area'),
         \/ call[c].pc = "idle" /\ r.pc # "idle" /\ infos' = infos + 1
         \/ call[c].pc # "idle" /\ r.pc = "idle" /\ infos' = infos - 1
         \/ call[c].pc # "idle" /\ r.pc # "idle" /\ infos' = infos
  PROVE  HeapsInv'
<1>1. CallsInv /\ BufsInv /\ Counts /\ LoadInv
  BY DEF HeapsInv
<1>2. /\ call' \in [Clients -> Calls] /\ call'[c] = r
      /\ \A d \in Clients : d # c => call'[d] = call[d]
  BY <1>1, CallChanges
<1>3. LoadInv'
  BY <1>1, LoadKept
<1>4. CallsInv'
  <2>1. ASSUME NEW d \in Clients PROVE CallOK(d, call'[d])
    BY <1>1, <1>2 DEF CallsInv
  <2>2. ASSUME NEW d \in Clients PROVE CallOK(d, call[d])'
    BY <2>1 DEF CallOK, Pool, HasPool, TypeOf, Data
  <2> QED BY <1>2, <2>2 DEF CallsInv
<1>5. BufsInv'
  <2>1. ASSUME NEW b \in BufferIds PROVE BufOK(b, buffer[b])
    BY <1>1 DEF BufsInv
  <2>2. \A d \in Clients, b \in BufferIds :
           call[d].pc = "fill" /\ call[d].buf = b => call'[d].pc = "fill" /\ call'[d].buf = b
    BY <1>2
  <2>3. ASSUME NEW b \in BufferIds PROVE BufOK(b, buffer[b])'
    <3>1. ASSUME buffer[b].client \in Clients, TilerBufOK(b, buffer[b]) PROVE TilerBufOK(b, buffer[b])'
      BY <2>2, <3>1 DEF TilerBufOK
    <3>2. BufOK(b, buffer[b])
      BY <2>1
    <3> QED BY <3>1, <3>2 DEF BufOK, InTree, Pool, HasPool, TypeOf, Data
  <2> QED BY <1>1, <2>3 DEF BufsInv
<1>6. Counts'
  <2>1. Filled' = Filled /\ DmaMapped' = DmaMapped /\ Remapped' = Remapped
    BY DEF Filled, DmaMapped, Remapped, Free, TypeOf, Data
  <2>2. Busy' = IF r.pc = "idle" THEN Busy \ {c} ELSE Busy \cup {c}
    BY <1>2 DEF Busy
  <2>3. Cardinality(Filled) \in Nat
    BY CountOne, FS_Subset, FS_CardinalityType, OmapIonAssumption DEF Filled
  <2>4. infos = Cardinality(Busy) + Cardinality(Filled) /\ Cardinality(Busy) \in Nat
    BY <1>1, BusyFacts DEF Counts
  <2>5. infos' = Cardinality(Busy') + Cardinality(Filled)
    <3>1. CASE call[c].pc = "idle" /\ r.pc # "idle" /\ infos' = infos + 1
      <4>1. Cardinality(Busy') = Cardinality(Busy) + 1
        BY <1>1, <2>2, <3>1, BusyFacts
      <4> QED BY <2>3, <2>4, <3>1, <4>1
    <3>2. CASE call[c].pc # "idle" /\ r.pc = "idle" /\ infos' = infos - 1
      <4>1. Cardinality(Busy') = Cardinality(Busy) - 1
        BY <1>1, <2>2, <3>2, BusyFacts
      <4> QED BY <2>3, <2>4, <3>2, <4>1
    <3>3. CASE call[c].pc # "idle" /\ r.pc # "idle" /\ infos' = infos
      <4>1. Cardinality(Busy') = Cardinality(Busy)
        BY <1>1, <2>2, <3>3, BusyFacts
      <4> QED BY <2>3, <2>4, <3>3, <4>1
    <3> QED BY <3>1, <3>2, <3>3
  <2> QED BY <1>1, <2>1, <2>5 DEF Counts
<1>7. holds' = holds /\ bareas' = bareas
  BY DEF holds, Holds, bareas
<1> QED BY <1>3, <1>4, <1>5, <1>6, <1>7 DEF HeapsInv, AreaTypes

(* A step that only moves the call on, and pins or unpins its block.       *)
LEMMA CallMoves ==
  ASSUME HeapsInv, NEW c \in Clients, NEW pc2 \in Pcs \ {"idle", "fill"},
         call[c].pc \notin {"idle", "fill"}, Goto(c, pc2),
         UNCHANGED <<board, probe, heap, trial, sglists, iomaps, buffer, taken, infos>>,
         oops' \subseteq {"client", "remove"},
         call[c].pc \in WithArea <=> pc2 \in WithArea,
         pc2 \in {"area", "lump", "nomem"} => call[c].info.pages = <<>>,
         area' \in AreaTypes, AreaLedger(bareas, careas, pcs', area')
  PROVE  HeapsInv'
<1> DEFINE r == [call[c] EXCEPT !.pc = pc2]
<1>1. CallsInv /\ call[c] \in Calls /\ CallOK(c, call[c])
  BY DEF HeapsInv, CallsInv
<1>2. r \in Calls /\ r.pc = pc2 /\ r.on = call[c].on /\ r.info = call[c].info /\ r.buf = call[c].buf
  BY <1>1 DEF Calls
<1>3. call' = [call EXCEPT ![c] = r]
  BY <1>1 DEF Goto, CallsInv
<1> HIDE DEF r
<1>4. CallOK(c, r)
  BY <1>1, <1>2 DEF CallOK
<1>5. owes' = owes /\ careas' = careas
  BY <1>1, <1>2, <1>3, CallChanges DEF owes, careas
<1>6. PageLedger(holds, owes', taken')
  BY <1>5 DEF HeapsInv
<1> QED BY <1>2, <1>3, <1>4, <1>5, <1>6, CallStep

(* The frame of the steps of a call, as equations. *)
LEMMA CallFrame ==
  ASSUME HeapsInv, UNCHANGED <<Rest>>
  PROVE  /\ UNCHANGED <<board, probe, heap, trial, sglists, iomaps>>
         /\ CallsInv /\ BufsInv /\ PageLedger(holds, owes, taken) /\ area \in AreaTypes
         /\ AreaLedger(bareas, careas, pcs, area) /\ oops \subseteq {"client", "remove"}
BY DEF HeapsInv, Rest, AreaTypes

(* A call begins: it owns its info and nothing else.                        *)
LEMMA TilerAllocInv ==
  ASSUME HeapsInv, "nonsecure" \notin Faults, NEW c \in Clients, NEW i \in Indices, NEW n \in Lengths,
         TilerAlloc(c, i, n)
  PROVE  HeapsInv'
<1>1. /\ call[c] = NoCall /\ TypeOf(i) = Tiler /\ Data[i].id # NonsecureTiler
      /\ infos' = infos + 1
      /\ call' = [call EXCEPT ![c] = [NoCall EXCEPT !.pc = "area", !.on = i, !.n = n]]
      /\ UNCHANGED <<Rest, taken, area, buffer, oops>>
  BY DEF TilerAlloc
<1> DEFINE r == [NoCall EXCEPT !.pc = "area", !.on = i, !.n = n]
<1>2. board \in Boards
  BY DEF HeapsInv, LoadInv
<1>3. board = "omap4" /\ i = 2
  BY <1>1, <1>2, BoardFacts DEF Carveout, Tiler, System, Contig
<1>4. r \in Calls /\ r.pc = "area" /\ r.on = 2 /\ r.info = NoInfo /\ r.buf = 0
  <2>1. n \in Nat
    BY OmapIonAssumption DEF Lengths
  <2> QED BY <1>3, <2>1, NothingTyped DEF Calls, Pcs
<1> HIDE DEF r
<1>5. CallOK(c, r)
  BY <1>3, <1>4, NothingTyped, PagesOfFacts DEF CallOK, WithArea
<1>6. /\ call' = [call EXCEPT ![c] = r]
      /\ UNCHANGED <<board, probe, heap, trial, sglists, iomaps, buffer, taken, area, oops>>
      /\ CallsInv /\ PageLedger(holds, owes, taken) /\ area \in AreaTypes
      /\ AreaLedger(bareas, careas, pcs, area) /\ oops \subseteq {"client", "remove"}
  BY <1>1, CallFrame DEF r
<1>7. owes' = owes /\ careas' = careas
  BY <1>1, <1>4, <1>6, NothingTyped, CallChanges DEF owes, careas
<1>8. AreaLedger(bareas, careas', pcs', area')
  <2>1. careas[c] \notin Areas
    <3>1. call[c] = NoCall
      BY <1>1
    <3>2. careas[c] = 0
      BY <3>1, NothingTyped DEF careas
    <3> QED BY <3>2, OmapIonAssumption
  <2>2. \A d \in Clients : d # c => pcs'[d] = pcs[d]
    <3>1. CallsInv /\ r \in Calls /\ call' = [call EXCEPT ![c] = r]
      BY <1>4, <1>6
    <3> QED BY ZenonT(40), <3>1, CallChanges
  <2> QED BY <1>6, <1>7, <2>1, <2>2, BlocksSame
<1> QED BY <1>1, <1>4, <1>5, <1>6, <1>7, <1>8, NothingTyped, CallStep

(* It reserves a block.                                                     *)
LEMMA TilerAreaInv ==
  ASSUME HeapsInv, NEW c \in Clients, NEW a \in Areas, TilerArea(c, a)
  PROVE  HeapsInv'
<1>1. /\ call[c].pc = "area" /\ area[a] = "free"
      /\ area' = [area EXCEPT ![a] = "reserved"]
      /\ call' = [call EXCEPT ![c].pc = "lump", ![c].info.area = a]
      /\ UNCHANGED <<Rest, taken, infos, buffer, oops>>
  BY DEF TilerArea, At
<1> DEFINE r == [call[c] EXCEPT !.pc = "lump", !.info.area = a]
<1>2. /\ UNCHANGED <<board, probe, heap, trial, sglists, iomaps, buffer, taken, infos, oops>>
      /\ CallsInv /\ PageLedger(holds, owes, taken) /\ area \in AreaTypes
      /\ AreaLedger(bareas, careas, pcs, area) /\ oops \subseteq {"client", "remove"}
  BY <1>1, CallFrame
<1>3. call[c] \in Calls /\ call[c].info \in Infos /\ CallOK(c, call[c])
  BY <1>2 DEF CallsInv, Calls
<1>4. call' = [call EXCEPT ![c] = r]
  BY <1>1, <1>2 DEF CallsInv
<1>5. r \in Calls /\ r.pc = "lump" /\ r.info.area = a
  BY <1>3 DEF Calls, Infos, Pcs
<1>6. r.info.pages = call[c].info.pages /\ r.on = call[c].on /\ r.buf = call[c].buf
  BY <1>3 DEF Calls, Infos
<1> HIDE DEF r
<1>7. CallOK(c, r)
  BY <1>1, <1>3, <1>5, <1>6 DEF CallOK, WithArea
<1>8. owes' = owes
  BY <1>2, <1>4, <1>5, <1>6, CallChanges DEF owes
<1>9. careas[c] = 0
  BY <1>1, <1>3 DEF CallOK, WithArea, careas
<1>10. area' \in AreaTypes
  BY <1>1, <1>2 DEF AreaTypes
<1>11. AreaLedger(bareas, careas', pcs', area')
  <2>1. /\ careas'[c] = a /\ pcs'[c] = "lump"
        /\ \A d \in Clients : d # c => careas'[d] = careas[d] /\ pcs'[d] = pcs[d]
    BY ZenonT(40), <1>2, <1>4, <1>5, CallChanges
  <2>2. area'[a] = "reserved" /\ \A x \in Areas : x # a => area'[x] = area[x]
    BY <1>1, <1>2 DEF AreaTypes
  <2>3. pcs'[c] \notin PinnedAt
    BY <2>1 DEF PinnedAt
  <2>4. AreaLedger(bareas, careas, pcs, area) /\ area[a] = "free"
    BY <1>1, <1>2
  <2> QED BY <1>9, <2>1, <2>2, <2>3, <2>4, BlockReserved
<1> QED BY <1>1, <1>2, <1>4, <1>5, <1>7, <1>8, <1>10, <1>11, CallStep

(* It fails and gives its info back.                                        *)
LEMMA TilerReturnInv ==
  ASSUME HeapsInv, NEW c \in Clients, TilerReturn(c)
  PROVE  HeapsInv'
<1>1. /\ call[c].pc \in {"area", "nomem"} /\ infos' = infos - 1
      /\ call' = [call EXCEPT ![c] = NoCall]
      /\ UNCHANGED <<Rest, taken, area, buffer, oops>>
  BY DEF TilerReturn, At
<1>2. /\ UNCHANGED <<board, probe, heap, trial, sglists, iomaps, buffer, taken, area, oops>>
      /\ CallsInv /\ PageLedger(holds, owes, taken) /\ area \in AreaTypes
      /\ AreaLedger(bareas, careas, pcs, area) /\ oops \subseteq {"client", "remove"}
  BY <1>1, CallFrame
<1>3. call[c].info.pages = <<>> /\ call[c].info.area = 0
  BY <1>1, <1>2 DEF CallsInv, CallOK, WithArea
<1>4. CallOK(c, NoCall)
  BY NothingTyped DEF CallOK, WithArea
<1>5. owes' = owes /\ careas' = careas
  BY <1>1, <1>2, <1>3, NothingTyped, CallChanges DEF owes, careas
<1>6. AreaLedger(bareas, careas', pcs', area')
  <2>1. careas[c] \notin Areas
    BY <1>3, OmapIonAssumption DEF careas
  <2>2. \A d \in Clients : d # c => pcs'[d] = pcs[d]
    BY <1>1, <1>2, NothingTyped, CallChanges
  <2> QED BY <1>2, <1>5, <2>1, <2>2, BlocksSame
<1> QED BY <1>1, <1>2, <1>4, <1>5, <1>6, NothingTyped, CallStep

(* The pages, all at once or one by one.                                   *)
LEMMA CallTakesPages ==
  ASSUME HeapsInv, NEW c \in Clients, NEW n \in Nat, NEW e \in Extents(call[c].on, n),
         call[c].pc \in {"lump", "pages"},
         NEW r \in Calls, call' = [call EXCEPT ![c] = r], taken' = taken \cup PagesOf(e),
         r.pc \in {"pages", "pin"}, r.on = call[c].on, r.buf = call[c].buf,
         r.info.area = call[c].info.area, r.info.pages = call[c].info.pages \o e,
         UNCHANGED <<Rest, area, infos, buffer, oops>>
  PROVE  HeapsInv'
<1>1. /\ UNCHANGED <<board, probe, heap, trial, sglists, iomaps, buffer, area, infos, oops>>
      /\ CallsInv /\ PageLedger(holds, owes, taken) /\ area \in AreaTypes
      /\ AreaLedger(bareas, careas, pcs, area) /\ oops \subseteq {"client", "remove"}
  BY CallFrame
<1>2. call[c] \in Calls /\ call[c].info.pages \in Seq(AllPages) /\ CallOK(c, call[c])
  BY <1>1 DEF CallsInv, Calls, Infos
<1>3. board \in Boards /\ board = "omap4" /\ call[c].on = 2
  BY <1>2 DEF CallOK, HeapsInv, LoadInv
<1>4. 2 \in Indices /\ HasPool(2)
  <2>1. Len(Data) = 3 /\ Indices = 1 .. Len(Data) /\ TypeOf(2) = Tiler
    BY <1>3, BoardFacts
  <2> QED BY <2>1 DEF HasPool
<1>5. e \in Seq(AllPages) /\ PagesOf(e) \subseteq Pool(2) /\ PagesOf(e) \cap taken = {}
  BY <1>3, <1>4, ExtentFacts
<1>6. PagesOf(r.info.pages) = PagesOf(call[c].info.pages) \cup PagesOf(e)
  BY <1>2, <1>5, PagesOfFacts
<1>7. CallOK(c, r)
  BY <1>2, <1>5, <1>6 DEF CallOK, WithArea
<1>8. PageLedger(holds, owes', taken')
  <2>1. owes'[c] = owes[c] \cup PagesOf(e) /\ \A d \in Clients : d # c => owes'[d] = owes[d]
    BY <1>1, <1>6, CallChanges
  <2>2. PageLedger(holds, owes, taken) /\ taken' = taken \cup PagesOf(e)
    BY <1>1
  <2>3. PagesOf(e) \cap taken = {}
    BY <1>5
  <2> QED BY <2>1, <2>2, <2>3 DEF PageLedger
<1>9. careas' = careas /\ AreaLedger(bareas, careas', pcs', area')
  <2>1. careas' = careas
    BY <1>1, CallChanges DEF careas
  <2>2. /\ pcs[c] \notin PinnedAt /\ pcs'[c] \notin PinnedAt
        /\ \A d \in Clients : d # c => pcs'[d] = pcs[d]
    BY <1>1, CallChanges DEF PinnedAt
  <2> QED BY <1>1, <2>1, <2>2, BlocksSame
<1> QED BY <1>1, <1>7, <1>8, <1>9, CallStep

(* It takes its pages in one extent,                                        *)
LEMMA TilerLumpInv ==
  ASSUME HeapsInv, NEW c \in Clients, TilerLump(c)
  PROVE  HeapsInv'
<1>1. PICK e \in Extents(call[c].on, call[c].n) :
        /\ taken' = taken \cup PagesOf(e)
        /\ call' = [call EXCEPT ![c].pc = "pin", ![c].info.pages = e, ![c].info.lump = TRUE]
  BY DEF TilerLump
<1>2. call[c].pc = "lump" /\ UNCHANGED <<Rest, area, infos, buffer, oops>>
  BY DEF TilerLump, At
<1> DEFINE r == [call[c] EXCEPT !.pc = "pin", !.info.pages = e, !.info.lump = TRUE]
<1>3. /\ call \in [Clients -> Calls] /\ call[c] \in Calls /\ call[c].info \in Infos
      /\ call[c].n \in Nat /\ CallOK(c, call[c]) /\ board \in Boards
  BY DEF HeapsInv, CallsInv, Calls, LoadInv
<1>4. e \in Seq(AllPages) /\ call[c].info.pages \o e = e
  <2>1. call[c].on = 2 /\ board = "omap4" /\ call[c].info.pages = <<>>
    BY <1>2, <1>3 DEF CallOK
  <2>2. 2 \in Indices /\ HasPool(2)
    <3>1. Len(Data) = 3 /\ Indices = 1 .. Len(Data) /\ TypeOf(2) = Tiler
      BY <1>3, <2>1, BoardFacts
    <3> QED BY <3>1 DEF HasPool
  <2>3. e \in Seq(AllPages)
    BY <1>3, <2>1, <2>2, ExtentFacts
  <2> QED BY <2>1, <2>3, ConcatEmptySeq
<1>5. call' = [call EXCEPT ![c] = r]
  BY <1>1, <1>3
<1>6. r \in Calls /\ r.pc = "pin" /\ r.on = call[c].on /\ r.buf = call[c].buf
  BY <1>3, <1>4 DEF Calls, Infos, Pcs
<1>7. r.info.area = call[c].info.area /\ r.info.pages = e
  BY <1>3, <1>4 DEF Calls, Infos
<1> HIDE DEF r
<1> QED BY <1>1, <1>2, <1>3, <1>4, <1>5, <1>6, <1>7, CallTakesPages

(* or one by one.                                                           *)
LEMMA TilerPageInv ==
  ASSUME HeapsInv, NEW c \in Clients, TilerPage(c)
  PROVE  HeapsInv'
<1> DEFINE pc2 == IF Len(call[c].info.pages) + 1 = call[c].n THEN "pin" ELSE "pages"
<1>1. PICK e \in Extents(call[c].on, 1) :
        /\ taken' = taken \cup PagesOf(e)
        /\ call' = [call EXCEPT ![c].pc = pc2, ![c].info.pages = @ \o e]
  BY DEF TilerPage
<1>2. call[c].pc = "pages" /\ UNCHANGED <<Rest, area, infos, buffer, oops>>
  BY DEF TilerPage, At
<1>3. pc2 \in {"pin", "pages"}
  OBVIOUS
<1> HIDE DEF pc2
<1> DEFINE s == call[c].info.pages \o e
           r == [call[c] EXCEPT !.pc = pc2, !.info.pages = s]
<1>4. /\ call \in [Clients -> Calls] /\ call[c] \in Calls /\ call[c].info \in Infos
      /\ CallOK(c, call[c]) /\ board \in Boards
  BY DEF HeapsInv, CallsInv, Calls, LoadInv
<1>5. s \in Seq(AllPages)
  <2>1. call[c].on = 2 /\ board = "omap4" /\ call[c].info.pages \in Seq(AllPages)
    BY <1>2, <1>4 DEF CallOK, Infos
  <2>2. 2 \in Indices /\ HasPool(2)
    <3>1. Len(Data) = 3 /\ Indices = 1 .. Len(Data) /\ TypeOf(2) = Tiler
      BY <1>4, <2>1, BoardFacts
    <3> QED BY <3>1 DEF HasPool
  <2>3. e \in Seq(AllPages)
    BY <1>4, <2>1, <2>2, ExtentFacts
  <2> QED BY <2>1, <2>3, PagesOfFacts
<1>6. call' = [call EXCEPT ![c] = r]
  BY <1>1, <1>4
<1> HIDE DEF s
<1>7. r \in Calls /\ r.pc = pc2 /\ r.on = call[c].on /\ r.buf = call[c].buf
  BY <1>3, <1>4, <1>5 DEF Calls, Infos, Pcs
<1>8. r.info.area = call[c].info.area /\ r.info.pages = s
  BY <1>4, <1>5 DEF Calls, Infos
<1> HIDE DEF r
<1> QED BY <1>1, <1>2, <1>3, <1>4, <1>6, <1>7, <1>8, CallTakesPages DEF s

(* Pinning, unpinning and turning back.                                    *)
LEMMA MovesInv ==
  ASSUME HeapsInv, NEW c \in Clients,
         \/ TilerNoLump(c) \/ TilerNoPage(c) \/ TilerPin(c) \/ TilerPinFails(c)
         \/ TilerNoHandle(c) \/ TilerUnpin(c)
  PROVE  HeapsInv'
<1>1. CallsInv /\ area \in AreaTypes /\ AreaLedger(bareas, careas, pcs, area)
      /\ oops \subseteq {"client", "remove"}
  BY DEF HeapsInv, AreaTypes
<1>2. call \in [Clients -> Calls] /\ CallOK(c, call[c])
  BY <1>1 DEF CallsInv
<1>3. careas[c] = call[c].info.area /\ pcs[c] = call[c].pc
  BY DEF careas, pcs
<1>4. \A pc2 \in Pcs : Goto(c, pc2) => /\ pcs'[c] = pc2
                                       /\ \A d \in Clients : d # c => pcs'[d] = pcs[d]
  <2> TAKE pc2 \in Pcs
  <2> HAVE Goto(c, pc2)
  <2>1. call'[c].pc = pc2 /\ \A d \in Clients : d # c => call'[d] = call[d]
    BY <1>2 DEF Goto, Calls
  <2> QED BY <2>1 DEF pcs
<1>5. CASE TilerNoLump(c)
  <2>1. call[c].pc = "lump" /\ Goto(c, "pages") /\ UNCHANGED <<Rest, taken, area, infos, buffer, oops>>
    BY <1>5 DEF TilerNoLump, At
  <2>2. AreaLedger(bareas, careas, pcs', area)
    BY <1>1, <1>3, <1>4, <2>1, BlocksSame DEF PinnedAt, Pcs
  <2> QED BY <1>1, <2>1, <2>2, CallMoves, CallFrame DEF Pcs, WithArea
<1>6. CASE TilerNoPage(c)
  <2>1. call[c].pc = "pages" /\ Goto(c, "undo") /\ UNCHANGED <<Rest, taken, area, infos, buffer, oops>>
    BY <1>6 DEF TilerNoPage, At
  <2>2. AreaLedger(bareas, careas, pcs', area)
    BY <1>1, <1>3, <1>4, <2>1, BlocksSame DEF PinnedAt, Pcs
  <2> QED BY <1>1, <2>1, <2>2, CallMoves, CallFrame DEF Pcs, WithArea
<1>7. CASE TilerPin(c)
  <2>1. /\ call[c].pc = "pin" /\ Goto(c, "handle") /\ UNCHANGED <<Rest, taken, infos, buffer, oops>>
        /\ area' = [area EXCEPT ![call[c].info.area] = "pinned"]
    BY <1>7 DEF TilerPin, At
  <2>2. call[c].info.area \in Areas
    BY <1>2, <2>1 DEF CallOK, WithArea
  <2>3. /\ area' \in AreaTypes /\ area'[call[c].info.area] = "pinned"
        /\ \A x \in Areas : x # call[c].info.area => area'[x] = area[x]
    BY <1>1, <2>1, <2>2 DEF AreaTypes
  <2>4. pcs'[c] \in PinnedAt /\ \A d \in Clients : d # c => pcs'[d] = pcs[d]
    BY <1>4, <2>1 DEF PinnedAt, Pcs
  <2>5. AreaLedger(bareas, careas, pcs', area')
    BY <1>1, <1>3, <2>2, <2>3, <2>4, BlockPinned
  <2> QED BY <1>1, <2>1, <2>3, <2>5, CallMoves, CallFrame DEF Pcs, WithArea
<1>8. CASE TilerPinFails(c)
  <2>1. call[c].pc = "pin" /\ Goto(c, "undo") /\ UNCHANGED <<Rest, taken, area, infos, buffer, oops>>
    BY <1>8 DEF TilerPinFails, At
  <2>2. AreaLedger(bareas, careas, pcs', area)
    BY <1>1, <1>3, <1>4, <2>1, BlocksSame DEF PinnedAt, Pcs
  <2> QED BY <1>1, <2>1, <2>2, CallMoves, CallFrame DEF Pcs, WithArea
<1>9. CASE TilerNoHandle(c)
  <2>1. /\ call[c].pc = "handle" /\ Goto(c, "unpin") /\ UNCHANGED <<Rest, taken, area, infos, buffer>>
        /\ oops' \subseteq {"client", "remove"}
    BY <1>1, <1>9 DEF TilerNoHandle, At
  <2>2. AreaLedger(bareas, careas, pcs', area)
    BY <1>1, <1>3, <1>4, <2>1, BlocksSame DEF PinnedAt, Pcs
  <2> QED BY <1>1, <2>1, <2>2, CallMoves, CallFrame DEF Pcs, WithArea
<1>10. CASE TilerUnpin(c)
  <2>1. /\ call[c].pc = "unpin" /\ Goto(c, "undo") /\ UNCHANGED <<Rest, taken, infos, buffer, oops>>
        /\ area' = [area EXCEPT ![call[c].info.area] = "reserved"]
    BY <1>10 DEF TilerUnpin, At
  <2>2. call[c].info.area \in Areas
    BY <1>2, <2>1 DEF CallOK, WithArea
  <2>3. /\ area' \in AreaTypes /\ area'[call[c].info.area] = "reserved"
        /\ \A x \in Areas : x # call[c].info.area => area'[x] = area[x]
    BY <1>1, <2>1, <2>2 DEF AreaTypes
  <2>4. pcs'[c] \notin PinnedAt /\ \A d \in Clients : d # c => pcs'[d] = pcs[d]
    BY <1>4, <2>1 DEF PinnedAt, Pcs
  <2>5. AreaLedger(bareas, careas, pcs', area')
    BY <1>1, <1>3, <2>2, <2>3, <2>4, BlockPinned
  <2> QED BY <1>1, <2>1, <2>3, <2>5, CallMoves, CallFrame DEF Pcs, WithArea
<1> QED BY <1>5, <1>6, <1>7, <1>8, <1>9, <1>10

(* The clean-up gives the block back, then the pages.                      *)
LEMMA TilerFreeAreaInv ==
  ASSUME HeapsInv, NEW c \in Clients, TilerFreeArea(c)
  PROVE  HeapsInv'
<1>1. /\ call[c].pc = "undo" /\ area' = [area EXCEPT ![call[c].info.area] = "free"]
      /\ call' = [call EXCEPT ![c].pc = "unpages", ![c].info.area = 0]
      /\ UNCHANGED <<Rest, taken, infos, buffer, oops>>
  BY DEF TilerFreeArea, At
<1> DEFINE r == [call[c] EXCEPT !.pc = "unpages", !.info.area = 0]
<1>2. /\ UNCHANGED <<board, probe, heap, trial, sglists, iomaps, buffer, taken, infos, oops>>
      /\ CallsInv /\ PageLedger(holds, owes, taken) /\ area \in AreaTypes
      /\ AreaLedger(bareas, careas, pcs, area) /\ oops \subseteq {"client", "remove"}
  BY <1>1, CallFrame
<1>3. call[c] \in Calls /\ call[c].info \in Infos /\ CallOK(c, call[c])
  BY <1>2 DEF CallsInv, Calls
<1>4. call' = [call EXCEPT ![c] = r]
  BY <1>1, <1>2 DEF CallsInv
<1>5. r \in Calls /\ r.pc = "unpages" /\ r.info.area = 0
  BY <1>3 DEF Calls, Infos, Pcs
<1>6. r.info.pages = call[c].info.pages /\ r.on = call[c].on /\ r.buf = call[c].buf
  BY <1>3 DEF Calls, Infos
<1> HIDE DEF r
<1>7. CallOK(c, r)
  BY <1>1, <1>3, <1>5, <1>6 DEF CallOK, WithArea
<1>8. owes' = owes
  BY <1>2, <1>4, <1>5, <1>6, CallChanges DEF owes
<1>9. careas[c] = call[c].info.area /\ careas[c] \in Areas
  BY <1>1, <1>3 DEF CallOK, WithArea, careas
<1>10. /\ area' \in AreaTypes /\ area'[careas[c]] = "free"
       /\ \A x \in Areas : x # careas[c] => area'[x] = area[x]
  BY <1>1, <1>2, <1>9 DEF AreaTypes
<1>11. AreaLedger(bareas, careas', pcs', area')
  <2>1. /\ careas'[c] = 0
        /\ \A d \in Clients : d # c => careas'[d] = careas[d] /\ pcs'[d] = pcs[d]
    BY <1>2, <1>4, <1>5, CallChanges
  <2>2. AreaLedger(bareas, careas, pcs, area)
    BY <1>2
  <2> QED BY <1>9, <1>10, <2>1, <2>2, BlockFreed
<1> QED BY <1>1, <1>2, <1>4, <1>5, <1>7, <1>8, <1>10, <1>11, CallStep

(* The clean-up gives back the lump, or the last page.                      *)
LEMMA TilerFreePagesInv ==
  ASSUME HeapsInv, NEW c \in Clients, TilerFreePages(c)
  PROVE  HeapsInv'
<1> DEFINE pages == call[c].info.pages
           rest == IF call[c].info.lump \/ Len(pages) <= 1 THEN <<>>
                   ELSE SubSeq(pages, 1, Len(pages) - 1)
           pc2 == IF rest = <<>> THEN "nomem" ELSE "unpages"
           r == [call[c] EXCEPT !.pc = pc2, !.info.pages = rest]
<1>1. /\ call[c].pc = "unpages" /\ taken' = taken \ (PagesOf(pages) \ PagesOf(rest))
      /\ call' = [call EXCEPT ![c].pc = pc2, ![c].info.pages = rest]
      /\ UNCHANGED <<Rest, area, infos, buffer, oops>>
  BY DEF TilerFreePages, At
<1>2. /\ UNCHANGED <<board, probe, heap, trial, sglists, iomaps, buffer, area, infos, oops>>
      /\ CallsInv /\ PageLedger(holds, owes, taken) /\ area \in AreaTypes
      /\ AreaLedger(bareas, careas, pcs, area) /\ oops \subseteq {"client", "remove"}
  BY <1>1, CallFrame
<1>3. call[c] \in Calls /\ call[c].info \in Infos /\ CallOK(c, call[c]) /\ pages \in Seq(AllPages)
  BY <1>2 DEF CallsInv, Calls, Infos
<1>4. rest \in Seq(AllPages) /\ PagesOf(rest) \subseteq PagesOf(pages)
  <2>1. <<>> \in Seq(AllPages) /\ PagesOf(<<>>) = {}
    BY EmptySeq, PagesOfFacts
  <2>2. CASE Len(pages) > 1
    BY <1>3, <2>1, <2>2, PagesOfFacts
  <2>3. CASE ~(Len(pages) > 1)
    <3>1. Len(pages) \in Nat
      BY <1>3, LenProperties
    <3>2. rest = <<>>
      BY <2>3, <3>1
    <3> QED BY <2>1, <3>2
  <2> QED BY <2>2, <2>3
<1>5. call' = [call EXCEPT ![c] = r]
  BY <1>1, <1>2 DEF CallsInv
<1> HIDE DEF rest
<1>6. pc2 \in {"nomem", "unpages"} /\ (pc2 = "nomem" => rest = <<>>)
  OBVIOUS
<1> HIDE DEF pc2
<1>7. r \in Calls /\ r.pc = pc2 /\ r.info.pages = rest
  BY <1>3, <1>4, <1>6 DEF Calls, Infos, Pcs
<1>8. r.info.area = call[c].info.area /\ r.on = call[c].on /\ r.buf = call[c].buf
  BY <1>3, <1>4 DEF Calls, Infos
<1> HIDE DEF r
<1>9. CallOK(c, r)
  BY <1>1, <1>3, <1>4, <1>6, <1>7, <1>8 DEF CallOK, WithArea
<1>10. PageLedger(holds, owes', taken')
  <2>1. /\ owes[c] = PagesOf(pages) /\ owes'[c] = PagesOf(rest)
        /\ \A d \in Clients : d # c => owes'[d] = owes[d]
    BY <1>2, <1>5, <1>7, CallChanges
  <2>2. PageLedger(holds, owes, taken) /\ taken' = taken \ (PagesOf(pages) \ PagesOf(rest))
    BY <1>1, <1>2
  <2>3. owes'[c] = owes[c] \ (PagesOf(pages) \ PagesOf(rest))
    BY <1>4, <2>1
  <2> HIDE DEF pages
  <2> QED BY <2>1, <2>2, <2>3 DEF PageLedger
<1>11. careas' = careas /\ AreaLedger(bareas, careas', pcs', area')
  <2>1. careas' = careas
    BY <1>2, <1>5, <1>7, <1>8, CallChanges DEF careas
  <2>2. careas[c] \notin Areas
    BY <1>1, <1>3, OmapIonAssumption DEF CallOK, WithArea, careas
  <2>3. \A d \in Clients : d # c => pcs'[d] = pcs[d]
    BY ZenonT(40), <1>2, <1>5, <1>7, CallChanges
  <2> QED BY <1>2, <2>1, <2>2, <2>3, BlocksSame
<1> QED BY <1>1, <1>2, <1>5, <1>6, <1>7, <1>9, <1>10, <1>11, CallStep

(* The call gets its buffer: nothing is filled in yet.                     *)
LEMMA TilerHandleInv ==
  ASSUME HeapsInv, NEW c \in Clients, NEW b \in BufferIds, TilerHandle(c, b)
  PROVE  HeapsInv'
<1>1. PICK i \in Indices : /\ InTree(i) /\ Data[i].id = TilerId
                           /\ buffer' = [buffer EXCEPT ![b] = [NoBuf EXCEPT !.client = c, !.on = i]]
  BY DEF TilerHandle
<1>2. /\ call[c].pc = "handle" /\ buffer[b] = NoBuf
      /\ call' = [call EXCEPT ![c].pc = "fill", ![c].buf = b]
      /\ UNCHANGED <<Rest, taken, area, infos, oops>>
  BY DEF TilerHandle, At, Free
<1> DEFINE r == [call[c] EXCEPT !.pc = "fill", !.buf = b]
<1>3. /\ UNCHANGED <<board, probe, heap, trial, sglists, iomaps, taken, area, infos, oops>>
      /\ CallsInv /\ BufsInv /\ PageLedger(holds, owes, taken) /\ area \in AreaTypes
      /\ AreaLedger(bareas, careas, pcs, area) /\ oops \subseteq {"client", "remove"}
  BY <1>2, CallFrame
<1>4. LoadInv /\ Counts
  BY DEF HeapsInv
<1>5. call[c] \in Calls /\ CallOK(c, call[c])
  BY <1>3 DEF CallsInv
<1>6. r \in Calls /\ r.pc = "fill" /\ r.buf = b /\ r.on = call[c].on /\ r.info = call[c].info
  BY <1>5 DEF Calls, Pcs
<1>7. call' = [call EXCEPT ![c] = r]
  BY <1>2, <1>3 DEF CallsInv
<1> HIDE DEF r
<1>8. /\ call' \in [Clients -> Calls] /\ call'[c] = r
      /\ \A d \in Clients : d # c => call'[d] = call[d]
  BY <1>3, <1>6, <1>7, CallChanges
<1>9. i = 2 /\ board = "omap4" /\ InTree(2)
  <2>1. board = "omap4" /\ board \in Boards
    BY <1>2, <1>4, <1>5 DEF CallOK, LoadInv
  <2>2. Indices = 1 .. Len(Data) /\ Len(Data) = 3
    BY <2>1, BoardFacts
  <2>3. Data[1].id = SecureInput /\ Data[3].id = NonsecureTiler
    BY <2>1, BoardFacts
  <2>4. i # 1 /\ i # 3
    BY <1>1, <2>3 DEF SecureInput, TilerId, NonsecureTiler
  <2>5. i = 2
    BY <2>2, <2>4
  <2> QED BY <1>1, <2>1, <2>5
<1>10. buffer' = [buffer EXCEPT ![b] = HandleOf(c)]
  BY <1>1, <1>9 DEF HandleOf
<1>11. /\ buffer' \in [BufferIds -> Bufs] /\ buffer'[b] = HandleOf(c)
       /\ \A d \in BufferIds : d # b => buffer'[d] = buffer[d]
  BY <1>3, <1>10, HandleTyped, BufChanges
<1>12. LoadInv'
  BY <1>3, <1>4, LoadKept
<1>13. CallsInv'
  <2>1. CallOK(c, call[c])'
    <3>1. r.pc = "fill" => r.buf \in BufferIds /\ buffer'[r.buf] = HandleOf(c)
      BY <1>6, <1>11
    <3>2. r.info.area \in Areas
      BY <1>2, <1>5, <1>6 DEF CallOK, WithArea
    <3>3. board' = "omap4" /\ r.on = 2 /\ PagesOf(r.info.pages) \subseteq Pool(2)
      BY <1>2, <1>3, <1>5, <1>6 DEF CallOK
    <3>4. Pool(2)' = Pool(2)
      BY <1>3 DEF Pool, HasPool, TypeOf, Data
    <3> QED BY <1>6, <1>8, <3>1, <3>2, <3>3, <3>4 DEF CallOK, WithArea
  <2>2. ASSUME NEW d \in Clients, d # c PROVE CallOK(d, call[d])'
    <3>1. CallOK(d, call[d]) /\ call'[d] = call[d]
      BY <1>3, <1>8, <2>2 DEF CallsInv
    <3>2. call[d].pc = "fill" => call[d].buf # b
      BY <1>2, <3>1, HandleTyped DEF CallOK
    <3>3. call[d].pc = "fill" => buffer'[call[d].buf] = HandleOf(d)
      BY <1>11, <3>1, <3>2 DEF CallOK
    <3>4. Pool(2)' = Pool(2)
      BY <1>3 DEF Pool, HasPool, TypeOf, Data
    <3> QED BY <1>3, <3>1, <3>3, <3>4 DEF CallOK
  <2>3. ASSUME NEW d \in Clients PROVE CallOK(d, call[d])'
    BY <1>8, <2>1, <2>2
  <2> QED BY <1>8, <2>3 DEF CallsInv
<1>14. BufsInv'
  <2>1. BufOK(b, buffer[b])'
    <3>1. HandleOf(c).client \in Clients /\ HandleOf(c).on = 2 /\ HandleOf(c).info = NoInfo
          /\ HandleOf(c).pages = <<>> /\ HandleOf(c).maps = {}
      BY HandleTyped
    <3>2. TilerBufOK(b, HandleOf(c))'
      BY <1>3, <1>6, <1>8, <1>9, <3>1, HandleTyped DEF TilerBufOK
    <3>3. InTree(2)' /\ TypeOf(2)' = Tiler
      <4>1. TypeOf(2) = Tiler
        BY <1>4, <1>9, BoardFacts DEF LoadInv
      <4> QED BY <1>3, <1>9, <4>1 DEF InTree, TypeOf, Data
    <3>4. PagesOf(HandleOf(c).pages) = {} /\ PagesOf(HandleOf(c).info.pages) = {}
      BY <3>1, NothingTyped, PagesOfFacts
    <3> QED BY <1>11, <3>1, <3>2, <3>3, <3>4 DEF BufOK
  <2>2. ASSUME NEW x \in BufferIds, x # b PROVE BufOK(x, buffer[x])'
    <3>1. BufOK(x, buffer[x]) /\ buffer'[x] = buffer[x]
      BY <1>3, <1>11, <2>2 DEF BufsInv
    <3>2. ASSUME buffer[x].client \in Clients, TilerBufOK(x, buffer[x]) PROVE TilerBufOK(x, buffer[x])'
      BY <1>2, <1>3, <1>8, <3>1, <3>2 DEF TilerBufOK
    <3> QED BY <1>3, <3>1, <3>2 DEF BufOK, InTree, Pool, HasPool, TypeOf, Data
  <2> QED BY <1>11, <2>1, <2>2 DEF BufsInv
<1>15. owes' = owes /\ careas' = careas
  BY <1>3, <1>6, <1>7, CallChanges DEF owes, careas
<1>16. holds' = holds /\ bareas' = bareas
  <2>1. /\ PagesOf(buffer[b].pages) = {} /\ PagesOf(buffer[b].info.pages) = {}
        /\ PagesOf(HandleOf(c).pages) = {} /\ PagesOf(HandleOf(c).info.pages) = {}
        /\ buffer[b].info.area = 0 /\ HandleOf(c).info.area = 0
    BY <1>2, HandleTyped, NothingTyped, PagesOfFacts
  <2>2. /\ holds'[b] = holds[b] /\ bareas'[b] = bareas[b]
        /\ \A d \in BufferIds : d # b => holds'[d] = holds[d] /\ bareas'[d] = bareas[d]
    <3>1. BufsInv /\ HandleOf(c) \in Bufs /\ buffer' = [buffer EXCEPT ![b] = HandleOf(c)]
      BY <1>3, <1>10, HandleTyped
    <3>2. /\ holds[b] = PagesOf(buffer[b].pages) \cup PagesOf(buffer[b].info.pages)
          /\ holds'[b] = PagesOf(HandleOf(c).pages) \cup PagesOf(HandleOf(c).info.pages)
          /\ bareas[b] = buffer[b].info.area /\ bareas'[b] = HandleOf(c).info.area
          /\ \A d \in BufferIds : d # b => holds'[d] = holds[d] /\ bareas'[d] = bareas[d]
      BY <3>1, BufChanges
    <3> QED BY <2>1, <3>2
  <2> QED BY <2>2 DEF holds, bareas
<1>17. AreaLedger(bareas', careas', pcs', area')
  <2>1. /\ pcs[c] \in PinnedAt /\ pcs'[c] \in PinnedAt
        /\ \A d \in Clients : d # c => pcs'[d] = pcs[d]
    BY ZenonT(40), <1>2, <1>3, <1>6, <1>7, CallChanges DEF PinnedAt
  <2>2. AreaLedger(bareas, careas, pcs', area)
    BY <1>3, <2>1, BlocksSame
  <2> QED BY <1>3, <1>15, <1>16, <2>2
<1>18. Counts'
  <2>1. Busy' = Busy
    BY <1>2, <1>6, <1>8 DEF Busy
  <2>2. buffer[b].info = NoInfo /\ buffer[b].maps = {} /\ HandleOf(c).info = NoInfo /\ HandleOf(c).maps = {}
    BY <1>2, NothingTyped, HandleTyped
  <2>3. Filled' = Filled /\ DmaMapped' = DmaMapped
    BY <1>11, <2>2 DEF Filled, DmaMapped
  <2>4. Remapped' = Remapped
    BY <1>3, <1>11, <2>2 DEF Remapped, Free, TypeOf, Data
  <2> QED BY <1>3, <1>4, <2>1, <2>3, <2>4 DEF Counts
<1> QED BY <1>3, <1>12, <1>13, <1>14, <1>15, <1>16, <1>17, <1>18 DEF HeapsInv, AreaTypes

(* The buffer is filled in, and the call is over.                          *)
LEMMA TilerFillInv ==
  ASSUME HeapsInv, NEW c \in Clients, TilerFill(c)
  PROVE  HeapsInv'
<1>0. PICK b \in BufferIds, info \in Infos : b = call[c].buf /\ info = call[c].info
  <2>1. call[c].pc = "fill" /\ call[c] \in Calls /\ CallOK(c, call[c])
    BY DEF TilerFill, At, HeapsInv, CallsInv
  <2> QED BY <2>1 DEF CallOK, Calls
<1> DEFINE r == [buffer[b] EXCEPT !.info = info]
<1>1. /\ call[c].pc = "fill" /\ buffer' = [buffer EXCEPT ![b].info = info]
      /\ call' = [call EXCEPT ![c] = NoCall]
      /\ UNCHANGED <<Rest, taken, area, infos, oops>>
  BY <1>0 DEF TilerFill, At
<1>2. /\ UNCHANGED <<board, probe, heap, trial, sglists, iomaps, taken, area, infos, oops>>
      /\ CallsInv /\ BufsInv /\ PageLedger(holds, owes, taken) /\ area \in AreaTypes
      /\ AreaLedger(bareas, careas, pcs, area) /\ oops \subseteq {"client", "remove"}
  BY <1>1, CallFrame
<1>3. LoadInv /\ Counts
  BY DEF HeapsInv
<1>4. call[c] \in Calls /\ info \in Infos /\ CallOK(c, call[c])
  BY <1>0, <1>2 DEF CallsInv, Calls
<1>5. /\ b \in BufferIds /\ buffer[b] = HandleOf(c) /\ buffer[b] \in Bufs /\ board = "omap4"
      /\ info.area \in Areas /\ PagesOf(info.pages) \subseteq Pool(2)
  BY <1>0, <1>1, <1>2, <1>4 DEF CallOK, WithArea, BufsInv
<1>6. /\ r \in Bufs /\ r.info = info /\ r.client = buffer[b].client /\ r.on = buffer[b].on
      /\ r.pages = buffer[b].pages /\ r.maps = buffer[b].maps
  BY <1>4, <1>5 DEF Bufs
<1>7. r.client = c /\ r.on = 2 /\ r.pages = <<>> /\ r.maps = {}
  BY <1>5, <1>6, HandleTyped
<1>8. buffer' = [buffer EXCEPT ![b] = r]
  BY <1>1, <1>2, <1>5 DEF BufsInv
<1> HIDE DEF r
<1>9. /\ call' \in [Clients -> Calls] /\ call'[c] = NoCall
      /\ \A d \in Clients : d # c => call'[d] = call[d]
      /\ owes[c] = PagesOf(info.pages) /\ owes'[c] = PagesOf(NoCall.info.pages)
      /\ \A d \in Clients : d # c => owes'[d] = owes[d]
      /\ careas[c] = info.area /\ careas'[c] = NoCall.info.area /\ pcs[c] = "fill"
      /\ \A d \in Clients : d # c => careas'[d] = careas[d] /\ pcs'[d] = pcs[d]
  BY <1>0, <1>1, <1>2, NothingTyped, CallChanges
<1>10. /\ buffer' \in [BufferIds -> Bufs] /\ buffer'[b] = r
       /\ \A d \in BufferIds : d # b => buffer'[d] = buffer[d]
       /\ holds[b] = PagesOf(buffer[b].pages) \cup PagesOf(buffer[b].info.pages)
       /\ holds'[b] = PagesOf(r.pages) \cup PagesOf(r.info.pages)
       /\ \A d \in BufferIds : d # b => holds'[d] = holds[d]
       /\ bareas[b] = buffer[b].info.area /\ bareas'[b] = r.info.area
       /\ \A d \in BufferIds : d # b => bareas'[d] = bareas[d]
  BY <1>2, <1>5, <1>6, <1>8, BufChanges
<1>11. LoadInv'
  BY <1>2, <1>3, LoadKept
<1>12. CallsInv'
  <2>1. CallOK(c, call[c])'
    BY <1>9, NothingTyped DEF CallOK, WithArea
  <2>2. ASSUME NEW d \in Clients, d # c PROVE CallOK(d, call[d])'
    <3>1. CallOK(d, call[d]) /\ call'[d] = call[d]
      BY <1>2, <1>9, <2>2 DEF CallsInv
    <3>2. call[d].pc = "fill" => call[d].buf # b
      BY <1>5, <2>2, <3>1, HandleTyped DEF CallOK
    <3>3. call[d].pc = "fill" => buffer'[call[d].buf] = HandleOf(d)
      BY <1>10, <3>1, <3>2 DEF CallOK
    <3>4. Pool(2)' = Pool(2)
      BY <1>2 DEF Pool, HasPool, TypeOf, Data
    <3> QED BY <1>2, <3>1, <3>3, <3>4 DEF CallOK
  <2>3. ASSUME NEW d \in Clients PROVE CallOK(d, call[d])'
    BY <2>1, <2>2
  <2> QED BY <1>9, <2>3 DEF CallsInv
<1>13. BufsInv'
  <2>1. BufOK(b, buffer[b])'
    <3>1. TilerBufOK(b, buffer[b])'
      BY <1>2, <1>5, <1>6, <1>7, <1>10 DEF TilerBufOK
    <3>2. TypeOf(2)' = Tiler
      <4>1. TypeOf(2) = Tiler
        BY <1>3, <1>5, BoardFacts DEF LoadInv
      <4> QED BY <1>2, <4>1 DEF TypeOf, Data
    <3>3. InTree(2)'
      <4>1. InTree(2)
        BY <1>2, <1>5, HandleTyped DEF BufsInv, BufOK
      <4> QED BY <1>2, <4>1 DEF InTree
    <3>4. PagesOf(r.pages) = {} /\ PagesOf(r.info.pages) \subseteq Pool(2)
      BY <1>5, <1>6, <1>7, PagesOfFacts
    <3>5. Pool(2)' = Pool(2)
      BY <1>2 DEF Pool, HasPool, TypeOf, Data
    <3> QED BY <1>7, <1>10, <3>1, <3>2, <3>3, <3>4, <3>5 DEF BufOK
  <2>2. ASSUME NEW x \in BufferIds, x # b PROVE BufOK(x, buffer[x])'
    <3>1. BufOK(x, buffer[x]) /\ buffer'[x] = buffer[x]
      BY <1>2, <1>10, <2>2 DEF BufsInv
    <3>2. ASSUME buffer[x].client \in Clients, TilerBufOK(x, buffer[x]) PROVE TilerBufOK(x, buffer[x])'
      <4>1. call[c].buf # x
        BY <1>0, <2>2
      <4>2. call[buffer[x].client].buf = x => call'[buffer[x].client] = call[buffer[x].client]
        BY <1>9, <3>2, <4>1
      <4> QED BY <1>2, <3>1, <3>2, <4>2 DEF TilerBufOK
    <3> QED BY <1>2, <3>1, <3>2 DEF BufOK, InTree, Pool, HasPool, TypeOf, Data
  <2> QED BY <1>10, <2>1, <2>2 DEF BufsInv
<1>14. PageLedger(holds', owes', taken')
  <2>1. holds[b] = {} /\ holds'[b] = owes[c] /\ owes'[c] = {}
    BY <1>5, <1>6, <1>7, <1>9, <1>10, HandleTyped, NothingTyped, PagesOfFacts
  <2>2. /\ \A d \in Clients : d # c => owes'[d] = owes[d]
        /\ \A d \in BufferIds : d # b => holds'[d] = holds[d]
    BY <1>9, <1>10
  <2>3. PageLedger(holds, owes, taken) /\ taken' = taken
    BY <1>2
  <2> QED BY <1>5, <2>1, <2>2, <2>3 DEF PageLedger
<1>15. AreaLedger(bareas', careas', pcs', area')
  <2>1. /\ careas[c] \in Areas /\ careas'[c] = 0 /\ pcs[c] \in PinnedAt
        /\ \A d \in Clients : d # c => careas'[d] = careas[d] /\ pcs'[d] = pcs[d]
    BY <1>5, <1>9, NothingTyped DEF PinnedAt
  <2>2. /\ bareas[b] = 0 /\ bareas'[b] = careas[c]
        /\ \A d \in BufferIds : d # b => bareas'[d] = bareas[d]
    BY <1>5, <1>6, <1>9, <1>10, HandleTyped, NothingTyped
  <2>3. AreaLedger(bareas, careas, pcs, area) /\ area' = area
    BY <1>2
  <2>4. 0 \notin Areas
    BY OmapIonAssumption
  <2> QED BY <2>1, <2>2, <2>3, <2>4 DEF AreaLedger
<1>16. Counts'
  <2>1. Busy' = Busy \ {c} /\ c \in Busy
    BY <1>1, <1>9, NothingTyped DEF Busy
  <2>2. info # NoInfo /\ HandleOf(c).info = NoInfo
    BY <1>5, HandleTyped, NothingTyped, OmapIonAssumption
  <2>3. Filled' = Filled \cup {b} /\ b \notin Filled
    BY <1>5, <1>6, <1>10, <2>2 DEF Filled
  <2>4. r.maps = {} /\ buffer[b].maps = {}
    BY <1>5, <1>7, HandleTyped
  <2>5. DmaMapped' = DmaMapped
    BY <1>10, <2>4 DEF DmaMapped
  <2>6. Remapped' = Remapped
    BY <1>2, <1>10, <2>4 DEF Remapped, Free, TypeOf, Data
  <2>7. Cardinality(Busy') = Cardinality(Busy) - 1 /\ Cardinality(Busy) \in Nat
    BY <1>1, <1>2, <2>1, BusyFacts
  <2>8. Cardinality(Filled') = Cardinality(Filled) + 1 /\ Cardinality(Filled) \in Nat
    <3>1. Filled \subseteq BufferIds
      BY DEF Filled
    <3> QED BY <1>5, <2>3, <3>1, CountOne
  <2>9. infos' = Cardinality(Busy') + Cardinality(Filled')
    <3>1. infos = Cardinality(Busy) + Cardinality(Filled) /\ infos' = infos
      BY <1>2, <1>3 DEF Counts
    <3> QED BY <2>7, <2>8, <3>1
  <2> QED BY <1>2, <1>3, <2>5, <2>6, <2>9 DEF Counts
<1> QED BY <1>2, <1>11, <1>12, <1>13, <1>14, <1>15, <1>16 DEF HeapsInv, AreaTypes

(* The next buffer is one of BufferIds.                                     *)
LEMMA NewBufFacts == NewBuf \subseteq BufferIds
<1>1. FreeBufs \subseteq Nat /\ FreeBufs \subseteq BufferIds
  BY OmapIonAssumption DEF FreeBufs
<1> QED BY <1>1, LeastNat DEF NewBuf

(* Every step of a call keeps the books.                                    *)
LEMMA TilerCallInv ==
  ASSUME HeapsInv, "nonsecure" \notin Faults, NEW c \in Clients, TilerCall(c)
  PROVE  HeapsInv'
BY NewBufFacts, TilerAllocInv, TilerAreaInv, TilerReturnInv, TilerLumpInv, TilerPageInv, MovesInv,
   TilerHandleInv, TilerFillInv, TilerFreeAreaInv, TilerFreePagesInv
DEF TilerCall

-----------------------------------------------------------------------------
(* The steps on buffers that no call is about to fill in.                  *)
LEMMA BufStep ==
  ASSUME HeapsInv, NEW b \in BufferIds, NEW r \in Bufs, buffer' = [buffer EXCEPT ![b] = r],
         UNCHANGED <<board, probe, heap, trial, call>>,
         oops' \subseteq {"client", "remove"},
         \A c \in Clients : call[c].buf # b,
         BufOK(b, r),
         PageLedger(holds', owes, taken'),
         area' \in AreaTypes, AreaLedger(bareas', careas, pcs, area'),
         Counts'
  PROVE  HeapsInv'
<1>1. CallsInv /\ BufsInv /\ LoadInv
  BY DEF HeapsInv
<1>2. /\ buffer' \in [BufferIds -> Bufs] /\ buffer'[b] = r
      /\ \A d \in BufferIds : d # b => buffer'[d] = buffer[d]
  BY <1>1, BufChanges
<1>3. LoadInv'
  BY <1>1, LoadKept
<1>4. CallsInv'
  <2>1. ASSUME NEW d \in Clients PROVE CallOK(d, call[d])'
    <3>1. CallOK(d, call[d]) /\ call[d].buf # b
      BY <1>1 DEF CallsInv
    <3>2. call[d].pc = "fill" => buffer'[call[d].buf] = HandleOf(d)
      BY <1>2, <3>1 DEF CallOK
    <3>3. Pool(2)' = Pool(2)
      BY DEF Pool, HasPool, TypeOf, Data
    <3> QED BY <3>1, <3>2, <3>3 DEF CallOK
  <2> QED BY <1>1, <2>1 DEF CallsInv
<1>5. BufsInv'
  <2>1. ASSUME NEW d \in BufferIds PROVE BufOK(d, buffer'[d])
    BY <1>1, <1>2 DEF BufsInv
  <2>2. ASSUME NEW d \in BufferIds PROVE BufOK(d, buffer[d])'
    <3>1. BufOK(d, buffer'[d])
      BY <2>1
    <3>2. /\ Pool(buffer[d].on)' = Pool(buffer'[d].on)
          /\ TypeOf(buffer[d].on)' = TypeOf(buffer'[d].on)
      BY DEF Pool, HasPool, TypeOf, Data
    <3>3. InTree(buffer'[d].on) => InTree(buffer[d].on)'
      BY DEF InTree
    <3>4. TilerBufOK(d, buffer'[d]) => TilerBufOK(d, buffer[d])'
      BY DEF TilerBufOK
    <3> QED BY <3>1, <3>2, <3>3, <3>4 DEF BufOK
  <2> QED BY <1>2, <2>2 DEF BufsInv
<1>6. owes' = owes /\ careas' = careas /\ pcs' = pcs
  BY DEF owes, careas, pcs, PagesOf
<1> QED BY <1>3, <1>4, <1>5, <1>6 DEF HeapsInv, AreaTypes

(* A free buffer, and one whose heap is not the tiler's, is no call's.     *)
LEMMA NoCallsBuf ==
  ASSUME CallsInv, board \in Boards, NEW b \in BufferIds, buffer[b] = NoBuf \/ TypeOf(buffer[b].on) # Tiler
  PROVE  \A c \in Clients : call[c].buf # b
<1> SUFFICES ASSUME NEW c \in Clients, call[c].buf = b PROVE FALSE
  OBVIOUS
<1>1. CallOK(c, call[c]) /\ b # 0
  BY OmapIonAssumption DEF CallsInv
<1>2. call[c].pc = "fill" /\ buffer[b] = HandleOf(c) /\ board = "omap4"
  BY <1>1 DEF CallOK
<1>3. buffer[b] # NoBuf /\ TypeOf(buffer[b].on) = Tiler
  BY <1>2, HandleTyped, BoardFacts
<1> QED BY <1>3

(* What each type of heap answers an allocation.                            *)
LEMMA ServesFacts ==
  ASSUME NEW i, NEW n
  PROVE  /\ TypeOf(i) = Carveout => Serves(i, n) = Extents(i, n)
         /\ TypeOf(i) = Tiler => Serves(i, n) = TilerServes(n)
         /\ TypeOf(i) = System => Serves(i, n) = {<<>>}
         /\ TypeOf(i) = Contig => Serves(i, n) = {<<>>}
<1> DEFINE t == TypeOf(i)
<1>1. Serves(i, n) = CASE t = "carveout" -> CarveoutServes(i, n)
                       [] t = "tiler" -> TilerServes(n)
                       [] t = "system" -> SystemServes
                       [] t = "contig" -> ContigServes
  BY DEF Serves, Carveout, Tiler, System, Contig
<1> HIDE DEF t
<1>2. CASE t = "carveout"
  BY <1>1, <1>2 DEF t, Carveout, Tiler, System, Contig, CarveoutServes
<1>3. CASE t = "tiler"
  BY <1>1, <1>3 DEF t, Carveout, Tiler, System, Contig
<1>4. CASE t = "system"
  BY <1>1, <1>4 DEF t, Carveout, Tiler, System, Contig, SystemServes
<1>5. CASE t = "contig"
  BY <1>1, <1>5 DEF t, Carveout, Tiler, System, Contig, ContigServes
<1> QED BY <1>2, <1>3, <1>4, <1>5 DEF t, Carveout, Tiler, System, Contig

(* A buffer is made with pages nobody has.                                  *)
LEMMA AllocInv ==
  ASSUME HeapsInv, NEW c \in Clients, NEW b \in BufferIds, NEW ids, NEW n \in Lengths, Alloc(c, b, ids, n)
  PROVE  HeapsInv'
<1>0. PICK i \in Indices : InTree(i) /\ \E e \in Serves(i, n) :
        /\ buffer' = [buffer EXCEPT ![b] = [NoBuf EXCEPT !.client = c, !.on = i, !.pages = e]]
        /\ taken' = taken \cup PagesOf(e)
  BY DEF Alloc
<1>1. PICK e \in Serves(i, n) :
        /\ buffer' = [buffer EXCEPT ![b] = [NoBuf EXCEPT !.client = c, !.on = i, !.pages = e]]
        /\ taken' = taken \cup PagesOf(e)
  BY <1>0
<1>2. /\ buffer[b] = NoBuf
      /\ UNCHANGED <<board, probe, heap, trial, area, infos, sglists, iomaps, call, oops>>
  BY DEF Alloc, Free
<1>3. /\ CallsInv /\ BufsInv /\ LoadInv /\ Counts /\ board \in Boards
      /\ PageLedger(holds, owes, taken) /\ area \in AreaTypes
      /\ AreaLedger(bareas, careas, pcs, area) /\ oops \subseteq {"client", "remove"}
  BY DEF HeapsInv, AreaTypes, LoadInv
<1>4. n \in Nat /\ n # 0 /\ i \in Nat
  BY <1>1, <1>3, BoardFacts, OmapIonAssumption DEF Lengths
<1>5. TypeOf(i) # Tiler
  BY <1>4, ServesFacts DEF TilerServes
<1>6. e \in Seq(AllPages) /\ PagesOf(e) \subseteq Pool(i) /\ PagesOf(e) \cap taken = {}
  <2>1. CASE TypeOf(i) = Carveout
    <3>1. HasPool(i) /\ e \in Extents(i, n)
      BY <2>1, ServesFacts DEF HasPool
    <3> QED BY <1>3, <1>4, <3>1, ExtentFacts
  <2>2. CASE TypeOf(i) # Carveout
    <3>1. e = <<>>
      BY <1>3, <1>5, <2>2, BoardFacts, ServesFacts
    <3> QED BY <3>1, EmptySeq, PagesOfFacts
  <2> QED BY <2>1, <2>2
<1> DEFINE r == [NoBuf EXCEPT !.client = c, !.on = i, !.pages = e]
<1>7. r \in Bufs
  BY <1>4, <1>6, NothingTyped DEF Bufs
<1>8. r.client = c /\ r.on = i /\ r.pages = e
  BY <1>4, <1>6, NothingTyped DEF Bufs
<1>9. r.info = NoInfo /\ r.maps = {}
  BY <1>4, <1>6, NothingTyped DEF Bufs
<1>10. buffer' = [buffer EXCEPT ![b] = r]
  BY <1>1
<1> HIDE DEF r
<1>11. BufOK(b, r)
  BY <1>0, <1>5, <1>6, <1>8, <1>9, NothingTyped, PagesOfFacts DEF BufOK
<1>12. /\ buffer' \in [BufferIds -> Bufs] /\ buffer'[b] = r
       /\ \A d \in BufferIds : d # b => buffer'[d] = buffer[d]
       /\ holds[b] = PagesOf(NoBuf.pages) \cup PagesOf(NoBuf.info.pages)
       /\ holds'[b] = PagesOf(r.pages) \cup PagesOf(r.info.pages)
       /\ \A d \in BufferIds : d # b => holds'[d] = holds[d]
       /\ bareas[b] = NoBuf.info.area /\ bareas'[b] = r.info.area
       /\ \A d \in BufferIds : d # b => bareas'[d] = bareas[d]
  BY <1>2, <1>3, <1>7, <1>10, BufChanges
<1>13. PageLedger(holds', owes, taken')
  <2>1. holds[b] = {} /\ holds'[b] = PagesOf(e)
    BY <1>8, <1>9, <1>12, NothingTyped, PagesOfFacts
  <2>2. \A d \in BufferIds : d # b => holds'[d] = holds[d]
    BY <1>12
  <2>3. PageLedger(holds, owes, taken) /\ taken' = taken \cup PagesOf(e) /\ PagesOf(e) \cap taken = {}
    BY <1>1, <1>3, <1>6
  <2> QED BY <2>1, <2>2, <2>3 DEF PageLedger
<1>14. bareas' = bareas
  BY <1>9, <1>12, NothingTyped DEF bareas
<1>15. Counts'
  <2>1. NoBuf.info = NoInfo /\ NoBuf.maps = {}
    BY NothingTyped
  <2>2. Filled' = Filled /\ DmaMapped' = DmaMapped
    BY <1>2, <1>9, <1>12, <2>1 DEF Filled, DmaMapped
  <2>3. Remapped' = Remapped
    BY <1>2, <1>9, <1>12, <2>1 DEF Remapped, Free, TypeOf, Data
  <2>4. Busy' = Busy
    BY <1>2 DEF Busy
  <2> QED BY <1>2, <1>3, <2>2, <2>3, <2>4 DEF Counts
<1>16. \A d \in Clients : call[d].buf # b
  BY <1>2, <1>3, NoCallsBuf
<1> QED BY <1>2, <1>3, <1>7, <1>10, <1>11, <1>13, <1>14, <1>15, <1>16, BufStep

(* A buffer's last reference goes: its heap takes back just what the buffer *)
(* has, all of it from the heap's own pool.                                 *)
LEMMA FreeBufInv ==
  ASSUME HeapsInv, NEW b \in BufferIds, FreeBuf(b)
  PROVE  HeapsInv' /\ oops' = oops
<1>1. /\ buffer[b] # NoBuf /\ buffer[b].maps = {} /\ call[buffer[b].client].buf # b
      /\ CarveoutFree(b) \/ TilerFree(b) \/ SystemFree(b) \/ ContigFree(b)
      /\ buffer' = [buffer EXCEPT ![b] = NoBuf]
      /\ UNCHANGED <<board, probe, heap, trial, sglists, iomaps, call>>
  BY DEF FreeBuf, Free
<1>2. /\ CallsInv /\ BufsInv /\ LoadInv /\ Counts /\ board \in Boards
      /\ PageLedger(holds, owes, taken) /\ area \in AreaTypes
      /\ AreaLedger(bareas, careas, pcs, area) /\ oops \subseteq {"client", "remove"}
  BY DEF HeapsInv, AreaTypes, LoadInv
<1> DEFINE i == buffer[b].on
           info == buffer[b].info
<1>3. /\ InTree(i) /\ PagesOf(buffer[b].pages) \subseteq Pool(i) /\ PagesOf(info.pages) \subseteq Pool(i)
      /\ TypeOf(i) = Tiler => TilerBufOK(b, buffer[b])
      /\ TypeOf(i) # Tiler => info = NoInfo
  BY <1>1, <1>2 DEF BufsInv, BufOK
<1>4. i \in Indices
  <2>1. PICK k \in DOMAIN trial : trial[k] = i
    BY <1>3 DEF InTree
  <2>2. DOMAIN trial = 1 .. Len(trial) /\ Len(trial) \in Nat
    BY <1>2, LenProperties DEF LoadInv
  <2>3. k \in 1 .. Len(trial) /\ i = Len(trial) + 1 - k /\ Len(trial) <= Len(Data)
    BY <1>2, <2>1, <2>2 DEF LoadInv
  <2>4. Indices = 1 .. Len(Data) /\ Len(Data) \in 1 .. 3
    BY <1>2, BoardFacts
  <2> HIDE DEF i
  <2> QED BY <2>2, <2>3, <2>4
<1>5. \A c \in Clients : call[c].buf # b
  <2> SUFFICES ASSUME NEW c \in Clients, call[c].buf = b PROVE FALSE
    OBVIOUS
  <2>1. CallOK(c, call[c]) /\ b # 0
    BY <1>2, OmapIonAssumption DEF CallsInv
  <2>2. buffer[b] = HandleOf(c)
    BY <2>1 DEF CallOK
  <2>3. buffer[b].client = c
    BY <2>2, HandleTyped
  <2> QED BY <1>1, <2>3
<1>6. BufOK(b, NoBuf)
  BY DEF BufOK
<1>7. /\ buffer' \in [BufferIds -> Bufs] /\ buffer'[b] = NoBuf
      /\ \A d \in BufferIds : d # b => buffer'[d] = buffer[d]
      /\ holds[b] = PagesOf(buffer[b].pages) \cup PagesOf(info.pages)
      /\ holds'[b] = PagesOf(NoBuf.pages) \cup PagesOf(NoBuf.info.pages)
      /\ \A d \in BufferIds : d # b => holds'[d] = holds[d]
      /\ bareas[b] = info.area /\ bareas'[b] = NoBuf.info.area
      /\ \A d \in BufferIds : d # b => bareas'[d] = bareas[d]
  BY <1>1, <1>2, NothingTyped, BufChanges
<1> HIDE DEF i, info
<1>8. DmaMapped' = DmaMapped /\ Remapped' = Remapped /\ Busy' = Busy
  <2>1. DmaMapped' = DmaMapped
    BY <1>1, <1>7, NothingTyped DEF DmaMapped
  <2>2. Remapped' = Remapped
    BY <1>1, <1>7, NothingTyped DEF Remapped, Free, TypeOf, Data
  <2>3. Busy' = Busy
    BY <1>1 DEF Busy
  <2> QED BY <2>1, <2>2, <2>3
<1>9. Filled \subseteq BufferIds /\ Cardinality(Busy) \in Nat /\ infos = Cardinality(Busy) + Cardinality(Filled)
  <2>1. Busy \subseteq Clients
    BY DEF Busy
  <2> QED BY <1>2, <2>1, FS_Subset, FS_CardinalityType, OmapIonAssumption DEF Filled, Counts
<1>10. CASE TilerFree(b)
  <2>1. /\ TypeOf(i) = Tiler /\ area' = [area EXCEPT ![info.area] = "free"]
        /\ GiveBack(i, PagesOf(info.pages)) /\ infos' = infos - 1
    BY <1>10 DEF TilerFree, i, info
  <2>2. buffer[b].pages = <<>> /\ info.area \in Areas
    BY <1>1, <1>3, <2>1 DEF TilerBufOK, info
  <2>3. oops' = oops /\ taken' = taken \ holds[b]
    BY <1>3, <1>7, <2>1, <2>2, PagesOfFacts DEF GiveBack
  <2>4. /\ area' \in AreaTypes /\ area'[info.area] = "free"
        /\ \A x \in Areas : x # info.area => area'[x] = area[x]
    BY <1>2, <2>1, <2>2 DEF AreaTypes
  <2>5. AreaLedger(bareas', careas, pcs, area')
    <3>1. bareas[b] = info.area /\ bareas'[b] = 0 /\ \A d \in BufferIds : d # b => bareas'[d] = bareas[d]
      BY <1>7, NothingTyped
    <3>2. 0 \notin Areas /\ AreaLedger(bareas, careas, pcs, area)
      BY <1>2, OmapIonAssumption
    <3> QED BY <2>2, <2>4, <3>1, <3>2 DEF AreaLedger
  <2>6. Filled' = Filled \ {b} /\ b \in Filled
    <3>1. info # NoInfo /\ NoBuf.info = NoInfo
      BY <2>2, NothingTyped, OmapIonAssumption
    <3> QED BY <1>7, <3>1 DEF Filled, info
  <2>7. Counts'
    <3>1. Cardinality(Filled') = Cardinality(Filled) - 1 /\ Cardinality(Filled) \in Nat
      BY <1>9, <2>6, CountOne
    <3>2. infos' = Cardinality(Busy) + Cardinality(Filled')
      BY <1>9, <2>1, <3>1
    <3> QED BY <1>1, <1>2, <1>8, <3>2 DEF Counts
  <2>8. PageLedger(holds', owes, taken')
    <3>1. holds'[b] = {} /\ \A d \in BufferIds : d # b => holds'[d] = holds[d]
      BY <1>7, NothingTyped, PagesOfFacts
    <3>2. PageLedger(holds, owes, taken)
      BY <1>2
    <3> QED BY <2>3, <3>1, <3>2 DEF PageLedger
  <2> QED BY <1>1, <1>2, <1>5, <1>6, <2>3, <2>4, <2>5, <2>7, <2>8, NothingTyped, BufStep
<1>11. CASE CarveoutFree(b) \/ SystemFree(b) \/ ContigFree(b)
  <2>1. TypeOf(i) # Tiler /\ area' = area /\ infos' = infos
    BY <1>11 DEF CarveoutFree, SystemFree, ContigFree, Carveout, Tiler, System, Contig, i
  <2>2. info = NoInfo
    BY <1>3, <2>1
  <2>3. oops' = oops /\ taken' = taken \ holds[b]
    <3>1. holds[b] = PagesOf(buffer[b].pages) /\ holds[b] \subseteq Pool(i)
      BY <1>3, <1>7, <2>2, NothingTyped, PagesOfFacts
    <3>2. CASE CarveoutFree(b)
      BY <3>1, <3>2 DEF CarveoutFree, GiveBack, i
    <3>3. CASE SystemFree(b) \/ ContigFree(b)
      <4>1. TypeOf(i) \notin {Carveout, Tiler} /\ taken' = taken /\ oops' = oops
        BY <3>3 DEF SystemFree, ContigFree, Carveout, Tiler, System, Contig, i
      <4>2. Pool(i) = {}
        BY <1>2, <1>4, <4>1, PoolFacts DEF HasPool
      <4> QED BY <3>1, <4>1, <4>2
    <3> QED BY <1>11, <3>2, <3>3
  <2>4. bareas' = bareas
    BY <1>7, <2>2, NothingTyped DEF bareas
  <2>5. Counts'
    <3>1. Filled' = Filled
      BY <1>7, <2>2, NothingTyped DEF Filled, info
    <3> QED BY <1>1, <1>2, <1>8, <2>1, <3>1 DEF Counts
  <2>6. PageLedger(holds', owes, taken')
    <3>1. holds'[b] = {} /\ \A d \in BufferIds : d # b => holds'[d] = holds[d]
      BY <1>7, NothingTyped, PagesOfFacts
    <3>2. PageLedger(holds, owes, taken)
      BY <1>2
    <3> QED BY <2>3, <3>1, <3>2 DEF PageLedger
  <2> QED BY <1>1, <1>2, <1>5, <1>6, <2>1, <2>3, <2>4, <2>5, <2>6, NothingTyped, BufStep
<1> QED BY <1>1, <1>10, <1>11

(* Mapping: the heap's operations decide who can be mapped at all, and a    *)
(* tiler buffer cannot.                                                     *)
LEMMA TilerUnmapped ==
  ASSUME NEW i, TypeOf(i) = Tiler
  PROVE  ~HasMapDma(i) /\ ~HasMapKernel(i)
<1>1. Ops(i) = TilerOps
  BY DEF Ops, Tiler, Carveout, System, Contig
<1> QED BY <1>1 DEF HasMapDma, HasMapKernel, TilerOps

(* A step on the mappings of one buffer keeps all but the counts of mappings. *)
LEMMA MapsStep ==
  ASSUME HeapsInv, NEW b \in BufferIds, NEW how \in SUBSET {"dma", "kernel"},
         buffer' = Maps(b, how), buffer[b] # NoBuf, TypeOf(buffer[b].on) # Tiler,
         UNCHANGED <<Shared>>,
         \/ DmaMapped' = DmaMapped /\ sglists' = sglists
         \/ b \notin DmaMapped /\ DmaMapped' = DmaMapped \cup {b} /\ sglists' = sglists + 1
         \/ b \in DmaMapped /\ DmaMapped' = DmaMapped \ {b} /\ sglists' = sglists - 1,
         \/ Remapped' = Remapped /\ iomaps' = iomaps
         \/ b \notin Remapped /\ Remapped' = Remapped \cup {b} /\ iomaps' = iomaps + 1
         \/ b \in Remapped /\ Remapped' = Remapped \ {b} /\ iomaps' = iomaps - 1
  PROVE  HeapsInv'
<1> DEFINE r == [buffer[b] EXCEPT !.maps = how]
<1>1. /\ UNCHANGED <<board, probe, heap, trial, taken, area, infos, call, oops>>
      /\ CallsInv /\ BufsInv /\ LoadInv /\ Counts /\ board \in Boards
      /\ PageLedger(holds, owes, taken) /\ area \in AreaTypes
      /\ AreaLedger(bareas, careas, pcs, area) /\ oops \subseteq {"client", "remove"}
  BY DEF HeapsInv, AreaTypes, LoadInv, Shared
<1>2. buffer[b] \in Bufs /\ BufOK(b, buffer[b])
  BY <1>1 DEF BufsInv
<1>3. /\ r \in Bufs /\ r.client = buffer[b].client /\ r.on = buffer[b].on
      /\ r.pages = buffer[b].pages /\ r.info = buffer[b].info
  BY <1>2 DEF Bufs
<1>4. buffer' = [buffer EXCEPT ![b] = r]
  BY <1>1 DEF Maps, BufsInv
<1> HIDE DEF r
<1>5. BufOK(b, r)
  BY <1>2, <1>3 DEF BufOK
<1>6. \A c \in Clients : call[c].buf # b
  BY <1>1, NoCallsBuf
<1>7. /\ buffer'[b] = r /\ \A d \in BufferIds : d # b => buffer'[d] = buffer[d]
      /\ holds[b] = PagesOf(buffer[b].pages) \cup PagesOf(buffer[b].info.pages)
      /\ holds'[b] = PagesOf(r.pages) \cup PagesOf(r.info.pages)
      /\ \A d \in BufferIds : d # b => holds'[d] = holds[d]
      /\ bareas[b] = buffer[b].info.area /\ bareas'[b] = r.info.area
      /\ \A d \in BufferIds : d # b => bareas'[d] = bareas[d]
  BY ZenonT(40), <1>1, <1>3, <1>4, BufChanges
<1>8. holds' = holds
  BY <1>3, <1>7 DEF holds
<1>9. bareas' = bareas
  BY <1>3, <1>7 DEF bareas
<1>10. Counts'
  <2>1. Filled' = Filled /\ Busy' = Busy
    BY <1>1, <1>3, <1>7 DEF Filled, Busy
  <2>2. DmaMapped \subseteq BufferIds /\ Remapped \subseteq BufferIds
    BY DEF DmaMapped, Remapped
  <2>3. sglists = Cardinality(DmaMapped) /\ iomaps = Cardinality(Remapped)
    BY <1>1 DEF Counts
  <2>4. sglists' = Cardinality(DmaMapped')
    BY <2>2, <2>3, CountOne
  <2>5. iomaps' = Cardinality(Remapped')
    BY <2>2, <2>3, CountOne
  <2> QED BY <1>1, <2>1, <2>4, <2>5 DEF Counts
<1> QED BY <1>1, <1>3, <1>4, <1>5, <1>6, <1>8, <1>9, <1>10, BufStep

(* Mapping and unmapping count what they make and give back.                *)
LEMMA MapStepsInv ==
  ASSUME HeapsInv, NEW b \in BufferIds, MapDma(b) \/ UnmapDma(b) \/ MapKernel(b) \/ UnmapKernel(b)
  PROVE  HeapsInv' /\ oops' = oops
<1> DEFINE r == [buffer[b] EXCEPT !.maps = {}]
<1>1. buffer \in [BufferIds -> Bufs] /\ buffer[b] \in Bufs /\ BufOK(b, buffer[b])
  BY DEF HeapsInv, BufsInv
<1>2. buffer[b].maps \in SUBSET {"dma", "kernel"} /\ NoBuf.maps = {}
  BY <1>1, NothingTyped DEF Bufs
<1>3. \A how \in SUBSET {"dma", "kernel"} : buffer' = Maps(b, how) =>
         /\ buffer'[b].maps = how /\ buffer'[b].on = buffer[b].on /\ buffer'[b].client = buffer[b].client
         /\ \A d \in BufferIds : d # b => buffer'[d] = buffer[d]
  BY <1>1 DEF Maps, Bufs
<1>4. /\ UNCHANGED <<Shared>> /\ UNCHANGED board
      /\ buffer[b] # NoBuf /\ TypeOf(buffer[b].on) # Tiler
  <2>1. UNCHANGED <<Shared>>
    BY DEF MapDma, UnmapDma, MapKernel, UnmapKernel
  <2>2. CASE UnmapDma(b) \/ UnmapKernel(b)
    <3>1. buffer[b].maps # {}
      BY <2>2 DEF UnmapDma, UnmapKernel
    <3> QED BY <1>1, <1>2, <2>1, <3>1 DEF BufOK, TilerBufOK, Shared
  <2>3. CASE MapDma(b) \/ MapKernel(b)
    BY <2>1, <2>3, TilerUnmapped DEF MapDma, MapKernel, Free, Shared
  <2> QED BY <2>2, <2>3
<1>5. buffer[b].client \in Clients /\ "none" \notin Clients /\ NoBuf.client = "none"
  BY <1>1, <1>4, NothingTyped, OmapIonAssumption DEF BufOK
<1>6. oops' = oops
  BY <1>4 DEF Shared
<1>7. \A how \in SUBSET {"dma", "kernel"} : buffer' = Maps(b, how) =>
        /\ DmaMapped' = IF "dma" \in how THEN DmaMapped \cup {b} ELSE DmaMapped \ {b}
        /\ Remapped' = IF "kernel" \in how /\ TypeOf(buffer[b].on) = Carveout
                       THEN Remapped \cup {b} ELSE Remapped \ {b}
  <2> TAKE how \in SUBSET {"dma", "kernel"}
  <2> HAVE buffer' = Maps(b, how)
  <2>1. /\ buffer'[b].maps = how /\ buffer'[b].on = buffer[b].on /\ buffer'[b].client = buffer[b].client
        /\ \A d \in BufferIds : d # b => buffer'[d] = buffer[d]
    BY <1>3
  <2>2. buffer'[b] # NoBuf
    BY <1>5, <2>1
  <2>3. DmaMapped' = IF "dma" \in how THEN DmaMapped \cup {b} ELSE DmaMapped \ {b}
    BY <2>1 DEF DmaMapped
  <2>4. Remapped' = IF "kernel" \in how /\ TypeOf(buffer[b].on) = Carveout
                       THEN Remapped \cup {b} ELSE Remapped \ {b}
    BY <1>4, <2>1, <2>2 DEF Remapped, Free, TypeOf, Data
  <2> QED BY <2>3, <2>4
<1>8. /\ b \in DmaMapped <=> "dma" \in buffer[b].maps
      /\ b \in Remapped <=> "kernel" \in buffer[b].maps /\ TypeOf(buffer[b].on) = Carveout
  BY <1>4 DEF DmaMapped, Remapped, Free
<1>9. CASE MapDma(b)
  <2>1. /\ buffer' = Maps(b, buffer[b].maps \cup {"dma"}) /\ sglists' = sglists + 1 /\ iomaps' = iomaps
        /\ "dma" \notin buffer[b].maps
    BY <1>9 DEF MapDma, SystemSglist, ContigSglist, Sglist
  <2>2. /\ buffer[b].maps \cup {"dma"} \in SUBSET {"dma", "kernel"}
        /\ b \notin DmaMapped /\ DmaMapped' = DmaMapped \cup {b} /\ Remapped' = Remapped
    <3> DEFINE how == buffer[b].maps \cup {"dma"}
    <3>1. how \in SUBSET {"dma", "kernel"} /\ buffer' = Maps(b, how)
      BY <1>2, <2>1
    <3>2. /\ "dma" \in how <=> TRUE
          /\ "kernel" \in how <=> "kernel" \in buffer[b].maps
      BY <2>1
    <3> HIDE DEF how
    <3>3. /\ DmaMapped' = IF "dma" \in how THEN DmaMapped \cup {b} ELSE DmaMapped \ {b}
          /\ Remapped' = IF "kernel" \in how /\ TypeOf(buffer[b].on) = Carveout
                         THEN Remapped \cup {b} ELSE Remapped \ {b}
      BY <1>7, <3>1
    <3>4. how \in SUBSET {"dma", "kernel"}
      BY <3>1
    <3>5. b \notin DmaMapped /\ DmaMapped' = DmaMapped \cup {b}
      BY <1>8, <2>1, <3>2, <3>3
    <3>6. Remapped' = Remapped
      BY <1>8, <2>1, <3>2, <3>3
    <3> QED BY <3>4, <3>5, <3>6 DEF how
  <2> QED BY <1>4, <1>6, <2>1, <2>2, MapsStep
<1>10. CASE UnmapDma(b)
  <2>1. /\ buffer' = Maps(b, buffer[b].maps \ {"dma"}) /\ sglists' = sglists - 1 /\ iomaps' = iomaps
        /\ "dma" \in buffer[b].maps
    BY <1>10 DEF UnmapDma
  <2>2. /\ buffer[b].maps \ {"dma"} \in SUBSET {"dma", "kernel"}
        /\ b \in DmaMapped /\ DmaMapped' = DmaMapped \ {b} /\ Remapped' = Remapped
    <3> DEFINE how == buffer[b].maps \ {"dma"}
    <3>1. how \in SUBSET {"dma", "kernel"} /\ buffer' = Maps(b, how)
      BY <1>2, <2>1
    <3>2. /\ "dma" \in how <=> FALSE
          /\ "kernel" \in how <=> "kernel" \in buffer[b].maps
      BY <2>1
    <3> HIDE DEF how
    <3>3. /\ DmaMapped' = IF "dma" \in how THEN DmaMapped \cup {b} ELSE DmaMapped \ {b}
          /\ Remapped' = IF "kernel" \in how /\ TypeOf(buffer[b].on) = Carveout
                         THEN Remapped \cup {b} ELSE Remapped \ {b}
      BY <1>7, <3>1
    <3>4. how \in SUBSET {"dma", "kernel"}
      BY <3>1
    <3>5. b \in DmaMapped /\ DmaMapped' = DmaMapped \ {b}
      BY <1>8, <2>1, <3>2, <3>3
    <3>6. Remapped' = Remapped
      BY <1>8, <2>1, <3>2, <3>3
    <3> QED BY <3>4, <3>5, <3>6 DEF how
  <2> QED BY <1>4, <1>6, <2>1, <2>2, MapsStep
<1>11. CASE MapKernel(b)
  <2>1. /\ buffer' = Maps(b, buffer[b].maps \cup {"kernel"}) /\ sglists' = sglists
        /\ iomaps' = iomaps + Ioremaps(b) /\ "kernel" \notin buffer[b].maps
    BY <1>11 DEF MapKernel
  <2>2. /\ buffer[b].maps \cup {"kernel"} \in SUBSET {"dma", "kernel"} /\ DmaMapped' = DmaMapped
        /\ TypeOf(buffer[b].on) = Carveout => b \notin Remapped /\ Remapped' = Remapped \cup {b}
        /\ TypeOf(buffer[b].on) # Carveout => Remapped' = Remapped
    <3> DEFINE how == buffer[b].maps \cup {"kernel"}
    <3>1. how \in SUBSET {"dma", "kernel"} /\ buffer' = Maps(b, how)
      BY <1>2, <2>1
    <3>2. /\ "dma" \in how <=> "dma" \in buffer[b].maps
          /\ "kernel" \in how <=> TRUE
      BY <2>1
    <3> HIDE DEF how
    <3>3. /\ DmaMapped' = IF "dma" \in how THEN DmaMapped \cup {b} ELSE DmaMapped \ {b}
          /\ Remapped' = IF "kernel" \in how /\ TypeOf(buffer[b].on) = Carveout
                         THEN Remapped \cup {b} ELSE Remapped \ {b}
      BY <1>7, <3>1
    <3>4. how \in SUBSET {"dma", "kernel"}
      BY <3>1
    <3>5. DmaMapped' = DmaMapped
      BY <1>8, <2>1, <3>2, <3>3
    <3>6. /\ TypeOf(buffer[b].on) = Carveout => b \notin Remapped /\ Remapped' = Remapped \cup {b}
          /\ TypeOf(buffer[b].on) # Carveout => Remapped' = Remapped
      BY <1>8, <2>1, <3>2, <3>3
    <3> QED BY <3>4, <3>5, <3>6 DEF how
  <2>3. \/ Remapped' = Remapped /\ iomaps' = iomaps
        \/ b \notin Remapped /\ Remapped' = Remapped \cup {b} /\ iomaps' = iomaps + 1
    <3>1. iomaps \in Nat
      BY CountOne DEF HeapsInv, Counts, Remapped
    <3> QED BY <2>1, <2>2, <3>1 DEF Ioremaps
  <2> QED BY <1>4, <1>6, <2>1, <2>2, <2>3, MapsStep
<1>12. CASE UnmapKernel(b)
  <2>1. /\ buffer' = Maps(b, buffer[b].maps \ {"kernel"}) /\ sglists' = sglists
        /\ iomaps' = iomaps - Ioremaps(b) /\ "kernel" \in buffer[b].maps
    BY <1>12 DEF UnmapKernel
  <2>2. /\ buffer[b].maps \ {"kernel"} \in SUBSET {"dma", "kernel"} /\ DmaMapped' = DmaMapped
        /\ TypeOf(buffer[b].on) = Carveout => b \in Remapped /\ Remapped' = Remapped \ {b}
        /\ TypeOf(buffer[b].on) # Carveout => Remapped' = Remapped
    <3> DEFINE how == buffer[b].maps \ {"kernel"}
    <3>1. how \in SUBSET {"dma", "kernel"} /\ buffer' = Maps(b, how)
      BY <1>2, <2>1
    <3>2. /\ "dma" \in how <=> "dma" \in buffer[b].maps
          /\ "kernel" \in how <=> FALSE
      BY <2>1
    <3> HIDE DEF how
    <3>3. /\ DmaMapped' = IF "dma" \in how THEN DmaMapped \cup {b} ELSE DmaMapped \ {b}
          /\ Remapped' = IF "kernel" \in how /\ TypeOf(buffer[b].on) = Carveout
                         THEN Remapped \cup {b} ELSE Remapped \ {b}
      BY <1>7, <3>1
    <3>4. how \in SUBSET {"dma", "kernel"}
      BY <3>1
    <3>5. DmaMapped' = DmaMapped
      BY <1>8, <2>1, <3>2, <3>3
    <3>6. /\ TypeOf(buffer[b].on) = Carveout => b \in Remapped /\ Remapped' = Remapped \ {b}
          /\ TypeOf(buffer[b].on) # Carveout => Remapped' = Remapped
      BY <1>8, <2>1, <3>2, <3>3
    <3> QED BY <3>4, <3>5, <3>6 DEF how
  <2>3. \/ Remapped' = Remapped /\ iomaps' = iomaps
        \/ b \in Remapped /\ Remapped' = Remapped \ {b} /\ iomaps' = iomaps - 1
    <3>1. iomaps \in Nat
      BY CountOne DEF HeapsInv, Counts, Remapped
    <3> QED BY <2>1, <2>2, <3>1 DEF Ioremaps
  <2> QED BY <1>4, <1>6, <2>1, <2>2, <2>3, MapsStep
<1> QED BY <1>9, <1>10, <1>11, <1>12

-----------------------------------------------------------------------------
(* Loading, and the theorems.                                              *)
LEMMA LoadStep ==
  ASSUME HeapsInv, LoadInv', UNCHANGED <<board, taken, area, infos, sglists, iomaps, call, buffer>>,
         oops' \subseteq {"client", "remove"},
         \A b \in BufferIds : \A i : InTree(i) /\ buffer[b].on = i /\ ~Free(b) => \E k \in DOMAIN trial' : trial'[k] = i
  PROVE  HeapsInv'
<1>1. CallsInv'
  <2>1. ASSUME NEW c \in Clients PROVE CallOK(c, call[c])'
    <3>1. CallOK(c, call[c])
      BY DEF HeapsInv, CallsInv
    <3> QED BY <3>1 DEF CallOK, Pool, HasPool, TypeOf, Data
  <2> QED BY <2>1 DEF HeapsInv, CallsInv
<1>2. BufsInv'
  <2>1. ASSUME NEW b \in BufferIds PROVE BufOK(b, buffer[b])'
    <3>1. BufOK(b, buffer[b])
      BY DEF HeapsInv, BufsInv
    <3>2. buffer[b] # NoBuf => InTree(buffer[b].on)'
      BY <3>1 DEF BufOK, InTree, Free
    <3>3. /\ Pool(buffer[b].on)' = Pool(buffer[b].on)
          /\ TypeOf(buffer[b].on)' = TypeOf(buffer[b].on)
      BY DEF Pool, HasPool, TypeOf, Data
    <3>4. TilerBufOK(b, buffer[b]) => TilerBufOK(b, buffer[b])'
      BY DEF TilerBufOK
    <3> QED BY <3>1, <3>2, <3>3, <3>4 DEF BufOK
  <2> QED BY <2>1 DEF HeapsInv, BufsInv
<1>3. /\ holds' = holds /\ owes' = owes /\ bareas' = bareas /\ careas' = careas /\ pcs' = pcs
  BY DEF holds, Holds, owes, bareas, careas, pcs, PagesOf
<1>4. Counts'
  BY DEF HeapsInv, Counts, Busy, Filled, DmaMapped, Remapped, Free, TypeOf, Data
<1> QED BY <1>1, <1>2, <1>3, <1>4 DEF HeapsInv

(* The tree is the heaps 1, 2, ... made so far. *)
LEMMA TreeFacts ==
  ASSUME LoadInv
  PROVE  /\ Len(trial) \in Nat /\ DOMAIN trial = 1 .. Len(trial)
         /\ Indices = 1 .. Len(Data) /\ Len(Data) \in 1 .. 3
         /\ \A i : InTree(i) <=> i \in 1 .. Len(trial)
         /\ \A i : InTree(i) => i \in Indices
<1>1. Len(trial) \in Nat /\ DOMAIN trial = 1 .. Len(trial)
  BY LenProperties DEF LoadInv
<1>2. Indices = 1 .. Len(Data) /\ Len(Data) \in 1 .. 3
  BY BoardFacts DEF LoadInv
<1> DEFINE n == Len(trial)
<1>3. \A k \in 1 .. n : trial[k] = n + 1 - k
  BY <1>1 DEF LoadInv
<1>4. ASSUME NEW i PROVE InTree(i) <=> i \in 1 .. n
  <2>1. ASSUME InTree(i) PROVE i \in 1 .. n
    <3>1. PICK k \in 1 .. n : trial[k] = i
      BY <1>1, <2>1 DEF InTree
    <3> QED BY <1>1, <1>3, <3>1
  <2>2. ASSUME i \in 1 .. n PROVE InTree(i)
    <3>1. n + 1 - i \in 1 .. n /\ n + 1 - (n + 1 - i) = i
      BY <1>1, <2>2
    <3>2. trial[n + 1 - i] = i
      BY <1>3, <3>1
    <3> QED BY <1>1, <3>1, <3>2 DEF InTree
  <2> QED BY <2>1, <2>2
<1>5. n <= Len(Data)
  BY DEF LoadInv
<1>6. ASSUME NEW i, InTree(i) PROVE i \in Indices
  BY <1>1, <1>2, <1>4, <1>5, <1>6
<1> QED BY <1>1, <1>2, <1>4, <1>6

(* The probe begins with an empty tree.                                     *)
LEMMA ProbeBeginInv == HeapsInv /\ ProbeBegin => HeapsInv' /\ oops' = {}
<1> SUFFICES ASSUME HeapsInv, ProbeBegin PROVE HeapsInv' /\ oops' = {}
  OBVIOUS
<1>1. /\ probe = "no" /\ probe' = "runs" /\ oops = {} /\ oops' = oops
      /\ UNCHANGED <<board, heap, trial, taken, area, infos, sglists, iomaps, call, buffer>>
  BY DEF ProbeBegin
<1>2. LoadInv /\ trial = <<>> /\ \A i \in Indices : heap[i] = "none"
  BY <1>1 DEF HeapsInv, LoadInv
<1>3. Len(trial) < Len(Data) /\ Len(trial) = 0 /\ \A i : ~InTree(i)
  <2>1. Len(trial) = 0 /\ Len(Data) \in 1 .. 3
    BY <1>2, TreeFacts
  <2> QED BY <1>2, <2>1, TreeFacts
<1>4. \A i : InTree(i)' <=> InTree(i)
  BY <1>1 DEF InTree
<1>5. Indices' = Indices /\ Data' = Data
  BY <1>1 DEF Indices, Data
<1>6. LoadInv'
  BY <1>1, <1>2, <1>3, <1>4, <1>5 DEF LoadInv
<1> QED BY <1>1, <1>6, LoadStep DEF InTree, HeapsInv

(* A heap is made before it is in the tree.                                 *)
LEMMA ProbeCreateInv == HeapsInv /\ ProbeCreate => HeapsInv' /\ oops' = {}
<1> SUFFICES ASSUME HeapsInv, ProbeCreate PROVE HeapsInv' /\ oops' = {}
  OBVIOUS
<1>1. /\ probe = "runs" /\ probe' = probe /\ oops = {} /\ oops' = oops
      /\ heap' = [heap EXCEPT ![Making] = "made"]
      /\ UNCHANGED <<board, trial, taken, area, infos, sglists, iomaps, call, buffer>>
  BY DEF ProbeCreate
<1>2. LoadInv /\ heap \in [Indices -> {"none", "made", "freed", "leaked"}]
      /\ \A i \in Indices : i > Making => heap[i] = "none"
  BY <1>1 DEF HeapsInv, LoadInv
<1>3. Making \in Indices
  <2>1. Len(trial) < Len(Data)
    BY <1>1, <1>2 DEF LoadInv
  <2> QED BY <1>2, <2>1, TreeFacts DEF Making
<1>4. /\ heap' \in [Indices -> {"none", "made", "freed", "leaked"}] /\ heap'[Making] = "made"
      /\ \A i \in Indices : i # Making => heap'[i] = heap[i]
  BY <1>1, <1>2, <1>3
<1>5. \A i \in Indices : i > Making => heap'[i] = "none"
  <2>1. Making \in Nat
    BY <1>2, <1>3, TreeFacts
  <2>2. \A i \in Indices : i > Making => i # Making
    BY <1>2, <2>1, TreeFacts
  <2> QED BY <1>2, <1>4, <2>2
<1>6. \A i \in Indices : InTree(i) /\ heap'[i] # "made" => probe = "died" /\ heap'[i] = "freed"
  BY <1>2, <1>4 DEF LoadInv, Dangling
<1>7. Indices' = Indices /\ Data' = Data /\ Making' = Making
  BY <1>1 DEF Indices, Data, Making
<1>8. \A i : InTree(i)' <=> InTree(i)
  BY <1>1 DEF InTree
<1>9. LoadInv'
  BY <1>1, <1>2, <1>4, <1>5, <1>6, <1>7, <1>8 DEF LoadInv, Dangling
<1> QED BY <1>1, <1>9, LoadStep DEF InTree, HeapsInv

(* A heap that was made is added in front.                                  *)
LEMMA ProbeAddInv == HeapsInv /\ ProbeAdd => HeapsInv' /\ oops' = {}
<1> SUFFICES ASSUME HeapsInv, ProbeAdd PROVE HeapsInv' /\ oops' = {}
  OBVIOUS
<1>1. /\ probe = "runs" /\ oops = {} /\ oops' = oops /\ heap[Making] = "made"
      /\ trial' = <<Making>> \o trial
      /\ probe' = IF Making = Len(Data) THEN "done" ELSE probe
      /\ UNCHANGED <<board, heap, taken, area, infos, sglists, iomaps, call, buffer>>
  BY DEF ProbeAdd
<1>2. /\ LoadInv /\ trial \in Seq(Nat) /\ heap \in [Indices -> {"none", "made", "freed", "leaked"}]
      /\ board \in Boards
      /\ Len(trial) < Len(Data) /\ \A i \in Indices : i > Making => heap[i] = "none"
  BY <1>1 DEF HeapsInv, LoadInv
<1> DEFINE n == Len(trial)
<1>3. n \in Nat /\ Making = n + 1 /\ Len(Data) \in 1 .. 3 /\ DOMAIN trial = 1 .. n
  BY <1>2, TreeFacts DEF Making
<1>4. /\ trial' \in Seq(Nat) /\ Len(trial') = n + 1 /\ DOMAIN trial' = 1 .. n + 1
      /\ \A k \in 1 .. n + 1 : trial'[k] = IF k = 1 THEN n + 1 ELSE trial[k - 1]
  <2>1. <<Making>> \in Seq(Nat) /\ Len(<<Making>>) = 1 /\ <<Making>>[1] = n + 1
    BY <1>3
  <2>2. /\ trial' \in Seq(Nat) /\ Len(trial') = 1 + n
        /\ \A k \in 1 .. 1 + n : trial'[k] = IF k <= 1 THEN <<Making>>[k] ELSE trial[k - 1]
    BY <1>1, <1>2, <2>1, ConcatProperties
  <2>3. DOMAIN trial' = 1 .. Len(trial')
    BY <2>2, LenProperties
  <2>4. \A k \in 1 .. n + 1 : trial'[k] = IF k = 1 THEN n + 1 ELSE trial[k - 1]
    BY <1>3, <2>1, <2>2
  <2> QED BY <1>3, <2>2, <2>3, <2>4
<1>5. \A k \in DOMAIN trial : trial[k] = n + 1 - k
  BY <1>2 DEF LoadInv
<1> HIDE DEF n
<1>6. \A k \in 1 .. n + 1 : trial'[k] = n + 1 + 1 - k
  <2> TAKE k \in 1 .. n + 1
  <2>1. CASE k = 1
    BY <1>3, <1>4, <2>1
  <2>2. CASE k # 1
    <3>1. k - 1 \in 1 .. n
      BY <1>3, <2>2
    <3>2. trial[k - 1] = n + 1 - (k - 1)
      BY <1>3, <1>5, <3>1
    <3> QED BY <1>3, <1>4, <2>2, <3>2
  <2> QED BY <2>1, <2>2
<1>7. \A i : InTree(i)' => i = Making \/ InTree(i)
  <2> SUFFICES ASSUME NEW i, NEW k \in DOMAIN trial', trial'[k] = i PROVE i = Making \/ InTree(i)
    BY DEF InTree
  <2>1. CASE k = 1
    BY <1>3, <1>4, <2>1
  <2>2. CASE k # 1
    <3>1. k \in 1 .. n + 1 /\ k - 1 \in 1 .. n
      BY <1>3, <1>4, <2>2
    <3>2. trial'[k] = trial[k - 1]
      BY <1>4, <2>2, <3>1
    <3> QED BY <1>3, <3>1, <3>2 DEF InTree
  <2> QED BY <2>1, <2>2
<1>8. \A i : InTree(i) => \E k \in DOMAIN trial' : trial'[k] = i
  <2> SUFFICES ASSUME NEW i, NEW k \in DOMAIN trial, trial[k] = i PROVE \E x \in DOMAIN trial' : trial'[x] = i
    BY DEF InTree
  <2>1. k + 1 \in 1 .. n + 1 /\ k + 1 # 1 /\ k + 1 - 1 = k
    BY <1>3
  <2>2. trial'[k + 1] = trial[k + 1 - 1]
    BY <1>4, <2>1
  <2> QED BY <1>4, <2>1, <2>2
<1>9. Indices' = Indices /\ Data' = Data
  BY <1>1 DEF Indices, Data
<1>10. \A i \in Indices : InTree(i) => heap[i] = "made"
  BY <1>1, <1>2 DEF LoadInv, Dangling
<1>11. \A i \in Indices : InTree(i)' /\ heap'[i] # "made" => FALSE
  BY <1>1, <1>7, <1>10
<1>12. probe' = "runs" => Len(trial') < Len(Data) /\ Making' = n + 2
  <2>1. Making' = n + 2
    BY <1>3, <1>4 DEF Making
  <2>2. probe' = "runs" => n + 1 # Len(Data)
    BY <1>1, <1>3
  <2>3. Len(trial') <= Len(Data)
    BY <1>2, <1>3, <1>4 DEF n
  <2> QED BY <1>3, <1>4, <2>1, <2>2, <2>3
<1>13. \A i \in Indices : i > n + 2 => heap[i] = "none"
  <2>1. \A i \in Indices : i \in Nat
    BY <1>2, TreeFacts
  <2>2. \A i \in Indices : i > n + 2 => i > Making
    BY <1>3, <2>1
  <2> QED BY <1>2, <2>2
<1>14. Len(trial') <= Len(Data)
  BY <1>2, <1>3, <1>4 DEF n
<1>15. LoadInv'
  <2>1. probe' \in {"runs", "done"}
    BY <1>1
  <2>2. probe' = "runs" => \A i \in Indices' : i > Making' => heap'[i] = "none"
    BY <1>1, <1>9, <1>12, <1>13
  <2>3. \A k \in DOMAIN trial' : trial'[k] = Len(trial') + 1 - k
    BY <1>4, <1>6
  <2>4. \A i \in Indices' : InTree(i)' /\ Dangling(i)' => probe' = "died" /\ heap'[i] = "freed"
    BY <1>9, <1>11 DEF Dangling
  <2> QED BY <1>1, <1>2, <1>4, <1>9, <1>12, <1>14, <2>1, <2>2, <2>3, <2>4 DEF LoadInv
<1> QED BY <1>1, <1>8, <1>15, LoadStep DEF HeapsInv

(* A failed probe: the only heap that it both destroys and leaves in the    *)
(* tree is one without a tiler's pool.                                      *)
LEMMA ProbeFailsInv == HeapsInv /\ ProbeFails => HeapsInv' /\ oops' = {}
<1> SUFFICES ASSUME HeapsInv, ProbeFails PROVE HeapsInv' /\ oops' = {}
  OBVIOUS
<1>1. /\ probe = "runs" /\ oops = {} /\ oops' = oops /\ probe' = "died"
      /\ heap' = [i \in Indices |-> IF heap[i] = "made" /\ TypeOf(Making) # Tiler
                                    THEN DestroyHeap(i) ELSE heap[i]]
      /\ UNCHANGED <<board, trial, taken, area, infos, sglists, iomaps, call, buffer>>
  BY DEF ProbeFails
<1>2. /\ LoadInv /\ heap \in [Indices -> {"none", "made", "freed", "leaked"}] /\ board \in Boards
      /\ Len(trial) < Len(Data)
  BY <1>1 DEF HeapsInv, LoadInv
<1>3. \A i \in Indices : DestroyHeap(i) \in {"freed", "leaked"}
  BY DEF DestroyHeap, TilerDestroy
<1>4. heap' \in [Indices -> {"none", "made", "freed", "leaked"}]
  BY <1>1, <1>2, <1>3
<1>5. \A i \in Indices : InTree(i) => heap[i] = "made"
  BY <1>1, <1>2 DEF LoadInv, Dangling
<1>6. ASSUME NEW i \in Indices, InTree(i), heap'[i] # "made" PROVE heap'[i] = "freed"
  <2>1. TypeOf(Making) # Tiler /\ heap'[i] = DestroyHeap(i)
    BY <1>1, <1>5, <1>6
  <2>2. TypeOf(i) # Tiler
    <3>1. CASE board = "omap4"
      <4>1. /\ Making = Len(trial) + 1 /\ Len(trial) \in Nat /\ Len(Data) = 3 /\ i \in 1 .. Len(trial)
            /\ TypeOf(1) = Carveout /\ TypeOf(2) = Tiler /\ TypeOf(3) = Tiler
        BY <1>2, <1>6, <3>1, TreeFacts, BoardFacts DEF Making
      <4>2. Making = 2 \/ Making = 3
        BY <1>2, <4>1
      <4> QED BY <2>1, <4>1, <4>2
    <3>2. CASE board = "omap3"
      <4>1. Len(Data) = 1 /\ Len(trial) \in Nat /\ i \in 1 .. Len(trial)
        BY <1>2, <1>6, <3>2, TreeFacts, BoardFacts
      <4> QED BY <1>2, <4>1
    <3>3. CASE board = "tegra"
      <4>1. /\ Len(Data) = 2 /\ Indices = 1 .. Len(Data)
            /\ TypeOf(1) = System /\ TypeOf(2) = Contig
        BY <1>2, <3>3, BoardFacts
      <4>2. i = 1 \/ i = 2
        BY <4>1
      <4> QED BY <4>1, <4>2 DEF System, Contig, Tiler
    <3> QED BY <1>2, <3>1, <3>2, <3>3, BoardFacts
  <2> QED BY <2>1, <2>2 DEF DestroyHeap
<1>7. Indices' = Indices /\ Data' = Data /\ \A i : InTree(i)' <=> InTree(i)
  BY <1>1 DEF Indices, Data, InTree
<1>8. LoadInv'
  <2>1. \A i \in Indices' : InTree(i)' /\ Dangling(i)' => probe' = "died" /\ heap'[i] = "freed"
    BY <1>1, <1>6, <1>7 DEF Dangling
  <2> QED BY <1>1, <1>2, <1>4, <1>7, <2>1 DEF LoadInv
<1> QED BY <1>1, <1>8, LoadStep DEF InTree, HeapsInv

(* Unloading finds every pool with all its pages back.                      *)
LEMMA RemoveInv == HeapsInv /\ Remove => HeapsInv' /\ oops' = {}
<1> SUFFICES ASSUME HeapsInv, Remove PROVE HeapsInv' /\ oops' = {}
  OBVIOUS
<1>1. /\ oops = {} /\ probe' = "removed" /\ trial' = <<>>
      /\ \A c \in Clients : call[c] = NoCall
      /\ \A b \in BufferIds : buffer[b] = NoBuf
      /\ heap' = [i \in Indices |-> DestroyHeap(i)]
      /\ oops' = IF \E i \in Indices : DestroyTrips(i) THEN oops \cup {"remove"} ELSE oops
      /\ UNCHANGED <<board, taken, area, infos, sglists, iomaps, call, buffer>>
  BY DEF Remove, Free
<1>2. LoadInv /\ board \in Boards /\ PageLedger(holds, owes, taken)
  BY DEF HeapsInv, LoadInv
<1>3. taken = {}
  <2>1. \A c \in Clients : owes[c] = {}
    BY <1>1, NothingTyped, PagesOfFacts DEF owes
  <2>2. \A b \in BufferIds : holds[b] = {}
    BY <1>1, NothingTyped, PagesOfFacts DEF holds, Holds
  <2> QED BY <1>2, <2>1, <2>2 DEF PageLedger
<1>4. oops' = {}
  BY <1>1, <1>3 DEF DestroyTrips
<1>5. heap' \in [Indices -> {"none", "made", "freed", "leaked"}]
  BY <1>1 DEF DestroyHeap, TilerDestroy
<1>6. Indices' = Indices /\ Data' = Data /\ \A i : ~InTree(i)'
  BY <1>1 DEF Indices, Data, InTree
<1>7. Len(trial') = 0 /\ trial' \in Seq(Nat) /\ \A k \in DOMAIN trial' : FALSE
  BY <1>1
<1>8. LoadInv'
  <2>1. Len(trial') <= Len(Data)
    BY <1>2, <1>7, TreeFacts
  <2> QED BY <1>1, <1>2, <1>5, <1>6, <1>7, <2>1 DEF LoadInv
<1>9. oops' \subseteq {"client", "remove"}
  BY <1>4
<1> QED BY <1>1, <1>4, <1>8, <1>9, LoadStep DEF Free

(* Whoever meets a destroyed heap does so after a probe that failed.        *)
LEMMA UseAfterFreeInv ==
  ASSUME HeapsInv, UseAfterFree
  PROVE  HeapsInv' /\ OopsOnlyAfterFailedProbe'
<1>1. /\ \E i \in Indices : Dangling(i) /\ (InTree(i) \/ \E b \in BufferIds : buffer[b].on = i)
      /\ oops' = oops \cup {"client"}
      /\ UNCHANGED <<board, probe, heap, trial, taken, area, infos, sglists, iomaps, call, buffer>>
  BY DEF UseAfterFree
<1>2. LoadInv /\ BufsInv /\ oops \subseteq {"client", "remove"}
  BY DEF HeapsInv
<1>3. PICK i \in Indices : Dangling(i) /\ (InTree(i) \/ \E b \in BufferIds : buffer[b].on = i)
  BY <1>1
<1>4. InTree(i)
  <2> SUFFICES ASSUME NEW b \in BufferIds, buffer[b].on = i PROVE InTree(i)
    BY <1>3
  <2>1. NoBuf.on = 0
    BY DEF NoBuf
  <2>2. i # 0
    BY <1>2, TreeFacts
  <2>3. BufOK(b, buffer[b]) /\ buffer[b] # NoBuf
    BY <1>2, <2>1, <2>2 DEF BufsInv
  <2> QED BY <2>3 DEF BufOK
<1>5. probe = "died" /\ heap[i] = "freed"
  BY <1>2, <1>3, <1>4 DEF LoadInv
<1>6. LoadInv'
  BY <1>1, <1>2, LoadKept
<1>7. HeapsInv'
  BY <1>1, <1>2, <1>6, LoadStep DEF InTree, Free
<1>8. i \in Indices' /\ heap'[i] = "freed" /\ InTree(i)'
  BY <1>1, <1>4, <1>5 DEF Indices, Data, InTree
<1>9. OopsOnlyAfterFailedProbe'
  BY <1>1, <1>5, <1>8 DEF OopsOnlyAfterFailedProbe
<1> QED BY <1>7, <1>9

(* At first nothing is loaded and nothing is out.                           *)
LEMMA HeapsInit == Init => HeapsInv /\ oops = {}
<1> SUFFICES ASSUME Init PROVE HeapsInv /\ oops = {}
  OBVIOUS
<1>1. /\ board \in Boards /\ probe = "no" /\ heap = [i \in Indices |-> "none"]
      /\ trial = <<>> /\ taken = {} /\ area = [a \in Areas |-> "free"]
      /\ infos = 0 /\ sglists = 0 /\ iomaps = 0
      /\ call = [c \in Clients |-> NoCall]
      /\ buffer = [b \in BufferIds |-> NoBuf]
      /\ oops = {}
  BY DEF Init
<1>2. LoadInv
  <2>1. Len(trial) = 0 /\ trial \in Seq(Nat) /\ \A k \in DOMAIN trial : FALSE
    BY <1>1
  <2>2. \A i : ~InTree(i)
    BY <2>1 DEF InTree
  <2>3. Len(trial) <= Len(Data)
    BY <1>1, <2>1, BoardFacts
  <2> QED BY <1>1, <2>1, <2>2, <2>3 DEF LoadInv
<1>3. CallsInv
  <2>1. \A c \in Clients : call[c] = NoCall
    BY <1>1
  <2>2. call \in [Clients -> Calls]
    BY <1>1, NothingTyped
  <2> QED BY <2>1, <2>2, NothingTyped DEF CallsInv, CallOK, WithArea
<1>4. BufsInv
  BY <1>1, NothingTyped DEF BufsInv, BufOK
<1>5. /\ \A b \in BufferIds : holds[b] = {} /\ bareas[b] = 0
      /\ \A c \in Clients : owes[c] = {} /\ careas[c] = 0
  BY <1>1, NothingTyped, PagesOfFacts DEF holds, Holds, bareas, owes, careas
<1>6. PageLedger(holds, owes, taken)
  BY <1>1, <1>5 DEF PageLedger
<1>7. AreaLedger(bareas, careas, pcs, area)
  BY <1>1, <1>5, OmapIonAssumption DEF AreaLedger
<1>8. Counts
  <2>1. Busy = {} /\ Filled = {} /\ DmaMapped = {} /\ Remapped = {}
    BY <1>1, NothingTyped DEF Busy, Filled, DmaMapped, Remapped, Free
  <2> QED BY <1>1, <2>1, FS_EmptySet DEF Counts
<1> QED BY <1>1, <1>2, <1>3, <1>4, <1>6, <1>7, <1>8 DEF HeapsInv

(* A step that does not touch what lies under Ion.                          *)
LEMMA HeapsStutter == HeapsInv /\ UNCHANGED ionVars => HeapsInv'
<1> SUFFICES ASSUME HeapsInv, UNCHANGED ionVars PROVE HeapsInv'
  OBVIOUS
<1>1. /\ UNCHANGED <<board, probe, heap, trial>>
      /\ UNCHANGED <<taken, area, infos, sglists, iomaps, call, buffer, oops>>
  BY DEF ionVars
<1>2. LoadInv /\ oops \subseteq {"client", "remove"}
  BY DEF HeapsInv
<1>3. LoadInv'
  BY <1>1, <1>2, LoadKept
<1> QED BY <1>1, <1>2, <1>3, LoadStep DEF InTree

(* A loading step leaves no oops behind.                                    *)
LEMMA LoadStepInv == HeapsInv /\ Load => HeapsInv' /\ oops' = {}
BY ProbeBeginInv, ProbeCreateInv, ProbeAddInv, ProbeFailsInv, RemoveInv DEF Load

(* Every step keeps the books.                                              *)
LEMMA HeapsStep ==
  ASSUME "nonsecure" \notin Faults, HeapsInv, [Next]_vars
  PROVE  HeapsInv'
<1>1. CASE UNCHANGED ionVars
  BY <1>1, HeapsStutter
<1>2. CASE IonStep
  <2>1. CASE Load
    BY <2>1, LoadStepInv
  <2>2. CASE UseAfterFree
    BY <2>2, UseAfterFreeInv
  <2>3. CASE \E c \in Clients : TilerCall(c)
    BY <2>3, TilerCallInv
  <2>4. CASE \E c \in Clients, b \in NewBuf, n \in Lengths : Alloc(c, b, {LargeSurfaces, TilerId}, n)
    BY <2>4, NewBufFacts, AllocInv
  <2>5. CASE \E c \in Clients, b \in NewBuf, n \in Lengths : MemAlloc(c, b, n)
    BY <2>5, NewBufFacts, AllocInv DEF MemAlloc
  <2>6. CASE \E b \in BufferIds : FreeBuf(b)
    BY <2>6, FreeBufInv
  <2>7. CASE \E b \in BufferIds : MapDma(b) \/ UnmapDma(b) \/ MapKernel(b) \/ UnmapKernel(b)
    BY <2>7, MapStepsInv
  <2> QED BY <1>2, <2>1, <2>2, <2>3, <2>4, <2>5, <2>6, <2>7 DEF IonStep
<1> QED BY <1>1, <1>2 DEF Next, vars

(* The books are kept whatever happens: with the boot-time failure of any   *)
(* heap, but with the nonsecure heap left to the kernel (its pages would be *)
(* given back to the tiler heap's pool, omap_tiler_heap.c:175).             *)
LEMMA HeapsInvariance == ASSUME "nonsecure" \notin Faults PROVE Spec => []HeapsInv
<1>1. Init => HeapsInv
  BY HeapsInit
<1>2. HeapsInv /\ [Next]_vars => HeapsInv'
  BY HeapsStep
<1> QED BY <1>1, <1>2, PTL DEF Spec

(* What the books say of pages is what the heaps promise of them.           *)
LEMMA PagesFollow == HeapsInv => PagesAccounted
<1> SUFFICES ASSUME HeapsInv PROVE PagesAccounted
  OBVIOUS
<1>1. /\ LoadInv /\ CallsInv /\ BufsInv /\ board \in Boards
      /\ PageLedger(holds, owes, taken) /\ area \in AreaTypes
      /\ Counts /\ oops \subseteq {"client", "remove"}
  BY DEF HeapsInv, LoadInv, AreaTypes
<1>2. ASSUME NEW c \in Clients PROVE Owes(c) = owes[c]
  <2>1. call[c].pc = "idle" => call[c] = NoCall
    BY <1>1 DEF CallsInv, CallOK
  <2>2. call[c].pc = "idle" => PagesOf(call[c].info.pages) = {}
    BY <2>1, NothingTyped, PagesOfFacts
  <2> QED BY <2>2 DEF Owes, owes
<1>3. \A b \in BufferIds : Holds(b) = holds[b]
  BY DEF holds
<1>4. \A b \in BufferIds : Holds(b) \subseteq (IF Free(b) THEN {} ELSE Pool(buffer[b].on))
  <2> TAKE b \in BufferIds
  <2>1. BufOK(b, buffer[b])
    BY <1>1 DEF BufsInv
  <2>2. CASE Free(b)
    BY <2>2, NothingTyped, PagesOfFacts DEF Free, Holds
  <2>3. CASE ~Free(b)
    BY <2>1, <2>3 DEF Free, BufOK, Holds
  <2> QED BY <2>2, <2>3
<1>5. \A b \in BufferIds : ~Free(b) => buffer[b].on \in Indices
  BY <1>1, TreeFacts DEF BufsInv, BufOK, Free
<1>6. \A c \in Clients : Owes(c) \subseteq UNION {Pool(i) : i \in Indices}
  <2> TAKE c \in Clients
  <2>1. CallOK(c, call[c])
    BY <1>1 DEF CallsInv
  <2>2. CASE call[c].pc = "idle"
    BY <2>2 DEF Owes
  <2>3. CASE call[c].pc # "idle"
    <3>1. board = "omap4" /\ PagesOf(call[c].info.pages) \subseteq Pool(2)
      BY <2>1, <2>3 DEF CallOK
    <3>2. 2 \in Indices
      BY <1>1, <3>1, BoardFacts
    <3> QED BY <2>3, <3>1, <3>2 DEF Owes
  <2> QED BY <2>2, <2>3
<1> DEFINE inUse == UNION {Holds(b) : b \in BufferIds}
           owed == UNION {Owes(c) : c \in Clients}
           pools == UNION {Pool(i) : i \in Indices}
<1>7. taken = inUse \cup owed
  <2>1. \A p : p \in taken <=> (\E b \in BufferIds : p \in Holds(b)) \/ (\E c \in Clients : p \in Owes(c))
    BY <1>1, <1>2, <1>3 DEF PageLedger
  <2>2. \A p : p \in inUse <=> \E b \in BufferIds : p \in Holds(b)
    OBVIOUS
  <2>3. \A p : p \in owed <=> \E c \in Clients : p \in Owes(c)
    OBVIOUS
  <2> HIDE DEF inUse, owed
  <2>4. \A p : p \in taken <=> p \in inUse \cup owed
    BY <2>1, <2>2, <2>3
  <2> QED BY <2>4
<1>8. taken \subseteq pools
  <2>1. \A b \in BufferIds : Holds(b) \subseteq pools
    BY <1>4, <1>5
  <2>2. inUse \subseteq pools
    BY <2>1
  <2>3. owed \subseteq pools
    BY <1>6
  <2> HIDE DEF inUse, owed, pools
  <2> QED BY <1>7, <2>2, <2>3
<1>9. infos \in Nat /\ sglists \in Nat /\ iomaps \in Nat
  <2>1. Busy \subseteq Clients /\ IsFiniteSet(Clients)
    BY OmapIonAssumption DEF Busy
  <2>2. Cardinality(Busy) \in Nat
    BY <2>1, FS_Subset, FS_CardinalityType
  <2>3. Filled \subseteq BufferIds /\ DmaMapped \subseteq BufferIds /\ Remapped \subseteq BufferIds
    BY DEF Filled, DmaMapped, Remapped
  <2>4. IsFiniteSet(Filled) /\ IsFiniteSet(DmaMapped) /\ IsFiniteSet(Remapped)
    BY <2>3, OmapIonAssumption, FS_Subset
  <2>5. Cardinality(Filled) \in Nat /\ Cardinality(DmaMapped) \in Nat /\ Cardinality(Remapped) \in Nat
    BY <2>4, FS_CardinalityType
  <2> QED BY <1>1, <2>2, <2>5 DEF Counts
<1>10. \A k \in DOMAIN trial : trial[k] \in Indices
  BY <1>1, TreeFacts DEF InTree
<1>11. TypeOK
  BY <1>1, <1>8, <1>9, <1>10 DEF TypeOK, LoadInv, AreaTypes
<1>12. /\ \A b, d \in BufferIds : b # d => Holds(b) \cap Holds(d) = {}
       /\ \A c, d \in Clients : c # d => Owes(c) \cap Owes(d) = {}
       /\ \A b \in BufferIds, c \in Clients : Holds(b) \cap Owes(c) = {}
  BY <1>1, <1>2, <1>3 DEF PageLedger
<1> QED BY <1>4, <1>7, <1>11, <1>12 DEF PagesAccounted

(* The owner of a block is one call or one buffer.                          *)
LEMMA OneOwner ==
  ASSUME NEW X, NEW Y, \A x, y \in X : x = y, \A x, y \in Y : x = y, X = {} \/ Y = {}
  PROVE  Cardinality(X) + Cardinality(Y) = IF X = {} /\ Y = {} THEN 0 ELSE 1
<1>1. ASSUME NEW Z, \A x, y \in Z : x = y PROVE Cardinality(Z) = IF Z = {} THEN 0 ELSE 1
  <2>1. CASE Z = {}
    BY <2>1, FS_EmptySet
  <2>2. CASE Z # {}
    <3>1. PICK z : z \in Z
      BY <2>2
    <3>2. Z = {z}
      BY <1>1, <3>1
    <3> QED BY <2>2, <3>2, FS_Singleton
  <2> QED BY <2>1, <2>2
<1>2. Cardinality(X) = IF X = {} THEN 0 ELSE 1
  BY <1>1
<1>3. Cardinality(Y) = IF Y = {} THEN 0 ELSE 1
  BY <1>1
<1> QED BY <1>2, <1>3

(* And so with the blocks, infos, scatterlists and kernel mappings.         *)
LEMMA ResourcesFollow == HeapsInv => ResourcesMatch
<1> SUFFICES ASSUME HeapsInv PROVE ResourcesMatch
  OBVIOUS
<1>1. CallsInv /\ Counts /\ AreaLedger(bareas, careas, pcs, area)
  BY DEF HeapsInv
<1>2. ASSUME NEW a \in Areas, NEW calls, calls = {c \in Clients : call[c].pc # "idle" /\ call[c].info.area = a},
             NEW bufs, bufs = {b \in BufferIds : buffer[b].info.area = a}
      PROVE  /\ Cardinality(calls) + Cardinality(bufs) = (IF area[a] = "free" THEN 0 ELSE 1)
             /\ area[a] = "pinned" <=> bufs # {} \/ calls \cap CallsAt({"handle", "fill", "unpin"}) # {}
  <2>1. a # 0
    BY OmapIonAssumption
  <2>2. \A c \in Clients : c \in calls <=> careas[c] = a
    <3> TAKE c \in Clients
    <3>1. call[c].pc = "idle" => call[c].info.area = 0
      BY <1>1, NothingTyped DEF CallsInv, CallOK
    <3> QED BY <1>2, <2>1, <3>1 DEF careas
  <2>3. \A b \in BufferIds : b \in bufs <=> bareas[b] = a
    BY <1>2 DEF bareas
  <2>4. calls \subseteq Clients /\ bufs \subseteq BufferIds
    BY <1>2
  <2>5. /\ \A c, d \in calls : c = d
        /\ \A b, d \in bufs : b = d
        /\ calls = {} \/ bufs = {}
    BY <1>1, <2>2, <2>3, <2>4 DEF AreaLedger
  <2>6. area[a] # "free" <=> bufs # {} \/ calls # {}
    BY <1>1, <2>2, <2>3, <2>4 DEF AreaLedger
  <2>7. \A c \in Clients : c \in CallsAt({"handle", "fill", "unpin"}) <=> pcs[c] \in PinnedAt
    BY DEF CallsAt, pcs, PinnedAt
  <2>8. area[a] = "pinned" <=> bufs # {} \/ \E c \in Clients : careas[c] = a /\ pcs[c] \in PinnedAt
    BY <1>1, <2>3, <2>4 DEF AreaLedger
  <2>9. area[a] = "pinned" <=> bufs # {} \/ calls \cap CallsAt({"handle", "fill", "unpin"}) # {}
    BY <2>2, <2>4, <2>7, <2>8
  <2>10. Cardinality(calls) + Cardinality(bufs) = IF calls = {} /\ bufs = {} THEN 0 ELSE 1
    BY <2>5, OneOwner
  <2> QED BY <2>6, <2>9, <2>10
<1>3. Busy = Clients \ CallsAt({"idle"})
  BY DEF Busy, CallsAt
<1>4. infos = Cardinality(Clients \ CallsAt({"idle"})) + Cardinality({b \in BufferIds : buffer[b].info # NoInfo})
  BY <1>1, <1>3 DEF Counts, Filled
<1>5. /\ sglists = Cardinality({b \in BufferIds : "dma" \in buffer[b].maps})
      /\ iomaps = Cardinality({b \in BufferIds : ~Free(b) /\ TypeOf(buffer[b].on) = Carveout
                                                 /\ "kernel" \in buffer[b].maps})
  BY <1>1 DEF Counts, DmaMapped, Remapped
<1> QED BY <1>2, <1>4, <1>5 DEF ResourcesMatch

(* Nothing a heap gives out is lost or given out twice, on every error path *)
(* of omap_tiler_alloc and however the calls of clients interleave with     *)
(* each other and with the loading of the driver.                           *)
THEOREM HeapsKeepAccounts ==
  ASSUME "nonsecure" \notin Faults PROVE Spec => []HeapsAccounted
<1>1. HeapsInv => HeapsAccounted
  BY PagesFollow, ResourcesFollow DEF HeapsAccounted
<1> QED BY <1>1, HeapsInvariance, PTL

(* Without the failure of a handle that omap_tiler_alloc does not survive,  *)
(* a client's step leaves no oops behind.                                   *)
LEMMA ClientStepQuiet ==
  ASSUME "handle" \notin Faults, HeapsInv, IonStep, ~Load, ~UseAfterFree
  PROVE  oops' = {}
<1>1. CASE \E c \in Clients : TilerCall(c)
  <2>1. PICK c \in Clients : TilerCall(c)
    BY <1>1
  <2>2. CASE TilerNoHandle(c)
    BY <2>2 DEF TilerNoHandle, At, Running
  <2>3. CASE ~TilerNoHandle(c)
    BY <2>1, <2>3 DEF TilerCall, TilerAlloc, TilerArea, TilerReturn, TilerLump, TilerNoLump, TilerPage,
       TilerNoPage, TilerPin, TilerPinFails, TilerHandle, TilerFill, TilerUnpin, TilerFreeArea,
       TilerFreePages, At, Running
  <2> QED BY <2>2, <2>3
<1>2. CASE \E c \in Clients, b \in NewBuf, n \in Lengths : Alloc(c, b, {LargeSurfaces, TilerId}, n)
  BY <1>2 DEF Alloc, Running
<1>3. CASE \E c \in Clients, b \in NewBuf, n \in Lengths : MemAlloc(c, b, n)
  BY <1>3 DEF MemAlloc, Alloc, Running
<1>4. CASE \E b \in BufferIds : FreeBuf(b)
  <2>1. PICK b \in BufferIds : FreeBuf(b)
    BY <1>4
  <2>2. oops = {}
    BY <2>1 DEF FreeBuf, Running
  <2> QED BY <2>1, <2>2, FreeBufInv
<1>5. CASE \E b \in BufferIds : MapDma(b) \/ UnmapDma(b) \/ MapKernel(b) \/ UnmapKernel(b)
  BY <1>5 DEF MapDma, UnmapDma, MapKernel, UnmapKernel, Shared, Running
<1> QED BY <1>1, <1>2, <1>3, <1>4, <1>5 DEF IonStep

(* Clients meet a destroyed heap only after a probe that failed at a later  *)
(* heap, and every pool has its pages back when it is destroyed.            *)
THEOREM OopsNeedsFailedProbe ==
  ASSUME "nonsecure" \notin Faults, "handle" \notin Faults
  PROVE  Spec => []OopsOnlyAfterFailedProbe
<1>1. Init => OopsOnlyAfterFailedProbe
  BY HeapsInit DEF OopsOnlyAfterFailedProbe
<1>2. HeapsInv /\ OopsOnlyAfterFailedProbe /\ [Next]_vars => OopsOnlyAfterFailedProbe'
  <2> SUFFICES ASSUME HeapsInv, OopsOnlyAfterFailedProbe, [Next]_vars PROVE OopsOnlyAfterFailedProbe'
    OBVIOUS
  <2>1. CASE UNCHANGED ionVars
    BY <2>1 DEF ionVars, OopsOnlyAfterFailedProbe, Indices, Data, InTree
  <2>2. CASE IonStep
    <3>1. CASE Load
      BY <3>1, LoadStepInv DEF OopsOnlyAfterFailedProbe
    <3>2. CASE UseAfterFree
      BY <3>2, UseAfterFreeInv
    <3>3. CASE ~Load /\ ~UseAfterFree
      BY <2>2, <3>3, ClientStepQuiet DEF OopsOnlyAfterFailedProbe
    <3> QED BY <3>1, <3>2, <3>3
  <2> QED BY <2>1, <2>2 DEF Next, vars
<1> QED BY <1>1, <1>2, HeapsInvariance, PTL DEF Spec
=============================================================================
