-------------------------------- MODULE Vrfb --------------------------------
(***************************************************************************)
(* The VRFB half of modules/ion/gpu/omap/omap_ion_alloc.c: a table of      *)
(* slots, each with a rotation context of the hardware for one registered  *)
(* buffer.  Display drivers register a buffer, set it up for an overlay    *)
(* before each frame and take it out again; they call one at a time.       *)
(***************************************************************************)
EXTENDS Integers, FiniteSets

CONSTANTS
    Slots,         \* the table ion_vrfb_t; code: VRFB_NUM_SLOTS of them, 12
    Buffers,       \* physical addresses of buffers
    Modes,         \* colour modes the overlays use
    Crops,         \* widths and heights of the overlays' crop windows
    MaxAsks        \* bound: how often one buffer is registered

ASSUME VrfbAssumption ==
    /\ Slots \subseteq Nat /\ IsFiniteSet(Slots)
    /\ "none" \notin Buffers                 \* a slot with address 0 is free
    /\ Modes \subseteq {"NV12", "CLUT", "RGB16", "YUV2", "UYVY", "RGB24P", "RGB24U", "ARGB32"}
    /\ Crops \subseteq Nat \X Nat
    /\ MaxAsks \in Nat

VARIABLES
    slot,          \* ion_vrfb_t: the buffer, ismapped and the context's setup
    have,          \* have_vrfb_ctx
    held,          \* the slots whose context the hardware has granted
    asks,          \* registrations of a buffer its driver has not taken back
    gone,          \* those of them that were refused or dropped
    shown,         \* what the last setup answered: the overlay's new address
    wild           \* a setup went to the slot behind the table

vrfbVars == <<slot, have, held, asks, gone, shown, wild>>

NoBuffer == "none"           \* ba = 0
NoSetup == [xres |-> 0, yres |-> 0, bpp |-> 0, yuv |-> FALSE, of |-> NoBuffer]
EmptySlot == [ba |-> NoBuffer, mapped |-> FALSE, ctx |-> NoSetup]
Nothing == [ba |-> NoBuffer]

(* Bytes per pixel of a colour mode: get_bpp.                              *)
BitsPerPixel == [NV12 |-> 8, CLUT |-> 16, RGB16 |-> 16, YUV2 |-> 16, UYVY |-> 16,
                 RGB24P |-> 24, RGB24U |-> 32, ARGB32 |-> 32]
Bpp(mode) == BitsPerPixel[mode] \div 8
IsYuv(mode) == mode \in {"YUV2", "UYVY"}

(* The kernel's omap_vrfb_setup takes two YUV pixels for one.              *)
Setup(p, mode, w, h) ==
    [xres |-> IF IsYuv(mode) THEN w \div 2 ELSE w, yres |-> h,
     bpp |-> IF IsYuv(mode) THEN 2 * Bpp(mode) ELSE Bpp(mode),
     yuv |-> IsYuv(mode), of |-> p]

(* check_vrfb_params: the context was set up for another overlay.          *)
Differs(ctx, mode, w, h) ==
    \/ ctx.yuv # IsYuv(mode)
    \/ ctx.xres * 2 # w
    \/ ctx.yres # h

SlotsOf(p) == {s \in Slots : slot[s].ba = p}
First(S) == CHOOSE s \in S : \A t \in S : s <= t

-----------------------------------------------------------------------------
(* omap_free_vrfb_buffer                                                   *)
FreeBuffer(p) ==
    /\ asks[p] > 0
    /\ asks' = [asks EXCEPT ![p] = @ - 1]
    /\ IF have > 0 /\ SlotsOf(p) # {}
       THEN LET s == First(SlotsOf(p)) IN
            /\ slot' = [slot EXCEPT ![s] = [@ EXCEPT !.ba = NoBuffer, !.mapped = FALSE]]
            /\ held' = held \ {s}
            /\ have' = have - 1
            /\ UNCHANGED gone
       ELSE gone' = [gone EXCEPT ![p] = @ - 1] /\ UNCHANGED <<slot, held, have>>
    /\ UNCHANGED <<shown, wild>>

Asked(p) ==
    /\ asks[p] < MaxAsks
    /\ asks' = [asks EXCEPT ![p] = @ + 1]
    /\ UNCHANGED <<shown, wild>>

(* omap_get_vrfb_buffer                                                    *)
GetBuffer(p) ==
    /\ Asked(p)
    /\ have < Cardinality(Slots) /\ SlotsOf(NoBuffer) # {}
    /\ LET s == First(SlotsOf(NoBuffer)) IN
       /\ slot' = [slot EXCEPT ![s] = [@ EXCEPT !.ba = p, !.mapped = FALSE]]
       /\ held' = held \cup {s}
       /\ have' = have + 1
    /\ UNCHANGED gone

(* ... with the table full: nothing happens and nothing is said            *)
GetRefused(p) ==
    /\ Asked(p)
    /\ have >= Cardinality(Slots)
    /\ gone' = [gone EXCEPT ![p] = @ + 1]
    /\ UNCHANGED <<slot, held, have>>

(* ... and when the hardware has no context left: every slot is given up.  *)
GetFails(p) ==
    /\ Asked(p)
    /\ have < Cardinality(Slots) /\ SlotsOf(NoBuffer) # {}
    /\ slot' = [s \in Slots |-> [slot[s] EXCEPT !.ba = NoBuffer, !.mapped = FALSE]]
    /\ held' = held \ {s \in Slots : slot[s].ba # NoBuffer}
    /\ have' = have - Cardinality({s \in Slots : slot[s].ba # NoBuffer})
    /\ gone' = [q \in Buffers |-> asks'[q]]

MutSetupBuffer(p, mode, w, h) ==
    /\ asks[p] > 0 /\ have > 0
    /\ IF SlotsOf(p) = {}
       THEN wild' = TRUE /\ shown' = Nothing /\ UNCHANGED slot
       ELSE LET s == First(SlotsOf(p))
                reuse == slot[s].mapped
                ctx == IF reuse THEN slot[s].ctx ELSE Setup(p, mode, w, h)
            IN /\ slot' = [slot EXCEPT ![s] = [@ EXCEPT !.mapped = TRUE, !.ctx = ctx]]
               /\ shown' = [ba |-> p, slot |-> s, want |-> Setup(p, mode, w, h)]
               /\ UNCHANGED wild
    /\ UNCHANGED <<have, held, asks, gone>>

(* omap_setup_vrfb_buffer: a mapped slot with the same shape is used as it  *)
(* is, any other is set up anew.  With no slot for the buffer the loop ends *)
(* one past the table and that is what is written.                          *)
SetupBuffer(p, mode, w, h) ==
    /\ asks[p] > 0 /\ have > 0
    /\ IF SlotsOf(p) = {}
       THEN wild' = TRUE /\ shown' = Nothing /\ UNCHANGED slot
       ELSE LET s == First(SlotsOf(p))
                reuse == slot[s].mapped /\ ~Differs(slot[s].ctx, mode, w, h)
                ctx == IF reuse THEN slot[s].ctx ELSE Setup(p, mode, w, h)
            IN /\ slot' = [slot EXCEPT ![s] = [@ EXCEPT !.mapped = TRUE, !.ctx = ctx]]
               /\ shown' = [ba |-> p, slot |-> s, want |-> Setup(p, mode, w, h)]
               /\ UNCHANGED wild
    /\ UNCHANGED <<have, held, asks, gone>>

VrfbInit ==
    /\ slot = [s \in Slots |-> EmptySlot]
    /\ have = 0 /\ held = {}
    /\ asks = [p \in Buffers |-> 0] /\ gone = [p \in Buffers |-> 0]
    /\ shown = Nothing /\ wild = FALSE

VrfbNext ==
    /\ ~wild
    /\ \/ \E p \in Buffers : FreeBuffer(p)
       \/ \E p \in Buffers : GetBuffer(p)
       \/ \E p \in Buffers : GetRefused(p)
       \/ \E p \in Buffers : GetFails(p)
       \/ \E p \in Buffers, mode \in Modes, crop \in Crops : SetupBuffer(p, mode, crop[1], crop[2])

-----------------------------------------------------------------------------
Mapped == {s \in Slots : slot[s].mapped}
Used == {s \in Slots : slot[s].ba # NoBuffer}

(* The counter, the table and the hardware agree, a slot is mapped only     *)
(* while a buffer is registered in it, and every registration has its slot  *)
(* unless it was refused or dropped by the failure of another.              *)
SlotsExact ==
    /\ have = Cardinality(Used)
    /\ held = Used
    /\ Mapped \subseteq Used
    /\ \A p \in Buffers : Cardinality(SlotsOf(p)) = asks[p] - gone[p]

(* The address a setup answered shows the buffer asked for in the shape     *)
(* asked for, as long as its slot keeps it: a reused context is never one   *)
(* that was set up for another buffer or mode.  But check_vrfb_params       *)
(* doubles the context's width also where it is not of YUV pixels, so a     *)
(* crop twice as wide as the one before it is shown at half its width, and  *)
(* with the bytes per pixel of the one before.                              *)
TwiceAsWide(ctx, want) ==
    /\ ~ctx.yuv /\ ~want.yuv
    /\ ctx.of = want.of /\ 2 * ctx.xres = want.xres /\ ctx.yres = want.yres

ShownAsAsked ==
    shown # Nothing =>
        \/ shown.slot \notin Mapped
        \/ slot[shown.slot].ba # shown.ba
        \/ slot[shown.slot].ctx = shown.want
        \/ TwiceAsWide(slot[shown.slot].ctx, shown.want)
=============================================================================
