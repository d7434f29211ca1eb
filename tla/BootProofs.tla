----------------------------- MODULE BootProofs -----------------------------
(***************************************************************************)
(* The safety properties of Boot: the area 2nd-init writes, the hook of    *)
(* the PVR driver's function, the boot mode, the LED and the picture of    *)
(* charge only mode, for any environment of fewer than sixty strings and   *)
(* any number of readers, nodes, lines and colours.                        *)
(***************************************************************************)
EXTENDS Boot, SequenceTheorems, FunctionTheorems, WellFoundedInduction, TLAPS

(* The hook.  Until the jump is written nobody is in the module and the    *)
(* instruction is the driver's; from then on asm0 has that instruction, so *)
(* that a reader can run the original, and whoever took the hook out has   *)
(* put it back.                                                            *)
Loads == {"absent", "find", "save", "patch", "jmp", "cont", "flag", "sniff", "loaded", "unhook",
          "release"}
Places == {"idle", "call", "entered", "returned", "unhooked", "freed", "wild"}
Reads == [at : Places, el : 0 .. PvrNodes, shown : 0 .. PvrNodes + 1, early : BOOLEAN]

HookTypes ==
  /\ code \in {"first", "jump"}
  /\ hi \in [asm0 : {"zero", "first", "jump"}, jmp : BOOLEAN, cont : BOOLEAN, target : BOOLEAN]
  /\ hooked \in BOOLEAN
  /\ load \in Loads
  /\ reader \in [PvrReaders -> Reads]

Patched == load \in {"jmp", "cont", "flag", "sniff", "loaded", "unhook", "release"}
NobodyIn == \A r \in PvrReaders : ~InModule(r)

HookState ==
  /\ ~Patched => code = "first" /\ NobodyIn
  /\ load = "find" => ~hi.target
  /\ load \in {"save", "patch", "jmp", "cont"} => hi.target
  /\ load \in {"patch", "jmp", "cont"} => hi.asm0 = "first"
  /\ load \in {"jmp", "cont"} => code = "jump"
  /\ load = "cont" => hi.jmp
  /\ load \in {"find", "save", "patch", "jmp", "cont"} => ~hi.cont
  /\ load \in {"flag", "sniff", "loaded", "unhook", "release"} =>
       IF hi.target THEN hi.asm0 = "first" /\ hi.jmp /\ hi.cont ELSE code = "first" /\ NobodyIn
  /\ load \in {"sniff", "loaded"} /\ ~hooked => code = "first"
  /\ load = "release" => code = "first"

ReadsOn(x, l, c) ==
  /\ x.at \in {"call", "entered"} => x.shown = x.el
  /\ x.at \in {"returned", "unhooked"} => x.shown = x.el + 1
  /\ x.at = "idle" => x.shown \in {0, PvrNodes + 1}
  /\ x.at = "wild" => x.early
  /\ x.at = "entered" /\ l \in {"jmp", "cont"} => x.early
  /\ x.at \in {"returned", "unhooked"} => l \notin {"jmp", "cont"}
  /\ x.at = "unhooked" => c = "first"

HookInv == HookTypes /\ HookState /\ \A r \in PvrReaders : ReadsOn(reader[r], load, code)

-----------------------------------------------------------------------------
(* The boot mode is what the file says. *)
ModeInv == mode # "unknown" => bootinfo \in Files /\ mode = ModeOf(bootinfo)

-----------------------------------------------------------------------------
(* Charge only mode.  What is held, and the picture the loop has drawn.    *)
Holdings == [pictures : SUBSET Loaded(6), fb : BOOLEAN, inputs : Inputs \cup {0}, uevents : BOOLEAN]

DevicesTypes ==
  /\ program \in {"off", "screen", "init", "loop", "ended"}
  /\ held \in Holdings
  /\ level \in 0 .. 100 /\ broken \in BOOLEAN /\ frame \in 0 .. 3

DevicesInv ==
  /\ DevicesTypes
  /\ program \in {"off", "ended"} => held = Nothing
  /\ program \in {"screen", "init", "loop"} => held.pictures = Loaded(6) /\ held.fb
  /\ program = "loop" => \E f \in 0 .. 3 : picture = Draw(level, broken, f)

-----------------------------------------------------------------------------
(* The LED.  A call that has been alone asks for what should be shown.     *)
(* While nothing has disturbed it the LED shows what is remembered, but    *)
(* for the writes a call has left.                                         *)
Stages == {"idle", "lastColor", "lastBlink", "keepBlink", "testLow", "compareColor", "compareBlink",
           "storeColor", "storeBlink", "write"}
LedNames    == {"red", "green", "blue", "redBlink"}
LockedNames == {"als", "lcd", "keyboard", "buttons"}

Calls == [at : Stages, color : DOMAIN Rgb, blink : BOOLEAN, todo : Seq(LedNames \X Int), alone : BOOLEAN]
Brightnesses == [red : Int, green : Int, blue : Int, redBlink : Int,
                 lcd : Int, als : Int, keyboard : Int, buttons : Int]

LightTypes ==
  /\ colorstate \in DOMAIN Rgb /\ lastnotificationcolor \in DOMAIN Rgb
  /\ {blinkstate, lastnotificationblink, lowbattery, lowBlink, disturbed} \subseteq BOOLEAN
  /\ file \in Brightnesses
  /\ holder \in Seq(LockedNames \X Int)

LedTypes == call \in [Leds -> Calls] /\ LightTypes

Wanted == IF lowbattery THEN <<"red", lowBlink>> ELSE <<lastnotificationcolor, lastnotificationblink>>

(* The n-th write of the LED, and that all but k writes are done.          *)
Item(n, color) ==
  CASE n = 1 -> <<"redBlink", 0>>
    [] n = 2 -> <<"red", Rgb[color][1]>>
    [] n = 3 -> <<"green", Rgb[color][2]>>
    [] n = 4 -> <<"blue", Rgb[color][3]>>
    [] OTHER -> <<"redBlink", 255>>

Remains(c, k) ==
  /\ Len(c.todo) = (IF c.blink THEN 5 ELSE 4) - k
  /\ \A i \in 1 .. Len(c.todo) : c.todo[i] = Item(k + i, c.color)

Written(k, color) ==
  /\ k >= 1 => file.redBlink = 0
  /\ k >= 2 => file.red = Rgb[color][1]
  /\ k >= 3 => file.green = Rgb[color][2]
  /\ k >= 4 => file.blue = Rgb[color][3]

CallOK(l, c) ==
  /\ c.at = "idle" => c = NoCall
  /\ c.at \in {"lastColor", "lastBlink"} => l = "battery"
  /\ c.at \in {"keepBlink", "testLow"} => l = "notification"
  /\ c.at = "write" => c.todo # <<>> /\ \E k \in 0 .. 4 : Remains(c, k)

Asks(c) ==
  /\ c.at \in {"lastColor", "lastBlink"} => ~lowbattery
  /\ c.at = "lastBlink" => c.color = lastnotificationcolor
  /\ c.at \in {"keepBlink", "testLow"} => lastnotificationcolor = c.color
  /\ c.at = "testLow" => lastnotificationblink = c.blink
  /\ c.at \in {"compareColor", "compareBlink", "storeColor", "storeBlink", "write"} =>
       Wanted = <<c.color, c.blink>>
  /\ c.at \in {"compareBlink", "storeBlink", "write"} => colorstate = c.color
  /\ c.at = "write" => /\ blinkstate = c.blink
                       /\ \E k \in 0 .. 4 : Remains(c, k) /\ Written(k, c.color)

AloneOK(l) ==
  call[l].alone /\ call[l].at # "idle" =>
    /\ \A o \in Leds : o # l => call[o].at = "idle"
    /\ Asks(call[l])

Settled == Led(colorstate, blinkstate)
AsWanted == Wanted = <<colorstate, blinkstate>>

Calm(c) ==
  /\ c.at \in {"lastColor", "lastBlink", "keepBlink", "testLow", "compareColor", "compareBlink"} => Settled
  /\ c.at \in {"keepBlink", "testLow"} /\ lowbattery => AsWanted

Undisturbed ==
  ~disturbed =>
    /\ \A l \in Leds : call[l].alone /\ Calm(call[l])
    /\ Idle => Settled /\ AsWanted

LedInv == LedTypes /\ Undisturbed /\ \A l \in Leds : CallOK(l, call[l]) /\ AloneOK(l)

-----------------------------------------------------------------------------
(* The steps of the module: those of no reader change no read.             *)
LEMMA LoadingInv ==
  ASSUME HookInv,
         \/ Insert \/ Find \/ Save \/ Patch \/ SetJmp \/ SetCont \/ SetHooked \/ SniffHandleBase
         \/ ExitModule \/ Unhook
  PROVE  HookInv'
<1>1. HookTypes /\ HookState /\ \A r \in PvrReaders : ReadsOn(reader[r], load, code)
  BY DEF HookInv
<1>2. reader' = reader /\ (NobodyIn => NobodyIn')
  <2>1. reader' = reader
    BY DEF Insert, Find, Save, Patch, SetJmp, SetCont, SetHooked, SniffHandleBase, ExitModule, Unhook
  <2> QED BY <2>1 DEF NobodyIn, InModule
<1>3. HookTypes'
  <2>1. hooked' \in BOOLEAN /\ load' \in Loads /\ reader' \in [PvrReaders -> Reads]
    BY <1>1, <1>2 DEF HookTypes, Loads, Insert, Find, Save, Patch, SetJmp, SetCont, SetHooked,
                      SniffHandleBase, ExitModule, Unhook
  <2>2. code' \in {"first", "jump"}
    BY <1>1 DEF HookTypes, HookState, Patched, Insert, Find, Save, Patch, SetJmp, SetCont, SetHooked,
                SniffHandleBase, ExitModule, Unhook, Unhooked
  <2>3. hi' \in [asm0 : {"zero", "first", "jump"}, jmp : BOOLEAN, cont : BOOLEAN, target : BOOLEAN]
    <3> DEFINE Hi == [asm0 : {"zero", "first", "jump"}, jmp : BOOLEAN, cont : BOOLEAN, target : BOOLEAN]
    <3>1. \/ hi' = hi \/ hi' = NoHook \/ hi' = [hi EXCEPT !.target = TRUE] \/ hi' = [hi EXCEPT !.asm0 = code]
          \/ hi' = [hi EXCEPT !.jmp = TRUE] \/ hi' = [hi EXCEPT !.cont = TRUE]
      BY DEF Insert, Find, Save, Patch, SetJmp, SetCont, SetHooked, SniffHandleBase, ExitModule, Unhook
    <3>2. hi \in Hi /\ code \in {"zero", "first", "jump"} /\ NoHook \in Hi
      BY <1>1 DEF HookTypes, NoHook
    <3>3. [hi EXCEPT !.target = TRUE] \in Hi /\ [hi EXCEPT !.jmp = TRUE] \in Hi
      BY <3>2
    <3>4. [hi EXCEPT !.asm0 = code] \in Hi /\ [hi EXCEPT !.cont = TRUE] \in Hi
      BY <3>2
    <3> HIDE DEF Hi
    <3>5. hi' \in Hi
      BY <3>1, <3>2, <3>3, <3>4
    <3> QED BY <3>5 DEF Hi
  <2> QED BY <2>1, <2>2, <2>3 DEF HookTypes
<1>4. HookState'
  <2> USE DEF HookState, HookTypes, Patched, Loads
  <2>1. CASE Insert
    <3>1. load = "absent" /\ load' = "find" /\ code' = code /\ hi' = NoHook
      BY <2>1 DEF Insert
    <3>2. ~NoHook.target /\ ~NoHook.cont
      BY DEF NoHook
    <3>3. code = "first" /\ NobodyIn
      BY <1>1, <3>1
    <3>4. code' = "first" /\ NobodyIn' /\ load' = "find" /\ ~hi'.cont /\ ~hi'.target
      BY <1>2, <3>1, <3>2, <3>3
    <3> QED BY <3>4
  <2>2. CASE Find
    <3>1. load = "find" /\ code' = code /\ load' \in {"save", "flag"} /\ ~hi.cont /\ ~hi.target
      BY <1>1, <2>2 DEF Find
    <3>2. load' = "save" => hi'.target /\ ~hi'.cont
      BY <1>1, <2>2, <3>1 DEF Find
    <3>3. code = "first" /\ NobodyIn
      BY <1>1, <3>1
    <3>4. code' = "first" /\ NobodyIn'
      BY <1>2, <3>1, <3>3
    <3>5. load' = "flag" => hi' = hi
      BY <2>2, <3>1 DEF Find
    <3> QED BY <3>1, <3>2, <3>4, <3>5
  <2>3. CASE Save
    BY <1>1, <1>2, <2>3 DEF Save
  <2>4. CASE Patch
    BY <1>1, <1>2, <2>4 DEF Patch
  <2>5. CASE SetJmp
    BY <1>1, <1>2, <2>5 DEF SetJmp
  <2>6. CASE SetCont
    BY <1>1, <1>2, <2>6 DEF SetCont
  <2>7. CASE SetHooked
    BY <1>1, <1>2, <2>7 DEF SetHooked
  <2>8. CASE SniffHandleBase
    BY <1>1, <1>2, <2>8 DEF SniffHandleBase
  <2>9. CASE ExitModule
    BY <1>1, <1>2, <2>9 DEF ExitModule
  <2>10. CASE Unhook
    BY <1>1, <1>2, <2>10 DEF Unhook, Unhooked
  <2> QED BY <2>1, <2>2, <2>3, <2>4, <2>5, <2>6, <2>7, <2>8, <2>9, <2>10
<1>5. ASSUME NEW r \in PvrReaders PROVE ReadsOn(reader'[r], load', code')
  <2>1. ReadsOn(reader[r], load, code)
    BY <1>1
  <2>2. CASE InModule(r)
    <3>1. Patched
      BY <1>1, <2>2 DEF HookState, NobodyIn
    <3>2. reader[r].at = "unhooked" => code' = "first"
      BY <1>1, <2>1, <3>1 DEF ReadsOn, HookState, Patched, Insert, Find, Save, Patch, SetJmp, SetCont,
         SetHooked, SniffHandleBase, ExitModule, Unhook, Unhooked
    <3>3. load' \in {"jmp", "cont"} => load \in {"jmp", "cont"}
      BY <3>1 DEF Patched, Insert, Find, Save, Patch, SetJmp, SetCont,
         SetHooked, SniffHandleBase, ExitModule, Unhook
    <3> QED BY <1>2, <2>1, <3>2, <3>3 DEF ReadsOn
  <2>3. CASE ~InModule(r)
    BY <1>2, <2>1, <2>3 DEF ReadsOn, InModule
  <2> QED BY <2>2, <2>3
<1> QED BY <1>2, <1>3, <1>4, <1>5 DEF HookInv

(* The module's memory is freed, with whoever is in it.                    *)
LEMMA ReleaseInv == HookInv /\ Release => HookInv'
<1> SUFFICES ASSUME HookInv, Release PROVE HookInv'
  OBVIOUS
<1>1. /\ HookTypes /\ HookState /\ \A r \in PvrReaders : ReadsOn(reader[r], load, code)
      /\ load = "release" /\ load' = "absent" /\ UNCHANGED <<code, hi, hooked>>
  BY DEF HookInv, Release
<1>2. \A r \in PvrReaders : reader'[r] = IF InModule(r) THEN [reader[r] EXCEPT !.at = "freed"] ELSE reader[r]
  BY DEF Release
<1>3. \A r \in PvrReaders : reader[r] \in Reads /\ [reader[r] EXCEPT !.at = "freed"] \in Reads
                             /\ [reader[r] EXCEPT !.at = "freed"].at = "freed"
  BY <1>1 DEF HookTypes, Reads, Places
<1>4. HookTypes'
  BY <1>1, <1>3 DEF Release, HookTypes, Loads
<1>5. NobodyIn' /\ HookState'
  <2>1. ASSUME NEW r \in PvrReaders PROVE reader'[r].at \notin {"entered", "returned", "unhooked"}
    BY <1>2, <1>3 DEF InModule
  <2>2. NobodyIn'
    BY <2>1 DEF NobodyIn, InModule
  <2> QED BY <1>1, <2>2 DEF HookState, Patched
<1>6. ASSUME NEW r \in PvrReaders PROVE ReadsOn(reader'[r], load', code')
  BY <1>1, <1>2, <1>3 DEF ReadsOn, InModule
<1> QED BY <1>4, <1>5, <1>6 DEF HookInv

(* A reader's step changes its own read alone.                             *)
LEMMA ReaderStep ==
  ASSUME HookInv, NEW r \in PvrReaders, NEW x \in Reads, reader' = [reader EXCEPT ![r] = x],
         UNCHANGED <<hi, load>>, code' \in {"first", code}, hooked' \in BOOLEAN,
         code' # code \/ hooked' # hooked => ~KernelLocked /\ Patched /\ code' = "first",
         x.at \in {"entered", "returned", "unhooked"} =>
           Patched /\ (load \in {"flag", "sniff", "loaded", "unhook", "release"} => hi.target),
         ReadsOn(x, load', code')
  PROVE  HookInv'
<1>1. HookTypes /\ HookState /\ \A q \in PvrReaders : ReadsOn(reader[q], load, code)
  BY DEF HookInv
<1>2. /\ reader' \in [PvrReaders -> Reads] /\ reader'[r] = x
      /\ \A q \in PvrReaders : q # r => reader'[q] = reader[q]
  BY <1>1 DEF HookTypes
<1>3. HookTypes'
  BY <1>1, <1>2 DEF HookTypes
<1>4. /\ ~Patched => x.at \notin {"entered", "returned", "unhooked"}
      /\ load \in {"flag", "sniff", "loaded", "unhook", "release"} /\ ~hi.target =>
           x.at \notin {"entered", "returned", "unhooked"}
  OBVIOUS
<1>5. NobodyIn /\ x.at \notin {"entered", "returned", "unhooked"} => NobodyIn'
  BY <1>2 DEF NobodyIn, InModule
<1>6. HookState'
  BY <1>1, <1>4, <1>5 DEF HookState, Patched, KernelLocked
<1>7. ASSUME NEW q \in PvrReaders PROVE ReadsOn(reader'[q], load', code')
  BY <1>1, <1>2 DEF ReadsOn
<1> QED BY <1>2, <1>3, <1>6, <1>7 DEF HookInv

(* The next element of a read, or its end.                                 *)
LEMMA OnwardFacts ==
  ASSUME NEW x \in Reads, x.shown = x.el + 1
  PROVE  /\ Onward(x) \in Reads
         /\ Onward(x).at \in {"idle", "call"}
         /\ Onward(x).at = "call" => Onward(x).shown = Onward(x).el
         /\ Onward(x).at = "idle" => Onward(x).shown = PvrNodes + 1
<1>1. PvrNodes \in Nat /\ x.el \in 0 .. PvrNodes
  BY NodesAssumption DEF Reads
<1>2. CASE x.el = PvrNodes
  BY <1>1, <1>2 DEF Onward, Reads, Places
<1>3. CASE x.el # PvrNodes
  <2>1. x.el + 1 \in 0 .. PvrNodes
    BY <1>1, <1>3
  <2>2. Onward(x) = [x EXCEPT !.at = "call", !.el = x.el + 1]
    BY <1>3 DEF Onward
  <2>3. Onward(x) \in Reads
    BY <2>1, <2>2 DEF Reads, Places
  <2>4. Onward(x).at = "call" /\ Onward(x).el = x.el + 1 /\ Onward(x).shown = x.shown
    BY <2>2 DEF Reads
  <2> QED BY <2>3, <2>4
<1> QED BY <1>2, <1>3

(* The steps of a read.                                                    *)
LEMMA ReadInv ==
  ASSUME HookInv, NEW r \in PvrReaders,
         StartRead(r) \/ CallShow(r) \/ HookInvoke(r) \/ ShowNext(r) \/ ShowLast(r) \/ ClearHooked(r)
  PROVE  HookInv'
<1>1. HookTypes /\ HookState /\ ReadsOn(reader[r], load, code) /\ reader[r] \in Reads
  BY DEF HookInv, HookTypes
<1> DEFINE x == reader[r]
<1>2. /\ x.el \in 0 .. PvrNodes /\ PvrNodes \in Nat \ {0} /\ x.at \in Places
      /\ x.shown \in 0 .. PvrNodes + 1
  BY <1>1, NodesAssumption DEF Reads
<1>3. InModule(r) => Patched /\ (load \in {"flag", "sniff", "loaded", "unhook", "release"} => hi.target)
  BY <1>1 DEF HookState, NobodyIn
<1>4. CASE StartRead(r)
  <2> DEFINE y == [NoRead EXCEPT !.at = "call"]
  <2>0. NoRead \in Reads /\ NoRead.shown = 0 /\ NoRead.el = 0
    BY <1>2 DEF Reads, NoRead, Places
  <2>1. y \in Reads /\ y.at = "call" /\ y.shown = 0 /\ y.el = 0
    BY <2>0 DEF Reads, Places
  <2>2. ReadsOn(y, load', code')
    BY <2>1 DEF ReadsOn
  <2>3. reader' = [reader EXCEPT ![r] = y] /\ UNCHANGED <<code, hi, hooked, load>>
    BY <1>4 DEF StartRead
  <2> HIDE DEF y
  <2> QED BY <1>1, <2>1, <2>2, <2>3, ReaderStep DEF HookTypes
<1>5. CASE CallShow(r) /\ code = "first"
  <2> DEFINE s == Shown(x)  y == Onward(s)
  <2>1. x.at = "call" /\ reader' = [reader EXCEPT ![r] = y] /\ UNCHANGED <<code, hi, hooked, load>>
    BY <1>5 DEF CallShow
  <2>2. x.shown = x.el
    BY <1>1, <2>1 DEF ReadsOn
  <2>3. s \in Reads /\ s.shown = s.el + 1
    BY <1>1, <1>2, <2>2 DEF Shown, Reads
  <2> HIDE DEF s
  <2>4. /\ y \in Reads /\ y.at \in {"idle", "call"}
        /\ y.at = "call" => y.shown = y.el
        /\ y.at = "idle" => y.shown = PvrNodes + 1
    BY <2>3, OnwardFacts
  <2> HIDE DEF y
  <2>5. ReadsOn(y, load', code')
    BY <2>4 DEF ReadsOn
  <2> QED BY <1>1, <2>1, <2>4, <2>5, ReaderStep DEF HookTypes
<1>6. CASE CallShow(r) /\ code # "first"
  <2> DEFINE y == [x EXCEPT !.at = "entered", !.early = x.early \/ load \in {"jmp", "cont"}]
  <2>1. x.at = "call" /\ reader' = [reader EXCEPT ![r] = y] /\ UNCHANGED <<code, hi, hooked, load>>
    BY <1>6 DEF CallShow
  <2>2. y \in Reads /\ y.at = "entered" /\ y.shown = x.shown /\ y.el = x.el
    BY <1>1 DEF Reads, Places
  <2>3. y.early = (x.early \/ load \in {"jmp", "cont"})
    BY <1>1 DEF Reads, Places
  <2> HIDE DEF y
  <2>4. ReadsOn(y, load', code')
    BY <1>1, <2>1, <2>2, <2>3 DEF ReadsOn
  <2>5. Patched /\ (load \in {"flag", "sniff", "loaded", "unhook", "release"} => hi.target)
    BY <1>1, <1>6 DEF HookState
  <2> QED BY <1>1, <2>1, <2>2, <2>4, <2>5, ReaderStep DEF HookTypes
<1>7. CASE HookInvoke(r)
  <2>1. x.at = "entered" /\ UNCHANGED <<code, hi, hooked, load>> /\ InModule(r)
    BY <1>7 DEF HookInvoke, InModule
  <2>2. CASE hi.asm0 = "first" /\ hi.jmp /\ hi.cont
    <3> DEFINE y == [Shown(x) EXCEPT !.at = "returned"]
    <3>1. reader' = [reader EXCEPT ![r] = y]
      BY <1>7, <2>2 DEF HookInvoke
    <3>2. x.shown = x.el
      BY <1>1, <2>1 DEF ReadsOn
    <3>3. y \in Reads /\ y.at = "returned" /\ y.shown = y.el + 1
      <4>1. Shown(x) \in Reads /\ Shown(x).shown = x.el + 1 /\ Shown(x).el = x.el
        BY <1>1, <1>2, <3>2 DEF Reads, Shown
      <4> QED BY <4>1 DEF Reads, Places
    <3> HIDE DEF y
    <3>4. load' \notin {"jmp", "cont"}
      BY <1>1, <2>1, <2>2 DEF HookState
    <3>5. ReadsOn(y, load', code')
      BY <3>3, <3>4 DEF ReadsOn
    <3> QED BY <1>1, <1>3, <2>1, <3>1, <3>3, <3>5, ReaderStep DEF HookTypes
  <2>3. CASE ~(hi.asm0 = "first" /\ hi.jmp /\ hi.cont)
    <3> DEFINE y == [x EXCEPT !.at = "wild"]
    <3>1. reader' = [reader EXCEPT ![r] = y]
      BY <1>7, <2>3 DEF HookInvoke
    <3>2. y \in Reads /\ y.at = "wild" /\ y.early = x.early
      BY <1>1 DEF Reads, Places
    <3>3. x.early
      BY <1>1, <1>3, <2>1, <2>3 DEF ReadsOn, HookState, Patched
    <3> HIDE DEF y
    <3>4. ReadsOn(y, load', code')
      BY <3>2, <3>3 DEF ReadsOn
    <3> QED BY <1>1, <2>1, <3>1, <3>2, <3>4, ReaderStep DEF HookTypes
  <2> QED BY <2>2, <2>3
<1>8. CASE ShowNext(r)
  <2> DEFINE y == Onward(x)
  <2>1. x.at = "returned" /\ reader' = [reader EXCEPT ![r] = y] /\ UNCHANGED <<code, hi, hooked, load>>
    BY <1>8 DEF ShowNext
  <2>2. x.shown = x.el + 1
    BY <1>1, <2>1 DEF ReadsOn
  <2>3. /\ y \in Reads /\ y.at \in {"idle", "call"}
        /\ y.at = "call" => y.shown = y.el
        /\ y.at = "idle" => y.shown = PvrNodes + 1
    BY <1>1, <2>2, OnwardFacts
  <2> HIDE DEF y
  <2>4. ReadsOn(y, load', code')
    BY <2>3 DEF ReadsOn
  <2> QED BY <1>1, <2>1, <2>3, <2>4, ReaderStep DEF HookTypes
<1>9. CASE ShowLast(r)
  <2> DEFINE y == [x EXCEPT !.at = "unhooked"]
  <2>1. /\ x.at = "returned" /\ ~KernelLocked /\ code' = Unhooked
        /\ reader' = [reader EXCEPT ![r] = y] /\ UNCHANGED <<hi, hooked, load>>
    BY <1>9 DEF ShowLast
  <2>2. InModule(r)
    BY <2>1 DEF InModule
  <2>3. Patched /\ hi.target /\ code' = "first"
    BY <1>1, <1>3, <2>1, <2>2 DEF HookState, Patched, KernelLocked, Unhooked
  <2>4. y \in Reads /\ y.at = "unhooked" /\ y.shown = x.shown /\ y.el = x.el
    BY <1>1 DEF Reads, Places
  <2> HIDE DEF y
  <2>5. ReadsOn(y, load', code')
    BY <1>1, <2>1, <2>3, <2>4 DEF ReadsOn, KernelLocked
  <2> QED BY <1>1, <2>1, <2>3, <2>4, <2>5, ReaderStep DEF HookTypes
<1>10. CASE ClearHooked(r)
  <2> DEFINE y == Onward(x)
  <2>1. /\ x.at = "unhooked" /\ hooked' = FALSE
        /\ reader' = [reader EXCEPT ![r] = y] /\ UNCHANGED <<code, hi, load>>
    BY <1>10 DEF ClearHooked
  <2>2. x.shown = x.el + 1 /\ code = "first" /\ load \notin {"jmp", "cont"} /\ InModule(r)
    BY <1>1, <2>1 DEF ReadsOn, InModule
  <2>3. /\ y \in Reads /\ y.at \in {"idle", "call"}
        /\ y.at = "call" => y.shown = y.el
        /\ y.at = "idle" => y.shown = PvrNodes + 1
    BY <1>1, <2>2, OnwardFacts
  <2> HIDE DEF y
  <2>4. ReadsOn(y, load', code')
    BY <2>3 DEF ReadsOn
  <2>5. Patched /\ ~KernelLocked
    BY <1>3, <2>2 DEF Patched, KernelLocked
  <2> QED BY <2>1, <2>2, <2>3, <2>4, <2>5, ReaderStep
<1> QED BY <1>4, <1>5, <1>6, <1>7, <1>8, <1>9, <1>10

(* The hook as it was when the machine started.                            *)
LEMMA HookFresh ==
  ASSUME code' = "first", hi' = NoHook, hooked' = FALSE, load' = "absent",
         reader' = [r \in PvrReaders |-> NoRead]
  PROVE  HookInv'
<1>1. NoRead \in Reads /\ NoRead.at = "idle" /\ NoRead.shown = 0
  BY NodesAssumption DEF NoRead, Reads, Places
<1>2. HookTypes'
  BY <1>1 DEF HookTypes, NoHook, Loads
<1>3. HookState'
  BY <1>1 DEF HookState, Patched, NobodyIn, InModule
<1>4. \A r \in PvrReaders : ReadsOn(NoRead, load', code')
  BY <1>1 DEF ReadsOn
<1> QED BY <1>2, <1>3, <1>4 DEF HookInv, ReadsOn

(* The hook's part of every step.                                          *)
LEMMA HookStep == HookInv /\ [Next]_vars => HookInv'
<1> SUFFICES ASSUME HookInv, [Next]_vars PROVE HookInv'
  OBVIOUS
<1>1. CASE PvrHookStep
  BY <1>1, LoadingInv, ReleaseInv, ReadInv DEF PvrHookStep
<1>2. CASE ModulesLoaded
  BY <1>2, HookFresh DEF ModulesLoaded
<1>3. CASE UNCHANGED hookVars
  BY <1>3 DEF hookVars, HookInv, HookTypes, HookState, Patched, NobodyIn, InModule, ReadsOn
<1> QED BY <1>1, <1>2, <1>3 DEF Next, vars, RunSecondInit, InitRuns, RunHook, RunBootMode, Started,
  others, Early, ChargeStarts, ChargePower, ChargeDisplay, ChargeEnds, AndroidBattery,
  AndroidNotification, AndroidLocked, LightsRun, LockedRun

(* HookTransparent: for any number of readers and nodes, each read shows   *)
(* every element once, and no module that is gone leaves its jump behind.  *)
THEOREM HookIsTransparent == Spec => []HookTransparent
<1>1. Init => HookInv
  <2>1. ASSUME Init PROVE HookInv
    <3>1. /\ code = "first" /\ hi = NoHook /\ hooked = FALSE /\ load = "absent"
          /\ reader = [r \in PvrReaders |-> NoRead]
      BY <2>1 DEF Init, PvrHookInit
    <3>2. NoRead \in Reads /\ NoRead.at = "idle" /\ NoRead.shown = 0
      BY NodesAssumption DEF NoRead, Reads, Places
    <3> QED BY <3>1, <3>2 DEF HookInv, HookTypes, NoHook, Loads, HookState, Patched, NobodyIn, InModule, ReadsOn
  <2> QED BY <2>1
<1>2. HookInv => HookTransparent
  BY DEF HookInv, HookState, Patched, ReadsOn, HookTransparent
<1> QED BY <1>1, <1>2, HookStep, PTL DEF Spec

-----------------------------------------------------------------------------
(* A set of naturals that has an element has a least one.                  *)
LEMMA LeastNat ==
  ASSUME NEW S \in SUBSET Nat, S # {}
  PROVE  Min(S) \in S /\ \A k \in S : Min(S) <= k
<1>1. PICK m \in S : \A k \in S : ~(<<k, m>> \in OpToRel(<, Nat))
  BY WFMin, NatLessThanWellFounded
<1>2. \A k \in S : ~(k < m)
  BY <1>1 DEF OpToRel
<1>3. \E x \in S : \A k \in S : x <= k
  BY <1>2
<1> QED BY <1>3 DEF Min

(* FirstFrom finds the least of the places that are not before i.          *)
LEMMA FirstFromLeast ==
  ASSUME NEW places \in SUBSET (Nat \ {0}), NEW i \in Nat
  PROVE  /\ (\A k \in places : k < i) => FirstFrom(i, places) = 0
         /\ \A k \in places : k >= i => /\ FirstFrom(i, places) \in places
                                        /\ FirstFrom(i, places) >= i
                                        /\ FirstFrom(i, places) <= k
<1> DEFINE found == {k \in places : k >= i}
<1>1. ASSUME \A k \in places : k < i PROVE FirstFrom(i, places) = 0
  <2>1. ASSUME NEW k \in found PROVE FALSE
    <3>1. k \in places /\ k >= i /\ k < i /\ k \in Nat
      BY <1>1
    <3> QED BY <3>1
  <2> QED BY <2>1 DEF FirstFrom
<1>2. ASSUME NEW k \in places, k >= i
      PROVE  FirstFrom(i, places) \in places /\ FirstFrom(i, places) >= i /\ FirstFrom(i, places) <= k
  <2>1. k \in found /\ found \in SUBSET Nat
    BY <1>2
  <2>2. FirstFrom(i, places) = Min(found)
    BY <2>1 DEF FirstFrom
  <2>3. Min(found) \in found /\ \A n \in found : Min(found) <= n
    BY <2>1, LeastNat
  <2> QED BY <2>1, <2>2, <2>3
<1> QED BY <1>1, <1>2

(* Of a plain file a lookup gives the value of the first line with the key. *)
LEMMA ValueOfFirst ==
  ASSUME NEW f \in Files, Plain(f), NEW key, NEW first \in {1, 2}, NEW values, "none" \notin values,
         first = 2 /\ f # <<>> => f[1].key # key
  PROVE  ValueOf(f, key, first) \in values <=> Tells(f, key, values)
<1>1. PICK n \in 0 .. FileLines : f \in [1 .. n -> Lines]
  BY DEF Files
<1>2. n \in Nat /\ DOMAIN f = 1 .. n
  BY <1>1, FileLinesAssumption
<1> DEFINE P == {k \in DOMAIN f : f[k].key = key}  i == FirstFrom(first, P)
<1>3. \A k \in P : k \in Nat \ {0} /\ k \in DOMAIN f /\ k >= first
  <2> SUFFICES ASSUME NEW k \in P PROVE k \in Nat \ {0} /\ k \in DOMAIN f /\ k >= first
    OBVIOUS
  <2>1. k \in 1 .. n /\ f[k].key = key
    BY <1>2
  <2>2. f # <<>>
    BY <1>1, <1>2, <2>1, EmptySeq
  <2> QED BY <1>2, <2>1, <2>2
<1>4. P \in SUBSET (Nat \ {0})
  BY <1>3
<1>5. CASE P = {}
  <2>1. i = 0
    BY <1>4, <1>5, FirstFromLeast
  <2>2. ValueOf(f, key, first) = "none"
    BY <2>1 DEF ValueOf
  <2> QED BY <1>5, <2>2 DEF Tells
<1>6. CASE P # {}
  <2> HIDE DEF P
  <2>1. i \in P /\ \A k \in P : i <= k
    <3>1. ASSUME NEW k \in P PROVE i \in P /\ i <= k
      BY <1>3, <1>4, FirstFromLeast
    <3> QED BY <1>6, <3>1
  <2> HIDE DEF i
  <2>2. i \in DOMAIN f /\ f[i].key = key /\ i \in 1 .. n
    BY <1>2, <1>3, <2>1 DEF P
  <2> DEFINE C == {k \in DOMAIN f : f[k].colon}
  <2>3. C \in SUBSET (Nat \ {0}) /\ i \in C
    BY <1>2, <2>2 DEF Plain
  <2>4. FirstFrom(i, C) >= i /\ FirstFrom(i, C) <= i /\ FirstFrom(i, C) \in C
    BY <2>2, <2>3, FirstFromLeast
  <2>5. FirstFrom(i, C) = i
    BY <2>2, <2>3, <2>4
  <2>6. ValueFrom(f, i) = f[i].value
    BY <2>2, <2>5 DEF ValueFrom
  <2>7. ValueOf(f, key, first) = f[i].value
    BY <2>2, <2>6 DEF ValueOf, P, i
  <2>8. ASSUME f[i].value \in values PROVE Tells(f, key, values)
    <3>1. ASSUME NEW j \in 1 .. i - 1 PROVE f[j].key # key
      <4>1. j \in DOMAIN f /\ j < i
        BY <1>2, <2>2, <3>1
      <4> QED BY <2>1, <2>2, <4>1 DEF P
    <3> QED BY <2>2, <2>8, <3>1 DEF Tells
  <2>9. ASSUME Tells(f, key, values) PROVE f[i].value \in values
    <3>1. PICK k \in DOMAIN f : /\ f[k].key = key /\ f[k].value \in values
                                /\ \A j \in 1 .. k - 1 : f[j].key # key
      BY <2>9 DEF Tells
    <3>2. k \in P /\ i <= k
      BY <2>1, <3>1 DEF P
    <3>3. k = i
      BY <1>2, <2>2, <3>1, <3>2
    <3> QED BY <3>1, <3>3
  <2> QED BY <2>7, <2>8, <2>9
<1> QED BY <1>5, <1>6

(* ModeFollowsFile: for files of any length, the decision goes by the      *)
(* first line of each key, and recovery wins.                              *)
THEOREM ModeIsTheFiles == Spec => []ModeFollowsFile
<1>1. Init => ModeInv
  BY DEF Init, BootModeInit, ModeInv
<1>2. ModeInv /\ [Next]_vars => ModeInv'
  BY DEF ModeInv, Next, vars, RunSecondInit, InitRuns, RunHook, ModulesLoaded, RunBootMode, Decide, Started,
  others, Early, ChargeStarts, ChargePower, ChargeDisplay, ChargeEnds, AndroidBattery,
  AndroidNotification, AndroidLocked, LightsRun, LockedRun
<1>3. ASSUME ModeInv, mode # "unknown", Plain(bootinfo)
      PROVE  /\ mode = "recovery" <=> Tells(bootinfo, "CID_RECOVER_BOOT", Recover)
             /\ mode = "charge" <=> /\ Tells(bootinfo, "POWERUPREASON", {Charger})
                                    /\ ~Tells(bootinfo, "CID_RECOVER_BOOT", Recover)
  <2>1. bootinfo \in Files /\ mode = ModeOf(bootinfo)
    BY <1>3 DEF ModeInv
  <2>2. CheckCidRecoverBoot(bootinfo) <=> Tells(bootinfo, "CID_RECOVER_BOOT", Recover)
    <3>1. "none" \notin Recover
      BY DEF Recover
    <3>2. bootinfo # <<>> => bootinfo[1].key # "CID_RECOVER_BOOT"
      BY <1>3 DEF Plain
    <3> QED BY <1>3, <2>1, <3>1, <3>2, ValueOfFirst DEF CheckCidRecoverBoot
  <2>3. BootReasonChargeOnly(bootinfo) <=> Tells(bootinfo, "POWERUPREASON", {Charger})
    <3>1. "none" \notin {Charger}
      BY DEF Charger
    <3>2. ValueOf(bootinfo, "POWERUPREASON", 1) \in {Charger} <=> Tells(bootinfo, "POWERUPREASON", {Charger})
      BY <1>3, <2>1, <3>1, ValueOfFirst
    <3> QED BY <3>2 DEF BootReasonChargeOnly
  <2> QED BY <2>1, <2>2, <2>3 DEF ModeOf
<1>4. ModeInv => ModeFollowsFile
  BY <1>3 DEF ModeFollowsFile
<1> QED BY <1>1, <1>2, <1>4, PTL DEF Spec

-----------------------------------------------------------------------------
(* The level is clamped. *)
LEMMA LevelClamped == ASSUME GetDeviceState PROVE level' \in 0 .. 100 /\ broken' \in BOOLEAN
<1>1. PICK counter \in Counters, capacity \in Capacities, present \in BOOLEAN, unknown \in BOOLEAN :
        level' = ChargeLevel(counter, capacity) /\ broken' = (unknown \/ ~present)
  BY DEF GetDeviceState
<1>2. counter \in Int /\ capacity \in Int
  BY LevelsAssumption
<1>3. ChargeLevel(counter, capacity) \in 0 .. 100
  BY <1>2 DEF ChargeLevel
<1>4. broken' \in BOOLEAN
  BY <1>1
<1> QED BY <1>1, <1>3, <1>4

(* What is held when the program has ended, or has not begun.              *)
LEMMA NothingIsHeld ==
  /\ Nothing \in Holdings
  /\ Loaded(6) \ Unloaded = {}
  /\ [Nothing EXCEPT !.pictures = {}] = Nothing
<1>1. Nothing \in Holdings
  BY DEF Nothing, Holdings
<1>2. Loaded(6) \ Unloaded = {}
  BY DEF Unloaded
<1>3. [Nothing EXCEPT !.pictures = {}] = Nothing
  BY DEF Nothing
<1> QED BY <1>1, <1>2, <1>3

(* A power event draws the level and the state that were read.             *)
LEMMA PowerEventInv == ASSUME DevicesInv, NEW u \in BOOLEAN, PowerEventDevices(u) PROVE DevicesInv'
<1>1. DevicesTypes /\ program \in {"init", "loop"}
  BY DEF DevicesInv, PowerEventDevices
<1>2. /\ program' = "loop" /\ GetDeviceState /\ held' = held
      /\ picture' = Draw(level', broken', frame) /\ frame' = (frame + 1) % 4
  BY DEF PowerEventDevices, ScreenUpdate
<1>3. level' \in 0 .. 100 /\ broken' \in BOOLEAN
  BY <1>2, LevelClamped
<1>4. frame \in 0 .. 3 /\ frame' \in 0 .. 3
  BY <1>1, <1>2 DEF DevicesTypes
<1>5. DevicesTypes'
  BY <1>1, <1>2, <1>3, <1>4 DEF DevicesTypes
<1>6. \E f \in 0 .. 3 : picture' = Draw(level', broken', f)
  BY <1>2, <1>4
<1>7. held'.pictures = Loaded(6) /\ held'.fb
  BY <1>1, <1>2 DEF DevicesInv
<1> QED BY <1>2, <1>5, <1>6, <1>7 DEF DevicesInv

(* The program starts with all it needs, or ends with nothing.             *)
LEMMA StartsInv == ASSUME DevicesInv, ScreenInit \/ EventsAndLights PROVE DevicesInv'
<1>1. DevicesTypes
  BY DEF DevicesInv
<1>2. CASE ScreenInit
  <2>1. program = "off" /\ held = Nothing /\ GetDeviceState /\ frame' = frame
    BY <1>2 DEF ScreenInit, DevicesInv, screenVars
  <2>2. PICK pictures \in SUBSET Loaded(6), fb \in BOOLEAN :
          /\ DrawInit(pictures)
          /\ \/ /\ pictures = Loaded(6) /\ fb
                /\ program' = "screen"
                /\ held' = [held EXCEPT !.pictures = pictures, !.fb = TRUE]
             \/ /\ pictures # Loaded(6) \/ ~fb
                /\ program' = "ended"
                /\ held' = [held EXCEPT !.pictures = pictures \ Unloaded]
    BY <1>2 DEF ScreenInit
  <2>3. CASE program' = "screen" /\ held' = [held EXCEPT !.pictures = Loaded(6), !.fb = TRUE]
    <3>1. held \in Holdings
      BY <1>1 DEF DevicesTypes
    <3>2. held' \in Holdings /\ held'.pictures = Loaded(6) /\ held'.fb = TRUE
      BY <2>3, <3>1 DEF Holdings
    <3>3. DevicesTypes'
      BY <1>1, <2>1, <2>3, <3>2, LevelClamped DEF DevicesTypes
    <3> QED BY <2>3, <3>2, <3>3 DEF DevicesInv
  <2>4. CASE program' = "ended" /\ held' = [held EXCEPT !.pictures = pictures \ Unloaded]
    <3>1. pictures \ Unloaded = {}
      BY NothingIsHeld
    <3>2. held' = [Nothing EXCEPT !.pictures = {}]
      BY <2>1, <2>4, <3>1
    <3>3. held' = Nothing /\ held' \in Holdings
      BY <3>2, NothingIsHeld
    <3>4. DevicesTypes'
      BY <1>1, <2>1, <2>4, <3>3, LevelClamped DEF DevicesTypes
    <3> QED BY <2>4, <3>3, <3>4 DEF DevicesInv
  <2> QED BY <2>2, <2>3, <2>4
<1>3. CASE EventsAndLights
  <2>1. /\ program = "screen" /\ program' = "init"
        /\ UNCHANGED <<level, broken, frame, picture>>
    BY <1>3 DEF EventsAndLights, screenVars
  <2>2. PICK n \in Inputs, u \in BOOLEAN : held' = [held EXCEPT !.inputs = n, !.uevents = u]
    BY <1>3 DEF EventsAndLights
  <2>3. held \in Holdings /\ held.pictures = Loaded(6) /\ held.fb
    BY <1>1, <2>1 DEF DevicesTypes, DevicesInv
  <2>4. held' \in Holdings /\ held'.pictures = held.pictures /\ held'.fb = held.fb
    BY <2>2, <2>3 DEF Holdings
  <2>5. DevicesTypes'
    BY <1>1, <2>1, <2>4 DEF DevicesTypes
  <2> QED BY <2>1, <2>3, <2>4, <2>5 DEF DevicesInv
<1> QED BY <1>2, <1>3

(* The end gives everything back.                                          *)
LEMMA EndsInv == ASSUME DevicesInv, EndProgram PROVE DevicesInv'
<1>1. /\ DevicesTypes /\ program = "loop" /\ program' = "ended" /\ held.pictures = Loaded(6)
      /\ held' = [pictures |-> held.pictures \ Unloaded, fb |-> FALSE, inputs |-> 0, uevents |-> FALSE]
      /\ level' = level /\ broken' = broken /\ ShowLogo
  BY DEF EndProgram, DevicesInv
<1>2. held' = Nothing
  BY <1>1, NothingIsHeld DEF Nothing
<1>3. frame' = frame
  BY <1>1 DEF ShowLogo, screenVars
<1>4. DevicesTypes'
  BY <1>1, <1>2, <1>3, NothingIsHeld DEF DevicesTypes
<1> QED BY <1>1, <1>2, <1>4 DEF DevicesInv

(* Up to three digits joined.                                              *)
LEMMA Joined ==
  ASSUME NEW s \in Seq(Int), NEW t \in Seq(Int), NEW c \in Int, Len(s) \in 0 .. 1, Len(t) \in 0 .. 1,
         NEW d, d = (s \o t) \o <<c>>
  PROVE  /\ Len(d) = Len(s) + Len(t) + 1
         /\ d[Len(s) + Len(t) + 1] = c
         /\ Len(t) = 1 => d[Len(s) + 1] = t[1]
         /\ Len(s) = 1 => d[1] = s[1]
<1> DEFINE u == s \o t  v == <<c>>
<1>1. v \in Seq(Int) /\ Len(v) = 1 /\ v[1] = c
  OBVIOUS
<1>2. /\ u \in Seq(Int) /\ Len(u) = Len(s) + Len(t)
      /\ \A i \in 1 .. Len(s) + Len(t) : u[i] = IF i <= Len(s) THEN s[i] ELSE t[i - Len(s)]
  BY ConcatProperties
<1> HIDE DEF u, v
<1>3. /\ Len(u \o v) = Len(u) + Len(v)
      /\ \A i \in 1 .. Len(u) + Len(v) : (u \o v)[i] = IF i <= Len(u) THEN u[i] ELSE v[i - Len(u)]
  <2>1. u \in Seq(Int) /\ v \in Seq(Int)
    BY <1>1, <1>2
  <2> QED BY <2>1, ConcatProperties
<1>4. d = u \o v
  BY DEF u, v
<1>5. Len(d) = Len(s) + Len(t) + 1
  BY <1>1, <1>2, <1>3, <1>4
<1>6. d[Len(s) + Len(t) + 1] = c
  BY <1>1, <1>2, <1>3, <1>4
<1>7. ASSUME Len(t) = 1 PROVE d[Len(s) + 1] = t[1]
  <2>1. u[Len(s) + 1] = t[1]
    BY <1>2, <1>7
  <2> QED BY <1>1, <1>2, <1>3, <1>4, <1>7, <2>1
<1>8. ASSUME Len(s) = 1 PROVE d[1] = s[1]
  <2>1. u[1] = s[1]
    BY <1>2, <1>8
  <2> QED BY <1>1, <1>2, <1>3, <1>4, <1>8, <2>1
<1> QED BY <1>5, <1>6, <1>7, <1>8

(* The digits of a level are the level.                                    *)
LEMMA DigitsAreTheNumber ==
  ASSUME NEW l \in 0 .. 100
  PROVE  Number(Digits(l)) = l /\ Digits(l) # <<>> /\ Len(Digits(l)) <= 3
<1> DEFINE s == IF l = 100 THEN <<1>> ELSE <<>>  t == IF l >= 10 THEN << (l \div 10) % 10 >> ELSE <<>>
           d == Digits(l)
<1>1. /\ s \in Seq(Int) /\ Len(s) = (IF l = 100 THEN 1 ELSE 0) /\ Len(s) \in 0 .. 1
      /\ l = 100 => s[1] = 1
  OBVIOUS
<1>2. /\ t \in Seq(Int) /\ Len(t) = (IF l >= 10 THEN 1 ELSE 0) /\ Len(t) \in 0 .. 1
      /\ l >= 10 => t[1] = (l \div 10) % 10
  OBVIOUS
<1>3. d = (s \o t) \o <<l % 10>> /\ l % 10 \in Int
  BY DEF Digits
<1> HIDE DEF s, t, d
<1>4. /\ Len(d) = Len(s) + Len(t) + 1
      /\ d[Len(s) + Len(t) + 1] = l % 10
      /\ Len(t) = 1 => d[Len(s) + 1] = t[1]
      /\ Len(s) = 1 => d[1] = s[1]
  <2>1. s \in Seq(Int) /\ t \in Seq(Int) /\ Len(s) \in 0 .. 1 /\ Len(t) \in 0 .. 1
    BY <1>1, <1>2
  <2> QED BY <1>3, <2>1, Joined
<1>5. CASE l = 100
  <2>1. (l \div 10) % 10 = 0 /\ l % 10 = 0
    BY <1>5
  <2>2. Len(d) = 3 /\ d[1] = 1 /\ d[2] = 0 /\ d[3] = 0
    BY <1>1, <1>2, <1>4, <1>5, <2>1
  <2>3. Number(d) = 100
    BY <2>2 DEF Number
  <2>4. d # <<>> /\ Len(d) <= 3
    BY <2>2
  <2> QED BY <1>5, <2>3, <2>4 DEF d
<1>6. CASE l \in 10 .. 99
  <2>1. (l \div 10) % 10 = l \div 10 /\ 10 * (l \div 10) + (l % 10) = l
    <3>1. l \div 10 \in 1 .. 9
      BY <1>6
    <3>2. \A q \in 1 .. 9 : q % 10 = q
      OBVIOUS
    <3>3. 10 * (l \div 10) + (l % 10) = l
      BY <1>6
    <3> QED BY <3>1, <3>2, <3>3
  <2>2. Len(d) = 2 /\ d[1] = l \div 10 /\ d[2] = l % 10
    BY <1>1, <1>2, <1>4, <1>6, <2>1
  <2> QED BY <2>1, <2>2 DEF Number, d
<1>7. CASE l \in 0 .. 9
  <2>1. l % 10 = l
    BY <1>7
  <2>2. Len(d) = 1 /\ d[1] = l
    BY <1>1, <1>2, <1>4, <1>7, <2>1
  <2> QED BY <2>2 DEF Number, d
<1> QED BY <1>5, <1>6, <1>7

(* Fill and strip stay in the glass and meet.                              *)
LEMMA InTheGlass ==
  ASSUME NEW l \in 0 .. 100
  PROVE  /\ FrameHeight(ImageColor(l)) = 16 /\ PngTop = 303 /\ PngBottom = 550
         /\ FillFrom(l) \in PngTop .. PngBottom
         /\ StripFrom(l) >= PngTop /\ StripFrom(l) + 16 <= PngBottom /\ StripFrom(l) + 16 >= FillFrom(l)
<1>1. FrameHeight(ImageColor(l)) = 16
  BY DEF FrameHeight, ImageColor, Heights
<1>2. PngTop = 303 /\ PngBottom = 550
  BY DEF PngTop, PngBottom, Background
<1>3. (l * 247) \div 100 \in 0 .. 247
  OBVIOUS
<1>4. FillFrom(l) = 550 - (l * 247) \div 100
  BY <1>2 DEF FillFrom
<1>5. FillFrom(l) \in 303 .. 550
  BY <1>3, <1>4
<1>6. StripFrom(l) = IF FillFrom(l) - 16 < 303 THEN 303 ELSE FillFrom(l) - 16
  BY <1>1, <1>2 DEF StripFrom
<1> QED BY <1>1, <1>2, <1>5, <1>6

(* The frames of a strip are unpacked into its height. *)
LEMMA FramesDoFit == FramesFit
<1>1. \A c \in DOMAIN Heights : Heights[c][1] = 16 /\ \A i \in 2 .. 4 : Heights[c][i] \in 13 .. 14
  BY DEF Heights
<1> QED BY <1>1 DEF FramesFit, FrameHeight

(* PictureTrue: for whatever the battery's files say, the picture is the   *)
(* level's, from pictures that are loaded, and nothing stays open.         *)
THEOREM PictureIsTheLevels == Spec => []PictureTrue
<1>1. Init => DevicesInv
  <2>1. ASSUME Init PROVE DevicesInv
    <3>1. program = "off" /\ held = Nothing /\ level = 0 /\ broken = FALSE /\ frame = 0
      BY <2>1 DEF Init, DevicesInit
    <3>2. held \in Holdings
      BY <3>1, NothingIsHeld
    <3>3. level \in 0 .. 100 /\ frame \in 0 .. 3
      BY <3>1
    <3>4. broken \in BOOLEAN /\ program \in {"off", "screen", "init", "loop", "ended"}
      BY <3>1
    <3>5. DevicesTypes
      BY <3>2, <3>3, <3>4 DEF DevicesTypes
    <3> QED BY <3>1, <3>5 DEF DevicesInv
  <2> QED BY <2>1
<1>2. DevicesInv /\ [Next]_vars => DevicesInv'
  <2> SUFFICES ASSUME DevicesInv, [Next]_vars PROVE DevicesInv'
    OBVIOUS
  <2>1. CASE ChargeStarts
    BY <2>1, StartsInv DEF ChargeStarts
  <2>2. CASE ChargePower
    BY <2>2, PowerEventInv DEF ChargePower
  <2>3. CASE ChargeEnds
    BY <2>3, EndsInv DEF ChargeEnds
  <2>4. CASE UNCHANGED deviceVars
    BY <2>4 DEF deviceVars, screenVars, DevicesInv, DevicesTypes
  <2> QED BY <2>1, <2>2, <2>3, <2>4 DEF Next, vars, RunSecondInit, InitRuns, RunHook, ModulesLoaded,
    RunBootMode, Started, others, Early, ChargeDisplay, DisplayStage, AndroidBattery,
    AndroidNotification, AndroidLocked, LightsRun, LockedRun
<1>3. DevicesInv => PictureTrue
  <2> SUFFICES ASSUME DevicesInv, program = "loop"
               PROVE  LET p == picture  h == FrameHeight(p.color) IN
                      /\ FramesFit
                      /\ held.fb /\ {"background", "panes", p.color} \subseteq held.pictures
                      /\ p.digits # <<>> => "numbers" \in held.pictures
                      /\ p.digits # <<>> => Number(p.digits) = level /\ Len(p.digits) <= 3
                      /\ broken <=> p.digits = <<>>
                      /\ p.fill \in PngTop .. PngBottom
                      /\ p.strip # <<>> => /\ p.strip[1] >= PngTop /\ p.strip[1] + h <= PngBottom
                                           /\ p.strip[1] + h >= p.fill
                      /\ (p.color = "red") <=> (LedColor(level) = "red")
    BY DEF PictureTrue, DevicesInv
  <2>1. PICK f \in 0 .. 3 : picture = Draw(level, broken, f)
    BY DEF DevicesInv
  <2>2. level \in 0 .. 100 /\ broken \in BOOLEAN /\ held.fb /\ held.pictures = Loaded(6)
    BY DEF DevicesInv, DevicesTypes
  <2>3. /\ picture.color = ImageColor(level)
        /\ picture.fill = IF broken THEN PngBottom ELSE FillFrom(level)
        /\ picture.strip = IF broken \/ level = 100 THEN <<>> ELSE << StripFrom(level), f >>
        /\ picture.digits = IF broken THEN <<>> ELSE Digits(level)
    BY <2>1 DEF Draw
  <2>4. {"background", "panes", picture.color} \subseteq held.pictures /\ "numbers" \in held.pictures
    BY <2>2, <2>3 DEF Loaded, Pictures, ImageColor
  <2>5. Number(Digits(level)) = level /\ Digits(level) # <<>> /\ Len(Digits(level)) <= 3
    BY <2>2, DigitsAreTheNumber
  <2>6. /\ broken <=> picture.digits = <<>>
        /\ picture.digits # <<>> => Number(picture.digits) = level /\ Len(picture.digits) <= 3
    <3>1. Digits(level) # <<>>
      BY <2>5
    <3>2. broken => picture.digits = <<>>
      BY <2>3
    <3>3. ~broken => picture.digits = Digits(level)
      BY <2>3
    <3>4. broken <=> picture.digits = <<>>
      BY <2>2, <3>1, <3>2, <3>3
    <3>5. ASSUME picture.digits # <<>> PROVE Number(picture.digits) = level /\ Len(picture.digits) <= 3
      <4>1. picture.digits = Digits(level)
        BY <3>2, <3>3, <3>5
      <4>2. Number(picture.digits) = level
        BY <2>5, <4>1
      <4>3. Len(Digits(level)) <= 3
        BY <2>2, DigitsAreTheNumber
      <4> QED BY <4>1, <4>2, <4>3
    <3> QED BY <3>4, <3>5
  <2>7. (picture.color = "red") <=> (LedColor(level) = "red")
    BY <2>2, <2>3 DEF ImageColor, LedColor
  <2> DEFINE y == StripFrom(level)
  <2>8. /\ FrameHeight(ImageColor(level)) = 16 /\ PngTop = 303 /\ PngBottom = 550
        /\ FillFrom(level) \in PngTop .. PngBottom
        /\ y >= PngTop /\ y + 16 <= PngBottom /\ y + 16 >= FillFrom(level)
    BY <2>2, InTheGlass
  <2> HIDE DEF y
  <2>9. picture.fill \in PngTop .. PngBottom
    BY <2>3, <2>8
  <2>10. picture.strip # <<>> => /\ picture.strip[1] >= PngTop /\ picture.strip[1] + 16 <= PngBottom
                                 /\ picture.strip[1] + 16 >= picture.fill
    <3>1. CASE ~broken /\ level # 100
      <4>1. picture.strip = <<y, f>> /\ picture.fill = FillFrom(level)
        BY <2>3, <3>1 DEF y
      <4>2. picture.strip[1] = y
        BY <4>1
      <4> QED BY <2>8, <4>1, <4>2
    <3>2. CASE broken \/ level = 100
      BY <2>3, <3>2
    <3> QED BY <3>1, <3>2
  <2>11. FrameHeight(picture.color) = 16
    BY <2>3, <2>8
  <2> QED BY <2>2, <2>4, <2>6, <2>7, <2>9, <2>10, <2>11, FramesDoFit
<1> QED BY <1>1, <1>2, <1>3, PTL DEF Spec

-----------------------------------------------------------------------------
(* A write of the LED changes one of its files, a write of a backlight none. *)
LEMMA LedFileWritten ==
  ASSUME file \in Brightnesses, NEW n \in LedNames, NEW v \in Int, file' = [file EXCEPT ![n] = v]
  PROVE  /\ file' \in Brightnesses
         /\ file'.red = (IF n = "red" THEN v ELSE file.red)
         /\ file'.green = (IF n = "green" THEN v ELSE file.green)
         /\ file'.blue = (IF n = "blue" THEN v ELSE file.blue)
         /\ file'.redBlink = (IF n = "redBlink" THEN v ELSE file.redBlink)
<1>1. CASE n = "red"
  BY <1>1 DEF Brightnesses
<1>2. CASE n = "green"
  BY <1>2 DEF Brightnesses
<1>3. CASE n = "blue"
  BY <1>3 DEF Brightnesses
<1>4. CASE n = "redBlink"
  BY <1>4 DEF Brightnesses
<1> QED BY <1>1, <1>2, <1>3, <1>4 DEF LedNames

(* A backlight's write leaves the LED's files alone.                       *)
LEMMA LockedFileWritten ==
  ASSUME file \in Brightnesses, NEW n \in LockedNames, NEW v \in Int, file' = [file EXCEPT ![n] = v]
  PROVE  /\ file' \in Brightnesses
         /\ file'.red = file.red /\ file'.green = file.green /\ file'.blue = file.blue
         /\ file'.redBlink = file.redBlink
<1>1. CASE n = "als"
  BY <1>1 DEF Brightnesses
<1>2. CASE n = "lcd"
  BY <1>2 DEF Brightnesses
<1>3. CASE n = "keyboard"
  BY <1>3 DEF Brightnesses
<1>4. CASE n = "buttons"
  BY <1>4 DEF Brightnesses
<1> QED BY <1>1, <1>2, <1>3, <1>4 DEF LockedNames

(* The colours are triples of numbers.                                     *)
LEMMA ColourTriples == \A c \in DOMAIN Rgb : /\ Rgb[c] = <<Rgb[c][1], Rgb[c][2], Rgb[c][3]>>
                                              /\ Rgb[c][1] \in Int /\ Rgb[c][2] \in Int /\ Rgb[c][3] \in Int
BY DEF Rgb

(* A call about to write has all its writes left.                          *)
LEMMA AllRemain ==
  ASSUME NEW c \in Calls
  PROVE  /\ Writes(c.color, c.blink) \in Seq(LedNames \X Int) /\ Writes(c.color, c.blink) # <<>>
         /\ Remains([c EXCEPT !.at = "write", !.todo = Writes(c.color, c.blink)], 0)
<1> DEFINE first == << <<"redBlink", 0>>, <<"red", Rgb[c.color][1]>>, <<"green", Rgb[c.color][2]>>,
                       <<"blue", Rgb[c.color][3]>> >>
           last == IF c.blink THEN << <<"redBlink", 255>> >> ELSE <<>>
           t == Writes(c.color, c.blink)
           d == [c EXCEPT !.at = "write", !.todo = t]
<1>1. c.color \in DOMAIN Rgb /\ c.blink \in BOOLEAN
  BY DEF Calls
<1>2. first \in Seq(LedNames \X Int) /\ Len(first) = 4 /\ \A i \in 1 .. 4 : first[i] = Item(i, c.color)
  <2>1. Rgb[c.color][1] \in Int /\ Rgb[c.color][2] \in Int /\ Rgb[c.color][3] \in Int
    BY <1>1, ColourTriples
  <2>2. first \in Seq(LedNames \X Int) /\ Len(first) = 4
    BY <2>1 DEF LedNames
  <2>3. /\ first[1] = Item(1, c.color) /\ first[2] = Item(2, c.color)
        /\ first[3] = Item(3, c.color) /\ first[4] = Item(4, c.color)
    BY DEF Item
  <2> QED BY <2>2, <2>3
<1>3. last \in Seq(LedNames \X Int) /\ Len(last) = (IF c.blink THEN 1 ELSE 0) /\ (c.blink => last[1] = Item(5, c.color))
  <2>1. CASE c.blink
    BY <2>1 DEF LedNames, Item
  <2>2. CASE ~c.blink
    BY <2>2
  <2> QED BY <1>1, <2>1, <2>2
<1>4. t = first \o last
  BY DEF Writes
<1> HIDE DEF first, last, t
<1>5. /\ t \in Seq(LedNames \X Int) /\ Len(t) = 4 + Len(last)
      /\ \A i \in 1 .. 4 + Len(last) : t[i] = IF i <= 4 THEN first[i] ELSE last[i - 4]
  <2> DEFINE W == LedNames \X Int
  <2>1. first \in Seq(W) /\ last \in Seq(W) /\ Len(first) = 4
    BY <1>2, <1>3
  <2> HIDE DEF W
  <2>2. /\ first \o last \in Seq(W) /\ Len(first \o last) = Len(first) + Len(last)
        /\ \A i \in 1 .. Len(first) + Len(last) :
             (first \o last)[i] = IF i <= Len(first) THEN first[i] ELSE last[i - Len(first)]
    BY <2>1, ConcatProperties
  <2> QED BY <1>4, <2>1, <2>2 DEF W
<1>6. Len(t) = (IF c.blink THEN 5 ELSE 4) /\ t # <<>>
  BY <1>1, <1>3, <1>5
<1>7. ASSUME NEW i \in 1 .. Len(t) PROVE t[i] = Item(i, c.color)
  <2>1. CASE i <= 4
    <3>1. i \in 1 .. 4 /\ i \in 1 .. 4 + Len(last)
      BY <1>1, <1>3, <1>6, <1>7, <2>1
    <3> QED BY <1>2, <1>5, <3>1
  <2>2. CASE i = 5 /\ c.blink
    BY <1>3, <1>5, <1>6, <2>2
  <2> QED BY <1>6, <1>7, <2>1, <2>2
<1>8. d.todo = t /\ d.blink = c.blink /\ d.color = c.color
  BY DEF Calls
<1> HIDE DEF d
<1>9. Remains(d, 0)
  BY <1>6, <1>7, <1>8 DEF Remains
<1> QED BY <1>5, <1>6, <1>9 DEF t, d

(* After a write there is one less.                                        *)
LEMMA OneLess ==
  ASSUME NEW c \in Calls, NEW k \in 0 .. 4, Remains(c, k), c.todo # <<>>
  PROVE  /\ Head(c.todo) = Item(k + 1, c.color)
         /\ Tail(c.todo) \in Seq(LedNames \X Int)
         /\ Tail(c.todo) = <<>> => k + 1 = (IF c.blink THEN 5 ELSE 4)
         /\ Tail(c.todo) # <<>> => k + 1 \in 0 .. 4
         /\ \A d \in Calls : d.todo = Tail(c.todo) /\ d.blink = c.blink /\ d.color = c.color => Remains(d, k + 1)
<1> DEFINE t == c.todo
<1>1. t \in Seq(LedNames \X Int) /\ c.blink \in BOOLEAN
  BY DEF Calls
<1>2. Len(t) = (IF c.blink THEN 5 ELSE 4) - k /\ \A i \in 1 .. Len(t) : t[i] = Item(k + i, c.color)
  BY DEF Remains
<1>3. t # <<>>
  OBVIOUS
<1> HIDE DEF t
<1>4. Len(t) \in Nat \ {0} /\ Head(t) = t[1]
  BY <1>1, <1>3, EmptySeq
<1>5. /\ Tail(t) \in Seq(LedNames \X Int) /\ Len(Tail(t)) = Len(t) - 1
      /\ \A i \in 1 .. Len(Tail(t)) : Tail(t)[i] = t[i + 1]
  BY <1>1, <1>3, HeadTailProperties
<1>6. Head(t) = Item(k + 1, c.color)
  BY <1>2, <1>4
<1>7. Tail(t) = <<>> => k + 1 = (IF c.blink THEN 5 ELSE 4)
  <2>1. Tail(t) = <<>> => Len(Tail(t)) = 0
    BY <1>5, EmptySeq
  <2> QED BY <1>2, <1>5, <2>1
<1>8. Tail(t) # <<>> => k + 1 \in 0 .. 4
  <2>1. Tail(t) # <<>> => Len(Tail(t)) # 0
    BY <1>5, EmptySeq
  <2>2. Len(Tail(t)) \in Nat
    BY <1>5
  <2> QED BY <1>1, <1>2, <1>5, <2>1, <2>2
<1>9. ASSUME NEW d \in Calls, d.todo = Tail(t), d.blink = c.blink, d.color = c.color PROVE Remains(d, k + 1)
  <2>1. Len(d.todo) = (IF d.blink THEN 5 ELSE 4) - (k + 1)
    BY <1>2, <1>5, <1>9
  <2>2. ASSUME NEW i \in 1 .. Len(Tail(t)) PROVE Tail(t)[i] = Item((k + 1) + i, c.color)
    <3>1. Tail(t)[i] = t[i + 1] /\ i + 1 \in 1 .. Len(t)
      BY <1>4, <1>5
    <3>2. t[i + 1] = Item(k + (i + 1), c.color)
      BY <1>2, <3>1
    <3>3. k + (i + 1) = (k + 1) + i
      BY <1>4, <1>5
    <3> QED BY <3>1, <3>2, <3>3
  <2> QED BY <1>9, <2>1, <2>2 DEF Remains
<1> QED BY <1>5, <1>6, <1>7, <1>8, <1>9 DEF t

(* A call that runs changes itself; when it is alone the other is idle.    *)
LEMMA StepInv ==
  ASSUME LedInv, NEW l \in Leds, NEW c \in Calls,
         call[l].at # "idle", call' = [call EXCEPT ![l] = c], LightTypes', CallOK(l, c),
         c.alone /\ c.at # "idle" => call[l].alone,
         ~disturbed' => call[l].alone /\ c.alone,
         call[l].alone /\ c.alone /\ c.at # "idle" => Asks(c)',
         ~disturbed' => Calm(c)',
         ~disturbed' /\ c.at = "idle" => Settled' /\ AsWanted'
  PROVE  LedInv'
<1>1. /\ call \in [Leds -> Calls] /\ Undisturbed
      /\ \A o \in Leds : CallOK(o, call[o]) /\ AloneOK(o)
  BY DEF LedInv, LedTypes
<1>2. /\ call' \in [Leds -> Calls] /\ call'[l] = c
      /\ \A o \in Leds : o # l => call'[o] = call[o]
  BY <1>1
<1>3. call[l].alone => \A o \in Leds : o # l => call[o].at = "idle" /\ call[o] = NoCall
  BY <1>1 DEF AloneOK, CallOK
<1>4. LedTypes'
  BY <1>2 DEF LedTypes
<1>5. ASSUME NEW o \in Leds PROVE CallOK(o, call'[o])
  BY <1>1, <1>2
<1>6. ASSUME NEW o \in Leds PROVE AloneOK(o)'
  <2>1. CASE o = l
    <3>1. SUFFICES ASSUME c.alone, c.at # "idle"
                   PROVE  /\ \A p \in Leds : p # l => call'[p].at = "idle"
                          /\ Asks(call[l])'
      BY <1>2, <2>1 DEF AloneOK
    <3>2. call[l].alone /\ Asks(c)'
      BY <3>1
    <3>3. \A p \in Leds : p # l => call'[p].at = "idle"
      BY <1>2, <1>3, <3>2
    <3>4. Asks(call[l])'
      BY <1>2, <3>2 DEF Asks
    <3> QED BY <3>3, <3>4
  <2>2. CASE o # l
    <3>1. ~(call[o].alone /\ call[o].at # "idle")
      BY <1>1, <2>2 DEF AloneOK
    <3> QED BY <1>2, <2>2, <3>1 DEF AloneOK
  <2> QED BY <2>1, <2>2
<1>7. ASSUME ~disturbed' PROVE /\ \A o \in Leds : call'[o].alone /\ Calm(call[o])'
                               /\ Idle' => Settled' /\ AsWanted'
  <2>1. /\ call[l].alone /\ c.alone /\ Calm(c)'
        /\ c.at = "idle" => Settled' /\ AsWanted'
    BY <1>7
  <2>2. \A o \in Leds : o # l => call'[o] = NoCall
    BY <1>2, <1>3, <2>1
  <2>3. ASSUME NEW o \in Leds PROVE call'[o].alone /\ Calm(call[o])'
    <3>1. CASE o = l
      BY <1>2, <2>1, <3>1 DEF Calm
    <3>2. CASE o # l
      BY <2>2, <3>2 DEF NoCall, Calm
    <3> QED BY <3>1, <3>2
  <2>4. Idle' => c.at = "idle"
    BY <1>2 DEF Idle, NoCall
  <2> QED BY <2>1, <2>3, <2>4
<1>8. Undisturbed'
  BY <1>7 DEF Undisturbed
<1> QED BY <1>4, <1>5, <1>6, <1>8 DEF LedInv

(* A call that begins is alone when the other light is idle; else neither  *)
(* is, and the LED is disturbed.                                           *)
LEMMA EnterInv ==
  ASSUME LedInv, NEW l \in Leds, NEW c \in Calls,
         call[l] = NoCall, c.at \notin {"idle", "write"}, Enter(l, c), LightTypes', CallOK(l, c),
         Idle => Asks(c)',
         Idle /\ ~disturbed => Calm(c)'
  PROVE  LedInv'
<1> DEFINE busy == {o \in Leds \ {l} : call[o] # NoCall}
<1>1. /\ call \in [Leds -> Calls] /\ Undisturbed
      /\ \A o \in Leds : CallOK(o, call[o]) /\ AloneOK(o)
  BY DEF LedInv, LedTypes
<1>2. PICK e \in Calls : e = [c EXCEPT !.alone = (busy = {})]
  BY DEF Calls
<1>3. /\ e.at = c.at /\ e.color = c.color /\ e.blink = c.blink /\ e.todo = c.todo
      /\ e.alone <=> busy = {}
  BY <1>2 DEF Calls
<1>4. /\ call' = [o \in Leds |-> IF o = l THEN e ELSE IF o \in busy THEN [call[o] EXCEPT !.alone = FALSE]
                                                                      ELSE call[o]]
      /\ disturbed' = (disturbed \/ busy # {})
  BY <1>2 DEF Enter
<1>5. busy = {} <=> Idle
  BY DEF Idle
<1>6. \A o \in Leds : o # l /\ o \notin busy => call'[o] = NoCall
  BY <1>4
<1>7. \A o \in busy : /\ call'[o] \in Calls /\ call'[o].at = call[o].at /\ call'[o].todo = call[o].todo
                        /\ call'[o].color = call[o].color /\ call'[o].blink = call[o].blink /\ ~call'[o].alone
                        /\ call[o].at # "idle" /\ o \in Leds /\ o # l
  <2> SUFFICES ASSUME NEW o \in busy
               PROVE  /\ call'[o] \in Calls /\ call'[o].at = call[o].at /\ call'[o].todo = call[o].todo
                      /\ call'[o].color = call[o].color /\ call'[o].blink = call[o].blink /\ ~call'[o].alone
                      /\ call[o].at # "idle" /\ o \in Leds /\ o # l
    OBVIOUS
  <2>1. o \in Leds /\ o # l /\ call[o] \in Calls /\ call[o] # NoCall
    BY <1>1
  <2>2. call'[o] = [call[o] EXCEPT !.alone = FALSE]
    BY <1>4, <2>1
  <2>3. call[o].at # "idle"
    BY <1>1, <2>1 DEF CallOK
  <2> QED BY <2>1, <2>2, <2>3 DEF Calls
<1>8. NoCall.at = "idle" /\ NoCall.alone
  BY DEF NoCall
<1>9. call'[l] = e
  BY <1>4
<1> HIDE DEF busy
<1>10. LedTypes'
  <2>1. ASSUME NEW o \in Leds PROVE call'[o] \in Calls
    BY <1>1, <1>6, <1>7, <1>9
  <2> QED BY <1>4, <2>1 DEF LedTypes
<1>11. ASSUME NEW o \in Leds PROVE CallOK(o, call'[o])
  <2>1. CASE o = l
    BY <1>3, <1>9, <2>1 DEF CallOK
  <2>2. CASE o \in busy
    <3>1. CallOK(o, call[o])
      BY <1>1
    <3> QED BY <1>7, <2>2, <3>1 DEF CallOK, Remains
  <2>3. CASE o # l /\ o \notin busy
    BY <1>6, <1>8, <2>3 DEF CallOK
  <2> QED BY <2>1, <2>2, <2>3
<1>12. ASSUME NEW o \in Leds PROVE AloneOK(o)'
  <2>1. CASE o = l
    <3>1. SUFFICES ASSUME e.alone
                   PROVE  /\ \A p \in Leds : p # l => call'[p].at = "idle"
                          /\ Asks(call[l])'
      BY <1>9, <2>1 DEF AloneOK
    <3>2. busy = {} /\ Asks(c)'
      BY <1>3, <1>5, <3>1
    <3>3. Asks(call[l])'
      BY <1>3, <1>9, <3>2 DEF Asks
    <3> QED BY <1>6, <1>8, <3>2, <3>3
  <2>2. CASE o \in busy
    BY <1>7, <2>2 DEF AloneOK
  <2>3. CASE o # l /\ o \notin busy
    BY <1>6, <1>8, <2>3 DEF AloneOK
  <2> QED BY <2>1, <2>2, <2>3
<1>13. ASSUME ~disturbed' PROVE /\ \A o \in Leds : call'[o].alone /\ Calm(call[o])'
                                /\ Idle' => Settled' /\ AsWanted'
  <2>1. busy = {} /\ ~disturbed /\ Idle
    BY <1>4, <1>5, <1>13
  <2>2. e.alone /\ Calm(c)'
    BY <1>3, <2>1
  <2>3. ASSUME NEW o \in Leds PROVE call'[o].alone /\ Calm(call[o])'
    <3>1. CASE o = l
      BY <1>3, <1>9, <2>2, <3>1 DEF Calm
    <3>2. CASE o # l
      BY <1>6, <1>8, <2>1, <3>2 DEF Calm
    <3> QED BY <3>1, <3>2
  <2>4. ~Idle'
    BY <1>3, <1>8, <1>9 DEF Idle
  <2> QED BY <2>3, <2>4
<1>14. Undisturbed'
  BY <1>13 DEF Undisturbed
<1> QED BY <1>10, <1>11, <1>12, <1>14 DEF LedInv

(* set_light_battery and set_light_notification begin.                     *)
LEMMA SetBatteryInv ==
  ASSUME LedInv, NEW color \in DOMAIN Rgb, NEW blink \in BOOLEAN, SetBattery(color, blink)
  PROVE  LedInv'
<1>1. call["battery"] = NoCall /\ UNCHANGED <<opened, remembered, notified, lockVars, file>> /\ LightTypes
      /\ call \in [Leds -> Calls] /\ Undisturbed
  BY DEF SetBattery, LedInv, LedTypes
<1>2. NoCall \in Calls /\ "battery" \in Leds
  <2>1. <<>> \in Seq(LedNames \X Int)
    OBVIOUS
  <2> QED BY <2>1 DEF NoCall, Calls, Stages, Leds, Rgb
<1>3. Idle /\ ~disturbed => Settled
  BY <1>1 DEF Undisturbed
<1>4. CASE color = "red" /\ lowbattery' = TRUE /\ lowBlink' = blink
           /\ Enter("battery", [NoCall EXCEPT !.at = "compareColor", !.color = color, !.blink = blink])
  <2>1. PICK c \in Calls : c = [NoCall EXCEPT !.at = "compareColor", !.color = color, !.blink = blink]
    BY <1>2 DEF Calls, Stages
  <2>2. c.at = "compareColor" /\ c.color = "red" /\ c.blink = blink
    BY <1>2, <1>4, <2>1 DEF Calls
  <2>3. disturbed' \in BOOLEAN
    BY <1>4 DEF Enter
  <2>4. LightTypes'
    BY <1>1, <1>4, <2>3 DEF LightTypes, remembered, notified, lockVars
  <2>5. Asks(c)'
    BY <1>4, <2>2 DEF Asks, Wanted
  <2>6. Settled => Calm(c)'
    BY <1>1, <2>2 DEF Calm, Settled, Led, remembered
  <2>7. CallOK("battery", c)
    BY <2>2 DEF CallOK
  <2> QED BY <1>1, <1>2, <1>3, <1>4, <2>1, <2>2, <2>4, <2>5, <2>6, <2>7, EnterInv
<1>5. CASE lowbattery' = FALSE /\ lowBlink' = lowBlink /\ Enter("battery", [NoCall EXCEPT !.at = "lastColor"])
  <2>1. PICK c \in Calls : c = [NoCall EXCEPT !.at = "lastColor"]
    BY <1>2 DEF Calls, Stages
  <2>2. c.at = "lastColor"
    BY <1>2, <2>1 DEF Calls
  <2>3. disturbed' \in BOOLEAN
    BY <1>5 DEF Enter
  <2>4. LightTypes'
    BY <1>1, <1>5, <2>3 DEF LightTypes, remembered, notified, lockVars
  <2>5. Asks(c)'
    BY <1>5, <2>2 DEF Asks
  <2>6. Settled => Calm(c)'
    BY <1>1, <2>2 DEF Calm, Settled, Led, remembered
  <2>7. CallOK("battery", c)
    BY <2>2 DEF CallOK
  <2> QED BY <1>1, <1>2, <1>3, <1>5, <2>1, <2>2, <2>4, <2>5, <2>6, <2>7, EnterInv
<1>6. CASE UNCHANGED <<lowbattery, call, lowBlink, disturbed>>
  BY <1>1, <1>6 DEF LedInv, LedTypes, LightTypes, remembered, notified, lockVars, Undisturbed, Calm, Settled,
                    Led, AsWanted, Wanted, Idle, CallOK, AloneOK, Asks, Remains, Written
<1> QED BY <1>4, <1>5, <1>6 DEF SetBattery

(* The notification is remembered first.                                   *)
LEMMA SetNotificationInv ==
  ASSUME LedInv, NEW color \in DOMAIN Rgb, NEW blink \in BOOLEAN, SetNotification(color, blink)
  PROVE  LedInv'
<1>1. /\ call["notification"] = NoCall /\ LightTypes /\ Undisturbed
      /\ Enter("notification", [NoCall EXCEPT !.at = "keepBlink", !.color = color, !.blink = blink])
      /\ lastnotificationcolor' = color
      /\ UNCHANGED <<opened, remembered, lastnotificationblink, lowbattery, lockVars, lowBlink, file>>
  BY DEF SetNotification, LedInv, LedTypes
<1>2. NoCall \in Calls /\ "notification" \in Leds
  <2>1. <<>> \in Seq(LedNames \X Int)
    OBVIOUS
  <2> QED BY <2>1 DEF NoCall, Calls, Stages, Leds, Rgb
<1>3. Idle /\ ~disturbed => Settled /\ AsWanted
  BY <1>1 DEF Undisturbed
<1>4. PICK c \in Calls : c = [NoCall EXCEPT !.at = "keepBlink", !.color = color, !.blink = blink]
  BY <1>2 DEF Calls, Stages
<1>5. c.at = "keepBlink" /\ c.color = color /\ c.blink = blink
  BY <1>2, <1>4 DEF Calls
<1>6. disturbed' \in BOOLEAN
  BY <1>1 DEF Enter
<1>7. LightTypes'
  BY <1>1, <1>6 DEF LightTypes, remembered, lockVars
<1>8. Asks(c)'
  BY <1>1, <1>5 DEF Asks
<1>9. Settled /\ AsWanted => Calm(c)'
  BY <1>1, <1>5 DEF Calm, Settled, Led, AsWanted, Wanted, remembered
<1>10. CallOK("notification", c)
  BY <1>5 DEF CallOK
<1> QED BY <1>1, <1>2, <1>3, <1>4, <1>5, <1>7, <1>8, <1>9, <1>10, EnterInv

(* What is known of a call that runs.                                      *)
LEMMA Running ==
  ASSUME LedInv, NEW l \in Leds, call[l].at # "idle"
  PROVE  /\ call[l] \in Calls /\ LightTypes /\ CallOK(l, call[l])
         /\ call[l].alone => Asks(call[l])
         /\ ~disturbed => call[l].alone
         /\ ~disturbed => Calm(call[l])
<1>1. AloneOK(l) /\ CallOK(l, call[l]) /\ Undisturbed /\ call[l] \in Calls /\ LightTypes
  BY DEF LedInv, LedTypes
<1>2. call[l].alone => Asks(call[l])
  BY <1>1 DEF AloneOK
<1>3. ~disturbed => call[l].alone /\ Calm(call[l])
  BY <1>1 DEF Undisturbed
<1> QED BY <1>1, <1>2, <1>3

(* The battery's call reads what the notification left.                    *)
LEMMA ReadLastInv ==
  ASSUME LedInv, ReadLastColor \/ ReadLastBlink
  PROVE  LedInv'
<1> DEFINE a == call["battery"]
<1>1. /\ "battery" \in Leds /\ a.at \in {"lastColor", "lastBlink"}
      /\ UNCHANGED <<remembered, notified, lowbattery, disturbed, file, opened, lockVars, lowBlink>>
  BY DEF Leds, ReadLastColor, ReadLastBlink, Step
<1>2. /\ a \in Calls /\ LightTypes
      /\ a.alone => Asks(a)
      /\ ~disturbed => a.alone
      /\ ~disturbed => Calm(a)
  BY <1>1, Running
<1>3. LightTypes' /\ (Settled => Settled')
  BY <1>1, <1>2 DEF LightTypes, remembered, notified, lockVars, Settled, Led
<1>4. ~disturbed => Settled'
  BY <1>1, <1>2, <1>3 DEF Calm
<1>5. CASE ReadLastColor
  <2>1. PICK c \in Calls : c = [a EXCEPT !.at = "lastBlink", !.color = lastnotificationcolor]
    BY <1>2 DEF Calls, Stages, LightTypes
  <2>2. c.at = "lastBlink" /\ c.color = lastnotificationcolor /\ c.alone = a.alone
    BY <1>2, <2>1 DEF Calls
  <2>3. a.at = "lastColor" /\ call' = [call EXCEPT !["battery"] = c]
    BY <1>5, <2>1 DEF ReadLastColor, Step
  <2>4. a.alone => Asks(c)'
    BY <1>1, <1>2, <2>2, <2>3 DEF Asks, notified
  <2>5. ~disturbed' => Calm(c)'
    BY <1>1, <1>4, <2>2 DEF Calm
  <2>6. CallOK("battery", c)
    BY <2>2 DEF CallOK
  <2> QED BY <1>1, <1>2, <1>3, <2>2, <2>3, <2>4, <2>5, <2>6, StepInv
<1>6. CASE ReadLastBlink
  <2>1. PICK c \in Calls : c = [a EXCEPT !.at = "compareColor", !.blink = lastnotificationblink]
    BY <1>2 DEF Calls, Stages, LightTypes
  <2>2. c.at = "compareColor" /\ c.blink = lastnotificationblink /\ c.alone = a.alone /\ c.color = a.color
    BY <1>2, <2>1 DEF Calls
  <2>3. a.at = "lastBlink" /\ call' = [call EXCEPT !["battery"] = c]
    BY <1>6, <2>1 DEF ReadLastBlink, Step
  <2>4. a.alone => Asks(c)'
    BY <1>1, <1>2, <2>2, <2>3 DEF Asks, notified, Wanted
  <2>5. ~disturbed' => Calm(c)'
    BY <1>1, <1>4, <2>2 DEF Calm
  <2>6. CallOK("battery", c)
    BY <2>2 DEF CallOK
  <2> QED BY <1>1, <1>2, <1>3, <2>2, <2>3, <2>4, <2>5, <2>6, StepInv
<1> QED BY <1>5, <1>6

(* The notification's call keeps its blinking and looks at the battery.    *)
LEMMA NotificationRuns ==
  ASSUME LedInv, KeepBlink \/ TestLow
  PROVE  LedInv'
<1> DEFINE a == call["notification"]
<1>1. /\ "notification" \in Leds /\ a.at \in {"keepBlink", "testLow"}
      /\ UNCHANGED <<remembered, lastnotificationcolor, lowbattery, disturbed, file, opened, lockVars, lowBlink>>
  BY DEF Leds, KeepBlink, TestLow, Step, notified
<1>2. /\ a \in Calls /\ LightTypes
      /\ a.alone => Asks(a)
      /\ ~disturbed => a.alone
      /\ ~disturbed => Calm(a)
  BY <1>1, Running
<1>3. (Settled => Settled') /\ (AsWanted /\ lowbattery => AsWanted')
  BY <1>1 DEF remembered, lockVars, Settled, Led, AsWanted, Wanted
<1>4. ~disturbed => Settled' /\ (lowbattery => AsWanted')
  BY <1>1, <1>2, <1>3 DEF Calm
<1>5. CASE KeepBlink
  <2>1. PICK c \in Calls : c = [a EXCEPT !.at = "testLow"]
    BY <1>2 DEF Calls, Stages
  <2>2. c.at = "testLow" /\ c.color = a.color /\ c.blink = a.blink /\ c.alone = a.alone /\ a.blink \in BOOLEAN
    BY <1>2, <2>1 DEF Calls
  <2>3. a.at = "keepBlink" /\ call' = [call EXCEPT !["notification"] = c] /\ lastnotificationblink' = a.blink
    BY <1>5, <2>1 DEF KeepBlink, Step
  <2>4. LightTypes'
    BY <1>1, <1>2, <2>2, <2>3 DEF LightTypes, remembered, lockVars
  <2>5. a.alone => Asks(c)'
    BY <1>1, <1>2, <2>2, <2>3 DEF Asks
  <2>6. ~disturbed' => Calm(c)'
    BY <1>1, <1>4, <2>2 DEF Calm
  <2>7. CallOK("notification", c)
    BY <2>2 DEF CallOK
  <2> QED BY <1>1, <1>2, <2>2, <2>3, <2>4, <2>5, <2>6, <2>7, StepInv
<1>6. CASE TestLow
  <2>1. a.at = "testLow" /\ UNCHANGED notified
    BY <1>6 DEF TestLow
  <2>2. LightTypes'
    BY <1>1, <1>2, <2>1 DEF LightTypes, remembered, notified, lockVars
  <2>3. CASE lowbattery
    <3>1. PICK c \in Calls : c = NoCall
      <4>1. <<>> \in Seq(LedNames \X Int)
        OBVIOUS
      <4> QED BY <4>1 DEF NoCall, Calls, Stages, Rgb
    <3>2. c.at = "idle" /\ c.alone
      BY <3>1 DEF NoCall
    <3>3. call' = [call EXCEPT !["notification"] = c]
      BY <1>6, <2>3, <3>1 DEF TestLow, Step
    <3>4. CallOK("notification", c) /\ Calm(c)'
      BY <3>1, <3>2 DEF CallOK, Calm
    <3> QED BY <1>1, <1>2, <1>4, <2>1, <2>2, <2>3, <3>2, <3>3, <3>4, StepInv
  <2>4. CASE ~lowbattery
    <3>1. PICK c \in Calls : c = [a EXCEPT !.at = "compareColor"]
      BY <1>2 DEF Calls, Stages
    <3>2. c.at = "compareColor" /\ c.color = a.color /\ c.blink = a.blink /\ c.alone = a.alone
      BY <1>2, <3>1 DEF Calls
    <3>3. call' = [call EXCEPT !["notification"] = c]
      BY <1>6, <2>4, <3>1 DEF TestLow, Step
    <3>4. a.alone => Asks(c)'
      BY <1>1, <1>2, <2>1, <2>4, <3>2 DEF Asks, Wanted, notified
    <3>5. ~disturbed' => Calm(c)'
      BY <1>1, <1>4, <3>2 DEF Calm
    <3>6. CallOK("notification", c)
      BY <3>2 DEF CallOK
    <3> QED BY <1>1, <1>2, <2>1, <2>2, <3>2, <3>3, <3>4, <3>5, <3>6, StepInv
  <2> QED BY <2>3, <2>4
<1> QED BY <1>5, <1>6

(* set_light_locked compares with what is remembered.                      *)
LEMMA CompareInv ==
  ASSUME LedInv, NEW l \in Leds, Compare(l)
  PROVE  LedInv'
<1> DEFINE a == call[l]
<1>1. /\ a.at \in {"compareColor", "compareBlink"}
      /\ UNCHANGED <<remembered, notified, lowbattery, disturbed, file, opened, lockVars, lowBlink>>
  BY DEF Compare, Step
<1>2. /\ a \in Calls /\ LightTypes
      /\ a.alone => Asks(a)
      /\ ~disturbed => a.alone
      /\ ~disturbed => Calm(a)
  BY <1>1, Running
<1>3. /\ LightTypes'
      /\ ~disturbed => Settled'
  BY <1>1, <1>2 DEF LightTypes, remembered, notified, lockVars, Settled, Led, Calm
<1>4. a.alone => Wanted' = <<a.color, a.blink>>
  BY <1>1, <1>2 DEF Asks, Wanted, notified
<1>5. CASE a.at = "compareBlink" /\ blinkstate = a.blink
  <2>1. PICK c \in Calls : c = NoCall
    <3>1. <<>> \in Seq(LedNames \X Int)
      OBVIOUS
    <3> QED BY <3>1 DEF NoCall, Calls, Stages, Rgb
  <2>2. c.at = "idle" /\ c.alone
    BY <2>1 DEF NoCall
  <2>3. call' = [call EXCEPT ![l] = c]
    BY <1>5, <2>1 DEF Compare, Step
  <2>4. CallOK(l, c) /\ Calm(c)'
    BY <2>1, <2>2 DEF CallOK, Calm
  <2>5. a.alone => colorstate' = a.color /\ blinkstate' = a.blink
    BY <1>1, <1>2, <1>5 DEF Asks, remembered
  <2>6. ~disturbed => AsWanted'
    BY <1>2, <1>4, <2>5 DEF AsWanted
  <2> QED BY <1>1, <1>2, <1>3, <2>2, <2>3, <2>4, <2>6, StepInv
<1>6. CASE ~(a.at = "compareBlink" /\ blinkstate = a.blink)
  <2> DEFINE s == IF a.at = "compareColor" /\ colorstate = a.color THEN "compareBlink" ELSE "storeColor"
  <2>1. PICK c \in Calls : c = [a EXCEPT !.at = s]
    BY <1>2 DEF Calls, Stages
  <2>2. c.at = s /\ c.color = a.color /\ c.blink = a.blink /\ c.alone = a.alone
    BY <1>2, <2>1 DEF Calls
  <2>3. call' = [call EXCEPT ![l] = c]
    BY <1>1, <1>6, <2>1 DEF Compare, Step
  <2>4. a.alone => Asks(c)'
    BY <1>1, <1>4, <2>2 DEF Asks, remembered
  <2>5. ~disturbed' => Calm(c)'
    BY <1>1, <1>3, <2>2 DEF Calm
  <2>6. CallOK(l, c) /\ c.at # "idle"
    BY <2>2 DEF CallOK
  <2> QED BY <1>1, <1>2, <1>3, <2>2, <2>3, <2>4, <2>5, <2>6, StepInv
<1> QED BY <1>5, <1>6

(* It remembers what it is about to write.                                 *)
LEMMA StoreInv ==
  ASSUME LedInv, NEW l \in Leds, Store(l)
  PROVE  LedInv'
<1> DEFINE a == call[l]
<1>1. /\ a.at \in {"storeColor", "storeBlink"}
      /\ UNCHANGED <<notified, lowbattery, disturbed, file, opened, lockVars, lowBlink>>
  BY DEF Store, Step
<1>2. /\ a \in Calls /\ LightTypes
      /\ a.alone => Asks(a)
      /\ ~disturbed => a.alone
  BY <1>1, Running
<1>3. a.alone => Wanted' = <<a.color, a.blink>>
  BY <1>1, <1>2 DEF Asks, Wanted, notified
<1>4. a.color \in DOMAIN Rgb /\ a.blink \in BOOLEAN
  BY <1>2 DEF Calls
<1>5. CASE a.at = "storeColor"
  <2>1. PICK c \in Calls : c = [a EXCEPT !.at = "storeBlink"]
    BY <1>2 DEF Calls, Stages
  <2>2. c.at = "storeBlink" /\ c.color = a.color /\ c.blink = a.blink /\ c.alone = a.alone
    BY <1>2, <2>1 DEF Calls
  <2>3. call' = [call EXCEPT ![l] = c] /\ colorstate' = a.color /\ blinkstate' = blinkstate
    BY <1>5, <2>1 DEF Store, Step
  <2>4. LightTypes'
    BY <1>1, <1>2, <1>4, <2>3 DEF LightTypes, notified, lockVars
  <2>5. a.alone => Asks(c)'
    BY <1>3, <2>2, <2>3 DEF Asks
  <2>6. CallOK(l, c) /\ Calm(c)'
    BY <2>2 DEF CallOK, Calm
  <2> QED BY <1>1, <1>2, <2>2, <2>3, <2>4, <2>5, <2>6, StepInv
<1>6. CASE a.at = "storeBlink"
  <2>1. /\ Writes(a.color, a.blink) \in Seq(LedNames \X Int) /\ Writes(a.color, a.blink) # <<>>
        /\ Remains([a EXCEPT !.at = "write", !.todo = Writes(a.color, a.blink)], 0)
    BY <1>2, AllRemain
  <2>2. PICK c \in Calls : c = [a EXCEPT !.at = "write", !.todo = Writes(a.color, a.blink)]
    BY <1>2, <2>1 DEF Calls, Stages
  <2>3. c.at = "write" /\ c.color = a.color /\ c.blink = a.blink /\ c.alone = a.alone
    BY <1>2, <2>2 DEF Calls
  <2>4. c.todo = Writes(a.color, a.blink)
    BY <1>2, <2>2 DEF Calls
  <2>5. Remains(c, 0) /\ c.todo # <<>>
    BY <2>1, <2>2, <2>4
  <2>6. call' = [call EXCEPT ![l] = c] /\ blinkstate' = a.blink /\ colorstate' = colorstate
    BY <1>6, <2>2 DEF Store, Step
  <2>7. LightTypes'
    BY <1>1, <1>2, <1>4, <2>6 DEF LightTypes, notified, lockVars
  <2>8. Written(0, c.color)'
    BY DEF Written
  <2>9. a.alone => colorstate' = c.color /\ blinkstate' = c.blink /\ Wanted' = <<c.color, c.blink>>
    BY <1>2, <1>3, <1>6, <2>3, <2>6 DEF Asks
  <2>10. a.alone => Asks(c)'
    <3>1. \E k \in 0 .. 4 : Remains(c, k) /\ Written(k, c.color)'
      BY <2>5, <2>8
    <3> QED BY <2>3, <2>9, <3>1 DEF Asks
  <2>11. CallOK(l, c) /\ Calm(c)'
    BY <2>3, <2>5 DEF CallOK, Calm
  <2> QED BY <1>1, <1>2, <2>3, <2>6, <2>7, <2>10, <2>11, StepInv
<1> QED BY <1>1, <1>5, <1>6

(* The k-th write done, or all of them.                                    *)
LEMMA OneMoreWritten ==
  ASSUME file \in Brightnesses, NEW color \in DOMAIN Rgb, NEW k \in 0 .. 4, Written(k, color),
         file' = [file EXCEPT ![Item(k + 1, color)[1]] = Item(k + 1, color)[2]]
  PROVE  /\ file' \in Brightnesses
         /\ k < 4 => Written(k + 1, color)'
         /\ k = 3 => Led(color, FALSE)'
         /\ k = 4 => Led(color, TRUE)'
<1> DEFINE n == Item(k + 1, color)[1]  v == Item(k + 1, color)[2]
<1>1. Rgb[color] = <<Rgb[color][1], Rgb[color][2], Rgb[color][3]>>
      /\ Rgb[color][1] \in Int /\ Rgb[color][2] \in Int /\ Rgb[color][3] \in Int
  BY ColourTriples
<1>2. file' = [file EXCEPT ![n] = v]
  OBVIOUS
<1> HIDE DEF n, v
<1>3. n \in LedNames /\ v \in Int
  BY <1>1 DEF Item, n, v, LedNames
<1>4. /\ file' \in Brightnesses
      /\ file'.red = (IF n = "red" THEN v ELSE file.red)
      /\ file'.green = (IF n = "green" THEN v ELSE file.green)
      /\ file'.blue = (IF n = "blue" THEN v ELSE file.blue)
      /\ file'.redBlink = (IF n = "redBlink" THEN v ELSE file.redBlink)
  BY <1>2, <1>3, LedFileWritten
<1>5. CASE k = 0
  <2>1. n = "redBlink" /\ v = 0
    BY <1>5 DEF Item, n, v
  <2>2. file' \in Brightnesses /\ file'.redBlink = 0
    BY <1>4, <2>1
  <2> QED BY <1>5, <2>2 DEF Written
<1>6. CASE k = 1
  <2>1. n = "red" /\ v = Rgb[color][1]
    BY <1>6 DEF Item, n, v
  <2>2. file' \in Brightnesses /\ file'.redBlink = file.redBlink /\ file'.red = Rgb[color][1]
    BY <1>4, <2>1
  <2> QED BY <1>6, <2>2 DEF Written
<1>7. CASE k = 2
  <2>1. n = "green" /\ v = Rgb[color][2]
    BY <1>7 DEF Item, n, v
  <2>2. /\ file' \in Brightnesses /\ file'.redBlink = file.redBlink /\ file'.red = file.red
        /\ file'.green = Rgb[color][2]
    BY <1>4, <2>1
  <2> QED BY <1>7, <2>2 DEF Written
<1>8. CASE k = 3
  <2>1. n = "blue" /\ v = Rgb[color][3]
    BY <1>8 DEF Item, n, v
  <2>2. /\ file' \in Brightnesses /\ file'.redBlink = file.redBlink /\ file'.red = file.red
        /\ file'.green = file.green /\ file'.blue = Rgb[color][3]
    BY <1>4, <2>1
  <2>3. file'.redBlink = 0 /\ file'.red = Rgb[color][1] /\ file'.green = Rgb[color][2] /\ file'.blue = Rgb[color][3]
    BY <1>8, <2>2 DEF Written
  <2>4. Written(k + 1, color)'
    BY <2>3 DEF Written
  <2>5. Led(color, FALSE)'
    BY <1>1, <2>3 DEF Led
  <2>6. k # 4
    BY <1>8
  <2> QED BY <2>2, <2>4, <2>5, <2>6
<1>9. CASE k = 4
  <2>1. n = "redBlink" /\ v = 255
    BY <1>9 DEF Item, n, v
  <2>2. /\ file' \in Brightnesses /\ file'.redBlink = 255 /\ file'.red = file.red
        /\ file'.green = file.green /\ file'.blue = file.blue
    BY <1>4, <2>1
  <2>3. file'.red = Rgb[color][1] /\ file'.green = Rgb[color][2] /\ file'.blue = Rgb[color][3]
    BY <1>9, <2>2 DEF Written
  <2>4. Led(color, TRUE)'
    BY <1>1, <2>2, <2>3 DEF Led
  <2>5. ~(k < 4) /\ k # 3
    BY <1>9
  <2> QED BY <2>2, <2>4, <2>5
<1>10. k = 0 \/ k = 1 \/ k = 2 \/ k = 3 \/ k = 4
  OBVIOUS
<1> QED BY <1>5, <1>6, <1>7, <1>8, <1>9, <1>10

(* A write, which may fail; the last one ends the call.                    *)
LEMMA WriteInv ==
  ASSUME LedInv, NEW l \in Leds, Write(l)
  PROVE  LedInv'
<1> DEFINE a == call[l]  more == Tail(a.todo)
<1>1. a.at = "write" /\ UNCHANGED <<remembered, notified, lowbattery, opened, lockVars, lowBlink>>
  BY DEF Write, Step
<1>2. /\ a \in Calls /\ LightTypes /\ CallOK(l, a)
      /\ a.alone => Asks(a)
      /\ ~disturbed => a.alone
  BY <1>1, Running
<1>3. a.color \in DOMAIN Rgb /\ a.blink \in BOOLEAN /\ a.alone \in BOOLEAN /\ disturbed \in BOOLEAN
      /\ file \in Brightnesses
  BY <1>2 DEF Calls, LightTypes
<1> PICK color \in DOMAIN Rgb, blink \in BOOLEAN : color = a.color /\ blink = a.blink
  BY <1>3
<1>4. PICK ok \in BOOLEAN :
        /\ file' = IF ok THEN [file EXCEPT ![Head(a.todo)[1]] = Head(a.todo)[2]] ELSE file
        /\ call' = [call EXCEPT ![l] = IF more = <<>> THEN NoCall
                                       ELSE [a EXCEPT !.todo = more, !.alone = a.alone /\ ok]]
        /\ disturbed' = IF more = <<>> THEN ~(a.alone /\ ok) /\ (disturbed \/ ~ok) ELSE disturbed \/ ~ok
  BY DEF Write, Step
<1>5. PICK k \in 0 .. 4 : a.todo # <<>> /\ Remains(a, k) /\ (a.alone => Written(k, a.color))
  <2>1. CASE a.alone
    BY <1>1, <1>2, <2>1 DEF Asks, CallOK
  <2>2. CASE ~a.alone
    BY <1>1, <1>2, <2>2 DEF CallOK
  <2> QED BY <2>1, <2>2
<1>6. /\ Head(a.todo) = Item(k + 1, a.color)
      /\ more \in Seq(LedNames \X Int)
      /\ more = <<>> => k + 1 = (IF a.blink THEN 5 ELSE 4)
      /\ more # <<>> => k + 1 \in 0 .. 4
      /\ \A d \in Calls : d.todo = more /\ d.blink = a.blink /\ d.color = a.color => Remains(d, k + 1)
  BY <1>2, <1>5, OneLess
<1>7. file' \in Brightnesses
  <2>1. CASE ok
    <3>1. file' = [file EXCEPT ![Item(k + 1, a.color)[1]] = Item(k + 1, a.color)[2]]
      BY <1>4, <1>6, <2>1
    <3>2. Item(k + 1, a.color)[1] \in LedNames /\ Item(k + 1, a.color)[2] \in Int
      BY <1>3, ColourTriples DEF Item, LedNames
    <3> QED BY <1>3, <3>1, <3>2, LedFileWritten
  <2>2. CASE ~ok
    BY <1>3, <1>4, <2>2
  <2> QED BY <2>1, <2>2
<1>8. disturbed' \in BOOLEAN
  BY <1>3, <1>4
<1>9. LightTypes'
  BY <1>1, <1>2, <1>7, <1>8 DEF LightTypes, remembered, notified, lockVars
<1>10. ASSUME a.alone, ok
       PROVE  /\ k < 4 => Written(k + 1, color)'
              /\ k = 3 => Led(color, FALSE)'
              /\ k = 4 => Led(color, TRUE)'
  <2>1. file' = [file EXCEPT ![Item(k + 1, color)[1]] = Item(k + 1, color)[2]] /\ Written(k, color)
    BY <1>4, <1>5, <1>6, <1>10
  <2> QED BY <1>3, <2>1, OneMoreWritten
<1>11. a.alone => colorstate' = a.color /\ blinkstate' = a.blink /\ Wanted' = <<a.color, a.blink>>
  BY <1>1, <1>2 DEF Asks, Wanted, remembered, notified
<1>12. CASE more = <<>>
  <2>1. PICK c \in Calls : c = NoCall
    <3>1. <<>> \in Seq(LedNames \X Int)
      OBVIOUS
    <3> QED BY <3>1 DEF NoCall, Calls, Stages, Rgb
  <2>2. c.at = "idle" /\ c.alone
    BY <2>1 DEF NoCall
  <2>3. call' = [call EXCEPT ![l] = c] /\ disturbed' = (~(a.alone /\ ok) /\ (disturbed \/ ~ok))
    BY <1>4, <1>12, <2>1
  <2>4. CallOK(l, c) /\ Calm(c)'
    BY <2>1, <2>2 DEF CallOK, Calm
  <2>5. ~disturbed' => a.alone /\ ok
    BY <1>2, <1>3, <2>3
  <2>6. ASSUME a.alone, ok PROVE Settled' /\ AsWanted'
    <3>1. Led(color, blink)'
      <4>1. CASE blink
        <5>1. k = 4 /\ blink = TRUE
          BY <1>6, <1>12, <4>1
        <5> QED BY <1>10, <2>6, <5>1
      <4>2. CASE ~blink
        <5>1. k = 3 /\ blink = FALSE
          BY <1>6, <1>12, <4>2
        <5> QED BY <1>10, <2>6, <5>1
      <4> QED BY <4>1, <4>2
    <3>2. colorstate' = color /\ blinkstate' = blink /\ Wanted' = <<color, blink>>
      BY <1>11, <2>6
    <3> QED BY <3>1, <3>2 DEF Settled, AsWanted, Led
  <2> QED BY <1>1, <1>2, <1>9, <2>2, <2>3, <2>4, <2>5, <2>6, StepInv
<1>13. CASE more # <<>>
  <2>1. (a.alone /\ ok) \in BOOLEAN
    OBVIOUS
  <2>2. PICK c \in Calls : c = [a EXCEPT !.todo = more, !.alone = a.alone /\ ok]
    BY <1>2, <1>6, <2>1 DEF Calls
  <2>3. c.at = "write" /\ c.color = a.color /\ c.blink = a.blink /\ c.todo = more
    BY <1>1, <1>2, <2>2 DEF Calls
  <2>4. c.alone <=> a.alone /\ ok
    BY <1>2, <2>2 DEF Calls
  <2>5. call' = [call EXCEPT ![l] = c] /\ disturbed' = (disturbed \/ ~ok)
    BY <1>4, <1>13, <2>2
  <2>6. k + 1 \in 0 .. 4 /\ Remains(c, k + 1)
    BY <1>6, <1>13, <2>3
  <2>7. CallOK(l, c) /\ Calm(c)'
    BY <1>13, <2>3, <2>6 DEF CallOK, Calm
  <2>8. ~disturbed' => a.alone /\ c.alone
    BY <1>2, <1>3, <2>4, <2>5
  <2>9. ASSUME c.alone PROVE Asks(c)'
    <3>1. a.alone /\ ok /\ k < 4
      BY <2>4, <2>6, <2>9
    <3>2. Written(k + 1, color)' /\ c.color = color
      BY <1>10, <2>3, <3>1
    <3>3. colorstate' = c.color /\ blinkstate' = c.blink /\ Wanted' = <<c.color, c.blink>>
      BY <1>11, <2>3, <3>1
    <3>4. \E j \in 0 .. 4 : Remains(c, j) /\ Written(j, c.color)'
      BY <2>6, <3>2
    <3> QED BY <2>3, <3>3, <3>4 DEF Asks
  <2>10. c.at # "idle" /\ (c.alone => a.alone)
    BY <2>3, <2>4
  <2> QED BY <1>1, <1>9, <2>5, <2>7, <2>8, <2>9, <2>10, StepInv
<1> QED BY <1>12, <1>13

(* Whatever leaves the calls and the LED's files alone.                    *)
LEMMA LedKept ==
  ASSUME LedInv, UNCHANGED ledVars, LightTypes',
         file'.red = file.red, file'.green = file.green, file'.blue = file.blue, file'.redBlink = file.redBlink
  PROVE  LedInv'
<1>1. /\ LedTypes /\ Undisturbed /\ \A l \in Leds : CallOK(l, call[l]) /\ AloneOK(l)
      /\ UNCHANGED <<colorstate, blinkstate, lastnotificationcolor, lastnotificationblink, lowbattery, call,
                     lowBlink, disturbed>>
  BY DEF LedInv, ledVars, remembered, notified
<1>2. LedTypes'
  BY <1>1 DEF LedTypes
<1>3. Undisturbed'
  BY <1>1 DEF Undisturbed, Calm, Settled, Led, AsWanted, Wanted, Idle
<1>4. ASSUME NEW l \in Leds PROVE CallOK(l, call[l])' /\ AloneOK(l)'
  BY <1>1 DEF CallOK, AloneOK, Asks, Wanted, Remains, Written
<1> QED BY <1>2, <1>3, <1>4 DEF LedInv

(* The backlights' calls and writes.                                       *)
LEMMA SetLockedInv ==
  ASSUME LedInv, NEW l, NEW r \in Int, NEW g \in Int, NEW b \in Int, NEW sensor, SetLocked(l, <<r, g, b>>, sensor)
  PROVE  LedInv'
<1>1. /\ l \in Locked /\ holder' = LockedWrites(l, <<r, g, b>>, sensor)
      /\ UNCHANGED <<opened, ledVars, file>> /\ LightTypes
  BY DEF SetLocked, LedInv, LedTypes
<1>2. LockedWrites(l, <<r, g, b>>, sensor) \in Seq(LockedNames \X Int)
  <2>1. Brightness(<<r, g, b>>) \in Int
    BY DEF Brightness
  <2>2. CASE l = "backlight"
    <3>1. AlsMode(sensor) \in Int
      BY DEF AlsMode
    <3> QED BY <2>1, <2>2, <3>1 DEF LockedWrites, LockedNames
  <2>3. CASE l # "backlight"
    <3>1. l \in LockedNames /\ (IF IsLit(<<r, g, b>>) THEN 255 ELSE 0) \in Int
      BY <1>1, <2>3 DEF Locked, LockedNames
    <3> QED BY <2>3, <3>1 DEF LockedWrites
  <2> QED BY <2>2, <2>3
<1>3. LightTypes'
  BY <1>1, <1>2 DEF LightTypes, ledVars, remembered, notified
<1> QED BY <1>1, <1>3, LedKept

(* Under the lock.                                                         *)
LEMMA LockedWriteInv ==
  ASSUME LedInv, LockedWrite
  PROVE  LedInv'
<1>1. /\ holder # <<>> /\ WriteInt(Head(holder)) /\ holder' = Tail(holder) /\ UNCHANGED <<opened, ledVars>>
      /\ LightTypes /\ file \in Brightnesses /\ holder \in Seq(LockedNames \X Int)
  BY DEF LockedWrite, Free, LedInv, LedTypes, LightTypes
<1>2. Head(holder) \in LockedNames \X Int /\ Tail(holder) \in Seq(LockedNames \X Int)
  BY <1>1, HeadTailProperties
<1>3. PICK n \in LockedNames, v \in Int : Head(holder) = <<n, v>>
  BY <1>2
<1>4. file' = [file EXCEPT ![n] = v] \/ file' = file
  BY <1>1, <1>3 DEF WriteInt
<1>5. /\ file' \in Brightnesses /\ file'.red = file.red /\ file'.green = file.green /\ file'.blue = file.blue
      /\ file'.redBlink = file.redBlink
  <2>1. CASE file' = [file EXCEPT ![n] = v]
    BY <1>1, <2>1, LockedFileWritten
  <2>2. CASE file' = file
    BY <1>1, <2>2
  <2> QED BY <1>4, <2>1, <2>2
<1>6. LightTypes'
  BY <1>1, <1>2, <1>5 DEF LightTypes, ledVars, remembered, notified
<1> QED BY <1>1, <1>5, <1>6, LedKept

(* What charge only mode and Android ask of the lights.                    *)
LEMMA ChargeLightsInv ==
  ASSUME LedInv, ChargePower \/ ChargeDisplay \/ ChargeEnds \/ ChargeStarts
  PROVE  LedInv'
<1>1. CASE UNCHANGED lightVars
  <2>1. UNCHANGED <<ledVars, holder, file>>
    BY <1>1 DEF lightVars, lockVars
  <2>2. LightTypes'
    BY <2>1 DEF LedInv, LedTypes, LightTypes, ledVars, remembered, notified
  <2> QED BY <2>1, <2>2, LedKept
<1>2. ASSUME NEW p \in Int, SetBrightness(p) PROVE LedInv'
  <2>1. SetLocked("backlight", Grey(p), FALSE) \/ UNCHANGED lightVars
    BY <1>2 DEF SetBrightness
  <2>2. (255 * p) \div 100 \in Int
    OBVIOUS
  <2>3. Grey(p) = <<(255 * p) \div 100, (255 * p) \div 100, (255 * p) \div 100>>
    BY DEF Grey
  <2>4. CASE SetLocked("backlight", Grey(p), FALSE)
    <3>1. PICK b \in Int : b = (255 * p) \div 100
      BY <2>2
    <3>2. SetLocked("backlight", <<b, b, b>>, FALSE)
      BY <2>3, <2>4, <3>1
    <3> QED BY <3>2, SetLockedInv
  <2> QED BY <1>1, <2>1, <2>4
<1>3. CASE ChargePower
  <2>1. PICK u \in BOOLEAN : PowerEventDevices(u)
    BY <1>3 DEF ChargePower
  <2>2. CASE SetBattery(LedColor(level'), FALSE)
    <3>1. PICK color \in DOMAIN Rgb, blink \in BOOLEAN : color = LedColor(level') /\ blink = FALSE
      BY DEF LedColor, Rgb
    <3>2. SetBattery(color, blink)
      BY <2>2, <3>1
    <3> QED BY <3>2, SetBatteryInv
  <2> QED BY <1>1, <2>1, <2>2 DEF PowerEventDevices, SetBatteryLed
<1>4. CASE ChargeDisplay
  <2>1. PICK p \in {0, 40, 80} : SetBrightness(p)
    BY <1>4 DEF ChargeDisplay, DisplayStage
  <2> QED BY <1>2, <2>1
<1>5. CASE ChargeEnds
  BY <1>2, <1>5 DEF ChargeEnds, EndProgram
<1>6. CASE ChargeStarts
  <2>1. UNCHANGED <<ledVars, lockVars, file>>
    BY <1>6 DEF ChargeStarts, ScreenInit, EventsAndLights, Open, lightVars
  <2>2. LightTypes'
    BY <2>1 DEF LedInv, LedTypes, LightTypes, ledVars, lockVars, remembered, notified
  <2> QED BY <2>1, <2>2, LedKept
<1> QED BY <1>3, <1>4, <1>5, <1>6

(* Android's calls and the steps of the lights.                            *)
LEMMA AndroidLightsInv ==
  ASSUME LedInv, AndroidBattery \/ AndroidNotification \/ AndroidLocked \/ LightsRun \/ LockedRun
  PROVE  LedInv'
<1>1. CASE AndroidBattery
  <2>1. PICK c \in Palette, b \in BOOLEAN : SetBattery(c, b)
    BY <1>1 DEF AndroidBattery
  <2> QED BY <2>1, PaletteAssumption, SetBatteryInv
<1>2. CASE AndroidNotification
  <2>1. PICK c \in Palette, b \in BOOLEAN : SetNotification(c, b)
    BY <1>2 DEF AndroidNotification
  <2> QED BY <2>1, PaletteAssumption, SetNotificationInv
<1>3. CASE AndroidLocked
  <2>1. PICK l \in Backlights, c \in {"off", "green"}, s \in BOOLEAN : SetLocked(l, Rgb[c], s)
    BY <1>3 DEF AndroidLocked
  <2>2. c \in DOMAIN Rgb
    BY DEF Rgb
  <2>3. PICK r \in Int, g \in Int, b \in Int : Rgb[c] = <<r, g, b>>
    BY <2>2, ColourTriples
  <2> QED BY <2>1, <2>3, SetLockedInv
<1>4. CASE LightsRun
  <2>1. CASE \E l \in Leds : Compare(l) \/ Store(l) \/ Write(l)
    BY <2>1, CompareInv, StoreInv, WriteInv
  <2> QED BY <1>4, <2>1, ReadLastInv, NotificationRuns DEF LightsRun, LedStep
<1>5. CASE LockedRun
  BY <1>5, LockedWriteInv DEF LockedRun
<1> QED BY <1>1, <1>2, <1>3, <1>4, <1>5

(* LedAgrees: whatever calls overlapped and whatever writes failed before, *)
(* an LED that was put right since shows what it should.                   *)
THEOREM LedShowsWhatItShould == Spec => []LedAgrees
<1>1. Init => LedInv
  <2>1. SUFFICES ASSUME Init PROVE LedInv
    OBVIOUS
  <2>2. PICK led \in BootLeds : LightsInit(led)
    BY <2>1 DEF Init
  <2>3. led \in DOMAIN Rgb /\ Rgb[led][1] \in Int /\ Rgb[led][2] \in Int /\ Rgb[led][3] \in Int
    BY BootLedsAssumption, ColourTriples
  <2>4. NoCall \in Calls
    <3>1. <<>> \in Seq(LedNames \X Int)
      OBVIOUS
    <3> QED BY <3>1 DEF NoCall, Calls, Stages, Rgb
  <2>5. /\ file = [red |-> Rgb[led][1], green |-> Rgb[led][2], blue |-> Rgb[led][3],
                   redBlink |-> 0, lcd |-> 255, als |-> 0, keyboard |-> 0, buttons |-> 0]
        /\ call = [l \in Leds |-> NoCall] /\ holder = <<>>
        /\ colorstate = "off" /\ lastnotificationcolor = "off"
        /\ blinkstate = FALSE /\ lastnotificationblink = FALSE /\ lowbattery = FALSE /\ lowBlink = FALSE
        /\ disturbed = (led # "off")
    BY <2>2 DEF LightsInit
  <2>6. file \in Brightnesses
    BY <2>3, <2>5 DEF Brightnesses
  <2>7. "off" \in DOMAIN Rgb /\ Rgb["off"] = <<0, 0, 0>>
    BY DEF Rgb
  <2>8. LightTypes
    <3>1. holder \in Seq(LockedNames \X Int)
      BY <2>5
    <3>2. {blinkstate, lastnotificationblink, lowbattery, lowBlink, disturbed} \subseteq BOOLEAN
      BY <2>5
    <3> QED BY <2>5, <2>6, <2>7, <3>1, <3>2 DEF LightTypes
  <2>9. ASSUME NEW l \in Leds PROVE call[l] = NoCall /\ CallOK(l, call[l]) /\ AloneOK(l) /\ call[l].alone /\ Calm(call[l])
    BY <2>5 DEF CallOK, AloneOK, NoCall, Calm
  <2>10. ~disturbed => Settled /\ AsWanted
    <3>1. SUFFICES ASSUME ~disturbed PROVE Settled /\ AsWanted
      OBVIOUS
    <3>2. Rgb[led] = <<0, 0, 0>>
      BY <2>5, <2>7, <3>1
    <3>3. file.red = 0 /\ file.green = 0 /\ file.blue = 0 /\ file.redBlink = 0
      BY <2>5, <3>2
    <3> QED BY <2>5, <2>7, <3>3 DEF Settled, Led, AsWanted, Wanted
  <2> QED BY <2>4, <2>5, <2>8, <2>9, <2>10 DEF LedInv, LedTypes, Undisturbed
<1>2. LedInv /\ [Next]_vars => LedInv'
  <2>1. SUFFICES ASSUME LedInv, [Next]_vars PROVE LedInv'
    OBVIOUS
  <2>2. CASE UNCHANGED <<ledVars, lockVars, file>>
    <3>1. LightTypes'
      BY <2>1, <2>2 DEF LedInv, LedTypes, LightTypes, ledVars, lockVars, remembered, notified
    <3> QED BY <2>1, <2>2, <3>1, LedKept
  <2> QED BY <2>1, <2>2, ChargeLightsInv, AndroidLightsInv DEF Next, vars, RunSecondInit, InitRuns, RunHook,
    ModulesLoaded, RunBootMode, Started, Open, others, lightVars
<1>3. LedInv => LedAgrees
  BY DEF LedInv, Undisturbed, Settled, AsWanted, Wanted, LedAgrees, Led
<1> QED BY <1>1, <1>2, <1>3, PTL DEF Spec
-----------------------------------------------------------------------------
(* The area 2nd-init writes.  Where the strings go is a function that      *)
(* recurs on their number, so the proofs are by induction on it.           *)

(* Induction over the naturals, for a set of them.                         *)
LEMMA Inductive ==
  ASSUME NEW P, 0 \in P, \A n \in Nat : n \in P => n + 1 \in P
  PROVE  Nat \subseteq P
<1> DEFINE Out == {n \in Nat : n \notin P}
<1> SUFFICES ASSUME Out # {} PROVE FALSE
  OBVIOUS
<1>1. PICK m \in Out : \A k \in Out : ~(<<k, m>> \in OpToRel(<, Nat))
  <2>1. Out \subseteq Nat
    OBVIOUS
  <2> HIDE DEF Out
  <2> QED BY <2>1, WFMin, NatLessThanWellFounded
<1>5. \A k \in Out : ~(k < m)
  <2> HIDE DEF Out
  <2>1. Out \subseteq Nat
    BY DEF Out
  <2> QED BY <1>1, <2>1 DEF OpToRel
<1>2. m \in Nat /\ m \notin P /\ m # 0
  OBVIOUS
<1>3. m - 1 \in Nat /\ m - 1 + 1 = m
  BY <1>2
<1>4. m - 1 \in P
  <2>1. ASSUME m - 1 \in Out PROVE FALSE
    BY <1>5, <1>2, <1>3, <2>1
  <2> QED BY <1>3, <2>1
<1> QED BY <1>2, <1>3, <1>4

(* f on b .. n begins with a at b and goes on by step. *)
Goes(f, a, b, step, n) ==
  /\ f \in [b .. n -> Nat]
  /\ b <= n => f[b] = a
  /\ \A i \in b + 1 .. n : f[i] = step[<<i, f[i - 1]>>]

(* There is a function that begins with a at b and goes on by step.        *)
LEMMA Recursion ==
  ASSUME NEW a \in Nat, NEW b \in Nat, NEW step \in [Nat \X Nat -> Nat], NEW n \in Nat
  PROVE  \E f : Goes(f, a, b, step, n)
<1> DEFINE P == {k \in Nat : \E f : Goes(f, a, b, step, k)}
<1>1. 0 \in P
  <2> DEFINE f == [i \in b .. 0 |-> a]
  <2>1. f \in [b .. 0 -> Nat] /\ (b <= 0 => f[b] = a)
    OBVIOUS
  <2>2. b + 1 .. 0 = {}
    OBVIOUS
  <2>3. Goes(f, a, b, step, 0)
    BY <2>1, <2>2 DEF Goes
  <2> QED BY <2>3
<1>2. ASSUME NEW k \in Nat, k \in P PROVE k + 1 \in P
  <2>1. PICK f : Goes(f, a, b, step, k)
    BY <1>2
  <2>2. f \in [b .. k -> Nat]
    BY <2>1 DEF Goes
  <2> DEFINE g == [i \in b .. k + 1 |->
                     IF i = k + 1 THEN IF i = b THEN a ELSE step[<<i, f[i - 1]>>] ELSE f[i]]
  <2>3. ASSUME NEW i \in b .. k + 1 PROVE g[i] \in Nat
    <3>1. CASE i = k + 1 /\ i # b
      <4>1. i - 1 \in b .. k
        BY <3>1
      <4>2. <<i, f[i - 1]>> \in Nat \X Nat
        BY <2>2, <4>1
      <4> QED BY <3>1, <4>2
    <3>2. CASE i # k + 1
      <4>1. i \in b .. k
        BY <3>2
      <4> QED BY <2>2, <3>2, <4>1
    <3>3. CASE i = k + 1 /\ i = b
      BY <3>3
    <3> QED BY <3>1, <3>2, <3>3
  <2>4. g \in [b .. k + 1 -> Nat]
    BY <2>3
  <2>5. ASSUME b <= k + 1 PROVE g[b] = a
    <3>1. b \in b .. k + 1
      BY <2>5
    <3>2. b = k + 1 \/ b <= k
      BY <2>5
    <3> QED BY <2>1, <3>1, <3>2 DEF Goes
  <2>6. ASSUME NEW i \in b + 1 .. k + 1 PROVE g[i] = step[<<i, g[i - 1]>>]
    <3>1. i - 1 \in b .. k + 1 /\ i - 1 # k + 1 /\ i \in b .. k + 1 /\ i # b
      OBVIOUS
    <3>2. g[i - 1] = f[i - 1]
      BY <3>1
    <3>3. CASE i = k + 1
      BY <3>1, <3>2, <3>3
    <3>4. CASE i # k + 1
      <4>1. i \in b + 1 .. k /\ g[i] = f[i]
        BY <3>1, <3>4
      <4> QED BY <2>1, <3>2, <4>1 DEF Goes
    <3> QED BY <3>3, <3>4
  <2>7. Goes(g, a, b, step, k + 1)
    <3> HIDE DEF g
    <3> QED BY <2>4, <2>5, <2>6 DEF Goes
  <2>8. k + 1 \in Nat
    OBVIOUS
  <2> HIDE DEF g
  <2> QED BY <2>7, <2>8
<1>3. n \in P
  <2> HIDE DEF P
  <2> QED BY <1>1, <1>2, Inductive
<1> QED BY <1>3

(* A set of naturals with a bound that has an element has a greatest one.  *)
LEMMA GreatestNat ==
  ASSUME NEW n \in Nat, NEW S \in SUBSET (0 .. n), S # {}
  PROVE  Max(S) \in S /\ \A k \in S : Max(S) >= k
<1> DEFINE P == {d \in Nat : d > n \/ \A k \in S : k <= n - d}
<1>1. \E x \in S : \A k \in S : x >= k
  <2> SUFFICES ASSUME \A x \in S : \E k \in S : ~(x >= k) PROVE FALSE
    OBVIOUS
  <2>1. 0 \in P
    OBVIOUS
  <2>2. ASSUME NEW d \in Nat, d \in P PROVE d + 1 \in P
    <3>1. CASE d > n
      BY <3>1
    <3>2. CASE \A k \in S : k <= n - d
      <4>1. ASSUME NEW k \in S PROVE k <= n - (d + 1)
        <5>1. PICK l \in S : ~(k >= l)
          OBVIOUS
        <5>2. l <= n - d /\ k \in Int /\ l \in Int
          BY <3>2
        <5> QED BY <5>1, <5>2
      <4>2. d + 1 \in Nat
        OBVIOUS
      <4> QED BY <4>1, <4>2
    <3> QED BY <2>2, <3>1, <3>2
  <2>3. n + 1 \in P
    <3> HIDE DEF P
    <3>1. Nat \subseteq P
      BY <2>1, <2>2, Inductive
    <3> QED BY <3>1
  <2>4. n \in P
    <3> HIDE DEF P
    <3>1. Nat \subseteq P
      BY <2>1, <2>2, Inductive
    <3> QED BY <3>1
  <2>5. \A k \in S : k <= 0
    BY <2>4
  <2>6. PICK x \in S : TRUE
    OBVIOUS
  <2>7. PICK k \in S : ~(x >= k)
    BY <2>6
  <2> QED BY <2>5, <2>6, <2>7
<1> QED BY <1>1 DEF Max

(* Rounding up to a word.                                                  *)
LEMMA AlignedIs ==
  ASSUME NEW n \in Nat
  PROVE  Aligned(n) \in Nat /\ n <= Aligned(n) /\ Aligned(n) <= n + 3
BY DEF Aligned, Word

(* The sums of the strings' lengths.                                       *)
LEMMA BeforeIs ==
  ASSUME NEW e \in Seq(Nat \ {0, 1})
  PROVE  /\ \A i \in 0 .. Len(e) : Before(e)[i] \in Nat
         /\ Before(e)[0] = 0
         /\ \A i \in 1 .. Len(e) : Before(e)[i] = Before(e)[i - 1] + e[i]
<1> DEFINE step == [x \in Nat \X Nat |-> IF x[1] \in 1 .. Len(e) THEN x[2] + e[x[1]] ELSE 0]
<1> DEFINE Sums(f) == f = [i \in 0 .. Len(e) |-> IF i = 0 THEN 0 ELSE f[i - 1] + e[i]]
<1>1. Len(e) \in Nat /\ \A i \in 1 .. Len(e) : e[i] \in Nat
  BY LenProperties, ElementOfSeq
<1>2. step \in [Nat \X Nat -> Nat]
  BY <1>1
<1>3. PICK f : Goes(f, 0, 0, step, Len(e))
  <2> HIDE DEF step, Sums
  <2> QED BY <1>1, <1>2, Recursion
<1>4. ASSUME NEW i \in 1 .. Len(e) PROVE f[i] = f[i - 1] + e[i]
  <2>1. i - 1 \in 0 .. Len(e) /\ i \in 0 .. Len(e) /\ i # 0 /\ i \in 0 + 1 .. Len(e) /\ i \in Nat
    BY <1>1
  <2>2. f \in [0 .. Len(e) -> Nat] /\ f[i] = step[<<i, f[i - 1]>>]
    <3> HIDE DEF step, Sums
    <3> QED BY <1>3, <2>1 DEF Goes
  <2>3. <<i, f[i - 1]>> \in Nat \X Nat
    BY <2>1, <2>2
  <2> QED BY <2>1, <2>2, <2>3
<1>5. f[0] = 0 /\ f \in [0 .. Len(e) -> Nat]
  <2> HIDE DEF step, Sums
  <2> QED BY <1>1, <1>3 DEF Goes
<1>6. Sums(f)
  <2> HIDE DEF step
  <2> QED BY <1>4, <1>5
<1>7. Sums(Before(e))
  <2> HIDE DEF step
  <2> QED BY <1>6, Zenon DEF Before
<1> DEFINE g == Before(e)
<1> HIDE DEF g, step
<1>8. /\ DOMAIN g = 0 .. Len(e)
      /\ \A i \in 0 .. Len(e) : g[i] = IF i = 0 THEN 0 ELSE g[i - 1] + e[i]
  BY <1>7 DEF g
<1> DEFINE P == {i \in Nat : i \in 0 .. Len(e) => g[i] \in Nat}
<1>9. Nat \subseteq P
  <2>1. 0 \in P
    BY <1>1, <1>8
  <2>2. ASSUME NEW i \in Nat, i \in P PROVE i + 1 \in P
    <3>1. ASSUME i + 1 \in 0 .. Len(e) PROVE g[i + 1] \in Nat
      <4>1. i \in 0 .. Len(e) /\ i + 1 \in 1 .. Len(e) /\ i + 1 - 1 = i /\ i + 1 # 0
        BY <1>1, <3>1
      <4>2. g[i] \in Nat /\ e[i + 1] \in Nat
        BY <1>1, <2>2, <4>1
      <4>3. g[i + 1] = g[i + 1 - 1] + e[i + 1]
        BY <1>8, <3>1, <4>1
      <4> QED BY <4>1, <4>2, <4>3
    <3> QED BY <3>1
  <2> HIDE DEF P
  <2> QED BY <2>1, <2>2, Inductive
<1>10. \A i \in 0 .. Len(e) : g[i] \in Nat
  BY <1>1, <1>9
<1>11. g[0] = 0
  BY <1>1, <1>8
<1>12. \A i \in 1 .. Len(e) : g[i] = g[i - 1] + e[i]
  BY <1>1, <1>8
<1> QED BY <1>10, <1>11, <1>12 DEF g

(* Where the strings go: each on the word behind the one before. *)
LEMMA StringAtIs ==
  ASSUME NEW s \in Seq(Nat)
  PROVE  /\ \A i \in 1 .. Len(s) : StringAt(s)[i] \in Nat
         /\ Len(s) >= 1 => StringAt(s)[1] = StringsAt
         /\ \A i \in 2 .. Len(s) : StringAt(s)[i] = Aligned(StringAt(s)[i - 1] + s[i - 1])
<1> DEFINE step == [x \in Nat \X Nat |->
                      IF x[1] - 1 \in 1 .. Len(s) THEN Aligned(x[2] + s[x[1] - 1]) ELSE 0]
<1> DEFINE Puts(f) == f = [i \in 1 .. Len(s) |->
                              IF i = 1 THEN StringsAt ELSE Aligned(f[i - 1] + s[i - 1])]
<1>1. Len(s) \in Nat /\ \A i \in 1 .. Len(s) : s[i] \in Nat
  BY LenProperties, ElementOfSeq
<1>2. step \in [Nat \X Nat -> Nat]
  <2>1. ASSUME NEW x \in Nat \X Nat, x[1] - 1 \in 1 .. Len(s) PROVE Aligned(x[2] + s[x[1] - 1]) \in Nat
    <3>1. x[2] + s[x[1] - 1] \in Nat
      BY <1>1, <2>1
    <3> QED BY <3>1, AlignedIs
  <2> QED BY <2>1
<1>3. PICK f : Goes(f, StringsAt, 1, step, Len(s))
  <2>1. StringsAt \in Nat /\ 1 \in Nat
    BY DEF StringsAt
  <2> HIDE DEF step, Puts
  <2> QED BY <1>1, <1>2, <2>1, Recursion
<1>4. ASSUME NEW i \in 2 .. Len(s) PROVE f[i] = Aligned(f[i - 1] + s[i - 1])
  <2>1. i - 1 \in 1 .. Len(s) /\ i \in 1 + 1 .. Len(s) /\ i \in Nat
    BY <1>1
  <2>2. f \in [1 .. Len(s) -> Nat] /\ f[i] = step[<<i, f[i - 1]>>]
    <3> HIDE DEF step, Puts
    <3> QED BY <1>3, <2>1 DEF Goes
  <2>3. <<i, f[i - 1]>> \in Nat \X Nat
    BY <2>1, <2>2
  <2> QED BY <2>1, <2>2, <2>3
<1>5. f \in [1 .. Len(s) -> Nat] /\ (Len(s) >= 1 => f[1] = StringsAt)
  <2> HIDE DEF step, Puts
  <2> QED BY <1>1, <1>3 DEF Goes
<1>6. Puts(f)
  <2>1. ASSUME NEW i \in 1 .. Len(s)
        PROVE  f[i] = IF i = 1 THEN StringsAt ELSE Aligned(f[i - 1] + s[i - 1])
    <3>1. CASE i = 1
      BY <1>1, <1>5, <3>1
    <3>2. CASE i # 1
      <4>1. i \in 2 .. Len(s)
        BY <1>1, <3>2
      <4> QED BY <1>4, <3>2, <4>1
    <3> QED BY <3>1, <3>2
  <2> HIDE DEF step
  <2> QED BY <1>5, <2>1
<1>7. Puts(StringAt(s))
  <2> HIDE DEF step
  <2> QED BY <1>6, Zenon DEF StringAt
<1> DEFINE g == StringAt(s)
<1> HIDE DEF g, step
<1>8. \A i \in 1 .. Len(s) : g[i] = IF i = 1 THEN StringsAt ELSE Aligned(g[i - 1] + s[i - 1])
  BY <1>7 DEF g
<1> DEFINE P == {i \in Nat : i \in 1 .. Len(s) => g[i] \in Nat}
<1>9. Nat \subseteq P
  <2>1. 0 \in P
    OBVIOUS
  <2>2. ASSUME NEW i \in Nat, i \in P PROVE i + 1 \in P
    <3>1. ASSUME i + 1 \in 1 .. Len(s) PROVE g[i + 1] \in Nat
      <4>1. CASE i = 0
        BY <1>8, <3>1, <4>1 DEF StringsAt
      <4>2. CASE i # 0
        <5>1. i \in 1 .. Len(s) /\ i + 1 - 1 = i /\ i + 1 # 1
          BY <1>1, <3>1, <4>2
        <5>2. g[i] \in Nat /\ s[i] \in Nat
          BY <1>1, <2>2, <5>1
        <5>3. g[i + 1] = Aligned(g[i] + s[i])
          BY <1>8, <3>1, <5>1
        <5>4. g[i] + s[i] \in Nat
          BY <5>2
        <5> QED BY <5>3, <5>4, AlignedIs
      <4> QED BY <4>1, <4>2
    <3> QED BY <3>1
  <2> HIDE DEF P
  <2> QED BY <2>1, <2>2, Inductive
<1>10. \A i \in 1 .. Len(s) : g[i] \in Nat
  BY <1>1, <1>9
<1>11. Len(s) >= 1 => g[1] = StringsAt
  BY <1>1, <1>8
<1>12. ASSUME NEW i \in 2 .. Len(s) PROVE g[i] = Aligned(g[i - 1] + s[i - 1])
  <2>1. i \in 1 .. Len(s) /\ i # 1
    BY <1>1
  <2> QED BY <1>8, <2>1
<1> QED BY <1>10, <1>11, <1>12 DEF g

(* The strings do not meet, and none is below the first one's place. *)
LEMMA StringsApart ==
  ASSUME NEW s \in Seq(Nat)
  PROVE  \A j \in 1 .. Len(s) : /\ StringAt(s)[j] >= StringsAt
                                /\ \A i \in 1 .. j - 1 : StringAt(s)[i] + s[i] <= StringAt(s)[j]
<1> DEFINE at == StringAt(s)
<1>1. Len(s) \in Nat /\ \A i \in 1 .. Len(s) : s[i] \in Nat
  BY LenProperties, ElementOfSeq
<1>2. /\ \A i \in 1 .. Len(s) : at[i] \in Nat
      /\ Len(s) >= 1 => at[1] = StringsAt
      /\ \A i \in 2 .. Len(s) : at[i] = Aligned(at[i - 1] + s[i - 1])
  BY StringAtIs
<1> HIDE DEF at
<1>3. ASSUME NEW j \in 2 .. Len(s) PROVE at[j - 1] + s[j - 1] <= at[j]
  <2>1. j - 1 \in 1 .. Len(s)
    BY <1>1
  <2>2. at[j - 1] + s[j - 1] \in Nat
    BY <1>1, <1>2, <2>1
  <2> QED BY <1>2, <2>2, AlignedIs
<1> DEFINE Q(j) == at[j] >= StringsAt /\ \A i \in 1 .. j - 1 : at[i] + s[i] <= at[j]
           P == {j \in Nat : j \in 1 .. Len(s) => Q(j)}
<1>4. Nat \subseteq P
  <2>1. 0 \in P
    OBVIOUS
  <2>2. ASSUME NEW j \in Nat, j \in P PROVE j + 1 \in P
    <3>1. ASSUME j + 1 \in 1 .. Len(s) PROVE Q(j + 1)
      <4>1. CASE j = 0
        BY <1>1, <1>2, <3>1, <4>1 DEF StringsAt
      <4>2. CASE j # 0
        <5>1. j \in 1 .. Len(s) /\ j + 1 \in 2 .. Len(s) /\ j + 1 - 1 = j
          BY <1>1, <3>1, <4>2
        <5>2. Q(j)
          BY <2>2, <5>1
        <5>3. at[j] \in Nat /\ at[j + 1] \in Nat /\ s[j] \in Nat /\ at[j] + s[j] <= at[j + 1]
          BY <1>1, <1>2, <1>3, <5>1
        <5>4. at[j + 1] >= StringsAt
          BY <5>2, <5>3 DEF StringsAt
        <5>5. ASSUME NEW i \in 1 .. j PROVE at[i] + s[i] <= at[j + 1]
          <6>1. CASE i = j
            BY <5>3, <6>1
          <6>2. CASE i # j
            <7>1. i \in 1 .. j - 1 /\ i \in 1 .. Len(s)
              BY <1>1, <5>1, <6>2
            <7>2. at[i] + s[i] <= at[j] /\ at[i] \in Nat /\ s[i] \in Nat
              BY <1>1, <1>2, <5>2, <7>1
            <7> QED BY <5>3, <7>2
          <6> QED BY <6>1, <6>2
        <5> QED BY <5>1, <5>4, <5>5
      <4> QED BY <4>1, <4>2
    <3> HIDE DEF Q
    <3> QED BY <3>1
  <2> HIDE DEF P
  <2> QED BY <2>1, <2>2, Inductive
<1>5. \A j \in 1 .. Len(s) : Q(j)
  <2> HIDE DEF Q
  <2> QED BY <1>1, <1>4
<1> QED BY <1>5 DEF at

(* More strings have no fewer bytes. *)
LEMMA BeforeGrows ==
  ASSUME NEW e \in Seq(Nat \ {0, 1}), NEW j \in 0 .. Len(e), NEW i \in 0 .. j
  PROVE  Before(e)[i] <= Before(e)[j]
<1> DEFINE sum == Before(e)
<1>1. Len(e) \in Nat /\ \A k \in 1 .. Len(e) : e[k] \in Nat
  BY LenProperties, ElementOfSeq
<1>2. /\ \A k \in 0 .. Len(e) : sum[k] \in Nat
      /\ \A k \in 1 .. Len(e) : sum[k] = sum[k - 1] + e[k]
  BY BeforeIs
<1> HIDE DEF sum
<1> DEFINE P == {k \in Nat : i + k <= Len(e) => sum[i] <= sum[i + k]}
<1>3. Nat \subseteq P
  <2>1. 0 \in P
    <3>1. i + 0 = i /\ i \in 0 .. Len(e)
      BY <1>1
    <3> QED BY <1>2, <3>1
  <2>2. ASSUME NEW k \in Nat, k \in P PROVE k + 1 \in P
    <3>1. ASSUME i + (k + 1) <= Len(e) PROVE sum[i] <= sum[i + (k + 1)]
      <4>1. /\ i \in 0 .. Len(e) /\ i + k \in 0 .. Len(e) /\ i + (k + 1) \in 1 .. Len(e)
            /\ i + (k + 1) - 1 = i + k
        BY <1>1, <3>1
      <4>2. sum[i] <= sum[i + k]
        BY <1>1, <2>2, <4>1
      <4>3. sum[i + (k + 1)] = sum[i + k] + e[i + (k + 1)]
        BY <1>2, <4>1
      <4>4. sum[i] \in Nat /\ sum[i + k] \in Nat /\ e[i + (k + 1)] \in Nat
        BY <1>1, <1>2, <4>1
      <4> QED BY <4>2, <4>3, <4>4
    <3>2. k + 1 \in Nat
      OBVIOUS
    <3> QED BY <3>1, <3>2
  <2> HIDE DEF P
  <2> QED BY <2>1, <2>2, Inductive
<1>4. j - i \in Nat /\ i + (j - i) = j /\ j <= Len(e)
  BY <1>1
<1> QED BY <1>3, <1>4 DEF sum

(* The strings read are the whole ones before the buffer's end and, where  *)
(* the buffer cuts one, what it has of that with a NUL behind it.          *)
LEMMA StringsAre ==
  ASSUME NEW e \in Seq(Nat \ {0, 1})
  PROVE  \E whole \in 0 .. Len(e) :
           LET s == Strings(e) IN
           /\ s \in Seq(Nat \ {0})
           /\ Len(s) \in {whole, whole + 1}
           /\ \A i \in 1 .. whole : s[i] = e[i]
           /\ Before(e)[whole] <= EnvRead
           /\ Len(s) = whole + 1 => s[whole + 1] = EnvRead + 1 - Before(e)[whole]
<1> DEFINE sum == Before(e)
           few == {i \in 0 .. Len(e) : sum[i] <= EnvRead}
           whole == Max(few)
           rest == EnvRead - sum[whole]
           cut == IF whole < Len(e) /\ rest > 0 THEN << rest + 1 >> ELSE <<>>
           s == Strings(e)
<1>1. Len(e) \in Nat /\ \A k \in 1 .. Len(e) : e[k] \in Nat \ {0}
  BY LenProperties, ElementOfSeq
<1>2. (\A k \in 0 .. Len(e) : sum[k] \in Nat) /\ sum[0] = 0
  BY BeforeIs
<1>3. whole \in few
  <2>1. 0 \in few
    BY <1>1, <1>2 DEF EnvRead
  <2>2. few \in SUBSET (0 .. Len(e)) /\ few # {}
    BY <2>1
  <2> HIDE DEF few
  <2> QED BY <1>1, <2>2, GreatestNat
<1>4. s = SubSeq(e, 1, whole) \o cut
  BY DEF Strings
<1>5. whole \in 0 .. Len(e) /\ sum[whole] <= EnvRead /\ sum[whole] \in Nat
  BY <1>2, <1>3
<1> HIDE DEF s, whole, sum
<1>6. /\ SubSeq(e, 1, whole) \in Seq(Nat \ {0})
      /\ Len(SubSeq(e, 1, whole)) = whole
      /\ \A i \in 1 .. whole : SubSeq(e, 1, whole)[i] = e[i]
  <2>1. e \in Seq(Nat \ {0})
    BY <1>1
  <2>2. \A i \in 1 .. whole : i \in 1 .. Len(e)
    BY <1>1, <1>5
  <2> QED BY <1>1, <1>5, <2>1, <2>2, SubSeqProperties
<1> DEFINE t == SubSeq(e, 1, whole)
<1> HIDE DEF t
<1>7. CASE whole < Len(e) /\ rest > 0
  <2>1. rest + 1 \in Nat \ {0} /\ rest + 1 = EnvRead + 1 - sum[whole]
    BY <1>5, <1>7 DEF EnvRead
  <2> DEFINE r == rest + 1
  <2>2. s = t \o << r >>
    <3>1. cut = << r >>
      BY <1>7
    <3> HIDE DEF cut
    <3> QED BY <1>4, <3>1 DEF t
  <2>5. << r >> \in Seq(Nat \ {0}) /\ Len(<< r >>) = 1 /\ << r >>[1] = r
    <3> HIDE DEF r
    <3>1. r \in Nat \ {0}
      BY <2>1 DEF r
    <3> QED BY <3>1
  <2> HIDE DEF r, rest, cut
  <2>3. s \in Seq(Nat \ {0}) /\ Len(s) = whole + 1 /\ \A i \in 1 .. whole : s[i] = e[i]
    <3>1. t \in Seq(Nat \ {0}) /\ Len(t) = whole /\ \A i \in 1 .. whole : t[i] = e[i]
      BY <1>6 DEF t
    <3>2. s \in Seq(Nat \ {0}) /\ Len(s) = whole + 1 /\ \A i \in 1 .. Len(t) : s[i] = t[i]
      BY <2>2, <2>5, <3>1, ConcatProperties, <1>5
    <3> QED BY <3>1, <3>2
  <2>4. s[whole + 1] = r
    <3>1. t \in Seq(Nat \ {0}) /\ Len(t) = whole
      BY <1>6 DEF t
    <3> QED BY <1>5, <2>2, <2>5, <3>1, ConcatProperties
  <2> QED BY <1>5, <2>1, <2>3, <2>4 DEF s, sum, r
<1>8. CASE ~(whole < Len(e) /\ rest > 0)
  <2>1. s = t
    <3>1. s = t \o <<>> /\ t \in Seq(Nat \ {0})
      BY <1>4, <1>6, <1>8 DEF t
    <3> QED BY <3>1, ConcatEmptySeq
  <2>2. s \in Seq(Nat \ {0}) /\ Len(s) = whole /\ \A i \in 1 .. whole : s[i] = e[i]
    BY <1>6, <2>1 DEF t
  <2>3. whole # whole + 1
    BY <1>5
  <2> HIDE DEF cut, rest
  <2> QED BY <1>5, <2>2, <2>3 DEF s, sum
<1> QED BY <1>7, <1>8

(* Fewer than sixty strings end before the area does. *)
LEMMA StringsFit ==
  ASSUME NEW e \in Seq(Nat \ {0, 1}), Len(Strings(e)) < 60
  PROVE  LET s == Strings(e) IN
         /\ s \in Seq(Nat)
         /\ \A i \in 1 .. Len(s) : StringAt(s)[i] + s[i] <= AreaSize
<1> DEFINE s == Strings(e)  at == StringAt(s)  sum == Before(e)
<1>1. PICK whole \in 0 .. Len(e) :
        /\ s \in Seq(Nat \ {0})
        /\ Len(s) \in {whole, whole + 1}
        /\ \A i \in 1 .. whole : s[i] = e[i]
        /\ sum[whole] <= EnvRead
        /\ Len(s) = whole + 1 => s[whole + 1] = EnvRead + 1 - sum[whole]
  BY StringsAre
<1>2. Len(e) \in Nat /\ \A k \in 1 .. Len(e) : e[k] \in Nat
  BY LenProperties, ElementOfSeq
<1>3. /\ \A k \in 0 .. Len(e) : sum[k] \in Nat
      /\ sum[0] = 0
      /\ \A k \in 1 .. Len(e) : sum[k] = sum[k - 1] + e[k]
  BY BeforeIs
<1>4. \A i \in 0 .. whole : sum[i] <= sum[whole]
  BY BeforeGrows
<1>5. s \in Seq(Nat)
  <2> HIDE DEF s
  <2> QED BY <1>1
<1>6. Len(s) < 60
  OBVIOUS
<1>7. /\ \A i \in 1 .. Len(s) : at[i] \in Nat
      /\ Len(s) >= 1 => at[1] = StringsAt
      /\ \A i \in 2 .. Len(s) : at[i] = Aligned(at[i - 1] + s[i - 1])
  <2> HIDE DEF s
  <2> QED BY <1>5, StringAtIs
<1>8. Len(s) \in Nat /\ \A i \in 1 .. Len(s) : s[i] \in Nat
  <2> HIDE DEF s
  <2> QED BY <1>5, LenProperties, ElementOfSeq
<1> HIDE DEF s, at, sum
<1>9. whole \in Nat /\ whole <= Len(s) /\ Len(s) <= whole + 1 /\ whole <= Len(e)
  BY <1>1, <1>2
<1> DEFINE Q(i) == at[i] <= StringsAt + sum[i - 1] + 3 * (i - 1)
           P == {i \in Nat : i \in 1 .. Len(s) => Q(i)}
<1>10. Nat \subseteq P
  <2>1. 0 \in P
    OBVIOUS
  <2>2. ASSUME NEW i \in Nat, i \in P PROVE i + 1 \in P
    <3>1. ASSUME i + 1 \in 1 .. Len(s) PROVE Q(i + 1)
      <4>1. CASE i = 0
        BY <1>3, <1>7, <3>1, <4>1 DEF StringsAt
      <4>2. CASE i # 0
        <5>1. /\ i \in 1 .. Len(s) /\ i \in 1 .. whole /\ i + 1 - 1 = i /\ i \in 1 .. Len(e)
              /\ i + 1 \in 2 .. Len(s) /\ i - 1 \in 0 .. Len(e) /\ i \in 0 .. Len(e)
          BY <1>8, <1>9, <3>1, <4>2
        <5>2. Q(i)
          BY <2>2, <5>1
        <5>3. at[i] \in Nat /\ s[i] \in Nat /\ sum[i] \in Nat /\ sum[i - 1] \in Nat /\ s[i] = e[i]
          BY <1>1, <1>3, <1>7, <1>8, <5>1
        <5>4. sum[i] = sum[i - 1] + s[i]
          BY <1>3, <5>1, <5>3
        <5>7. at[i + 1] = Aligned(at[i + 1 - 1] + s[i + 1 - 1])
          BY <1>7, <5>1
        <5>5. at[i + 1] = Aligned(at[i] + s[i]) /\ at[i] + s[i] \in Nat
          BY <5>1, <5>3, <5>7
        <5>6. at[i + 1] <= at[i] + s[i] + 3 /\ at[i + 1] \in Nat
          BY <5>5, AlignedIs
        <5>8. at[i] <= 272 + sum[i - 1] + 3 * (i - 1)
          BY <5>2 DEF StringsAt
        <5>9. at[i + 1] <= 272 + sum[i] + 3 * i
          <6> HIDE DEF Q, P
          <6>1. at[i] \in Nat /\ at[i + 1] \in Nat /\ s[i] \in Nat /\ sum[i - 1] \in Nat /\ sum[i] \in Nat
            BY <5>3, <5>6
          <6>2. at[i + 1] <= at[i] + s[i] + 3
            BY <5>6
          <6>3. PICK x \in Nat, y \in Nat, c \in Nat, u \in Nat, v \in Nat :
                  x = at[i] /\ y = at[i + 1] /\ c = s[i] /\ u = sum[i - 1] /\ v = sum[i]
            BY <6>1
          <6>4. y <= x + c + 3
            BY <6>2, <6>3
          <6>5. x <= 272 + u + 3 * (i - 1)
            BY <5>8, <6>3
          <6>6. v = u + c
            BY <5>4, <6>3
          <6>7. y <= 272 + v + 3 * i
            BY <6>4, <6>5, <6>6
          <6> QED BY <6>3, <6>7
        <5> QED BY <5>1, <5>9 DEF StringsAt
      <4> QED BY <4>1, <4>2
    <3>2. i + 1 \in Nat
      OBVIOUS
    <3> HIDE DEF Q
    <3> QED BY <3>1, <3>2
  <2> HIDE DEF P
  <2> QED BY <2>1, <2>2, Inductive
<1>11. ASSUME NEW i \in 1 .. Len(s) PROVE at[i] + s[i] <= AreaSize
  <2>1. i \in Nat /\ i >= 1 /\ i < 60 /\ i <= whole + 1
    BY <1>6, <1>8, <1>9
  <2>2. at[i] <= 272 + sum[i - 1] + 3 * (i - 1)
    BY <1>10, <2>1 DEF StringsAt
  <2>3. at[i] \in Nat /\ s[i] \in Nat /\ sum[whole] \in Nat
    BY <1>3, <1>7, <1>8
  <2>6. sum[whole] <= 511
    BY <1>1 DEF EnvRead
  <2>4. CASE i <= whole
    <3>1. i \in 1 .. whole /\ i \in 1 .. Len(e) /\ i \in 0 .. whole /\ i - 1 \in 0 .. Len(e)
      BY <1>9, <2>1, <2>4
    <3>2. sum[i] = sum[i - 1] + s[i] /\ sum[i] <= sum[whole] /\ sum[i - 1] \in Nat
      BY <1>1, <1>3, <1>4, <3>1
    <3>3. at[i] + s[i] <= 1024
      <4> HIDE DEF Q, P
      <4>0. sum[i] \in Nat
        BY <1>3, <3>1
      <4>1. /\ sum[i] \in Nat /\ sum[i - 1] \in Nat /\ at[i] \in Nat /\ s[i] \in Nat
            /\ sum[whole] \in Nat
        BY <2>3, <3>2, <4>0
      <4>2. sum[i] = sum[i - 1] + s[i] /\ sum[i] <= sum[whole]
        BY <3>2
      <4>3. PICK x \in Nat, c \in Nat, u \in Nat, v \in Nat, w \in Nat :
              x = at[i] /\ c = s[i] /\ u = sum[i - 1] /\ v = sum[i] /\ w = sum[whole]
        BY <4>1
      <4>4. x <= 272 + u + 3 * (i - 1)
        BY <2>2, <4>3
      <4>5. v = u + c /\ v <= w
        BY <4>2, <4>3
      <4>6. w <= 511
        BY <2>6, <4>3
      <4>7. x + c <= 1024
        BY <2>1, <4>4, <4>5, <4>6
      <4> QED BY <4>3, <4>7
    <3> QED BY <3>3 DEF AreaSize
  <2>5. CASE i = whole + 1
    <3>1. i - 1 = whole /\ Len(s) = whole + 1
      BY <1>8, <1>9, <2>5
    <3>2. s[i] = EnvRead + 1 - sum[whole]
      BY <1>1, <2>5, <3>1
    <3>5. s[i] = 512 - sum[whole]
      BY <2>3, <3>2 DEF EnvRead
    <3>6. at[i] <= 272 + sum[whole] + 3 * (i - 1)
      BY <2>2, <3>1
    <3>3. s[i] = 512 - sum[whole] /\ at[i] <= 272 + sum[whole] + 3 * (i - 1)
      BY <3>5, <3>6
    <3>4. PICK x \in Nat, c \in Nat, w \in Nat : x = at[i] /\ c = s[i] /\ w = sum[whole]
      BY <2>3
    <3>7. c = 512 - w /\ x <= 272 + w + 3 * (i - 1)
      BY <3>3, <3>4
    <3>8. x + c <= 1024
      BY <2>1, <3>7
    <3> QED BY <3>4, <3>8 DEF AreaSize
  <2> QED BY <1>9, <2>1, <2>4, <2>5
<1> QED BY <1>5, <1>11 DEF s, at

-----------------------------------------------------------------------------
(* The writer of a byte, when there is one only, is the last that wrote it. *)
LEMMA MaxOfOne ==
  ASSUME NEW i \in Nat
  PROVE  Max({i}) = i
<1>1. {i} \in SUBSET (0 .. i) /\ {i} # {}
  OBVIOUS
<1> QED BY <1>1, GreatestNat

(* Every byte has one writer at most: a turn's pointer and its string meet *)
(* neither another's nor the name of init.                                 *)
LEMMA OneWriter ==
  ASSUME NEW s \in Seq(Nat), Len(s) < 60
  PROVE  /\ \A b \in InitName : Writers(s, b) = {}
         /\ \A i \in DOMAIN s : \A b \in Pointer(i) :
              Writers(s, b) = {i} /\ b \notin Chars(s, i)
         /\ \A i \in DOMAIN s : \A b \in Chars(s, i) : Writers(s, b) = {i}
<1> DEFINE at == StringAt(s)  n == Len(s)
<1>1. n \in Nat /\ DOMAIN s = 1 .. n /\ (\A i \in 1 .. n : s[i] \in Nat)
  BY LenProperties, ElementOfSeq
<1>2. \A i \in 1 .. n : at[i] \in Nat
  BY StringAtIs
<1>3. \A j \in 1 .. n : at[j] >= StringsAt /\ \A i \in 1 .. j - 1 : at[i] + s[i] <= at[j]
  BY StringsApart
<1>4. n < 60
  OBVIOUS
<1>5. ASSUME NEW i \in 1 .. n
      PROVE  /\ Pointer(i) = 16 + 4 * (i - 1) .. 16 + 4 * i - 1
             /\ Chars(s, i) = at[i] .. at[i] + s[i] - 1
  BY DEF Pointer, Chars, PtrsAt, Word
<1>6. \A b : Writers(s, b) = {i \in 1 .. n : b \in Pointer(i) \cup Chars(s, i)}
  BY <1>1 DEF Writers
<1> HIDE DEF at, n
<1>7. ASSUME NEW i \in 1 .. n, NEW b \in Pointer(i)
      PROVE  b \in Nat /\ 16 + 4 * (i - 1) <= b /\ b < 16 + 4 * i /\ b < 256
  <2>1. i \in Nat /\ i <= 59
    BY <1>1, <1>4
  <2>2. b \in 16 + 4 * (i - 1) .. 16 + 4 * i - 1
    BY <1>5
  <2> QED BY <2>1, <2>2
<1>8. ASSUME NEW i \in 1 .. n, NEW b \in Chars(s, i)
      PROVE  b \in Nat /\ at[i] <= b /\ b < at[i] + s[i] /\ b >= 272
  <2>1. at[i] \in Nat /\ s[i] \in Nat /\ at[i] >= 272
    BY <1>1, <1>2, <1>3 DEF StringsAt
  <2>2. PICK x \in Nat, c \in Nat : x = at[i] /\ c = s[i]
    BY <2>1
  <2>3. b \in x .. x + c - 1 /\ x >= 272
    BY <1>5, <2>1, <2>2
  <2>4. b \in Nat /\ x <= b /\ b < x + c /\ b >= 272
    BY <2>3
  <2> QED BY <2>2, <2>4
<1>9. ASSUME NEW b \in InitName PROVE Writers(s, b) = {}
  <2>1. b \in Nat /\ b >= 256 /\ b <= 261
    BY DEF InitName, InitAt
  <2>2. ASSUME NEW i \in 1 .. n PROVE b \notin Pointer(i)
    BY <1>7, <2>1
  <2>3. ASSUME NEW i \in 1 .. n PROVE b \notin Chars(s, i)
    BY <1>8, <2>1
  <2> QED BY <1>6, <2>2, <2>3
<1>10. ASSUME NEW i \in 1 .. n, NEW b \in Pointer(i)
       PROVE  Writers(s, b) = {i} /\ b \notin Chars(s, i)
  <2>1. b \in Nat /\ 16 + 4 * (i - 1) <= b /\ b < 16 + 4 * i /\ b < 256 /\ i \in Nat
    BY <1>1, <1>7
  <2>2. ASSUME NEW j \in 1 .. n, b \in Pointer(j) PROVE j = i
    <3>1. 16 + 4 * (j - 1) <= b /\ b < 16 + 4 * j /\ j \in Nat
      BY <1>1, <1>7, <2>2
    <3> QED BY <2>1, <3>1
  <2>3. ASSUME NEW j \in 1 .. n PROVE b \notin Chars(s, j)
    BY <1>8, <2>1
  <2> QED BY <1>6, <2>2, <2>3
<1>11. ASSUME NEW i \in 1 .. n, NEW b \in Chars(s, i) PROVE Writers(s, b) = {i}
  <2>1. b \in Nat /\ at[i] <= b /\ b < at[i] + s[i] /\ b >= 272 /\ i \in Nat
    BY <1>1, <1>8
  <2>2. ASSUME NEW j \in 1 .. n PROVE b \notin Pointer(j)
    BY <1>7, <2>1
  <2>3. ASSUME NEW j \in 1 .. n, b \in Chars(s, j) PROVE j = i
    <3>1. at[j] <= b /\ b < at[j] + s[j] /\ j \in Nat
      BY <1>1, <1>8, <2>3
    <3>2. at[i] \in Nat /\ at[j] \in Nat /\ s[i] \in Nat /\ s[j] \in Nat
      BY <1>1, <1>2
    <3>3. ASSUME i < j PROVE FALSE
      <4>1. i \in 1 .. j - 1
        BY <1>1, <2>1, <3>1, <3>3
      <4>2. at[i] + s[i] <= at[j]
        BY <1>3, <4>1
      <4> QED BY <2>1, <3>1, <3>2, <4>2
    <3>4. ASSUME j < i PROVE FALSE
      <4>1. j \in 1 .. i - 1
        BY <1>1, <2>1, <3>1, <3>4
      <4>2. at[j] + s[j] <= at[i]
        BY <1>3, <4>1
      <4> QED BY <2>1, <3>1, <3>2, <4>2
    <3> QED BY <2>1, <3>1, <3>3, <3>4
  <2> QED BY <1>6, <2>2, <2>3
<1> QED BY <1>1, <1>9, <1>10, <1>11 DEF n

(* The bytes of the area: the name, the pointers and the strings. *)
LEMMA AreaBytes ==
  ASSUME NEW s \in Seq(Nat), Len(s) < 60
  PROVE  LET m == Injected(s)  at == StringAt(s) IN
         /\ DOMAIN m = InitName \cup UNION {Pointer(i) \cup Chars(s, i) : i \in DOMAIN s}
         /\ \A b \in InitName : m[b] = <<"/init", b - InitAt>>
         /\ \A i \in DOMAIN s : \A b \in Pointer(i) : b \in DOMAIN m /\ m[b] = <<"ptr", at[i]>>
         /\ \A i \in DOMAIN s : \A b \in Chars(s, i) : b \in DOMAIN m /\ m[b] = <<i, b - at[i]>>
<1> DEFINE m == Injected(s)  at == StringAt(s)
           D == InitName \cup UNION {Pointer(i) \cup Chars(s, i) : i \in DOMAIN s}
           Value(b) == LET i == Max(Writers(s, b)) IN
                       IF Writers(s, b) = {} THEN <<"/init", b - InitAt>>
                       ELSE IF b \in Chars(s, i) THEN <<i, b - at[i]>>
                       ELSE <<"ptr", at[i]>>
<1>1. m = [b \in D |-> Value(b)]
  BY DEF Injected
<1> HIDE DEF m
<1>2. DOMAIN m = D /\ \A b \in D : m[b] = Value(b)
  BY <1>1
<1>3. ASSUME NEW i \in DOMAIN s PROVE i \in Nat /\ Max({i}) = i
  <2>1. i \in Nat
    BY LenProperties
  <2> QED BY <2>1, MaxOfOne
<1>4. ASSUME NEW b \in InitName PROVE m[b] = <<"/init", b - InitAt>>
  <2>1. Writers(s, b) = {}
    BY OneWriter
  <2> QED BY <1>2, <2>1
<1>5. ASSUME NEW i \in DOMAIN s, NEW b \in Pointer(i) PROVE b \in DOMAIN m /\ m[b] = <<"ptr", at[i]>>
  <2>1. Writers(s, b) = {i} /\ b \notin Chars(s, i)
    BY OneWriter
  <2>2. b \in D
    OBVIOUS
  <2>3. Max(Writers(s, b)) = i /\ Writers(s, b) # {}
    BY <1>3, <2>1
  <2>4. Value(b) = <<"ptr", at[i]>>
    BY <2>1, <2>3
  <2> HIDE DEF D, Value
  <2> QED BY <1>2, <2>2, <2>4
<1>6. ASSUME NEW i \in DOMAIN s, NEW b \in Chars(s, i) PROVE b \in DOMAIN m /\ m[b] = <<i, b - at[i]>>
  <2>1. Writers(s, b) = {i}
    BY OneWriter
  <2>2. b \in D
    OBVIOUS
  <2>3. Max(Writers(s, b)) = i /\ Writers(s, b) # {}
    BY <1>3, <2>1
  <2>4. Value(b) = <<i, b - at[i]>>
    BY <2>1, <2>3
  <2> HIDE DEF D, Value
  <2> QED BY <1>2, <2>2, <2>4
<1> QED BY <1>2, <1>4, <1>5, <1>6 DEF m

(* The pointers read back are the strings', up to the first NULL.          *)
LEMMA VectorIs ==
  ASSUME NEW s \in Seq(Nat), Len(s) < 60
  PROVE  Vector(Injected(s), PtrsAt) = [i \in DOMAIN s |-> <<"ptr", StringAt(s)[i]>>]
<1> DEFINE m == Injected(s)  at == StringAt(s)  n == Len(s)
           Entry(i) == Byte(m, PtrsAt + Word * i)
           Ends(k) == Entry(k)[1] = "zero" /\ \A j \in 0 .. k - 1 : Entry(j)[1] # "zero"
           len == CHOOSE k \in 0 .. AreaSize \div Word : Ends(k)
<1>1. n \in Nat /\ DOMAIN s = 1 .. n /\ n < 60
  BY LenProperties
<1>2. /\ DOMAIN m = InitName \cup UNION {Pointer(i) \cup Chars(s, i) : i \in DOMAIN s}
      /\ \A i \in DOMAIN s : \A b \in Pointer(i) : b \in DOMAIN m /\ m[b] = <<"ptr", at[i]>>
  BY AreaBytes
<1>3. /\ \A i \in 1 .. n : at[i] \in Nat /\ s[i] \in Nat
      /\ \A i \in 1 .. n : at[i] >= 272
  BY StringAtIs, StringsApart, ElementOfSeq DEF StringsAt
<1>4. ASSUME NEW i \in 1 .. n PROVE Entry(i - 1) = <<"ptr", at[i]>>
  <2>1. i \in Nat /\ PtrsAt + Word * (i - 1) \in Pointer(i)
    BY <1>1 DEF Pointer, PtrsAt, Word
  <2> HIDE DEF m, at
  <2> QED BY <1>1, <1>2, <2>1 DEF Byte
<1>5. Entry(n) = <<"zero", 0>>
  <2>1. PtrsAt + Word * n = 16 + 4 * n
    BY DEF PtrsAt, Word
  <2>2. 16 + 4 * n \notin InitName
    BY <1>1 DEF InitName, InitAt
  <2>3. ASSUME NEW i \in 1 .. n PROVE 16 + 4 * n \notin Pointer(i)
    <3>1. i \in Nat /\ i <= n
      BY <1>1
    <3>2. Pointer(i) = 16 + 4 * (i - 1) .. 16 + 4 * i - 1
      BY DEF Pointer, PtrsAt, Word
    <3> QED BY <1>1, <3>1, <3>2
  <2>4. ASSUME NEW i \in 1 .. n PROVE 16 + 4 * n \notin Chars(s, i)
    <3>1. PICK x \in Nat, c \in Nat : x = at[i] /\ c = s[i] /\ x >= 272
      BY <1>3
    <3>2. Chars(s, i) = x .. x + c - 1
      BY <3>1 DEF Chars
    <3>3. 16 + 4 * n \in Int /\ 16 + 4 * n < 272
      BY <1>1
    <3>4. 16 + 4 * n \notin x .. x + c - 1
      BY <3>1, <3>3
    <3> QED BY <3>2, <3>4
  <2>5. 16 + 4 * n \notin DOMAIN m
    <3> HIDE DEF m, n
    <3> QED BY <1>1, <1>2, <2>2, <2>3, <2>4
  <2> HIDE DEF m
  <2> QED BY <2>1, <2>5 DEF Byte
<1> HIDE DEF Entry, m, at
<1>6. ASSUME NEW j \in 0 .. n - 1 PROVE Entry(j)[1] # "zero"
  <2>1. j + 1 \in 1 .. n /\ j + 1 - 1 = j
    BY <1>1
  <2>2. Entry(j) = <<"ptr", at[j + 1]>>
    BY <1>4, <2>1
  <2> QED BY <2>2
<1>7. Ends(n)
  BY <1>5, <1>6
<1>8. n \in 0 .. AreaSize \div Word
  <2>1. AreaSize \div Word = 256
    BY DEF AreaSize, Word
  <2> HIDE DEF n
  <2> QED BY <1>1, <2>1
<1>9. ASSUME NEW k \in 0 .. AreaSize \div Word, Ends(k) PROVE k = n
  <2>1. k \in Nat
    <3>1. AreaSize \div Word = 256
      BY DEF AreaSize, Word
    <3> QED BY <3>1
  <2>2. ASSUME k < n PROVE FALSE
    BY <1>1, <1>6, <1>9, <2>1, <2>2
  <2>3. ASSUME n < k PROVE FALSE
    <3>1. n \in 0 .. k - 1
      BY <1>1, <2>1, <2>3
    <3> QED BY <1>5, <1>9, <3>1
  <2> HIDE DEF n, Ends
  <2> QED BY <1>1, <2>1, <2>2, <2>3
<1>10. len = n
  <2> HIDE DEF Ends, n
  <2> QED BY <1>7, <1>8, <1>9
<1>11. Vector(m, PtrsAt) = [i \in 1 .. len |-> Entry(i - 1)]
  BY DEF Vector, Entry
<1> HIDE DEF len
<1>12. [i \in 1 .. n |-> Entry(i - 1)] = [i \in DOMAIN s |-> <<"ptr", at[i]>>]
  <2> HIDE DEF n
  <2> QED BY <1>1, <1>4
<1> QED BY <1>10, <1>11, <1>12 DEF m, at

(* What execve finds, for the strings read from any environment. *)
LEMMA AreaIsSound ==
  ASSUME NEW e \in Seq(Nat \ {0, 1}), Len(Strings(e)) < 60
  PROVE  LET s == Strings(e)  m == Injected(s)  at == StringAt(s) IN
         /\ DOMAIN m \subseteq 0 .. AreaSize - 1
         /\ Whole(m, "/init", Filename, 6)
         /\ Vector(m, PtrsAt) = [i \in DOMAIN s |-> <<"ptr", at[i]>>]
         /\ \A i \in DOMAIN s : Whole(m, i, at[i], s[i])
<1> DEFINE s == Strings(e)  m == Injected(s)  at == StringAt(s)  n == Len(s)
<1>1. s \in Seq(Nat) /\ \A i \in 1 .. n : at[i] + s[i] <= AreaSize
  BY StringsFit
<1>2. Len(s) < 60
  OBVIOUS
<1> HIDE DEF s
<1>3. n \in Nat /\ DOMAIN s = 1 .. n /\ n < 60
  BY <1>1, <1>2, LenProperties
<1>4. \A i \in 1 .. n : at[i] \in Nat /\ s[i] \in Nat /\ at[i] >= 272
  <2>1. \A i \in 1 .. n : s[i] \in Nat
    BY <1>1, ElementOfSeq
  <2>2. \A i \in 1 .. n : at[i] \in Nat
    BY <1>1, StringAtIs
  <2>3. \A i \in 1 .. n : at[i] >= 272
    BY <1>1, StringsApart DEF StringsAt
  <2> QED BY <2>1, <2>2, <2>3
<1>5. /\ DOMAIN m = InitName \cup UNION {Pointer(i) \cup Chars(s, i) : i \in DOMAIN s}
      /\ \A b \in InitName : m[b] = <<"/init", b - InitAt>>
      /\ \A i \in DOMAIN s : \A b \in Chars(s, i) : b \in DOMAIN m /\ m[b] = <<i, b - at[i]>>
  BY <1>1, <1>2, AreaBytes
<1>6. Vector(m, PtrsAt) = [i \in DOMAIN s |-> <<"ptr", at[i]>>]
  BY <1>1, <1>2, VectorIs
<1> HIDE DEF m, at, n
<1>7. DOMAIN m \subseteq 0 .. AreaSize - 1
  <2>1. InitName \subseteq 0 .. AreaSize - 1
    BY DEF InitName, InitAt, AreaSize
  <2>2. ASSUME NEW i \in 1 .. n PROVE Pointer(i) \subseteq 0 .. AreaSize - 1
    <3>1. i \in Nat /\ i >= 1 /\ i < 60
      BY <1>3
    <3>2. Pointer(i) = 16 + 4 * (i - 1) .. 16 + 4 * i - 1
      BY DEF Pointer, PtrsAt, Word
    <3> QED BY <3>1, <3>2 DEF AreaSize
  <2>3. ASSUME NEW i \in 1 .. n PROVE Chars(s, i) \subseteq 0 .. AreaSize - 1
    <3>1. PICK x \in Nat, c \in Nat : x = at[i] /\ c = s[i]
      BY <1>4
    <3>2. Chars(s, i) = x .. x + c - 1
      BY <3>1 DEF Chars, at
    <3>3. x + c <= 1024
      BY <1>1, <3>1 DEF AreaSize
    <3> QED BY <3>2, <3>3 DEF AreaSize
  <2> QED BY <1>3, <1>5, <2>1, <2>2, <2>3
<1>8. Whole(m, "/init", Filename, 6)
  <2>1. ASSUME NEW k \in 0 .. 5 PROVE Byte(m, 256 + k) = <<"/init", k>>
    <3>1. PICK b \in InitName : b = 256 + k
      BY DEF InitName, InitAt
    <3>2. b \in DOMAIN m /\ m[b] = <<"/init", b - InitAt>>
      BY <1>5, Zenon
    <3>3. b - InitAt = k
      BY <3>1 DEF InitAt
    <3> QED BY <3>1, <3>2, <3>3 DEF Byte
  <2> QED BY <2>1 DEF Whole, Filename, InitAt
<1>9. ASSUME NEW i \in DOMAIN s PROVE Whole(m, i, at[i], s[i])
  <2>1. PICK x \in Nat, c \in Nat : x = at[i] /\ c = s[i]
    BY <1>3, <1>4
  <2>2. Chars(s, i) = x .. x + c - 1
    BY <2>1 DEF Chars, at
  <2>3. ASSUME NEW k \in 0 .. c - 1 PROVE Byte(m, x + k) = <<i, k>>
    <3>4. x + k \in x .. x + c - 1
      OBVIOUS
    <3>1. PICK b \in Chars(s, i) : b = x + k
      BY <2>2, <3>4, Zenon
    <3>2. b \in DOMAIN m /\ m[b] = <<i, b - at[i]>>
      BY <1>5, Zenon
    <3>3. b - at[i] = k
      BY <2>1, <3>1
    <3> QED BY <3>1, <3>2, <3>3 DEF Byte
  <2> QED BY <2>1, <2>3 DEF Whole
<1> QED BY <1>6, <1>7, <1>8, <1>9 DEF m, at, s

-----------------------------------------------------------------------------
(* The environment is init's until init runs again, which forgets it. *)
EnvInv == env \in Environments \/ (tracer = "done" /\ init = "running")

(* No step but the last changes it. *)
LEMMA EnvStep == EnvInv /\ [Next]_vars => EnvInv'
<1> SUFFICES ASSUME EnvInv, [Next]_vars PROVE EnvInv'
  OBVIOUS
<1>1. CASE RunSecondInit
  <2>1. tracer # "done" /\ env' = env
    BY <1>1 DEF RunSecondInit, SecondInitStep, Fail, Attach, ReadMaps, FindExecve, Inject
  <2> QED BY <2>1 DEF EnvInv
<1>2. CASE InitRuns
  BY <1>2 DEF InitRuns, EnvInv
<1>3. CASE UNCHANGED secondVars
  BY <1>3 DEF secondVars, EnvInv
<1>4. [Next]_vars => RunSecondInit \/ InitRuns \/ UNCHANGED secondVars
  BY DEF Next, vars, secondVars, RunHook, ModulesLoaded, RunBootMode, Started, others, Early,
    ChargeStarts, ChargePower, ChargeDisplay, ChargeEnds, AndroidBattery, AndroidNotification,
    AndroidLocked, LightsRun, LockedRun
<1> QED BY <1>1, <1>2, <1>3, <1>4

(* AreaSound: whatever environment init has, as long as fewer than sixty   *)
(* strings of it are read, execve finds init's name, the pointers and the  *)
(* strings whole and inside the area.  With sixty the last pointer ends    *)
(* where the name begins, so that no NULL ends them.                       *)
THEOREM SecondInitAreaIsSound ==
  ASSUME \A e \in Environments : Len(Strings(e)) < 60
  PROVE  Spec => []AreaSound
<1>1. Init => EnvInv
  BY DEF Init, SecondInitInit, EnvInv
<1>2. EnvInv => AreaSound
  <2> SUFFICES ASSUME EnvInv, init = "execve" PROVE AreaSound
    BY DEF AreaSound
  <2>1. env \in Seq(Nat \ {0, 1}) /\ Len(Strings(env)) < 60
    BY EnvironmentsAssumption DEF EnvInv
  <2> QED BY <2>1, AreaIsSound DEF AreaSound
<1> QED BY <1>1, <1>2, EnvStep, PTL DEF Spec
=============================================================================
