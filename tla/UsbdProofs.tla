----------------------------- MODULE UsbdProofs -----------------------------
(***************************************************************************)
(* The safety properties of Usbd for any set of modes and cables and any   *)
(* bounds: that usbd's mode is the driver's (KernelMatches), that a start  *)
(* message names what was asked for (StartsWhatWasAsked), and that the     *)
(* test for spurious events never hides a change of the cable from the app *)
(* (AppInformed).                                                          *)
(*                                                                         *)
(* The last one needs to know what the uevents not read yet can say: the   *)
(* last of them agrees with the cable, a plug follows an unplug, and the   *)
(* unplugging of one kind of cable follows its plugging.                   *)
(***************************************************************************)
EXTENDS Usbd, SequenceTheorems, TLAPS

Plugs(e, k)   == e.online = "1" /\ e.model = k
Unplugs(e, k) == e.online = "0" /\ e.model = k
Pending       == 1 .. Len(uevents)

-----------------------------------------------------------------------------
(* What the events that wait for usbd say.                                 *)
WellFormed ==
  \A i \in Pending :
    /\ uevents[i].online = "absent" => uevents[i].model = "absent"
    /\ uevents[i].online = "1" => uevents[i].model \in {"usb", "factory"}

(* The last event that tells the power supply's state tells the cable's.   *)
LastTells ==
  \A i \in Pending :
    uevents[i].online # "absent" =>
      \E l \in i .. Len(uevents) :
        IF cable = "none" THEN uevents[l].online = "0" ELSE Plugs(uevents[l], cable)

(* A cable is not changed for one of the other kind without unplugging.    *)
SameUntilUnplugged ==
  \A i, j \in Pending :
    i < j /\ uevents[i].online = "1" /\ uevents[j].online = "1"
    /\ (\A l \in i .. j : uevents[l].online # "0")
      => uevents[i].model = uevents[j].model

(* What is unplugged was plugged after any cable of the other kind.        *)
PluggedFirst ==
  \A k \in {"usb", "factory"} : \A i, j \in Pending :
    i < j /\ uevents[i].model \notin {k, "absent"} /\ Unplugs(uevents[j], k)
      => \E l \in i .. j : Plugs(uevents[l], k)

Queue == WellFormed /\ (pc # "down" => LastTells /\ SameUntilUnplugged /\ PluggedFirst)

-----------------------------------------------------------------------------
(* What usbd believes, against what waits for it.                          *)
Running == pc \notin {"down", "bound"}

(* With nothing of the power supply waiting usbd knows the cable.          *)
KnowsCable ==
  (\A i \in Pending : uevents[i].online = "absent")
    => /\ online = (cable # "none")
       /\ cable # "none" => factory = (cable = "factory")

(* While it thinks a cable is in, the next plug is of the same kind.       *)
KindKept ==
  online => \A i \in Pending :
    uevents[i].online = "1" /\ (\A l \in 1 .. i : uevents[l].online # "0")
      => factory = (uevents[i].model = "factory")

(* What is unplugged is of the kind it knows, or will be plugged first.    *)
UnplugsKnown ==
  \A k \in {"usb", "factory"} : \A i \in Pending :
    Unplugs(uevents[i], k) /\ factory # (k = "factory")
      => \E l \in 1 .. i : Plugs(uevents[l], k)

PlugWaits == \E i \in Pending : uevents[i].online = "1"

StateOnline ==
  /\ online => state # "disconnected"
  /\ state # "disconnected" => online \/ PlugWaits

SentOnline ==
  ~factory => /\ lastSent => online
              /\ Connected => lastSent = online

(* What the app was told; a descriptor event of a cable whose plugging     *)
(* usbd has not read yet tells it early.                                   *)
HeardOnline ==
  conn = "open" /\ ~factory => heard = online \/ (heard /\ ~online /\ PlugWaits)

Knowledge == KnowsCable /\ StateOnline /\ (~overtaken => KindKept /\ UnplugsKnown)

Told == SentOnline /\ (~overtaken => HeardOnline /\ (factory => ~lastSent))

Beliefs == Running => Knowledge /\ Told

(* Before usbd has looked at the cable it has its initial values.          *)
Fresh ==
  ~Running =>
    /\ ready = {} /\ mode = None /\ ~factory /\ ~online /\ ~lastSent /\ conn = "none"
    /\ state = "disconnected" /\ ~overtaken

-----------------------------------------------------------------------------
(* The request that was answered is usbd's mode. *)
AskedIsMode ==
  /\ acked # None => mode = acked /\ Connected
  /\ StartsWhatWasAsked

Handlers ==
  /\ pc \in {"down", "bound", "select"} => ready = {}
  /\ "uevent" \in ready => uevents # <<>>
  /\ enum # "idle" \/ devEvent # NoEvent => cable # "none"

(* The inductive invariant. *)
IInv == KernelMatches /\ Handlers /\ Fresh /\ AskedIsMode /\ Queue /\ Beliefs

-----------------------------------------------------------------------------
(* The next handler is one whose descriptor was readable. *)
LEMMA FirstIsReady ==
  ASSUME NEW fds, fds \subseteq {"uevent", "device", "server", "app"}
  PROVE  /\ fds = {} => First(fds) = "select"
         /\ fds # {} => First(fds) \in fds
<1>1. CASE fds = {}
  BY <1>1 DEF First
<1>2. CASE fds # {}
  <2>1. \E i \in 1 .. 4 : Order[i] \in fds /\ \A j \in 1 .. (i - 1) : Order[j] \notin fds
    <3>1. CASE "uevent" \in fds
      <4>1. Order[1] \in fds /\ \A j \in 1 .. (1 - 1) : Order[j] \notin fds
        BY <3>1 DEF Order
      <4> QED BY <4>1
    <3>2. CASE "uevent" \notin fds /\ "device" \in fds
      <4>1. Order[2] \in fds /\ \A j \in 1 .. (2 - 1) : Order[j] \notin fds
        BY <3>2 DEF Order
      <4> QED BY <4>1
    <3>3. CASE "uevent" \notin fds /\ "device" \notin fds /\ "server" \in fds
      <4>1. Order[3] \in fds /\ \A j \in 1 .. (3 - 1) : Order[j] \notin fds
        BY <3>3 DEF Order
      <4> QED BY <4>1
    <3>4. CASE "uevent" \notin fds /\ "device" \notin fds /\ "server" \notin fds
      <4>1. Order[4] \in fds /\ \A j \in 1 .. (4 - 1) : Order[j] \notin fds
        <5>1. \A j \in 1 .. (4 - 1) : j = 1 \/ j = 2 \/ j = 3
          OBVIOUS
        <5>2. Order[1] = "uevent" /\ Order[2] = "device" /\ Order[3] = "server" /\ Order[4] = "app"
          BY DEF Order
        <5> QED BY <3>4, <1>2, <5>1, <5>2
      <4> QED BY <4>1
    <3> QED BY <3>1, <3>2, <3>3, <3>4
  <2> QED BY <1>2, <2>1 DEF First
<1> QED BY <1>1, <1>2

(* The switches usbd keeps from the driver are between modes that are one  *)
(* mode of the driver.                                                     *)
LEMMA OwnModesShareKernel ==
  ASSUME NEW old, NEW new, OnOurOwn(old, new)
  PROVE  /\ {old, new} \subseteq DOMAIN Table
         /\ Table[old].kernel = Table[new].kernel
<1>1. \/ old = "msc" /\ new = "charge_only"
      \/ old = "charge_only" /\ new = "msc"
      \/ old = "msc_adb" /\ new = "charge_adb"
      \/ old = "charge_adb" /\ new = "msc_adb"
      \/ old = new
  BY DEF OnOurOwn
<1>2. {"msc", "charge_only", "msc_adb", "charge_adb"} \subseteq DOMAIN Table
  BY DEF Table
<1>3. /\ Table["msc"].kernel = Table["charge_only"].kernel
      /\ Table["msc_adb"].kernel = Table["charge_adb"].kernel
  BY DEF Table, Mode
<1>4. old \in {"msc", "charge_only", "msc_adb", "charge_adb"}
  BY DEF OnOurOwn
<1> QED BY <1>1, <1>2, <1>3, <1>4

(* usbd looks up the mode of a factory cable without the prefix its names  *)
(* have, and finds none.                                                   *)
LEMMA NoFactoryMode == FactoryMode = {}
<1>1. \A m \in DOMAIN Table : <<"usb_mode_", m>> # <<"eth">>
  OBVIOUS
<1> QED BY <1>1 DEF FactoryMode, ModeNamed

-----------------------------------------------------------------------------
(* The queue has a length, and uevents in it.                               *)
LEMMA ShapeOfQueue ==
  ASSUME uevents \in Seq(Event)
  PROVE  /\ Len(uevents) \in Nat
         /\ \A i \in Pending : uevents[i] \in Event
  BY DEF Pending

(* Reading the first event moves every other one a place ahead. *)
LEMMA ReadFirst ==
  ASSUME uevents \in Seq(Event), uevents # <<>>, uevents' = Tail(uevents)
  PROVE  /\ Head(uevents) = uevents[1] /\ 1 \in Pending /\ uevents[1] \in Event
         /\ Len(uevents') = Len(uevents) - 1
         /\ uevents' \in Seq(Event)
         /\ \A i \in Pending' : uevents'[i] = uevents[i + 1] /\ i + 1 \in Pending
         /\ \A i \in Pending : i # 1 => uevents'[i - 1] = uevents[i] /\ i - 1 \in Pending'
<1>1. /\ Tail(uevents) \in Seq(Event) /\ Len(Tail(uevents)) = Len(uevents) - 1
      /\ \A i \in 1 .. Len(Tail(uevents)) : Tail(uevents)[i] = uevents[i + 1]
  BY HeadTailProperties
<1>2. Len(uevents) \in Nat \ {0} /\ Head(uevents) = uevents[1]
  BY EmptySeq
<1>3. ASSUME NEW i \in Pending' PROVE uevents'[i] = uevents[i + 1] /\ i + 1 \in Pending
  BY <1>1, <1>2, <1>3 DEF Pending
<1>4. ASSUME NEW i \in Pending, i # 1 PROVE uevents'[i - 1] = uevents[i] /\ i - 1 \in Pending'
  <2>1. i - 1 \in Pending' /\ i - 1 \in 1 .. Len(Tail(uevents)) /\ (i - 1) + 1 = i
    BY <1>1, <1>2, <1>4 DEF Pending
  <2> QED BY <2>1, <1>1
<1>5. 1 \in Pending /\ uevents[1] \in Event
  BY <1>2, ShapeOfQueue DEF Pending
<1> QED BY <1>1, <1>2, <1>3, <1>4, <1>5

(* A uevent more.                                                           *)
LEMMA Appended ==
  ASSUME uevents \in Seq(Event), NEW e \in Event, uevents' = Append(uevents, e)
  PROVE  /\ uevents' \in Seq(Event)
         /\ Len(uevents') = Len(uevents) + 1
         /\ Len(uevents) \in Nat
         /\ uevents'[Len(uevents) + 1] = e
         /\ \A i \in Pending : uevents'[i] = uevents[i] /\ i \in Pending'
         /\ \A i \in Pending' : i \in Pending \/ i = Len(uevents) + 1
  BY DEF Pending

(* Nothing happens to the queue.                                            *)
LEMMA QueueKept ==
  ASSUME Queue, UNCHANGED <<uevents, cable>>, pc' # "down" => pc # "down"
  PROVE  Queue'
  BY DEF Queue, WellFormed, LastTells, SameUntilUnplugged, PluggedFirst, Pending, Plugs, Unplugs

(* An empty queue is in order.                                              *)
LEMMA QueueEmpty ==
  ASSUME uevents' = <<>>
  PROVE  Queue'
  BY DEF Queue, WellFormed, LastTells, SameUntilUnplugged, PluggedFirst, Pending

(* A uevent less.                                                           *)
LEMMA QueueRead ==
  ASSUME Queue, uevents \in Seq(Event), uevents # <<>>, uevents' = Tail(uevents),
         UNCHANGED cable, pc # "down"
  PROVE  Queue'
<1> USE ShapeOfQueue, ReadFirst
<1>1. WellFormed'
  <2> SUFFICES ASSUME NEW i \in Pending'
               PROVE  /\ uevents'[i].online = "absent" => uevents'[i].model = "absent"
                      /\ uevents'[i].online = "1" => uevents'[i].model \in {"usb", "factory"}
    BY DEF WellFormed
  <2>1. uevents'[i] = uevents[i + 1] /\ i + 1 \in Pending
    OBVIOUS
  <2> QED BY <2>1 DEF Queue, WellFormed
<1>2. LastTells'
  <2> SUFFICES ASSUME NEW i \in Pending', uevents'[i].online # "absent"
               PROVE  \E l \in i .. Len(uevents') :
                        IF cable = "none" THEN uevents'[l].online = "0" ELSE Plugs(uevents'[l], cable)
    BY DEF LastTells
  <2>1. PICK l \in (i + 1) .. Len(uevents) :
          IF cable = "none" THEN uevents[l].online = "0" ELSE Plugs(uevents[l], cable)
    BY DEF Queue, LastTells
  <2>2. l - 1 \in i .. Len(uevents') /\ uevents'[l - 1] = uevents[l]
    BY <2>1 DEF Pending
  <2> QED BY <2>1, <2>2
<1>3. SameUntilUnplugged'
  <2> SUFFICES ASSUME NEW i \in Pending', NEW j \in Pending', i < j,
                      uevents'[i].online = "1", uevents'[j].online = "1",
                      \A l \in i .. j : uevents'[l].online # "0"
               PROVE  uevents'[i].model = uevents'[j].model
    BY DEF SameUntilUnplugged
  <2>1. ASSUME NEW l \in (i + 1) .. (j + 1) PROVE uevents[l].online # "0"
    <3>1. l - 1 \in i .. j /\ uevents'[l - 1] = uevents[l]
      BY DEF Pending
    <3> QED BY <3>1
  <2> QED BY <2>1 DEF Queue, SameUntilUnplugged, Pending
<1>4. PluggedFirst'
  <2> SUFFICES ASSUME NEW k \in {"usb", "factory"}, NEW i \in Pending', NEW j \in Pending', i < j,
                      uevents'[i].model \notin {k, "absent"}, Unplugs(uevents'[j], k)
               PROVE  \E l \in i .. j : Plugs(uevents'[l], k)
    BY DEF PluggedFirst
  <2>1. PICK l \in (i + 1) .. (j + 1) : Plugs(uevents[l], k)
    BY DEF Queue, PluggedFirst, Pending
  <2>2. l - 1 \in i .. j /\ uevents'[l - 1] = uevents[l]
    BY <2>1 DEF Pending
  <2> QED BY <2>1, <2>2
<1> QED BY <1>1, <1>2, <1>3, <1>4 DEF Queue

(* A new event that agrees with the cable, as the cable is or is changed   *)
(* to; the three ways the kernel has to send one.                          *)
LEMMA QueueGrown ==
  ASSUME Queue, uevents \in Seq(Event), NEW e \in Event, pc # "down", pc' # "down",
         uevents' = Append(uevents, e),
         e.online = "absent" => e.model = "absent" /\ UNCHANGED cable,
         e.online = "1" => e.model \in {"usb", "factory"} /\ cable' = e.model
                           /\ cable \in {"none", cable'},
         e.online = "0" => cable # "none" /\ cable' = "none" /\ e.model \in {cable, "absent"}
  PROVE  Queue'
<1> USE ShapeOfQueue, Appended
<1> DEFINE new == Len(uevents) + 1
<1>0. /\ new \in Pending' /\ uevents'[new] = e
      /\ \A i \in Pending' : i # new => i \in Pending /\ i < new /\ uevents'[i] = uevents[i]
      /\ \A i \in Pending : \A l \in i .. Len(uevents) : l \in Pending /\ uevents'[l] = uevents[l]
                                                      /\ l \in Pending'
      /\ new \in Nat /\ Len(uevents') = new
  BY DEF Pending
<1> HIDE DEF new
<1>1. WellFormed'
  BY <1>0 DEF Queue, WellFormed
<1>2. LastTells'
  <2> SUFFICES ASSUME NEW i \in Pending', uevents'[i].online # "absent"
               PROVE  \E l \in i .. Len(uevents') :
                        IF cable' = "none" THEN uevents'[l].online = "0"
                        ELSE Plugs(uevents'[l], cable')
    BY DEF LastTells
  <2>1. CASE e.online = "absent"
    <3>1. i \in Pending /\ uevents'[i] = uevents[i]
      BY <1>0, <2>1
    <3>2. PICK l \in i .. Len(uevents) :
            IF cable = "none" THEN uevents[l].online = "0" ELSE Plugs(uevents[l], cable)
      BY <3>1 DEF Queue, LastTells
    <3>3. uevents'[l] = uevents[l] /\ l \in i .. Len(uevents')
      BY <1>0, <3>1, <3>2 DEF Pending
    <3> QED BY <3>2, <3>3, <2>1
  <2>2. CASE e.online # "absent"
    <3>1. new \in i .. Len(uevents')
      BY <1>0 DEF Pending
    <3> QED BY <1>0, <2>2, <3>1 DEF Plugs, Event
  <2> QED BY <2>1, <2>2
<1>3. SameUntilUnplugged'
  <2> SUFFICES ASSUME NEW i \in Pending', NEW j \in Pending', i < j,
                      uevents'[i].online = "1", uevents'[j].online = "1",
                      \A l \in i .. j : uevents'[l].online # "0"
               PROVE  uevents'[i].model = uevents'[j].model
    BY DEF SameUntilUnplugged
  <2>1. i \in Pending /\ uevents'[i] = uevents[i] /\ i < new
    BY <1>0 DEF Pending
  <2>2. CASE j # new
    BY <2>1, <2>2, <1>0 DEF Queue, SameUntilUnplugged, Pending
  <2>3. CASE j = new
    <3>1. PICK l \in i .. Len(uevents) :
            IF cable = "none" THEN uevents[l].online = "0" ELSE Plugs(uevents[l], cable)
      BY <2>1 DEF Queue, LastTells
    <3>2. uevents'[l] = uevents[l] /\ l \in i .. j /\ l \in Pending
      BY <1>0, <2>1, <2>3, <3>1 DEF Pending
    <3>3. cable # "none" /\ Plugs(uevents[l], cable) /\ cable' = cable /\ e.model = cable
      BY <3>1, <3>2, <2>3, <1>0
    <3>4. CASE l = i
      BY <3>4, <3>3, <2>1, <2>3, <1>0 DEF Plugs
    <3>5. CASE l # i
      BY <3>5, <3>2, <3>3, <2>1, <2>3, <1>0 DEF Plugs, Queue, SameUntilUnplugged, Pending
    <3> QED BY <3>4, <3>5
  <2> QED BY <2>2, <2>3
<1>4. PluggedFirst'
  <2> SUFFICES ASSUME NEW k \in {"usb", "factory"}, NEW i \in Pending', NEW j \in Pending', i < j,
                      uevents'[i].model \notin {k, "absent"}, Unplugs(uevents'[j], k)
               PROVE  \E l \in i .. j : Plugs(uevents'[l], k)
    BY DEF PluggedFirst
  <2>1. i \in Pending /\ uevents'[i] = uevents[i] /\ i < new
    BY <1>0 DEF Pending
  <2>2. CASE j # new
    <3>1. PICK l \in i .. j : Plugs(uevents[l], k)
      BY <2>1, <2>2, <1>0 DEF Queue, PluggedFirst
    <3>2. uevents'[l] = uevents[l]
      BY <2>1, <2>2, <1>0 DEF Pending
    <3> QED BY <3>1, <3>2
  <2>3. CASE j = new
    <3>1. cable = k /\ cable # "none"
      BY <2>3, <1>0 DEF Unplugs
    <3>2. uevents[i].online # "absent"
      BY <2>1 DEF Queue, WellFormed
    <3>3. PICK l \in i .. Len(uevents) : Plugs(uevents[l], k)
      BY <2>1, <3>1, <3>2 DEF Queue, LastTells
    <3>4. uevents'[l] = uevents[l] /\ l \in i .. j
      BY <1>0, <2>1, <2>3, <3>3 DEF Pending
    <3> QED BY <3>3, <3>4
  <2> QED BY <2>2, <2>3
<1> QED BY <1>1, <1>2, <1>3, <1>4 DEF Queue

-----------------------------------------------------------------------------
(* What usbd makes of an event: it then knows of the cable what it should, *)
(* given what still waits.                                                 *)
LEMMA KnowledgeKept ==
  ASSUME Knowledge, StateOnline', UNCHANGED <<uevents, cable, factory, online, overtaken>>
  PROVE  Knowledge'
  BY DEF Knowledge, KnowsCable, StateOnline, PlugWaits, KindKept, UnplugsKnown, Pending, Plugs,
         Unplugs

(* What usbd knows after it has read a uevent.                              *)
LEMMA KnowledgeRead ==
  ASSUME Queue, Knowledge, uevents \in Seq(Event), uevents # <<>>, uevents' = Tail(uevents),
         UNCHANGED <<cable, overtaken>>, pc # "down", Process(Head(uevents)),
         factory \in BOOLEAN, online \in BOOLEAN
  PROVE  Knowledge' /\ (PlugWaits /\ ~online' => PlugWaits')
<1> DEFINE e == uevents[1]
<1>0. e \in Event /\ 1 \in Pending /\ Head(uevents) = e
  BY ReadFirst
<1>1. /\ \A i \in Pending' : uevents'[i] = uevents[i + 1] /\ i + 1 \in Pending
      /\ \A i \in Pending : i # 1 => uevents'[i - 1] = uevents[i] /\ i - 1 \in Pending'
  BY ReadFirst
<1>2. /\ factory' = IF e.model = "absent" THEN factory ELSE e.model = "factory"
      /\ online' = IF e.online = "absent" THEN online ELSE e.online = "1"
      /\ e.online = "absent" => e.model = "absent" /\ state' = state
      /\ e.online = "1" => e.model \in {"usb", "factory"} /\ state' = "connected"
      /\ e.online = "0" => state' = "disconnected"
      /\ e.online \in {"0", "1", "absent"} /\ e.model \in {"usb", "factory", "absent"}
  BY <1>0 DEF Process, Queue, WellFormed, Event
<1> HIDE DEF e
<1>3. KnowsCable'
  <2> SUFFICES ASSUME \A i \in Pending' : uevents'[i].online = "absent"
               PROVE  online' = (cable # "none") /\ (cable # "none" => factory' = (cable = "factory"))
    BY DEF KnowsCable
  <2>1. \A i \in Pending : i # 1 => uevents[i].online = "absent"
    BY <1>1
  <2>2. CASE e.online = "absent"
    BY <2>1, <2>2, <1>2 DEF e, Knowledge, KnowsCable
  <2>3. CASE e.online # "absent"
    <3>1. PICK l \in 1 .. Len(uevents) :
            IF cable = "none" THEN uevents[l].online = "0" ELSE Plugs(uevents[l], cable)
      BY <2>3, <1>0 DEF e, Queue, LastTells
    <3>2. l = 1
      BY <2>1, <3>1 DEF Plugs, Pending
    <3> QED BY <3>1, <3>2, <1>2 DEF e, Plugs
  <2> QED BY <2>2, <2>3
<1>4. PlugWaits /\ ~online' => PlugWaits'
  <2> SUFFICES ASSUME PlugWaits, ~online' PROVE PlugWaits'
    OBVIOUS
  <2>1. PICK i \in Pending : uevents[i].online = "1"
    BY DEF PlugWaits
  <2>2. i # 1
    BY <2>1, <1>2 DEF e
  <2>3. i - 1 \in Pending' /\ uevents'[i - 1].online = "1"
    BY <2>1, <2>2, <1>1
  <2> QED BY <2>3 DEF PlugWaits
<1>5. StateOnline'
  <2>1. CASE e.online = "absent"
    BY <2>1, <1>2, <1>4 DEF Knowledge, StateOnline
  <2>2. CASE e.online \in {"0", "1"}
    BY <2>2, <1>2 DEF StateOnline
  <2> QED BY <2>1, <2>2, <1>2
<1>6. ASSUME ~overtaken PROVE KindKept'
  <2> SUFFICES ASSUME online', NEW i \in Pending', uevents'[i].online = "1",
                      \A l \in 1 .. i : uevents'[l].online # "0"
               PROVE  factory' = (uevents'[i].model = "factory")
    BY DEF KindKept
  <2>1. uevents'[i] = uevents[i + 1] /\ i + 1 \in Pending /\ i \in Nat /\ 1 < i + 1
    BY <1>1 DEF Pending
  <2>2. ASSUME NEW l \in 1 .. (i + 1), l # 1 PROVE uevents[l].online # "0"
    <3>1. l \in Pending /\ l - 1 \in 1 .. i
      BY <2>1, <2>2 DEF Pending
    <3> QED BY <3>1, <2>2, <1>1
  <2>3. CASE e.online = "absent"
    <3>1. \A l \in 1 .. (i + 1) : uevents[l].online # "0"
      BY <2>2, <2>3 DEF e
    <3> QED BY <3>1, <2>1, <2>3, <1>2, <1>6 DEF Knowledge, KindKept
  <2>4. CASE e.online = "1"
    <3>1. \A l \in 1 .. (i + 1) : uevents[l].online # "0"
      BY <2>2, <2>4 DEF e
    <3>2. uevents[1].model = uevents[i + 1].model
      BY <3>1, <2>1, <2>4, <1>0 DEF e, Queue, SameUntilUnplugged
    <3> QED BY <3>2, <2>1, <2>4, <1>2 DEF e
  <2> QED BY <2>3, <2>4, <1>2
<1>7. ASSUME ~overtaken PROVE UnplugsKnown'
  <2> SUFFICES ASSUME NEW k \in {"usb", "factory"}, NEW i \in Pending', Unplugs(uevents'[i], k),
                      factory' # (k = "factory")
               PROVE  \E l \in 1 .. i : Plugs(uevents'[l], k)
    BY DEF UnplugsKnown
  <2>1. uevents'[i] = uevents[i + 1] /\ i + 1 \in Pending /\ i \in Nat /\ 1 < i + 1
    BY <1>1 DEF Pending
  <2>2. \E l \in 1 .. (i + 1) : Plugs(uevents[l], k)
    <3>1. CASE e.model = "absent"
      BY <3>1, <2>1, <1>2, <1>7 DEF Knowledge, UnplugsKnown
    <3>2. CASE e.model # "absent"
      <4>1. e.model \notin {k, "absent"}
        BY <3>2, <1>2
      <4> QED BY <4>1, <2>1, <1>0 DEF e, Queue, PluggedFirst
    <3> QED BY <3>1, <3>2
  <2>3. PICK l \in 1 .. (i + 1) : Plugs(uevents[l], k)
    BY <2>2
  <2>4. l # 1
    BY <2>3, <1>2 DEF Plugs, e
  <2>5. l - 1 \in 1 .. i /\ uevents'[l - 1] = uevents[l]
    BY <2>1, <2>3, <2>4, <1>1 DEF Pending
  <2> QED BY <2>3, <2>5
<1> QED BY <1>3, <1>4, <1>5, <1>6, <1>7 DEF Knowledge

(* What usbd knows when the cable has changed again.                        *)
LEMMA KnowledgeGrown ==
  ASSUME Queue, Knowledge, uevents \in Seq(Event), NEW e \in Event, pc # "down",
         uevents' = Append(uevents, e), UNCHANGED <<factory, online, state, overtaken>>,
         factory \in BOOLEAN, online \in BOOLEAN,
         e.online = "absent" => e.model = "absent" /\ UNCHANGED cable,
         e.online = "1" => e.model \in {"usb", "factory"} /\ cable' = e.model
                           /\ cable \in {"none", cable'},
         e.online = "0" => cable # "none" /\ cable' = "none" /\ e.model \in {cable, "absent"}
  PROVE  Knowledge' /\ (PlugWaits => PlugWaits')
<1> DEFINE new == Len(uevents) + 1
<1>0. /\ new \in Pending' /\ uevents'[new] = e /\ Len(uevents) \in Nat
      /\ \A i \in Pending' : i # new => i \in Pending /\ i < new /\ uevents'[i] = uevents[i]
      /\ \A i \in Pending : \A l \in 1 .. i : l \in Pending /\ uevents'[l] = uevents[l]
      /\ \A i \in Pending : i \in Pending' /\ uevents'[i] = uevents[i] /\ i \in 1 .. new
  BY Appended DEF Pending
<1> HIDE DEF new
<1>1. KnowsCable'
  BY <1>0 DEF Knowledge, KnowsCable
<1>2. PlugWaits => PlugWaits'
  BY <1>0 DEF PlugWaits
<1>3. StateOnline'
  BY <1>2 DEF Knowledge, StateOnline
(* Either nothing of the power supply waited, or what waited last told the *)
(* cable as it was.                                                        *)
<1>4. \/ /\ online = (cable # "none")
         /\ cable # "none" => factory = (cable = "factory")
      \/ \E l \in Pending :
           IF cable = "none" THEN uevents[l].online = "0" ELSE Plugs(uevents[l], cable)
  BY DEF Knowledge, KnowsCable, Queue, LastTells, Pending
<1>5. ASSUME ~overtaken PROVE KindKept'
  <2> SUFFICES ASSUME online, NEW i \in Pending', uevents'[i].online = "1",
                      \A l \in 1 .. i : uevents'[l].online # "0"
               PROVE  factory = (uevents'[i].model = "factory")
    BY DEF KindKept
  <2>1. CASE i # new
    <3>1. i \in Pending /\ uevents'[i] = uevents[i] /\ \A l \in 1 .. i : uevents[l].online # "0"
      BY <2>1, <1>0
    <3> QED BY <3>1, <1>5 DEF Knowledge, KindKept
  <2>2. CASE i = new
    <3>1. uevents'[i] = e /\ \A l \in Pending : uevents[l].online # "0"
      BY <2>2, <1>0
    <3>2. CASE online = (cable # "none") /\ (cable # "none" => factory = (cable = "factory"))
      BY <3>1, <3>2
    <3>3. CASE \E l \in Pending :
                 IF cable = "none" THEN uevents[l].online = "0" ELSE Plugs(uevents[l], cable)
      <4>1. PICK l \in Pending :
              IF cable = "none" THEN uevents[l].online = "0" ELSE Plugs(uevents[l], cable)
        BY <3>3
      <4>2. cable # "none" /\ cable = e.model /\ Plugs(uevents[l], cable)
        BY <3>1, <4>1
      <4>3. \A m \in 1 .. l : uevents[m].online # "0"
        BY <3>1, <1>0
      <4>4. factory = (uevents[l].model = "factory")
        BY <4>2, <4>3, <1>5 DEF Knowledge, KindKept, Plugs
      <4> QED BY <4>2, <4>4, <3>1 DEF Plugs
    <3> QED BY <1>4, <3>2, <3>3
  <2> QED BY <2>1, <2>2
<1>6. ASSUME ~overtaken PROVE UnplugsKnown'
  <2> SUFFICES ASSUME NEW k \in {"usb", "factory"}, NEW i \in Pending', Unplugs(uevents'[i], k),
                      factory # (k = "factory")
               PROVE  \E l \in 1 .. i : Plugs(uevents'[l], k)
    BY DEF UnplugsKnown
  <2>1. CASE i # new
    <3>1. i \in Pending /\ uevents'[i] = uevents[i]
      BY <2>1, <1>0
    <3>2. PICK l \in 1 .. i : Plugs(uevents[l], k)
      BY <3>1, <1>6 DEF Knowledge, UnplugsKnown
    <3> QED BY <3>1, <3>2, <1>0
  <2>2. CASE i = new
    <3>1. cable = k /\ cable # "none"
      BY <2>2, <1>0 DEF Unplugs
    <3>2. PICK l \in Pending : Plugs(uevents[l], k)
      BY <3>1, <1>4
    <3> QED BY <3>2, <2>2, <1>0
  <2> QED BY <2>1, <2>2
<1> QED BY <1>1, <1>2, <1>3, <1>5, <1>6 DEF Knowledge

(* The driver reports nothing without a cable, so usbd knows of it or will. *)
LEMMA PluggedIsKnown ==
  ASSUME Queue, Knowledge, pc # "down", cable # "none", online \in BOOLEAN
  PROVE  online \/ PlugWaits
<1>1. CASE \A i \in Pending : uevents[i].online = "absent"
  BY <1>1 DEF Knowledge, KnowsCable
<1>2. CASE \E i \in Pending : uevents[i].online # "absent"
  <2>1. PICK i \in Pending : uevents[i].online # "absent"
    BY <1>2
  <2>2. PICK l \in i .. Len(uevents) : Plugs(uevents[l], cable)
    BY <2>1 DEF Queue, LastTells
  <2>3. l \in Pending
    BY <2>2 DEF Pending
  <2> QED BY <2>2, <2>3 DEF PlugWaits, Plugs
<1> QED BY <1>1, <1>2

-----------------------------------------------------------------------------
(* The frame of a handler: its descriptor is done with. *)
LEMMA HandlerDone ==
  ASSUME IInv, NEW fd \in {"uevent", "device", "server", "app"}, Handling(fd), Done, Remember,
         fd # "uevent" => UNCHANGED uevents
  PROVE  /\ Running /\ Running' /\ fd \in ready
         /\ overtaken' = overtaken
         /\ pc' \in {"select"} \cup ready'
         /\ ready' \subseteq {"uevent", "device", "server", "app"}
         /\ pc' = "select" => ready' = {}
         /\ "uevent" \in ready' => uevents' # <<>>
         /\ fd = "uevent" => uevents # <<>>
         /\ pc # "down" /\ pc' \notin {"down", "bound"}
<1>1. pc \in ready /\ ready \subseteq {"uevent", "device", "server", "app"}
  BY DEF IInv, KernelMatches, TypeOK, DaemonTypes, Handling
<1>2. /\ ready' = ready \ {pc}
      /\ ready' = {} => pc' = "select"
      /\ ready' # {} => pc' \in ready'
  BY <1>1, FirstIsReady DEF Done
<1>3. pc' \in {"select"} \cup ready' /\ (pc' = "select" => ready' = {})
  BY <1>1, <1>2
<1>4. overtaken' = overtaken
  BY <1>1, <1>2, <1>3 DEF Remember, IInv, KernelMatches, TypeOK, Flags
<1>5. pc' \notin {"down", "bound"}
  BY <1>1, <1>2, <1>3
<1>6. /\ "uevent" \in ready' => uevents' # <<>>
      /\ fd = "uevent" => uevents # <<>>
  BY <1>1, <1>2 DEF IInv, Handlers, Handling
<1> QED BY <1>1, <1>2, <1>3, <1>4, <1>5, <1>6 DEF Running, Handling

(* The process dies: nothing it knew is left. *)
LEMMA DeathInv ==
  ASSUME IInv, Die, Remember, Running, UNCHANGED <<cable, kmode, enum>>,
         UNCHANGED uevents \/ (uevents # <<>> /\ uevents' = Tail(uevents)),
         devEvent' \in {devEvent, NoEvent}
  PROVE  IInv'
<1>1. uevents' \in Seq(Event) /\ WellFormed'
  <2>1. CASE UNCHANGED uevents
    BY <2>1 DEF IInv, KernelMatches, TypeOK, OutsideTypes, Queue, WellFormed, Pending
  <2>2. CASE uevents # <<>> /\ uevents' = Tail(uevents)
    <3>1. uevents \in Seq(Event) /\ Queue /\ pc # "down"
      BY DEF IInv, KernelMatches, TypeOK, OutsideTypes, Running
    <3> QED BY <2>2, <3>1, ReadFirst, QueueRead DEF Queue
  <2> QED BY <2>1, <2>2
<1>2. overtaken' = FALSE
  BY DEF Remember, Running, Die
<1>3. KernelMatches'
  <2>1. DaemonTypes'
    BY DEF DaemonTypes, Die
  <2>2. OutsideTypes'
    BY <1>1, EmptySeq DEF IInv, KernelMatches, TypeOK, OutsideTypes, Die
  <2>3. HistoryTypes' /\ Flags'
    BY <1>2 DEF HistoryTypes, Flags, Die
  <2> QED BY <2>1, <2>2, <2>3 DEF KernelMatches, TypeOK, Die
<1>4. Handlers'
  BY <1>2 DEF IInv, Handlers, Die
<1>5. Fresh' /\ Beliefs'
  BY <1>2 DEF Fresh, Beliefs, Running, Die
<1>6. AskedIsMode'
  BY DEF AskedIsMode, StartsWhatWasAsked, Die
<1>7. Queue'
  BY <1>1 DEF Queue, Die
<1> QED BY <1>3, <1>4, <1>5, <1>6, <1>7 DEF IInv

(* A handler that neither reads a uevent nor touches what usbd knows of    *)
(* the cable: what is left to show of it.                                  *)
LEMMA HandlerInv ==
  ASSUME IInv, NEW fd \in {"device", "server", "app"}, Handling(fd), Done, Remember,
         UNCHANGED <<cable, uevents, factory, online>>,
         TypeOK', mode' # None => kmode' = Table[mode'].kernel,
         AskedIsMode', StateOnline', Told',
         enum' # "idle" \/ devEvent' # NoEvent => cable' # "none"
  PROVE  IInv'
<1>1. /\ Running /\ Running' /\ overtaken' = overtaken /\ pc # "down"
      /\ pc' \in {"select"} \cup ready' /\ (pc' = "select" => ready' = {})
      /\ "uevent" \in ready' => uevents' # <<>>
      /\ pc' \notin {"down", "bound"}
  BY HandlerDone
<1>2. Queue'
  BY <1>1, QueueKept DEF IInv
<1>3. Knowledge'
  BY <1>1, KnowledgeKept DEF IInv, Beliefs
<1>4. Handlers'
  BY <1>1 DEF Handlers
<1>5. Fresh' /\ Beliefs'
  BY <1>1, <1>3 DEF Fresh, Beliefs
<1> QED BY <1>2, <1>3, <1>4, <1>5 DEF IInv, KernelMatches

(* A step of the outside leaves usbd where it is. *)
LEMMA OutsideInv ==
  ASSUME IInv, Remember, UNCHANGED <<pc, ready, daemon, history>>,
         TypeOK', kmode' = kmode, Queue', Running => Knowledge' /\ Told',
         conn' = conn \/ (conn = "open" /\ conn' = "gone"),
         uevents # <<>> => uevents' # <<>>,
         enum' # "idle" \/ devEvent' # NoEvent => cable' # "none"
  PROVE  IInv'
<1>1. KernelMatches'
  BY DEF IInv, KernelMatches, daemon
<1>2. Handlers'
  BY DEF IInv, Handlers
<1>3. Fresh'
  <2>1. ~Running => overtaken' = FALSE
    BY DEF IInv, Fresh, Running, Remember
  <2> QED BY <2>1 DEF IInv, Fresh, Running, daemon
<1>4. AskedIsMode'
  BY DEF IInv, AskedIsMode, StartsWhatWasAsked, Connected, daemon, history
<1>5. Beliefs'
  BY DEF IInv, Beliefs, Running
<1> QED BY <1>1, <1>2, <1>3, <1>4, <1>5 DEF IInv

-----------------------------------------------------------------------------
(* At first all beliefs are true.                                           *)
LEMMA InitInv == Init => IInv
<1> SUFFICES ASSUME Init PROVE IInv
  OBVIOUS
<1>1. Flags /\ DaemonTypes /\ HistoryTypes
  BY DEF Init, Flags, DaemonTypes, HistoryTypes
<1>2. OutsideTypes
  BY EmptySeq DEF Init, OutsideTypes
<1>3. Handlers /\ Fresh /\ Beliefs
  BY DEF Init, Handlers, Fresh, Beliefs, Running
<1>4. AskedIsMode
  BY DEF Init, AskedIsMode, StartsWhatWasAsked
<1>5. Queue
  BY DEF Init, Queue, WellFormed, Pending
<1> QED BY <1>1, <1>2, <1>3, <1>4, <1>5 DEF IInv, KernelMatches, TypeOK, Init

(* The start of usbd keeps the invariant.                                   *)
LEMMA StartingInv ==
  ASSUME IInv, Remember, Bind \/ GetCableStatus
  PROVE  IInv'
<1>1. CASE Bind
  <2>1. overtaken' = FALSE /\ overtaken = FALSE /\ ~Running /\ ~Running'
    BY <1>1 DEF Bind, Remember, IInv, Fresh, Running, KernelMatches, TypeOK, Flags
  <2>2. Flags' /\ DaemonTypes' /\ HistoryTypes'
    BY <1>1, <2>1 DEF Bind, InitUsbdSocket, IInv, KernelMatches, TypeOK, Flags, DaemonTypes,
                      HistoryTypes, daemon, history
  <2>3. OutsideTypes'
    BY <1>1, EmptySeq DEF Bind, OpenUeventSocket, IInv, KernelMatches, TypeOK, OutsideTypes
  <2>4. Queue'
    BY <1>1, QueueEmpty DEF Bind, OpenUeventSocket
  <2>5. Handlers' /\ Fresh' /\ Beliefs'
    BY <1>1, <2>1 DEF Bind, IInv, Handlers, Fresh, Beliefs, Running, daemon
  <2>6. AskedIsMode' /\ mode' = None
    BY <1>1 DEF Bind, IInv, AskedIsMode, StartsWhatWasAsked, Connected, Fresh, Running, daemon, history
  <2> QED BY <2>2, <2>3, <2>4, <2>5, <2>6 DEF IInv, KernelMatches, TypeOK
<1>2. CASE GetCableStatus
  <2>1. /\ pc = "bound" /\ ready = {} /\ ready' = {} /\ pc' = "select" /\ ~Running /\ Running'
        /\ mode = None /\ mode' = None /\ kmode' = kmode
        /\ factory = FALSE /\ factory' = (cable = "factory")
        /\ lastSent = FALSE /\ lastSent' = FALSE /\ conn = "none" /\ conn' = "none"
        /\ online' = (cable # "none")
        /\ state' = IF cable # "none" THEN "connected" ELSE "disconnected"
        /\ UNCHANGED <<uevents, cable>>
    BY <1>2, NoFactoryMode DEF GetCableStatus, SetMode, IInv, Fresh, Running, KernelMatches, TypeOK, Flags
  <2>2. overtaken' = \E i \in DOMAIN uevents : uevents[i].model = "factory"
    BY <2>1 DEF Remember
  <2>3. /\ uevents \in Seq(Event) /\ Len(uevents) \in Nat /\ DOMAIN uevents = Pending
        /\ \A i \in Pending : uevents[i] \in Event
        /\ cable \in {"none", "usb", "factory"}
    BY ShapeOfQueue, CableAssumption DEF IInv, KernelMatches, TypeOK, OutsideTypes, Pending
  <2>4. Flags' /\ DaemonTypes' /\ HistoryTypes'
    BY <1>2, <2>1, <2>2 DEF GetCableStatus, IInv, KernelMatches, TypeOK, Flags, DaemonTypes, HistoryTypes, history
  <2>5. OutsideTypes'
    BY <1>2, <2>1 DEF GetCableStatus, IInv, KernelMatches, TypeOK, OutsideTypes
  <2>6. Queue /\ Queue'
    BY <2>1, QueueKept DEF IInv
  <2>7. KnowsCable' /\ StateOnline'
    BY <2>1 DEF KnowsCable, StateOnline
  <2>8. ASSUME ~overtaken' PROVE KindKept' /\ UnplugsKnown'
    <3>1. \A i \in Pending : uevents[i].model # "factory"
      BY <2>2, <2>3, <2>8
    <3>2. KindKept'
      <4> SUFFICES ASSUME online', NEW i \in Pending, uevents[i].online = "1",
                          \A l \in 1 .. i : uevents[l].online # "0"
                   PROVE  factory' = (uevents[i].model = "factory")
        BY <2>1 DEF KindKept, Pending
      <4>1. PICK l \in i .. Len(uevents) : Plugs(uevents[l], cable)
        BY <2>1, <2>6 DEF Queue, LastTells
      <4>2. cable # "factory"
        BY <4>1, <3>1, <2>3 DEF Plugs, Pending
      <4> QED BY <4>2, <3>1, <2>1
    <3>3. UnplugsKnown'
      <4> SUFFICES ASSUME NEW k \in {"usb", "factory"}, NEW i \in Pending, Unplugs(uevents[i], k),
                          factory' # (k = "factory")
                   PROVE  \E l \in 1 .. i : Plugs(uevents[l], k)
        BY <2>1 DEF UnplugsKnown, Pending
      <4>1. k = "usb" /\ cable = "factory"
        BY <3>1, <2>1 DEF Unplugs
      <4>2. PICK l \in i .. Len(uevents) : Plugs(uevents[l], cable)
        BY <2>1, <2>6, <4>1 DEF Queue, LastTells, Unplugs
      <4>3. uevents[l].model = "factory" /\ l \in Pending
        BY <4>1, <4>2, <2>3 DEF Plugs, Pending
      <4> QED BY <4>3, <3>1
    <3> QED BY <3>2, <3>3
  <2>9. Told'
    BY <2>1 DEF Told, SentOnline, HeardOnline, Connected
  <2>10. Fresh' /\ Beliefs' /\ Handlers'
    BY <1>2, <2>1, <2>7, <2>8, <2>9 DEF GetCableStatus, Fresh, Beliefs, Knowledge, Handlers, IInv
  <2>11. AskedIsMode'
    BY <1>2, <2>1 DEF GetCableStatus, IInv, AskedIsMode, StartsWhatWasAsked, Connected, history
  <2> QED BY <2>1, <2>4, <2>5, <2>6, <2>10, <2>11 DEF IInv, KernelMatches, TypeOK
<1> QED BY <1>1, <1>2

(* So does the select of its loop,                                          *)
LEMMA SelectInv ==
  ASSUME IInv, Remember, Select
  PROVE  IInv'
<1>1. /\ pc = "select" /\ Running /\ ready' = Readable /\ pc' = First(Readable)
      /\ UNCHANGED <<daemon, conn, outside, history>>
  BY DEF Select, Running
<1>2. /\ Readable \subseteq {"uevent", "device", "server", "app"} /\ Readable # {}
      /\ "uevent" \in Readable => uevents # <<>>
  BY DEF Select, Readable
<1>3. pc' \in ready' /\ Running' /\ pc' \notin {"down", "bound", "select"}
  BY <1>1, <1>2, FirstIsReady DEF Running
<1>4. overtaken' = overtaken
  BY <1>1, <1>3 DEF Remember, IInv, KernelMatches, TypeOK, Flags
<1>5. TypeOK'
  <2>1. Flags' /\ DaemonTypes' /\ HistoryTypes'
    BY <1>1, <1>2, <1>3, <1>4 DEF IInv, KernelMatches, TypeOK, Flags, DaemonTypes, HistoryTypes,
                                  daemon, outside, history
  <2>2. OutsideTypes'
    BY <1>1 DEF IInv, KernelMatches, TypeOK, OutsideTypes, outside
  <2> QED BY <2>1, <2>2 DEF TypeOK
<1>6. KernelMatches' /\ AskedIsMode'
  BY <1>1, <1>5 DEF IInv, KernelMatches, AskedIsMode, StartsWhatWasAsked, Connected, daemon, outside,
                    history
<1>7. Queue' /\ Knowledge'
  <2>1. StateOnline'
    BY <1>1 DEF IInv, Beliefs, Knowledge, StateOnline, PlugWaits, Pending, daemon, outside
  <2> QED BY <1>1, <1>4, <2>1, QueueKept, KnowledgeKept DEF IInv, Beliefs, Running, daemon, outside
<1>8. Told'
  BY <1>1, <1>4 DEF IInv, Beliefs, Told, SentOnline, HeardOnline, PlugWaits, Pending, Connected, daemon,
                    outside, history
<1>9. Handlers' /\ Fresh'
  BY <1>1, <1>2, <1>3 DEF IInv, Handlers, Fresh, outside
<1> QED BY <1>6, <1>7, <1>8, <1>9 DEF IInv, Beliefs

-----------------------------------------------------------------------------
(* What the three ways to handle a uevent have in common: each ends well   *)
(* if usbd's mode and what it told the app are right.                      *)
LEMMA UeventInv ==
  ASSUME IInv, Remember, Handling("uevent"), Process(Head(uevents)), Done,
         uevents' = Tail(uevents), UNCHANGED <<conn, cable, enum, knock, fromApp, kmode>>,
         mode' \in {mode, None}, lastSent' \in BOOLEAN, heard' \in BOOLEAN,
         acked' # None => mode' = acked', Told'
  PROVE  IInv'
<1>1. /\ Running /\ Running' /\ overtaken' = overtaken /\ uevents # <<>>
      /\ pc' \in {"select"} \cup ready' /\ (pc' = "select" => ready' = {})
      /\ ready' \subseteq {"uevent", "device", "server", "app"}
      /\ "uevent" \in ready' => uevents' # <<>>
      /\ pc # "down" /\ pc' \notin {"down", "bound"}
  BY HandlerDone
<1>2. /\ uevents \in Seq(Event) /\ uevents' \in Seq(Event) /\ Head(uevents) \in Event
      /\ Knowledge /\ Queue /\ factory \in BOOLEAN /\ online \in BOOLEAN
  BY <1>1, ReadFirst DEF IInv, KernelMatches, TypeOK, OutsideTypes, Flags, Beliefs
<1>3. Queue' /\ Knowledge'
  BY <1>1, <1>2, QueueRead, KnowledgeRead
<1>4. /\ factory' \in BOOLEAN /\ online' \in BOOLEAN
      /\ state' \in {state, "connected", "disconnected"} /\ gotdesc' \in {gotdesc, 0}
      /\ devEvent' \in {devEvent, NoEvent}
      /\ acked' \in {acked, None} /\ started' \in {started, None}
      /\ acked' = acked => started' = started \/ started' = None
  BY <1>2 DEF Process
<1>5. TypeOK'
  <2>1. Flags'
    BY <1>1, <1>4 DEF IInv, KernelMatches, TypeOK, Flags
  <2>2. DaemonTypes' /\ HistoryTypes'
    BY <1>1, <1>4 DEF IInv, KernelMatches, TypeOK, DaemonTypes, HistoryTypes
  <2>3. OutsideTypes'
    BY <1>2, <1>4 DEF IInv, KernelMatches, TypeOK, OutsideTypes
  <2> QED BY <2>1, <2>2, <2>3 DEF TypeOK
<1>6. KernelMatches'
  BY <1>5 DEF IInv, KernelMatches
<1>7. AskedIsMode'
  BY <1>4 DEF IInv, AskedIsMode, StartsWhatWasAsked, Connected
<1>8. Handlers' /\ Fresh'
  BY <1>1, <1>4 DEF IInv, Handlers, Fresh
<1> QED BY <1>1, <1>3, <1>6, <1>7, <1>8 DEF IInv, Beliefs

(* Of a factory cable usbd says nothing, and it has said before that there *)
(* is no other; an event that is spurious told the app nothing new; any    *)
(* other is told.                                                          *)
LEMMA UeventStepInv ==
  ASSUME IInv, Remember, UeventFactory \/ UeventSpurious \/ UeventChanged \/ UeventDies
  PROVE  IInv'
<1>1. CASE UeventFactory
  <2>1. /\ Handling("uevent") /\ Process(Head(uevents)) /\ factory' /\ Done /\ uevents' = Tail(uevents)
        /\ UNCHANGED <<mode, kmode, lastSent, conn, cable, enum, knock, fromApp, heard>>
    BY <1>1, NoFactoryMode DEF UeventFactory, SetMode
  <2>2. overtaken' = overtaken /\ Running /\ uevents # <<>>
    BY <2>1, HandlerDone
  <2>3. uevents \in Seq(Event) /\ online \in BOOLEAN
    BY DEF IInv, KernelMatches, TypeOK, OutsideTypes, Flags
  <2>4. ~overtaken => ~lastSent
    <3> SUFFICES ASSUME ~overtaken, ~factory PROVE ~lastSent
      BY <2>2 DEF IInv, Beliefs, Told
    <3>1. /\ uevents \in Seq(Event) /\ 1 \in Pending /\ Head(uevents) = uevents[1] /\ uevents[1] \in Event
      BY <2>1, <2>2, <2>3, ReadFirst
    <3>2. uevents[1].model = "factory" /\ uevents[1].online \in {"0", "1"}
      <4>1. factory' = IF uevents[1].model = "absent" THEN factory ELSE uevents[1].model = "factory"
        BY <2>1, <3>1 DEF Process
      <4>2. uevents[1].model = "factory"
        BY <4>1, <2>1
      <4> QED BY <4>2, <3>1 DEF IInv, Queue, WellFormed, Event
    <3>3. CASE uevents[1].online = "1"
      <4>1. \A l \in 1 .. 1 : uevents[l].online # "0"
        BY <3>3
      <4>2. ~online
        BY <4>1, <3>1, <3>2, <3>3, <2>2, <2>3 DEF IInv, Beliefs, Knowledge, KindKept
      <4> QED BY <4>2, <2>2 DEF IInv, Beliefs, Told, SentOnline
    <3>4. CASE uevents[1].online = "0"
      <4>1. Unplugs(uevents[1], "factory")
        BY <3>2, <3>4 DEF Unplugs
      <4>2. \E l \in 1 .. 1 : Plugs(uevents[l], "factory")
        BY <4>1, <3>1, <2>2 DEF IInv, Beliefs, Knowledge, UnplugsKnown
      <4> QED BY <4>2, <3>4 DEF Plugs
    <3> QED BY <3>2, <3>3, <3>4
  <2>5. Told'
    BY <2>1, <2>2, <2>4 DEF Told, SentOnline, HeardOnline
  <2>6. acked' # None => mode' = acked'
    BY <2>1 DEF Process, IInv, AskedIsMode
  <2> QED BY <2>1, <2>5, <2>6, UeventInv DEF IInv, KernelMatches, TypeOK, Flags
<1>2. CASE UeventSpurious
  <2>1. /\ Handling("uevent") /\ Process(Head(uevents)) /\ ~factory' /\ online' = lastSent /\ Done
        /\ uevents' = Tail(uevents)
        /\ UNCHANGED <<mode, kmode, lastSent, conn, cable, enum, knock, fromApp, heard>>
    BY <1>2 DEF UeventSpurious
  <2>2. overtaken' = overtaken /\ Running /\ uevents # <<>> /\ pc # "down"
    BY <2>1, HandlerDone
  <2>3. /\ uevents \in Seq(Event) /\ 1 \in Pending /\ Head(uevents) = uevents[1] /\ uevents[1] \in Event
        /\ online \in BOOLEAN /\ factory \in BOOLEAN /\ heard \in BOOLEAN /\ lastSent \in BOOLEAN
        /\ online' \in BOOLEAN
    BY <2>1, <2>2, ReadFirst DEF IInv, KernelMatches, TypeOK, OutsideTypes, Flags
  <2>4. PlugWaits /\ ~online' => PlugWaits'
    BY <2>1, <2>2, <2>3, KnowledgeRead DEF IInv, Beliefs, Remember
  <2>5. ASSUME ~overtaken PROVE HeardOnline'
    <3>1. CASE factory
      <4>1. ~lastSent
        BY <3>1, <2>5, <2>2 DEF IInv, Beliefs, Told
      <4>2. Unplugs(uevents[1], "usb")
        BY <4>1, <3>1, <2>1, <2>3 DEF Process, Unplugs, Event, IInv, Queue, WellFormed
      <4>3. \E l \in 1 .. 1 : Plugs(uevents[l], "usb")
        BY <4>2, <3>1, <2>2, <2>3, <2>5 DEF IInv, Beliefs, Knowledge, UnplugsKnown
      <4> QED BY <4>2, <4>3 DEF Plugs, Unplugs
    <3>2. CASE ~factory
      BY <3>2, <2>1, <2>2, <2>3, <2>4, <2>5 DEF IInv, Beliefs, Told, SentOnline, HeardOnline, Connected
    <3> QED BY <3>1, <3>2
  <2>6. Told'
    BY <2>1, <2>2, <2>5 DEF Told, SentOnline
  <2>7. acked' # None => mode' = acked'
    BY <2>1 DEF Process, IInv, AskedIsMode
  <2> QED BY <2>1, <2>3, <2>6, <2>7, UeventInv
<1>3. CASE UeventChanged
  <2>1. /\ Handling("uevent") /\ Process(Head(uevents)) /\ ~factory' /\ online' # lastSent /\ Done
        /\ uevents' = Tail(uevents) /\ conn # "gone"
        /\ lastSent' = online'
        /\ conn = "open" => heard' = (state' # "disconnected")
        /\ conn # "open" => heard' = heard
        /\ mode' = IF state' = "disconnected" THEN None ELSE mode
        /\ UNCHANGED <<kmode, conn, cable, enum, knock, fromApp>>
    BY <1>3 DEF UeventChanged, Notified
  <2>2. overtaken' = overtaken /\ Running /\ uevents # <<>> /\ pc # "down"
    BY <2>1, HandlerDone
  <2>3. /\ uevents \in Seq(Event) /\ Head(uevents) = uevents[1] /\ uevents[1] \in Event
        /\ factory \in BOOLEAN /\ heard \in BOOLEAN /\ online \in BOOLEAN
        /\ uevents[1].online = "absent" => uevents[1].model = "absent"
    BY <2>1, <2>2, ReadFirst DEF IInv, KernelMatches, TypeOK, OutsideTypes, Flags, Queue, WellFormed
  <2>4. ASSUME conn = "open"
        PROVE  /\ online' = (state' # "disconnected")
               /\ acked' # None => acked' = acked /\ mode' = mode
    <3>1. uevents[1].online # "absent"
      BY <2>1, <2>2, <2>3, <2>4 DEF Process, IInv, Beliefs, Told, SentOnline, Connected
    <3>2. uevents[1].online \in {"0", "1"}
      BY <3>1, <2>3 DEF Event
    <3> QED BY <3>2, <2>1, <2>3 DEF Process
  <2>5. online' \in BOOLEAN
    BY <2>1, <2>3 DEF Process
  <2>6. Told'
    BY <2>1, <2>4, <2>5 DEF Told, SentOnline, HeardOnline
  <2>7. acked' # None => mode' = acked'
    <3>1. acked' \in {acked, None}
      BY <2>1 DEF Process
    <3>2. acked # None => conn = "open"
      BY <2>1 DEF IInv, AskedIsMode, Connected, KernelMatches, TypeOK, DaemonTypes
    <3> QED BY <3>1, <3>2, <2>4 DEF IInv, AskedIsMode
  <2>8. heard' \in BOOLEAN
    BY <2>1, <2>3
  <2> QED BY <2>1, <2>5, <2>6, <2>7, <2>8, UeventInv
<1>4. CASE UeventDies
  <2>1. Running /\ uevents # <<>>
    BY <1>4 DEF UeventDies, Handling, Running, IInv, Handlers, KernelMatches, TypeOK, DaemonTypes
  <2> QED BY <1>4, <2>1, DeathInv DEF UeventDies
<1> QED BY <1>1, <1>2, <1>3, <1>4

-----------------------------------------------------------------------------
(* The handlers of the device, the listening socket and the app's socket.  *)
LEMMA DeviceInv ==
  ASSUME IInv, Remember,
         DeviceIgnored \/ DeviceNotify \/ DeviceDescriptor \/ DeviceEnumerated \/ DeviceDies
  PROVE  IInv'
<1>0. /\ Flags /\ DaemonTypes /\ OutsideTypes /\ HistoryTypes
      /\ mode # None => kmode = Table[mode].kernel
      /\ enum # "idle" \/ devEvent # NoEvent => cable # "none"
  BY DEF IInv, KernelMatches, TypeOK, Handlers
<1>1. CASE DeviceIgnored \/ DeviceNotify \/ DeviceDescriptor \/ DeviceEnumerated
  <2>1. /\ Handling("device") /\ Done /\ devEvent' = NoEvent
        /\ UNCHANGED <<mode, factory, online, lastSent, conn, cable, uevents, kmode, enum, knock, fromApp,
                       acked>>
    BY <1>1 DEF DeviceIgnored, DeviceNotify, DeviceDescriptor, DeviceEnumerated, Heard, daemon, history
  <2>2. /\ overtaken' = overtaken /\ Running /\ pc # "down"
        /\ pc' \in {"select"} \cup ready' /\ ready' \subseteq {"uevent", "device", "server", "app"}
        /\ Queue /\ Knowledge /\ Told
    BY <2>1, HandlerDone DEF IInv, Beliefs
(* Only a device with a cable has anything to report. *)
  <2>3. \/ UNCHANGED <<state, heard, started, gotdesc>>
        \/ /\ devEvent # NoEvent /\ state' = "descriptor" /\ heard' = (heard \/ conn = "open")
           /\ gotdesc' = 1 /\ UNCHANGED started
        \/ UNCHANGED <<state, heard, started>> /\ gotdesc' = 1
        \/ /\ devEvent # NoEvent /\ state' = "enumerated" /\ UNCHANGED <<heard, gotdesc>>
           /\ started' = started \/ Start(mode)
    <3>1. CASE DeviceIgnored \/ DeviceNotify
      BY <3>1 DEF DeviceIgnored, DeviceNotify, daemon, history
    <3>2. CASE DeviceDescriptor
      <4>1. CASE gotdesc = 0
        BY <3>2, <4>1 DEF DeviceDescriptor, Heard
      <4>2. CASE gotdesc # 0
        BY <3>2, <4>2, <1>0 DEF DeviceDescriptor, Flags
      <4> QED BY <4>1, <4>2
    <3>3. CASE DeviceEnumerated
      BY <3>3 DEF DeviceEnumerated, Heard
    <3> QED BY <1>1, <3>1, <3>2, <3>3
  <2>4. devEvent # NoEvent => online \/ PlugWaits
    BY <1>0, <2>2, PluggedIsKnown DEF Flags
  <2>5. PlugWaits <=> PlugWaits'
    BY <2>1 DEF PlugWaits, Pending
  <2>6. StateOnline'
    BY <2>1, <2>2, <2>3, <2>4, <2>5 DEF Knowledge, StateOnline
  <2>7. Told'
    <3>1. HeardOnline => HeardOnline'
      BY <2>1, <2>3, <2>4, <2>5, <1>0 DEF HeardOnline, Flags
    <3> QED BY <2>1, <2>2, <3>1 DEF Told, SentOnline, Connected
  <2>8. started' = started \/ Start(mode)
    BY <2>3
  <2>9. AskedIsMode'
    BY <2>1, <2>8 DEF IInv, AskedIsMode, StartsWhatWasAsked, Start, Connected
  <2>10. TypeOK'
    <3>1. heard' \in BOOLEAN
      BY <2>3, <1>0 DEF Flags
    <3>2. Flags'
      BY <1>0, <2>1, <2>2, <3>1 DEF Flags
    <3>3. DaemonTypes'
      BY <1>0, <2>1, <2>2, <2>3 DEF DaemonTypes
    <3>4. OutsideTypes'
      BY <1>0, <2>1 DEF OutsideTypes
    <3>5. HistoryTypes'
      BY <1>0, <2>1, <2>8 DEF HistoryTypes, DaemonTypes, Start, Starts
    <3> QED BY <3>2, <3>3, <3>4, <3>5 DEF TypeOK
  <2> QED BY <1>0, <2>1, <2>6, <2>7, <2>9, <2>10, HandlerInv
<1>2. CASE DeviceDies
  BY <1>2, DeathInv DEF DeviceDies, Heard, Handling, Running
<1> QED BY <1>1, <1>2

(* So do the steps on the server socket,                                    *)
LEMMA ServerInv ==
  ASSUME IInv, Remember, Refuse \/ Accept \/ AcceptDies
  PROVE  IInv'
<1>0. /\ Flags /\ DaemonTypes /\ OutsideTypes /\ HistoryTypes
      /\ mode # None => kmode = Table[mode].kernel
      /\ enum # "idle" \/ devEvent # NoEvent => cable # "none"
  BY DEF IInv, KernelMatches, TypeOK, Handlers
<1>1. CASE Refuse \/ Accept
  <2>1. /\ Handling("server") /\ Done /\ knock' = FALSE
        /\ UNCHANGED <<mode, factory, gotdesc, state, online, cable, uevents, kmode, enum, devEvent, fromApp,
                       acked, started>>
        /\ \/ UNCHANGED <<conn, heard, lastSent>>
           \/ /\ conn = "none" /\ conn' = "open"
              /\ factory => UNCHANGED <<heard, lastSent>>
              /\ ~factory => heard' = (state # "disconnected") /\ lastSent' = online
    BY <1>1 DEF Refuse, Accept, Notified, Connected, daemon, history
  <2>2. /\ overtaken' = overtaken /\ Running /\ pc # "down"
        /\ pc' \in {"select"} \cup ready' /\ ready' \subseteq {"uevent", "device", "server", "app"}
        /\ Queue /\ Knowledge /\ Told
    BY <2>1, HandlerDone DEF IInv, Beliefs
  <2>3. PlugWaits <=> PlugWaits'
    BY <2>1 DEF PlugWaits, Pending
  <2>4. StateOnline'
    BY <2>1, <2>2, <2>3 DEF Knowledge, StateOnline
  <2>5. Told'
    <3>1. SentOnline'
      BY <2>1, <2>2 DEF Told, SentOnline, Connected
    <3>2. HeardOnline => HeardOnline'
      <4>1. CASE UNCHANGED <<conn, heard, lastSent>>
        BY <4>1, <2>1, <2>3 DEF HeardOnline
      <4>2. CASE factory
        BY <4>2, <2>1 DEF HeardOnline
      <4>3. CASE ~factory /\ heard' = (state # "disconnected")
        BY <4>3, <2>1, <2>2, <2>3, <1>0 DEF HeardOnline, Knowledge, StateOnline, Flags
      <4> QED BY <4>1, <4>2, <4>3, <2>1
    <3> QED BY <2>1, <2>2, <3>1, <3>2 DEF Told
  <2>6. AskedIsMode'
    BY <2>1 DEF IInv, AskedIsMode, StartsWhatWasAsked, Connected
  <2>7. heard' \in BOOLEAN /\ lastSent' \in BOOLEAN
    BY <2>1, <1>0 DEF Flags
  <2>8. TypeOK'
    <3>1. Flags' /\ HistoryTypes'
      BY <1>0, <2>1, <2>2, <2>7 DEF Flags, HistoryTypes
    <3>2. DaemonTypes'
      BY <1>0, <2>1, <2>2 DEF DaemonTypes
    <3>3. OutsideTypes'
      BY <1>0, <2>1 DEF OutsideTypes
    <3> QED BY <3>1, <3>2, <3>3 DEF TypeOK
  <2> QED BY <1>0, <2>1, <2>4, <2>5, <2>6, <2>8, HandlerInv
<1>2. CASE AcceptDies
  BY <1>2, DeathInv DEF AcceptDies, Handling, Running
<1> QED BY <1>1, <1>2

(* on the connection of the application,                                    *)
LEMMA AppInv ==
  ASSUME IInv, Remember,
         \/ AppClosed \/ AppUnload
         \/ \E m \in Modes : AppSameMode(m) \/ AppSwitch(m) \/ AppSwitchFails(m)
         \/ \E m \in Modes \cup {Unload, Garbage} : AppDies(m)
  PROVE  IInv'
<1>0. /\ Flags /\ DaemonTypes /\ OutsideTypes /\ HistoryTypes /\ AskedIsMode
      /\ mode # None => kmode = Table[mode].kernel
      /\ enum # "idle" \/ devEvent # NoEvent => cable # "none"
  BY DEF IInv, KernelMatches, TypeOK, Handlers
(* What the app asked for is of the table. *)
<1>1. ASSUME NEW m \in Modes PROVE m # None
  BY ModeAssumption DEF Table, None
(* The messages left are messages. *)
<1>2. ASSUME fromApp # <<>>, ReadSome
      PROVE  fromApp' \in Seq(Modes \cup {Unload, Garbage})
  <2>1. PICK n \in 1 .. Len(fromApp) : fromApp' = SubSeq(fromApp, n + 1, Len(fromApp))
    BY <1>2 DEF ReadSome
  <2> QED BY <2>1, <1>0 DEF OutsideTypes
(* What every handler of the app's socket leaves alone. *)
<1>3. ASSUME Handling("app"), Done,
             UNCHANGED <<factory, gotdesc, state, online, lastSent, cable, uevents, devEvent, knock>>,
             \/ UNCHANGED <<conn, heard>>
             \/ conn' = "none" /\ fromApp' = <<>> /\ acked' = None /\ heard' = FALSE,
             fromApp' \in Seq(Modes \cup {Unload, Garbage}), conn = "none" => fromApp' = <<>>,
             mode' \in Modes \cup {None}, mode' # None => kmode' = Table[mode'].kernel,
             kmode' \in Kernels \cup {None},
             enum' \in {"idle", "desc", "enum"}, enum' # "idle" => cable # "none" \/ enum' = enum,
             acked' \in Modes \cup {None}, acked' # None => mode' = acked' /\ conn # "none",
             \/ started' = None
             \/ started' = started /\ acked' \in {acked, None}
             \/ started' = Table[acked'].start /\ acked' # None
      PROVE  IInv'
  <2>1. /\ overtaken' = overtaken /\ Running /\ pc # "down"
        /\ pc' \in {"select"} \cup ready' /\ ready' \subseteq {"uevent", "device", "server", "app"}
        /\ Queue /\ Knowledge /\ Told
    BY <1>3, HandlerDone DEF IInv, Beliefs
  <2>2. PlugWaits <=> PlugWaits'
    BY <1>3 DEF PlugWaits, Pending
  <2>3. StateOnline'
    BY <1>3, <2>1, <2>2 DEF Knowledge, StateOnline
  <2>4. Told'
    <3>1. SentOnline'
      BY <1>3, <2>1 DEF Told, SentOnline, Connected
    <3>2. HeardOnline => HeardOnline'
      BY <1>3, <2>2 DEF HeardOnline
    <3> QED BY <1>3, <2>1, <3>1, <3>2 DEF Told
  <2>5. AskedIsMode'
    BY <1>3, <1>0 DEF AskedIsMode, StartsWhatWasAsked, Connected
  <2>6. TypeOK'
    <3>1. Flags'
      BY <1>0, <1>3, <2>1 DEF Flags
    <3>2. DaemonTypes'
      BY <1>0, <1>3, <2>1 DEF DaemonTypes
    <3>3. OutsideTypes'
      BY <1>0, <1>3 DEF OutsideTypes
    <3>4. HistoryTypes'
      BY <1>0, <1>3 DEF HistoryTypes, Starts
    <3> QED BY <3>1, <3>2, <3>3, <3>4 DEF TypeOK
  <2> QED BY <1>0, <1>3, <2>3, <2>4, <2>5, <2>6, HandlerInv
<1>4. CASE AppClosed
  BY <1>4, <1>3, <1>0, EmptySeq DEF AppClosed, Hangup, daemon, OutsideTypes, DaemonTypes
<1>5. CASE AppUnload
  <2>1. fromApp # <<>> /\ ReadSome
    BY <1>5 DEF AppUnload, Message
  <2> QED BY <1>5, <1>3, <1>0, <1>2, <2>1 DEF AppUnload, Message, OutsideTypes, DaemonTypes
<1>6. ASSUME NEW m \in Modes, AppSameMode(m) PROVE IInv'
  <2>1. fromApp # <<>> /\ ReadSome
    BY <1>6 DEF AppSameMode, Message
  <2>2. kmode = Table[m].kernel
    <3>1. CASE m = mode
      BY <3>1, <1>0, <1>1
    <3>2. CASE OnOurOwn(mode, m)
      <4>1. mode # None
        BY <3>2, OwnModesShareKernel DEF Table, None
      <4> QED BY <3>2, <4>1, <1>0, OwnModesShareKernel
    <3> QED BY <1>6, <3>1, <3>2 DEF AppSameMode
  <2>3. /\ Handling("app") /\ Done /\ mode' = m /\ acked' = m /\ started' = Table[m].start
        /\ UNCHANGED <<factory, gotdesc, state, online, lastSent, conn, cable, uevents, kmode, enum,
                       devEvent, knock, heard>>
    BY <1>6, <1>1 DEF AppSameMode, Message, Start
  <2>4. conn = "open"
    BY <1>6 DEF AppSameMode
  <2>5. fromApp' \in Seq(Modes \cup {Unload, Garbage})
    BY <1>2, <2>1
  <2>6. /\ mode' \in Modes \cup {None} /\ kmode' = Table[mode'].kernel /\ kmode' \in Kernels \cup {None}
        /\ acked' \in Modes \cup {None} /\ mode' = acked' /\ acked' # None
        /\ enum' = enum /\ enum' \in {"idle", "desc", "enum"}
        /\ started' = Table[acked'].start
    BY <1>0, <1>1, <2>2, <2>3 DEF OutsideTypes
  <2>7. UNCHANGED <<conn, heard>>
    BY <2>3
  <2> QED BY <1>3, <2>3, <2>4, <2>5, <2>6, <2>7
<1>7. ASSUME NEW m \in Modes, AppSwitch(m) PROVE IInv'
  <2>1. fromApp # <<>> /\ ReadSome
    BY <1>7 DEF AppSwitch, Message
  <2>2. /\ Handling("app") /\ Done /\ mode' = m /\ acked' = m /\ started' = None
        /\ kmode' = Table[m].kernel /\ enum' = IF cable = "none" THEN "idle" ELSE "desc"
        /\ UNCHANGED <<factory, gotdesc, state, online, lastSent, conn, cable, uevents, devEvent, knock,
                       heard>>
        /\ conn = "open"
    BY <1>7 DEF AppSwitch, Message
  <2>3. fromApp' \in Seq(Modes \cup {Unload, Garbage})
    BY <1>2, <2>1
  <2>4. kmode' \in Kernels
    BY <2>2 DEF Kernels
  <2> QED BY <1>3, <1>0, <1>1, <2>2, <2>3, <2>4
<1>8. ASSUME NEW m \in Modes, AppSwitchFails(m) PROVE IInv'
  <2>1. fromApp # <<>> /\ ReadSome
    BY <1>8 DEF AppSwitchFails, Message
  <2>2. /\ Handling("app") /\ Done /\ acked' = None /\ started' = None /\ conn = "open"
        /\ UNCHANGED <<daemon, conn, cable, uevents, kmode, enum, devEvent, knock, heard>>
    BY <1>8 DEF AppSwitchFails, Message
  <2>3. fromApp' \in Seq(Modes \cup {Unload, Garbage})
    BY <1>2, <2>1
  <2> QED BY <1>3, <1>0, <2>2, <2>3 DEF OutsideTypes, DaemonTypes, daemon
<1>9. ASSUME NEW m \in Modes \cup {Unload, Garbage}, AppDies(m) PROVE IInv'
  BY <1>9, DeathInv DEF AppDies, Message, Handling, Running
<1> QED BY <1>4, <1>5, <1>6, <1>7, <1>8, <1>9

-----------------------------------------------------------------------------
(* The cable.  A process that is down hears nothing; any other gets one    *)
(* more event, which agrees with the cable.                                *)
LEMMA CableInv ==
  ASSUME IInv, Remember, (\E k \in Cables : Plug(k)) \/ Unplug \/ Repeat
  PROVE  IInv'
<1>0. /\ Flags /\ DaemonTypes /\ OutsideTypes /\ HistoryTypes /\ Queue
      /\ enum # "idle" \/ devEvent # NoEvent => cable # "none"
      /\ cable \in {"none", "usb", "factory"}
  BY CableAssumption DEF IInv, KernelMatches, TypeOK, Handlers, OutsideTypes
<1>1. PICK e \in Event :
        /\ Uevent(e)
        /\ e.online = "absent" => e.model = "absent" /\ UNCHANGED cable
        /\ e.online = "1" => e.model \in {"usb", "factory"} /\ cable' = e.model /\ cable \in {"none", cable'}
        /\ e.online = "0" => cable # "none" /\ cable' = "none" /\ e.model \in {cable, "absent"}
  <2>1. CASE \E k \in Cables : Plug(k)
    <3>1. PICK k \in Cables : Plug(k)
      BY <2>1
    <3>2. [model |-> k, online |-> "1"] \in Event
      BY CableAssumption DEF Event
    <3> QED BY <3>1, <3>2, CableAssumption DEF Plug
  <2>2. CASE Unplug
    <3>1. PICK k \in {cable, "absent"} : Uevent([model |-> k, online |-> "0"])
      BY <2>2 DEF Unplug
    <3>2. cable # "none" /\ cable' = "none"
      BY <2>2 DEF Unplug
    <3>3. [model |-> k, online |-> "0"] \in Event
      BY <1>0, <3>1, <3>2 DEF Event
    <3> QED BY <3>1, <3>2, <3>3
  <2>3. CASE Repeat
    <3>1. PICK e \in {[model |-> "absent", online |-> "absent"]}
                     \cup {[model |-> k, online |-> "1"] : k \in {cable} \ {"none"}} : Uevent(e)
      BY <2>3 DEF Repeat
    <3>2. UNCHANGED cable
      BY <2>3 DEF Repeat
    <3>3. CASE e = [model |-> "absent", online |-> "absent"]
      <4>1. e \in Event
        BY <3>3 DEF Event
      <4> QED BY <3>1, <3>2, <3>3, <4>1
    <3>4. CASE cable # "none" /\ e = [model |-> cable, online |-> "1"]
      <4>1. e \in Event
        BY <1>0, <3>4 DEF Event
      <4> QED BY <1>0, <3>1, <3>2, <3>4, <4>1
    <3> QED BY <3>1, <3>3, <3>4
  <2> QED BY <2>1, <2>2, <2>3
<1>2. /\ UNCHANGED <<pc, ready, daemon, conn, kmode, knock, fromApp, history>>
      /\ enum' \in {"idle", "desc", "enum"} /\ devEvent' \in {devEvent, NoEvent}
      /\ enum' # "idle" \/ devEvent' # NoEvent => cable' # "none"
      /\ cable' \in Cables \cup {"none"}
  <2>1. CASE \E k \in Cables : Plug(k)
    BY <2>1, <1>0, CableAssumption DEF Plug
  <2>2. CASE Unplug
    BY <2>2, <1>0 DEF Unplug
  <2>3. CASE Repeat
    BY <2>3, <1>0 DEF Repeat, OutsideTypes
  <2> QED BY <2>1, <2>2, <2>3
<1>3. /\ uevents \in Seq(Event)
      /\ pc = "down" => uevents' = uevents
      /\ pc # "down" => uevents' = Append(uevents, e)
  BY <1>0, <1>1 DEF Uevent, OutsideTypes
<1>4. uevents' \in Seq(Event) /\ (uevents # <<>> => uevents' # <<>>)
  BY <1>3
<1>5. overtaken' \in BOOLEAN /\ (Running => overtaken' = overtaken)
  BY <1>0, <1>2 DEF Remember, Running, Flags, DaemonTypes
<1>6. TypeOK'
  <2>1. Flags' /\ DaemonTypes' /\ HistoryTypes'
    BY <1>0, <1>2, <1>5 DEF Flags, DaemonTypes, HistoryTypes, daemon, history
  <2>2. OutsideTypes'
    BY <1>0, <1>2, <1>4 DEF OutsideTypes
  <2> QED BY <2>1, <2>2 DEF TypeOK
<1>7. Queue'
  <2>1. CASE pc = "down"
    BY <2>1, <1>0, <1>2, <1>3 DEF Queue, WellFormed, Pending
  <2>2. CASE pc # "down"
    BY <2>2, <1>0, <1>1, <1>2, <1>3, QueueGrown
  <2> QED BY <2>1, <2>2
<1>8. ASSUME Running PROVE Knowledge' /\ Told'
  <2>1. /\ pc # "down" /\ Knowledge /\ Told /\ overtaken' = overtaken
        /\ UNCHANGED <<factory, online, state, lastSent, conn, heard>>
        /\ factory \in BOOLEAN /\ online \in BOOLEAN
    BY <1>8, <1>0, <1>2, <1>5 DEF IInv, Beliefs, Running, daemon, history, Flags
  <2>2. Knowledge' /\ (PlugWaits => PlugWaits')
    BY <2>1, <1>0, <1>1, <1>3, KnowledgeGrown
  <2>3. Told'
    BY <2>1, <2>2 DEF Told, SentOnline, HeardOnline, Connected
  <2> QED BY <2>2, <2>3
<1> QED BY <1>2, <1>4, <1>6, <1>7, <1>8, OutsideInv

(* and those of the kernel and of the application.                          *)
LEMMA PeersInv ==
  ASSUME IInv, Remember,
         Enumerate \/ DriverNotify \/ Connect \/ Disconnect
         \/ \E m \in Modes \cup {Unload, Garbage} : Request(m)
  PROVE  IInv'
<1>0. /\ Flags /\ DaemonTypes /\ OutsideTypes /\ HistoryTypes /\ Queue
      /\ enum # "idle" \/ devEvent # NoEvent => cable # "none"
  BY DEF IInv, KernelMatches, TypeOK, Handlers
<1> DEFINE Frame ==
      /\ UNCHANGED <<pc, ready, daemon, history, cable, uevents, kmode>>
      /\ conn' = conn \/ (conn = "open" /\ conn' = "gone")
      /\ enum' # "idle" \/ devEvent' # NoEvent => cable' # "none"
      /\ enum' \in {"idle", "desc", "enum"} /\ devEvent' \in {"desc", "enum", "notify", NoEvent}
      /\ knock' \in BOOLEAN
      /\ fromApp' \in Seq(Modes \cup {Unload, Garbage}) /\ (conn' = "none" => fromApp' = <<>>)
<1>1. Frame
  <2>1. CASE Enumerate
    BY <2>1, <1>0 DEF Enumerate, OutsideTypes, Flags
  <2>2. CASE DriverNotify
    BY <2>2, <1>0 DEF DriverNotify, OutsideTypes, Flags
  <2>3. CASE Connect
    BY <2>3, <1>0 DEF Connect, OutsideTypes
  <2>4. CASE Disconnect
    BY <2>4, <1>0 DEF Disconnect, OutsideTypes, Flags, outside
  <2>5. ASSUME NEW m \in Modes \cup {Unload, Garbage}, Request(m) PROVE Frame
    BY <2>5, <1>0 DEF Request, OutsideTypes, Flags
  <2> QED BY <2>1, <2>2, <2>3, <2>4, <2>5
<1>2. overtaken' \in BOOLEAN /\ (Running => overtaken' = overtaken)
  BY <1>0, <1>1 DEF Remember, Running, Flags, DaemonTypes
<1>3. TypeOK'
  <2>1. Flags' /\ HistoryTypes'
    BY <1>0, <1>1, <1>2 DEF Flags, HistoryTypes, daemon, history
  <2>2. DaemonTypes' /\ OutsideTypes'
    BY <1>0, <1>1 DEF DaemonTypes, OutsideTypes, daemon
  <2> QED BY <2>1, <2>2 DEF TypeOK
<1>4. Queue'
  BY <1>0, <1>1, QueueKept
<1>5. ASSUME Running PROVE Knowledge' /\ Told'
  <2>1. /\ Knowledge /\ Told /\ overtaken' = overtaken
        /\ UNCHANGED <<factory, online, state, lastSent, heard, uevents, cable>>
    BY <1>5, <1>1, <1>2 DEF IInv, Beliefs, daemon, history
  <2>2. StateOnline'
    BY <2>1 DEF Knowledge, StateOnline, PlugWaits, Pending
  <2>3. Told'
    BY <2>1, <1>1 DEF Told, SentOnline, HeardOnline, PlugWaits, Pending, Connected
  <2> QED BY <2>1, <2>2, <2>3, KnowledgeKept
<1> QED BY <1>1, <1>3, <1>4, <1>5, OutsideInv

(* Every step keeps the invariant.                                          *)
LEMMA StepInv ==
  ASSUME IInv, [Next]_vars
  PROVE  IInv'
<1>1. ASSUME Loop, Remember PROVE IInv'
  BY <1>1, StartingInv, SelectInv, UeventStepInv, DeviceInv, ServerInv, AppInv DEF Loop
<1>2. ASSUME Outside, Remember PROVE IInv'
  BY <1>2, CableInv, PeersInv DEF Outside
<1>3. CASE UNCHANGED vars
  <2>1. UNCHANGED <<pc, ready, mode, factory, gotdesc, state, online, lastSent, conn, cable, uevents,
                    kmode, enum, devEvent, knock, fromApp, heard, acked, started, overtaken>>
    BY <1>3 DEF vars, daemon, outside, history
  <2>2. KernelMatches' /\ AskedIsMode' /\ Handlers' /\ Fresh'
    BY <2>1 DEF IInv, KernelMatches, TypeOK, Flags, DaemonTypes, OutsideTypes, HistoryTypes,
                AskedIsMode, StartsWhatWasAsked, Connected, Handlers, Fresh, Running
  <2>3. Queue'
    BY <2>1, QueueKept DEF IInv
  <2>4. Beliefs'
    <3>1. PlugWaits' <=> PlugWaits
      BY <2>1 DEF PlugWaits, Pending
    <3>2. Running => Knowledge' /\ Told'
      BY <2>1, <3>1, KnowledgeKept DEF IInv, Beliefs, Knowledge, StateOnline, Told, SentOnline,
                                       HeardOnline, Connected
    <3> QED BY <2>1, <3>2 DEF Beliefs, Running
  <2> QED BY <2>2, <2>3, <2>4 DEF IInv
<1> QED BY <1>1, <1>2, <1>3 DEF Next

-----------------------------------------------------------------------------
(* The inductive invariant holds of every run of the daemon, driver, cable *)
(* and app.                                                                *)
THEOREM Invariance == Spec => []IInv
<1>1. Init => IInv
  BY InitInv
<1>2. IInv /\ [Next]_vars => IInv'
  BY StepInv
<1> QED BY <1>1, <1>2, PTL DEF Spec

(* KernelMatches: whatever the app asks for, whichever writes fail, and    *)
(* however often usbd dies and is started again, the mode it takes for     *)
(* current is the one the gadget driver is in.                             *)
THEOREM ModeIsTheDrivers == Spec => []KernelMatches
<1>1. IInv => KernelMatches
  BY DEF IInv
<1> QED BY <1>1, Invariance, PTL

(* StartsWhatWasAsked: usb_mode_start, sent when the driver reports the    *)
(* enumeration, is for the request last answered :ok.                      *)
THEOREM StartIsForTheRequest == Spec => []StartsWhatWasAsked
<1>1. IInv => StartsWhatWasAsked
  BY DEF IInv, AskedIsMode
<1> QED BY <1>1, Invariance, PTL

(* AppInformed: for any number of uevents that wait, the comparison with   *)
(* last_sent_usb_online drops none the app had to hear of.                 *)
THEOREM AppHearsOfTheCable == Spec => []AppInformed
<1>1. IInv => AppInformed
  <2> SUFFICES ASSUME IInv, pc = "select", uevents = <<>>, conn = "open", ~factory, ~overtaken
               PROVE  heard = (cable # "none")
    BY DEF AppInformed
  <2>1. Knowledge /\ Told
    BY DEF IInv, Beliefs, Running
  <2>2. Pending = {}
    BY DEF Pending
  <2>3. online = (cable # "none")
    BY <2>1, <2>2 DEF Knowledge, KnowsCable
  <2>4. heard = online
    BY <2>1, <2>2 DEF Told, HeardOnline, PlugWaits
  <2> QED BY <2>3, <2>4
<1> QED BY <1>1, Invariance, PTL
=============================================================================
