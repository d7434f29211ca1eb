-------------------------------- MODULE Usbd --------------------------------
(***************************************************************************)
(* The USB mode daemon, usbd/usbd.c: one thread that selects on four file  *)
(* descriptors, the kernel's uevents, the gadget driver's device, the      *)
(* listening socket and the socket of the one connected app, and handles   *)
(* the readable ones in that order.  Cable, driver and app act between any *)
(* two of its handlers.                                                    *)
(*                                                                         *)
(* A write to an app that closed its end raises SIGPIPE, which usbd leaves *)
(* at its default: the process dies and init starts it again.  What the    *)
(* gadget driver and the app do is external and modelled from how usbd     *)
(* uses them: the driver enumerates again after each mode it is given, and *)
(* forgets its events when the cable goes.                                 *)
(***************************************************************************)
EXTENDS Integers, Sequences

CONSTANTS
  Modes,        \* modes the app asks for, of the names in Table
  Cables,       \* cables that are plugged in, of "usb" and "factory"
  MaxWaiting,   \* bound: uevents and messages of the app not read yet
  MaxRequests   \* bound: messages waiting in the app's socket

(* usb_modes[]: what is written to the driver, which has no charge modes   *)
(* and gets mass storage instead, and the start message for the app, which *)
(* does not tell of adb.                                                   *)
Mode(kernel, start) == [kernel |-> kernel, start |-> start]

Table == [
  eth             |-> Mode("eth", "eth"),
  acm             |-> Mode("acm", "acm"),
  acm_eth         |-> Mode("acm_eth", "acm_eth"),
  acm_eth_adb     |-> Mode("acm_eth_adb", "acm_eth"),
  acm_eth_mtp     |-> Mode("acm_eth_mtp", "acm_eth_mtp"),
  acm_eth_mtp_adb |-> Mode("acm_eth_mtp_adb", "acm_eth_mtp"),
  mtp             |-> Mode("mtp", "mtp"),
  mtp_adb         |-> Mode("mtp_adb", "mtp"),
  msc             |-> Mode("msc", "msc"),
  msc_adb         |-> Mode("msc_adb", "msc"),
  charge_only     |-> Mode("msc", "charge_only"),
  charge_adb      |-> Mode("msc_adb", "charge_only"),
  rndis           |-> Mode("rndis", "rndis"),
  rndis_adb       |-> Mode("rndis_adb", "rndis")]

(* usbd_get_mode_index: names in usb_modes[] carry a prefix. *)
ModeNamed(name) == {m \in DOMAIN Table : <<"usb_mode_", m>> = name}

ASSUME ModeAssumption  == Modes \subseteq DOMAIN Table
ASSUME CableAssumption == Cables \subseteq {"usb", "factory"}
ASSUME BoundAssumption == {MaxWaiting, MaxRequests} \subseteq Nat \ {0}

None    == "none"       \* usb_modes[0]; also: no message
Unload  == "unload"     \* "usb_unload_driver"
Garbage == "garbage"    \* a message that is in no table

VARIABLES
  pc,        \* "down", "bound", "select", or the handler that is next
  ready,     \* the descriptors select found readable
  mode,      \* usb_current_mode
  factory,   \* usb_factory_cable
  gotdesc,   \* usb_got_descriptor: 0, or 1 for more
  state,     \* usb_state
  online,    \* usb_online
  lastSent,  \* last_sent_usb_online
  conn,      \* the app's socket: "none", "open", or "gone" (the app closed it)
  \* the outside
  cable,     \* what is plugged in: "none", "usb" or "factory"
  uevents,   \* the netlink socket
  kmode,     \* the mode the gadget driver is in
  enum,      \* what the driver will report next: "idle", "desc" or "enum"
  devEvent,  \* what a read of the device returns: "desc", "enum", "notify"
  knock,     \* a connection waits in the listening socket
  fromApp,   \* the app's messages not yet read
  \* history
  heard,     \* online as the connected app was last told
  acked,     \* the request last answered :ok and not void
  started,   \* the start message sent since then
  overtaken  \* usbd read the cable's state while a factory cable's uevent, older
             \* than that, was waiting

daemon  == <<mode, factory, gotdesc, state, online, lastSent>>
outside == <<cable, uevents, kmode, enum, devEvent, knock, fromApp>>
history == <<heard, acked, started>>
vars == <<pc, ready, daemon, conn, outside, history, overtaken>>

Connected == conn # "none"
NoEvent == "nothing"

Init ==
  /\ pc = "down" /\ ready = {}
  /\ mode = None /\ factory = FALSE /\ gotdesc = 0 /\ state = "disconnected"
  /\ online = FALSE /\ lastSent = FALSE /\ conn = "none"
  /\ cable = "none" /\ uevents = <<>> /\ kmode = None /\ enum = "idle"
  /\ devEvent = NoEvent /\ knock = FALSE /\ fromApp = <<>>
  /\ heard = FALSE /\ acked = None /\ started = None /\ overtaken = FALSE

-----------------------------------------------------------------------------
(* Starting.  The uevent socket is bound: what was broadcast before is not *)
(* heard.  The listening socket is new, with nobody waiting.               *)
OpenUeventSocket == uevents' = <<>>
InitUsbdSocket   == knock' = FALSE

Bind ==
  /\ pc = "down"
  /\ pc' = "bound"
  /\ OpenUeventSocket
  /\ InitUsbdSocket
  /\ UNCHANGED <<ready, daemon, conn, cable, kmode, enum, devEvent, fromApp, history>>

(* A factory cable: "eth" is looked up, without the prefix. *)
FactoryMode == ModeNamed(<<"eth">>)

SetMode(found) ==
  IF found = {} THEN UNCHANGED <<mode, kmode>>
  ELSE \E m \in found : mode' = m /\ kmode' = Table[m].kernel

(* usbd_get_cable_status. *)
GetCableStatus ==
  /\ pc = "bound"
  /\ pc' = "select"
  /\ factory' = IF cable = "none" THEN factory ELSE cable = "factory"
  /\ SetMode(IF cable = "factory" THEN FactoryMode ELSE {})
  /\ online' = (cable # "none")
  /\ state' = IF cable # "none" THEN "connected" ELSE "disconnected"
  /\ UNCHANGED <<ready, gotdesc, lastSent, conn, cable, uevents, enum, devEvent, knock, fromApp,
                 history>>

(* The process ends; its variables and sockets are gone. *)
Die ==
  /\ pc' = "down" /\ ready' = {}
  /\ mode' = None /\ factory' = FALSE /\ gotdesc' = 0 /\ state' = "disconnected"
  /\ online' = FALSE /\ lastSent' = FALSE /\ conn' = "none"
  /\ knock' = FALSE /\ fromApp' = <<>>
  /\ heard' = FALSE /\ acked' = None /\ started' = None

-----------------------------------------------------------------------------
(* The main loop.                                                          *)
Readable ==
       {x \in {"uevent"} : uevents # <<>>}
  \cup {x \in {"device"} : devEvent # NoEvent}
  \cup {x \in {"server"} : knock}
  \cup {x \in {"app"} : fromApp # <<>> \/ conn = "gone"}

(* The handlers run in this order, each if its descriptor was readable. *)
Order == <<"uevent", "device", "server", "app">>

First(fds) ==
  IF fds = {} THEN "select"
  ELSE Order[CHOOSE i \in 1 .. 4 : Order[i] \in fds /\ \A j \in 1 .. (i - 1) : Order[j] \notin fds]

Select ==
  /\ pc = "select"
  /\ Readable # {}
  /\ ready' = Readable
  /\ pc' = First(Readable)
  /\ UNCHANGED <<daemon, conn, outside, history>>

(* A handler is done. *)
Done == ready' = ready \ {pc} /\ pc' = First(ready \ {pc})

Handling(fd) == pc = fd

(* Mutant of Notified: last_sent_usb_online stays. *)
MutNotified == heard' = (state' # "disconnected") /\ UNCHANGED lastSent

(* usbd_notify_current_status; nothing is said of a factory cable. *)
Notified ==
  IF factory' THEN UNCHANGED <<heard, lastSent>>
  ELSE /\ heard' = (state' # "disconnected")
       /\ lastSent' = online'

(* process_usb_uevent_message: what the event says of cable type and power *)
(* supply.  Going offline also tells the driver, which drops its events,   *)
(* so what the app asked for is void.  A failing recv is taken for an      *)
(* event that says nothing.                                                *)
Process(e) ==
  /\ factory' = IF e.model = "absent" THEN factory ELSE e.model = "factory"
  /\ IF e.online = "absent"
     THEN UNCHANGED <<state, online, gotdesc, devEvent, acked, started>>
     ELSE /\ online' = (e.online = "1")
          /\ state' = IF e.online = "1" THEN "connected" ELSE "disconnected"
          /\ gotdesc' = IF e.online = "1" THEN gotdesc ELSE 0
          /\ devEvent' = IF e.online = "1" THEN devEvent ELSE NoEvent
          /\ acked' = IF e.online = "1" THEN acked ELSE None
          /\ started' = IF e.online = "1" THEN started ELSE None

(* Of a factory cable the app hears nothing. *)
UeventFactory ==
  /\ Handling("uevent")
  /\ Process(Head(uevents)) /\ factory'
  /\ SetMode(FactoryMode)
  /\ uevents' = Tail(uevents)
  /\ Done
  /\ UNCHANGED <<lastSent, conn, cable, enum, knock, fromApp, heard>>

(* "Spurious Cable Event, Ignore": the state has been set nevertheless. *)
UeventSpurious ==
  /\ Handling("uevent")
  /\ Process(Head(uevents)) /\ ~factory' /\ online' = lastSent
  /\ uevents' = Tail(uevents)
  /\ Done
  /\ UNCHANGED <<mode, lastSent, conn, cable, kmode, enum, knock, fromApp, heard>>

(* The app, if connected, is told; without a cable there is no mode. *)
UeventChanged ==
  /\ Handling("uevent")
  /\ Process(Head(uevents)) /\ ~factory' /\ online' # lastSent
  /\ conn # "gone"
  /\ uevents' = Tail(uevents)
  /\ IF conn = "open" THEN Notified ELSE lastSent' = online' /\ UNCHANGED heard
  /\ mode' = IF state' = "disconnected" THEN None ELSE mode
  /\ Done
  /\ UNCHANGED <<conn, cable, kmode, enum, knock, fromApp>>

UeventDies ==
  /\ Handling("uevent") /\ conn = "gone"
  /\ LET e == Head(uevents)
         f == IF e.model = "absent" THEN factory ELSE e.model = "factory"
         o == IF e.online = "absent" THEN online ELSE e.online = "1"
     IN ~f /\ o # lastSent
  /\ uevents' = Tail(uevents)
  /\ devEvent' = IF Head(uevents).online = "0" THEN NoEvent ELSE devEvent
  /\ Die
  /\ UNCHANGED <<cable, kmode, enum>>

-----------------------------------------------------------------------------
(* The device: with a factory cable, or nothing left to read, no more than *)
(* the read happens.                                                       *)
DeviceIgnored ==
  /\ Handling("device")
  /\ factory \/ devEvent = NoEvent
  /\ devEvent' = NoEvent
  /\ Done
  /\ UNCHANGED <<daemon, conn, cable, uevents, kmode, enum, knock, fromApp, history>>

Heard == Handling("device") /\ ~factory /\ devEvent # NoEvent

(* ADB status or a switch the PC asked for, passed on to the app. *)
DeviceNotify ==
  /\ Heard /\ devEvent = "notify" /\ conn # "gone"
  /\ devEvent' = NoEvent
  /\ Done
  /\ UNCHANGED <<daemon, conn, cable, uevents, kmode, enum, knock, fromApp, history>>

(* The host asks for the descriptor: only the first counts. *)
DeviceDescriptor ==
  /\ Heard /\ devEvent = "desc"
  /\ conn = "gone" => gotdesc > 0
  /\ gotdesc' = 1
  /\ state' = IF gotdesc = 0 THEN "descriptor" ELSE state
  /\ heard' = (heard \/ (gotdesc = 0 /\ conn = "open"))
  /\ devEvent' = NoEvent
  /\ Done
  /\ UNCHANGED <<mode, factory, online, lastSent, conn, cable, uevents, kmode, enum, knock,
                 fromApp, acked, started>>

(* The host has enumerated the device: usbd_enum_process. *)
Start(m) == started' = IF m = None THEN None ELSE Table[m].start

(* Mutant of DeviceEnumerated: the start message of the driver's mode. *)
MutDeviceEnumerated ==
  /\ Heard /\ devEvent = "enum" /\ conn # "gone"
  /\ state' = "enumerated"
  /\ IF conn = "open" THEN Start(kmode) ELSE UNCHANGED started
  /\ devEvent' = NoEvent
  /\ Done
  /\ UNCHANGED <<mode, factory, gotdesc, online, lastSent, conn, cable, uevents, kmode, enum,
                 knock, fromApp, heard, acked>>

DeviceEnumerated ==
  /\ Heard /\ devEvent = "enum" /\ conn # "gone"
  /\ state' = "enumerated"
  /\ IF conn = "open" THEN Start(mode) ELSE UNCHANGED started
  /\ devEvent' = NoEvent
  /\ Done
  /\ UNCHANGED <<mode, factory, gotdesc, online, lastSent, conn, cable, uevents, kmode, enum,
                 knock, fromApp, heard, acked>>

DeviceDies ==
  /\ Heard /\ conn = "gone"
  /\ devEvent \in {"notify", "enum"} \/ (devEvent = "desc" /\ gotdesc = 0)
  /\ devEvent' = NoEvent
  /\ Die
  /\ UNCHANGED <<cable, uevents, kmode, enum>>

-----------------------------------------------------------------------------
(* The listening socket: a second app is turned away.                      *)
Refuse ==
  /\ Handling("server") /\ Connected
  /\ knock' = FALSE
  /\ Done
  /\ UNCHANGED <<daemon, conn, cable, uevents, kmode, enum, devEvent, fromApp, history>>

(* The first is told the ADB and the cable status. *)
Accept ==
  /\ Handling("server") /\ ~Connected
  /\ knock' = FALSE
  /\ conn' = "open"
  /\ UNCHANGED <<mode, factory, gotdesc, state, online>>
  /\ Notified
  /\ Done
  /\ UNCHANGED <<cable, uevents, kmode, enum, devEvent, fromApp, acked, started>>

(* The app closed its end before it was accepted. *)
AcceptDies ==
  /\ Handling("server") /\ ~Connected
  /\ Die
  /\ UNCHANGED <<cable, uevents, kmode, enum, devEvent>>

-----------------------------------------------------------------------------
(* The app's socket: usbd_socket_event.  One read may return several       *)
(* messages of the stream; the first alone is looked at.                   *)
Message(m) == Handling("app") /\ fromApp # <<>> /\ Head(fromApp) = m

ReadSome ==
  \E n \in 1 .. Len(fromApp) : fromApp' = SubSeq(fromApp, n + 1, Len(fromApp))

(* Mutant of Hangup: what the app sent is kept for the next connection. *)
MutHangup == conn' = "none" /\ UNCHANGED fromApp /\ heard' = FALSE /\ acked' = None /\ started' = None

Hangup == conn' = "none" /\ fromApp' = <<>> /\ heard' = FALSE /\ acked' = None /\ started' = None

(* End of file, or a message that is no mode: the socket is closed. *)
AppClosed ==
  /\ Handling("app") /\ Connected
  /\ IF fromApp = <<>> THEN conn = "gone" ELSE Head(fromApp) = Garbage
  /\ Hangup
  /\ Done
  /\ UNCHANGED <<daemon, cable, uevents, kmode, enum, devEvent, knock>>

(* usb_unload_driver is not answered. *)
AppUnload ==
  /\ Message(Unload)
  /\ mode' = None /\ acked' = None /\ started' = None
  /\ ReadSome
  /\ Done
  /\ UNCHANGED <<factory, gotdesc, state, online, lastSent, conn, cable, uevents, kmode, enum,
                 devEvent, knock, heard>>

(* Every other mode is answered :ok before anything is done about it.      *)
(* Between mass storage and charging the driver stays as it is, and the    *)
(* start message follows at once, as it does if the mode is the current.   *)
OnOurOwn(old, new) ==
  {old, new} \in {{"msc", "charge_only"}, {"msc_adb", "charge_adb"}}

(* Mutant of AppSameMode: no start message for a switch of its own. *)
MutAppSameMode(m) ==
  /\ Message(m) /\ conn = "open"
  /\ m = mode \/ OnOurOwn(mode, m)
  /\ mode' = m
  /\ acked' = m
  /\ IF m = mode THEN Start(m) ELSE started' = None
  /\ ReadSome
  /\ Done
  /\ UNCHANGED <<factory, gotdesc, state, online, lastSent, conn, cable, uevents, kmode, enum,
                 devEvent, knock, heard>>

AppSameMode(m) ==
  /\ Message(m) /\ conn = "open"
  /\ m = mode \/ OnOurOwn(mode, m)
  /\ mode' = m
  /\ acked' = m /\ Start(m)
  /\ ReadSome
  /\ Done
  /\ UNCHANGED <<factory, gotdesc, state, online, lastSent, conn, cable, uevents, kmode, enum,
                 devEvent, knock, heard>>

(* Any other: the driver gets it, and enumerates again if there is a host. *)
AppSwitch(m) ==
  /\ Message(m) /\ conn = "open"
  /\ m # mode /\ ~OnOurOwn(mode, m)
  /\ mode' = m
  /\ kmode' = Table[m].kernel
  /\ enum' = IF cable = "none" THEN "idle" ELSE "desc"
  /\ acked' = m /\ started' = None
  /\ ReadSome
  /\ Done
  /\ UNCHANGED <<factory, gotdesc, state, online, lastSent, conn, cable, uevents, devEvent,
                 knock, heard>>

(* Mutant of AppSwitchFails: usb_current_mode is set before the write. *)
MutAppSwitchFails(m) ==
  /\ Message(m) /\ conn = "open"
  /\ m # mode /\ ~OnOurOwn(mode, m)
  /\ mode' = m
  /\ acked' = None /\ started' = None
  /\ ReadSome
  /\ Done
  /\ UNCHANGED <<factory, gotdesc, state, online, lastSent, conn, cable, uevents, kmode, enum,
                 devEvent, knock, heard>>

(* The write to the driver fails: the mode stays, the app heard :ok. *)
AppSwitchFails(m) ==
  /\ Message(m) /\ conn = "open"
  /\ m # mode /\ ~OnOurOwn(mode, m)
  /\ acked' = None /\ started' = None
  /\ ReadSome
  /\ Done
  /\ UNCHANGED <<daemon, conn, cable, uevents, kmode, enum, devEvent, knock, heard>>

(* The answer goes to an app that is gone. *)
AppDies(m) ==
  /\ Message(m) /\ conn = "gone"
  /\ Die
  /\ UNCHANGED <<cable, uevents, kmode, enum, devEvent>>

-----------------------------------------------------------------------------
(* External: the cable.  The kernel sends a uevent for each change to a    *)
(* process that listens.                                                   *)
Uevent(e) == uevents' = IF pc = "down" THEN uevents ELSE Append(uevents, e)

Room == Len(uevents) + Len(fromApp) < MaxWaiting

Plug(k) ==
  /\ cable = "none" /\ Room
  /\ cable' = k
  /\ enum' = "desc"
  /\ Uevent([model |-> k, online |-> "1"])
  /\ UNCHANGED <<pc, ready, daemon, conn, kmode, devEvent, knock, fromApp, history>>

Unplug ==
  /\ cable # "none" /\ Room
  /\ cable' = "none"
  /\ enum' = "idle" /\ devEvent' = NoEvent
  /\ \E k \in {cable, "absent"} : Uevent([model |-> k, online |-> "0"])
  /\ UNCHANGED <<pc, ready, daemon, conn, kmode, knock, fromApp, history>>

(* A uevent that repeats the cable's state, or a failing recv. *)
Repeat ==
  /\ pc # "down" /\ Room
  /\ \E e \in {[model |-> "absent", online |-> "absent"]}
              \cup {[model |-> k, online |-> "1"] : k \in {cable} \ {"none"}} :
       Uevent(e)
  /\ UNCHANGED <<pc, ready, daemon, conn, cable, kmode, enum, devEvent, knock, fromApp, history>>

(* External: the gadget driver reports an enumeration, or an ADB change or *)
(* a mode the PC asks for (both at once are two events here).              *)
Enumerate ==
  /\ enum # "idle" /\ devEvent = NoEvent
  /\ devEvent' = enum
  /\ enum' = IF enum = "desc" THEN "enum" ELSE "idle"
  /\ UNCHANGED <<pc, ready, daemon, conn, cable, uevents, kmode, knock, fromApp, history>>

DriverNotify ==
  /\ cable # "none" /\ devEvent = NoEvent
  /\ devEvent' = "notify"
  /\ UNCHANGED <<pc, ready, daemon, conn, cable, uevents, kmode, enum, knock, fromApp, history>>

(* External: the app connects, asks for modes, closes. *)
Connect ==
  /\ pc # "down" /\ ~knock
  /\ knock' = TRUE
  /\ UNCHANGED <<pc, ready, daemon, conn, cable, uevents, kmode, enum, devEvent, fromApp, history>>

Request(m) ==
  /\ conn = "open" /\ Len(fromApp) < MaxRequests /\ Room
  /\ fromApp' = Append(fromApp, m)
  /\ UNCHANGED <<pc, ready, daemon, conn, cable, uevents, kmode, enum, devEvent, knock, history>>

Disconnect ==
  /\ conn = "open"
  /\ conn' = "gone"
  /\ UNCHANGED <<pc, ready, daemon, outside, history>>

-----------------------------------------------------------------------------
Loop ==
  \/ Bind \/ GetCableStatus \/ Select
  \/ UeventFactory \/ UeventSpurious \/ UeventChanged \/ UeventDies
  \/ DeviceIgnored \/ DeviceNotify \/ DeviceDescriptor \/ DeviceEnumerated \/ DeviceDies
  \/ Refuse \/ Accept \/ AcceptDies
  \/ AppClosed \/ AppUnload
  \/ \E m \in Modes : AppSameMode(m) \/ AppSwitch(m) \/ AppSwitchFails(m)
  \/ \E m \in Modes \cup {Unload, Garbage} : AppDies(m)

Outside ==
  \/ \E k \in Cables : Plug(k)
  \/ Unplug \/ Repeat \/ Enumerate \/ DriverNotify \/ Connect \/ Disconnect
  \/ \E m \in Modes \cup {Unload, Garbage} : Request(m)

(* The history of overtaken. *)
Remember ==
  overtaken' = IF pc = "bound" THEN pc' = "select" /\ \E i \in DOMAIN uevents : uevents[i].model = "factory"
               ELSE overtaken /\ pc' # "down"

Next == (Loop \/ Outside) /\ Remember

(* usbd runs when it can.  A driver with an enumeration to report does, and *)
(* is not held off by notifications: it packs both into one event.         *)
Spec     == Init /\ [][Next]_vars
FairSpec == Spec /\ WF_vars(Loop /\ Remember) /\ SF_vars(Enumerate /\ Remember)

-----------------------------------------------------------------------------
(* Types; without a connection nothing is pending from the app. *)
Event   == [model : {"usb", "factory", "absent"}, online : {"0", "1", "absent"}]
Kernels == {Table[m].kernel : m \in Modes}
Starts  == {Table[m].start : m \in Modes}

Flags ==
  /\ factory \in BOOLEAN /\ online \in BOOLEAN /\ lastSent \in BOOLEAN
  /\ knock \in BOOLEAN /\ heard \in BOOLEAN /\ overtaken \in BOOLEAN

DaemonTypes ==
  /\ pc \in {"down", "bound", "select"} \cup ready
  /\ ready \subseteq {"uevent", "device", "server", "app"}
  /\ mode \in Modes \cup {None}
  /\ gotdesc \in {0, 1}
  /\ state \in {"disconnected", "connected", "descriptor", "enumerated"}
  /\ conn \in {"none", "open", "gone"}

OutsideTypes ==
  /\ cable \in Cables \cup {"none"}
  /\ uevents \in Seq(Event)
  /\ kmode \in Kernels \cup {None}
  /\ enum \in {"idle", "desc", "enum"}
  /\ devEvent \in {"desc", "enum", "notify", NoEvent}
  /\ fromApp \in Seq(Modes \cup {Unload, Garbage})
  /\ conn = "none" => fromApp = <<>>

HistoryTypes ==
  /\ acked \in Modes \cup {None}
  /\ started \in Starts \cup {None}

TypeOK == Flags /\ DaemonTypes /\ OutsideTypes /\ HistoryTypes

(* usbd's idea of the mode is the driver's, through failing writes,        *)
(* restarts and the switches usbd keeps from the driver.                   *)
KernelMatches == TypeOK /\ (mode # None => kmode = Table[mode].kernel)

(* Whenever usbd waits and has read all uevents, the connected app has     *)
(* been told whether there is a cable: the test for spurious events never  *)
(* swallows a change, through restarts, reconnections and factory cables,  *)
(* unless usbd started just when a factory cable was changed for another.  *)
AppInformed ==
  (pc = "select" /\ uevents = <<>> /\ conn = "open" /\ ~factory /\ ~overtaken)
    => heard = (cable # "none")

(* A start message names the mode the app last got an :ok for, never an    *)
(* earlier request, although it is sent when the driver reports.           *)
StartsWhatWasAsked ==
  started # None /\ acked # None => started = Table[acked].start

(* A request answered :ok that the driver took is followed by its start    *)
(* message, unless the cable goes or is a factory cable, the app leaves,   *)
(* or something else is asked for.                                         *)
Abandoned(m) == acked # m \/ factory \/ conn # "open" \/ cable # "usb"

RequestStarts ==
  \A m \in Modes :
    acked = m /\ online ~> started = Table[m].start \/ Abandoned(m)
=============================================================================
