----------------------------- MODULE AndroidProofs -----------------------------
(***************************************************************************)
(* Proofs about AndroidCommands for any number of commands and for every   *)
(* set of messages, contacts, notifications, paths and networks: settings  *)
(* stay legal, levels in range but for negative steps, messages are        *)
(* conserved, and a rollback restores exactly and touches nothing else.    *)
(***************************************************************************)
EXTENDS AndroidCommands, TLAPS

-----------------------------------------------------------------------------
(***************************************************************************)
(* The invariant.                                                          *)
(***************************************************************************)
SmsState == [inbox : SUBSET Messages, deleted : SUBSET Messages]
ContactsState == [ContactIds -> Values \cup {None}]
NotificationState == [active : SUBSET Notifications, dismissed : SUBSET Notifications]
FilesState == [Paths -> Contents \cup {None}]
DownloadsState == [Commands -> DownloadStatus \cup {None}]

\* "s" is a state of the unit "u".
UnitOK(u, s) ==
    /\ u \in Controls => s \in Setting(u)
    /\ u = "network" => s \in NetworkState
    /\ u = "sms" => s \in SmsState /\ s.inbox \cup s.deleted = Messages /\ s.inbox \cap s.deleted = {}
    /\ u = "contacts" => s \in ContactsState
    /\ u = "notifications" => s \in NotificationState
    /\ u = "files" => s \in FilesState
    /\ u = "downloads" => s \in DownloadsState
    /\ u = "gallery" => s \subseteq Commands

\* What a command creates was not there before, nor was what it dismisses among
\* the dismissed.
Unused(m, s) ==
    /\ m.cap = "contacts" /\ m.action = "create" => s[m.arg.id] = None
    /\ m.cap = "gallery" /\ m.action = "add" => m.arg \notin s
    /\ m.cap = "notifications" /\ m.action = "dismiss" => m.arg \notin s.dismissed

\* A command that was executed has the data of what it found.
CommandOK(c) ==
    LET m == command[c] IN
    /\ m = [stage |-> m.stage, cap |-> m.cap, action |-> m.action, arg |-> m.arg, data |-> m.data]
    /\ m.stage \in Stages
    /\ m.stage # "idle" => m.cap \in Capabilities /\ <<m.action, m.arg>> \in Calls(m.cap, c)
    /\ m.stage = "done" => /\ UnitOK(UnitOf(m.cap), before[c])
                           /\ ~Refuses(m.cap, before[c], m.action, m.arg)
                           /\ m.data = Data(m.cap, before[c], m.action, m.arg)
                           /\ Unused(m, before[c])
    /\ m.stage = "failed" => m.data = None

DoneOf(c, k) == command[c].stage = "done" /\ command[c].cap = k

\* The id of a command that has not executed is not in use.
FreshIds ==
    \A i \in Commands : command[i].stage = "idle" =>
        /\ device["contacts"][i] = None /\ i \notin device["gallery"]
        /\ \A c \in Commands :
              /\ DoneOf(c, "contacts") => command[c].arg.id # i
              /\ DoneOf(c, "gallery") => command[c].arg # i

\* The notifications a command took away, while it is not undone.
Taken(c) ==
    IF DoneOf(c, "notifications") /\ command[c].action \in {"dismiss", "clear"}
    THEN command[c].data.pre_state ELSE {}

\* A notification is active or taken away by one command; the dismissed ones
\* are not what a clear would bring back.
OncePresent ==
    LET s == device["notifications"] IN
    /\ s.active \cap s.dismissed = {}
    /\ \A c \in Commands :
          /\ Taken(c) \cap s.active = {}
          /\ command[c].action = "clear" => Taken(c) \cap s.dismissed = {}
          /\ \A b \in Commands \ {c} : Taken(b) \cap Taken(c) = {}

AndroidInv ==
    /\ DOMAIN device = Units /\ DOMAIN command = Commands /\ DOMAIN before = Commands
    /\ \A u \in Units : UnitOK(u, device[u])
    /\ \A c \in Commands : CommandOK(c)
    /\ FreshIds /\ OncePresent

-----------------------------------------------------------------------------
(***************************************************************************)
(* The bridges and the rollbacks keep the state of their unit legal.       *)
(***************************************************************************)
\* A level stays an integer; clamped, or moved by a step that is not negative, it stays
\* in range.
LEMMA LevelsReached ==
    /\ MaxLevel \div 2 \in Int /\ Levels \subseteq Int /\ Steps \subseteq Int
    /\ \A n \in Int : Clamp(n) \in 0..MaxLevel /\ (n \in 0..MaxLevel => Clamp(n) = n)
    /\ \A n, x \in Int : /\ AtMostFull(n + x) \in Int /\ AtLeastZero(n - x) \in Int
                         /\ n \in 0..MaxLevel /\ x >= 0 => /\ AtMostFull(n + x) \in 0..MaxLevel
                                                          /\ AtLeastZero(n - x) \in 0..MaxLevel
  <1>1. MaxLevel \in Nat /\ MaxLevel # 0 /\ Levels \subseteq Int /\ Steps \subseteq Int
    BY ControlsAssumption
  <1> QED BY <1>1 DEF Clamp, AtMostFull, AtLeastZero

\* Setting a level, or moving it by a step.
LEMMA VolumeKeeps ==
    ASSUME NEW s \in [level : Int, muted : BOOLEAN], NEW a, NEW x,
           \/ a = "set" /\ x \in Int
           \/ a \in {"up", "down"} /\ x \in Int
           \/ a \in {"mute", "unmute"}
    PROVE  VolumeEffect(s, a, x) \in [level : Int, muted : BOOLEAN]
  <1>1. CASE a = "set"
    BY <1>1, LevelsReached DEF VolumeEffect
  <1>2. CASE a \in {"up", "down"}
    BY <1>2, LevelsReached DEF VolumeEffect
  <1>3. CASE a \in {"mute", "unmute"}
    BY <1>3 DEF VolumeEffect
  <1> QED BY <1>1, <1>2, <1>3

\* The same of the brightness.
LEMMA BrightnessKeeps ==
    ASSUME NEW s \in [level : Int, auto : BOOLEAN], NEW a, NEW x,
           \/ a = "set" /\ x \in Int
           \/ a \in {"increase", "decrease"} /\ x \in Int
           \/ a \in {"auto_on", "auto_off"}
    PROVE  BrightnessEffect(s, a, x) \in [level : Int, auto : BOOLEAN]
  <1>1. CASE a = "set"
    BY <1>1, LevelsReached DEF BrightnessEffect
  <1>2. CASE a \in {"increase", "decrease"}
    BY <1>2, LevelsReached DEF BrightnessEffect
  <1>3. CASE a \in {"auto_on", "auto_off"}
    BY <1>3 DEF BrightnessEffect
  <1> QED BY <1>1, <1>2, <1>3

\* A control keeps a legal setting when its bridge is called.
LEMMA ControlEffectOK ==
    ASSUME NEW k \in Controls, NEW s \in Setting(k), NEW a, NEW x,
           <<a, x>> \in ControlCalls(k), ControlAccepts(k, a, x)
    PROVE  ControlEffect(k, s, a, x) \in Setting(k)
  <1> USE DEF Setting, ControlCalls, ControlAccepts, ControlEffect
  <1>1. CASE k = "flashlight"
    BY <1>1 DEF FlashlightCalls, FlashlightEffect, Setting
  <1>2. CASE k = "volume"
    BY <1>2, VolumeKeeps, LevelsReached DEF VolumeCalls
  <1>3. CASE k = "brightness"
    BY <1>3, BrightnessKeeps, LevelsReached DEF BrightnessCalls
  <1>4. CASE k = "vibrate"
    BY <1>4 DEF VibrateEffect, Setting
  <1>5. CASE k = "dnd"
    BY <1>5 DEF DndAccepts, DndEffect, Setting
  <1>6. CASE k = "rotation"
    BY <1>6 DEF RotationCalls, RotationAccepts, RotationEffect, Setting
  <1>7. CASE k = "screen_timeout"
    BY <1>7 DEF TimeoutAccepts, TimeoutEffect, Setting
  <1> QED BY <1>1, <1>2, <1>3, <1>4, <1>5, <1>6, <1>7 DEF Controls

\* ... and when it is rolled back, with a pre_state or without.
LEMMA ControlUndoOK ==
    ASSUME NEW k \in Controls, NEW s \in Setting(k), NEW a, NEW x, <<a, x>> \in ControlCalls(k),
           NEW pre \in Setting(k) \cup {None}
    PROVE  ControlUndo(k, s, a, x, pre) \in Setting(k)
  <1> USE DEF Setting, ControlCalls, ControlUndo
  <1>1. CASE k = "flashlight"
    BY <1>1 DEF FlashlightCalls, FlashlightUndo, Setting
  <1>2. CASE k = "volume"
    BY <1>2, VolumeKeeps, LevelsReached DEF VolumeCalls, VolumeUndo
  <1>3. CASE k = "brightness"
    BY <1>3, BrightnessKeeps, LevelsReached DEF BrightnessCalls, BrightnessUndo
  <1>4. CASE k = "vibrate"
    BY <1>4 DEF VibrateUndo, Setting
  <1>5. CASE k = "dnd"
    BY <1>5 DEF DndUndo, Setting, DndModes
  <1>6. CASE k = "rotation"
    BY <1>6 DEF RotationCalls, RotationUndo, RotationEffect, Setting, Orientations
  <1>7. CASE k = "screen_timeout"
    BY <1>7 DEF TimeoutUndo, Setting
  <1> QED BY <1>1, <1>2, <1>3, <1>4, <1>5, <1>6, <1>7 DEF Controls

\* What the bridge of the radios does to a radio is a state of it.
LEMMA RadioEffectOK ==
    ASSUME NEW r \in Radios, NEW n \in NetworkState, NEW a, NEW x, <<a, x>> \in RadioCalls(r)
    PROVE  RadioEffect(n, r, a, x) \in NetworkState
  <1> USE DEF RadioCalls, RadioEffect, NetworkState, Wifi, OnOff, On, Off, WifiOff, Switch
  <1>1. CASE r = "wifi"
    BY <1>1 DEF WifiCalls, WifiEffect
  <1>2. CASE r = "bluetooth"
    BY <1>2 DEF BluetoothCalls, BluetoothEffect
  <1>3. CASE r = "mobile_data"
    BY <1>3 DEF MobileDataCalls, MobileDataEffect
  <1>4. CASE r = "hotspot"
    BY <1>4 DEF HotspotCalls, HotspotEffect
  <1>5. CASE r = "airplane_mode"
    BY <1>5 DEF AirplaneCalls, AirplaneEffect
  <1> QED BY <1>1, <1>2, <1>3, <1>4, <1>5 DEF Radios

\* Putting a snapshot of an earlier state back gives a state.
LEMMA RestoreOK ==
    ASSUME NEW n \in NetworkState, NEW b \in NetworkState, NEW radios \in SUBSET Radios
    PROVE  Restore(n, Snapshot(b, radios)) \in NetworkState
  <1>1. DOMAIN n = {"wifi", "bluetooth", "mobile_data", "hotspot", "airplane_mode", "paired"}
    BY DEF NetworkState
  <1> DEFINE m == Restore(n, Snapshot(b, radios))
  <1>2. DOMAIN m = DOMAIN n /\ \A f \in DOMAIN n : m[f] = IF f \in radios THEN b[f] ELSE n[f]
    BY DEF Restore, Snapshot
  <1>3. /\ m["wifi"] \in Wifi /\ m["bluetooth"] \in OnOff /\ m["mobile_data"] \in OnOff
        /\ m["hotspot"] \in OnOff /\ m["airplane_mode"] \in OnOff /\ m["paired"] \in SUBSET BtDevices
    <2> HIDE DEF m
    <2> QED BY <1>1, <1>2 DEF NetworkState, Radios
  <1>4. m = [wifi |-> m["wifi"], bluetooth |-> m["bluetooth"], mobile_data |-> m["mobile_data"],
             hotspot |-> m["hotspot"], airplane_mode |-> m["airplane_mode"], paired |-> m["paired"]]
    BY <1>1, <1>2 DEF Restore
  <1> QED BY <1>3, <1>4 DEF NetworkState

\* The radios keep legal states when a capability rolls back.
LEMMA RadioUndoOK ==
    ASSUME NEW r \in Radios, NEW n \in NetworkState, NEW a, NEW x, <<a, x>> \in RadioCalls(r),
           NEW pre, \/ pre = None
                    \/ \E b \in NetworkState : pre = Snapshot(b, Captured(r))
    PROVE  RadioUndo(n, r, a, pre) \in NetworkState
  <1>0. Captured(r) \in SUBSET Radios
    BY DEF Captured, Radios, WifiCapture, BluetoothCapture, MobileDataCapture, HotspotCapture, AirplaneCapture
  <1>1. CASE pre # None
    <2>1. Restore(n, pre) \in NetworkState
      BY <1>0, <1>1, RestoreOK
    <2> QED BY <1>1, <2>1 DEF RadioUndo, Radios, WifiUndo, BluetoothUndo, MobileDataUndo, HotspotUndo, AirplaneUndo
  <1>2. CASE pre = None
    <2> USE <1>2 DEF RadioCalls, RadioUndo, NetworkState, Wifi, OnOff, On, Off, WifiOff, Switch, Opposite
    <2>1. CASE r = "wifi"
      BY <2>1 DEF WifiCalls, WifiUndo, WifiEffect
    <2>2. CASE r = "bluetooth"
      BY <2>2 DEF BluetoothCalls, BluetoothUndo, BluetoothEffect
    <2>3. CASE r = "mobile_data"
      BY <2>3 DEF MobileDataCalls, MobileDataUndo, MobileDataEffect
    <2>4. CASE r = "hotspot"
      BY <2>4 DEF HotspotCalls, HotspotUndo, HotspotEffect
    <2>5. CASE r = "airplane_mode"
      <3>1. a \in {"enable", "disable"}
        BY <2>5 DEF AirplaneCalls
      <3>2. RadioUndo(n, r, a, pre) =
              IF a = "disable" THEN AirplaneEffect(n, "enable") ELSE AirplaneEffect(n, "disable")
        BY <2>5, <3>1 DEF AirplaneUndo
      <3>3. AirplaneEffect(n, "enable") \in NetworkState /\ AirplaneEffect(n, "disable") \in NetworkState
        BY DEF AirplaneEffect
      <3> QED BY <3>2, <3>3
    <2> QED BY <2>1, <2>2, <2>3, <2>4, <2>5 DEF Radios
  <1> QED BY <1>1, <1>2

\* The names of the units and the capabilities.
LEMMA UnitNames ==
    ASSUME NEW k \in Capabilities
    PROVE  /\ UnitOf(k) \in Units
           /\ k \in Controls \/ k \in Radios \/ k \in Stores
           /\ k \in Controls => k \notin Radios /\ k \notin Stores /\ UnitOf(k) = k
           /\ k \in Radios => k \notin Stores /\ UnitOf(k) = "network"
           /\ k \in Stores => UnitOf(k) = k /\ k # "network"
           /\ k = "network" => FALSE
  BY DEF Capabilities, Units, UnitOf, Controls, Radios, Stores

\* What the dispatch over the capabilities comes to, for each of them.
LEMMA StoreCalls ==
    ASSUME NEW c, NEW a, NEW x, NEW k \in Stores, <<a, x>> \in Calls(k, c)
    PROVE  /\ k = "sms" => (a = "send" /\ x \in Numbers) \/ (a = "delete" /\ x \in Messages)
           /\ k = "contacts" =>
                 \/ a = "create" /\ x \in [id : {c}, value : Values]
                 \/ a = "update" /\ x \in [id : ContactIds, value : Values]
                 \/ a = "delete" /\ x \in [id : ContactIds, value : {None}]
           /\ k = "notifications" =>
                 \/ a \in {"dismiss", "reply"} /\ x \in Notifications
                 \/ a = "clear" /\ x = None
           /\ k = "files" =>
                 \/ a \in {"create", "write"} /\ x \in Paths \X Contents
                 \/ a \in {"rename", "move"} /\ x \in Paths \X Paths
                 \/ a = "delete" /\ x \in Paths \X {None}
           /\ k = "downloads" =>
                 (a = "start" /\ x = c) \/ (a \in {"pause", "resume", "cancel", "delete"} /\ x \in Commands)
           /\ k = "gallery" => (a = "add" /\ x = c) \/ (a = "delete" /\ x \in Commands)
  <1> USE DEF Calls, Stores, Controls, Radios
  <1>1. CASE k = "sms"
    BY <1>1 DEF SmsCalls
  <1>2. CASE k = "contacts"
    BY <1>2 DEF ContactsCalls
  <1>3. CASE k = "notifications"
    BY <1>3 DEF NotificationCalls, ReplyCalls
  <1>4. CASE k = "files"
    BY <1>4 DEF FilesCalls
  <1>5. CASE k = "downloads"
    BY <1>5 DEF DownloadsCalls
  <1>6. CASE k = "gallery"
    BY <1>6 DEF GalleryCalls
  <1>7. CASE k \in {"phone", "device"}
    BY <1>7
  <1> QED BY <1>1, <1>2, <1>3, <1>4, <1>5, <1>6, <1>7

\* A call that is not refused leaves its unit in a legal state.
LEMMA EffectOK ==
    ASSUME NEW c \in Commands, NEW k \in Capabilities, NEW a, NEW x, <<a, x>> \in Calls(k, c),
           NEW s, UnitOK(UnitOf(k), s), ~Refuses(k, s, a, x)
    PROVE  UnitOK(UnitOf(k), Effect(k, s, a, x, c))
  <1>1. CASE k \in Controls
    <2>1. s \in Setting(k) /\ <<a, x>> \in ControlCalls(k) /\ ControlAccepts(k, a, x)
      BY <1>1 DEF UnitOK, UnitOf, Calls, Refuses, Controls, Radios
    <2>2. Effect(k, s, a, x, c) \in Setting(k)
      <3>1. Effect(k, s, a, x, c) = ControlEffect(k, s, a, x)
        BY <1>1 DEF Effect, Controls, Radios
      <3> QED BY <1>1, <2>1, <3>1, ControlEffectOK
    <2> QED BY <1>1, <2>2, UnitNames DEF UnitOK, Controls
  <1>2. CASE k \in Radios
    <2>1. s \in NetworkState /\ <<a, x>> \in RadioCalls(k)
      BY <1>2 DEF UnitOK, UnitOf, Calls, Controls, Radios
    <2>2. Effect(k, s, a, x, c) \in NetworkState
      BY <1>2, <2>1, RadioEffectOK DEF Effect, Controls, Radios
    <2> QED BY <1>2, <2>2, UnitNames DEF UnitOK, Controls
  <1>3. CASE k \in Stores
    <2> USE DEF Effect, Refuses, UnitOf, Controls, Radios, Stores
    <2> DEFINE t == Effect(k, s, a, x, c)
    <2>1. CASE k = "sms"
      <3>1. t = SmsEffect(s, a, x) /\ ~SmsRefuses(s, a, x)
        BY <2>1
      <3>2. s \in SmsState /\ s.inbox \cup s.deleted = Messages /\ s.inbox \cap s.deleted = {}
        BY <2>1 DEF UnitOK
      <3>3. /\ t \in SmsState /\ t.inbox \cup t.deleted = Messages /\ t.inbox \cap t.deleted = {}
        BY <2>1, <3>1, <3>2, StoreCalls DEF SmsEffect, SmsRefuses, SmsState
      <3> QED BY <2>1, <3>3 DEF UnitOK
    <2>2. CASE k = "contacts"
      <3>1. t = ContactsEffect(s, a, x) /\ s \in ContactsState
        BY <2>2 DEF UnitOK
      <3>2. x.id \in ContactIds /\ x.value \in Values \cup {None}
        BY <2>2, StoreCalls DEF ContactIds
      <3>3. t \in ContactsState
        BY <3>1, <3>2 DEF ContactsEffect, ContactsState
      <3> QED BY <2>2, <3>3 DEF UnitOK
    <2>3. CASE k = "notifications"
      <3>1. t = NotificationEffect(s, a, x) /\ s \in NotificationState
        BY <2>3 DEF UnitOK
      <3>2. t \in NotificationState
        BY <2>3, <3>1, StoreCalls DEF NotificationEffect, NotificationState
      <3> QED BY <2>3, <3>2 DEF UnitOK
    <2>4. CASE k = "files"
      <3>1. t = FilesEffect(s, a, x) /\ s \in FilesState
        BY <2>4 DEF UnitOK
      <3>2. t \in FilesState
        BY <2>4, <3>1, StoreCalls DEF FilesEffect, FilesState, Moved
      <3> QED BY <2>4, <3>2 DEF UnitOK
    <2>5. CASE k = "downloads"
      <3>1. t = DownloadsEffect(s, a, x) /\ s \in DownloadsState
        BY <2>5 DEF UnitOK
      <3>2. t \in DownloadsState
        BY <2>5, <3>1, StoreCalls DEF DownloadsEffect, DownloadsState, DownloadStatus
      <3> QED BY <2>5, <3>2 DEF UnitOK
    <2>6. CASE k = "gallery"
      <3>1. t = GalleryEffect(s, a, x) /\ s \subseteq Commands
        BY <2>6 DEF UnitOK
      <3>2. t \subseteq Commands
        BY <2>6, <3>1, StoreCalls DEF GalleryEffect
      <3> QED BY <2>6, <3>2 DEF UnitOK
    <2>7. CASE k \in {"phone", "device"}
      BY <2>7 DEF UnitOK
    <2> QED BY <1>3, <2>1, <2>2, <2>3, <2>4, <2>5, <2>6, <2>7
  <1> QED BY <1>1, <1>2, <1>3, UnitNames

\* The data of a result, for each capability.
LEMMA DataOf ==
    ASSUME NEW k \in Capabilities, NEW s, NEW a, NEW x
    PROVE  /\ k \in Controls => Data(k, s, a, x) = IF CapturesPreState(k) THEN s ELSE None
           /\ k \in Radios => Data(k, s, a, x) = Snapshot(s, Captured(k))
           /\ k = "sms" => Data(k, s, a, x) = [message |-> x]
           /\ k = "contacts" => Data(k, s, a, x) = [id |-> x.id, pre_state |-> s[x.id]]
           /\ k = "notifications" =>
                 Data(k, s, a, x) = [pre_state |-> IF a = "clear" THEN s.active ELSE {x}]
           /\ k = "files" => Data(k, s, a, x) = [path |-> x[1], to |-> x[2], pre_state |-> s[x[1]]]
           /\ k = "downloads" => Data(k, s, a, x) = [id |-> x, pre_state |-> s[x]]
           /\ k = "gallery" => Data(k, s, a, x) = [id |-> x]
  <1>1. CASE k \in Controls
    BY <1>1 DEF Data, Controls, Radios, CapturesPreState
  <1>2. CASE k \in Radios
    BY <1>2 DEF Data, Controls, Radios
  <1>3. CASE k \in Stores
    BY <1>3 DEF Data, Stores, Controls, Radios, SmsData, ContactsData, NotificationData, FilesData,
                DownloadsData, GalleryData
  <1> QED BY <1>1, <1>2, <1>3, UnitNames DEF Stores, Controls, Radios

\* A rollback, given the data of its command or nothing, leaves a legal state.
LEMMA UndoOK ==
    ASSUME NEW c \in Commands, NEW k \in Capabilities, NEW a, NEW x, <<a, x>> \in Calls(k, c),
           NEW s, UnitOK(UnitOf(k), s), NEW b, NEW given,
           \/ given = None
           \/ /\ UnitOK(UnitOf(k), b) /\ ~Refuses(k, b, a, x)
              /\ given = Data(k, b, a, x),
           Reversible(k, a), ~UndoRaises(k, s, a, given)
    PROVE  UnitOK(UnitOf(k), Undo(k, s, a, x, given))
  <1>1. CASE k \in Controls
    <2>1. s \in Setting(k) /\ <<a, x>> \in ControlCalls(k)
      BY <1>1 DEF UnitOK, UnitOf, Calls, Controls, Radios
    <2>2. given \in Setting(k) \cup {None}
      <3>1. CASE given = None
        BY <3>1
      <3>2. CASE given # None
        <4>1. b \in Setting(k)
          BY <1>1, <3>2 DEF UnitOK, UnitOf, Controls, Radios
        <4>2. given = b \/ given = None
          BY <1>1, <3>2, DataOf
        <4> QED BY <4>1, <4>2
      <3> QED BY <3>1, <3>2
    <2>3. Undo(k, s, a, x, given) = ControlUndo(k, s, a, x, given)
      BY <1>1 DEF Undo, Controls, Radios
    <2>4. Undo(k, s, a, x, given) \in Setting(k)
      BY <1>1, <2>1, <2>2, <2>3, ControlUndoOK
    <2> QED BY <1>1, <2>4, UnitNames DEF UnitOK, Controls
  <1>2. CASE k \in Radios
    <2>1. s \in NetworkState /\ <<a, x>> \in RadioCalls(k)
      BY <1>2 DEF UnitOK, UnitOf, Calls, Controls, Radios
    <2>2. given = None \/ \E n \in NetworkState : given = Snapshot(n, Captured(k))
      BY <1>2, DataOf, UnitNames DEF UnitOK
    <2>3. Undo(k, s, a, x, given) = RadioUndo(s, k, a, given)
      BY <1>2 DEF Undo, Controls, Radios
    <2>4. Undo(k, s, a, x, given) \in NetworkState
      BY <1>2, <2>1, <2>2, <2>3, RadioUndoOK
    <2> QED BY <1>2, <2>4, UnitNames DEF UnitOK, Controls
  <1>3. CASE k \in Stores
    <2> USE DEF Undo, Refuses, UnitOf, Controls, Radios, Stores
    <2> DEFINE t == Undo(k, s, a, x, given)
    <2>1. CASE k = "sms"
      <3>1. t = SmsUndo(s, a, x, given) /\ (given = None \/ given = [message |-> x])
        BY <2>1, DataOf
      <3>2. s \in SmsState /\ s.inbox \cup s.deleted = Messages /\ s.inbox \cap s.deleted = {}
        BY <2>1 DEF UnitOK
      <3>3. /\ t \in SmsState /\ t.inbox \cup t.deleted = Messages /\ t.inbox \cap t.deleted = {}
        BY <2>1, <3>1, <3>2, StoreCalls DEF SmsUndo, SmsState
      <3> QED BY <2>1, <3>3 DEF UnitOK
    <2>2. CASE k = "contacts"
      <3>1. t = ContactsUndo(s, a, x, given) /\ s \in ContactsState
        BY <2>2 DEF UnitOK
      <3>2. x.id \in ContactIds
        BY <2>2, StoreCalls DEF ContactIds
      <3>3. given = None \/ (given = [id |-> x.id, pre_state |-> b[x.id]] /\ b[x.id] \in Values \cup {None})
        BY <2>2, <3>2, DataOf DEF UnitOK, ContactsState
      <3>4. t \in ContactsState
        <4> HIDE DEF t, Undo, Refuses
        <4>1. CASE given = None
          BY <3>1, <4>1 DEF ContactsUndo
        <4>2. CASE given # None
          <5>1. t = IF a = "create" THEN [s EXCEPT ![x.id] = None] ELSE [s EXCEPT ![x.id] = b[x.id]]
            <6>1. given.id = x.id /\ given.pre_state = b[x.id]
              BY <3>3, <4>2
            <6>2. t = ContactsUndo(s, a, x, given)
              BY <3>1
            <6> QED BY <4>2, <6>1, <6>2 DEF ContactsUndo
          <5> QED BY <3>1, <3>2, <3>3, <4>2, <5>1 DEF ContactsState
        <4> QED BY <4>1, <4>2
      <3> QED BY <2>2, <3>4 DEF UnitOK
    <2>3. CASE k = "notifications"
      <3>1. t = NotificationUndo(s, a, x, given) /\ s \in NotificationState
        BY <2>3 DEF UnitOK
      <3>2. given = None \/ given.pre_state \subseteq Notifications
        BY <2>3, StoreCalls, DataOf DEF UnitOK, NotificationState, Reversible, NotificationReversible
      <3>3. t \in NotificationState
        <4> HIDE DEF t, Undo, Refuses
        <4>1. CASE t = s
          BY <3>1, <4>1
        <4>2. CASE t # s
          <5>1. \/ t = [active |-> s.active \cup given.pre_state, dismissed |-> s.dismissed \ given.pre_state]
                \/ t = [s EXCEPT !.active = given.pre_state]
            BY <3>1, <4>2 DEF NotificationUndo
          <5>2. given # None
            BY <3>1, <4>2 DEF NotificationUndo
          <5> QED BY <3>1, <3>2, <5>1, <5>2 DEF NotificationState
        <4> QED BY <4>1, <4>2
      <3> QED BY <2>3, <3>3 DEF UnitOK
    <2>4. CASE k = "files"
      <3>1. t = FilesUndo(s, a, given) /\ s \in FilesState
        BY <2>4 DEF UnitOK
      <3>2. given = None \/ (given = [path |-> x[1], to |-> x[2], pre_state |-> b[x[1]]] /\ b \in FilesState)
        BY <2>4, DataOf DEF UnitOK
      <3>3. t \in FilesState
        BY <2>4, <3>1, <3>2, StoreCalls DEF FilesUndo, FilesState, Moved
      <3> QED BY <2>4, <3>3 DEF UnitOK
    <2>5. CASE k = "downloads"
      <3>1. t = DownloadsUndo(s, a, given) /\ s \in DownloadsState
        BY <2>5 DEF UnitOK
      <3>2. given = None \/ (given = [id |-> x, pre_state |-> b[x]] /\ b \in DownloadsState)
        BY <2>5, DataOf DEF UnitOK
      <3>3. t \in DownloadsState
        BY <2>5, <3>1, <3>2, StoreCalls DEF DownloadsUndo, DownloadsState
      <3> QED BY <2>5, <3>3 DEF UnitOK
    <2>6. CASE k = "gallery"
      <3>1. t = GalleryUndo(s, a, given) /\ s \subseteq Commands
        BY <2>6 DEF UnitOK
      <3>2. given = None \/ given = [id |-> x]
        BY <2>6, DataOf
      <3>3. t \subseteq Commands
        BY <2>6, <3>1, <3>2, StoreCalls DEF GalleryUndo
      <3> QED BY <2>6, <3>3 DEF UnitOK
    <2>7. CASE k \in {"phone", "device"}
      BY <2>7 DEF UnitOK
    <2> QED BY <1>3, <2>1, <2>2, <2>3, <2>4, <2>5, <2>6, <2>7
  <1> QED BY <1>1, <1>2, <1>3, UnitNames

-----------------------------------------------------------------------------
(***************************************************************************)
(* The steps keep the invariant.                                           *)
(***************************************************************************)
\* A call is an action with its argument.
LEMMA CallIsPair ==
    ASSUME NEW c, NEW k \in Capabilities, NEW call \in Calls(k, c)
    PROVE  <<call[1], call[2]>> \in Calls(k, c)
  <1>1. CASE k \in Controls
    <2>1. Calls(k, c) = ControlCalls(k)
      BY <1>1 DEF Calls, Controls, Radios
    <2> QED BY <1>1, <2>1 DEF ControlCalls, Controls, FlashlightCalls, VolumeCalls, BrightnessCalls,
                VibrateCalls, DndCalls, RotationCalls, TimeoutCalls
  <1>2. CASE k \in Radios
    <2>1. Calls(k, c) = RadioCalls(k)
      BY <1>2 DEF Calls, Controls, Radios
    <2> QED BY <1>2, <2>1 DEF RadioCalls, Radios, WifiCalls, BluetoothCalls, MobileDataCalls,
                HotspotCalls, AirplaneCalls, Switch
  <1>3. CASE k \in Stores
    BY <1>3 DEF Calls, Stores, Controls, Radios, SmsCalls, ContactsCalls, NotificationCalls, ReplyCalls,
                PhoneCalls, FilesCalls, DownloadsCalls, GalleryCalls
  <1> QED BY <1>1, <1>2, <1>3, UnitNames

\* What the dispatch comes to for the stores that identify their entries.
LEMMA StoreEffects ==
    ASSUME NEW c, NEW s, NEW a, NEW x, NEW given
    PROVE  /\ Effect("contacts", s, a, x, c) = ContactsEffect(s, a, x)
           /\ Effect("gallery", s, a, x, c) = GalleryEffect(s, a, x)
           /\ Effect("notifications", s, a, x, c) = NotificationEffect(s, a, x)
           /\ Refuses("contacts", s, a, x) = ContactsRefuses(s, a, x)
           /\ Refuses("gallery", s, a, x) = GalleryRefuses(s, a, x)
           /\ Refuses("notifications", s, a, x) = NotificationRefuses(s, a, x)
           /\ Undo("contacts", s, a, x, given) = ContactsUndo(s, a, x, given)
           /\ Undo("gallery", s, a, x, given) = GalleryUndo(s, a, given)
           /\ Undo("notifications", s, a, x, given) = NotificationUndo(s, a, x, given)
  BY DEF Effect, Refuses, Undo, Controls, Radios

\* Only the unit of a capability changes, and the units have different names.
LEMMA OtherUnits ==
    ASSUME NEW k \in Capabilities
    PROVE  /\ "contacts" \in Units /\ "gallery" \in Units /\ "notifications" \in Units
           /\ \A u \in {"contacts", "gallery", "notifications"} :
                 (UnitOf(k) = u <=> k = u) /\ u \in Capabilities
  BY DEF Units, UnitOf, Capabilities, Controls, Radios, Stores

\* A command executes.
LEMMA ExecuteSucceedsStep ==
    ASSUME AndroidInv, NEW c \in Commands, NEW k \in Capabilities, NEW a, NEW x, <<a, x>> \in Calls(k, c),
           ExecuteSucceeds(c, k, a, x)
    PROVE  AndroidInv'
  <1> DEFINE u == UnitOf(k)
             s == device[u]
             t == Effect(k, s, a, x, c)
             d == Data(k, s, a, x)
  <1>1. /\ DOMAIN device = Units /\ DOMAIN command = Commands /\ DOMAIN before = Commands
        /\ \A w \in Units : UnitOK(w, device[w])
        /\ \A b \in Commands : CommandOK(b)
        /\ FreshIds /\ OncePresent /\ u \in Units
    BY UnitNames DEF AndroidInv
  <1>2. /\ DOMAIN device' = Units /\ DOMAIN command' = Commands /\ DOMAIN before' = Commands
        /\ device'[u] = t /\ \A w \in Units \ {u} : device'[w] = device[w]
        /\ command'[c] = [stage |-> "done", cap |-> k, action |-> a, arg |-> x, data |-> d]
        /\ \A b \in Commands \ {c} : command'[b] = command[b] /\ before'[b] = before[b]
        /\ before'[c] = s
        /\ command[c].stage = "idle" /\ ~Refuses(k, s, a, x)
    <2> HIDE DEF u
    <2> QED BY <1>1 DEF ExecuteSucceeds, Setup, u
  <1> HIDE DEF u, s, t, d
  <1>3. UnitOK(u, s) /\ UnitOK(u, t)
    BY <1>1, <1>2, EffectOK DEF u, s, t
  <1>4. \A w \in Units : UnitOK(w, device'[w])
    BY <1>1, <1>2, <1>3
  <1>5. ASSUME NEW b \in Commands PROVE CommandOK(b)'
    <2>1. CASE b = c
      <3>1. k = "contacts" /\ a = "create" => s[x.id] = None
        <4> SUFFICES ASSUME k = "contacts", a = "create" PROVE s[x.id] = None
          OBVIOUS
        <4>1. x.id = c /\ s = device["contacts"]
          BY StoreCalls, OtherUnits DEF Stores, s, u
        <4> QED BY <1>1, <1>2, <4>1 DEF FreshIds
      <3>2. k = "gallery" /\ a = "add" => x \notin s
        <4> SUFFICES ASSUME k = "gallery", a = "add" PROVE x \notin s
          OBVIOUS
        <4>1. x = c /\ s = device["gallery"]
          BY StoreCalls, OtherUnits DEF Stores, s, u
        <4> QED BY <1>1, <1>2, <4>1 DEF FreshIds
      <3>3. k = "notifications" /\ a = "dismiss" => x \notin s.dismissed
        <4> SUFFICES ASSUME k = "notifications", a = "dismiss" PROVE x \notin s.dismissed
          OBVIOUS
        <4>1. s = device["notifications"] /\ x \in s.active
          BY <1>2, StoreEffects, OtherUnits DEF NotificationRefuses, s, u
        <4> QED BY <1>1, <4>1 DEF OncePresent
      <3>4. Unused(command'[c], before'[c])
        BY <1>2, <3>1, <3>2, <3>3 DEF Unused
      <3> QED BY <1>2, <1>3, <2>1, <3>4 DEF CommandOK, Stages, u, s, d
    <2>2. CASE b # c
      <3>1. CommandOK(b) /\ command'[b] = command[b] /\ before'[b] = before[b]
        BY <1>1, <1>2, <2>2
      <3> QED BY <3>1 DEF CommandOK
    <2> QED BY <2>1, <2>2
  <1>6. FreshIds'
    <2> SUFFICES ASSUME NEW i \in Commands, command'[i].stage = "idle"
                 PROVE  /\ device'["contacts"][i] = None /\ i \notin device'["gallery"]
                        /\ \A b \in Commands :
                              /\ DoneOf(b, "contacts")' => command'[b].arg.id # i
                              /\ DoneOf(b, "gallery")' => command'[b].arg # i
      BY DEF FreshIds
    <2>1. i # c /\ command[i].stage = "idle"
      BY <1>2
    <2>2. /\ device["contacts"][i] = None /\ i \notin device["gallery"]
          /\ \A b \in Commands :
                /\ DoneOf(b, "contacts") => command[b].arg.id # i
                /\ DoneOf(b, "gallery") => command[b].arg # i
      BY <1>1, <2>1 DEF FreshIds
    <2>3. k = "contacts" => x.id # i
      <3> SUFFICES ASSUME k = "contacts" PROVE x.id # i
        OBVIOUS
      <3>1. ~ContactsRefuses(device["contacts"], a, x)
        BY <1>2, StoreEffects, OtherUnits DEF s, u
      <3>2. (a = "create" /\ x.id = c) \/ a \in {"update", "delete"}
        BY StoreCalls DEF Stores
      <3> QED BY <2>1, <2>2, <3>1, <3>2 DEF ContactsRefuses
    <2>4. k = "gallery" => x # i
      <3> SUFFICES ASSUME k = "gallery" PROVE x # i
        OBVIOUS
      <3>1. ~GalleryRefuses(device["gallery"], a, x)
        BY <1>2, StoreEffects, OtherUnits DEF s, u
      <3>2. (a = "add" /\ x = c) \/ a = "delete"
        BY StoreCalls DEF Stores
      <3> QED BY <2>1, <2>2, <3>1, <3>2 DEF GalleryRefuses
    <2>5. device'["contacts"][i] = None
      <3>1. CASE k = "contacts"
        <4>1. u = "contacts" /\ s = device["contacts"] /\ device'["contacts"] = ContactsEffect(s, a, x)
          BY <1>2, <3>1, StoreEffects, OtherUnits DEF s, u, t
        <4>2. s \in ContactsState
          BY <1>3, <4>1 DEF UnitOK
        <4> QED BY <2>2, <2>3, <3>1, <4>1, <4>2 DEF ContactsEffect, ContactsState, ContactIds
      <3>2. CASE k # "contacts"
        BY <1>2, <2>2, <3>2, OtherUnits DEF u
      <3> QED BY <3>1, <3>2
    <2>6. i \notin device'["gallery"]
      <3>1. CASE k = "gallery"
        <4>1. s = device["gallery"] /\ device'["gallery"] = GalleryEffect(s, a, x)
          BY <1>2, <3>1, StoreEffects, OtherUnits DEF s, u, t
        <4> QED BY <2>2, <2>4, <3>1, <4>1 DEF GalleryEffect
      <3>2. CASE k # "gallery"
        BY <1>2, <2>2, <3>2, OtherUnits DEF u
      <3> QED BY <3>1, <3>2
    <2>7. ASSUME NEW b \in Commands
          PROVE  /\ DoneOf(b, "contacts")' => command'[b].arg.id # i
                 /\ DoneOf(b, "gallery")' => command'[b].arg # i
      <3>1. CASE b = c
        BY <1>2, <2>3, <2>4, <3>1 DEF DoneOf
      <3>2. CASE b # c
        BY <1>2, <2>2, <3>2 DEF DoneOf
      <3> QED BY <3>1, <3>2
    <2> QED BY <2>5, <2>6, <2>7
  <1>7. OncePresent'
    <2> DEFINE p == device["notifications"]
               q == device'["notifications"]
    <2>1. Taken(c) = {} /\ \A b \in Commands \ {c} : Taken(b)' = Taken(b) /\ command'[b].action = command[b].action
      BY <1>2 DEF Taken, DoneOf
    <2>2. /\ p.active \cap p.dismissed = {}
          /\ \A b \in Commands :
                /\ Taken(b) \cap p.active = {}
                /\ command[b].action = "clear" => Taken(b) \cap p.dismissed = {}
                /\ \A e \in Commands \ {b} : Taken(e) \cap Taken(b) = {}
      BY <1>1 DEF OncePresent
    <2>3. p \in NotificationState
      BY <1>1, OtherUnits DEF UnitOK
    <2> SUFFICES /\ q.active \cap q.dismissed = {}
                 /\ \A b \in Commands :
                       /\ Taken(b)' \cap q.active = {}
                       /\ command'[b].action = "clear" => Taken(b)' \cap q.dismissed = {}
                       /\ \A e \in Commands \ {b} : Taken(e)' \cap Taken(b)' = {}
      BY DEF OncePresent
    <2> HIDE DEF p, q
    <2>4. CASE k = "notifications" /\ a \in {"dismiss", "clear"}
      <3>1. /\ s = p /\ q = NotificationEffect(p, a, x) /\ ~NotificationRefuses(p, a, x)
        BY <1>2, <2>4, StoreEffects, OtherUnits DEF s, u, t, p, q
      <3>2. Taken(c)' = (IF a = "clear" THEN p.active ELSE {x}) /\ command'[c].action = a
        <4>1. d = [pre_state |-> IF a = "clear" THEN p.active ELSE {x}]
          BY <2>4, <3>1, DataOf DEF d
        <4>2. Taken(c)' = d.pre_state /\ command'[c].action = a
          BY <1>2, <2>4 DEF Taken, DoneOf
        <4> QED BY <4>1, <4>2
      <3>3. Taken(c)' \subseteq p.active /\ q.active = p.active \ Taken(c)'
            /\ q.dismissed = IF a = "clear" THEN p.dismissed ELSE p.dismissed \cup Taken(c)'
        BY <2>3, <2>4, <3>1, <3>2 DEF NotificationEffect, NotificationRefuses, NotificationState
      <3> QED BY <2>1, <2>2, <2>4, <3>2, <3>3
    <2>5. CASE ~(k = "notifications" /\ a \in {"dismiss", "clear"})
      <3>1. Taken(c)' = {}
        BY <1>2, <2>5 DEF Taken, DoneOf
      <3>2. q = p
        <4>1. CASE k = "notifications"
          <5>1. q = NotificationEffect(p, a, x)
            BY <1>2, <4>1, StoreEffects, OtherUnits DEF s, u, t, p, q
          <5> QED BY <2>5, <4>1, <5>1 DEF NotificationEffect
        <4>2. CASE k # "notifications"
          BY <1>2, <4>2, OtherUnits DEF u, p, q
        <4> QED BY <4>1, <4>2
      <3> QED BY <2>1, <2>2, <3>1, <3>2
    <2> QED BY <2>4, <2>5
  <1> QED BY <1>2, <1>4, <1>5, <1>6, <1>7 DEF AndroidInv

\* A command is refused.
LEMMA ExecuteFailsStep ==
    ASSUME AndroidInv, NEW c \in Commands, NEW k \in Capabilities, NEW a, NEW x, <<a, x>> \in Calls(k, c),
           ExecuteFails(c, k, a, x)
    PROVE  AndroidInv'
  <1>1. /\ DOMAIN device = Units /\ DOMAIN command = Commands /\ DOMAIN before = Commands
        /\ \A w \in Units : UnitOK(w, device[w])
        /\ \A b \in Commands : CommandOK(b)
        /\ FreshIds /\ OncePresent
    BY DEF AndroidInv
  <1>2. /\ device' = device /\ before' = before /\ DOMAIN command' = Commands
        /\ command'[c] = [stage |-> "failed", cap |-> k, action |-> a, arg |-> x, data |-> None]
        /\ \A b \in Commands \ {c} : command'[b] = command[b]
        /\ command[c].stage = "idle"
    BY <1>1 DEF ExecuteFails, Setup
  <1>3. ASSUME NEW b \in Commands PROVE CommandOK(b)'
    <2>1. CASE b = c
      BY <1>2, <2>1 DEF CommandOK, Stages
    <2>2. CASE b # c
      <3>1. CommandOK(b) /\ command'[b] = command[b] /\ before'[b] = before[b]
        BY <1>1, <1>2, <2>2
      <3> QED BY <3>1 DEF CommandOK
    <2> QED BY <2>1, <2>2
  <1>4. \A b \in Commands : /\ command'[b].stage = "idle" => command[b].stage = "idle"
                            /\ \A n : DoneOf(b, n)' => DoneOf(b, n) /\ command'[b] = command[b]
    BY <1>2 DEF DoneOf
  <1>5. FreshIds'
    BY <1>1, <1>2, <1>4 DEF FreshIds
  <1>6. \A b \in Commands : Taken(b)' \subseteq Taken(b) /\ (Taken(b)' # {} => command'[b] = command[b])
    BY <1>4 DEF Taken
  <1>7. OncePresent'
    BY <1>1, <1>2, <1>6 DEF OncePresent
  <1>8. \A w \in Units : UnitOK(w, device'[w])
    BY <1>1, <1>2
  <1> QED BY <1>1, <1>2, <1>3, <1>5, <1>7, <1>8 DEF AndroidInv

\* A command is rolled back.
LEMMA RollbackStep ==
    ASSUME AndroidInv, NEW c \in Commands, NEW given \in {None, command[c].data},
           NEW stage \in {"undone", "undone_blind"}, Rollback(c, given, stage)
    PROVE  AndroidInv'
  <1> DEFINE m == command[c]
             k == command[c].cap
             a == command[c].action
             x == command[c].arg
             u == UnitOf(k)
             s == device[u]
  <1>1. /\ DOMAIN device = Units /\ DOMAIN command = Commands /\ DOMAIN before = Commands
        /\ \A w \in Units : UnitOK(w, device[w])
        /\ \A b \in Commands : CommandOK(b)
        /\ FreshIds /\ OncePresent
    BY DEF AndroidInv
  <1>2. /\ m.stage \in {"done", "failed"} /\ Reversible(k, a)
        /\ k \in Capabilities /\ <<a, x>> \in Calls(k, c)
        /\ m = [stage |-> m.stage, cap |-> k, action |-> a, arg |-> x, data |-> m.data]
    BY <1>1 DEF CommandOK, Rollback
  <1>3. given # None => /\ m.stage = "done" /\ given = m.data
                        /\ UnitOK(u, before[c]) /\ ~Refuses(k, before[c], a, x)
                        /\ given = Data(k, before[c], a, x)
    BY <1>1, <1>2 DEF CommandOK
  <1>4. /\ before' = before /\ DOMAIN command' = Commands
        /\ command'[c] = [m EXCEPT !.stage = command'[c].stage]
        /\ command'[c].stage \in {"undone", "undone_blind", "undo_raised"}
        /\ \A b \in Commands \ {c} : command'[b] = command[b]
        /\ \/ device' = device
           \/ /\ ~UndoRaises(k, s, a, given)
              /\ device' = [device EXCEPT ![u] = Undo(k, s, a, x, given)]
    <2>1. PICK st \in {"undone", "undone_blind", "undo_raised"} : command' = [command EXCEPT ![c].stage = st]
      BY DEF Rollback
    <2>2. command'[c] = [m EXCEPT !.stage = st] /\ command'[c].stage = st
      BY <1>1, <1>2, <2>1
    <2>3. \/ device' = device
          \/ /\ ~UndoRaises(k, s, a, given)
             /\ device' = [device EXCEPT ![u] = Undo(k, s, a, x, given)]
      BY DEF Rollback
    <2> QED BY <1>1, <2>1, <2>2, <2>3 DEF Rollback
  <1>5. u \in Units /\ u = UnitOf(k) /\ UnitOK(u, s)
    BY <1>1, <1>2, UnitNames
  <1> HIDE DEF m, k, a, x, u, s
  <1>6. /\ DOMAIN device' = Units /\ \A w \in Units \ {u} : device'[w] = device[w]
        /\ device'[u] = s \/ (device'[u] = Undo(k, s, a, x, given) /\ ~UndoRaises(k, s, a, given))
    BY <1>1, <1>4, <1>5 DEF s
  <1>7. \A w \in Units : UnitOK(w, device'[w])
    <2>1. ~UndoRaises(k, s, a, given) => UnitOK(u, Undo(k, s, a, x, given))
      BY <1>2, <1>3, <1>5, UndoOK
    <2> QED BY <1>1, <1>5, <1>6, <2>1
  <1>8. ASSUME NEW b \in Commands PROVE CommandOK(b)'
    <2>1. CASE b = c
      BY <1>2, <1>4, <2>1 DEF CommandOK, Stages
    <2>2. CASE b # c
      <3>1. CommandOK(b) /\ command'[b] = command[b] /\ before'[b] = before[b]
        BY <1>1, <1>4, <2>2
      <3> QED BY <3>1 DEF CommandOK
    <2> QED BY <2>1, <2>2
  <1>9. \A b \in Commands : /\ command'[b].stage = "idle" => command[b].stage = "idle"
                            /\ \A n : DoneOf(b, n)' => b # c /\ DoneOf(b, n) /\ command'[b] = command[b]
    BY <1>4 DEF DoneOf
  <1>10. FreshIds'
    <2> SUFFICES ASSUME NEW i \in Commands, command[i].stage = "idle"
                 PROVE  device'["contacts"][i] = None /\ i \notin device'["gallery"]
      BY <1>1, <1>9 DEF FreshIds
    <2>1. /\ device["contacts"][i] = None /\ i \notin device["gallery"]
          /\ given # None /\ k = "contacts" => x.id # i
          /\ given # None /\ k = "gallery" => x # i
      BY <1>1, <1>3 DEF FreshIds, DoneOf, m, k, x
    <2>2. device'["contacts"][i] = None
      <3>1. CASE u = "contacts"
        <4>1. k = "contacts" /\ s = device["contacts"] /\ s \in ContactsState
          BY <1>2, <1>5, <3>1, OtherUnits DEF s, UnitOK
        <4>2. given = None \/ given.id = x.id
          BY <1>2, <1>3, <4>1, DataOf
        <4>3. ContactsUndo(s, a, x, given)[i] = None
          <5>1. CASE given = None
            BY <2>1, <4>1, <5>1 DEF ContactsUndo
          <5>2. CASE given # None
            BY <2>1, <4>1, <4>2, <5>2 DEF ContactsUndo, ContactsState, ContactIds
          <5> QED BY <5>1, <5>2
        <4> QED BY <1>6, <2>1, <3>1, <4>1, <4>3, StoreEffects
      <3>2. CASE u # "contacts"
        BY <1>2, <1>6, <2>1, <3>2, OtherUnits
      <3> QED BY <3>1, <3>2
    <2>3. i \notin device'["gallery"]
      <3>1. CASE u = "gallery"
        <4>1. k = "gallery" /\ s = device["gallery"]
          BY <1>2, <1>5, <3>1, OtherUnits DEF s
        <4>2. given = None \/ given.id = x
          BY <1>2, <1>3, <4>1, DataOf
        <4>3. i \notin GalleryUndo(s, a, given)
          <5>1. a \in {"add", "delete"}
            BY <1>2, <4>1, StoreCalls DEF Stores
          <5> QED BY <2>1, <4>1, <4>2, <5>1 DEF GalleryUndo
        <4> QED BY <1>6, <2>1, <3>1, <4>1, <4>3, StoreEffects
      <3>2. CASE u # "gallery"
        BY <1>2, <1>6, <2>1, <3>2, OtherUnits
      <3> QED BY <3>1, <3>2
    <2> QED BY <2>2, <2>3
  <1>11. OncePresent'
    <2> DEFINE p == device["notifications"]
               q == device'["notifications"]
    <2>1. Taken(c)' = {} /\ \A b \in Commands \ {c} : Taken(b)' = Taken(b) /\ command'[b].action = command[b].action
      BY <1>4 DEF Taken, DoneOf
    <2>2. /\ p.active \cap p.dismissed = {}
          /\ \A b \in Commands :
                /\ Taken(b) \cap p.active = {}
                /\ command[b].action = "clear" => Taken(b) \cap p.dismissed = {}
                /\ \A e \in Commands \ {b} : Taken(e) \cap Taken(b) = {}
      BY <1>1 DEF OncePresent
    <2>3. p \in NotificationState
      BY <1>1, <1>2, OtherUnits DEF UnitOK
    <2> SUFFICES /\ q.active \cap q.dismissed = {}
                 /\ \A b \in Commands :
                       /\ Taken(b)' \cap q.active = {}
                       /\ command'[b].action = "clear" => Taken(b)' \cap q.dismissed = {}
                       /\ \A e \in Commands \ {b} : Taken(e)' \cap Taken(b)' = {}
      BY DEF OncePresent
    <2> HIDE DEF p, q
    <2>4. CASE q = p
      BY <2>1, <2>2, <2>4
    <2>5. CASE q # p
      <3>1. u = "notifications" /\ k = "notifications" /\ s = p /\ q = NotificationUndo(p, a, x, given)
        <4>1. u = "notifications" /\ k = "notifications"
          BY <1>2, <1>5, <1>6, <2>5, OtherUnits DEF p, q
        <4>2. s = p /\ (q = s \/ q = Undo(k, s, a, x, given))
          BY <1>6, <4>1 DEF p, q, s
        <4> QED BY <2>5, <4>1, <4>2, StoreEffects
      <3>2. given # None /\ a \in {"dismiss", "clear"}
        BY <2>5, <3>1 DEF NotificationUndo
      <3>3. Taken(c) = given.pre_state
        BY <1>3, <3>1, <3>2 DEF Taken, DoneOf, m, k, a
      <3>4. CASE a = "dismiss"
        <4>1. q = [active |-> p.active \cup Taken(c), dismissed |-> p.dismissed \ Taken(c)]
          BY <3>1, <3>2, <3>3, <3>4 DEF NotificationUndo
        <4> QED BY <2>1, <2>2, <4>1
      <3>5. CASE a = "clear"
        <4>1. q = [p EXCEPT !.active = Taken(c)]
          BY <2>5, <3>1, <3>2, <3>3, <3>5 DEF NotificationUndo
        <4>2. q.active = Taken(c) /\ q.dismissed = p.dismissed
          BY <2>3, <4>1 DEF NotificationState
        <4>3. Taken(c) \cap p.dismissed = {}
          BY <2>2, <3>5 DEF a
        <4> QED BY <2>1, <2>2, <4>2, <4>3
      <3> QED BY <3>2, <3>4, <3>5
    <2> QED BY <2>4, <2>5
  <1> QED BY <1>1, <1>4, <1>6, <1>7, <1>8, <1>10, <1>11 DEF AndroidInv

\* Every step keeps the invariant.
LEMMA AndroidInvStep == AndroidInv /\ [Next]_vars => AndroidInv'
  <1> SUFFICES ASSUME AndroidInv, [Next]_vars PROVE AndroidInv'
    OBVIOUS
  <1>1. CASE Next
    <2>1. PICK c \in Commands, k \in Capabilities : Step(c, k)
      BY <1>1 DEF Next
    <2>2. ASSUME NEW call \in Calls(k, c), ExecuteSucceeds(c, k, call[1], call[2]) PROVE AndroidInv'
      BY <2>2, CallIsPair, ExecuteSucceedsStep
    <2>3. ASSUME NEW call \in Calls(k, c), ExecuteFails(c, k, call[1], call[2]) PROVE AndroidInv'
      BY <2>3, CallIsPair, ExecuteFailsStep
    <2>4. CASE RollbackWithResult(c)
      BY <2>4, RollbackStep DEF RollbackWithResult
    <2>5. CASE RollbackWithoutResult(c)
      BY <2>5, RollbackStep DEF RollbackWithoutResult
    <2> QED BY <2>1, <2>2, <2>3, <2>4, <2>5 DEF Step
  <1>2. CASE UNCHANGED vars
    <2>1. device' = device /\ command' = command /\ before' = before
      BY <1>2 DEF vars
    <2> QED BY <2>1 DEF AndroidInv, CommandOK, FreshIds, OncePresent, DoneOf, Taken
  <1> QED BY <1>1, <1>2

\* The invariant holds of a new device.
LEMMA AndroidInvInit == Init => AndroidInv
  <1> SUFFICES ASSUME Init PROVE AndroidInv
    OBVIOUS
  <1>1. DOMAIN device = Units /\ DOMAIN command = Commands /\ DOMAIN before = Commands
    BY DEF Init
  <1>2. \A c \in Commands : command[c] = NoCommand
    BY DEF Init
  <1>3. \A u \in Controls : device[u] \in Setting(u)
    <2>1. \A u \in Controls : device[u] = InitialSetting(u)
      BY DEF Init, Units, Controls, Stores
    <2>2. InitialSetting("flashlight") \in Setting("flashlight") /\ InitialSetting("vibrate") \in Setting("vibrate")
      BY DEF InitialSetting, Setting
    <2>3. InitialSetting("volume") \in Setting("volume") /\ InitialSetting("brightness") \in Setting("brightness")
      BY LevelsReached DEF InitialSetting, Setting
    <2>4. InitialSetting("dnd") \in Setting("dnd") /\ InitialSetting("rotation") \in Setting("rotation")
      BY DEF InitialSetting, Setting, DndModes, Orientations
    <2>5. InitialSetting("screen_timeout") \in Setting("screen_timeout")
      BY ControlsAssumption DEF InitialSetting, Setting
    <2> QED BY <2>1, <2>2, <2>3, <2>4, <2>5 DEF Controls
  <1>4. /\ device["network"] = InitialNetwork /\ device["sms"] = InitialSms
        /\ device["contacts"] = InitialContacts /\ device["notifications"] = InitialNotifications
        /\ device["files"] = InitialFiles /\ device["downloads"] = InitialDownloads
        /\ device["gallery"] = InitialGallery
    BY DEF Init, Units, Controls, Stores
  <1>5. device["network"] \in NetworkState
    <2>1. [WifiOff EXCEPT !.enabled = TRUE] \in Wifi /\ On \in OnOff /\ Off \in OnOff
      BY DEF WifiOff, Wifi, OnOff, On, Off
    <2> QED BY <1>4, <2>1 DEF InitialNetwork, NetworkState
  <1>6. \A u \in Units : UnitOK(u, device[u])
    <2>1. device["contacts"] \in ContactsState
      BY <1>4, CommunicationAssumption DEF InitialContacts, ContactsState
    <2>2. device["sms"] \in SmsState /\ device["sms"].inbox = Messages /\ device["sms"].deleted = {}
      BY <1>4 DEF InitialSms, SmsState
    <2>3. device["notifications"] \in NotificationState
      BY <1>4 DEF InitialNotifications, NotificationState
    <2>4. device["files"] \in FilesState /\ device["downloads"] \in DownloadsState /\ device["gallery"] \subseteq Commands
      BY <1>4 DEF InitialFiles, FilesState, InitialDownloads, DownloadsState, InitialGallery
    <2> QED BY <1>3, <1>5, <2>1, <2>2, <2>3, <2>4 DEF UnitOK
  <1>7. \A c \in Commands : CommandOK(c)
    <2> SUFFICES ASSUME NEW c \in Commands PROVE CommandOK(c)
      OBVIOUS
    <2>1. /\ command[c].stage = "idle" /\ command[c].cap = None /\ command[c].action = None
          /\ command[c].arg = None /\ command[c].data = None
      BY <1>2 DEF NoCommand
    <2> QED BY <1>2, <2>1 DEF CommandOK, NoCommand, Stages
  <1>8. FreshIds
    BY <1>2, <1>4, CommunicationAssumption
       DEF FreshIds, DoneOf, NoCommand, InitialContacts, ContactIds, InitialGallery
  <1>9. OncePresent
    BY <1>2, <1>4 DEF OncePresent, Taken, DoneOf, NoCommand, InitialNotifications
  <1> QED BY <1>1, <1>6, <1>7, <1>8, <1>9 DEF AndroidInv

-----------------------------------------------------------------------------
(***************************************************************************)
(* Rollbacks.                                                              *)
(***************************************************************************)
\* A command that becomes undone is rolled back with its own result.
LEMMA UndoneStep ==
    ASSUME AndroidInv, [Next]_vars, NEW c \in Commands, Undone(c)
    PROVE  LET m == command[c]
               u == UnitOf(m.cap)
           IN /\ u \in Units /\ device'[u] = Undo(m.cap, device[u], m.action, m.arg, m.data)
              /\ Reversible(m.cap, m.action) /\ ~UndoRaises(m.cap, device[u], m.action, m.data)
  <1> DEFINE m == command[c]
  <1>1. DOMAIN device = Units /\ DOMAIN command = Commands /\ CommandOK(c)
    BY DEF AndroidInv
  <1>2. m.stage = "done" /\ command'[c].stage = "undone" /\ m.cap \in Capabilities
    BY <1>1 DEF Undone, CommandOK
  <1>3. PICK b \in Commands, k \in Capabilities : Step(b, k)
    BY <1>2 DEF Next, vars
  <1>4. b = c
    BY <1>1, <1>2, <1>3 DEF Step, ExecuteSucceeds, ExecuteFails, Setup, RollbackWithResult,
                            RollbackWithoutResult, Rollback
  <1>5. RollbackWithResult(c)
    <2>1. ~RollbackWithoutResult(c)
      BY <1>1, <1>2 DEF RollbackWithoutResult, Rollback, CommandOK
    <2>2. RollbackWithResult(c) \/ RollbackWithoutResult(c)
      BY <1>2, <1>3, <1>4 DEF Step, ExecuteSucceeds, ExecuteFails
    <2> QED BY <2>1, <2>2
  <1>6. ~UndoRaises(m.cap, device[UnitOf(m.cap)], m.action, m.data)
    BY <1>1, <1>2, <1>5 DEF RollbackWithResult, Rollback, CommandOK
  <1>7. UnitOf(m.cap) \in Units
    BY <1>2, UnitNames
  <1> QED BY <1>1, <1>5, <1>6, <1>7 DEF RollbackWithResult, Rollback

\* What a control without a change in between is put back to.
LEMMA ControlRestored ==
    ASSUME NEW k \in Controls, NEW b \in Setting(k), InRange(k, b), NEW a, NEW x, Exact(k, a),
           <<a, x>> \in ControlCalls(k), ControlAccepts(k, a, x)
    PROVE  ControlUndo(k, ControlEffect(k, b, a, x), a, x, b) = b
  <1>1. b # None
    BY SettingAssumption
  <1>3. CASE k = "volume"
    <2>1. a \in {"set", "up", "down"}
      BY <1>3 DEF Exact, Radios
    <2>2. b \in [level : Int, muted : BOOLEAN] /\ b.level \in 0..MaxLevel
      BY <1>3 DEF Setting, InRange
    <2>3. PICK l : VolumeEffect(b, a, x) = [b EXCEPT !.level = l]
      BY <2>1 DEF VolumeEffect
    <2>4. ControlUndo(k, ControlEffect(k, b, a, x), a, x, b) = [[b EXCEPT !.level = l] EXCEPT !.level = Clamp(b.level)]
      <3>1. ControlEffect(k, b, a, x) = [b EXCEPT !.level = l]
        BY <1>3, <2>3 DEF ControlEffect
      <3>2. ControlUndo(k, ControlEffect(k, b, a, x), a, x, b) = VolumeEffect(ControlEffect(k, b, a, x), "set", b.level)
        BY <1>1, <1>3, <2>1 DEF ControlUndo, VolumeUndo
      <3> QED BY <3>1, <3>2 DEF VolumeEffect
    <2>5. Clamp(b.level) = b.level
      BY <2>2, LevelsReached
    <2> QED BY <2>2, <2>4, <2>5
  <1>4. CASE k = "brightness"
    <2>1. a \in {"set", "increase", "decrease"}
      BY <1>4 DEF Exact, Radios
    <2>2. b \in [level : Int, auto : BOOLEAN] /\ b.level \in 0..MaxLevel
      BY <1>4 DEF Setting, InRange
    <2>3. PICK l : BrightnessEffect(b, a, x) = [b EXCEPT !.level = l]
      BY <2>1 DEF BrightnessEffect
    <2>4. ControlUndo(k, ControlEffect(k, b, a, x), a, x, b) = [[b EXCEPT !.level = l] EXCEPT !.level = Clamp(b.level)]
      <3>1. ControlEffect(k, b, a, x) = [b EXCEPT !.level = l]
        BY <1>4, <2>3 DEF ControlEffect
      <3>2. ControlUndo(k, ControlEffect(k, b, a, x), a, x, b) = BrightnessEffect(ControlEffect(k, b, a, x), "set", b.level)
        BY <1>1, <1>4, <2>1 DEF ControlUndo, BrightnessUndo
      <3> QED BY <3>1, <3>2 DEF BrightnessEffect
    <2>5. Clamp(b.level) = b.level
      BY <2>2, LevelsReached
    <2> QED BY <2>2, <2>4, <2>5
  <1>5. CASE k = "dnd"
    BY <1>1, <1>5 DEF ControlUndo, DndUndo
  <1>6. CASE k = "screen_timeout"
    BY <1>1, <1>6 DEF ControlUndo, TimeoutUndo
  <1> QED BY <1>3, <1>4, <1>5, <1>6 DEF Exact, Controls, Radios

\* A radio's rollback puts back every radio that its command has changed.
LEMMA RadioRestored ==
    ASSUME NEW r \in Radios, NEW b \in NetworkState, NEW a, NEW x, <<a, x>> \in RadioCalls(r),
           a \notin {"pair", "unpair"}
    PROVE  RadioUndo(RadioEffect(b, r, a, x), r, a, Snapshot(b, Captured(r))) = b
  <1> DEFINE pre == Snapshot(b, Captured(r))
             n == RadioEffect(b, r, a, x)
  <1>1. Captured(r) \in SUBSET Radios
    BY DEF Captured, Radios, WifiCapture, BluetoothCapture, MobileDataCapture, HotspotCapture, AirplaneCapture
  <1>2. pre # None
    <2>1. \A f \in Radios : b[f] \in Wifi \cup OnOff
      BY DEF NetworkState, Radios
    <2>2. pre \in [Captured(r) -> Wifi \cup OnOff]
      BY <1>1, <2>1 DEF Snapshot
    <2> QED BY <1>1, <2>2, SnapshotAssumption
  <1>3. RadioUndo(n, r, a, pre) = Restore(n, pre)
    BY <1>2 DEF RadioUndo, Radios, WifiUndo, BluetoothUndo, MobileDataUndo, HotspotUndo, AirplaneUndo
  <1>4. DOMAIN b = Radios \cup {"paired"} /\ n \in NetworkState
    BY RadioEffectOK DEF NetworkState, Radios
  <1>5. DOMAIN n = DOMAIN b /\ \A f \in DOMAIN b \ Captured(r) : n[f] = b[f]
    <2>1. DOMAIN n = DOMAIN b
      BY <1>4 DEF NetworkState
    <2> USE DEF RadioEffect, RadioCalls, Captured, NetworkState, Radios, Switch
    <2>2. CASE r = "wifi"
      BY <1>4, <2>1, <2>2 DEF WifiCalls, WifiEffect, WifiCapture
    <2>3. CASE r = "bluetooth"
      BY <1>4, <2>1, <2>3 DEF BluetoothCalls, BluetoothEffect, BluetoothCapture
    <2>4. CASE r = "mobile_data"
      BY <1>4, <2>1, <2>4 DEF MobileDataEffect, MobileDataCapture
    <2>5. CASE r = "hotspot"
      BY <1>4, <2>1, <2>5 DEF HotspotEffect, HotspotCapture
    <2>6. CASE r = "airplane_mode"
      BY <1>4, <2>1, <2>6 DEF AirplaneEffect, AirplaneCapture
    <2> QED BY <2>2, <2>3, <2>4, <2>5, <2>6
  <1> HIDE DEF n
  <1>6. Restore(n, pre) = [f \in DOMAIN b |-> b[f]]
    BY <1>5 DEF Restore, Snapshot
  <1>7. b = [f \in DOMAIN b |-> b[f]]
    BY DEF NetworkState
  <1> QED BY <1>3, <1>6, <1>7 DEF n

\* The stores: what a command changed is put back.
LEMMA StoreRestored ==
    ASSUME NEW c \in Commands, NEW k \in Stores, NEW a, NEW x, <<a, x>> \in Calls(k, c), Exact(k, a),
           Reversible(k, a), NEW b, UnitOK(k, b), ~Refuses(k, b, a, x),
           Unused([cap |-> k, action |-> a, arg |-> x], b)
    PROVE  Undo(k, Effect(k, b, a, x, c), a, x, Data(k, b, a, x)) = b
  <1> DEFINE s == Effect(k, b, a, x, c)
             d == Data(k, b, a, x)
             t == Undo(k, s, a, x, d)
  <1>0. k \in Capabilities
    BY DEF Capabilities
  <1>1. CASE k = "sms"
    <2>1. a = "delete" /\ x \in Messages
      BY <1>1, StoreCalls DEF Reversible, SmsReversible
    <2>2. d = [message |-> x] /\ d # None
      BY <1>0, <1>1, <2>1, DataOf, CommunicationAssumption
    <2>3. b \in SmsState /\ b.inbox \cap b.deleted = {} /\ x \in b.inbox
      BY <1>1, <2>1 DEF UnitOK, Refuses, SmsRefuses, Controls, Radios
    <2>4. s = [inbox |-> b.inbox \ {x}, deleted |-> b.deleted \cup {x}]
      BY <1>1, <2>1 DEF Effect, SmsEffect, Controls, Radios
    <2>5. t = [inbox |-> s.inbox \cup {x}, deleted |-> s.deleted \ {x}]
      <3> HIDE DEF s, d
      <3> QED BY <1>1, <2>1, <2>2 DEF Undo, SmsUndo, Controls, Radios
    <2>6. s.inbox \cup {x} = b.inbox /\ s.deleted \ {x} = b.deleted
      BY <2>3, <2>4
    <2>7. b = [inbox |-> b.inbox, deleted |-> b.deleted]
      BY <2>3 DEF SmsState
    <2> HIDE DEF s, d, t
    <2> QED BY <2>5, <2>6, <2>7 DEF s, d, t
  <1>2. CASE k = "contacts"
    <2>1. b \in ContactsState /\ x.id \in ContactIds /\ a \in {"create", "update", "delete"}
      BY <1>2, StoreCalls DEF UnitOK, ContactIds
    <2>2. d = [id |-> x.id, pre_state |-> b[x.id]]
      BY <1>0, <1>2, DataOf
    <2>3. d # None
      BY <2>1, <2>2, CommunicationAssumption DEF ContactsState, ContactIds
    <2>4. s = [b EXCEPT ![x.id] = x.value]
      <3>1. s = ContactsEffect(b, a, x)
        BY <1>2, StoreEffects
      <3> HIDE DEF s
      <3> QED BY <3>1 DEF ContactsEffect
    <2>5. a = "create" => b[x.id] = None
      BY <1>2 DEF Unused
    <2>6. t = [s EXCEPT ![x.id] = b[x.id]]
      <3>1. t = ContactsUndo(s, a, x, d)
        BY <1>2, StoreEffects
      <3>2. d.id = x.id /\ d.pre_state = b[x.id]
        BY <2>2
      <3> HIDE DEF s, d, t
      <3> QED BY <2>1, <2>3, <2>5, <3>1, <3>2 DEF ContactsUndo
    <2> HIDE DEF s, d, t
    <2>7. t = b
      BY <2>1, <2>4, <2>6 DEF ContactsState
    <2> QED BY <2>7 DEF s, d, t
  <1>3. CASE k = "notifications"
    <2>1. b \in NotificationState /\ a \in {"dismiss", "clear"} /\ (a = "dismiss" => x \in Notifications)
      BY <1>3, StoreCalls DEF UnitOK, Reversible, NotificationReversible
    <2>2. d = [pre_state |-> IF a = "clear" THEN b.active ELSE {x}]
      BY <1>0, <1>3, DataOf
    <2>3. d # None
      <3>1. (IF a = "clear" THEN b.active ELSE {x}) \in SUBSET Notifications
        BY <2>1 DEF NotificationState
      <3> QED BY <2>2, <3>1, CommunicationAssumption
    <2>4. s = NotificationEffect(b, a, x) /\ t = NotificationUndo(s, a, x, d) /\ ~NotificationRefuses(b, a, x)
      BY <1>3, StoreEffects
    <2>5. b = [active |-> b.active, dismissed |-> b.dismissed]
      BY <2>1 DEF NotificationState
    <2> HIDE DEF s, d, t
    <2>6. CASE a = "dismiss"
      <3>1. x \in b.active /\ x \notin b.dismissed
        BY <1>3, <2>4, <2>6 DEF NotificationRefuses, Unused
      <3>2. s = [active |-> b.active \ {x}, dismissed |-> b.dismissed \cup {x}]
        BY <2>4, <2>6 DEF NotificationEffect
      <3>3. t = [active |-> s.active \cup {x}, dismissed |-> s.dismissed \ {x}]
        BY <2>2, <2>3, <2>4, <2>6 DEF NotificationUndo
      <3>4. s.active \cup {x} = b.active /\ s.dismissed \ {x} = b.dismissed
        BY <3>1, <3>2
      <3> QED BY <2>5, <3>3, <3>4 DEF s, d, t
    <2>7. CASE a = "clear"
      <3>1. s = [b EXCEPT !.active = {}] /\ d.pre_state = b.active
        BY <2>2, <2>4, <2>7 DEF NotificationEffect
      <3>2. t = IF b.active # {} THEN [s EXCEPT !.active = b.active] ELSE s
        BY <2>3, <2>4, <2>7, <3>1 DEF NotificationUndo
      <3>3. t = b
        BY <2>5, <3>1, <3>2
      <3> QED BY <3>3 DEF s, d, t
    <2> QED BY <2>1, <2>6, <2>7
  <1>4. CASE k = "files"
    <2>1. b \in FilesState /\ x[1] \in Paths /\ (a \in {"rename", "move"} => x[2] \in Paths)
          /\ x[2] \in Paths \cup Contents \cup {None} /\ a \in {"create", "write", "rename", "move", "delete"}
      BY <1>4, StoreCalls DEF UnitOK
    <2>2. d = [path |-> x[1], to |-> x[2], pre_state |-> b[x[1]]]
      BY <1>0, <1>4, DataOf
    <2>3. d # None
      BY <2>1, <2>2, DataAssumption DEF FilesState
    <2>4. s = FilesEffect(b, a, x) /\ t = FilesUndo(s, a, d) /\ ~FilesRefuses(b, a, x)
      BY <1>4 DEF Effect, Undo, Refuses, Controls, Radios
    <2>5. d.path = x[1] /\ d.to = x[2] /\ d.pre_state = b[x[1]]
      BY <2>2
    <2> HIDE DEF s, d, t
    <2>6. CASE a \in {"rename", "move"}
      <3>1. b[x[1]] # None /\ b[x[2]] = None
        BY <2>4, <2>6 DEF FilesRefuses, Exists
      <3>2. s = Moved(b, x[1], x[2]) /\ t = Moved(s, x[2], x[1])
        BY <2>3, <2>4, <2>5, <2>6 DEF FilesEffect, FilesUndo
      <3>3. t = b
        BY <2>1, <2>6, <3>1, <3>2 DEF Moved, FilesState
      <3> QED BY <3>3 DEF s, d, t
    <2>7. CASE a \in {"create", "write", "delete"}
      <3>1. a = "create" => b[x[1]] = None
        BY <2>4 DEF FilesRefuses, Exists
      <3>2. s = [b EXCEPT ![x[1]] = x[2]]
        BY <2>4, <2>7 DEF FilesEffect
      <3>3. t = [s EXCEPT ![x[1]] = b[x[1]]]
        BY <2>3, <2>4, <2>5, <2>7, <3>1 DEF FilesUndo
      <3>4. t = b
        BY <2>1, <3>2, <3>3 DEF FilesState
      <3> QED BY <3>4 DEF s, d, t
    <2> QED BY <2>1, <2>6, <2>7
  <1>5. CASE k = "downloads"
    <2>1. b \in DownloadsState /\ x \in Commands /\ a \in {"pause", "resume"}
      BY <1>5, StoreCalls DEF UnitOK, Reversible, DownloadsReversible
    <2>2. d = [id |-> x, pre_state |-> b[x]]
      BY <1>0, <1>5, DataOf
    <2>3. d # None
      BY <2>1, <2>2, DataAssumption DEF DownloadsState
    <2>4. s = DownloadsEffect(b, a, x) /\ t = DownloadsUndo(s, a, d)
      BY <1>5 DEF Effect, Undo, Controls, Radios
    <2>5. d.id = x /\ d.pre_state = b[x]
      BY <2>2
    <2> HIDE DEF s, d, t
    <2>6. PICK v \in DownloadStatus : s = [b EXCEPT ![x] = v]
      BY <2>1, <2>4 DEF DownloadsEffect, DownloadStatus
    <2>7. s[x] # None
      BY <2>1, <2>6, DataAssumption DEF DownloadsState
    <2>8. t = [s EXCEPT ![x] = b[x]]
      BY <2>1, <2>3, <2>4, <2>5, <2>7 DEF DownloadsUndo, DownloadsReversible
    <2>9. t = b
      BY <2>1, <2>6, <2>8 DEF DownloadsState
    <2> QED BY <2>9 DEF s, d, t
  <1>6. CASE k = "gallery"
    <2>1. b \subseteq Commands /\ x \in Commands /\ a \in {"add", "delete"}
      BY <1>6, StoreCalls DEF UnitOK
    <2>2. d = [id |-> x] /\ d # None
      BY <1>0, <1>6, <2>1, DataOf, DataAssumption
    <2>3. s = GalleryEffect(b, a, x) /\ t = GalleryUndo(s, a, d) /\ ~GalleryRefuses(b, a, x)
      BY <1>6, StoreEffects
    <2>4. a = "add" => x \notin b
      BY <1>6 DEF Unused
    <2>5. d.id = x
      BY <2>2
    <2> HIDE DEF s, d, t
    <2>6. t = b
      BY <2>1, <2>2, <2>3, <2>4, <2>5 DEF GalleryEffect, GalleryUndo, GalleryRefuses
    <2> QED BY <2>6 DEF s, d, t
  <1> QED BY <1>1, <1>2, <1>3, <1>4, <1>5, <1>6 DEF Stores, Exact, Radios

\* A rollback writes the parts its command is about and no others.
LEMMA UndoConfined ==
    ASSUME NEW c \in Commands, NEW m, m.cap \in Partitioned, <<m.action, m.arg>> \in Calls(m.cap, c),
           NEW b, UnitOK(UnitOf(m.cap), b), m.data = Data(m.cap, b, m.action, m.arg),
           NEW s, UnitOK(UnitOf(m.cap), s), NEW f \in DOMAIN s \ Covers(m)
    PROVE  Undo(m.cap, s, m.action, m.arg, m.data)[f] = s[f]
  <1> DEFINE k == m.cap
             a == m.action
             x == m.arg
             d == m.data
             t == Undo(k, s, a, x, d)
  <1>0. k \in Capabilities
    BY DEF Partitioned, Capabilities, Controls, Radios, Stores
  <1> HIDE DEF k, a, x, d, t
  <1> SUFFICES t[f] = s[f]
    BY DEF k, a, x, d, t
  <1>u. UnitOK(UnitOf(k), s) /\ UnitOK(UnitOf(k), b) /\ d = Data(k, b, a, x) /\ <<a, x>> \in Calls(k, c)
    BY DEF k, a, x, d
  <1>1. CASE k = "volume"
    <2>1. s \in [level : Int, muted : BOOLEAN]
      BY <1>1, <1>u DEF UnitOK, UnitOf, Radios, Controls, Setting
    <2>2. t = VolumeUndo(s, a, x, d)
      BY <1>1 DEF t, Undo, ControlUndo, Controls, Radios
    <2>3. f \notin (IF a \in {"mute", "unmute"} THEN {"muted"} ELSE {"level"})
      BY <1>1 DEF Covers, k, a, Radios
    <2>4. a \in {"set", "up", "down", "mute", "unmute"}
      BY <1>1, <1>u DEF Calls, Controls, Radios, ControlCalls, VolumeCalls
    <2>5. \/ t = s
          \/ a \in {"mute", "unmute"} /\ \E v : t = [s EXCEPT !.muted = v]
          \/ a \notin {"mute", "unmute"} /\ \E v : t = [s EXCEPT !.level = v]
      BY <2>2, <2>4 DEF VolumeUndo, VolumeEffect
    <2> QED BY <2>1, <2>3, <2>5
  <1>2. CASE k = "brightness"
    <2>1. s \in [level : Int, auto : BOOLEAN]
      BY <1>2, <1>u DEF UnitOK, UnitOf, Radios, Controls, Setting
    <2>2. t = BrightnessUndo(s, a, x, d)
      BY <1>2 DEF t, Undo, ControlUndo, Controls, Radios
    <2>3. f \notin (IF a \in {"auto_on", "auto_off"} THEN {"auto"} ELSE {"level"})
      BY <1>2 DEF Covers, k, a, Radios
    <2>4. a \in {"set", "increase", "decrease", "auto_on", "auto_off"}
      BY <1>2, <1>u DEF Calls, Controls, Radios, ControlCalls, BrightnessCalls
    <2>5. \/ t = s
          \/ a \in {"auto_on", "auto_off"} /\ \E v : t = [s EXCEPT !.auto = v]
          \/ a \notin {"auto_on", "auto_off"} /\ \E v : t = [s EXCEPT !.level = v]
      BY <2>2, <2>4 DEF BrightnessUndo, BrightnessEffect
    <2> QED BY <2>1, <2>3, <2>5
  <1>3. CASE k \in {"wifi", "bluetooth", "mobile_data"}
    <2>1. s \in NetworkState /\ k \in Radios /\ <<a, x>> \in RadioCalls(k)
      BY <1>3, <1>u DEF UnitOK, UnitOf, Controls, Radios, Calls
    <2>2. t = RadioUndo(s, k, a, d) /\ d = Snapshot(b, {k})
      <3>1. t = RadioUndo(s, k, a, d)
        BY <1>3 DEF t, Undo, Controls, Radios
      <3>2. d = Snapshot(b, Captured(k))
        BY <1>0, <1>u, <2>1, DataOf
      <3>3. Captured(k) = {k}
        BY <1>3 DEF Captured, WifiCapture, BluetoothCapture, MobileDataCapture
      <3> QED BY <3>1, <3>2, <3>3
    <2>3. f # k
      BY <1>3 DEF Covers, k, Radios
    <2>4. CASE d # None
      <3>1. t = Restore(s, d)
        BY <1>3, <2>2, <2>4 DEF RadioUndo, WifiUndo, BluetoothUndo, MobileDataUndo
      <3>2. DOMAIN d = {k}
        BY <2>2 DEF Snapshot
      <3> QED BY <2>3, <3>1, <3>2 DEF Restore
    <2>5. CASE d = None
      <3>1. \/ t = s
            \/ \E v : t = [s EXCEPT ![k] = v]
        <4>1. CASE k = "wifi"
          <5>1. t = WifiUndo(s, a, None) /\ a \in {"enable", "disable", "connect", "disconnect"}
            BY <2>1, <2>2, <2>5, <4>1 DEF RadioUndo, RadioCalls, WifiCalls, Switch
          <5> QED BY <4>1, <5>1 DEF WifiUndo, WifiEffect
        <4>2. CASE k = "bluetooth"
          <5>1. t = BluetoothUndo(s, a, None) /\ a \in {"enable", "disable", "pair", "unpair"}
            BY <2>1, <2>2, <2>5, <4>2 DEF RadioUndo, RadioCalls, BluetoothCalls, Switch
          <5> QED BY <4>2, <5>1 DEF BluetoothUndo, BluetoothEffect
        <4>3. CASE k = "mobile_data"
          <5>1. t = MobileDataUndo(s, a, None)
            BY <2>2, <2>5, <4>3 DEF RadioUndo
          <5> QED BY <4>3, <5>1 DEF MobileDataUndo, MobileDataEffect
        <4> QED BY <1>3, <4>1, <4>2, <4>3
      <3> QED BY <2>1, <2>3, <3>1 DEF NetworkState
    <2> QED BY <2>4, <2>5
  <1>4. CASE k = "contacts"
    <2>1. s \in ContactsState /\ t = ContactsUndo(s, a, x, d) /\ d.id = x.id
      BY <1>0, <1>4, <1>u, StoreEffects, DataOf DEF UnitOK, UnitOf, Radios, t
    <2>2. f # d.id
      BY <1>4 DEF Covers, k, d, Radios
    <2>3. t = s \/ \E v : t = [s EXCEPT ![d.id] = v]
      BY <2>1 DEF ContactsUndo
    <2> QED BY <2>1, <2>2, <2>3 DEF ContactsState
  <1>5. CASE k = "files"
    <2>1. s \in FilesState /\ t = FilesUndo(s, a, d)
      BY <1>5, <1>u DEF UnitOK, UnitOf, Controls, Radios, t, Undo
    <2>2. f # d.path /\ f # d.to
      BY <1>5 DEF Covers, k, d, Radios
    <2>3. a \in {"create", "write", "rename", "move", "delete"}
      BY <1>5, <1>u, StoreCalls DEF Stores
    <2>4. \/ t = s
          \/ \E v : t = [s EXCEPT ![d.path] = v]
          \/ t = Moved(s, d.to, d.path)
      BY <2>1, <2>3 DEF FilesUndo
    <2> QED BY <2>1, <2>2, <2>4 DEF FilesState, Moved
  <1>6. CASE k = "downloads"
    <2>1. s \in DownloadsState /\ t = DownloadsUndo(s, a, d)
      BY <1>6, <1>u DEF UnitOK, UnitOf, Controls, Radios, t, Undo
    <2>2. f # d.id
      BY <1>6 DEF Covers, k, d, Radios
    <2> QED BY <2>1, <2>2 DEF DownloadsUndo, DownloadsState
  <1> QED BY <1>1, <1>2, <1>3, <1>4, <1>5, <1>6 DEF Partitioned, k

\* A level that is in range stays there when its bridge is called, or its command undone,
\* unless the step is negative.
Leveled == {"volume", "brightness"}
Stepping == {"up", "down", "increase", "decrease"}

LEMMA LevelEffect ==
    ASSUME NEW k \in Leveled, NEW s \in Setting(k), InRange(k, s), NEW a, NEW x,
           <<a, x>> \in ControlCalls(k), a \in Stepping => x >= 0,
           NEW e, e \in Setting(k) \cup {None}
    PROVE  /\ InRange(k, ControlEffect(k, s, a, x))
           /\ InRange(k, ControlUndo(k, s, a, x, e))
  <1>1. CASE k = "volume"
    <2>1. s \in [level : Int, muted : BOOLEAN] /\ s.level \in 0..MaxLevel
      BY <1>1 DEF Setting, InRange
    <2>2. (a = "set" => x \in Int) /\ (a \in {"up", "down"} => x \in Int /\ x >= 0)
      BY <1>1, LevelsReached DEF ControlCalls, VolumeCalls, Stepping
    <2>3. a \in {"set", "up", "down", "mute", "unmute"}
      BY <1>1 DEF ControlCalls, VolumeCalls
    <2>4. e # None => e.level \in Int
      BY <1>1 DEF Setting
    <2>5. VolumeEffect(s, a, x).level \in 0..MaxLevel
      BY <2>1, <2>2, <2>3, LevelsReached DEF VolumeEffect
    <2>6. /\ e # None => VolumeEffect(s, "set", e.level).level \in 0..MaxLevel
          /\ a = "up" => VolumeEffect(s, "down", x).level \in 0..MaxLevel
          /\ a = "down" => VolumeEffect(s, "up", x).level \in 0..MaxLevel
          /\ VolumeEffect(s, "unmute", None).level = s.level
          /\ VolumeEffect(s, "mute", None).level = s.level
      BY <2>1, <2>2, <2>4, LevelsReached DEF VolumeEffect
    <2>7. VolumeUndo(s, a, x, e).level \in 0..MaxLevel
      BY <2>1, <2>3, <2>6 DEF VolumeUndo
    <2> QED BY <1>1, <2>5, <2>7 DEF ControlEffect, ControlUndo, InRange
  <1>2. CASE k = "brightness"
    <2>1. s \in [level : Int, auto : BOOLEAN] /\ s.level \in 0..MaxLevel
      BY <1>2 DEF Setting, InRange
    <2>2. (a = "set" => x \in Int) /\ (a \in {"increase", "decrease"} => x \in Int /\ x >= 0)
      BY <1>2, LevelsReached DEF ControlCalls, BrightnessCalls, Stepping
    <2>3. a \in {"set", "increase", "decrease", "auto_on", "auto_off"}
      BY <1>2 DEF ControlCalls, BrightnessCalls
    <2>4. e # None => e.level \in Int
      BY <1>2 DEF Setting
    <2>5. BrightnessEffect(s, a, x).level \in 0..MaxLevel
      BY <2>1, <2>2, <2>3, LevelsReached DEF BrightnessEffect
    <2>6. /\ e # None => BrightnessEffect(s, "set", e.level).level \in 0..MaxLevel
          /\ a = "increase" => BrightnessEffect(s, "decrease", x).level \in 0..MaxLevel
          /\ a = "decrease" => BrightnessEffect(s, "increase", x).level \in 0..MaxLevel
          /\ BrightnessEffect(s, "auto_off", None).level = s.level
          /\ BrightnessEffect(s, "auto_on", None).level = s.level
      BY <2>1, <2>2, <2>4, LevelsReached DEF BrightnessEffect
    <2>7. BrightnessUndo(s, a, x, e).level \in 0..MaxLevel
      BY <2>1, <2>3, <2>6 DEF BrightnessUndo
    <2> QED BY <1>2, <2>5, <2>7 DEF ControlEffect, ControlUndo, InRange
  <1> QED BY <1>1, <1>2 DEF Leveled

\* The device starts with its levels half way up.
LEMMA LevelsInit == ASSUME Init PROVE LevelsInRange
  <1>1. MaxLevel \in Nat /\ MaxLevel \div 2 \in 0..MaxLevel
    BY ControlsAssumption
  <1>2. \A k \in Leveled : device[k] = InitialSetting(k)
    BY DEF Init, Units, Controls, Stores, Leveled
  <1>3. InRange("volume", device["volume"]) /\ InRange("brightness", device["brightness"])
    BY <1>1, <1>2 DEF InitialSetting, InRange, Leveled
  <1> QED BY <1>3 DEF LevelsInRange

\* No step takes a level out of range before a negative step was asked for.
LEMMA LevelsStep ==
    ASSUME AndroidInv, LevelsInRange, [Next]_vars
    PROVE  LevelsInRange'
  <1> SUFFICES ASSUME NEW k \in Leveled,
                      \A c \in Commands :
                          /\ command'[c].stage # "idle" /\ command'[c].cap = k
                          /\ command'[c].action \in Stepping
                          => command'[c].arg >= 0
               PROVE  InRange(k, device'[k])
    BY DEF LevelsInRange, Leveled, Stepping
  <1>1. /\ DOMAIN device = Units /\ DOMAIN command = Commands
        /\ \A u \in Units : UnitOK(u, device[u])
        /\ \A c \in Commands : CommandOK(c)
    BY DEF AndroidInv
  <1>2. k \in Controls /\ k \in Units /\ k \in Capabilities /\ k # "network"
    BY DEF Leveled, Controls, Units, Capabilities
  <1>3. device[k] \in Setting(k)
    BY <1>1, <1>2 DEF UnitOK
  <1>4. \A j \in Capabilities : UnitOf(j) = k <=> j = k
    BY <1>2 DEF UnitOf, Leveled, Radios
  <1>5. CASE UNCHANGED vars
    BY <1>5 DEF vars, LevelsInRange, Leveled, Stepping
  <1>6. ASSUME NEW b \in Commands, NEW j \in Capabilities, NEW call \in Calls(j, b),
               ExecuteSucceeds(b, j, call[1], call[2])
        PROVE  InRange(k, device'[k])
    <2> DEFINE a == call[1]
               x == call[2]
    <2>1. <<a, x>> \in Calls(j, b)
      BY CallIsPair
    <2> HIDE DEF a, x
    <2>2. /\ command[b].stage = "idle" /\ \A c \in Commands \ {b} : command'[c] = command[c]
          /\ command'[b].stage = "done" /\ command'[b].cap = j
          /\ command'[b].action = a /\ command'[b].arg = x
          /\ device' = [device EXCEPT ![UnitOf(j)] = Effect(j, device[UnitOf(j)], a, x, b)]
      BY <1>1, <1>6 DEF ExecuteSucceeds, Setup, a, x
    <2>3. InRange(k, device[k])
      BY <2>2 DEF LevelsInRange, Leveled, Stepping
    <2>4. CASE j = k
      <3>1. device'[k] = ControlEffect(k, device[k], a, x)
        BY <1>1, <1>2, <1>4, <2>2, <2>4 DEF Effect, Controls, Radios
      <3>2. <<a, x>> \in ControlCalls(k)
        BY <1>2, <2>1, <2>4 DEF Calls, Leveled, Radios
      <3>3. a \in Stepping => x >= 0
        BY <2>2, <2>4
      <3> QED BY <1>3, <2>3, <3>1, <3>2, <3>3, LevelEffect
    <2>5. CASE j # k
      BY <1>1, <1>2, <1>4, <2>2, <2>3, <2>5
    <2> QED BY <2>4, <2>5
  <1>7. ASSUME NEW b \in Commands, NEW j \in Capabilities, NEW call \in Calls(j, b),
               ExecuteFails(b, j, call[1], call[2])
        PROVE  InRange(k, device'[k])
    <2>1. /\ command[b].stage = "idle" /\ \A c \in Commands \ {b} : command'[c] = command[c]
          /\ device' = device
      BY <1>1, <1>7 DEF ExecuteFails, Setup
    <2>2. InRange(k, device[k])
      BY <2>1 DEF LevelsInRange, Leveled, Stepping
    <2> QED BY <2>1, <2>2
  <1>8. ASSUME NEW b \in Commands, NEW given \in {None, command[b].data},
               NEW stage \in {"undone", "undone_blind"}, Rollback(b, given, stage)
        PROVE  InRange(k, device'[k])
    <2> DEFINE m == command[b]
    <2>1. /\ m.stage \in {"done", "failed"} /\ m.cap \in Capabilities
          /\ <<m.action, m.arg>> \in Calls(m.cap, b)
          /\ m = [stage |-> m.stage, cap |-> m.cap, action |-> m.action, arg |-> m.arg, data |-> m.data]
      BY <1>1, <1>8 DEF CommandOK, Rollback
    <2>2. PICK st \in {"undone", "undone_blind", "undo_raised"} : command' = [command EXCEPT ![b].stage = st]
      BY <1>8 DEF Rollback
    <2>3. /\ command'[b].stage # "idle" /\ command'[b].cap = m.cap
          /\ command'[b].action = m.action /\ command'[b].arg = m.arg
          /\ \A c \in Commands \ {b} : command'[c] = command[c]
      BY <1>1, <2>1, <2>2
    <2>4. InRange(k, device[k])
      BY <2>1, <2>3 DEF LevelsInRange, Leveled, Stepping
    <2>5. \/ device' = device
          \/ device' = [device EXCEPT ![UnitOf(m.cap)] =
                            Undo(m.cap, device[UnitOf(m.cap)], m.action, m.arg, given)]
      BY <1>8 DEF Rollback
    <2>6. CASE m.cap = k /\ device' # device
      <3>1. device'[k] = ControlUndo(k, device[k], m.action, m.arg, given)
        BY <1>1, <1>2, <1>4, <2>5, <2>6 DEF Undo, Controls, Radios
      <3>2. <<m.action, m.arg>> \in ControlCalls(k)
        BY <1>2, <2>1, <2>6 DEF Calls, Leveled, Radios
      <3>3. m.action \in Stepping => m.arg >= 0
        BY <2>3, <2>6
      <3>4. given \in Setting(k) \cup {None}
        <4>1. CASE m.stage = "done"
          <5>1. m.data = Data(k, before[b], m.action, m.arg) /\ UnitOK(k, before[b])
            BY <1>1, <1>4, <2>1, <2>6, <4>1 DEF CommandOK
          <5>2. m.data = before[b] /\ before[b] \in Setting(k)
            BY <1>2, <5>1, DataOf DEF CapturesPreState, UnitOK, Leveled
          <5> QED BY <5>2
        <4>2. CASE m.stage = "failed"
          BY <1>1, <4>2 DEF CommandOK
        <4> QED BY <2>1, <4>1, <4>2
      <3> HIDE DEF m
      <3> QED BY <1>3, <2>4, <3>1, <3>2, <3>3, <3>4, LevelEffect
    <2>7. CASE ~(m.cap = k /\ device' # device)
      BY <1>1, <1>2, <1>4, <2>1, <2>4, <2>5, <2>7
    <2> QED BY <2>6, <2>7
  <1>9. CASE Next
    <2>1. PICK c \in Commands, j \in Capabilities : Step(c, j)
      BY <1>9 DEF Next
    <2>2. CASE RollbackWithResult(c)
      BY <1>8, <2>2 DEF RollbackWithResult
    <2>3. CASE RollbackWithoutResult(c)
      BY <1>8, <2>3 DEF RollbackWithoutResult
    <2> QED BY <1>6, <1>7, <2>1, <2>2, <2>3 DEF Step
  <1> QED BY <1>5, <1>9

-----------------------------------------------------------------------------
(***************************************************************************)
(* The theorems.                                                           *)
(***************************************************************************)
\* Every reachable state satisfies the invariant.
THEOREM AndroidInvariant == Spec => []AndroidInv
  <1> QED BY AndroidInvInit, AndroidInvStep, PTL DEF Spec

\* The state behind every bridge keeps its type, whatever is executed and rolled back.
THEOREM SettingsStayLegal == Spec => []DevicesTypeOK
  <1>1. AndroidInv => DevicesTypeOK
    <2> SUFFICES ASSUME AndroidInv PROVE DevicesTypeOK
      OBVIOUS
    <2>1. \A u \in Units : UnitOK(u, device[u])
      BY DEF AndroidInv
    <2>2. ASSUME NEW k \in Controls PROVE device[k] \in Setting(k)
      BY <2>1 DEF UnitOK, Units
    <2>3. /\ device["network"] \in NetworkState
          /\ device["sms"] \in [inbox : SUBSET Messages, deleted : SUBSET Messages]
          /\ device["contacts"] \in [ContactIds -> Values \cup {None}]
          /\ device["notifications"] \in [active : SUBSET Notifications, dismissed : SUBSET Notifications]
          /\ device["files"] \in [Paths -> Contents \cup {None}]
          /\ device["downloads"] \in [Commands -> DownloadStatus \cup {None}]
          /\ device["gallery"] \subseteq Commands
      BY <2>1 DEF UnitOK, Units, Stores, SmsState, ContactsState, NotificationState, FilesState, DownloadsState
    <2>4. \A c \in Commands : command[c].stage \in Stages
      BY DEF AndroidInv, CommandOK
    <2> QED BY <2>2, <2>3, <2>4 DEF DevicesTypeOK
  <1> QED BY <1>1, AndroidInvariant, PTL

\* The volume and the brightness leave 0..100 only after a command that asked for a
\* negative step, however the commands and their rollbacks follow each other.
THEOREM LevelsStayInRange == Spec => []LevelsInRange
  <1>1. Init => LevelsInRange
    BY LevelsInit
  <1>2. AndroidInv /\ LevelsInRange /\ [Next]_vars => LevelsInRange'
    BY LevelsStep
  <1> QED BY <1>1, <1>2, AndroidInvariant, PTL DEF Spec

\* However many deletions are executed, undone and undone without their result, a
\* message is in the inbox or in the store of the deleted ones (telephony.py:96-128).
THEOREM MessagesAreConserved == Spec => []MessagesConserved
  <1>1. AndroidInv => MessagesConserved
    BY DEF AndroidInv, UnitOK, Units, Stores, MessagesConserved
  <1> QED BY <1>1, AndroidInvariant, PTL

\* A rollback that finds its unit as the command left it puts back what the
\* command found, for every command whose result has what it needs and did not find a
\* level out of range.
THEOREM RollbackRestores == Spec => UndoRestoresExactly
  <1>1. ASSUME AndroidInv, [Next]_vars, NEW c \in Commands, Undone(c),
               Exact(command[c].cap, command[c].action), device[UnitOf(command[c].cap)] = After(c),
               InRange(command[c].cap, before[c])
        PROVE  device'[UnitOf(command[c].cap)] = before[c]
    <2> DEFINE k == command[c].cap
               a == command[c].action
               x == command[c].arg
               d == command[c].data
               b == before[c]
               s == Effect(k, b, a, x, c)
    <2>1. /\ device'[UnitOf(k)] = Undo(k, s, a, x, d)
          /\ Reversible(k, a)
      BY <1>1, UndoneStep DEF After
    <2>2. /\ k \in Capabilities /\ <<a, x>> \in Calls(k, c) /\ UnitOK(UnitOf(k), b)
          /\ ~Refuses(k, b, a, x) /\ d = Data(k, b, a, x) /\ Unused(command[c], b)
      BY <1>1 DEF Undone, AndroidInv, CommandOK
    <2>3. Exact(k, a) /\ InRange(k, b)
      BY <1>1
    <2>4. Unused([cap |-> k, action |-> a, arg |-> x], b)
      BY <2>2 DEF Unused
    <2> HIDE DEF k, a, x, d, b
    <2> SUFFICES Undo(k, s, a, x, d) = b
      BY <2>1 DEF k, b
    <2>5. CASE k \in Controls
      <3>1. /\ Undo(k, s, a, x, d) = ControlUndo(k, s, a, x, d)
            /\ s = ControlEffect(k, b, a, x)
        BY <2>5 DEF Undo, Effect, Controls, Radios
      <3>2. d = b
        BY <2>2, <2>3, <2>5, DataOf DEF CapturesPreState, Exact, Radios
      <3>3. b \in Setting(k) /\ <<a, x>> \in ControlCalls(k) /\ ControlAccepts(k, a, x)
        BY <2>2, <2>5 DEF UnitOK, UnitOf, Calls, Refuses, Controls, Radios
      <3> HIDE DEF s
      <3> QED BY <2>3, <2>5, <3>1, <3>2, <3>3, ControlRestored
    <2>6. CASE k \in Radios
      <3>1. /\ Undo(k, s, a, x, d) = RadioUndo(s, k, a, d)
            /\ s = RadioEffect(b, k, a, x)
        BY <2>6 DEF Undo, Effect, Controls, Radios
      <3>2. d = Snapshot(b, Captured(k))
        BY <2>2, <2>6, DataOf
      <3>3. b \in NetworkState /\ <<a, x>> \in RadioCalls(k) /\ a \notin {"pair", "unpair"}
        BY <2>2, <2>3, <2>6 DEF UnitOK, UnitOf, Calls, Exact, Controls, Radios
      <3> HIDE DEF s
      <3> QED BY <2>6, <3>1, <3>2, <3>3, RadioRestored
    <2>7. CASE k \in Stores
      BY <2>1, <2>2, <2>3, <2>4, <2>7, UnitNames, StoreRestored
    <2> QED BY <2>2, <2>5, <2>6, <2>7, UnitNames
  <1>2. AndroidInv /\ [Next]_vars =>
          [\A c \in Commands :
             LET m == command[c]
                 u == UnitOf(m.cap)
             IN (/\ Undone(c) /\ Exact(m.cap, m.action) /\ device[u] = After(c)
                 /\ InRange(m.cap, before[c]))
                   => device'[u] = before[c]]_vars
    BY <1>1
  <1> QED BY <1>2, AndroidInvariant, PTL DEF Spec, UndoRestoresExactly

\* A rollback leaves alone what other commands did to other entries and radios.
THEOREM RollbackIsConfined == Spec => UndoIsConfined
  <1>1. ASSUME AndroidInv, [Next]_vars, NEW c \in Commands, Undone(c), command[c].cap \in Partitioned,
               NEW f \in DOMAIN device[UnitOf(command[c].cap)] \ Covers(command[c])
        PROVE  device'[UnitOf(command[c].cap)][f] = device[UnitOf(command[c].cap)][f]
    <2> DEFINE m == command[c]
               u == UnitOf(m.cap)
    <2>1. u \in Units /\ device'[u] = Undo(m.cap, device[u], m.action, m.arg, m.data)
      BY <1>1, UndoneStep
    <2>2. /\ <<m.action, m.arg>> \in Calls(m.cap, c) /\ UnitOK(u, before[c])
          /\ m.data = Data(m.cap, before[c], m.action, m.arg) /\ UnitOK(u, device[u])
      BY <1>1, <2>1 DEF Undone, AndroidInv, CommandOK
    <2>3. m.cap \in Partitioned /\ f \in DOMAIN device[u] \ Covers(m)
      BY <1>1
    <2>4. Undo(m.cap, device[u], m.action, m.arg, m.data)[f] = device[u][f]
      <3> HIDE DEF m
      <3> QED BY <2>2, <2>3, UndoConfined
    <2> QED BY <2>1, <2>4
  <1>2. AndroidInv /\ [Next]_vars =>
          [\A c \in Commands :
             LET m == command[c]
                 u == UnitOf(m.cap)
             IN (Undone(c) /\ m.cap \in Partitioned)
                   => \A f \in DOMAIN device[u] \ Covers(m) : device'[u][f] = device[u][f]]_vars
    BY <1>1
  <1> QED BY <1>2, AndroidInvariant, PTL DEF Spec, UndoIsConfined
=============================================================================
