---------------------------- MODULE AndroidCommands ----------------------------
(***************************************************************************)
(* Commands of the Android capabilities: BaseAndroidCapability's           *)
(* execute_action, and the rollback the adapter passes on.                 *)
(*                                                                         *)
(* A command executes at one moment and may be rolled back at a later one, *)
(* with its own result or, as the mutation manager does for a failure,     *)
(* without one.  Other commands execute and roll back in between.          *)
(***************************************************************************)
EXTENDS SystemControls, NetworkRadios, Communication, DataPack

Stores == {"sms", "contacts", "notifications", "phone", "files", "downloads", "gallery", "device"}
Capabilities == Controls \cup Radios \cup Stores

\* The radios share one bridge and one state, the other capabilities have
\* their own.
Units == Controls \cup {"network"} \cup Stores
UnitOf(k) == IF k \in Radios THEN "network" ELSE k

VARIABLES
    device,    \* the state behind the bridges, by unit
    command,   \* what each command is, its stage, and the data of its result
    before     \* history: the unit's state just before the command's effect

vars == <<device, command, before>>

NoCommand == [stage |-> "idle", cap |-> None, action |-> None, arg |-> None, data |-> None]

Init ==
    /\ device = [u \in Units |->
          CASE u \in Controls       -> InitialSetting(u)
            [] u = "network"        -> InitialNetwork
            [] u = "sms"            -> InitialSms
            [] u = "contacts"       -> InitialContacts
            [] u = "notifications"  -> InitialNotifications
            [] u = "phone"          -> InitialPhone
            [] u = "files"          -> InitialFiles
            [] u = "downloads"      -> InitialDownloads
            [] u = "gallery"        -> InitialGallery
            [] u = "device"         -> InitialDevice]
    /\ command = [c \in Commands |-> NoCommand]
    /\ before = [c \in Commands |-> None]

-----------------------------------------------------------------------------
\* The dispatch over the capabilities.
Calls(k, c) ==
    CASE k \in Controls      -> ControlCalls(k)
      [] k \in Radios        -> RadioCalls(k)
      [] k = "sms"           -> SmsCalls
      [] k = "contacts"      -> ContactsCalls(c)
      [] k = "notifications" -> NotificationCalls
      [] k = "phone"         -> PhoneCalls
      [] k = "files"         -> FilesCalls
      [] k = "downloads"     -> DownloadsCalls(c)
      [] k = "gallery"       -> GalleryCalls(c)
      [] k = "device"        -> DeviceCalls \X {None}

Refuses(k, s, a, x) ==
    CASE k \in Controls      -> ~ControlAccepts(k, a, x)
      [] k \in Radios        -> RadioRefuses(s, k, a)
      [] k = "sms"           -> SmsRefuses(s, a, x)
      [] k = "contacts"      -> ContactsRefuses(s, a, x)
      [] k = "notifications" -> NotificationRefuses(s, a, x)
      [] k = "files"         -> FilesRefuses(s, a, x)
      [] k = "downloads"     -> DownloadsRefuses(s, a, x)
      [] k = "gallery"       -> GalleryRefuses(s, a, x)
      [] k = "device"        -> DeviceRefuses(s, a)
      [] OTHER               -> FALSE

Effect(k, s, a, x, c) ==
    CASE k \in Controls      -> ControlEffect(k, s, a, x)
      [] k \in Radios        -> RadioEffect(s, k, a, x)
      [] k = "sms"           -> SmsEffect(s, a, x)
      [] k = "contacts"      -> ContactsEffect(s, a, x)
      [] k = "notifications" -> NotificationEffect(s, a, x)
      [] k = "phone"         -> PhoneEffect(s, a, x)
      [] k = "files"         -> FilesEffect(s, a, x)
      [] k = "downloads"     -> DownloadsEffect(s, a, x)
      [] k = "gallery"       -> GalleryEffect(s, a, x)
      [] k = "device"        -> DeviceEffect(s, a, c)

\* The part of the result a rollback reads.
Data(k, s, a, x) ==
    CASE k \in Controls /\ CapturesPreState(k) -> s
      [] k \in Radios        -> Snapshot(s, Captured(k))
      [] k = "sms"           -> SmsData(s, a, x)
      [] k = "contacts"      -> ContactsData(s, a, x)
      [] k = "notifications" -> NotificationData(s, a, x)
      [] k = "files"         -> FilesData(s, a, x)
      [] k = "downloads"     -> DownloadsData(s, a, x)
      [] k = "gallery"       -> GalleryData(s, a, x)
      [] OTHER               -> None

Reversible(k, a) ==
    CASE k = "sms"           -> SmsReversible(a)
      [] k = "contacts"      -> ContactsReversible(a)
      [] k = "notifications" -> NotificationReversible(a)
      [] k = "downloads"     -> DownloadsReversible(a)
      [] OTHER               -> k \notin {"phone", "device"}

UndoRaises(k, s, a, data) == k = "files" /\ FilesUndoRaises(s, a, data)

Undo(k, s, a, x, data) ==
    CASE k \in Controls      -> ControlUndo(k, s, a, x, data)
      [] k \in Radios        -> RadioUndo(s, k, a, data)
      [] k = "sms"           -> SmsUndo(s, a, x, data)
      [] k = "contacts"      -> ContactsUndo(s, a, x, data)
      [] k = "notifications" -> NotificationUndo(s, a, x, data)
      [] k = "files"         -> FilesUndo(s, a, data)
      [] k = "downloads"     -> DownloadsUndo(s, a, data)
      [] k = "gallery"       -> GalleryUndo(s, a, data)

-----------------------------------------------------------------------------
Setup(c, k, a, x, stage, data) ==
    command' = [command EXCEPT ![c] =
        [stage |-> stage, cap |-> k, action |-> a, arg |-> x, data |-> data]]

\* execute_action: the capability accepts, the bridge answers.
ExecuteSucceeds(c, k, a, x) ==
    LET u == UnitOf(k) IN
    /\ command[c].stage = "idle"
    /\ ~Refuses(k, device[u], a, x)
    /\ device' = [device EXCEPT ![u] = Effect(k, device[u], a, x, c)]
    /\ Setup(c, k, a, x, "done", Data(k, device[u], a, x))
    /\ before' = [before EXCEPT ![c] = device[u]]

\* execute_action: the capability or the bridge raises, which becomes a result
\* with success=False and no data.
ExecuteFails(c, k, a, x) ==
    /\ command[c].stage = "idle"
    /\ Refuses(k, device[UnitOf(k)], a, x)
    /\ Setup(c, k, a, x, "failed", None)
    /\ UNCHANGED <<device, before>>

\* The adapter's rollback; "given" is the original_result it is called with.
Rollback(c, given, stage) ==
    LET k == command[c].cap
        a == command[c].action
        u == UnitOf(k)
    IN
    /\ command[c].stage \in {"done", "failed"}
    /\ Reversible(k, a)
    /\ IF UndoRaises(k, device[u], a, given)
       THEN /\ command' = [command EXCEPT ![c].stage = "undo_raised"]
            /\ UNCHANGED device
       ELSE /\ command' = [command EXCEPT ![c].stage = stage]
            /\ device' = [device EXCEPT ![u] = Undo(k, @, a, command[c].arg, given)]
    /\ UNCHANGED before

RollbackWithResult(c) == Rollback(c, command[c].data, "undone")
RollbackWithoutResult(c) == command[c].data # None /\ Rollback(c, None, "undone_blind")

Step(c, k) ==
    \/ \E call \in Calls(k, c) :
          ExecuteSucceeds(c, k, call[1], call[2]) \/ ExecuteFails(c, k, call[1], call[2])
    \/ command[c].cap = k /\ (RollbackWithResult(c) \/ RollbackWithoutResult(c))

Next == \E c \in Commands, k \in Capabilities : Step(c, k)
Spec == Init /\ [][Next]_vars

-----------------------------------------------------------------------------
(***************************************************************************)
(* What must hold.                                                         *)
(***************************************************************************)
Stages == {"idle", "done", "failed", "undone", "undone_blind", "undo_raised"}

\* The state behind every bridge keeps its type: modes, orientations and timeouts are
\* ones the bridge knows (bridge/system.py, network.py, telephony.py, files.py).
DevicesTypeOK ==
    /\ \A k \in Controls : device[k] \in Setting(k)
    /\ device["network"] \in NetworkState
    /\ device["sms"] \in [inbox : SUBSET Messages, deleted : SUBSET Messages]
    /\ device["contacts"] \in [ContactIds -> Values \cup {None}]
    /\ device["notifications"] \in [active : SUBSET Notifications, dismissed : SUBSET Notifications]
    /\ device["files"] \in [Paths -> Contents \cup {None}]
    /\ device["downloads"] \in [Commands -> DownloadStatus \cup {None}]
    /\ device["gallery"] \subseteq Commands
    /\ \A c \in Commands : command[c].stage \in Stages

\* The volume and the brightness stay within 0..100 whatever is set, stepped, undone and
\* undone without its result, as long as no command has asked for a negative step.  With
\* one they need not: the documents take any int for a step and promise the clamp, the
\* capability passes it on unchecked (volume.py:110-121), and the bridge guards only the
\* end a step should move towards (bridge/system.py:81-93).
LevelsInRange ==
    \A k \in {"volume", "brightness"} :
        (\A c \in Commands :
            /\ command[c].stage # "idle" /\ command[c].cap = k
            /\ command[c].action \in {"up", "down", "increase", "decrease"}
            => command[c].arg >= 0)
        => InRange(k, device[k])

\* The commands whose rollback has what it needs.  Flashlight, vibration, mute
\* and the automatic brightness are undone by the inverse action whatever the
\* state was, a rotation that was free keeps the new orientation, and a paired
\* device is in no pre_state.
Exact(k, a) ==
    \/ k = "volume" /\ a \in {"set", "up", "down"}
    \/ k = "brightness" /\ a \in {"set", "increase", "decrease"}
    \/ k = "dnd"
    \/ k = "screen_timeout"
    \/ k \in Radios /\ a \notin {"pair", "unpair"}
    \/ k \in {"sms", "contacts", "notifications", "files", "downloads", "gallery"}

\* The state the command left its unit in.
After(c) ==
    LET m == command[c] IN Effect(m.cap, before[c], m.action, m.arg, c)

Undone(c) == command[c].stage = "done" /\ command'[c].stage = "undone"

\* A rollback that finds its unit as the command left it, because nothing has
\* happened since or everything since was itself rolled back, puts back what the
\* command found: nested commands undo in reverse order to the state before the
\* first one (the rollback of every capability against the effect of its bridge).  A
\* level is put back by set, which clamps: one that was out of range is not.
UndoRestoresExactly ==
    [][\A c \in Commands :
         LET m == command[c]
             u == UnitOf(m.cap)
         IN (/\ Undone(c) /\ Exact(m.cap, m.action) /\ device[u] = After(c)
             /\ InRange(m.cap, before[c]))
               => device'[u] = before[c]]_vars

\* The parts of its unit a command is about.
Covers(m) ==
    CASE m.cap = "volume"     -> IF m.action \in {"mute", "unmute"} THEN {"muted"} ELSE {"level"}
      [] m.cap = "brightness" -> IF m.action \in {"auto_on", "auto_off"} THEN {"auto"} ELSE {"level"}
      [] m.cap \in Radios     -> {m.cap}
      [] m.cap = "contacts"   -> {m.data.id}
      [] m.cap = "files"      -> {m.data.path, m.data.to}
      [] m.cap = "downloads"  -> {m.data.id}
Partitioned == {"volume", "brightness", "wifi", "bluetooth", "mobile_data", "contacts", "files", "downloads"}

\* A rollback given its result leaves the other entries and radios alone,
\* whatever other commands did to them in the meantime. It does not hold of the
\* hotspot and of airplane mode, which put every radio back (network.py:116-124).
UndoIsConfined ==
    [][\A c \in Commands :
         LET m == command[c]
             u == UnitOf(m.cap)
         IN (Undone(c) /\ m.cap \in Partitioned)
               => \A f \in DOMAIN device[u] \ Covers(m) : device'[u][f] = device[u][f]]_vars

\* No message is lost or kept twice: it is in the inbox or in the store that
\* delete moves it to (telephony.py:96-128), whatever is deleted, undone and
\* undone without its result.
MessagesConserved ==
    LET s == device["sms"] IN
    s.inbox \cup s.deleted = Messages /\ s.inbox \cap s.deleted = {}

(***************************************************************************)
(* What the repository says and the code does not do.                      *)
(***************************************************************************)

\* "rollback() then uses this to restore exactly" (android-capabilities.md:11)
\* of the controls that capture a pre_state.
CapturedUndoRestores ==
    [][\A c \in Commands :
         LET m == command[c] IN
         (/\ Undone(c) /\ m.cap \in Controls /\ CapturesPreState(m.cap)
          /\ device[m.cap] = After(c))
               => device'[m.cap] = before[c]]_vars

=============================================================================
