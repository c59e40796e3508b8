---------------------------- MODULE SystemControls ----------------------------
(***************************************************************************)
(* The device controls behind the SystemBridge (core/android/capabilities  *)
(* and bridge/system.py): flashlight, volume, brightness, vibration, do    *)
(* not disturb, rotation and screen timeout.                               *)
(*                                                                         *)
(* For every control: the actions that change it, the arguments its        *)
(* capability lets through, the setting the bridge leaves behind, and the  *)
(* setting a rollback leaves behind.  A bridge call never suspends, so one *)
(* call is one step.  "pre" is the pre_state a rollback finds in the       *)
(* original result, None when there is no result or no pre_state in it. *)
(***************************************************************************)
EXTENDS BridgeContract

CONSTANTS
    MaxLevel,     \* 100, the loudest volume and the brightest screen
    Levels,       \* values that set is called with, legal or not
    Steps,        \* steps that up, down, increase and decrease are called with
    Timeouts      \* the screen timeouts the bridge supports

ASSUME ControlsAssumption ==
    /\ MaxLevel \in Nat \ {0}
    /\ Levels \subseteq Int /\ Steps \subseteq Int
    /\ Timeouts # {}

Controls == {"flashlight", "volume", "brightness", "vibrate", "dnd", "rotation", "screen_timeout"}

Clamp(level) == IF level < 0 THEN 0 ELSE IF level > MaxLevel THEN MaxLevel ELSE level
AtMostFull(level) == IF level > MaxLevel THEN MaxLevel ELSE level
AtLeastZero(level) == IF level < 0 THEN 0 ELSE level

Orientations == {"PORTRAIT", "LANDSCAPE"}
DndModes == {"NORMAL", "PRIORITY", "ALARMS", "SILENT"}

\* The settings a control can have.  The mock starts do-not-disturb in a mode
\* that set does not accept; a level is any integer, for a negative step leaves the
\* range at the end that the bridge does not guard.
Setting(k) ==
    CASE k = "flashlight"     -> BOOLEAN
      [] k = "volume"         -> [level : Int, muted : BOOLEAN]
      [] k = "brightness"     -> [level : Int, auto : BOOLEAN]
      [] k = "vibrate"        -> BOOLEAN
      [] k = "dnd"            -> DndModes \cup {"OFF"}
      [] k = "rotation"       -> [locked : BOOLEAN, orientation : Orientations]
      [] k = "screen_timeout" -> Timeouts

\* No setting is None: a pre_state tells that there was a result.
ASSUME SettingAssumption == \A k \in Controls : None \notin Setting(k)

InitialSetting(k) ==
    CASE k = "flashlight"     -> FALSE
      [] k = "volume"         -> [level |-> MaxLevel \div 2, muted |-> FALSE]
      [] k = "brightness"     -> [level |-> MaxLevel \div 2, auto |-> TRUE]
      [] k = "vibrate"        -> FALSE
      [] k = "dnd"            -> "OFF"
      [] k = "rotation"       -> [locked |-> FALSE, orientation |-> "PORTRAIT"]
      [] k = "screen_timeout" -> CHOOSE t \in Timeouts : TRUE

-----------------------------------------------------------------------------
\* Mutating actions with the arguments they are called with: <<action, argument>>.
FlashlightCalls == {"on", "off", "toggle"} \X {None}
VolumeCalls == ({"set"} \X Levels) \cup ({"up", "down"} \X Steps) \cup ({"mute", "unmute"} \X {None})
BrightnessCalls ==
    ({"set"} \X Levels) \cup ({"increase", "decrease"} \X Steps) \cup ({"auto_on", "auto_off"} \X {None})
VibrateCalls == ({"start"} \X {"500ms", None}) \cup ({"cancel"} \X {None})
DndCalls == {"set"} \X {"PRIORITY", "SILENT", "OFF"}
RotationCalls == ({"lock"} \X (Orientations \cup {None})) \cup ({"unlock"} \X {None})
TimeoutCalls == {"set"} \X (Timeouts \cup {None})

ControlCalls(k) ==
    CASE k = "flashlight"     -> FlashlightCalls
      [] k = "volume"         -> VolumeCalls
      [] k = "brightness"     -> BrightnessCalls
      [] k = "vibrate"        -> VibrateCalls
      [] k = "dnd"            -> DndCalls
      [] k = "rotation"       -> RotationCalls
      [] k = "screen_timeout" -> TimeoutCalls

\* Of volume and brightness only set is checked: a step is passed on as it is.
\* Vibration wants a duration.
VolumeAccepts(a, x) == a = "set" => x \in 0..MaxLevel
BrightnessAccepts(a, x) == a = "set" => x \in 0..MaxLevel
VibrateAccepts(a, x) == a = "start" => x # None
DndAccepts(a, x) == a = "set" /\ x \in DndModes

\* Mutant: the orientation is not checked.
RotationAccepts_Unchecked(a, x) == a \in {"lock", "unlock"}

RotationAccepts(a, x) == a = "unlock" \/ (a = "lock" /\ x \in Orientations)
TimeoutAccepts(a, x) == a = "set" /\ x \in Timeouts

ControlAccepts(k, a, x) ==
    CASE k = "volume"         -> VolumeAccepts(a, x)
      [] k = "brightness"     -> BrightnessAccepts(a, x)
      [] k = "vibrate"        -> VibrateAccepts(a, x)
      [] k = "dnd"            -> DndAccepts(a, x)
      [] k = "rotation"       -> RotationAccepts(a, x)
      [] k = "screen_timeout" -> TimeoutAccepts(a, x)
      [] OTHER                -> TRUE

-----------------------------------------------------------------------------
\* MockSystemBridge.execute, one section per control.  up and down only guard
\* the end they move towards.
FlashlightEffect(s, a) ==
    CASE a = "on" -> TRUE [] a = "off" -> FALSE [] a = "toggle" -> ~s

\* Mutant: up is not held at the loudest level.
VolumeEffect_Unclamped(s, a, x) ==
    CASE a = "set"    -> [s EXCEPT !.level = Clamp(x)]
      [] a = "up"     -> [s EXCEPT !.level = s.level + x]
      [] a = "down"   -> [s EXCEPT !.level = AtLeastZero(s.level - x)]
      [] a = "mute"   -> [s EXCEPT !.muted = TRUE]
      [] a = "unmute" -> [s EXCEPT !.muted = FALSE]

VolumeEffect(s, a, x) ==
    CASE a = "set"    -> [s EXCEPT !.level = Clamp(x)]
      [] a = "up"     -> [s EXCEPT !.level = AtMostFull(s.level + x)]
      [] a = "down"   -> [s EXCEPT !.level = AtLeastZero(s.level - x)]
      [] a = "mute"   -> [s EXCEPT !.muted = TRUE]
      [] a = "unmute" -> [s EXCEPT !.muted = FALSE]

BrightnessEffect(s, a, x) ==
    CASE a = "set"      -> [s EXCEPT !.level = Clamp(x)]
      [] a = "increase" -> [s EXCEPT !.level = AtMostFull(s.level + x)]
      [] a = "decrease" -> [s EXCEPT !.level = AtLeastZero(s.level - x)]
      [] a = "auto_on"  -> [s EXCEPT !.auto = TRUE]
      [] a = "auto_off" -> [s EXCEPT !.auto = FALSE]

VibrateEffect(s, a) == a = "start"
DndEffect(s, x) == x
RotationEffect(s, a, x) ==
    CASE a = "lock"   -> [locked |-> TRUE, orientation |-> x]
      [] a = "unlock" -> [s EXCEPT !.locked = FALSE]
TimeoutEffect(s, x) == x

ControlEffect(k, s, a, x) ==
    CASE k = "flashlight"     -> FlashlightEffect(s, a)
      [] k = "volume"         -> VolumeEffect(s, a, x)
      [] k = "brightness"     -> BrightnessEffect(s, a, x)
      [] k = "vibrate"        -> VibrateEffect(s, a)
      [] k = "dnd"            -> DndEffect(s, x)
      [] k = "rotation"       -> RotationEffect(s, a, x)
      [] k = "screen_timeout" -> TimeoutEffect(s, x)

\* A level the bridge's set can put back: it clamps.
InRange(k, s) == k \in {"volume", "brightness"} => s.level \in 0..MaxLevel

\* The controls whose bridge answers carry a pre_state.
CapturesPreState(k) == k \notin {"flashlight", "vibrate"}

-----------------------------------------------------------------------------
\* rollback(), one section per capability.  Without a pre_state it applies the
\* inverse action, or nothing where there is no inverse.
FlashlightUndo(s, a) ==
    CASE a = "on" -> FALSE [] a = "off" -> TRUE [] a = "toggle" -> ~s

\* mute and unmute are inverted whatever pre_state says.
VolumeUndo(s, a, x, pre) ==
    CASE a \in {"set", "up", "down"} /\ pre # None -> VolumeEffect(s, "set", pre.level)
      [] a = "up" /\ pre = None   -> VolumeEffect(s, "down", x)
      [] a = "down" /\ pre = None -> VolumeEffect(s, "up", x)
      [] a = "mute"   -> VolumeEffect(s, "unmute", None)
      [] a = "unmute" -> VolumeEffect(s, "mute", None)
      [] OTHER        -> s

BrightnessUndo(s, a, x, pre) ==
    CASE a \in {"set", "increase", "decrease"} /\ pre # None
                         -> BrightnessEffect(s, "set", pre.level)
      [] a = "increase" /\ pre = None -> BrightnessEffect(s, "decrease", x)
      [] a = "decrease" /\ pre = None -> BrightnessEffect(s, "increase", x)
      [] a = "auto_on"   -> BrightnessEffect(s, "auto_off", None)
      [] a = "auto_off"  -> BrightnessEffect(s, "auto_on", None)
      [] OTHER           -> s

VibrateUndo(s, a) == IF a = "start" THEN FALSE ELSE s

DndUndo(s, pre) == IF pre # None THEN pre ELSE "NORMAL"

\* A control that was unlocked is unlocked again and keeps the new orientation.
RotationUndo(s, a, pre) ==
    CASE pre # None /\ pre.locked  -> RotationEffect(s, "lock", pre.orientation)
      [] pre # None /\ ~pre.locked -> RotationEffect(s, "unlock", None)
      [] pre = None /\ a = "lock"  -> RotationEffect(s, "unlock", None)
      [] pre = None /\ a = "unlock" -> RotationEffect(s, "lock", "PORTRAIT")

TimeoutUndo(s, pre) == IF pre # None THEN pre ELSE s

ControlUndo(k, s, a, x, pre) ==
    CASE k = "flashlight"     -> FlashlightUndo(s, a)
      [] k = "volume"         -> VolumeUndo(s, a, x, pre)
      [] k = "brightness"     -> BrightnessUndo(s, a, x, pre)
      [] k = "vibrate"        -> VibrateUndo(s, a)
      [] k = "dnd"            -> DndUndo(s, pre)
      [] k = "rotation"       -> RotationUndo(s, a, pre)
      [] k = "screen_timeout" -> TimeoutUndo(s, pre)

=============================================================================
