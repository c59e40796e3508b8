---------------------------- MODULE NetworkRadios ----------------------------
(***************************************************************************)
(* The radios behind the NetworkBridge (core/android/bridge/network.py)    *)
(* and the five capabilities that drive them.                              *)
(*                                                                         *)
(* The bridge hands out copies of a radio's dictionary, but the copies are *)
(* shallow: every copy of the Bluetooth radio holds the same list of       *)
(* paired devices.  Pairing is therefore kept outside the radios, and no   *)
(* pre_state remembers it.                                                 *)
(***************************************************************************)
EXTENDS BridgeContract

CONSTANTS
    Ssids,       \* networks wifi.connect is called with
    BtDevices    \* devices pair and unpair are called with

Radios == {"wifi", "bluetooth", "mobile_data", "hotspot", "airplane_mode"}

Wifi == [enabled : BOOLEAN, connected : BOOLEAN, ssid : Ssids \cup {None}]
OnOff == [enabled : BOOLEAN]
On == [enabled |-> TRUE]
Off == [enabled |-> FALSE]

\* A network state, and a snapshot: a function of the radios it covers, never None.
NetworkState ==
    [wifi : Wifi, bluetooth : OnOff, mobile_data : OnOff, hotspot : OnOff, airplane_mode : OnOff,
     paired : SUBSET BtDevices]
Snapshot(n, radios) == [r \in radios |-> n[r]]
ASSUME SnapshotAssumption == \A radios \in SUBSET Radios : None \notin [radios -> Wifi \cup OnOff]

WifiOff == [enabled |-> FALSE, connected |-> FALSE, ssid |-> None]

InitialNetwork ==
    [wifi |-> [WifiOff EXCEPT !.enabled = TRUE], bluetooth |-> Off, mobile_data |-> On,
     hotspot |-> Off, airplane_mode |-> Off, paired |-> {}]

-----------------------------------------------------------------------------
Switch == {"enable", "disable"} \X {None}
WifiCalls == Switch \cup {<<"disconnect", None>>} \cup ({"connect"} \X Ssids)
BluetoothCalls == Switch \cup ({"pair", "unpair"} \X BtDevices)
MobileDataCalls == Switch
HotspotCalls == Switch
AirplaneCalls == Switch

RadioCalls(r) ==
    CASE r = "wifi"          -> WifiCalls
      [] r = "bluetooth"     -> BluetoothCalls
      [] r = "mobile_data"   -> MobileDataCalls
      [] r = "hotspot"       -> HotspotCalls
      [] r = "airplane_mode" -> AirplaneCalls

\* The bridge raises RuntimeError for these.
RadioRefuses(n, r, a) ==
    \/ r = "wifi" /\ a = "connect" /\ ~n.wifi.enabled
    \/ r = "bluetooth" /\ a = "pair" /\ ~n.bluetooth.enabled

WifiEffect(n, a, x) ==
    CASE a = "enable"     -> [n EXCEPT !.wifi.enabled = TRUE]
      [] a = "disable"    -> [n EXCEPT !.wifi = WifiOff]
      [] a = "connect"    -> [n EXCEPT !.wifi.connected = TRUE, !.wifi.ssid = x]
      [] a = "disconnect" -> [n EXCEPT !.wifi.connected = FALSE, !.wifi.ssid = None]

BluetoothEffect(n, a, x) ==
    CASE a = "enable"  -> [n EXCEPT !.bluetooth = On]
      [] a = "disable" -> [n EXCEPT !.bluetooth = Off]
      [] a = "pair"    -> [n EXCEPT !.paired = @ \cup {x}]
      [] a = "unpair"  -> [n EXCEPT !.paired = @ \ {x}]

MobileDataEffect(n, a) == [n EXCEPT !.mobile_data = [enabled |-> a = "enable"]]

\* Enabling the hotspot turns Wi-Fi off; nothing turns it on again.
HotspotEffect(n, a) ==
    IF a = "enable" THEN [n EXCEPT !.hotspot = On, !.wifi = WifiOff]
    ELSE [n EXCEPT !.hotspot = Off]

\* Airplane mode turns everything else off; leaving it turns nothing on.
AirplaneEffect(n, a) ==
    IF a = "enable"
    THEN [n EXCEPT !.airplane_mode = On, !.wifi = WifiOff, !.bluetooth = Off,
                   !.mobile_data = Off, !.hotspot = Off]
    ELSE [n EXCEPT !.airplane_mode = Off]

RadioEffect(n, r, a, x) ==
    CASE r = "wifi"          -> WifiEffect(n, a, x)
      [] r = "bluetooth"     -> BluetoothEffect(n, a, x)
      [] r = "mobile_data"   -> MobileDataEffect(n, a)
      [] r = "hotspot"       -> HotspotEffect(n, a)
      [] r = "airplane_mode" -> AirplaneEffect(n, a)

\* What the result's pre_state covers: wifi, bluetooth and mobile data read the
\* radio's own status first; hotspot and airplane mode get the bridge's
\* snapshot of every radio.
\*
\* Mutants: Wi-Fi takes the bridge's snapshot, the hotspot only its own status.
WifiCapture_AllRadios == Radios
HotspotCapture_OwnRadio == {"hotspot"}

WifiCapture == {"wifi"}
BluetoothCapture == {"bluetooth"}
MobileDataCapture == {"mobile_data"}
HotspotCapture == Radios
AirplaneCapture == Radios
Captured(r) ==
    CASE r = "wifi"          -> WifiCapture
      [] r = "bluetooth"     -> BluetoothCapture
      [] r = "mobile_data"   -> MobileDataCapture
      [] r = "hotspot"       -> HotspotCapture
      [] r = "airplane_mode" -> AirplaneCapture

-----------------------------------------------------------------------------
\* network.state.restore puts back the radios of the snapshot and no others.
Restore(n, snapshot) ==
    [f \in DOMAIN n |-> IF f \in DOMAIN snapshot THEN snapshot[f] ELSE n[f]]

\* rollback() of the capabilities: without a pre_state the inverse action is
\* applied; disconnect, pair and unpair have none.
WifiUndo(n, a, pre) ==
    CASE pre # None                     -> Restore(n, pre)
      [] pre = None /\ a = "enable"     -> WifiEffect(n, "disable", None)
      [] pre = None /\ a = "disable"    -> WifiEffect(n, "enable", None)
      [] pre = None /\ a = "connect"    -> WifiEffect(n, "disconnect", None)
      [] pre = None /\ a = "disconnect" -> n

BluetoothUndo(n, a, pre) ==
    CASE pre # None                      -> Restore(n, pre)
      [] pre = None /\ a = "enable"      -> BluetoothEffect(n, "disable", None)
      [] pre = None /\ a = "disable"     -> BluetoothEffect(n, "enable", None)
      [] pre = None /\ a \in {"pair", "unpair"} -> n

Opposite(a) == IF a = "enable" THEN "disable" ELSE "enable"
MobileDataUndo(n, a, pre) ==
    IF pre # None THEN Restore(n, pre) ELSE MobileDataEffect(n, Opposite(a))
HotspotUndo(n, a, pre) ==
    IF pre # None THEN Restore(n, pre) ELSE HotspotEffect(n, Opposite(a))
AirplaneUndo(n, a, pre) ==
    IF pre # None THEN Restore(n, pre) ELSE AirplaneEffect(n, Opposite(a))

RadioUndo(n, r, a, pre) ==
    CASE r = "wifi"          -> WifiUndo(n, a, pre)
      [] r = "bluetooth"     -> BluetoothUndo(n, a, pre)
      [] r = "mobile_data"   -> MobileDataUndo(n, a, pre)
      [] r = "hotspot"       -> HotspotUndo(n, a, pre)
      [] r = "airplane_mode" -> AirplaneUndo(n, a, pre)

=============================================================================
