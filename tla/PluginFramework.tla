--------------------------- MODULE PluginFramework ---------------------------
(***************************************************************************)
(* PluginManagerImpl (core/plugins/manager.py): concurrent calls that move *)
(* plugins between DISCOVERED, LOADED and ENABLED.  A call writes the new  *)
(* state, then awaits the publish of its event; unloading an enabled       *)
(* plugin disables it first, and writes after that publish.                *)
(***************************************************************************)
EXTENDS EventLoop

CONSTANTS
    Plugins,      \* plugin ids
    Manifests,    \* what a loader may discover: sequences of plugins, valid or not
    MaxPublishes  \* bound on the operations

ASSUME PluginAssumption ==
    /\ Manifests \subseteq Seq([id : Plugins, valid : BOOLEAN])
    /\ None \notin {"ENABLED", "unloading"}

VARIABLES
    plugin,       \* InMemoryPluginRegistry: a state or None, by id
    pluginPc,     \* what a call awaits: None, or the publish of an operation on a plugin
    undiscovered, \* of a running discover: the metadata left
    available,    \* of the health tracker
    published     \* number of events published

pluginVars == <<plugin, pluginPc, undiscovered, available, published>>

PluginStates == {"DISCOVERED", "LOADED", "ENABLED"}
NoWait == [op |-> None, id |-> None]

PluginInit ==
    /\ plugin = [p \in Plugins |-> None]
    /\ pluginPc = [c \in Calls |-> NoWait]
    /\ undiscovered = [c \in Calls |-> << >>]
    /\ available = FALSE
    /\ published = 0

Waits(c, op, p) == pluginPc' = [pluginPc EXCEPT ![c] = [op |-> op, id |-> p]]
Announces(c, op, p) == Waits(c, op, p) /\ published' = published + 1
Free(c) == pluginPc[c] = NoWait /\ undiscovered[c] = << >> /\ published < MaxPublishes

\* start and shutdown only tell the health tracker; nothing is refused after shutdown.
SetAvailable(a) ==
    /\ available # a
    /\ available' = a
    /\ UNCHANGED <<plugin, pluginPc, undiscovered, published>>
CheckHealth == IF available THEN "RUNNING" ELSE "STOPPED"

\* discover: one plugin after the other, with a publish after each. What is
\* registered under the id is overwritten, whatever state it has.
Discover(c) ==
    /\ Free(c)
    /\ \E m \in Manifests : undiscovered' = [undiscovered EXCEPT ![c] = m]
    /\ UNCHANGED <<plugin, pluginPc, available, published>>

DiscoverNext(c) ==
    /\ pluginPc[c] = NoWait /\ undiscovered[c] # << >>
    /\ LET m == Head(undiscovered[c]) IN
       /\ IF m.valid
          THEN plugin' = [plugin EXCEPT ![m.id] = "DISCOVERED"]
          ELSE UNCHANGED plugin
       /\ Announces(c, "discover", m.id)
    /\ undiscovered' = [undiscovered EXCEPT ![c] = Tail(@)]
    /\ UNCHANGED available

Load(c, p) ==
    /\ Free(c) /\ plugin[p] = "DISCOVERED"
    /\ plugin' = [plugin EXCEPT ![p] = "LOADED"]
    /\ Announces(c, "load", p)
    /\ UNCHANGED <<undiscovered, available>>

Enable(c, p) ==
    /\ Free(c) /\ plugin[p] = "LOADED"
    /\ plugin' = [plugin EXCEPT ![p] = "ENABLED"]
    /\ Announces(c, "enable", p)
    /\ UNCHANGED <<undiscovered, available>>

\* disable, called or as the first half of unload.
Disabled(c, p, op) ==
    /\ plugin[p] = "ENABLED"
    /\ plugin' = [plugin EXCEPT ![p] = "LOADED"]
    /\ Announces(c, op, p)
    /\ UNCHANGED <<undiscovered, available>>

Disable(c, p) == Free(c) /\ Disabled(c, p, "disable")

\* The descriptor unload has looked up decides what is stored, not the state the
\* plugin has by then.
Undiscover(c, p) ==
    /\ plugin' = [plugin EXCEPT ![p] = "DISCOVERED"]
    /\ Announces(c, "unload", p)
    /\ UNCHANGED <<undiscovered, available>>

Unload(c, p) ==
    /\ Free(c) /\ plugin[p] # None
    /\ IF plugin[p] = "ENABLED" THEN Disabled(c, p, "unloading") ELSE Undiscover(c, p)

UnloadGoesOn(c) ==
    /\ pluginPc[c].op = "unloading"
    /\ Undiscover(c, pluginPc[c].id)

\* A publish ends, or a middleware raises: a discover and an unload stop there.
PluginPublished(c) ==
    /\ pluginPc[c].op \notin {None, "unloading"}
    /\ Waits(c, None, None)
    /\ UNCHANGED <<plugin, undiscovered, available, published>>

PluginPublishRaised(c) ==
    /\ pluginPc[c] # NoWait
    /\ Waits(c, None, None)
    /\ undiscovered' = [undiscovered EXCEPT ![c] = << >>]
    /\ UNCHANGED <<plugin, available, published>>

PluginNext ==
    \/ \E c \in Calls :
          \/ Discover(c) \/ DiscoverNext(c) \/ UnloadGoesOn(c)
          \/ PluginPublished(c) \/ PluginPublishRaised(c)
          \/ \E p \in Plugins : Load(c, p) \/ Enable(c, p) \/ Disable(c, p) \/ Unload(c, p)
    \/ \E a \in BOOLEAN : SetAvailable(a)

PluginSpec == PluginInit /\ [][PluginNext]_pluginVars

-----------------------------------------------------------------------------
(***************************************************************************)
(* What must hold.                                                         *)
(***************************************************************************)
PluginTypeOK ==
    /\ plugin \in [Plugins -> PluginStates \cup {None}]
    /\ \A c \in Calls : pluginPc[c].id \in Plugins \cup {None}
    /\ CheckHealth = "RUNNING" <=> available

=============================================================================
