------------------------------- MODULE MCAndroid -------------------------------
(***************************************************************************)
(* Small instances of AndroidCommands for TLC.                             *)
(*                                                                         *)
(* The units of the device share nothing, so a behaviour is looked at one  *)
(* unit at a time: "focus" is the unit all its commands are about.         *)
(***************************************************************************)
EXTENDS AndroidCommands, TLC

CONSTANT Focuses    \* the units looked at
VARIABLE focus

MCInit == Init /\ focus \in Focuses
MCNext ==
    /\ \E c \in Commands, k \in Capabilities : UnitOf(k) = focus /\ Step(c, k)
    /\ UNCHANGED focus
MCSpec == MCInit /\ [][MCNext]_<<vars, focus>>

MCUnits == Units

\* 100 stands for its neighbours: a level below, at and above either end.
MCLevels == {-1, 0, 1, MaxLevel, MaxLevel + 1}

\* Steps may be negative.
MCSteps == {-1, 1, 2}

\* The commands are interchangeable.
Symmetry == Permutations(Commands)

=============================================================================
