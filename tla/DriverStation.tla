---------------------------- MODULE DriverStation ----------------------------
(***************************************************************************)
(* What the robot program sees of the driver station (WPILib's, external): *)
(* the mode it commands, the buttons held, and the edge latches behind     *)
(* getButtonPressed / getButtonReleased.  Packets arrive on a thread of    *)
(* their own, between any two reads of the robot program.  A latch is set  *)
(* by a packet in every mode and cleared only by being read.               *)
(***************************************************************************)
EXTENDS Integers

CONSTANT Buttons            \* the buttons a driver uses, among those below

ASSUME ButtonsAssumption ==
  Buttons \subseteq {"RightBumper", "Trigger", "Start", "Select", "B", "X"}

Modes == {"disabled", "autonomous", "teleop"}
EdgeButtons == {"RightBumper", "Trigger"}   \* the ones whose edges are read

VARIABLES
  dsMode,     \* the mode the driver station commands
  held,       \* buttons held in the last packet
  pressed,    \* latched press edges
  released,   \* latched release edges
  settled     \* no mode packet yet since the last loop began

dsVars == <<dsMode, held, pressed, released, settled>>

\* A packet with another set of held buttons.
ButtonsPacket(now) ==
  /\ held' = now
  /\ pressed' = pressed \cup ((now \ held) \cap EdgeButtons)
  /\ released' = released \cup ((held \ now) \cap EdgeButtons)
  /\ UNCHANGED <<dsMode, settled>>

\* A packet with another mode: every change goes through disabled, and nobody
\* enables and disables a robot twice within one loop of 20 ms.
ModePacket ==
  /\ settled
  /\ settled' = FALSE
  /\ \E m \in Modes \ {dsMode} :
       /\ "disabled" \in {m, dsMode}
       /\ dsMode' = m
  /\ UNCHANGED <<held, pressed, released>>

\* Motors follow their last command, unless the robot is disabled.
Enabled == dsMode # "disabled"

DSInit ==
  /\ dsMode \in Modes           \* the program may be restarted in any mode
  /\ held = {}
  /\ pressed = {}
  /\ released = {}
  /\ settled = TRUE

DSTypeOK ==
  /\ dsMode \in Modes
  /\ held \subseteq Buttons
  /\ pressed \subseteq Buttons \cap EdgeButtons
  /\ released \subseteq Buttons \cap EdgeButtons
  /\ settled \in BOOLEAN
==============================================================================
