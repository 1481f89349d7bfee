-------------------------- MODULE OperationModeProofs --------------------------
(***************************************************************************)
(* OperationMode keeps its types, and the mode in memory is the saved one  *)
(* whenever no switch is under way and nothing has made it unsure, for any *)
(* number of operators and alerts.                                         *)
(*                                                                         *)
(* The argument is about the last switch that started.  If no other ran    *)
(* beside it (alone), it is the only one under way; once it has written    *)
(* the database it is going to write the same mode into memory; and the    *)
(* float monitor, which looks again before it writes, still finds Normal.  *)
(***************************************************************************)
EXTENDS OperationMode, TLAPS

\* A switch that runs alone is the only one, and a sure state knows no other.
AloneInv ==
    /\ spc[Monitor] \in {"off", "persist", "write"}
    /\ alone => \A s, t \in Switching : s = t
    /\ Switching # {} /\ ~unsure => alone

\* What the switch that runs alone finds, step by step.
SwitchInv ==
    /\ alone => \A s \in Setters : spc[s] = "write" => savedMode = want[s]
    /\ alone /\ Monitor \in Switching => mode = "normal"
    /\ ~unsure => \A s \in Setters : spc[s] = "persist" => mode = savedMode

ModeInv == ModeTypeOK /\ AloneInv /\ SwitchInv /\ ModeSaved

--------------------------------------------------------------------------------

\* The setters are disjoint.
LEMMA ModeConstants ==
    /\ Monitor \in Setters /\ Operators \subseteq Setters /\ Escalations \subseteq Setters
    /\ Monitor \notin Operators /\ Monitor \notin Escalations
  BY ModeAssumption DEF Setters

\* The start of the process.
LEMMA ModeInitInv == ModeInit => ModeInv
<1> SUFFICES ASSUME ModeInit PROVE ModeInv
  OBVIOUS
<1> USE ModeConstants DEF ModeInit
<1>1. ModeTypeOK
  <2>1. alone \in BOOLEAN /\ unsure \in BOOLEAN
    BY Zenon
  <2>2. /\ mode \in Modes /\ savedMode \in Modes
        /\ spc \in [Setters -> {"off", "burst", "ratio", "bursts", "ratios", "current",
                                "check", "persist", "write"}]
        /\ want \in [Setters -> Modes]
        /\ bursts \in 0..2 /\ ratios \in 0..2 /\ seenBursts \in [Setters -> 0..2]
    BY DEF Modes
  <2> QED  BY <2>1, <2>2 DEF ModeTypeOK
<1>2. Switching = {}
  BY DEF Switching
<1>3. AloneInv
  BY <1>2 DEF AloneInv
<1>4. SwitchInv /\ ModeSaved
  BY <1>2 DEF SwitchInv, ModeSaved
<1> QED  BY <1>1, <1>3, <1>4 DEF ModeInv

\* A step that moves one setter between labels outside a switch and leaves
\* both copies of the mode, the wish of every other setter and the history
\* alone.
LEMMA OutsideInv ==
    ASSUME ModeInv, ModeTypeOK', NEW s \in Setters, s # Monitor,
           spc[s] \notin {"persist", "write"},
           NEW l \in {"off", "burst", "ratio", "bursts", "ratios", "current", "check"},
           Label(s, l),
           \A t \in Setters : t # s => want'[t] = want[t],
           UNCHANGED <<mode, savedMode, alone, unsure>>
    PROVE  ModeInv'
<1> USE ModeConstants DEF ModeInv, Label
<1>1. Switching' = Switching
  BY DEF ModeTypeOK, Switching
<1>2. AloneInv'
  BY <1>1 DEF AloneInv, ModeTypeOK
<1>3. SwitchInv'
  BY <1>1 DEF SwitchInv, ModeTypeOK
<1>4. ModeSaved'
  BY <1>1 DEF ModeSaved
<1> QED  BY <1>2, <1>3, <1>4

\* A setter leaves the switch without having written memory, and what it may
\* have saved makes the state unsure.
LEMMA LeavesInv ==
    ASSUME ModeInv, NEW s \in Setters, spc[s] = "persist", Off(s),
           mode' = mode, alone' = alone, UNCHANGED eventVars,
           \/ savedMode' = savedMode /\ unsure' = unsure
           \/ savedMode' = want[s] /\ unsure' = TRUE
    PROVE  ModeInv'
<1> USE ModeConstants DEF ModeInv, Off, Label
<1>1. ModeTypeOK'
  <2>1. savedMode' \in Modes /\ unsure' \in BOOLEAN
    BY DEF ModeTypeOK
  <2>2. /\ spc' \in [Setters -> {"off", "burst", "ratio", "bursts", "ratios", "current",
                                 "check", "persist", "write"}]
        /\ want' \in [Setters -> Modes] /\ seenBursts' \in [Setters -> 0..2]
    BY DEF ModeTypeOK, Modes
  <2> QED  BY <2>1, <2>2 DEF ModeTypeOK, eventVars
<1>2. s \in Switching /\ Switching' = Switching \ {s}
  BY <1>1 DEF ModeTypeOK, Switching
<1>3. AloneInv'
  BY <1>2 DEF AloneInv, ModeTypeOK
<1>4. alone => Switching' = {}
  BY <1>2 DEF AloneInv
<1>5. SwitchInv'
  BY <1>2, <1>3, <1>4 DEF SwitchInv, AloneInv, Switching, ModeTypeOK
<1>6. ModeSaved'
  BY <1>2 DEF ModeSaved, SwitchInv
<1> QED  BY <1>1, <1>3, <1>5, <1>6

\* A setter enters the switch.
LEMMA EntersInv ==
    ASSUME ModeInv, NEW s \in Setters, spc[s] \in {"off", "check"},
           s = Monitor => mode = "normal",
           Label(s, "persist"), StartsSwitch,
           \A t \in Setters : t # s => want'[t] = want[t], want' \in [Setters -> Modes],
           UNCHANGED <<mode, savedMode, eventVars, seenBursts>>
    PROVE  ModeInv'
<1> USE ModeConstants DEF ModeInv, StartsSwitch, Label
<1>1. ModeTypeOK'
  BY DEF ModeTypeOK, eventVars
<1>2. s \notin Switching /\ Switching' = Switching \cup {s}
  BY <1>1 DEF ModeTypeOK, Switching
<1>3. AloneInv'
  BY <1>2 DEF AloneInv, ModeTypeOK
<1>4. SwitchInv'
  <2>1. alone' => \A t \in Setters : spc'[t] # "write"
    BY <1>2 DEF Switching, ModeTypeOK
  <2>2. alone' /\ Monitor \in Switching' => mode' = "normal"
    BY <1>2
  <2>3. ~unsure' => mode' = savedMode'
    BY DEF ModeSaved
  <2> QED  BY <2>1, <2>2, <2>3 DEF SwitchInv
<1>5. ModeSaved'
  BY <1>2 DEF ModeSaved
<1> QED  BY <1>1, <1>3, <1>4, <1>5

\* The database is written: memory is to follow.
LEMMA PersistInv ==
    ASSUME ModeInv, NEW s \in Setters, Persist(s)
    PROVE  ModeInv'
<1> USE ModeConstants DEF ModeInv, Persist, Label
<1>1. ModeTypeOK'
  BY DEF ModeTypeOK, eventVars
<1>2. s \in Switching /\ Switching' = Switching
  BY <1>1 DEF ModeTypeOK, Switching
<1>3. AloneInv'
  BY <1>2 DEF AloneInv, ModeTypeOK
<1>4. SwitchInv'
  <2>1. alone => \A t \in Setters : t # s => spc[t] \notin {"persist", "write"}
    BY <1>2 DEF AloneInv, Switching
  <2>2. ~unsure => alone
    BY <1>2 DEF AloneInv
  <2> QED  BY <1>2, <2>1, <2>2 DEF SwitchInv, ModeTypeOK
<1>5. ModeSaved'
  BY <1>2 DEF ModeSaved
<1> QED  BY <1>1, <1>3, <1>4, <1>5

\* Memory is written: a switch that ran alone has put the copies right.
LEMMA WriteInv ==
    ASSUME ModeInv, NEW s \in Setters, Write(s)
    PROVE  ModeInv'
<1> USE ModeConstants DEF ModeInv, Write, Off, Label
<1>1. ModeTypeOK'
  BY DEF ModeTypeOK, Modes, eventVars
<1>2. s \in Switching /\ Switching' = Switching \ {s}
  BY <1>1 DEF ModeTypeOK, Switching
<1>3. alone => Switching' = {} /\ mode' = savedMode'
  BY <1>2 DEF AloneInv, SwitchInv, ModeTypeOK
<1>4. ~unsure' => alone
  BY <1>2 DEF AloneInv
<1>5. AloneInv'
  BY <1>2, <1>3, <1>4 DEF AloneInv, ModeTypeOK
<1>6. SwitchInv'
  BY <1>3, <1>4 DEF SwitchInv, Switching
<1>7. ModeSaved'
  BY <1>3, <1>4 DEF ModeSaved
<1> QED  BY <1>1, <1>5, <1>6, <1>7

\* set_operation_mode and its failures.
LEMMA SetModeInv ==
    ASSUME ModeInv, NEW s \in Setters, SetMode(s) \/ SetModeFails(s)
    PROVE  ModeInv'
<1>1. CASE Check(s)
  <2> USE ModeConstants, <1>1 DEF Check
  <2>1. s # Monitor
    BY DEF ModeInv, AloneInv
  <2>2. CASE mode = want[s]
    <3>1. ModeTypeOK'
      BY <2>2 DEF ModeInv, ModeTypeOK, Off, Label, Modes, eventVars
    <3>2. Label(s, "off") /\ \A t \in Setters : t # s => want'[t] = want[t]
      BY <2>2 DEF Off, ModeInv, ModeTypeOK
    <3> QED  BY <2>1, <2>2, <3>1, <3>2, OutsideInv
  <2>3. CASE mode # want[s]
    BY <2>1, <2>3, EntersInv DEF ModeInv, ModeTypeOK
  <2> QED  BY <2>2, <2>3
<1>2. CASE Persist(s)
  BY <1>2, PersistInv
<1>3. CASE Write(s)
  BY <1>3, WriteInv
<1>4. CASE PersistFails(s) \/ PersistLost(s)
  BY <1>4, LeavesInv DEF PersistFails, PersistLost
<1> QED  BY <1>1, <1>2, <1>3, <1>4 DEF SetMode, SetModeFails

\* An operator asks for a mode.
LEMMA OperatorSwitchInv ==
    ASSUME ModeInv, NEW o \in Operators, NEW m \in Modes, OperatorSwitch(o, m)
    PROVE  ModeInv'
<1> USE ModeConstants DEF OperatorSwitch
<1>1. ModeTypeOK'
  BY DEF ModeInv, ModeTypeOK, Label, eventVars
<1>2. \A t \in Setters : t # o => want'[t] = want[t]
  BY DEF ModeInv, ModeTypeOK
<1> QED  BY <1>1, <1>2, OutsideInv

\* An alert and the escalation it spawns, up to set_operation_mode.
LEMMA EscalationInv ==
    ASSUME ModeInv, NEW a \in Escalations,
           \/ \E kind \in {"burst", "ratio"} : Alert(a, kind)
           \/ RecordEvent(a) \/ CountBursts(a) \/ ChooseTarget(a)
           \/ Escalate(a) \/ EscalationFails(a)
    PROVE  ModeInv'
<1> USE ModeConstants
<1>1. ModeTypeOK'
  <2>1. CASE \E kind \in {"burst", "ratio"} : Alert(a, kind)
    BY <2>1 DEF Alert, ModeInv, ModeTypeOK, Label, eventVars
  <2>2. CASE RecordEvent(a)
    BY <2>2 DEF RecordEvent, AtMost2, ModeInv, ModeTypeOK, Label
  <2>3. CASE CountBursts(a) \/ ChooseTarget(a)
    BY <2>3 DEF CountBursts, ChooseTarget, ModeInv, ModeTypeOK, Modes, Label, eventVars
  <2>4. CASE Escalate(a) \/ EscalationFails(a)
    BY <2>4 DEF Escalate, EscalationFails, Off, ModeInv, ModeTypeOK, Modes, Label, eventVars
  <2> QED  BY <2>1, <2>2, <2>3, <2>4
<1>2. /\ spc[a] \notin {"persist", "write"}
      /\ \E l \in {"off", "burst", "ratio", "bursts", "ratios", "current", "check"} : Label(a, l)
      /\ \A t \in Setters : t # a => want'[t] = want[t]
      /\ UNCHANGED <<mode, savedMode, alone, unsure>>
  BY DEF Alert, RecordEvent, CountBursts, ChooseTarget, Escalate, EscalationFails,
         Off, ModeInv, ModeTypeOK
<1> QED  BY <1>1, <1>2, OutsideInv

\* The events age, or the process starts again.
LEMMA ModeRestartInv ==
    ASSUME ModeInv, EventsAge \/ (\E loaded \in BOOLEAN : ModeRestart(loaded))
    PROVE  ModeInv'
<1>1. CASE EventsAge
  BY <1>1 DEF EventsAge, ModeInv, ModeTypeOK, AloneInv, SwitchInv, ModeSaved, Switching
<1>2. ASSUME NEW loaded \in BOOLEAN, ModeRestart(loaded)
      PROVE  ModeInv'
  <2> USE <1>2, ModeConstants DEF ModeRestart
  <2>1. alone' \in BOOLEAN /\ unsure' \in BOOLEAN
    BY Zenon
  <2>2. /\ mode' \in Modes /\ savedMode' \in Modes
        /\ spc' \in [Setters -> {"off", "burst", "ratio", "bursts", "ratios", "current",
                                 "check", "persist", "write"}]
        /\ want' \in [Setters -> Modes]
        /\ bursts' \in 0..2 /\ ratios' \in 0..2 /\ seenBursts' \in [Setters -> 0..2]
    BY DEF ModeInv, ModeTypeOK, Modes, eventVars
  <2>3. Switching' = {}
    BY DEF Switching
  <2>4. AloneInv'
    BY <2>3 DEF AloneInv
  <2>5. ~unsure' => mode' = savedMode'
    BY DEF eventVars
  <2>6. SwitchInv' /\ ModeSaved'
    BY <2>3, <2>5 DEF SwitchInv, ModeSaved
  <2> QED  BY <2>1, <2>2, <2>4, <2>6 DEF ModeInv, ModeTypeOK
<1> QED  BY <1>1, <1>2

\* The float monitor finds too little.
LEMMA LowFloatInv == ModeInv /\ LowFloat => ModeInv'
<1> SUFFICES ASSUME ModeInv, LowFloat PROVE ModeInv'
  OBVIOUS
<1>1. /\ want' \in [Setters -> Modes]
      /\ \A t \in Setters : t # Monitor => want'[t] = want[t]
  BY ModeConstants DEF LowFloat, ModeInv, ModeTypeOK, Modes
<1> QED  BY <1>1, ModeConstants, EntersInv DEF LowFloat

\* Every step of the mode keeps the invariant.
LEMMA ModeNextInv == ModeInv /\ [ModeNext]_modeVars => ModeInv'
<1> SUFFICES ASSUME ModeInv, [ModeNext]_modeVars PROVE ModeInv'
  OBVIOUS
<1>1. CASE UNCHANGED modeVars
  BY <1>1 DEF modeVars, eventVars, ModeInv, ModeTypeOK, AloneInv, SwitchInv,
              ModeSaved, Switching
<1>2. CASE \E o \in Operators, m \in Modes : OperatorSwitch(o, m)
  BY <1>2, OperatorSwitchInv
<1>3. CASE \E s \in Setters : SetMode(s) \/ SetModeFails(s)
  BY <1>3, SetModeInv
<1>4. CASE \E a \in Escalations :
             \/ RecordEvent(a) \/ CountBursts(a) \/ ChooseTarget(a)
             \/ Escalate(a) \/ EscalationFails(a)
  BY <1>4, EscalationInv
<1>5. CASE \E a \in Escalations, kind \in {"burst", "ratio"} : Alert(a, kind)
  BY <1>5, EscalationInv
<1>6. CASE LowFloat
  BY <1>6, LowFloatInv
<1>7. CASE EventsAge \/ (\E loaded \in BOOLEAN : ModeRestart(loaded))
  BY <1>7, ModeRestartInv
<1> QED  BY <1>1, <1>2, <1>3, <1>4, <1>5, <1>6, <1>7 DEF ModeNext, ModeStep

--------------------------------------------------------------------------------

\* The inductive invariant holds in every reachable state: types, the switch
\* that runs alone, the copies of the mode.
THEOREM ModeInvariance == ModeSpec => []ModeInv
  BY ModeInitInv, ModeNextInv, PTL DEF ModeSpec

\* ModeSaved (set_operation_mode, monitor_float_levels): the mode in force is
\* the one the next start will load.
THEOREM ModeIsSaved == ModeSpec => []ModeSaved
<1>1. ModeInv => ModeSaved
  BY DEF ModeInv
<1> QED  BY <1>1, ModeInvariance, PTL
================================================================================
