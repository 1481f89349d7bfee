------------------------------ MODULE OperationMode -----------------------------
(***************************************************************************)
(* The operation mode: one copy in memory, read at every request, and one  *)
(* in the database (app_settings), read at startup.  Operators switch it,  *)
(* alerts escalate it and the float monitor drains; all of them write the  *)
(* database first and memory afterwards, with nothing over both.           *)
(***************************************************************************)
EXTENDS Naturals

CONSTANTS
    Operators,      \* requests of operators (update_operation_mode)
    Escalations,    \* tasks an alert spawns (maybe_auto_switch_operation_mode)
    Monitor         \* the float monitor's task (monitor_float_levels)

Modes == {"normal", "drain", "halt"}
Setters == Operators \cup Escalations \cup {Monitor}

ASSUME ModeAssumption ==
    /\ Operators \cap Escalations = {} /\ Monitor \notin Operators \cup Escalations

VARIABLES
    mode,       \* AppState.operation_mode
    savedMode,  \* app_settings
    spc,        \* where each setter is; "off" when it is not running
    want,       \* the mode it sets
    bursts,     \* security events in the window, counted up to 2
    ratios,
    seenBursts, \* what an escalation counted
    alone,      \* history: no other switch ran beside the last one
    unsure      \* history: two switches overlapped, or an answer was lost

eventVars == <<bursts, ratios>>
modeVars == <<mode, savedMode, spc, want, eventVars, seenBursts, alone, unsure>>

ModeInit ==
    /\ mode \in Modes /\ savedMode = mode
    /\ spc = [s \in Setters |-> "off"] /\ want = [s \in Setters |-> "normal"]
    /\ bursts = 0 /\ ratios = 0 /\ seenBursts = [s \in Setters |-> 0]
    /\ alone = FALSE /\ unsure = FALSE

Label(s, label) == spc' = [spc EXCEPT ![s] = label]
\* The setters between their check and their last write.
Switching == {s \in Setters : spc[s] \in {"persist", "write"}}
StartsSwitch ==
    /\ alone' = (Switching = {})
    /\ unsure' = (unsure \/ Switching # {})
Off(s) ==
    /\ Label(s, "off") /\ want' = [want EXCEPT ![s] = "normal"]
    /\ seenBursts' = [seenBursts EXCEPT ![s] = 0]

--------------------------------------------------------------------------------
(***************************************************************************)
(* set_operation_mode.                                                     *)
(***************************************************************************)

\* An operator asks for a mode.
OperatorSwitch(o, m) ==
    /\ spc[o] = "off" /\ o \in Operators
    /\ Label(o, "check") /\ want' = [want EXCEPT ![o] = m]
    /\ UNCHANGED <<mode, savedMode, eventVars, seenBursts, alone, unsure>>

\* Nothing to do when memory has that mode already.
Check(s) ==
    /\ spc[s] = "check"
    /\ IF mode = want[s]
       THEN Off(s) /\ UNCHANGED <<alone, unsure>>
       ELSE Label(s, "persist") /\ StartsSwitch /\ UNCHANGED <<want, seenBursts>>
    /\ UNCHANGED <<mode, savedMode, eventVars>>

\* persist_operation_mode.
Persist(s) ==
    /\ spc[s] = "persist" /\ savedMode' = want[s] /\ Label(s, "write")
    /\ UNCHANGED <<mode, want, eventVars, seenBursts, alone, unsure>>

\* Mutated form of PersistFails: the error is overlooked.
PersistIgnored(s) ==
    /\ spc[s] = "persist" /\ Label(s, "write")
    /\ UNCHANGED <<mode, savedMode, want, eventVars, seenBursts, alone, unsure>>

\* The database fails: memory keeps its mode and the caller gets the error.
PersistFails(s) ==
    /\ spc[s] = "persist" /\ Off(s)
    /\ UNCHANGED <<mode, savedMode, eventVars, alone, unsure>>

\* It has saved the mode and the answer is lost.
PersistLost(s) ==
    /\ spc[s] = "persist" /\ savedMode' = want[s] /\ Off(s) /\ unsure' = TRUE
    /\ UNCHANGED <<mode, eventVars, alone>>

\* The write of memory.  The float monitor looks again and leaves a mode that
\* is not Normal any more.
Write(s) ==
    /\ spc[s] = "write" /\ Off(s)
    /\ mode' = IF s = Monitor /\ mode # "normal" THEN mode ELSE want[s]
    /\ unsure' = (unsure /\ ~alone)
    /\ UNCHANGED <<savedMode, eventVars, alone>>

SetMode(s) == Check(s) \/ Persist(s) \/ Write(s)
SetModeFails(s) == PersistFails(s) \/ PersistLost(s)

--------------------------------------------------------------------------------
(***************************************************************************)
(* maybe_auto_switch_operation_mode, for the two kinds of alert that       *)
(* escalate.                                                               *)
(***************************************************************************)

\* emit_security_alert spawns the task.
Alert(a, kind) ==
    /\ spc[a] = "off" /\ Label(a, kind)
    /\ UNCHANGED <<mode, savedMode, want, eventVars, seenBursts, alone, unsure>>

AtMost2(n) == IF n < 2 THEN n + 1 ELSE 2

\* record_security_event.
RecordEvent(a) ==
    /\ spc[a] \in {"burst", "ratio"} /\ Label(a, "bursts")
    /\ bursts' = IF spc[a] = "burst" THEN AtMost2(bursts) ELSE bursts
    /\ ratios' = IF spc[a] = "ratio" THEN AtMost2(ratios) ELSE ratios
    /\ UNCHANGED <<mode, savedMode, want, seenBursts, alone, unsure>>

\* count_security_events_since, for bursts.
CountBursts(a) ==
    /\ spc[a] = "bursts" /\ Label(a, "ratios")
    /\ seenBursts' = [seenBursts EXCEPT ![a] = bursts]
    /\ UNCHANGED <<mode, savedMode, want, eventVars, alone, unsure>>

\* The same for ratios, and the mode they call for.
ChooseTarget(a) ==
    /\ spc[a] = "ratios" /\ Label(a, "current")
    /\ want' = [want EXCEPT ![a] =
            IF \/ seenBursts[a] >= 2 \/ ratios >= 2
               \/ seenBursts[a] >= 1 /\ ratios >= 1
            THEN "halt" ELSE "drain"]
    /\ UNCHANGED <<mode, savedMode, eventVars, seenBursts, alone, unsure>>

\* It only escalates: nothing beyond Halt, and no Drain over Drain.  What it
\* reads here may have changed by the time set_operation_mode writes.
Escalate(a) ==
    /\ spc[a] = "current"
    /\ IF mode = "halt" \/ (mode = "drain" /\ want[a] = "drain")
       THEN Off(a)
       ELSE Label(a, "check") /\ UNCHANGED <<want, seenBursts>>
    /\ UNCHANGED <<mode, savedMode, eventVars, alone, unsure>>

\* A failing statement ends the task.
EscalationFails(a) ==
    /\ spc[a] \in {"burst", "ratio", "bursts", "ratios"} /\ Off(a)
    /\ UNCHANGED <<mode, savedMode, eventVars, alone, unsure>>

\* Ten minutes pass, or the events are older than the window.
EventsAge ==
    /\ bursts + ratios > 0 /\ bursts' = 0 /\ ratios' = 0
    /\ UNCHANGED <<mode, savedMode, spc, want, seenBursts, alone, unsure>>

--------------------------------------------------------------------------------
(***************************************************************************)
(* The float monitor and the process.                                      *)
(***************************************************************************)

\* monitor_float_levels finds the total at or below the threshold, which a
\* wallet that cannot be read brings about too: it counts as empty.  It goes
\* on if memory says Normal.
LowFloat ==
    /\ spc[Monitor] = "off" /\ mode = "normal"
    /\ Label(Monitor, "persist") /\ want' = [want EXCEPT ![Monitor] = "drain"]
    /\ StartsSwitch
    /\ UNCHANGED <<mode, savedMode, eventVars, seenBursts>>

\* A start loads the saved mode; if that fails it is Normal.
ModeRestart(loaded) ==
    /\ mode' = IF loaded THEN savedMode ELSE "normal"
    /\ spc' = [s \in Setters |-> "off"] /\ want' = [s \in Setters |-> "normal"]
    /\ seenBursts' = [s \in Setters |-> 0]
    /\ alone' = FALSE /\ unsure' = ~loaded
    /\ UNCHANGED <<savedMode, eventVars>>

ModeStep ==
    \/ \E o \in Operators, m \in Modes : OperatorSwitch(o, m)
    \/ \E s \in Setters : SetMode(s) \/ SetModeFails(s)
    \/ \E a \in Escalations :
        \/ RecordEvent(a) \/ CountBursts(a) \/ ChooseTarget(a)
        \/ Escalate(a) \/ EscalationFails(a)
    \/ LowFloat

ModeNext ==
    \/ ModeStep \/ EventsAge
    \/ \E a \in Escalations, kind \in {"burst", "ratio"} : Alert(a, kind)
    \/ \E loaded \in BOOLEAN : ModeRestart(loaded)

ModeSpec == ModeInit /\ [][ModeNext]_modeVars

--------------------------------------------------------------------------------
(***************************************************************************)
(* Properties.                                                             *)
(***************************************************************************)

ModeTypeOK ==
    /\ mode \in Modes /\ savedMode \in Modes
    /\ spc \in [Setters -> {"off", "burst", "ratio", "bursts", "ratios", "current",
                            "check", "persist", "write"}]
    /\ want \in [Setters -> Modes]
    /\ bursts \in 0..2 /\ ratios \in 0..2 /\ seenBursts \in [Setters -> 0..2]
    /\ alone \in BOOLEAN /\ unsure \in BOOLEAN

\* The mode that is in force is the one the next start will load, unless two
\* switches overlapped, the answer of one was lost, or a start could not load
\* it; and the next switch that runs alone and changes the mode puts the two
\* copies right (set_operation_mode, monitor_float_levels).
ModeSaved == Switching = {} /\ ~unsure => mode = savedMode
================================================================================
