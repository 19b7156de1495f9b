---------------------------- MODULE ControlLoop ----------------------------
(***************************************************************************)
(* The decision chain of one agent cycle (agent/src/runtime.cpp,           *)
(* run_cycles): the trigger context of the window, the PSI gate            *)
(* (agent/src/psi_gate.cpp, tick), the control mode with its hysteresis,   *)
(* the profile of each class of workload, and the settings that the cgroup *)
(* backend writes for it.                                                  *)
(*                                                                         *)
(* The chain is sequential; what makes it hard is that three filters with  *)
(* memory (gate, cooldown clock, hysteresis) are connected in series and   *)
(* see arbitrary sequences of windows.  One step is one cycle.             *)
(***************************************************************************)
EXTENDS Integers

CONSTANTS
  Windows,            \* the trigger contexts that may occur
  GateModes,          \* the configured --gate-mode values
  ActivationWindows,  \* EULERPILOT_GATE_ACTIVATION_WINDOWS (2)
  RecoveryWindows,    \* EULERPILOT_GATE_RECOVERY_WINDOWS (3)
  CooldownTime,       \* EULERPILOT_GATE_COOLDOWN_MS (2000)
  Elapsed,            \* the time one cycle may take
  EnterLatency,       \* enter_latency_requires (2)
  EnterMixed,         \* enter_mixed_requires (2)
  ExitToNormal,       \* exit_to_normal_requires (5)
  Warmup,             \* warmup_cycles: cycles that are dry runs
  ThroughputFirst,    \* EULERPILOT_THROUGHPUT_FIRST
  StreakBound         \* bound: streaks above every threshold are alike

GateStates   == {"NORMAL", "ARMED", "ACTIVE", "COOLDOWN"}
ControlModes == {"Normal", "Latency", "Mixed"}
Groups       == {"latency", "background", "batch"}
Settings     == {"none", "latency", "light", "heavy", "batch"}

\* What build_trigger_context tells of a window.  psi: CPU pressure is high
\* or the PSI trigger fired; latency: a latency service exists; wait: one of
\* them waited too long; background: a managed background task ran; busy: it
\* ran too long; noisy, batch: there are samples of these classes.
TriggerContext ==
  {w \in [{"psi", "latency", "wait", "background", "busy", "noisy", "batch"} ->
            BOOLEAN] :
     (w.wait => w.latency) /\ (w.busy => w.background) /\ (w.background => w.noisy)}

ASSUME WindowsAssumption ==
  /\ Windows # {} /\ Windows \subseteq TriggerContext
  /\ GateModes \subseteq {"psi", "normal", "always-active"}
  /\ ThroughputFirst \in BOOLEAN

ASSUME ThresholdsAssumption ==
  /\ ActivationWindows \in Nat \ {0} /\ RecoveryWindows \in Nat \ {0}
  /\ EnterLatency \in Nat \ {0} /\ EnterMixed \in Nat \ {0}
  /\ ExitToNormal \in Nat \ {0}
  /\ CooldownTime \in Nat /\ Warmup \in Nat
  /\ Elapsed \subseteq Nat \ {0}
  /\ StreakBound \in Nat
  /\ StreakBound >= EnterLatency /\ StreakBound >= EnterMixed
  /\ StreakBound >= ExitToNormal

VARIABLES
  gateMode,          \* mode_, fixed when the gate starts
  gate,              \* state_
  activation_streak,
  recovery_streak,
  cooldownAge,       \* time since cooldown_started_at_ns_
  mode,              \* current_mode
  latency_streak,
  mixed_streak,
  normal_streak,
  cycle,             \* cycles done, up to Warmup
  groups,            \* group -> the settings last written to it
  window,            \* the trigger context of the last cycle
  evidenceRun,       \* history: latest windows in a row with enough evidence
  confirmed,         \* history: there were ActivationWindows of them in a row
  sincePressing      \* history: windows since the gate was pressing

gateVars == <<gate, activation_streak, recovery_streak, cooldownAge>>
modeVars == <<mode, latency_streak, mixed_streak, normal_streak>>
history  == <<window, evidenceRun, confirmed, sincePressing>>
vars     == <<gateMode, gateVars, modeVars, cycle, groups, history>>

\* At least two of the three pieces of evidence.
Evident(w) == \/ w.psi /\ w.wait
              \/ w.psi /\ w.busy
              \/ w.wait /\ w.busy

Pressing(g) == g \in {"ACTIVE", "COOLDOWN"}

Bump(n) == IF n < StreakBound THEN n + 1 ELSE n

Init ==
  /\ gateMode \in GateModes
  /\ gate = "NORMAL"
  /\ activation_streak = 0 /\ recovery_streak = 0 /\ cooldownAge = 0
  /\ mode = "Normal"
  /\ latency_streak = 0 /\ mixed_streak = 0 /\ normal_streak = 0
  /\ cycle = 0
  /\ groups = [g \in Groups |-> "none"]
  /\ window \in {w \in Windows : ~Evident(w)}
  /\ evidenceRun = 0 /\ confirmed = FALSE
  /\ sincePressing = ExitToNormal
-----------------------------------------------------------------------------
(* PsiGateSkill::tick.  (A definition with a suffix such as "_sticky" is a  *)
(* plausible bug of the one after it.)                                     *)

TickNormal(w) ==
  /\ gate = "NORMAL"
  /\ gate' = IF w.latency /\ w.background THEN "ARMED" ELSE "NORMAL"
  /\ UNCHANGED <<activation_streak, recovery_streak, cooldownAge>>

Disarms(w) == ~w.latency \/ (~w.background /\ ~Evident(w))

TickArmed(w) ==
  /\ gate = "ARMED"
  /\ UNCHANGED <<recovery_streak, cooldownAge>>
  /\ \/ /\ Disarms(w)
        /\ gate' = "NORMAL" /\ activation_streak' = 0
     \/ /\ ~Disarms(w) /\ ~Evident(w)
        /\ activation_streak' = 0
        /\ UNCHANGED gate
     \/ /\ ~Disarms(w) /\ Evident(w)
        /\ activation_streak + 1 < ActivationWindows
        /\ activation_streak' = activation_streak + 1
        /\ UNCHANGED gate
     \/ /\ ~Disarms(w) /\ Evident(w)
        /\ activation_streak + 1 >= ActivationWindows
        /\ gate' = "ACTIVE" /\ activation_streak' = 0

\* Waiting latency services do not keep the gate active.
Relieved_psi(w) == ~w.background \/ ~w.psi

Relieved(w) == \/ ~w.background /\ ~w.psi
               \/ ~w.background /\ ~w.busy
               \/ ~w.psi /\ ~w.wait

TickActive(w) ==
  /\ gate = "ACTIVE"
  /\ UNCHANGED activation_streak
  /\ \/ /\ ~Relieved(w)
        /\ recovery_streak' = 0
        /\ UNCHANGED <<gate, cooldownAge>>
     \/ /\ Relieved(w) /\ recovery_streak + 1 < RecoveryWindows
        /\ recovery_streak' = recovery_streak + 1
        /\ UNCHANGED <<gate, cooldownAge>>
     \/ /\ Relieved(w) /\ recovery_streak + 1 >= RecoveryWindows
        /\ gate' = "COOLDOWN"
        /\ cooldownAge' = 0 /\ recovery_streak' = 0

\* The clock starts again in every window.
TickCooldown_restarts(w, t) ==
  /\ gate = "COOLDOWN"
  /\ UNCHANGED <<activation_streak, recovery_streak>>
  /\ \/ /\ w.background /\ Evident(w)
        /\ gate' = "ACTIVE" /\ cooldownAge' = 0
     \/ /\ ~(w.background /\ Evident(w)) /\ t >= CooldownTime
        /\ gate' = "NORMAL" /\ cooldownAge' = 0
     \/ /\ ~(w.background /\ Evident(w)) /\ t < CooldownTime
        /\ UNCHANGED <<gate, cooldownAge>>

\* One window of evidence re-activates; whether a latency service exists is
\* not asked.
TickCooldown(w, t) ==
  /\ gate = "COOLDOWN"
  /\ UNCHANGED <<activation_streak, recovery_streak>>
  /\ \/ /\ w.background /\ Evident(w)
        /\ gate' = "ACTIVE" /\ cooldownAge' = 0
     \/ /\ ~(w.background /\ Evident(w)) /\ cooldownAge + t >= CooldownTime
        /\ gate' = "NORMAL" /\ cooldownAge' = 0
     \/ /\ ~(w.background /\ Evident(w)) /\ cooldownAge + t < CooldownTime
        /\ cooldownAge' = cooldownAge + t
        /\ UNCHANGED gate

TickFixed ==
  /\ gate' = IF gateMode = "always-active" THEN "ACTIVE" ELSE "NORMAL"
  /\ UNCHANGED <<activation_streak, recovery_streak, cooldownAge>>

Tick(w, t) ==
  \/ gateMode # "psi" /\ TickFixed
  \/ /\ gateMode = "psi"
     /\ TickNormal(w) \/ TickArmed(w) \/ TickActive(w) \/ TickCooldown(w, t)
-----------------------------------------------------------------------------
(* The control mode: run_cycles and update_mode_with_hysteresis.           *)

\* An armed gate presses as well.
Desired_armed(w, g) ==
  IF g = "NORMAL" THEN "Normal" ELSE IF w.wait THEN "Mixed" ELSE "Latency"

\* The gate's state of this cycle, whatever produced it, decides.
Desired(w, g) ==
  IF ~Pressing(g) THEN "Normal" ELSE IF w.wait THEN "Mixed" ELSE "Latency"

\* A streak is not cut by a window that asks for something else.
SwitchMode_uncut(d) ==
  /\ latency_streak' = IF d = "Latency" THEN Bump(latency_streak) ELSE latency_streak
  /\ mixed_streak'   = IF d = "Mixed"   THEN Bump(mixed_streak)   ELSE mixed_streak
  /\ normal_streak'  = IF d = "Normal"  THEN Bump(normal_streak)  ELSE normal_streak
  /\ mode' = IF normal_streak' >= ExitToNormal THEN "Normal"
             ELSE IF mixed_streak' >= EnterMixed THEN "Mixed"
             ELSE IF latency_streak' >= EnterLatency THEN "Latency" ELSE mode

\* Mixed is left for Normal only, never for Latency.
SwitchMode(d) ==
  /\ latency_streak' = IF d = "Latency" THEN Bump(latency_streak) ELSE 0
  /\ mixed_streak'   = IF d = "Mixed"   THEN Bump(mixed_streak)   ELSE 0
  /\ normal_streak'  = IF d = "Normal"  THEN Bump(normal_streak)  ELSE 0
  /\ \/ /\ mode # "Mixed" /\ mixed_streak' >= EnterMixed
        /\ mode' = "Mixed"
     \/ /\ mode = "Normal" /\ mixed_streak' < EnterMixed
        /\ latency_streak' >= EnterLatency
        /\ mode' = "Latency"
     \/ /\ mode # "Normal" /\ normal_streak' >= ExitToNormal
        /\ mixed_streak' < EnterMixed
        /\ mode' = "Normal"
     \/ /\ mode = "Mixed" \/ mixed_streak' < EnterMixed
        /\ mode = "Normal" => latency_streak' < EnterLatency
        /\ mode # "Normal" => normal_streak' < ExitToNormal
        /\ UNCHANGED mode
-----------------------------------------------------------------------------
(* assign_profiles, select_profile_settings and the writes of              *)
(* apply_cgroup_assignment (ResourceControl has those in detail).          *)

\* A profile that names no group ("normal_profile") writes nothing at all.
Written(w, m, g) ==
  CASE g = "latency" /\ w.latency /\ m # "Normal" -> "latency"
    [] g = "background" /\ (w.noisy \/ w.batch) /\ m = "Latency" -> "light"
    [] g = "background" /\ (w.noisy \/ w.batch) /\ m = "Mixed" -> "heavy"
    [] g = "batch" /\ w.batch /\ m = "Normal" /\ ThroughputFirst -> "batch"
    [] OTHER -> groups[g]

\* Without a look at the warm-up.
ApplyProfiles_cold(w) ==
  groups' = [g \in Groups |-> Written(w, mode', g)]

\* The first cycles are dry runs.
ApplyProfiles(w) ==
  groups' = IF cycle < Warmup THEN groups
            ELSE [g \in Groups |-> Written(w, mode', g)]

Remember(w) ==
  /\ window' = w
  /\ evidenceRun' = IF ~Evident(w) THEN 0
                    ELSE IF evidenceRun < ActivationWindows THEN evidenceRun + 1
                    ELSE evidenceRun
  /\ confirmed' = (confirmed \/ evidenceRun' >= ActivationWindows)
  /\ sincePressing' = IF Pressing(gate') THEN 0
                      ELSE IF sincePressing < ExitToNormal THEN sincePressing + 1
                      ELSE sincePressing

Cycle(w, t) ==
  /\ Tick(w, t)
  /\ SwitchMode(Desired(w, gate'))
  /\ ApplyProfiles(w)
  /\ cycle' = IF cycle < Warmup THEN cycle + 1 ELSE cycle
  /\ Remember(w)
  /\ UNCHANGED gateMode

Next == \E w \in Windows, t \in Elapsed : Cycle(w, t)

Spec == Init /\ [][Next]_vars

\* run_cycles sleeps and then runs the next cycle.
FairSpec == Spec /\ WF_vars(Next)
-----------------------------------------------------------------------------
TypeOK ==
  /\ gateMode \in GateModes
  /\ gate \in GateStates
  /\ activation_streak \in 0..ActivationWindows - 1
  /\ recovery_streak \in 0..RecoveryWindows - 1
  /\ cooldownAge \in 0..CooldownTime
  /\ mode \in ControlModes
  /\ latency_streak \in 0..StreakBound
  /\ mixed_streak \in 0..StreakBound
  /\ normal_streak \in 0..StreakBound
  /\ cycle \in 0..Warmup
  /\ groups \in [Groups -> Settings]
  /\ window \in Windows
  /\ evidenceRun \in 0..ActivationWindows
  /\ confirmed \in BOOLEAN
  /\ sincePressing \in 0..ExitToNormal

(* No workload is limited on a hunch: whatever noise the windows carry, a  *)
(* group is written to only after a confirmed run of windows with two of   *)
(* the three pieces of evidence, and never while the warm-up lasts or when *)
(* the gate is configured off.                                             *)
NoHastyLimit ==
  \A g \in {"latency", "background"} : groups[g] # "none" =>
    /\ gateMode = "psi" => confirmed
    /\ gateMode # "normal"
    /\ cycle >= Warmup

(* The mode does not outlive the gate: a mode that limits workloads is     *)
(* dropped within ExitToNormal windows after the gate stopped pressing,    *)
(* however the gate flapped before.                                        *)
ModeFollowsGate == mode # "Normal" => sincePressing < ExitToNormal

(* The gate leaves ARMED for ACTIVE only when the last ActivationWindows   *)
(* windows, without a gap, had two of the three pieces of evidence.        *)
ActivationConfirmed ==
  [][gate = "ARMED" /\ gate' = "ACTIVE" => evidenceRun' >= ActivationWindows
    ]_vars

(* No shortcut back: a limiting mode ends only after ExitToNormal windows  *)
(* in a row in which the gate did not press.                               *)
NoEarlyRelease ==
  [][mode # "Normal" /\ mode' = "Normal" =>
       ~Pressing(gate') /\ sincePressing' >= ExitToNormal
    ]_vars

(* When CPU pressure and waiting services go away for good (background     *)
(* work may go on), the gate stops pressing and the mode returns to        *)
(* Normal, for good.                                                       *)
QuietRelaxes ==
  gateMode = "psi" /\ <>[](~window.psi /\ ~window.wait) =>
    <>[](~Pressing(gate) /\ mode = "Normal")

(* When both workloads stay and the evidence persists, the gate activates  *)
(* and stays active.                                                       *)
PressureActivates ==
  gateMode = "psi" /\ <>[](window.latency /\ window.background /\ Evident(window)) =>
    <>[](gate = "ACTIVE")
=============================================================================
