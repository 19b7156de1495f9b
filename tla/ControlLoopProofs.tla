------------------------- MODULE ControlLoopProofs -------------------------
(***************************************************************************)
(* What ControlLoop guarantees for every choice of the thresholds, of the  *)
(* time a cycle takes and of the windows that occur.                       *)
(*                                                                         *)
(* The invariant follows the chain: the gate's streak never runs ahead of  *)
(* the evidence (GateEarned), the streaks of the mode start only behind a  *)
(* gate that was confirmed (ModeEarned), and in a limiting mode the        *)
(* hysteresis counts exactly the windows since the gate last pressed       *)
(* (ModeCounts).                                                           *)
(***************************************************************************)
EXTENDS ControlLoop, TLAPS

\* What entitles the agent to limit workloads.
Entitled == (gateMode = "psi" => confirmed) /\ gateMode # "normal"

GateEarned ==
  /\ gate = "ARMED" => activation_streak <= evidenceRun /\ gateMode = "psi"
  /\ gate # "ARMED" => activation_streak = 0
  /\ Pressing(gate) => Entitled

ModeEarned ==
  latency_streak > 0 \/ mixed_streak > 0 \/ mode # "Normal" => Entitled

ModeCounts ==
  mode # "Normal" => normal_streak < ExitToNormal /\ sincePressing = normal_streak

IInv == TypeOK /\ GateEarned /\ ModeEarned /\ ModeCounts /\ NoHastyLimit
-----------------------------------------------------------------------------
(* The gate's own step.                                                    *)
LEMMA TickStep ==
  ASSUME TypeOK, GateEarned, NEW w \in Windows, NEW t \in Elapsed,
         Tick(w, t), Remember(w), gateMode' = gateMode
  PROVE  /\ gate' \in GateStates
         /\ activation_streak' \in 0..ActivationWindows - 1
         /\ recovery_streak' \in 0..RecoveryWindows - 1
         /\ cooldownAge' \in 0..CooldownTime
         /\ evidenceRun' \in 0..ActivationWindows
         /\ confirmed' \in BOOLEAN
         /\ sincePressing' \in 0..ExitToNormal
         /\ GateEarned'
<1> USE ThresholdsAssumption, WindowsAssumption DEF TypeOK, GateStates
<1>1. /\ evidenceRun' \in 0..ActivationWindows
      /\ confirmed' \in BOOLEAN
      /\ sincePressing' \in 0..ExitToNormal
  BY DEF Remember
<1>2. Entitled => Entitled'
  BY DEF Entitled, Remember
<1>3. CASE gateMode # "psi" /\ TickFixed
  BY <1>1, <1>2, <1>3 DEF TickFixed, GateEarned, Pressing, Entitled
<1>4. CASE TickNormal(w) /\ gateMode = "psi"
  BY <1>1, <1>2, <1>4 DEF TickNormal, GateEarned, Pressing
<1>5. CASE TickArmed(w) /\ gateMode = "psi"
  <2>1. CASE Disarms(w)
    BY <1>1, <1>2, <1>5, <2>1 DEF TickArmed, GateEarned, Pressing
  <2>2. CASE ~Disarms(w) /\ ~Evident(w)
    BY <1>1, <1>2, <1>5, <2>2 DEF TickArmed, GateEarned, Pressing
  <2>3. CASE ~Disarms(w) /\ Evident(w) /\ activation_streak + 1 < ActivationWindows
    BY <1>1, <1>2, <1>5, <2>3 DEF TickArmed, GateEarned, Pressing, Remember
  <2>4. CASE ~Disarms(w) /\ Evident(w) /\ activation_streak + 1 >= ActivationWindows
    <3>1. evidenceRun' >= ActivationWindows
      BY <1>5, <2>4 DEF TickArmed, GateEarned, Remember
    <3>2. confirmed'
      BY <3>1 DEF Remember
    <3> QED
      BY <1>1, <1>5, <2>4, <3>2 DEF TickArmed, GateEarned, Pressing, Entitled
  <2> QED
    BY <1>5, <2>1, <2>2, <2>3, <2>4
<1>6. CASE TickActive(w) /\ gateMode = "psi"
  BY <1>1, <1>2, <1>6 DEF TickActive, GateEarned, Pressing
<1>7. CASE TickCooldown(w, t) /\ gateMode = "psi"
  BY <1>1, <1>2, <1>7 DEF TickCooldown, GateEarned, Pressing
<1> QED
  BY <1>3, <1>4, <1>5, <1>6, <1>7 DEF Tick

(* The step of the mode, behind whatever the gate now says.                *)
LEMMA SwitchStep ==
  ASSUME TypeOK, GateEarned', ModeEarned, ModeCounts, NEW w \in Windows,
         SwitchMode(Desired(w, gate')), Remember(w), gateMode' = gateMode
  PROVE  /\ mode' \in ControlModes
         /\ latency_streak' \in 0..StreakBound
         /\ mixed_streak' \in 0..StreakBound
         /\ normal_streak' \in 0..StreakBound
         /\ ModeEarned' /\ ModeCounts'
         /\ mode # "Normal" /\ mode' = "Normal" =>
              ~Pressing(gate') /\ sincePressing' >= ExitToNormal
<1> DEFINE d == Desired(w, gate')
<1> USE ThresholdsAssumption, WindowsAssumption DEF TypeOK, ControlModes
<1>1. d \in ControlModes /\ (d = "Normal" <=> ~Pressing(gate'))
  BY DEF Desired
<1>2. /\ latency_streak' \in 0..StreakBound
      /\ mixed_streak' \in 0..StreakBound
      /\ normal_streak' \in 0..StreakBound
      /\ mode' \in ControlModes
  BY DEF SwitchMode, Bump
<1>3. Entitled => Entitled'
  BY DEF Entitled, Remember
<1>4. d # "Normal" => Entitled' /\ normal_streak' = 0 /\ sincePressing' = 0
  BY <1>1 DEF GateEarned, SwitchMode, Remember
<1>5. d = "Normal" => latency_streak' = 0 /\ mixed_streak' = 0
  BY DEF SwitchMode
<1>6. d = "Normal" => /\ normal_streak' = Bump(normal_streak)
                      /\ sincePressing' = IF sincePressing < ExitToNormal
                                          THEN sincePressing + 1 ELSE sincePressing
  BY <1>1 DEF SwitchMode, Remember
<1>7. mode = "Normal" /\ mode' # "Normal" => d # "Normal"
  BY <1>2, <1>5 DEF SwitchMode
<1>8. ModeEarned'
  BY <1>2, <1>3, <1>4, <1>5, <1>7 DEF ModeEarned
<1>9. mode # "Normal" /\ mode' # "Normal" => normal_streak' < ExitToNormal
  <2>1. d = "Normal" => mixed_streak' < EnterMixed
    BY <1>5
  <2>2. d # "Normal" => normal_streak' < ExitToNormal
    BY <1>4
  <2> QED
    BY <2>1, <2>2 DEF SwitchMode
<1>10. ModeCounts'
  <2>1. CASE d # "Normal"
    BY <1>4, <2>1 DEF ModeCounts
  <2>2. CASE d = "Normal"
    BY <1>2, <1>6, <1>7, <1>9, <2>2 DEF ModeCounts, Bump
  <2> QED
    BY <2>1, <2>2
<1>11. ASSUME mode # "Normal", mode' = "Normal"
       PROVE  ~Pressing(gate') /\ sincePressing' >= ExitToNormal
  <2>1. normal_streak' >= ExitToNormal
    BY <1>11 DEF SwitchMode
  <2>2. d = "Normal"
    BY <1>4, <2>1
  <2> QED
    BY <1>1, <1>6, <1>11, <2>1, <2>2 DEF ModeCounts, Bump
<1> QED
  BY <1>2, <1>8, <1>10, <1>11

(* The writes.                                                             *)
LEMMA WrittenType ==
  ASSUME TypeOK, NEW w, NEW m, NEW g \in Groups
  PROVE  Written(w, m, g) \in Settings
BY DEF Written, TypeOK, Settings

LEMMA ApplyStep ==
  ASSUME TypeOK, NoHastyLimit, ModeEarned', NEW w \in Windows, ApplyProfiles(w),
         Remember(w), gateMode' = gateMode,
         cycle' = IF cycle < Warmup THEN cycle + 1 ELSE cycle
  PROVE  /\ groups' \in [Groups -> Settings]
         /\ NoHastyLimit'
<1>1. groups' \in [Groups -> Settings]
  BY WrittenType DEF ApplyProfiles, TypeOK
<1>2. confirmed => confirmed'
  BY DEF Remember
<1>3. CASE cycle < Warmup
  BY <1>2, <1>3, ThresholdsAssumption DEF ApplyProfiles, NoHastyLimit, TypeOK
<1>4. CASE ~(cycle < Warmup)
  <2>1. cycle >= Warmup /\ cycle' = cycle
    BY <1>4, ThresholdsAssumption DEF TypeOK
  <2>2. ASSUME NEW g \in {"latency", "background"}, groups'[g] # "none"
        PROVE  Entitled'
    <3>1. g \in Groups /\ groups'[g] = Written(w, mode', g)
      BY <1>4, <2>2 DEF ApplyProfiles, Groups
    <3>2. CASE mode' # "Normal"
      BY <3>2 DEF ModeEarned
    <3>3. CASE mode' = "Normal"
      <4>1. groups'[g] = groups[g]
        BY <3>1, <3>3, <2>2 DEF Written
      <4> QED
        BY <1>2, <2>2, <4>1 DEF NoHastyLimit, Entitled
    <3> QED
      BY <3>2, <3>3
  <2>3. ASSUME NEW g \in {"latency", "background"}, groups'[g] # "none"
        PROVE  /\ gateMode' = "psi" => confirmed'
               /\ gateMode' # "normal"
               /\ cycle' >= Warmup
    BY <2>1, <2>2, <2>3 DEF Entitled
  <2> QED
    BY <1>1, <2>3 DEF NoHastyLimit
<1> QED
  BY <1>1, <1>3, <1>4
-----------------------------------------------------------------------------
LEMMA InitInv ==
  ASSUME Init
  PROVE  IInv
<1>1. /\ 0 \in 0..ActivationWindows - 1 /\ 0 \in 0..RecoveryWindows - 1
      /\ 0 \in 0..CooldownTime /\ 0 \in 0..StreakBound /\ 0 \in 0..Warmup
      /\ 0 \in 0..ActivationWindows /\ ExitToNormal \in 0..ExitToNormal
  BY ThresholdsAssumption
<1>2. groups \in [Groups -> Settings]
  BY DEF Init, Settings
<1>3. TypeOK
  BY <1>1, <1>2 DEF Init, TypeOK, GateStates, ControlModes
<1> QED
  BY <1>3, ThresholdsAssumption
  DEF Init, IInv, GateEarned, ModeEarned, ModeCounts, NoHastyLimit, Pressing, Groups

LEMMA CycleInv ==
  ASSUME IInv, NEW w \in Windows, NEW t \in Elapsed, Cycle(w, t)
  PROVE  IInv'
<1>1. /\ Tick(w, t) /\ SwitchMode(Desired(w, gate')) /\ ApplyProfiles(w)
      /\ Remember(w) /\ gateMode' = gateMode
      /\ cycle' = IF cycle < Warmup THEN cycle + 1 ELSE cycle
  BY DEF Cycle
<1>2. cycle' \in 0..Warmup
  BY <1>1, ThresholdsAssumption DEF IInv, TypeOK
<1>3. gateMode' \in GateModes /\ window' \in Windows
  BY <1>1 DEF IInv, TypeOK, Remember
<1>4. /\ gate' \in GateStates
      /\ activation_streak' \in 0..ActivationWindows - 1
      /\ recovery_streak' \in 0..RecoveryWindows - 1
      /\ cooldownAge' \in 0..CooldownTime
      /\ evidenceRun' \in 0..ActivationWindows
      /\ confirmed' \in BOOLEAN
      /\ sincePressing' \in 0..ExitToNormal
      /\ GateEarned'
  BY <1>1, TickStep DEF IInv
<1>5. /\ mode' \in ControlModes
      /\ latency_streak' \in 0..StreakBound
      /\ mixed_streak' \in 0..StreakBound
      /\ normal_streak' \in 0..StreakBound
      /\ ModeEarned' /\ ModeCounts'
  BY <1>1, <1>4, SwitchStep DEF IInv
<1>6. groups' \in [Groups -> Settings] /\ NoHastyLimit'
  BY <1>1, <1>5, ApplyStep DEF IInv
<1> QED
  BY <1>2, <1>3, <1>4, <1>5, <1>6 DEF IInv, TypeOK

LEMMA StutterInv ==
  ASSUME IInv, UNCHANGED vars
  PROVE  IInv'
BY DEF IInv, vars, gateVars, modeVars, history, TypeOK, GateEarned, ModeEarned,
   ModeCounts, NoHastyLimit, Entitled, Pressing

THEOREM Invariance == Spec => []IInv
<1>1. Init => IInv
  BY InitInv
<1>2. IInv /\ [Next]_vars => IInv'
  BY CycleInv, StutterInv DEF Next
<1> QED
  BY <1>1, <1>2, PTL DEF Spec

(* Every variable keeps its type, whatever the thresholds.                 *)
THEOREM TypeCorrect == Spec => []TypeOK
BY Invariance, PTL DEF IInv

(* No workload is limited without confirmed evidence, in the warm-up, or   *)
(* when the gate is configured off.                                        *)
THEOREM LimitsEarned == Spec => []NoHastyLimit
BY Invariance, PTL DEF IInv

(* A limiting mode ends within ExitToNormal windows of a closed gate.      *)
THEOREM ModeBounded == Spec => []ModeFollowsGate
<1>1. IInv => ModeFollowsGate
  BY DEF IInv, ModeCounts, ModeFollowsGate
<1> QED
  BY <1>1, Invariance, PTL

(* ARMED turns ACTIVE only on an unbroken run of evidence.                 *)
THEOREM ActivationEarned == Spec => ActivationConfirmed
<1>1. ASSUME IInv, [Next]_vars
      PROVE  [gate = "ARMED" /\ gate' = "ACTIVE" => evidenceRun' >= ActivationWindows]_vars
  <2> SUFFICES ASSUME Next, gate = "ARMED", gate' = "ACTIVE"
               PROVE  evidenceRun' >= ActivationWindows
    BY <1>1
  <2>1. PICK w \in Windows, t \in Elapsed : Cycle(w, t)
    BY DEF Next
  <2>2. gateMode = "psi" /\ TickArmed(w)
    BY <1>1, <2>1 DEF IInv, GateEarned, Cycle, Tick, TickNormal, TickActive, TickCooldown
  <2>3. Evident(w) /\ activation_streak + 1 >= ActivationWindows
    BY <2>2 DEF TickArmed
  <2> QED
    BY <1>1, <2>1, <2>3, ThresholdsAssumption
    DEF IInv, TypeOK, GateEarned, Cycle, Remember
<1> QED
  BY <1>1, Invariance, PTL DEF Spec, ActivationConfirmed

(* A limiting mode is left only after ExitToNormal windows of a gate that  *)
(* does not press.                                                         *)
THEOREM ReleaseEarned == Spec => NoEarlyRelease
<1>1. ASSUME IInv, [Next]_vars
      PROVE  [mode # "Normal" /\ mode' = "Normal" =>
                ~Pressing(gate') /\ sincePressing' >= ExitToNormal]_vars
  <2> SUFFICES ASSUME Next
               PROVE  mode # "Normal" /\ mode' = "Normal" =>
                        ~Pressing(gate') /\ sincePressing' >= ExitToNormal
    BY <1>1
  <2>1. PICK w \in Windows, t \in Elapsed : Cycle(w, t)
    BY DEF Next
  <2>2. GateEarned'
    BY <1>1, <2>1, CycleInv DEF IInv
  <2> QED
    BY <1>1, <2>1, <2>2, SwitchStep DEF IInv, Cycle
<1> QED
  BY <1>1, Invariance, PTL DEF Spec, NoEarlyRelease
=============================================================================
