------------------------------- MODULE Gesture -------------------------------
(***************************************************************************)
(* The gesture interpreter, DataCollector: the listener the Myo hub calls  *)
(* with every orientation sample and every pose of the armband.  It turns  *)
(* the attitude of the forearm into the motor speed the main loop formats  *)
(* and writes to the board.                                                *)
(*                                                                         *)
(* A sample is abstracted to what the handler distinguishes.  Its quaternion *)
(* is given by the elevation of the forearm (where pos.z, the sine of the  *)
(* pitch, lies with respect to the thresholds 0.5 and -0.5), its yaw (one  *)
(* of Turn directions of the horizontal circle) and its roll.  Rolls are   *)
(* counted in 1/Scale of the handler's unit (it multiplies atan2 by 10,    *)
(* and the main loop multiplies the speed by Scale = 50 before it          *)
(* truncates), so that a speed counted here is the integer the command     *)
(* carries and (int)referenceRoll is a truncation to a multiple of Scale.  *)
(***************************************************************************)
EXTENDS Integers

CONSTANTS
  Scale,         (* commands per unit of roll: the 50 of (int)(speed * 50)      *)
  MaxRoll,       (* bound of atan2(..) * 10 in 1/Scale: 10 * pi * 50 = 1570     *)
  Rolls,         (* the rolls the armband reports                               *)
  Turn,          (* number of directions of the horizontal circle               *)
  Poses,         (* the poses of the SDK                                        *)
  Idle,          (* the poses rest and unknown                                  *)
  Unknown,       (* the pose before the first one                               *)
  StopWhenDown   (* TRUE: MyoNucMotor's DataCollector; FALSE: MyoWin's, which   *)
                 (* lacks the branch that stops the motor                       *)

ASSUME GestureAssumption ==
  /\ Scale \in Nat \ {0}
  /\ MaxRoll \in Nat
  /\ Rolls \subseteq (-MaxRoll)..MaxRoll
  /\ 0 \in Rolls
  /\ Turn \in Nat \ {0}
  /\ Idle \subseteq Poses
  /\ Unknown \in Idle
  /\ StopWhenDown \in BOOLEAN

VARIABLES
  Ez,             (* the zone of the arm the last handler run decided on   *)
  pos,            (* the forearm: its elevation, its heading from the reference *)
  Quat,           (* the last sample                                       *)
  referenceQuat,  (* the yaw of the reference                              *)
  referenceRoll,  (* the roll of the reference                             *)
  theta,          (* the heading shown to the user                         *)
  speed,          (* the motor speed, in command units                     *)
  currentPose,
  unlock          (* the kind of unlock last requested from the armband    *)

vars == <<Ez, pos, Quat, referenceQuat, referenceRoll, theta, speed,
          currentPose, unlock>>

-----------------------------------------------------------------------------

Elevations == {"high", "level", "low"}
Yaws == 0..(Turn - 1)
Samples == [elev : Elevations, yaw : Yaws, roll : Rolls]

(* The heading of a yaw as seen from the reference yaw. *)
Heading(yaw, ref) == (yaw - ref) % Turn

(* Faulty variant of Trunc: rounds down instead of towards zero. *)
TruncDown(r) == r - (r % Scale)

(* (int)r for a roll: truncation towards zero to a multiple of Scale. *)
Trunc(r) == IF r >= 0 THEN r - (r % Scale) ELSE r + ((-r) % Scale)

(* The zone is decided from the elevation stored in pos, which is that of  *)
(* the previous sample: pos is recomputed only after the decision.         *)
Zone(elev) == IF elev = "high" THEN "Up"
              ELSE IF elev = "low" THEN "Down"
              ELSE "Mid"

(* Faulty variant of Captures: every level sample is a new reference. *)
CapturesAlways(zone) == zone = "Mid"

(* The sample becomes the reference when a lowered arm has come level. *)
Captures(zone) == zone = "Mid" /\ Ez = "Down"

(* Faulty variants of SpeedIn: the speed is added up; the motor is never   *)
(* stopped.                                                                *)
SpeedAddedUp(zone, ref, roll, old) ==
  IF zone = "Mid" THEN old + Trunc(ref) - roll
  ELSE IF zone = "Down" /\ StopWhenDown THEN 0
  ELSE old
SpeedNeverStops(zone, ref, roll, old) ==
  IF zone = "Mid" THEN Trunc(ref) - roll ELSE old

(* The speed after a sample of the given roll, and the speed before. *)
SpeedIn(zone, ref, roll, old) ==
  IF zone = "Mid" THEN Trunc(ref) - roll
  ELSE IF zone = "Down" /\ StopWhenDown THEN 0
  ELSE old

-----------------------------------------------------------------------------

Init ==
  /\ Ez = "Down"
  /\ pos = [elev |-> "level", heading |-> Heading(Turn \div 2, 0)]
  /\ Quat = [elev |-> "level", yaw |-> 0, roll |-> 0]
  /\ referenceQuat = 0
  /\ referenceRoll = 0
  /\ theta = 0
  /\ speed = 0
  /\ currentPose = Unknown
  /\ unlock = "none"

onOrientationData(quat) ==
  LET zone    == Zone(pos.elev)
      refYaw  == IF Captures(zone) THEN quat.yaw ELSE referenceQuat
      refRoll == IF Captures(zone) THEN quat.roll ELSE referenceRoll
      heading == Heading(quat.yaw, refYaw)
  IN  /\ Quat' = quat
      /\ Ez' = zone
      /\ referenceQuat' = refYaw
      /\ referenceRoll' = refRoll
      /\ pos' = [elev |-> quat.elev, heading |-> heading]
      /\ theta' = IF zone = "Mid" THEN heading ELSE theta
      /\ speed' = SpeedIn(zone, refRoll, quat.roll, speed)
      /\ UNCHANGED <<currentPose, unlock>>

onPose(pose) ==
  /\ currentPose' = pose
  /\ unlock' = IF pose \in Idle THEN "timed" ELSE "hold"
  /\ UNCHANGED <<Ez, pos, Quat, referenceQuat, referenceRoll, theta, speed>>

Next ==
  \/ \E quat \in Samples : onOrientationData(quat)
  \/ \E pose \in Poses : onPose(pose)

Spec == Init /\ [][Next]_vars

-----------------------------------------------------------------------------

(* Types of the collector's members. *)
TypeOK ==
  /\ Ez \in {"Up", "Down", "Mid"}
  /\ pos \in [elev : Elevations, heading : Yaws]
  /\ Quat \in Samples
  /\ referenceQuat \in Yaws
  /\ referenceRoll \in Rolls
  /\ theta \in Yaws
  /\ speed \in Int
  /\ currentPose \in Poses
  /\ unlock \in {"none", "timed", "hold"}

(* The integer the main loop formats, (int)(collector.speed * 50), never   *)
(* leaves twice the range of a roll: it has at most five characters, which *)
(* is what speed[7] and the buffer of the command rely on (a seventh       *)
(* character would abort the program in _itoa_s).                          *)
CommandFits == speed \in -(2 * MaxRoll)..(2 * MaxRoll)

(* The dead band: with the arm level and held at the roll of the reference *)
(* the command is less than one unit of roll away from stop.  (It is not 0: *)
(* the reference is truncated when the speed is computed, the sample not.) *)
NeutralBand ==
  Ez = "Mid" /\ Quat.roll = referenceRoll =>
    /\ speed > -Scale /\ speed < Scale
    /\ referenceRoll >= 0 => speed <= 0
    /\ referenceRoll <= 0 => speed >= 0
=============================================================================
