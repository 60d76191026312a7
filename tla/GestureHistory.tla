---------------------------- MODULE GestureHistory ----------------------------
(***************************************************************************)
(* The gesture interpreter with the log of the samples it was given, and   *)
(* what its users see stated on that log alone: which sample is the        *)
(* reference, and which samples the speed is computed from.  The handler   *)
(* never looks further back than one sample, yet its answer depends on     *)
(* arbitrarily old ones; these properties say on which.                    *)
(***************************************************************************)
EXTENDS Gesture, Sequences

CONSTANT MaxSamples    (* bound on the length of the log *)

ASSUME HistoryAssumption == MaxSamples \in Nat

VARIABLE log

hvars == <<vars, log>>

HInit == Init /\ log = <<>>

HSample(quat) ==
  /\ Len(log) < MaxSamples
  /\ onOrientationData(quat)
  /\ log' = Append(log, quat)

HPose(pose) == onPose(pose) /\ UNCHANGED log

HNext ==
  \/ \E quat \in Samples : HSample(quat)
  \/ \E pose \in Poses : HPose(pose)

HSpec == HInit /\ [][HNext]_hvars

-----------------------------------------------------------------------------

(* The elevation of the k-th sample of a log.  The constructor stands for  *)
(* the samples before the first: pos is level, and Ez = Down says lowered. *)
Elev(l, k) == IF k >= 1 THEN l[k].elev ELSE IF k = 0 THEN "level" ELSE "low"

(* The k-th sample is taken as the reference: the arm was level in the     *)
(* sample before it and lowered in the one before that.                    *)
IsReference(l, k) == Elev(l, k - 1) = "level" /\ Elev(l, k - 2) = "low"

(* The k-th sample sets the speed: the arm was not raised in the sample    *)
(* before it (nor lowered, where lowering does not stop the motor).        *)
SetsSpeed(l, k) ==
  \/ Elev(l, k - 1) = "level"
  \/ StopWhenDown /\ Elev(l, k - 1) = "low"

(* The reference is the yaw and the roll of the last sample that followed  *)
(* a step of the arm from lowered to level, one sample late: passes        *)
(* through the raised zone, poses and samples in between leave it alone.   *)
ReferenceFollowsLog ==
  log # <<>> => \E k \in 1..Len(log) :
                  /\ IsReference(log, k)
                  /\ \A j \in (k + 1)..Len(log) : ~IsReference(log, j)
                  /\ referenceQuat = log[k].yaw
                  /\ referenceRoll = log[k].roll

(* The speed is that of the last sample that set one: 0 if the arm was     *)
(* lowered before it, else the truncated roll of the reference less its    *)
(* own roll.  In particular a raised arm keeps the motor running at the    *)
(* last speed, and two samples of a lowered arm stop it (in MyoWin, where  *)
(* StopWhenDown is FALSE, they leave it running).                          *)
SpeedFollowsLog ==
  log # <<>> => \E k \in 1..Len(log) :
                  /\ SetsSpeed(log, k)
                  /\ \A j \in (k + 1)..Len(log) : ~SetsSpeed(log, j)
                  /\ speed = IF Elev(log, k - 1) = "low" THEN 0
                             ELSE Trunc(referenceRoll) - log[k].roll

(* Two samples of a lowered arm, whatever came before, leave the motor     *)
(* stopped: the delay between lowering the arm and the stop is one sample. *)
TwoLowSamplesStop ==
  /\ StopWhenDown
  /\ Len(log) >= 2
  /\ Elev(log, Len(log)) = "low"
  /\ Elev(log, Len(log) - 1) = "low"
  => speed = 0
=============================================================================
