---------------------------- MODULE GestureProofs ----------------------------
(* Theorems about the gesture interpreter, for every value of its constants. *)
EXTENDS GestureHistory, TLAPS

(* The truncation stays between 0 and what it truncates, and takes off     *)
(* less than one unit of roll.                                             *)
LEMMA TruncBounds ==
  ASSUME NEW r \in Int
  PROVE  /\ Trunc(r) \in Int
         /\ r >= 0 => Trunc(r) >= 0 /\ Trunc(r) <= r /\ r - Trunc(r) < Scale
         /\ r <= 0 => Trunc(r) <= 0 /\ Trunc(r) >= r /\ Trunc(r) - r < Scale
<1>1. Scale \in Nat \ {0}
  BY GestureAssumption
<1>2. \A n \in Nat : n % Scale \in 0..(Scale - 1) /\ n % Scale <= n
  BY <1>1
<1>3. CASE r >= 0
  <2>1. r % Scale \in 0..(Scale - 1) /\ r % Scale <= r
    BY <1>2, <1>3
  <2>. QED  BY <1>1, <2>1, <1>3 DEF Trunc
<1>4. CASE r < 0
  <2>1. (-r) % Scale \in 0..(Scale - 1) /\ (-r) % Scale <= -r
    BY <1>2, <1>4
  <2>. QED  BY <1>1, <2>1, <1>4 DEF Trunc
<1>. QED  BY <1>3, <1>4

LEMMA HeadingIsYaw ==
  ASSUME NEW yaw \in Yaws, NEW ref \in Yaws
  PROVE  Heading(yaw, ref) \in Yaws
<1>1. Turn \in Nat \ {0}
  BY GestureAssumption
<1>2. yaw - ref \in Int
  BY <1>1 DEF Yaws
<1>3. \A n \in Int : n % Turn \in 0..(Turn - 1)
  BY <1>1
<1>. QED  BY <1>2, <1>3 DEF Heading, Yaws

-----------------------------------------------------------------------------

(* One orientation sample: what the handler stores has its type. *)
LEMMA OrientationTypes ==
  ASSUME TypeOK, NEW quat \in Samples, onOrientationData(quat)
  PROVE  TypeOK'
<1>. DEFINE zone    == Zone(pos.elev)
            refYaw  == IF Captures(zone) THEN quat.yaw ELSE referenceQuat
            refRoll == IF Captures(zone) THEN quat.roll ELSE referenceRoll
<1>1. /\ quat.elev \in Elevations
      /\ quat.yaw \in Yaws
      /\ quat.roll \in Rolls
  BY DEF Samples
<1>2. zone \in {"Up", "Down", "Mid"}
  BY DEF TypeOK, Elevations, Zone
<1>3. refYaw \in Yaws /\ refRoll \in Rolls
  BY <1>1 DEF TypeOK
<1>4. Heading(quat.yaw, refYaw) \in Yaws
  BY <1>1, <1>3, HeadingIsYaw
<1>5. Rolls \subseteq Int
  BY GestureAssumption
<1>6. SpeedIn(zone, refRoll, quat.roll, speed) \in Int
  <2>1. refRoll \in Int /\ quat.roll \in Int
    BY <1>1, <1>3, <1>5
  <2>2. Trunc(refRoll) \in Int
    BY <2>1, TruncBounds
  <2>. HIDE DEF zone, refRoll
  <2>. QED  BY <1>2, <2>1, <2>2 DEF SpeedIn, TypeOK
<1>7. /\ Ez' = zone
      /\ pos' = [elev |-> quat.elev, heading |-> Heading(quat.yaw, refYaw)]
      /\ Quat' = quat
      /\ referenceQuat' = refYaw
      /\ referenceRoll' = refRoll
      /\ theta' = IF zone = "Mid" THEN Heading(quat.yaw, refYaw) ELSE theta
      /\ speed' = SpeedIn(zone, refRoll, quat.roll, speed)
      /\ UNCHANGED <<currentPose, unlock>>
  BY DEF onOrientationData
<1>. HIDE DEF zone, refYaw, refRoll
<1>. QED  BY <1>1, <1>2, <1>3, <1>4, <1>6, <1>7 DEF TypeOK

LEMMA InitTypes ==
  ASSUME Init
  PROVE  TypeOK
<1>1. Turn \div 2 \in Yaws /\ 0 \in Yaws
  BY GestureAssumption DEF Yaws
<1>2. Heading(Turn \div 2, 0) \in Yaws
  BY <1>1, HeadingIsYaw
<1>. QED  BY <1>1, <1>2, GestureAssumption DEF Init, TypeOK, Samples, Elevations

(* The members keep their types. *)
THEOREM TypesPreserved == Spec => []TypeOK
<1>1. Init => TypeOK
  BY InitTypes
<1>2. TypeOK /\ [Next]_vars => TypeOK'
  <2>. SUFFICES ASSUME TypeOK, [Next]_vars PROVE TypeOK'
    OBVIOUS
  <2>1. ASSUME NEW quat \in Samples, onOrientationData(quat)
        PROVE  TypeOK'
    BY <2>1, OrientationTypes
  <2>2. ASSUME NEW pose \in Poses, onPose(pose)
        PROVE  TypeOK'
    BY <2>2 DEF TypeOK, onPose
  <2>3. CASE UNCHANGED vars
    BY <2>3 DEF TypeOK, vars
  <2>. QED  BY <2>1, <2>2, <2>3 DEF Next
<1>. QED  BY <1>1, <1>2, PTL DEF Spec

-----------------------------------------------------------------------------

(* What the speed is while the zone is Mid: the handler of the last sample *)
(* set it, and neither the reference nor the sample changed since.         *)
LevelSpeed == Ez = "Mid" => speed = Trunc(referenceRoll) - Quat.roll

(* The strengthening both bounds of the speed need. *)
SpeedInv == TypeOK /\ CommandFits /\ LevelSpeed

LEMMA OrientationSpeed ==
  ASSUME SpeedInv, NEW quat \in Samples, onOrientationData(quat)
  PROVE  CommandFits' /\ LevelSpeed'
<1>1. TypeOK'
  BY OrientationTypes DEF SpeedInv
<1>2. /\ quat.roll \in Rolls
      /\ \A r \in Rolls : r \in Int /\ -MaxRoll <= r /\ r <= MaxRoll
      /\ MaxRoll \in Nat
  BY GestureAssumption DEF Samples
<1>3. /\ Quat' = quat
      /\ referenceRoll' \in Rolls
      /\ speed' = SpeedIn(Ez', referenceRoll', quat.roll, speed)
  BY <1>1 DEF onOrientationData, TypeOK
<1>4. referenceRoll' \in Int /\ quat.roll \in Int
  BY <1>2, <1>3
<1>5. LevelSpeed'
  BY <1>3 DEF LevelSpeed, SpeedIn, Trunc
<1>6. Trunc(referenceRoll') \in (-MaxRoll)..MaxRoll
  BY <1>2, <1>3, <1>4, TruncBounds
<1>7. CommandFits'
  <2>1. speed \in -(2 * MaxRoll)..(2 * MaxRoll)
    BY DEF SpeedInv, CommandFits
  <2>2. Trunc(referenceRoll') - quat.roll \in -(2 * MaxRoll)..(2 * MaxRoll)
    BY <1>2, <1>6
  <2>3. 0 \in -(2 * MaxRoll)..(2 * MaxRoll)
    BY <1>2
  <2>. QED  BY <1>3, <2>1, <2>2, <2>3 DEF CommandFits, SpeedIn
<1>. QED  BY <1>5, <1>7

LEMMA SpeedInvInit ==
  ASSUME Init
  PROVE  SpeedInv
BY InitTypes, GestureAssumption DEF Init, SpeedInv, CommandFits, LevelSpeed

THEOREM SpeedInvariant == Spec => []SpeedInv
<1>1. Init => CommandFits /\ LevelSpeed
  BY SpeedInvInit DEF SpeedInv
<1>2. SpeedInv /\ TypeOK' /\ [Next]_vars => (CommandFits /\ LevelSpeed)'
  <2>. SUFFICES ASSUME SpeedInv, TypeOK', [Next]_vars
                PROVE  CommandFits' /\ LevelSpeed'
    OBVIOUS
  <2>1. ASSUME NEW quat \in Samples, onOrientationData(quat)
        PROVE  CommandFits' /\ LevelSpeed'
    BY <2>1, OrientationSpeed
  <2>2. ASSUME NEW pose \in Poses, onPose(pose)
        PROVE  CommandFits' /\ LevelSpeed'
    BY <2>2 DEF SpeedInv, CommandFits, LevelSpeed, onPose
  <2>3. CASE UNCHANGED vars
    BY <2>3 DEF SpeedInv, CommandFits, LevelSpeed, vars
  <2>. QED  BY <2>1, <2>2, <2>3 DEF Next
<1>. QED  BY <1>1, <1>2, TypesPreserved, PTL DEF Spec, SpeedInv

(* No sequence of samples and poses makes a command longer than five       *)
(* characters, whatever the rolls, as long as they are bounded.            *)
THEOREM CommandAlwaysFits == Spec => []CommandFits
BY SpeedInvariant, PTL DEF SpeedInv

(* Holding the arm level at the reference stays inside the dead band. *)
THEOREM NeutralBandHolds == Spec => []NeutralBand
<1>1. SpeedInv => NeutralBand
  <2>. SUFFICES ASSUME SpeedInv, Ez = "Mid", Quat.roll = referenceRoll
                PROVE  /\ speed > -Scale /\ speed < Scale
                       /\ referenceRoll >= 0 => speed <= 0
                       /\ referenceRoll <= 0 => speed >= 0
    BY DEF NeutralBand
  <2>1. referenceRoll \in Int /\ Scale \in Nat
    BY GestureAssumption DEF SpeedInv, TypeOK
  <2>2. speed = Trunc(referenceRoll) - referenceRoll
    BY DEF SpeedInv, LevelSpeed
  <2>3. Trunc(referenceRoll) \in Int
    BY <2>1, TruncBounds
  <2>4. CASE referenceRoll >= 0
    BY <2>1, <2>2, <2>3, <2>4, TruncBounds, GestureAssumption
  <2>5. CASE referenceRoll <= 0
    BY <2>1, <2>2, <2>3, <2>5, TruncBounds, GestureAssumption
  <2>. QED  BY <2>1, <2>4, <2>5
<1>. QED  BY <1>1, SpeedInvariant, PTL

-----------------------------------------------------------------------------
(* The specification with the log. *)

(* What ties the collector to the log: pos holds the elevation of the last *)
(* sample, Ez the zone of the one before it, and the reference and the     *)
(* speed are those of the samples the two properties name.                 *)
LogInv ==
  /\ log \in Seq(Samples)
  /\ pos.elev = Elev(log, Len(log))
  /\ Ez = Zone(Elev(log, Len(log) - 1))
  /\ ReferenceFollowsLog
  /\ SpeedFollowsLog

(* The elevation of every sample, those before the first included. *)
LEMMA ElevType ==
  ASSUME NEW l \in Seq(Samples), NEW k \in Int, k <= Len(l)
  PROVE  Elev(l, k) \in Elevations
<1>1. CASE k >= 1
  <2>1. l[k] \in Samples
    BY <1>1
  <2>. QED  BY <1>1, <2>1 DEF Elev, Samples
<1>2. CASE k < 1
  BY <1>2 DEF Elev, Elevations
<1>. QED  BY <1>1, <1>2

(* Appending a sample leaves what the log says of earlier samples alone,   *)
(* and what it says of the new one depends on the two before it only.      *)
Extends(m, l, quat) ==
  /\ m \in Seq(Samples) /\ m # <<>> /\ Len(m) = Len(l) + 1
  /\ Len(l) \in Nat /\ (Len(l) # 0 => l # <<>>)
  /\ m[Len(l) + 1] = quat
  /\ \A k \in 1..Len(l) : m[k] = l[k]
  /\ \A k \in Int : k <= Len(l) => Elev(m, k) = Elev(l, k)
  /\ \A k \in 1..Len(l) : /\ IsReference(m, k) = IsReference(l, k)
                          /\ SetsSpeed(m, k) = SetsSpeed(l, k)
  /\ Elev(m, Len(l) + 1) = quat.elev
  /\ Len(l) = 0 => IsReference(m, 1) /\ SetsSpeed(m, 1)

LEMMA LogExtension ==
  ASSUME NEW l \in Seq(Samples), NEW quat \in Samples
  PROVE  Extends(Append(l, quat), l, quat)
<1>. DEFINE m == Append(l, quat)
            n == Len(l)
<1>1. /\ m \in Seq(Samples) /\ m # <<>> /\ Len(m) = n + 1
      /\ n \in Nat /\ (n # 0 => l # <<>>)
      /\ m[n + 1] = quat
      /\ \A k \in 1..n : m[k] = l[k]
  OBVIOUS
<1>. HIDE DEF m
<1>2. \A k \in Int : k <= n => Elev(m, k) = Elev(l, k)
  BY <1>1 DEF Elev
<1>3. \A k \in 1..n : /\ IsReference(m, k) = IsReference(l, k)
                     /\ SetsSpeed(m, k) = SetsSpeed(l, k)
  BY <1>1, <1>2 DEF IsReference, SetsSpeed
<1>4. Elev(m, n + 1) = quat.elev
  BY <1>1 DEF Elev
<1>5. n = 0 => IsReference(m, 1) /\ SetsSpeed(m, 1)
  BY <1>1 DEF IsReference, SetsSpeed, Elev
<1>6. Extends(m, l, quat)
  BY ONLY <1>1, <1>2, <1>3, <1>4, <1>5 DEF Extends
<1>. QED  BY <1>6 DEF m

(* One sample: the invariant carries over to the longer log. *)
LEMMA SampleKeepsLogInv ==
  ASSUME LogInv, TypeOK, NEW quat \in Samples, HSample(quat)
  PROVE  LogInv'
<1>. DEFINE n == Len(log)
            elev == Elev(log, n)
<1>1. log \in Seq(Samples) /\ log' = Append(log, quat) /\ onOrientationData(quat)
  BY DEF LogInv, HSample
<1>2. /\ log' \in Seq(Samples) /\ log' # <<>> /\ Len(log') = n + 1 /\ n \in Nat
      /\ n # 0 => log # <<>>
      /\ log'[n + 1] = quat
      /\ \A k \in 1..n : log'[k] = log[k]
      /\ \A k \in Int : k <= n => Elev(log', k) = Elev(log, k)
      /\ \A k \in 1..n : /\ IsReference(log', k) = IsReference(log, k)
                         /\ SetsSpeed(log', k) = SetsSpeed(log, k)
      /\ Elev(log', n + 1) = quat.elev
      /\ n = 0 => IsReference(log', n + 1) /\ SetsSpeed(log', n + 1)
  <2>1. Extends(log', log, quat)
    BY <1>1, LogExtension
  <2>. QED  BY ONLY <2>1 DEF Extends
<1>3. /\ elev \in Elevations
      /\ Elev(log, n - 1) \in Elevations
  BY <1>1, <1>2, ElevType
<1>4. /\ elev = Elev(log', n)
      /\ Elev(log, n - 1) = Elev(log', n - 1)
  BY <1>2
<1>5. pos.elev = elev /\ Ez = Zone(Elev(log, n - 1))
  BY DEF LogInv
<1>. HIDE DEF n, elev
<1>6. Ez' = Zone(elev) /\ pos'.elev = quat.elev
  BY <1>1, <1>5 DEF onOrientationData
<1>7. IsReference(log', n + 1) <=> elev = "level" /\ Elev(log, n - 1) = "low"
  <2>1. (n + 1) - 1 = n /\ (n + 1) - 2 = n - 1
    BY <1>2
  <2>. QED  BY <2>1, <1>4 DEF IsReference
<1>8. SetsSpeed(log', n + 1) <=> elev = "level" \/ (StopWhenDown /\ elev = "low")
  <2>1. (n + 1) - 1 = n
    BY <1>2
  <2>. QED  BY <2>1, <1>4 DEF SetsSpeed
<1>9. Captures(Zone(elev)) <=> IsReference(log', n + 1)
  BY <1>3, <1>5, <1>7 DEF Captures, Zone, Elevations
<1>10. /\ referenceQuat' = IF IsReference(log', n + 1) THEN quat.yaw ELSE referenceQuat
       /\ referenceRoll' = IF IsReference(log', n + 1) THEN quat.roll ELSE referenceRoll
       /\ speed' = SpeedIn(Zone(elev), referenceRoll', quat.roll, speed)
  BY <1>1, <1>5, <1>9 DEF onOrientationData
<1>11. ReferenceFollowsLog'
  <2>1. CASE IsReference(log', n + 1)
    <3>1. n + 1 \in 1..Len(log') /\ (n + 2)..Len(log') = {}
      BY <1>2
    <3>. QED  BY <1>2, <1>10, <2>1, <3>1 DEF ReferenceFollowsLog
  <2>2. CASE ~IsReference(log', n + 1)
    <3>1. PICK k \in 1..n : /\ IsReference(log, k)
                            /\ \A j \in (k + 1)..n : ~IsReference(log, j)
                            /\ referenceQuat = log[k].yaw
                            /\ referenceRoll = log[k].roll
      BY <1>2, <2>2 DEF LogInv, ReferenceFollowsLog, n
    <3>2. \A j \in (k + 1)..Len(log') : ~IsReference(log', j)
      <4>. SUFFICES ASSUME NEW j \in (k + 1)..(n + 1) PROVE ~IsReference(log', j)
        BY <1>2
      <4>1. CASE j = n + 1
        BY <2>2, <4>1
      <4>2. CASE j # n + 1
        BY <1>2, <3>1, <4>2
      <4>. QED  BY <4>1, <4>2
    <3>3. k \in 1..Len(log') /\ IsReference(log', k)
      BY <1>2, <3>1
    <3>4. referenceQuat' = log'[k].yaw /\ referenceRoll' = log'[k].roll
      BY <1>2, <1>10, <2>2, <3>1
    <3>. QED  BY <3>2, <3>3, <3>4 DEF ReferenceFollowsLog
  <2>. QED  BY <2>1, <2>2
<1>12. SpeedFollowsLog'
  <2>1. CASE SetsSpeed(log', n + 1)
    <3>1. n + 1 \in 1..Len(log') /\ (n + 2)..Len(log') = {} /\ (n + 1) - 1 = n
      BY <1>2
    <3>2. speed' = IF elev = "low" THEN 0 ELSE Trunc(referenceRoll') - quat.roll
      BY <1>8, <1>10, <2>1 DEF SpeedIn, Zone
    <3>. QED  BY <1>2, <1>4, <2>1, <3>1, <3>2 DEF SpeedFollowsLog
  <2>2. CASE ~SetsSpeed(log', n + 1)
    <3>1. PICK k \in 1..n : /\ SetsSpeed(log, k)
                            /\ \A j \in (k + 1)..n : ~SetsSpeed(log, j)
                            /\ speed = IF Elev(log, k - 1) = "low" THEN 0
                                       ELSE Trunc(referenceRoll) - log[k].roll
      BY <1>2, <2>2 DEF LogInv, SpeedFollowsLog, n
    <3>2. \A j \in (k + 1)..Len(log') : ~SetsSpeed(log', j)
      <4>. SUFFICES ASSUME NEW j \in (k + 1)..(n + 1) PROVE ~SetsSpeed(log', j)
        BY <1>2
      <4>1. CASE j = n + 1
        BY <2>2, <4>1
      <4>2. CASE j # n + 1
        BY <1>2, <3>1, <4>2
      <4>. QED  BY <4>1, <4>2
    <3>3. k \in 1..Len(log') /\ SetsSpeed(log', k)
      BY <1>2, <3>1
    <3>4. Elev(log', k - 1) = Elev(log, k - 1) /\ log'[k] = log[k]
      BY <1>2
    <3>5. referenceRoll' = referenceRoll
      BY <1>7, <1>8, <1>10, <2>2
    <3>6. speed' = speed
      BY <1>3, <1>8, <1>10, <2>2 DEF SpeedIn, Zone, Elevations
    <3>. QED  BY <3>1, <3>2, <3>3, <3>4, <3>5, <3>6 DEF SpeedFollowsLog
  <2>. QED  BY <2>1, <2>2
<1>13. (n + 1) - 1 = n
  BY <1>2
<1>. QED  BY <1>2, <1>4, <1>6, <1>11, <1>12, <1>13 DEF LogInv

THEOREM LogInvariant == HSpec => [](TypeOK /\ LogInv)
<1>1. HInit => LogInv
  BY DEF HInit, Init, LogInv, Elev, Zone, ReferenceFollowsLog, SpeedFollowsLog
<1>2. TypeOK /\ LogInv /\ [HNext]_hvars => LogInv'
  <2>. SUFFICES ASSUME TypeOK, LogInv, [HNext]_hvars PROVE LogInv'
    OBVIOUS
  <2>1. ASSUME NEW quat \in Samples, HSample(quat) PROVE LogInv'
    BY <2>1, SampleKeepsLogInv
  <2>2. ASSUME NEW pose \in Poses, HPose(pose) PROVE LogInv'
    BY <2>2 DEF HPose, onPose, LogInv, ReferenceFollowsLog, SpeedFollowsLog
  <2>3. CASE UNCHANGED hvars
    BY <2>3 DEF hvars, vars, LogInv, ReferenceFollowsLog, SpeedFollowsLog
  <2>. QED  BY <2>1, <2>2, <2>3 DEF HNext
<1>3. HInit => Init
  BY DEF HInit
<1>4. [HNext]_hvars => [Next]_vars
  BY DEF HNext, HSample, HPose, Next, hvars
<1>. QED  BY <1>1, <1>2, <1>3, <1>4, TypesPreserved, PTL DEF HSpec, Spec

(* The reference is the sample the log says, for every log. *)
THEOREM ReferenceIsFromLog == HSpec => []ReferenceFollowsLog
BY LogInvariant, PTL DEF LogInv

(* The speed is the one the log says, for every log. *)
THEOREM SpeedIsFromLog == HSpec => []SpeedFollowsLog
BY LogInvariant, PTL DEF LogInv

(* Lowering the arm for two samples stops the motor, whatever came before. *)
THEOREM LoweredArmStops == HSpec => []TwoLowSamplesStop
<1>1. LogInv => TwoLowSamplesStop
  <2>. SUFFICES ASSUME LogInv, StopWhenDown, Len(log) >= 2,
                       Elev(log, Len(log) - 1) = "low"
                PROVE  speed = 0
    BY DEF TwoLowSamplesStop
  <2>1. log \in Seq(Samples) /\ Len(log) \in Nat /\ log # <<>>
    BY DEF LogInv
  <2>2. SetsSpeed(log, Len(log))
    BY DEF SetsSpeed
  <2>3. PICK k \in 1..Len(log) :
               /\ \A j \in (k + 1)..Len(log) : ~SetsSpeed(log, j)
               /\ speed = IF Elev(log, k - 1) = "low" THEN 0
                          ELSE Trunc(referenceRoll) - log[k].roll
    BY <2>1 DEF LogInv, SpeedFollowsLog
  <2>4. k = Len(log)
    BY <2>1, <2>2, <2>3
  <2>. QED  BY <2>3, <2>4
<1>. QED  BY <1>1, LogInvariant, PTL
=============================================================================
