------------------------------- MODULE MyoHub -------------------------------
(***************************************************************************)
(* The hub of the Myo SDK: the armbands it has seen paired and the         *)
(* listeners it calls.  The library below it hands it the events of the    *)
(* armbands while waitForMyo or run is running, on the thread that called  *)
(* them.                                                                   *)
(***************************************************************************)
EXTENDS Sequences, SequencesExt

CONSTANTS
  Arms,         (* the armbands Myo Connect knows          *)
  Kinds         (* the kinds of events they send           *)

VARIABLES
  myos,         (* the armbands of the hub, in the order they were added *)
  listeners     (* the registered listeners                              *)

hub == <<myos, listeners>>

(* The calls a listener gets for an event, after onOpaqueEvent. *)
Calls ==
  [paired           |-> <<"onPair">>,
   unpaired         |-> <<"onUnpair">>,
   connected        |-> <<"onConnect">>,
   disconnected     |-> <<"onDisconnect">>,
   arm_synced       |-> <<"onArmSync">>,
   arm_unsynced     |-> <<"onArmUnsync">>,
   unlocked         |-> <<"onUnlock">>,
   locked           |-> <<"onLock">>,
   orientation      |-> <<"onOrientationData", "onAccelerometerData",
                          "onGyroscopeData">>,
   pose             |-> <<"onPose">>,
   rssi             |-> <<"onRssi">>,
   battery_level    |-> <<"onBatteryLevelReceived">>,
   emg              |-> <<"onEmgData">>,
   warmup_completed |-> <<"onWarmupCompleted">>]

ASSUME HubAssumption == Kinds \subseteq DOMAIN Calls

HubInit == myos = <<>> /\ listeners = <<>>

lookupMyo(a) == Contains(myos, a)

(* The wait ends with the first paired event; its armband is added without *)
(* being looked up.                                                        *)
waitForMyo(a) == myos' = Append(myos, a) /\ UNCHANGED listeners

addListener(l) ==
  /\ listeners' = IF Contains(listeners, l) THEN listeners ELSE Append(listeners, l)
  /\ UNCHANGED myos

removeListener(l) ==
  /\ listeners' = SelectSeq(listeners, LAMBDA m : m # l)
  /\ UNCHANGED myos

(* Faulty variant of Heeds: every event is handed on. *)
HeedsAll(a, kind) == TRUE

(* Events of armbands that were never seen paired are ignored. *)
Heeds(a, kind) == lookupMyo(a) \/ kind = "paired"

(* An armband paired while the hub runs is added unless it is known. *)
onDeviceEvent(a, kind) ==
  /\ myos' = IF kind = "paired" /\ ~lookupMyo(a) THEN Append(myos, a) ELSE myos
  /\ UNCHANGED listeners

(* The destructor. *)
HubGone == myos' = <<>> /\ listeners' = <<>>
=============================================================================
