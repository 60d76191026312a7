------------------------------ MODULE ArmSession ------------------------------
(***************************************************************************)
(* What the session with an armband promises: it gives its commands to the *)
(* connection it was granted, one after the other, and passes on the data  *)
(* that the armband then produces, each once and in order, until it closes *)
(* the connection.  Packets can be lost to it in three ways; what it still *)
(* promises then is said of each step.                                     *)
(***************************************************************************)
EXTENDS Naturals, Sequences

CONSTANTS
  Commands,   (* given to the armband, in this order           *)
  Enabling,   (* those without which there are no data         *)
  Data(_)     (* the n-th data of the armband                  *)

VARIABLES
  phase,      (* "asking", "giving", "given", "stream", "over" *)
  step,       (* the command that is given                     *)
  link,       (* "none", "opening", "up", "down"               *)
  done,       (* the commands the armband has                  *)
  sent,       (* data produced                                 *)
  board,      (* data passed on                                *)
  torn,       (* part of a packet was lost                     *)
  mixed,      (* a packet was taken for another                *)
  behind      (* data may have been lost behind another packet *)

vars == <<phase, step, link, done, sent, board, torn, mixed, behind>>

Sound == ~torn /\ ~mixed
Whole == Sound /\ ~behind

Init ==
  /\ phase = "asking" /\ step = 1
  /\ link = "none" /\ done = {} /\ sent = 0
  /\ board = <<>>
  /\ torn = FALSE /\ mixed = FALSE /\ behind = FALSE

(* A sound session has not been granted another connection before. *)
Grant ==
  /\ phase = "asking"
  /\ Sound => link = "none"
  /\ link' = "opening"
  /\ UNCHANGED <<phase, step, done, sent, board>>

LinkUp ==
  /\ link = "opening"
  /\ link' = "up"
  /\ UNCHANGED <<phase, step, done, sent, board>>

LoseLink ==
  /\ link = "up"
  /\ link' = "down"
  /\ UNCHANGED <<phase, step, done, sent, board>>

(* A sound session begins with its connection. *)
Begin ==
  /\ phase = "asking"
  /\ Sound' => link \in {"up", "down"}
  /\ phase' = "giving"
  /\ UNCHANGED <<step, link, done, sent, board>>

(* A command of a sound session comes to the armband if the link is up. *)
Give ==
  /\ phase = "giving"
  /\ phase' = "given"
  /\ \/ link = "up" /\ done' = done \cup {Commands[step]}
     \/ ~(Sound /\ link = "up") /\ UNCHANGED done
  /\ UNCHANGED <<step, link, sent, board>>

Go ==
  /\ phase = "given"
  /\ IF step < Len(Commands) THEN phase' = "giving" /\ step' = step + 1
     ELSE phase' = "stream" /\ UNCHANGED step
  /\ UNCHANGED <<link, done, sent, board>>

Produce ==
  /\ link = "up"
  /\ Enabling \subseteq done
  /\ sent' = sent + 1
  /\ UNCHANGED <<phase, step, link, done, board>>

(* Data newer than all that were passed on. *)
IsNewer(data) ==
  \E n \in 1..sent : /\ data = Data(n)
                     /\ \A m \in n..sent : \A i \in DOMAIN board : board[i] # Data(m)

(* What is passed on; only where part of a packet was lost it can be other  *)
(* than data of the armband, and can end the session.                      *)
Pass ==
  /\ phase = "stream"
  /\ Len(board') = Len(board) + 1
  /\ LET data == board'[Len(board')]
     IN  /\ board' = Append(board, data)
         /\ torn' \/ IsNewer(data)
         /\ Whole' => data = Data(Len(board'))
  /\ phase' = phase \/ (phase' = "over" /\ torn')
  /\ UNCHANGED <<step, link, done, sent>>

(* A sound session leaves no link. *)
Close ==
  /\ phase = "stream"
  /\ phase' = "over"
  /\ \/ link' = link /\ (Sound' => link # "up")
     \/ link = "up" /\ link' = "down"
  /\ UNCHANGED <<step, done, sent, board>>

(* The session may end before its stream, not of itself in it. *)
GiveUp ==
  /\ phase \in {"asking", "given"} \/ (phase = "stream" /\ torn')
  /\ phase' = "over"
  /\ UNCHANGED <<step, link, done, sent, board>>

(* Packets are read, or lost. *)
Read == UNCHANGED <<phase, step, link, done, sent, board>>

(* What was lost stays so. *)
Losses ==
  /\ torn' \in BOOLEAN /\ (torn => torn')
  /\ mixed' \in BOOLEAN /\ (mixed => mixed')
  /\ behind' \in BOOLEAN /\ (behind => behind')

Next ==
  /\ Losses
  /\ \/ Grant \/ LinkUp \/ LoseLink \/ Begin \/ Give \/ Go \/ Produce
     \/ Pass \/ Close \/ GiveUp \/ Read

Spec == Init /\ [][Next]_vars

-----------------------------------------------------------------------------

(* The commands that the session takes as given. *)
Past(n) == n < step \/ (n = step /\ phase = "given") \/ phase = "stream"

(* The armband of a sound session has, as long as its link is up, every     *)
(* command that the session has gone past, whatever was answered to them:   *)
(* all of them in the stream.                                              *)
Configured ==
  Sound /\ link = "up" /\ phase \in {"giving", "given", "stream"} =>
    \A n \in DOMAIN Commands : Past(n) => Commands[n] \in done
=============================================================================
