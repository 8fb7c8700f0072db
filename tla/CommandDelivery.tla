--------------------------- MODULE CommandDelivery ---------------------------
(***************************************************************************)
(* What the control plane can rely on for a command it queues: nothing is  *)
(* done for it before it counts as started, one command is carried out at  *)
(* a time, it counts as succeeded only when one execution has done all of  *)
(* it, and an end it knows of is final.  A command may be carried out many *)
(* times, or break off, and its end may never be learnt.                   *)
(***************************************************************************)
CONSTANTS Command, NoCommand

Outcome == {"succeeded", "failed"}

VARIABLES
  known,     \* known[c]: queued, started or its outcome
  running,   \* the command that is being carried out, or NoCommand
  completed  \* commands that one execution has done all of

vars == <<known, running, completed>>

Init ==
  /\ known = [c \in Command |-> "queued"]
  /\ running = NoCommand
  /\ completed = {}

Announce(c) == known' = [known EXCEPT ![c] = IF @ = "queued" THEN "started" ELSE @]

Start(c) ==
  /\ running = NoCommand
  /\ Announce(c)
  /\ running' = c
  /\ UNCHANGED completed

(* The agent does not learn that its announcement has arrived. *)
StartUnseen(c) ==
  /\ Announce(c)
  /\ UNCHANGED <<running, completed>>

Complete ==
  /\ running # NoCommand
  /\ completed' = completed \cup {running}
  /\ running' = NoCommand
  /\ UNCHANGED known

BreakOff ==
  /\ running # NoCommand
  /\ running' = NoCommand
  /\ UNCHANGED <<known, completed>>

Learn(c, o) ==
  /\ known[c] = "started"
  /\ o = "succeeded" => c \in completed
  /\ known' = [known EXCEPT ![c] = o]
  /\ UNCHANGED <<running, completed>>

Next ==
  \/ \E c \in Command : Start(c) \/ StartUnseen(c) \/ \E o \in Outcome : Learn(c, o)
  \/ Complete \/ BreakOff

Spec == Init /\ [][Next]_vars
=============================================================================
