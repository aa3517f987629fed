------------------------------- MODULE ClientLife -------------------------------
(* What a relay client promises to its owner, the manager, without goroutines and *)
(* channels: when Connect returns nil the server has answered; the transporter    *)
(* may close at any time, and an answer that was received before is still taken   *)
(* afterwards; Close does its work once, and calls onClosed only when it was the  *)
(* one who closed the transporter.                                                *)
CONSTANTS Clients,
          Reused \* the identity of a client that is gone may stand for a new one

VARIABLES life,      \* "none"; "hs": dialled; "up": hsSignal is closed; with the transporter
                     \* closed "failed" (no answer so far) and "lost" (after the answer)
          connected, \* clients whose Connect has returned nil
          closing    \* Client.Close: "no", "swapped", "calling" (onClosed), "done"

lifeVars == <<life, connected, closing>>

LifeInit ==
  /\ life = [c \in Clients |-> "none"]
  /\ connected = {}
  /\ closing = [c \in Clients |-> "no"]

Dialled(c) ==
  /\ \/ life[c] = "none"
     \/ Reused /\ life[c] \in {"failed", "lost"} /\ closing[c] \in {"no", "done"}
  /\ life' = [life EXCEPT ![c] = "hs"]
  /\ connected' = connected \ {c}
  /\ closing' = [closing EXCEPT ![c] = "no"]

\* Serve empties chRead also after Read and Write have returned.
Answered(c) ==
  /\ life[c] \in {"hs", "failed"}
  /\ life' = [life EXCEPT ![c] = IF @ = "hs" THEN "up" ELSE "lost"]
  /\ UNCHANGED <<connected, closing>>

TransporterCloses(c) ==
  /\ life[c] \in {"hs", "up"}
  /\ life' = [life EXCEPT ![c] = IF @ = "hs" THEN "failed" ELSE "lost"]
  /\ UNCHANGED <<connected, closing>>

ConnectReturnsNil(c) ==
  /\ life[c] \in {"up", "lost"}
  /\ connected' = connected \cup {c}
  /\ UNCHANGED <<life, closing>>

SwapClosed(c) ==
  /\ c \in connected /\ closing[c] = "no"
  /\ closing' = [closing EXCEPT ![c] = "swapped"]
  /\ UNCHANGED <<life, connected>>

\* A client without a callback skips the call.
CloseIt(c) ==
  /\ closing[c] = "swapped"
  /\ life' = [life EXCEPT ![c] = "lost"]
  /\ \/ closing' = [closing EXCEPT ![c] = "done"]
     \/ life[c] = "up" /\ closing' = [closing EXCEPT ![c] = "calling"]
  /\ UNCHANGED connected

CallOnClosed(c) ==
  /\ closing[c] = "calling"
  /\ closing' = [closing EXCEPT ![c] = "done"]
  /\ UNCHANGED <<life, connected>>

LifeStep(c) ==
  \/ Dialled(c) \/ Answered(c) \/ TransporterCloses(c) \/ ConnectReturnsNil(c)
  \/ SwapClosed(c) \/ CloseIt(c) \/ CallOnClosed(c)

LifeNext == \E c \in Clients : LifeStep(c)

LifeSpec == LifeInit /\ [][LifeNext]_lifeVars
================================================================================
