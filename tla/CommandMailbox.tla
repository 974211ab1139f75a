--------------------------- MODULE CommandMailbox ---------------------------
(***************************************************************************)
(* What a caller of QueueCalibrateIMU or QueueCalibrateCompass is promised:*)
(* a mailbox of one command that a call replaces at one instant between    *)
(* its beginning and its end, or not at all.  A call that reports success  *)
(* did replace it; a call that reports an error usually did not, but may   *)
(* have.  When a process dies inside the page the mailbox is dead: it      *)
(* never changes again.                                                    *)
(***************************************************************************)
CONSTANTS Callers, Commands, Nothing

VARIABLES
  content,  \* the command a reader of the page would find
  dead,     \* a process died while it held the page
  stage,    \* caller -> "idle", "called" or "placed"
  request,  \* caller -> the command it was called with
  reply     \* caller -> what its latest finished call returned

vars == <<content, dead, stage, request, reply>>

Init ==
  /\ content \in Commands \cup {Nothing}
  /\ dead \in BOOLEAN
  /\ stage = [c \in Callers |-> "idle"]
  /\ request = [c \in Callers |-> Nothing]
  /\ reply = [c \in Callers |-> "none"]

Call(c, cmd) ==
  /\ stage[c] = "idle"
  /\ stage' = [stage EXCEPT ![c] = "called"]
  /\ request' = [request EXCEPT ![c] = cmd]
  /\ reply' = [reply EXCEPT ![c] = "none"]
  /\ UNCHANGED <<content, dead>>

Place(c) ==
  /\ stage[c] = "called"
  /\ ~dead
  /\ content' = request[c]
  /\ stage' = [stage EXCEPT ![c] = "placed"]
  /\ UNCHANGED <<dead, request, reply>>

Return(c, r) ==
  /\ stage' = [stage EXCEPT ![c] = "idle"]
  /\ request' = [request EXCEPT ![c] = Nothing]
  /\ reply' = [reply EXCEPT ![c] = r]
  /\ UNCHANGED <<content, dead>>

Succeed(c) == stage[c] = "placed" /\ Return(c, "ok")
FailLate(c) == stage[c] = "placed" /\ Return(c, "error")
Fail(c) == stage[c] = "called" /\ Return(c, "error")

(* A process dies with all its calls; if one of them held the page, the    *)
(* mailbox dies with it.                                                   *)
Die(lost) ==
  /\ stage' = [c \in Callers |-> IF c \in lost THEN "idle" ELSE stage[c]]
  /\ request' = [c \in Callers |-> IF c \in lost THEN Nothing ELSE request[c]]
  /\ dead' \in {dead, TRUE}
  /\ UNCHANGED <<content, reply>>

Next ==
  \/ \E c \in Callers :
       \/ \E cmd \in Commands : Call(c, cmd)
       \/ Place(c)
       \/ Succeed(c)
       \/ FailLate(c)
       \/ Fail(c)
  \/ \E lost \in SUBSET Callers : Die(lost)

Spec == Init /\ [][Next]_vars

=============================================================================
