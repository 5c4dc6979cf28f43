------------------------------- MODULE Outbox -------------------------------
(***************************************************************************)
(* What the delivery queue promises to whoever puts a notification in it,  *)
(* whatever number of processes drain it and whenever they stop: a         *)
(* notification keeps its address and its text; it is told to its address  *)
(* as long as it is open, and never again once it is recorded as delivered *)
(* or given up; it is recorded as delivered only when its address has      *)
(* heard from us; a record of a delivery is final; what was removed is not *)
(* brought back, though one who is just telling it may finish.             *)
(***************************************************************************)
CONSTANTS Mails, Addresses, Texts

VARIABLES
  status,  \* of each notification: absent, open, delivered, abandoned, removed
  to,      \* its address
  text,    \* its text
  heard    \* the text each address heard last, or "nothing"

outboxVars == <<status, to, text, heard>>

OutboxInit ==
  /\ status = [m \in Mails |-> "absent"]
  /\ to \in [Mails -> Addresses]
  /\ text \in [Mails -> Texts]
  /\ heard = [a \in Addresses |-> "nothing"]

Become(m, s) ==
  /\ status' = [status EXCEPT ![m] = s]
  /\ UNCHANGED <<to, text, heard>>

Submit(m, a, t) ==
  /\ status[m] = "absent"
  /\ status' = [status EXCEPT ![m] = "open"]
  /\ to' = [to EXCEPT ![m] = a]
  /\ text' = [text EXCEPT ![m] = t]
  /\ UNCHANGED heard

Tell(m) ==
  /\ status[m] \in {"open", "removed"}
  /\ heard' = [heard EXCEPT ![to[m]] = text[m]]
  /\ UNCHANGED <<status, to, text>>

Deliver(m) == status[m] = "open" /\ heard[to[m]] # "nothing" /\ Become(m, "delivered")

GiveUp(m) == status[m] = "open" /\ Become(m, "abandoned")

Reopen(m) == status[m] = "abandoned" /\ Become(m, "open")

(* The notifications of a deleted channel or alert go together.            *)
Remove ==
  LET S == {m \in Mails : status'[m] = "removed"} IN
  /\ \A m \in S : status[m] # "absent"
  /\ status' = [m \in Mails |-> IF m \in S THEN "removed" ELSE status[m]]
  /\ UNCHANGED <<to, text, heard>>

(* How the notifications are handed around is not seen from outside.       *)
HandAround == UNCHANGED outboxVars

OutboxNext ==
  \/ HandAround
  \/ Remove
  \/ \E m \in Mails : Tell(m) \/ Deliver(m) \/ GiveUp(m) \/ Reopen(m)
  \/ \E m \in Mails, a \in Addresses, t \in Texts : Submit(m, a, t)

OutboxSpec == OutboxInit /\ [][OutboxNext]_outboxVars

=============================================================================
