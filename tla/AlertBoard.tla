------------------------------ MODULE AlertBoard ------------------------------
(***************************************************************************)
(* What the alert engine promises to the people who watch the board of     *)
(* alerts, whatever its loops have read and whenever they fail or stop:    *)
(* a check has one alert at a time; a manual check's alert ends only after *)
(* somebody has handled it; what is announced of an alert is what it is at *)
(* that moment, and only while somebody attends to it; nobody turns to an  *)
(* alert that is over or handled; and an alert counts as paged only after  *)
(* an announcement, which comes to somebody if the check names channels.   *)
(***************************************************************************)
CONSTANTS
  Alerts, Checks, Manual,
  Named  \* checks that name the channels they are announced on

VARIABLES
  state,    \* of each alert: none, firing, resolved or gone
  check,    \* the check each alert is about
  handled,  \* the alerts somebody acknowledged or closed
  paged,    \* the alerts that count as paged
  said,     \* the states each alert was announced with, or nobody
  attended  \* the alerts about which news may still be on its way

alertVars == <<state, check, handled, paged>>
boardVars == <<alertVars, said, attended>>

BoardInit ==
  /\ state = [n \in Alerts |-> "none"]
  /\ check \in [Alerts -> Checks]
  /\ handled = {} /\ paged = {} /\ attended = {}
  /\ said = [n \in Alerts |-> {}]

(* The engine turns to alerts that stand, and away from any.               *)
Attend == \A n \in attended' \ attended : state'[n] = "firing" /\ n \notin handled'

Raise(n, c) ==
  /\ state[n] = "none"
  /\ \A m \in Alerts : state[m] = "firing" => check[m] # c
  /\ state' = [state EXCEPT ![n] = "firing"]
  /\ check' = [check EXCEPT ![n] = c]
  /\ Attend
  /\ UNCHANGED <<handled, paged, said>>

Acknowledge(n) ==
  /\ state[n] = "firing"
  /\ handled' = handled \union {n}
  /\ UNCHANGED <<state, check, paged, said, attended>>

Close(n) ==
  /\ state[n] = "firing"
  /\ state' = [state EXCEPT ![n] = "resolved"]
  /\ handled' = handled \union {n}
  /\ UNCHANGED <<check, paged, said, attended>>

EndByItself(n) ==
  /\ state[n] = "firing"
  /\ check[n] \in Manual => n \in handled
  /\ state' = [state EXCEPT ![n] = "resolved"]
  /\ Attend
  /\ UNCHANGED <<check, handled, paged, said>>

Announce(n) ==
  /\ n \in attended
  /\ state[n] \in {"firing", "resolved"}
  /\ \E what \in {state[n], "nobody"} :
       /\ what = "nobody" => check[n] \notin Named
       /\ said' = [said EXCEPT ![n] = @ \union {what}]
  /\ Attend
  /\ UNCHANGED alertVars

CountAsPaged(n) ==
  /\ said[n] # {}
  /\ paged' = paged \union {n}
  /\ Attend
  /\ UNCHANGED <<state, check, handled, said>>

(* A deleted rule takes its alerts with it.                                *)
Withdraw(c) ==
  LET S == {n \in Alerts : check[n] = c /\ state[n] # "none"} IN
  /\ state' = [n \in Alerts |-> IF n \in S THEN "gone" ELSE state[n]]
  /\ handled' = handled \ S
  /\ paged' = paged \ S
  /\ UNCHANGED <<check, said, attended>>

LookAround ==
  /\ UNCHANGED <<alertVars, said>>
  /\ Attend

BoardNext ==
  \/ LookAround
  \/ \E c \in Checks : Withdraw(c)
  \/ \E n \in Alerts :
       \/ Acknowledge(n) \/ Close(n) \/ EndByItself(n)
       \/ Announce(n) \/ CountAsPaged(n)
       \/ \E c \in Checks : Raise(n, c)

BoardSpec == BoardInit /\ [][BoardNext]_boardVars

=============================================================================
