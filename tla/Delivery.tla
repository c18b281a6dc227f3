------------------------------ MODULE Delivery ------------------------------
(***************************************************************************)
(* What the relay promises to whoever publishes an episode, without        *)
(* deliveries, handlers or exceptions: a message that was sent is kept, as *)
(* often as it takes, or put among the dead letters, and is settled only   *)
(* on the strength of one of the two.  A message is let go without either  *)
(* only when a fault outside the handler struck it.                        *)
(***************************************************************************)
CONSTANTS
  Messages,
  Hollow     \* the messages with nothing to store

VARIABLES
  fate,    \* of each message
  kept,    \* messages whose content is completely stored
  dead,    \* messages on the dead-letter subject
  struck   \* messages whose handling a fault cut short

vars == <<fate, kept, dead, struck>>

Open == {"pending"}
Settled == {"acked", "rejected", "exhausted"}

Init ==
  /\ fate = [m \in Messages |-> "unsent"]
  /\ kept = Hollow /\ dead = {} /\ struck = {}

Send(m) ==
  /\ fate[m] = "unsent"
  /\ fate' = [fate EXCEPT ![m] = "pending"]
  /\ UNCHANGED <<kept, dead, struck>>

\* The content arrives in the store; a handler that was given up on may still do that.
Keep(m) ==
  /\ fate[m] \in {"pending", "exhausted"}
  /\ kept' = kept \cup {m}
  /\ UNCHANGED <<fate, dead, struck>>

Bury(m) ==
  /\ fate[m] \in {"pending", "exhausted"}
  /\ dead' = dead \cup {m}
  /\ UNCHANGED <<fate, kept, struck>>

\* A fault strikes a message, which may be the end of it.
Strike(m) ==
  /\ fate[m] \in {"pending", "exhausted"}
  /\ struck' = struck \cup {m}
  /\ fate' \in {fate, [fate EXCEPT ![m] = "exhausted"]}
  /\ UNCHANGED <<kept, dead>>

\* The message is settled.  An answer that comes late may still settle one that had
\* run out of deliveries; no other settlement is ever revised.
Settle(m, f) ==
  /\ fate[m] \in {"pending", "exhausted"}
  /\ f = "acked" => m \in kept \ dead
  /\ f = "rejected" => m \in dead \cup struck
  /\ f = "exhausted" => m \in struck
  /\ fate' = [fate EXCEPT ![m] = f]
  /\ UNCHANGED <<kept, dead, struck>>

Next ==
  \E m \in Messages :
    Send(m) \/ Keep(m) \/ Bury(m) \/ Strike(m) \/ \E f \in Settled : Settle(m, f)

\* Every message that was sent is settled in the end.
Progress == \A m \in Messages : fate[m] \in Open ~> fate[m] \in Settled

Safety == Init /\ [][Next]_vars

Spec == Safety /\ Progress

=============================================================================
