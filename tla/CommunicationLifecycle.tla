----------------------- MODULE CommunicationLifecycle -----------------------
(***************************************************************************)
(* The lifecycle that the communications domain promises: each             *)
(* communication moves along canTransitionCommunicationLifecycleState and  *)
(* stops in a terminal state.                                              *)
(***************************************************************************)
CONSTANT Communications

VARIABLE state      \* communication -> "none" or its lifecycle state

Terminal ==
    {"completed", "blocked", "cancelled", "failed", "expired", "suppressed",
     "terminated"}

States ==
    {"requested", "policy_checking", "authorized", "queued", "dispatching",
     "accepted", "active"} \cup Terminal

AllowedTransitions ==
    [s \in States |->
        CASE s = "requested"       -> {"policy_checking", "blocked", "suppressed", "cancelled"}
          [] s = "policy_checking" -> {"authorized", "blocked", "suppressed", "expired"}
          [] s = "authorized"      -> {"queued", "blocked", "suppressed", "cancelled"}
          [] s = "queued"          -> {"dispatching", "cancelled", "expired", "suppressed"}
          [] s = "dispatching"     -> {"accepted", "failed", "terminated"}
          [] s = "accepted"        -> {"active", "completed", "failed", "terminated"}
          [] s = "active"          -> {"completed", "failed", "terminated"}
          [] s \in Terminal        -> {}]

CanTransition(from, to) == to \in AllowedTransitions[from]

Init == state = [c \in Communications |-> "none"]

Request(c) ==
    /\ state[c] = "none"
    /\ state' = [state EXCEPT ![c] = "requested"]

Transition(c) ==
    \E to \in States :
        /\ state[c] # "none"
        /\ CanTransition(state[c], to)
        /\ state' = [state EXCEPT ![c] = to]

Next == \E c \in Communications : Request(c) \/ Transition(c)

Spec == Init /\ [][Next]_state
=============================================================================
