---------------------------- MODULE TaskContract ----------------------------
(***************************************************************************)
(* What the admin promises about tasks, whatever handlers, callbacks and   *)
(* timers bring it about: at most one task of the cluster is active; a     *)
(* task moves along the edges of TaskStates only; its members are fixed    *)
(* before it runs; a recorded result is never withdrawn; and a task is     *)
(* called stopped only when every member has a result.                     *)
(***************************************************************************)
EXTENDS TaskStates

CONSTANTS Tasks, Agents

VARIABLES
    state,    \* the state of every task
    members,  \* the agents that are expected to report on a task
    results   \* the agents with a recorded result

vars == <<state, members, results>>

Init ==
    /\ state = [t \in Tasks |-> "pending"]
    /\ members = [t \in Tasks |-> {}]
    /\ results = [t \in Tasks |-> {}]

\* Members are chosen while the task starts, or after the start was given up.
Enlist(t, S) ==
    /\ state[t] \in {"starting", "failed"}
    /\ members[t] = {}
    /\ members' = [members EXCEPT ![t] = S]
    /\ UNCHANGED <<state, results>>

Record(t, S) ==
    /\ S \subseteq members[t]
    /\ results' = [results EXCEPT ![t] = @ \cup S]
    /\ UNCHANGED <<state, members>>

Advance(t, to) ==
    /\ <<state[t], to>> \in ValidTransition
    /\ to = "starting" => \A u \in Tasks: state[u] \notin ActiveStates
    /\ to = "stopped" => members[t] # {} /\ members[t] \subseteq results[t]
    /\ state' = [state EXCEPT ![t] = to]
    /\ UNCHANGED <<members, results>>

Next ==
    \E t \in Tasks:
        \/ \E S \in SUBSET Agents: Enlist(t, S) \/ Record(t, S)
        \/ \E to \in States: Advance(t, to)

Spec == Init /\ [][Next]_vars

=============================================================================
