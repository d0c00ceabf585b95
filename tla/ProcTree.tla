------------------------------ MODULE ProcTree ------------------------------
(***************************************************************************)
(* What process management promises about the tree of processes: a process *)
(* is created as a child of a running one, leaves its children to init     *)
(* when it exits, and disappears when its parent has waited for it, which  *)
(* it can only do for a child that has exited.                             *)
(***************************************************************************)
CONSTANTS Pids, Idle, Init_, NoPid

VARIABLES state,    \* state[p]: "none", "running" or "dead"
          parent    \* parent[p], NoPid for a pid that is not in use

vars == <<state, parent>>

Children(p) == {c \in Pids : state[c] # "none" /\ parent[c] = p}

Start == /\ state = [p \in Pids |-> IF p \in {Idle, Init_} THEN "running" ELSE "none"]
         /\ parent = [p \in Pids |-> IF p = Init_ THEN Idle ELSE NoPid]

Create(p, c) == /\ state[p] = "running" /\ state[c] = "none"
                /\ state' = [state EXCEPT ![c] = "running"]
                /\ parent' = [parent EXCEPT ![c] = p]

Exit(p) == /\ state[p] = "running" /\ p # Idle
           /\ state' = [state EXCEPT ![p] = "dead"]
           /\ parent' = [c \in Pids |-> IF c \in Children(p) THEN Init_ ELSE parent[c]]

Reap(p, c) == /\ state[p] = "running" /\ c \in Children(p) /\ state[c] = "dead"
              /\ state' = [state EXCEPT ![c] = "none"]
              /\ parent' = [parent EXCEPT ![c] = NoPid]

Next == \/ \E p, c \in Pids : Create(p, c) \/ Reap(p, c)
        \/ \E p \in Pids : Exit(p)

Spec == Start /\ [][Next]_vars
=============================================================================
