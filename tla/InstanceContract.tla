-------------------------- MODULE InstanceContract --------------------------
(***************************************************************************)
(* What the launcher promises about an instance, whatever commands run:    *)
(* its lifecycle phase, whether its content is complete for its            *)
(* configuration, and the game process.  InstanceLifecycle implements it.  *)
(***************************************************************************)
CONSTANT Instances

VARIABLES
    phase,     \* "absent", "installing" or "ready"
    complete,  \* is the content what the registry row says it is?
    run,       \* what the launcher knows of the game process
    loose      \* instances on which two installations have overlapped, about
               \* whose content nothing is promised; the launcher says which

vars == <<phase, complete, run>>

Occupied(i) == run[i] \in {"starting", "running"}

\* A creation registers the instance; nothing of it is installed.
Register(i) ==
    /\ phase[i] = "absent"
    /\ phase' = [phase EXCEPT ![i] = "installing"]
    /\ complete' = [complete EXCEPT ![i] = FALSE]
    /\ UNCHANGED run

\* Installation, reconfiguration and transition change the content and the
\* configuration, but never those of an instance that is starting.
Rework(i) ==
    /\ phase[i] # "absent"
    /\ complete' \in {[complete EXCEPT ![i] = b] : b \in BOOLEAN}
    /\ \/ /\ run[i] # "starting" \/ i \in loose
          /\ UNCHANGED phase
       \/ /\ run[i] # "starting"
          /\ phase' = [phase EXCEPT ![i] = "installing"]
    /\ UNCHANGED run

\* Only a complete instance becomes ready.
Finish(i) ==
    /\ phase[i] = "installing"
    /\ complete[i] \/ i \in loose
    /\ phase' = [phase EXCEPT ![i] = "ready"]
    /\ UNCHANGED <<complete, run>>

\* Deletion, or the rollback of a pack: never under a game.
Forget(i) ==
    /\ phase[i] # "absent"
    /\ ~Occupied(i)
    /\ phase' = [phase EXCEPT ![i] = "absent"]
    /\ complete' = [complete EXCEPT ![i] = FALSE]
    /\ UNCHANGED run

\* Play: only a ready and complete instance that is not in use.
Launch(i) ==
    /\ phase[i] = "ready"
    /\ complete[i] \/ i \in loose
    /\ ~Occupied(i)
    /\ run' = [run EXCEPT ![i] = "starting"]
    /\ UNCHANGED <<phase, complete>>

\* The spawn succeeds or fails; the game exits.
Spawned(i) ==
    /\ run[i] = "starting"
    /\ run' \in {[run EXCEPT ![i] = s] : s \in {"running", "failed"}}
    /\ UNCHANGED <<phase, complete>>

Exited(i) ==
    /\ run[i] = "running"
    /\ run' \in {[run EXCEPT ![i] = s] : s \in {"exited", "failed"}}
    /\ UNCHANGED <<phase, complete>>

\* The launcher starts again and knows of no game.
Restart ==
    /\ run' = [i \in Instances |-> "stopped"]
    /\ UNCHANGED <<phase, complete>>

Init ==
    /\ phase = [i \in Instances |-> "absent"]
    /\ complete = [i \in Instances |-> FALSE]
    /\ run = [i \in Instances |-> "stopped"]

Next ==
    \/ \E i \in Instances :
        \/ Register(i) \/ Rework(i) \/ Finish(i) \/ Forget(i)
        \/ Launch(i) \/ Spawned(i) \/ Exited(i)
    \/ Restart

Spec == Init /\ [][Next]_vars
=============================================================================
