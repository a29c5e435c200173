---------------------------- MODULE DurableStore ----------------------------
(***************************************************************************)
(* What a store that saves whole files promises, crashes included, when    *)
(* its operations come one at a time.  A file changes in one step, to all  *)
(* that memory holds for it; nothing is reported as saved before that      *)
(* step; what is saved stays in memory; and a process that was killed      *)
(* starts again with exactly what was saved.                               *)
(***************************************************************************)
CONSTANTS Files, Entries

VARIABLES
    memory,  \* file -> entries an operation can read
    saved,   \* file -> entries a start would load
    acked    \* file -> entries whose saving was reported a success

durable == <<memory, saved, acked>>

Init ==
    /\ memory = [f \in Files |-> {}]
    /\ saved  = [f \in Files |-> {}]
    /\ acked  = [f \in Files |-> {}]

\* An operation adds entries, or takes back entries that were not saved.
Work ==
    /\ memory' \in [Files -> SUBSET Entries]
    /\ \A f \in Files : saved[f] \subseteq memory'[f]
    /\ UNCHANGED <<saved, acked>>

Save(f, done) ==
    /\ done \subseteq memory[f]
    /\ saved' = [saved EXCEPT ![f] = memory[f]]
    /\ acked' = [acked EXCEPT ![f] = @ \cup done]
    /\ UNCHANGED memory

StartAgain ==
    /\ memory' = saved
    /\ UNCHANGED <<saved, acked>>

Next == Work \/ (\E f \in Files : \E done \in SUBSET memory[f] : Save(f, done)) \/ StartAgain

Spec == Init /\ [][Next]_durable
=============================================================================
