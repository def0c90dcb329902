---------------------------- MODULE HarqService ----------------------------
(***************************************************************************)
(* What a set of HARQ processes promises, whatever the direction: each     *)
(* process carries one transport block at a time, sends it at most         *)
(* MaxTries times, never again once the receiver has passed it up, and is  *)
(* then free for another block.  Several processes may act in one step: a  *)
(* scheduler decides for all of them at a time.                            *)
(***************************************************************************)
EXTENDS Integers

CONSTANTS Procs, MaxTries

VARIABLES
  cur,        \* [tb, sent]: the block of each process and how often it was granted
  delivered   \* the blocks passed up by the receiver

avars == <<cur, delivered>>

Init == /\ cur = [p \in Procs |-> [tb |-> 0, sent |-> 0]]
        /\ delivered = {}

\* A free process, or one freed in this very step, takes the next block.
Start(p) == cur'[p] = [tb |-> cur[p].tb + 1, sent |-> 1]

Retry(p) == /\ cur[p].sent \in 1..(MaxTries[p] - 1)
            /\ <<p, cur[p].tb>> \notin delivered
            /\ cur'[p] = [tb |-> cur[p].tb, sent |-> cur[p].sent + 1]

Stop(p) == cur'[p] = [tb |-> cur[p].tb, sent |-> 0]

Keep(p) == cur'[p] = cur[p]

Schedule == /\ cur' = [p \in Procs |-> cur'[p]]
            /\ \A p \in Procs : Start(p) \/ Retry(p) \/ Stop(p) \/ Keep(p)
            /\ UNCHANGED delivered

\* The receiver passes up a block its process still carries, and only once.
Receive == \E p \in Procs :
             /\ cur[p].sent > 0
             /\ <<p, cur[p].tb>> \notin delivered
             /\ delivered' = delivered \cup {<<p, cur[p].tb>>}
             /\ UNCHANGED cur

Next == Schedule \/ Receive

Spec == Init /\ [][Next]_avars
===========================================================================
