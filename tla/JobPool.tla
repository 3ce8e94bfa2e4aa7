-------------------------------- MODULE JobPool --------------------------------
(***************************************************************************)
(* What the look-ahead worker pool promises, without locks, reservations    *)
(* and condition variables: the waiting and running states of a job in the  *)
(* description of LookAheadJobInterface.  Jobs are started in the order in   *)
(* which they were submitted, each on a free slot, and a slot runs one job   *)
(* at a time.  The k-th job submitted is job k.                              *)
(***************************************************************************)
EXTENDS Naturals, Sequences

CONSTANT Slots      \* as many as there are worker threads

VARIABLES
    submitted,      \* number of jobs submitted
    waiting,        \* the jobs in the waiting state
    running         \* the job in the running state on each slot, 0 if none

jpVars == <<submitted, waiting, running>>

JPInit ==
    /\ submitted = 0
    /\ waiting = <<>>
    /\ running = [s \in Slots |-> 0]

Submit ==
    /\ submitted' = submitted + 1
    /\ waiting' = Append(waiting, submitted + 1)
    /\ UNCHANGED running

Start(s) ==
    /\ running[s] = 0
    /\ waiting # <<>>
    /\ running' = [running EXCEPT ![s] = Head(waiting)]
    /\ waiting' = Tail(waiting)
    /\ UNCHANGED submitted

End(s) ==
    /\ running[s] # 0
    /\ running' = [running EXCEPT ![s] = 0]
    /\ UNCHANGED <<submitted, waiting>>

JPNext == Submit \/ \E s \in Slots : Start(s) \/ End(s)

JPSpec == JPInit /\ [][JPNext]_jpVars
=============================================================================
