------------------------------- MODULE JobRegister ------------------------------
(***************************************************************************)
(* What the job registry promises to threads that use it concurrently: each *)
(* call takes effect in one step.  A path is registered once, and never     *)
(* after one of its prefixes, for the same job identifier and timestamp.    *)
(***************************************************************************)
EXTENDS Sequences, SequencesExt

CONSTANTS Threads, Times, Ids, Paths

VARIABLES
    registered,     \* the triples of timestamp, identifier and path registered
    asked,          \* the call of each thread
    answer          \* its answer: "none" before, "failed" if it threw

registerVars == <<registered, asked, answer>>

Calls == [op : {"try", "has"}, time : Times, id : Ids, path : Paths]

(* A prefix of the path, or the path itself, is registered.                 *)
Covered(c) == \E p \in Paths : IsPrefix(p, c.path) /\ <<c.time, c.id, p>> \in registered

JRInit ==
    /\ registered = {}
    /\ asked \in [Threads -> Calls]
    /\ answer = [t \in Threads |-> "none"]

Ask(t) ==
    /\ answer[t] # "none"
    /\ \E c \in Calls : asked' = [asked EXCEPT ![t] = c]
    /\ answer' = [answer EXCEPT ![t] = "none"]
    /\ UNCHANGED registered

Answer(t, op, a) ==
    /\ answer[t] = "none" /\ asked[t].op = op
    /\ answer' = [answer EXCEPT ![t] = a]
    /\ UNCHANGED asked

Accept(t) ==
    /\ ~Covered(asked[t])
    /\ Answer(t, "try", "yes")
    /\ registered' = registered \cup {<<asked[t].time, asked[t].id, asked[t].path>>}

Refuse(t) == Covered(asked[t]) /\ Answer(t, "try", "no") /\ UNCHANGED registered

(* A timestamp that follows a later one is refused unless known.             *)
Fail(t) ==
    /\ \A r \in registered : r[1] # asked[t].time
    /\ Answer(t, "try", "failed")
    /\ UNCHANGED registered

Has(t) ==
    /\ Answer(t, "has", IF <<asked[t].time, asked[t].id, asked[t].path>> \in registered THEN "yes" ELSE "no")
    /\ UNCHANGED registered

JRNext == \E t \in Threads : Ask(t) \/ Accept(t) \/ Refuse(t) \/ Fail(t) \/ Has(t)

JRSpec == JRInit /\ [][JRNext]_registerVars
=============================================================================
