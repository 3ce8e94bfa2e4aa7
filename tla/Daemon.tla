--------------------------------- MODULE Daemon --------------------------------
(***************************************************************************)
(* A program like operad (operad.cpp): the command line is acquired, access  *)
(* to a broker is made, a subscriber is constructed with it, runs, and is    *)
(* destroyed.                                                              *)
(***************************************************************************)
EXTENDS CommandLine, Subscription

CONSTANT Sasl   \* the fields of the authentication with Kafka

vars == <<cliVars, subVars>>

Init == CliInit /\ SubInit

Acquire == main = "start" /\ CliNext /\ UNCHANGED subVars

\* main returns without having started anything.
Return ==
    /\ main = "start" /\ cli = "refused"
    /\ main' = "exited"
    /\ UNCHANGED <<kind, cliVars, consuming, publishing>>

Proceed(k) ==
    /\ kind' = k
    /\ main' = "construct"

\* An assertion fails, and the program ends.
Fail == main' = "exited" /\ UNCHANGED kind

\* KafkaBrokerAccessBuilder::build: all of the fields or none.
CanBuild(fields) == fields = {} \/ fields = Sasl

\* BrokerAccessManager: what it has been configured with, if at all, of which
\* it does not know "kafka".
Manager == {"none", "mqtt", "kafka"}
HasAccess(configured) == configured = "mqtt"

\* A program has its own access, or that of the manager.
Access ==
    /\ main = "start" /\ cli = "accepted"
    /\ \/ Proceed("mqtt")
       \/ \E fields \in SUBSET Sasl : IF CanBuild(fields) THEN Proceed("kafka") ELSE Fail
       \/ \E configured \in Manager : IF HasAccess(configured) THEN Proceed("mqtt") ELSE Fail
    /\ UNCHANGED <<cliVars, consuming, publishing>>

Next == Acquire \/ Return \/ Access \/ (SubNext /\ UNCHANGED cliVars)

Fairness ==
    /\ WF_vars(Main /\ UNCHANGED cliVars)
    /\ WF_vars(Thread /\ UNCHANGED cliVars)

Spec == Init /\ [][Next]_vars /\ Fairness
=============================================================================
