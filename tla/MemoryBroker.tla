------------------------------ MODULE MemoryBroker ------------------------------
(***************************************************************************)
(* MemoryBroker and MemorySubscriber, for one type of message: publishers   *)
(* append to a list, and the thread of each subscriber polls the list and   *)
(* calls back with what it has not seen yet.                                *)
(*                                                                         *)
(* put, get and size are one step each, under the broker's mutex; the size  *)
(* and the element are read in different steps.  clear takes no mutex and   *)
(* can fall between any two of those steps; what it does to a step that it  *)
(* overlaps is undefined in the code and not modelled.                      *)
(*                                                                         *)
(* The names that Sender also has begin with Memory here: the proofs about   *)
(* the delivery of messages extend both modules.                            *)
(***************************************************************************)
EXTENDS Naturals, Sequences

CONSTANTS
    Subscribers,    \* the subscribers that are constructed in a behaviour
    MaxMessages     \* bound: messages put in a behaviour

ASSUME BrokerAssumption == MaxMessages \in Nat

VARIABLES
    content,        \* the list, of messages by their rank
    stored,         \* number of messages put
    cleared,        \* history: whether the broker has been cleared
    pc,             \* next statement of each subscriber
    nextIndex,      \* _next_index
    exit,           \* whether _exit_promise is set
    received,       \* the messages of the callbacks, in order
    since           \* number of messages put when the subscriber was constructed

subscriberVars == <<pc, nextIndex, exit, received, since>>
memoryVars == <<content, stored, cleared, subscriberVars>>

(* none       not constructed                                               *)
(* start      _next_index is initialised, the thread is not started         *)
(* wait       about to wait for the exit promise                            *)
(* size       about to compare the size of the list with _next_index        *)
(* get        about to read the element and call back                       *)
(* increment  after the callback                                            *)
(* failed     get threw std::out_of_range, which ends the program           *)
SubscriberPC == {"none", "start", "wait", "size", "get", "increment", "done", "joined", "failed"}

Running == \A s \in Subscribers : pc[s] # "failed"

MemoryInit ==
    /\ content = <<>> /\ stored = 0 /\ cleared = FALSE
    /\ pc = [s \in Subscribers |-> "none"]
    /\ nextIndex = [s \in Subscribers |-> 0]
    /\ exit = [s \in Subscribers |-> FALSE]
    /\ received = [s \in Subscribers |-> <<>>]
    /\ since = [s \in Subscribers |-> 0]

Go(s, from, to) == Running /\ pc[s] = from /\ pc' = [pc EXCEPT ![s] = to]

-----------------------------------------------------------------------------
(* The broker.                                                              *)

MemoryPut ==
    /\ Running /\ stored < MaxMessages
    /\ stored' = stored + 1
    /\ content' = Append(content, stored + 1)
    /\ UNCHANGED <<cleared, subscriberVars>>

Clear ==
    /\ Running
    /\ content' = <<>>
    /\ cleared' = TRUE
    /\ UNCHANGED <<stored, subscriberVars>>

-----------------------------------------------------------------------------
(* A subscriber.                                                            *)

\* Mutant: the index of the last message instead of the next one.
ConstructAtLast(s) ==
    /\ Go(s, "none", "start")
    /\ nextIndex' = [nextIndex EXCEPT ![s] = Len(content) - 1]
    /\ since' = [since EXCEPT ![s] = stored]
    /\ UNCHANGED <<content, stored, cleared, exit, received>>

Construct(s) ==
    /\ Go(s, "none", "start")
    /\ nextIndex' = [nextIndex EXCEPT ![s] = Len(content)]
    /\ since' = [since EXCEPT ![s] = stored]
    /\ UNCHANGED <<content, stored, cleared, exit, received>>

Start(s) == Go(s, "start", "wait") /\ UNCHANGED <<content, stored, cleared, nextIndex, exit, received, since>>

\* Mutant: the promise is not looked at.
WaitForEver(s) ==
    /\ Go(s, "wait", "size")
    /\ UNCHANGED <<content, stored, cleared, nextIndex, exit, received, since>>

Wait(s) ==
    /\ Go(s, "wait", IF exit[s] THEN "done" ELSE "size")
    /\ UNCHANGED <<content, stored, cleared, nextIndex, exit, received, since>>

\* Mutant: the list is not read up to its end.
SizeShort(s) ==
    /\ Go(s, "size", IF Len(content) > nextIndex[s] + 1 THEN "get" ELSE "wait")
    /\ UNCHANGED <<content, stored, cleared, nextIndex, exit, received, since>>

Size(s) ==
    /\ Go(s, "size", IF Len(content) > nextIndex[s] THEN "get" ELSE "wait")
    /\ UNCHANGED <<content, stored, cleared, nextIndex, exit, received, since>>

Get(s) ==
    /\ nextIndex[s] < Len(content)
    /\ Go(s, "get", "increment")
    /\ received' = [received EXCEPT ![s] = Append(@, content[nextIndex[s] + 1])]
    /\ UNCHANGED <<content, stored, cleared, nextIndex, exit, since>>

GetThrows(s) ==
    /\ nextIndex[s] >= Len(content)
    /\ Go(s, "get", "failed")
    /\ UNCHANGED <<content, stored, cleared, nextIndex, exit, received, since>>

\* Mutant: the index jumps to the end of the list.
IncrementToEnd(s) ==
    /\ Go(s, "increment", "size")
    /\ nextIndex' = [nextIndex EXCEPT ![s] = Len(content)]
    /\ UNCHANGED <<content, stored, cleared, exit, received, since>>

Increment(s) ==
    /\ Go(s, "increment", "size")
    /\ nextIndex' = [nextIndex EXCEPT ![s] = @ + 1]
    /\ UNCHANGED <<content, stored, cleared, exit, received, since>>

(* The destructor: the promise, then the join of the thread, a member.       *)
Destroy(s) ==
    /\ Running /\ pc[s] \notin {"none", "start"} /\ ~exit[s]
    /\ exit' = [exit EXCEPT ![s] = TRUE]
    /\ UNCHANGED <<content, stored, cleared, pc, nextIndex, received, since>>

MemoryJoin(s) ==
    /\ exit[s]
    /\ Go(s, "done", "joined")
    /\ UNCHANGED <<content, stored, cleared, nextIndex, exit, received, since>>

-----------------------------------------------------------------------------
Poll(s) == Start(s) \/ Wait(s) \/ Size(s) \/ Get(s) \/ GetThrows(s) \/ Increment(s)

MemoryNext ==
    \/ MemoryPut \/ Clear
    \/ \E s \in Subscribers : Construct(s) \/ Poll(s) \/ Destroy(s) \/ MemoryJoin(s)

MemorySpec == MemoryInit /\ [][MemoryNext]_memoryVars

(* The threads of the subscribers run; puts, clears, constructions and      *)
(* destructions are nobody's obligation.                                    *)
MemoryFairSpec ==
    MemorySpec /\ \A s \in Subscribers : WF_memoryVars(Poll(s)) /\ WF_memoryVars(MemoryJoin(s))

-----------------------------------------------------------------------------
(* Every variable stays in its domain.                                      *)
MemoryTypeOK ==
    /\ content \in Seq(Nat \ {0}) /\ stored \in Nat /\ cleared \in BOOLEAN
    /\ pc \in [Subscribers -> SubscriberPC]
    /\ nextIndex \in [Subscribers -> Nat] /\ exit \in [Subscribers -> BOOLEAN]
    /\ received \in [Subscribers -> Seq(Nat \ {0})] /\ since \in [Subscribers -> Nat]

(* Without a clear, the element read (memory.hpp:98) is there although the  *)
(* mutex was released after its size was read (memory.hpp:97).               *)
GetInRange ==
    ~cleared => \A s \in Subscribers : pc[s] = "get" => nextIndex[s] < Len(content)

(* Without a clear, the callbacks are those of the messages put since the   *)
(* construction: each once, in order, with no message skipped, however the  *)
(* puts fall between the construction and the start of the thread.          *)
NoneSkipped ==
    ~cleared =>
        \A s \in Subscribers : \A i \in 1..Len(received[s]) : received[s][i] = since[s] + i

(* Even if the broker is cleared under the subscriber, a message is never   *)
(* called back twice nor after a later one.                                 *)
NeverBackwards ==
    \A s \in Subscribers : \A i, j \in 1..Len(received[s]) : i < j => received[s][i] < received[s][j]

(* A message put after the construction reaches the subscriber unless the   *)
(* subscriber is destroyed or the broker cleared.                           *)
Delivered ==
    \A s \in Subscribers, k \in 1..MaxMessages :
        (pc[s] # "none" /\ since[s] < k /\ stored >= k)
            ~> (exit[s] \/ cleared \/ \E i \in 1..Len(received[s]) : received[s][i] = k)

(* The destructor ends once publishers pause, which MaxMessages makes them   *)
(* do: its thread looks at the promise only when it has read the list to its *)
(* end (memory.hpp:97-100).  A clear can make get throw instead.             *)
DestructorEnds == \A s \in Subscribers : exit[s] ~> (pc[s] = "joined" \/ cleared)

(* What memory.hpp:89-90 says of a subscriber: "The advancement of           *)
(* acquisition is local to the subscriber, but for simplicity a new          *)
(* subscriber starts from the beginning of memory content".                 *)
StartsFromBeginning ==
    ~cleared => \A s \in Subscribers : received[s] # <<>> => received[s][1] = 1
=============================================================================
