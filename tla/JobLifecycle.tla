------------------------------ MODULE JobLifecycle ------------------------------
(***************************************************************************)
(* The life of look-ahead jobs between the receiver thread and the workers: *)
(* jobs are promoted from pending human-robot pairs, wait, run, sleep and   *)
(* are awakened by a newer human state; humans that stop sending states are *)
(* removed with their jobs.  One robot, one segment per body.               *)
(*                                                                         *)
(* A state message is handled under _state_received_mux, by one thread at a *)
(* time, but workers run between any two accesses that the handler makes to *)
(* the queues, the body registry and the job registry.  Taking a job from   *)
(* the waiting queue is one step here; WorkerPool has its details.          *)
(*                                                                         *)
(* The presentation of a human takes no lock: its statements are steps of a *)
(* callback of its own, which may overlap the handling of a state message.  *)
(*                                                                         *)
(* An assertion, precondition or map access that fails throws out of a      *)
(* thread's task, which ends the program: failure names it, and no step is  *)
(* taken afterwards.                                                        *)
(***************************************************************************)
EXTENDS Integers, SequencesExt, FiniteSetsExt

CONSTANTS
    Humans,         \* human body identifiers
    Workers,        \* worker threads
    Factories,      \* the job factories of RuntimeConfiguration to choose from
    Timeout,        \* HUMAN_RETENTION_TIMEOUT
    Overlap,        \* TRUE if a presentation may overlap a state callback
    InOrder,        \* TRUE if human states arrive in the order of their timestamps
    Returns,        \* bound: FALSE if a removed human never comes back
    Retentions,     \* the history retentions of RuntimeConfiguration to choose from
    Period,         \* the history purge period of RuntimeConfiguration
    Times,          \* bound: the timestamps of messages
    MaxDepth        \* bound: branchings on the path of a job

ASSUME LifecycleAssumption ==
    /\ Factories \subseteq {"discard", "weak", "strong"}
    /\ Overlap \in BOOLEAN /\ InOrder \in BOOLEAN /\ Returns \in BOOLEAN
    /\ Times \subseteq Nat \ {0} /\ Period \in Nat
    /\ Retentions \subseteq {n \in Nat : n > Period}
    /\ Timeout \in Nat /\ MaxDepth \in Nat
    /\ IsFiniteSet(Humans) /\ Workers \cap {"waiting", "sleeping", "keep", "move"} = {}

VARIABLES
    factory,    \* the factory of the runtime, which does not change
    retention,  \* _history_retention, which does not change
    humans,     \* BodyRegistry._humans: the registered humans
    hist,       \* the timestamps of the instances in each human's history
    blank,      \* those at which the segment sample is empty
    robotTime,  \* latest_time of the robot history, 0 for any time before Times
    ahead,      \* the times from which its snapshot can be looked ahead
    tied,       \* history: the robot has sent two states of one time
    purged,     \* history: the kinds of body whose history has been purged
    everRemoved,\* history: humans removed at least once
    bpc,        \* next statement of the presentation callback
    bbody,      \* the human it presents, or NoBody
    overlapped, \* history: a presentation and a state callback have overlapped
    pending,    \* _pending_human_robot_pairs, by human
    waiting,    \* _waiting_jobs
    sleeping,   \* _sleeping_jobs
    entries,    \* timestamps of LookAheadJobRegistry._entries
    reg,        \* <<human, timestamp, path>> registered in its trees
    pc,         \* next statement of each worker
    cur,        \* the job each worker processes, as a sequence of at most one
    todo,       \* the next jobs it has still to look at
    rcv,        \* next statement of the receiver
    msgTime,    \* timestamp of the message being handled
    gone,       \* hids_to_remove
    keep,       \* jobs_to_keep, or new_jobs
    move,       \* jobs_to_move
    left,       \* pending pairs that a loop over them has still to examine
    failure     \* the assertion that ended the program, or "none"

bodyVars     == <<factory, retention, humans, hist, blank, robotTime, ahead, tied, purged,
                  everRemoved, bpc, bbody, overlapped>>
queueVars    == <<waiting, sleeping>>
registryVars == <<entries, reg>>
workerVars   == <<pc, cur, todo>>
localVars    == <<msgTime, gone, keep, move, left>>
vars == <<bodyVars, pending, queueVars, registryVars, workerVars, rcv, localVars, failure>>

Priorities == {0, 1}
Paths == BoundedSeq(Priorities, MaxDepth)
Job == [human : Humans, time : Times, path : Paths]

IsPrimary(path) == \A i \in DOMAIN path : path[i] = 0

NoBody == "nobody"

\* Reusing jobs, under the weak or the strong equivalence.
Reuse == factory # "discard"

\* The presences of the robot history do not tell a mode for every time before
\* the latest: some are purged, or two states came with one timestamp.
HistoryShort == "robot" \in purged \/ tied

HasInstancesWithin(h) == \E t \in hist[h] : t <= robotTime
LatestWithin(h) == Max({t \in hist[h] : t <= robotTime})

-----------------------------------------------------------------------------
(* The job registry and the job factory.                                    *)

\* Mutant: a next job is enqueued whatever is registered.
NeverRegistered(h, t, path) == FALSE

HasRegistered(h, t, path) == Reuse /\ <<h, t, path>> \in reg

\* Walking down the path, try_register meets no registered node.
Acceptable(h, t, path) == \A p \in Prefixes(path) : <<h, t, p>> \notin reg

\* An entry is found or, for a timestamp above all others, appended.
TimestampFound(t) == Reuse => t \in entries \/ \A e \in entries : e < t

TryRegister(h, t, paths) ==
    IF Reuse
    THEN /\ entries' = entries \cup {t}
         /\ reg' = reg \cup {<<h, t, p>> : p \in {q \in paths : Acceptable(h, t, q)}}
    ELSE UNCHANGED registryVars

\* create_next: no path if the trace has looped, the same path for a single
\* next mode, one path per branch otherwise.
NextPaths(path) ==
    {{}, {path}} \cup
    (IF Len(path) < MaxDepth THEN {{Append(path, i) : i \in Priorities}} ELSE {})

\* The paths under which a job with a non-empty human sample restarts: the
\* part of its path between the mode to start and the last mode kept or, when
\* the whole trace is kept, its next paths.
AwakenedPaths(path) ==
    {{p} : p \in SubSeqs(path)} \cup UNION {NextPaths(p) \ {{}} : p \in Suffixes(path)}

JobAt(h, t, path) == [human |-> h, time |-> t, path |-> path]
JobsAt(h, t, paths) ==
    LET list == SetToSeq(paths) IN [i \in DOMAIN list |-> JobAt(h, t, list[i])]

-----------------------------------------------------------------------------
Init ==
    /\ factory \in Factories /\ retention \in Retentions /\ purged = {}
    /\ humans = {} /\ everRemoved = {}
    /\ hist = [h \in Humans |-> {}] /\ blank = [h \in Humans |-> {}]
    /\ robotTime = 0 /\ ahead = {} /\ tied = FALSE
    /\ bpc = "idle" /\ bbody = NoBody /\ overlapped = FALSE
    /\ pending = <<>> /\ waiting = <<>> /\ sleeping = <<>>
    /\ entries = {} /\ reg = {}
    /\ pc = [w \in Workers |-> "idle"]
    /\ cur = [w \in Workers |-> <<>>]
    /\ todo = [w \in Workers |-> <<>>]
    /\ rcv = "idle"
    /\ msgTime = 0 /\ gone = {} /\ keep = <<>> /\ move = <<>> /\ left = <<>>
    /\ failure = "none"

\* The program has not ended.
Up == failure = "none"

Fail(what) ==
    /\ failure' = what
    /\ UNCHANGED <<bodyVars, pending, queueVars, registryVars, workerVars, rcv, localVars>>

-----------------------------------------------------------------------------
(* The receiver.                                                            *)

MayCome(h) == Returns \/ h \notin everRemoved

\* A human that is not registered is presented.
PresentCheck(h) ==
    /\ Up /\ bpc = "idle" /\ (Overlap \/ rcv = "idle")
    /\ h \notin humans /\ MayCome(h)
    /\ bpc' = "push" /\ bbody' = h
    /\ overlapped' = (overlapped \/ rcv # "idle")
    /\ UNCHANGED <<factory, retention, humans, hist, blank, robotTime, ahead, tied, purged,
                   everRemoved, pending, queueVars, registryVars, workerVars, rcv, localVars, failure>>

\* Its pair with the robot is pushed, which a loop over the pairs that ends with
\* an assignment overwrites.
PresentPush ==
    /\ Up /\ bpc = "push"
    /\ pending' = IF rcv \in {"filter", "promote"} THEN pending ELSE Append(pending, bbody)
    /\ bpc' = "insert"
    /\ UNCHANGED <<factory, retention, humans, hist, blank, robotTime, ahead, tied, purged,
                   everRemoved, bbody, overlapped, queueVars, registryVars, workerVars, rcv,
                   localVars, failure>>

\* It is inserted, unless a state message has registered it meanwhile.
PresentInsert ==
    /\ Up /\ bpc = "insert"
    /\ humans' = humans \cup {bbody}
    /\ bpc' = "idle" /\ bbody' = NoBody
    /\ UNCHANGED <<factory, retention, hist, blank, robotTime, ahead, tied, purged, everRemoved,
                   overlapped, pending, queueVars, registryVars, workerVars, rcv, localVars, failure>>

\* A state message comes.
StateComes == Up /\ rcv = "idle" /\ (Overlap \/ bpc = "idle")
NoticeOverlap == overlapped' = (overlapped \/ bpc # "idle")

\* Timestamps are unsigned: a difference below zero is a very large number.
Modulus == 65536    \* bound: stands for 2^64, far above Times
Minus(a, b) == (a - b) % Modulus

\* What remove_older_than leaves of a human's instances.
Recent(t, S) == {u \in S : u >= Minus(t, retention)}

ToPurge(t, earliest) == Minus(t, earliest) > retention + Period

\* _remove_old_history for a human of the message, whose instances are S.
Purge(t, S) == IF ToPurge(t, Min(S)) THEN Recent(t, S) ELSE S

\* A human state message: unknown humans are registered and paired with the
\* robot, an instance is added where it is newer than the last one, and the
\* old instances are purged, some of which have to remain.
HumanState(t, bodies, empty) ==
    LET fresh == {h \in bodies : \A u \in hist[h] : u < t}
        With(f, S) == [h \in Humans |-> f[h] \cup (IF h \in S THEN {t} ELSE {})]
        added == With(hist, fresh)
        kept == [h \in Humans |-> IF h \in bodies THEN Purge(t, added[h]) ELSE hist[h]]
    IN  /\ StateComes
        /\ InOrder => \A h \in Humans : \A u \in hist[h] : u <= t
        /\ \A h \in bodies : MayCome(h)
        /\ IF \E h \in bodies : kept[h] = {} THEN Fail("no human instance left")
           ELSE /\ humans' = humans \cup bodies
                /\ hist' = kept
                /\ blank' = [h \in Humans |-> With(blank, fresh \cap empty)[h] \cap kept[h]]
                /\ purged' = purged \cup (IF kept # added THEN {"human"} ELSE {})
                /\ pending' = pending \o SetToSeq(bodies \ humans)
                /\ msgTime' = t
                /\ rcv' = "remove" /\ NoticeOverlap
                /\ UNCHANGED <<factory, retention, robotTime, ahead, tied, everRemoved, bpc, bbody,
                               queueVars, registryVars, workerVars, gone, keep, move, left, failure>>

\* A state message of the robot, which has been presented before.  What can
\* be looked ahead from a time in the past does not change any more.
RobotState(t) ==
    /\ StateComes
    /\ t >= robotTime
    /\ robotTime' = t /\ tied' = (tied \/ t = robotTime)
    /\ \E new \in SUBSET {u \in Times : robotTime <= u /\ u <= t} :
          ahead' = {u \in ahead : u < robotTime} \cup new
    /\ msgTime' = t
    /\ rcv' = "remove" /\ NoticeOverlap
    /\ UNCHANGED <<factory, retention, humans, hist, blank, purged, everRemoved, bpc, bbody, pending,
                   queueVars, registryVars, workerVars, gone, keep, move, left, failure>>

\* One at which the earliest presence of the robot, from a state at any time
\* before, is old enough for a purge.  Without the presences dropped, less or
\* other times can be looked ahead from.  If no mode trace is left, the front
\* of an empty deque is read: the process may end or go on.
RobotPurge(t) ==
    /\ StateComes
    /\ t >= robotTime
    /\ \E first \in Times : first <= robotTime /\ ToPurge(t, first)
    /\ \/ Fail("no mode trace left")
       \/ /\ robotTime' = t /\ tied' = (tied \/ t = robotTime)
          /\ \E new \in SUBSET {u \in Times : u <= t} : ahead' = new
          /\ purged' = purged \cup {"robot"}
          /\ msgTime' = t
          /\ rcv' = "remove" /\ NoticeOverlap
          /\ UNCHANGED <<factory, retention, humans, hist, blank, everRemoved, bpc, bbody, pending,
                         queueVars, registryVars, workerVars, gone, keep, move, left, failure>>

Unresponding ==
    {h \in humans : hist[h] # {} /\ \A u \in hist[h] : msgTime > u + Timeout}

\* The loop over the pending pairs, if there is one to come.
StartFilter ==
    IF Unresponding = {} THEN rcv' = "awaken" /\ UNCHANGED <<pending, left>>
    ELSE rcv' = "filter" /\ left' = pending /\ pending' = <<>>

\* Mutant: the history of a removed human stays.
RemoveHumansOnly ==
    /\ Up /\ rcv = "remove"
    /\ humans' = humans \ Unresponding
    /\ everRemoved' = everRemoved \cup Unresponding
    /\ gone' = Unresponding
    /\ StartFilter
    /\ UNCHANGED <<factory, retention, hist, blank, robotTime, ahead, tied, purged, bpc, bbody,
                   overlapped, queueVars, registryVars, workerVars, msgTime, keep, move, failure>>

\* registry.remove drops the body with its history.
RemoveHumans ==
    LET Without(f) == [h \in Humans |-> IF h \in Unresponding THEN {} ELSE f[h]]
    IN  /\ Up /\ rcv = "remove"
        /\ humans' = humans \ Unresponding
        /\ hist' = Without(hist)
        /\ blank' = Without(blank)
        /\ everRemoved' = everRemoved \cup Unresponding
        /\ gone' = Unresponding
        /\ StartFilter
        /\ UNCHANGED <<factory, retention, robotTime, ahead, tied, purged, bpc, bbody, overlapped,
                       queueVars, registryVars, workerVars, msgTime, keep, move, failure>>

KeepPair(h) == pending' = Append(pending, h) /\ UNCHANGED <<queueVars, registryVars>>
DropPair == UNCHANGED <<pending, queueVars, registryVars>>

\* Mutant: the pending pairs of a removed human stay.
FilterNothing ==
    /\ Up /\ rcv = "filter" /\ left # <<>>
    /\ KeepPair(Head(left))
    /\ left' = Tail(left)
    /\ UNCHANGED <<bodyVars, workerVars, rcv, msgTime, gone, keep, move, failure>>

\* The pairs of the humans removed are dropped.
Filter ==
    /\ Up /\ rcv = "filter" /\ left # <<>>
    /\ IF Head(left) \in gone THEN DropPair ELSE KeepPair(Head(left))
    /\ left' = Tail(left)
    /\ UNCHANGED <<bodyVars, workerVars, rcv, msgTime, gone, keep, move, failure>>

FilterEnd ==
    /\ Up /\ rcv = "filter" /\ left = <<>>
    /\ rcv' = "purge"
    /\ UNCHANGED <<bodyVars, pending, queueVars, registryVars, workerVars, localVars, failure>>

\* The sleeping queue is drained, and the jobs of the other humans put back.
PurgeSleeping ==
    /\ Up /\ rcv = "purge" /\ sleeping # <<>>
    /\ sleeping' = Tail(sleeping)
    /\ IF Head(sleeping).human \in gone THEN UNCHANGED keep ELSE keep' = Append(keep, Head(sleeping))
    /\ UNCHANGED <<bodyVars, pending, waiting, registryVars, workerVars, rcv, msgTime, gone, move,
                   left, failure>>

PurgeEnd ==
    /\ Up /\ rcv = "purge" /\ sleeping = <<>>
    /\ sleeping' = keep /\ keep' = <<>>
    /\ gone' = {}
    /\ rcv' = "awaken"
    /\ UNCHANGED <<bodyVars, pending, waiting, registryVars, workerVars, msgTime, move, left,
                   failure>>

\* The lookups of instances that awakening a job starts with, in their order.
AwakenFailure(j) ==
    IF j.human \notin humans THEN "human not registered"
    ELSE IF ~HasInstancesWithin(j.human) THEN "no human instance within time"
    ELSE IF j.time > LatestWithin(j.human) THEN "lower time above upper time"
    ELSE IF j.time \notin hist[j.human] THEN "lower timestamp not found"
    ELSE "none"

\* Mutant: every job of a trace restarts it.
RestartAny(h, t, path) == <<JobAt(h, t, <<>>)>>

\* DIFFERENT with the discarding factory, for the primary job only.
Restart(h, t, path) == IF IsPrimary(path) THEN <<JobAt(h, t, <<>>)>> ELSE <<>>

\* What the factory makes of a drained job at time t: the jobs to keep, the
\* jobs to move and the paths it tries to register.
Awakening(j, t) ==
    LET h == j.human
    IN  CASE t \in blank[h] ->              \* UNCOMPUTABLE
                {[kept |-> <<JobAt(h, t, j.path)>>, moved |-> <<>>, tried |-> {j.path}]}
          [] t \notin blank[h] /\ ~Reuse ->
                {[kept |-> <<>>, moved |-> Restart(h, t, j.path), tried |-> {}]}
          [] OTHER ->                       \* COMPLETED, or DIFFERENT where accepted
                {[kept |-> <<JobAt(h, t, p)>>, moved |-> <<>>, tried |-> {}]
                    : p \in Suffixes(j.path)}
                \cup
                {[kept |-> <<>>, tried |-> paths,
                  moved |-> JobsAt(h, t, {p \in paths : Acceptable(h, t, p)})]
                    : paths \in AwakenedPaths(j.path)}

\* The front of the sleeping queue is drained.  Without a newer instance, or
\* if the robot cannot be looked ahead from it, the job is kept as it is; the
\* snapshot at which this is asked may be older than t, and show less.
Drain(j, t) ==
    /\ sleeping' = Tail(sleeping)
    /\ \/ /\ keep' = Append(keep, j)
          /\ UNCHANGED <<move, registryVars>>
       \/ /\ j.time < t /\ t \in ahead
          /\ \E a \in Awakening(j, t) :
                /\ a.tried # {} => TimestampFound(t)
                /\ keep' = keep \o a.kept
                /\ move' = move \o a.moved
                /\ IF a.tried = {} THEN UNCHANGED registryVars
                                   ELSE TryRegister(j.human, t, a.tried)
    /\ UNCHANGED <<bodyVars, pending, waiting, workerVars, rcv, msgTime, gone,
                   left, failure>>

\* The robot history has no mode at the time of the snapshot or of the instance,
\* or the samples that awakening a job reads there.  Under the weak equivalence
\* the mode may have begun after the snapshot that the job holds to.
AwakenMisses(j, t) ==
    /\ j.time < t
    /\ HistoryShort \/ (factory = "weak" /\ t \in ahead \ blank[j.human])

Awaken ==
    /\ Up /\ rcv = "awaken"
    /\ sleeping # <<>>
    /\ LET j == Head(sleeping)
           t == LatestWithin(j.human)
       IN  IF AwakenFailure(j) # "none" THEN Fail(AwakenFailure(j))
           ELSE \/ Drain(j, t)
                \/ AwakenMisses(j, t) /\ Fail("not in the robot history")
                \/ /\ j.time < t /\ t \in ahead /\ ~TimestampFound(t)
                   /\ \E a \in Awakening(j, t) : a.tried # {}
                   /\ Fail("timestamp not in job registry")

\* The sleeping queue is empty: the drained jobs are enqueued, those to keep
\* first, and the pending pairs are examined.
Refill ==
    /\ Up /\ rcv = "awaken"
    /\ sleeping = <<>>
    /\ sleeping' = keep /\ keep' = <<>>
    /\ waiting' = waiting \o move /\ move' = <<>>
    /\ left' = pending /\ pending' = <<>>
    /\ rcv' = "promote"
    /\ UNCHANGED <<bodyVars, registryVars, workerVars, msgTime, gone, failure>>

\* Mutant: a promoted pair stays pending.
PromotePairAgain(h, t) ==
    /\ TryRegister(h, t, {<<>>})
    /\ waiting' = Append(waiting, JobAt(h, t, <<>>))
    /\ pending' = Append(pending, h)
    /\ UNCHANGED sleeping

\* A pending pair becomes a job at the latest human instance within the
\* robot's time, if the robot can be looked ahead from there.
PromotePair(h, t) ==
    /\ TryRegister(h, t, {<<>>})
    /\ IF t \in blank[h]
       THEN sleeping' = Append(sleeping, JobAt(h, t, <<>>)) /\ UNCHANGED waiting
       ELSE waiting' = Append(waiting, JobAt(h, t, <<>>)) /\ UNCHANGED sleeping
    /\ UNCHANGED pending

Promote ==
    /\ Up /\ rcv = "promote"
    /\ left # <<>>
    /\ LET h == Head(left)
           t == LatestWithin(h)
           Examined == /\ left' = Tail(left)
                       /\ UNCHANGED <<bodyVars, workerVars, rcv, msgTime, gone, keep,
                                      move, failure>>
       IN  IF h \notin humans THEN Fail("human not registered")
           ELSE \/ /\ ~(HasInstancesWithin(h) /\ t \in ahead)
                   /\ KeepPair(h) /\ Examined
                \/ /\ HasInstancesWithin(h) /\ HistoryShort
                   /\ Fail("not in the robot history")
                \/ /\ HasInstancesWithin(h) /\ t \in ahead
                   /\ IF ~TimestampFound(t) THEN Fail("timestamp not in job registry")
                      ELSE IF Reuse /\ ~Acceptable(h, t, <<>>) THEN Fail("job already registered")
                      ELSE PromotePair(h, t) /\ Examined

HandlerEnd ==
    /\ Up /\ rcv = "promote"
    /\ left = <<>>
    /\ rcv' = "idle"
    /\ msgTime' = 0
    /\ UNCHANGED <<bodyVars, pending, queueVars, registryVars, workerVars,
                   gone, keep, move, left, failure>>

-----------------------------------------------------------------------------
(* A worker.                                                                *)

receiverVars == <<bodyVars, pending, rcv, localVars, failure>>

Go(w, label) == pc' = [pc EXCEPT ![w] = label]
Leave(w) == cur' = [cur EXCEPT ![w] = <<>>] /\ Go(w, "idle")

MyJob(w) == cur[w][1]

Take(w) ==
    /\ Up /\ pc[w] = "idle"
    /\ waiting # <<>>
    /\ cur' = [cur EXCEPT ![w] = <<Head(waiting)>>]
    /\ waiting' = Tail(waiting)
    /\ Go(w, "check")
    /\ UNCHANGED <<receiverVars, sleeping, registryVars, todo>>

\* The job is aborted if its human has been removed.
Check(w) ==
    /\ Up /\ pc[w] = "check"
    /\ IF MyJob(w).human \in humans THEN Go(w, "search") /\ UNCHANGED cur ELSE Leave(w)
    /\ UNCHANGED <<receiverVars, queueVars, registryVars, todo>>

\* Mutant: a job without next modes ends.
SearchDropping(w) ==
    /\ Up /\ pc[w] = "search"
    /\ IF MyJob(w).human \in humans
       THEN \E paths \in NextPaths(MyJob(w).path) :
                /\ todo' = [todo EXCEPT ![w] = JobsAt(MyJob(w).human, MyJob(w).time, paths)]
                /\ IF paths = {} THEN Leave(w) ELSE Go(w, "next") /\ UNCHANGED cur
       ELSE Leave(w) /\ UNCHANGED todo
    /\ UNCHANGED <<receiverVars, queueVars, registryVars>>

\* After the search for a collision the human is looked at again.  With a
\* collision or without next modes the job sleeps, otherwise the next jobs
\* are looked at in turn.
Search(w) ==
    /\ Up /\ pc[w] = "search"
    /\ IF MyJob(w).human \in humans
       THEN /\ \E paths \in NextPaths(MyJob(w).path) :
                 /\ todo' = [todo EXCEPT ![w] = JobsAt(MyJob(w).human, MyJob(w).time, paths)]
                 /\ Go(w, IF paths = {} THEN "sleep" ELSE "next")
            /\ UNCHANGED cur
       ELSE Leave(w) /\ UNCHANGED todo
    /\ UNCHANGED <<receiverVars, queueVars, registryVars>>

\* The robot history has no trace up to the snapshot of the job, which the
\* search and the creation of its next jobs access or, under the weak
\* equivalence, the merged trace leads nowhere.
SearchFails(w) ==
    /\ Up /\ pc[w] = "search"
    /\ HistoryShort \/ factory = "weak"
    /\ Fail("not in the robot history")

Sleep(w) ==
    /\ Up /\ pc[w] = "sleep"
    /\ sleeping' = Append(sleeping, MyJob(w))
    /\ Leave(w)
    /\ UNCHANGED <<receiverVars, waiting, registryVars, todo>>

\* A next job on a longer path is dropped when its path is registered.
NextJob(w) ==
    /\ Up /\ pc[w] = "next"
    /\ todo[w] # <<>>
    /\ LET nj == Head(todo[w])
       IN  IF Len(nj.path) > Len(MyJob(w).path) /\ HasRegistered(nj.human, nj.time, nj.path)
           THEN todo' = [todo EXCEPT ![w] = Tail(@)] /\ UNCHANGED pc
           ELSE Go(w, "enqueue") /\ UNCHANGED todo
    /\ UNCHANGED <<receiverVars, queueVars, registryVars, cur>>

Enqueue(w) ==
    /\ Up /\ pc[w] = "enqueue"
    /\ waiting' = Append(waiting, Head(todo[w]))
    /\ todo' = [todo EXCEPT ![w] = Tail(@)]
    /\ Go(w, "next")
    /\ UNCHANGED <<receiverVars, sleeping, registryVars, cur>>

NextEnd(w) ==
    /\ Up /\ pc[w] = "next"
    /\ todo[w] = <<>>
    /\ Leave(w)
    /\ UNCHANGED <<receiverVars, queueVars, registryVars, todo>>

-----------------------------------------------------------------------------
Receiver ==
    \/ \E h \in Humans : PresentCheck(h)
    \/ PresentPush \/ PresentInsert
    \/ \E t \in Times, bodies \in SUBSET Humans \ {{}} :
          \E empty \in SUBSET bodies : HumanState(t, bodies, empty)
    \/ \E t \in Times : RobotState(t) \/ RobotPurge(t)
    \/ RemoveHumans \/ Filter \/ FilterEnd \/ PurgeSleeping \/ PurgeEnd
    \/ Awaken \/ Refill \/ Promote \/ HandlerEnd

Worker(w) ==
    Take(w) \/ Check(w) \/ Search(w) \/ SearchFails(w) \/ Sleep(w) \/ NextJob(w) \/ Enqueue(w) \/ NextEnd(w)

Next == Receiver \/ \E w \in Workers : Worker(w)

Spec == Init /\ [][Next]_vars

-----------------------------------------------------------------------------
\* What may fail once a history has been purged, or a message is older than the
\* retention itself.
PurgeFailures == {"no human instance left", "no human instance within time",
                  "lower timestamp not found", "no mode trace left",
                  "not in the robot history"}

Failures == {"none", "human not registered", "no human instance within time",
             "lower time above upper time", "lower timestamp not found",
             "timestamp not in job registry", "job already registered"} \cup PurgeFailures

(* Every variable stays in its domain.                                      *)
TypeOK ==
    /\ factory \in Factories /\ retention \in Retentions /\ purged \subseteq {"human", "robot"}
    /\ humans \subseteq Humans /\ everRemoved \subseteq Humans
    /\ hist \in [Humans -> SUBSET Times]
    /\ \A h \in Humans : blank[h] \subseteq hist[h] /\ (h \notin humans => hist[h] = {})
    /\ tied \in BOOLEAN /\ overlapped \in BOOLEAN
    /\ bpc \in {"idle", "push", "insert"} /\ bbody \in Humans \cup {NoBody}
    /\ bpc # "idle" => bbody \in Humans
    /\ robotTime \in {0} \cup Times /\ ahead \subseteq Times /\ msgTime \in {0} \cup Times
    /\ ToSet(pending) \cup ToSet(left) \cup gone \subseteq Humans
    /\ ToSet(waiting) \cup ToSet(sleeping) \cup ToSet(keep) \cup ToSet(move) \subseteq Job
    /\ entries \subseteq Times /\ reg \subseteq Humans \X Times \X Paths
    /\ \A w \in Workers : ToSet(cur[w]) \cup ToSet(todo[w]) \subseteq Job
    /\ pc \in [Workers -> {"idle", "check", "search", "sleep", "next", "enqueue"}]
    /\ rcv \in {"idle", "remove", "filter", "purge", "awaken", "promote"}
    /\ failure \in Failures

\* The jobs a worker answers for: its own until its next jobs replace it.
InWorker(w) == IF pc[w] \in {"next", "enqueue"} THEN todo[w] ELSE cur[w]

\* The jobs alive anywhere: queued, in a list of the receiver or in a worker.
Queued == [waiting |-> waiting, sleeping |-> sleeping, keep |-> keep, move |-> move]
Places == DOMAIN Queued \cup Workers
JobsIn(place) == IF place \in Workers THEN InWorker(place) ELSE Queued[place]

\* Where a job occurs: a place and a position.
Occurrences == UNION {{place} \X DOMAIN JobsIn(place) : place \in Places}
JobOf(o) == JobsIn(o[1])[o[2]]

\* Humans whose pair with the robot has been promoted, once and for all.
Promoted == {h \in humans \ everRemoved : h \notin ToSet(pending) \cup ToSet(left)}

(* As long as no presentation has overlapped a state callback, a pair of a   *)
(* human and a robot that has been promoted is looked after while the human  *)
(* stays registered: whatever the branching, dropping of registered next     *)
(* jobs (runtime.cpp:204), discarding of jobs awakened                      *)
(* (lookahead_job_factory.cpp:166,180) and interleaving of the two, some job *)
(* of it remains.                                                           *)
NeverOrphaned == ~overlapped => \A h \in Promoted : \E o \in Occurrences : JobOf(o).human = h

(* With the discarding factory exactly one of them is then primary, so       *)
(* awakening (lookahead_job_factory.cpp:74) neither loses nor multiplies the *)
(* pair.                                                                    *)
OnePrimary ==
    LET Primary(h) == {o \in Occurrences : JobOf(o).human = h /\ IsPrimary(JobOf(o).path)}
    IN  ~overlapped /\ ~Reuse => \A h \in Promoted : Cardinality(Primary(h)) = 1

(* Unless a human is removed or callbacks overlap, every assertion that fails *)
(* on the way of jobs has a cause among four: the timestamp that the job     *)
(* registry looks up, a purge, two robot states of one time, or the weak     *)
(* equivalence in the robot history (lookahead_job_factory.cpp:45,            *)
(* state.cpp:402,412).  A job is then never later than the instance it is    *)
(* awakened to (state.cpp:90), none is created twice                         *)
(* (lookahead_job_factory.cpp:89), its human and its instances are found      *)
(* (body_registry.cpp:164, state.cpp:66-71,98) unless they are purged, and no *)
(* history is emptied unless a message is older than the retention and the   *)
(* subtraction wraps (runtime_io.cpp:105).                                   *)
SafeWithoutRemoval ==
    everRemoved = {} /\ ~overlapped =>
        /\ failure \in {"none", "timestamp not in job registry"} \cup PurgeFailures
        /\ failure \in {"no human instance within time", "lower timestamp not found"}
              => purged # {}
        /\ failure = "not in the robot history" => HistoryShort \/ factory = "weak"
        /\ failure = "no human instance left" => ~InOrder /\ \E t \in Times : t < retention

(* As long as callbacks have not overlapped, a pending pair has its human in *)
(* the body registry while a state message is handled, where                 *)
(* _promote_pairs_to_jobs looks it up, and a human is paired once: removal   *)
(* (runtime_io.cpp:155-169), presentation, registration by a state message   *)
(* and promotion leave no stale or second pair.                             *)
PairsSound ==
    LET pairs == left \o pending
    IN  ~overlapped =>
           /\ rcv \notin {"idle", "filter"} => ToSet(pairs) \subseteq humans
           /\ \A i, j \in DOMAIN pairs : pairs[i] = pairs[j] => i = j

(* What lookahead_job_registry.hpp:102-104 promises: "the registry avoids to *)
(* end up running the same working job(s) multiple times".  No two jobs that *)
(* wait or run have the same identifier, initial time and path, as long as   *)
(* callbacks have not overlapped.                                           *)
RunOnce ==
    LET busy == {"waiting", "move"} \cup {w \in Workers : pc[w] \in {"check", "search", "sleep"}}
        Busy == {o \in Occurrences : o[1] \in busy}
    IN  Reuse /\ ~overlapped =>
            \A o1, o2 \in Busy :
                JobOf(o1) = JobOf(o2) => o1 = o2 \/ JobOf(o1).human \in everRemoved

(* What runtime_io.hpp:91 says of the removal of unresponding humans:       *)
(* "Remove all humans and their sleeping jobs".  Between two messages no    *)
(* job of an unregistered human sleeps.                                     *)
NoSleepingJobOfRemoved ==
    rcv = "idle" => \A j \in ToSet(sleeping) : j.human \in humans

(* The assertion of lookahead_job_registry.cpp:126 never fails.             *)
TimestampInRegistry == failure # "timestamp not in job registry"
=============================================================================
