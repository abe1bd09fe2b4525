------------------------------ MODULE CleanupLease ------------------------------
(***************************************************************************)
(* The cleanup workers and the clock.  Each running instance of the        *)
(* service has one worker; they share the table blob_cleanup_tasks.  A     *)
(* worker claims due tasks by moving their next attempt to the end of a    *)
(* lease, removes their blobs one after the other, each under a deadline,  *)
(* and completes a task or puts it off by a backoff that doubles.          *)
(*                                                                         *)
(* The lease is meant to cover the whole batch.  It starts at a clock that *)
(* the worker reads before it claims and it is compared with the clock of  *)
(* the database, so that a slow claim, a clock that is behind, a removal   *)
(* that overruns its deadline or a worker that stalls shortens it.         *)
(*                                                                         *)
(* Times are relative: wait[k] is what is left until next_attempt_at, and  *)
(* every timer counts down.  What happens to rows and blobs is the subject *)
(* of DocumentStore, where a claimed task becomes due at any time.         *)
(***************************************************************************)
EXTENDS Integers, FiniteSets

CONSTANTS
    Worker,             \* one per running instance
    Task,
    BatchSizes,         \* how many tasks are claimed at once, for each claim anew:
                        \* instances may be configured differently
    PollInterval, OperationTimeout, InitialBackoff, MaxBackoff,
    MaxDuration,        \* the greatest duration, 2^63 - 1 in the program
    MaxSkew,            \* how far a worker's clock may be behind
    MaxAttempts,        \* bound of the model: attempts are not counted further
    MaxStops,           \* bound of the model: stops and crashes
    NoTask

ASSUME LeaseAssumption ==
    /\ NoTask \notin Task
    /\ IsFiniteSet(Task)
    /\ BatchSizes \subseteq Nat \ {0}
    /\ PollInterval \in 1..MaxDuration
    /\ OperationTimeout \in 1..MaxDuration
    /\ InitialBackoff \in 1..MaxBackoff
    /\ MaxBackoff \in 1..MaxDuration
    /\ MaxDuration \in Nat
    /\ MaxSkew \in Nat
    /\ MaxAttempts \in Nat \ {0}
    /\ MaxStops \in Nat

VARIABLES
    tasks,              \* the rows of blob_cleanup_tasks
    wait,               \* wait[k]: time until next_attempt_at, 0 when it has come
    attempts,           \* attempts[k]
    step,               \* step[w]: progress of the worker
    claimed,            \* claimed[w][k]: attempts of a task w has claimed and not
                        \* dealt with yet, 0 when it has not
    current,            \* current[w]: the task it is dealing with
    timer,              \* timer[w]: time left for the operation, or for the pause
    age,                \* age[w]: how long ago, by the database, the clock w has read was
    failed,             \* failed[w]: batchErrors is not empty
    stopped,            \* stopped[w]: the context of Run is cancelled
    stops,              \* how many have been stopped or have died
    disturbed           \* history: disturbed[w], the tasks of the last batch of w whose
                        \* lease was cut short or overwritten since w claimed them

outbox == << tasks, wait, attempts >>
batch == << claimed, current, failed >>
clocks == << timer, age >>
life == << stopped, stops >>
vars == << outbox, step, batch, clocks, life, disturbed >>

Nobody == [k \in Task |-> 0]

Init ==
    /\ tasks = Task
    /\ wait = [k \in Task |-> 0]
    /\ attempts = [k \in Task |-> 0]
    /\ step = [w \in Worker |-> "begin"]
    /\ claimed = [w \in Worker |-> Nobody]
    /\ current = [w \in Worker |-> NoTask]
    /\ timer = [w \in Worker |-> 0]
    /\ age = [w \in Worker |-> 0]
    /\ failed = [w \in Worker |-> FALSE]
    /\ stopped = [w \in Worker |-> FALSE]
    /\ stops = 0
    /\ disturbed = [w \in Worker |-> {}]

Held(w) == {k \in Task : claimed[w][k] > 0}

AtMost(x, limit) == IF x < limit THEN x ELSE limit
LeftOf(x, passed) == IF x > passed THEN x - passed ELSE 0

--------------------------------------------------------------------------------
(* Durations are signed integers of a fixed width and wrap around.         *)

Wrap(x) == ((x + MaxDuration + 1) % (2 * (MaxDuration + 1))) - (MaxDuration + 1)

(* Mutation: the product is not looked at. *)
LeaseDurationBlindly(size) == Wrap(OperationTimeout * size)

(* The deadline of one operation for every task of a batch. *)
LeaseDuration(size) ==
    IF size <= MaxDuration \div OperationTimeout
    THEN Wrap(OperationTimeout * size) ELSE MaxDuration

(* Mutation: the delay is doubled without a look at what that gives. *)
DoubledBlindly(delay) == Wrap(delay * 2)

(* One turn of the loop in backoff. *)
Doubled(delay) == IF delay > MaxBackoff \div 2 THEN MaxBackoff ELSE Wrap(delay * 2)

(* The delay after n failures, n >= 1. *)
Delay[n \in Nat] ==
    IF n <= 1 THEN InitialBackoff
    ELSE IF Delay[n - 1] < MaxBackoff THEN Doubled(Delay[n - 1]) ELSE Delay[n - 1]

Backoff(n) == AtMost(Delay[n], MaxBackoff)

--------------------------------------------------------------------------------
(* Time.  A statement ends when its context does; the removal of a file    *)
(* and a worker that is not scheduled know no deadline.                    *)

Statement == {"complete", "retry"}

MayLetTimePass(w) == step[w] \in Statement => timer[w] > 0

(* w is losing time that its lease does not cover. *)
Delayed(w) == step[w] = "batch" \/ (step[w] = "remove" /\ timer[w] = 0)

Tick ==
    /\ \A w \in Worker : MayLetTimePass(w)
    /\ wait' = [k \in Task |-> LeftOf(wait[k], 1)]
    /\ timer' = [w \in Worker |-> LeftOf(timer[w], 1)]
    /\ age' = [w \in Worker |-> IF step[w] \in {"claim", "retry"}
                                 THEN AtMost(age[w] + 1, MaxDuration) ELSE 0]
    /\ disturbed' = [w \in Worker |-> IF Delayed(w) THEN disturbed[w] \cup Held(w)
                                      ELSE disturbed[w]]
    /\ UNCHANGED << tasks, attempts, step, batch, life >>

--------------------------------------------------------------------------------
(* One iteration of ProcessBatch. *)

WorkTo(w, from, to) == /\ step[w] = from
                       /\ step' = [step EXCEPT ![w] = to]
                       /\ UNCHANGED life

ReadClock(w) == \E behind \in 0..MaxSkew : age' = [age EXCEPT ![w] = behind]

BeginBatch(w) == /\ ~stopped[w] /\ WorkTo(w, "begin", "claim")
                 /\ ReadClock(w)
                 /\ UNCHANGED << outbox, batch, timer, disturbed >>

Due == {k \in tasks : wait[k] = 0}

(* A statement of another worker may have locked the row. *)
Locked(k) == \E w \in Worker : current[w] = k /\ step[w] \in Statement

(* Rows that are locked are skipped, all others are taken while they fit. *)
Claimable(S, size) ==
    /\ Cardinality(S) <= size
    /\ Cardinality(S) = size \/ \A k \in Due \ S : Locked(k)

(* Mutation: the lease covers one operation, not the batch. *)
LeaseOfOneOperation(w, S, size) ==
    /\ attempts' = [k \in Task |-> IF k \in S THEN AtMost(attempts[k] + 1, MaxAttempts)
                                   ELSE attempts[k]]
    /\ wait' = [k \in Task |-> IF k \in S THEN LeftOf(OperationTimeout, age[w]) ELSE wait[k]]
    /\ UNCHANGED tasks

(* UPDATE ... SET attempts = attempts + 1, next_attempt_at = the lease's end *)
Lease(w, S, size) ==
    /\ attempts' = [k \in Task |-> IF k \in S THEN AtMost(attempts[k] + 1, MaxAttempts)
                                   ELSE attempts[k]]
    /\ wait' = [k \in Task |-> IF k \in S THEN LeftOf(LeaseDuration(size), age[w]) ELSE wait[k]]
    /\ UNCHANGED tasks

Pause(w) == timer' = [timer EXCEPT ![w] = PollInterval]

(* The claimed tasks are the batch; without any, or after an error, the    *)
(* worker pauses.  An error may hide that the tasks were leased.           *)
Claim(w, S, size) ==
    /\ S \subseteq Due /\ Claimable(S, size)
    /\ age' = [age EXCEPT ![w] = 0]
    /\ \/ /\ S # {} /\ WorkTo(w, "claim", "batch")
          /\ Lease(w, S, size)
          /\ claimed' = [claimed EXCEPT ![w] =
                            [k \in Task |-> IF k \in S THEN attempts'[k] ELSE 0]]
          /\ disturbed' = [disturbed EXCEPT ![w] = IF age[w] > 0 THEN S ELSE {}]
          /\ UNCHANGED << timer, current, failed >>
       \/ /\ WorkTo(w, "claim", "pause")
          /\ Pause(w)
          /\ Lease(w, S, size) \/ UNCHANGED outbox
          /\ UNCHANGED << batch, disturbed >>

(* The tasks come in no particular order.  With each, the time of one      *)
(* operation begins.                                                       *)
StartTask(w, k) ==
    /\ k \in Held(w)
    /\ WorkTo(w, "batch", "remove")
    /\ current' = [current EXCEPT ![w] = k]
    /\ timer' = [timer EXCEPT ![w] = OperationTimeout]
    /\ UNCHANGED << outbox, claimed, failed, age, disturbed >>

(* What w forgets when it is done with its task. *)
Forget(w) ==
    /\ claimed' = [claimed EXCEPT ![w][current[w]] = 0]
    /\ current' = [current EXCEPT ![w] = NoTask]
    /\ age' = [age EXCEPT ![w] = 0]

(* After the last task another batch begins at once, or after a pause if   *)
(* a task of this one failed.                                              *)
NextTask(w, from, error) ==
    LET done == Held(w) = {current[w]} IN
    /\ \/ /\ ~done /\ WorkTo(w, from, "batch")
          /\ timer' = [timer EXCEPT ![w] = 0]
       \/ /\ done /\ (failed[w] \/ error) /\ WorkTo(w, from, "pause")
          /\ Pause(w)
       \/ /\ done /\ ~failed[w] /\ ~error /\ WorkTo(w, from, "begin")
          /\ timer' = [timer EXCEPT ![w] = 0]
    /\ failed' = [failed EXCEPT ![w] = ~done /\ (@ \/ error)]
    /\ Forget(w)

Return(w, from) ==
    /\ stopped[w] /\ WorkTo(w, from, "returned")
    /\ claimed' = [claimed EXCEPT ![w] = Nobody]
    /\ current' = [current EXCEPT ![w] = NoTask]
    /\ failed' = [failed EXCEPT ![w] = FALSE]
    /\ timer' = [timer EXCEPT ![w] = 0]
    /\ age' = [age EXCEPT ![w] = 0]

(* An error ends the batch when Run is to stop. *)
Error(w, from) == IF stopped[w] THEN Return(w, from) ELSE NextTask(w, from, TRUE)

(* The removal of the blob ends, in time or not, and the table is told so  *)
(* in what is left of the operation's time: nothing, when it overran or    *)
(* the worker has been stopped meanwhile.                                  *)
RemoveEnds(w) ==
    /\ \/ /\ timer[w] > 0 /\ ~stopped[w]
          /\ \/ WorkTo(w, "remove", "complete") /\ UNCHANGED age
             \/ WorkTo(w, "remove", "retry") /\ ReadClock(w)
          /\ UNCHANGED << batch, timer >>
       \/ (timer[w] = 0 \/ stopped[w]) /\ Error(w, "remove")
    /\ UNCHANGED << outbox, disturbed >>

Complete(w) == /\ tasks' = tasks \ {current[w]}
               /\ wait' = [wait EXCEPT ![current[w]] = 0]
               /\ attempts' = [attempts EXCEPT ![current[w]] = 0]
               /\ UNCHANGED disturbed

CompleteTask(w) ==
    \/ NextTask(w, "complete", FALSE) /\ Complete(w)
    \/ Error(w, "complete") /\ (Complete(w) \/ UNCHANGED << outbox, disturbed >>)

(* UPDATE ... SET next_attempt_at, whoever holds the task now. *)
PutOff(w) ==
    LET k == current[w] IN
    /\ wait' = IF k \in tasks
               THEN [wait EXCEPT ![k] = LeftOf(Backoff(claimed[w][k]), age[w])] ELSE wait
    /\ disturbed' = [v \in Worker |-> IF v # w /\ k \in Held(v) \cap tasks
                                      THEN disturbed[v] \cup {k} ELSE disturbed[v]]
    /\ UNCHANGED << tasks, attempts >>

RetryTask(w) ==
    \/ NextTask(w, "retry", FALSE) /\ PutOff(w)
    \/ Error(w, "retry") /\ (PutOff(w) \/ UNCHANGED << outbox, disturbed >>)

EndPause(w) == /\ timer[w] = 0 /\ WorkTo(w, "pause", "begin")
               /\ UNCHANGED << outbox, batch, clocks, disturbed >>

(* A claim under a cancelled context fails, and the pause ends with it. *)
ReturnAtOnce(w) == /\ \E from \in {"begin", "claim", "pause"} : Return(w, from)
                   /\ UNCHANGED << outbox, disturbed >>

--------------------------------------------------------------------------------
(* Instances are stopped, die and start again. *)

Stop(w) == /\ ~stopped[w] /\ stops < MaxStops
           /\ stopped' = [stopped EXCEPT ![w] = TRUE]
           /\ stops' = stops + 1
           /\ UNCHANGED << outbox, step, batch, clocks, disturbed >>

StartAgain(w) == /\ step' = [step EXCEPT ![w] = "begin"]
                 /\ stopped' = [stopped EXCEPT ![w] = FALSE]
                 /\ claimed' = [claimed EXCEPT ![w] = Nobody]
                 /\ current' = [current EXCEPT ![w] = NoTask]
                 /\ failed' = [failed EXCEPT ![w] = FALSE]
                 /\ timer' = [timer EXCEPT ![w] = 0]
                 /\ age' = [age EXCEPT ![w] = 0]
                 /\ UNCHANGED << outbox, disturbed >>

Restart(w) == step[w] = "returned" /\ StartAgain(w) /\ UNCHANGED stops

Crash(w) == stops < MaxStops /\ stops' = stops + 1 /\ StartAgain(w)

WorkNext(w) == \/ BeginBatch(w)
               \/ \E S \in SUBSET Due, size \in BatchSizes : Claim(w, S, size)
               \/ \E k \in Task : StartTask(w, k)
               \/ RemoveEnds(w) \/ CompleteTask(w) \/ RetryTask(w)
               \/ EndPause(w) \/ ReturnAtOnce(w)

Next == \/ Tick
        \/ \E w \in Worker : WorkNext(w) \/ Stop(w) \/ Restart(w) \/ Crash(w)

Spec == Init /\ [][Next]_vars

--------------------------------------------------------------------------------
(* Properties *)

Duration == 0..MaxDuration

(* Type invariant: timers and waits are durations; a worker has a task in  *)
(* hand only while it holds it and deals with it.                          *)
TypeOK ==
    /\ tasks \subseteq Task
    /\ wait \in [Task -> Duration]
    /\ attempts \in [Task -> 0..MaxAttempts]
    /\ step \in [Worker -> {"begin", "claim", "batch", "remove", "complete", "retry",
                            "pause", "returned"}]
    /\ claimed \in [Worker -> [Task -> 0..MaxAttempts]]
    /\ current \in [Worker -> Task \cup {NoTask}]
    /\ \A w \in Worker : current[w] # NoTask => claimed[w][current[w]] > 0
    /\ timer \in [Worker -> Duration]
    /\ age \in [Worker -> Nat]
    /\ failed \in [Worker -> BOOLEAN]
    /\ stopped \in [Worker -> BOOLEAN]
    /\ stops \in 0..MaxStops
    /\ disturbed \in [Worker -> SUBSET Task]

(* "The lease covers the worst-case duration of the complete claimed       *)
(* batch": two workers are at one task only if the lease that one of them  *)
(* holds it under was cut short - the claim was slow, the clock behind, a  *)
(* removal overran or the worker stalled - or was overwritten by a worker  *)
(* that was late itself; or at the very moment when an operation is out of *)
(* time.  What had befallen earlier leases of the task explains nothing.   *)
SharedTaskIsExplained ==
    \A w, v \in Worker : \A k \in Held(w) \cap Held(v) :
        \/ w = v \/ k \in disturbed[w] \cup disturbed[v]
        \/ \E x \in {w, v} : current[x] = k /\ timer[x] = 0

PowerOfTwo[n \in Nat] == IF n = 0 THEN 1 ELSE 2 * PowerOfTwo[n - 1]

(* A task is put off by the first delay, doubled for every failure before  *)
(* it but never beyond the greatest, whatever the width of a duration, and *)
(* less only by what the worker's clock was behind.                        *)
RetriesBackOff ==
    [][ \A w \in Worker :
            LET k == current[w]
                delay == AtMost(InitialBackoff * PowerOfTwo[claimed[w][k] - 1], MaxBackoff)
            IN  step[w] = "retry" /\ step'[w] # "retry" /\ wait'[k] # wait[k]
                    => wait'[k] = LeftOf(delay, age[w]) ]_vars
================================================================================
