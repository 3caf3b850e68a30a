---------------------------- MODULE ClientSimple ----------------------------
(***************************************************************************)
(* ClientSimple (src/src/llm.cc:719): one worker thread runs the prompts   *)
(* one calling thread commits.  The caller never takes mutex_, so the      *)
(* worker's lock excludes nothing, and each access of a shared member is a *)
(* step of its own, in program order.  (The members are plain: a machine   *)
(* that reorders stores has behaviours beyond these.)                      *)
(*                                                                         *)
(* Commits are numbered.  The number stands for the prompt of the commit,  *)
(* for the promise it puts in running_task_ and for that promise's future. *)
(***************************************************************************)
EXTENDS Naturals

CONSTANT MaxCommits     \* bound: commits made in a behaviour

ASSUME CommitsAssumption == MaxCommits \in Nat

None == 0               \* no commit: a null or invalid member
Commits == 1 .. MaxCommits

VARIABLES
    caller,             \* where the calling thread is
    worker,             \* where the worker thread is
    commits,            \* commits begun
    pending_prompt,     \* pending_prompt_
    has_new_task,       \* has_new_task_
    running_task,       \* running_task_
    running_future,     \* running_future_
    fulfilled,          \* the promises whose value is set
    stop,               \* stop_
    shutdown,           \* shutdown_
    prompt,             \* the worker's copy of the prompt
    freed               \* sampler_, ctx_ and model_ are freed

callerVars == <<commits, pending_prompt, running_task, running_future, stop,
                shutdown, freed>>
workerVars == <<fulfilled, prompt>>
clientVars == <<caller, worker, has_new_task, callerVars, workerVars>>

CallerPlaces ==
    {"idle", "commit_wait", "commit_unstop", "commit_prompt", "commit_flag",
     "commit_task", "commit_future", "commit_notify", "clear_wait",
     "clear_unstop", "shutdown", "notify", "free", "join", "gone"}

WorkerPlaces ==
    {"check", "block", "asleep", "awake", "take", "unflag", "run", "finish",
     "done", "exited", "crashed"}

ClientInit ==
    /\ caller = "idle" /\ worker = "check"
    /\ commits = 0
    /\ pending_prompt = None /\ prompt = None
    /\ running_task = None /\ running_future = None
    /\ fulfilled = {}
    /\ has_new_task = FALSE
    /\ stop = FALSE /\ shutdown = FALSE /\ freed = FALSE

(***************************************************************************)
(* The calling thread.  A crash of the worker ends the process.            *)
(***************************************************************************)
Caller(from, to) ==
    /\ caller = from /\ worker # "crashed"
    /\ caller' = to

\* Mutant: wait() returns at once.
NoWait == TRUE

\* wait()
WaitIsOver == running_future = None \/ running_future \in fulfilled

Waited(from, to) ==
    /\ Caller(from, to) /\ WaitIsOver
    /\ UNCHANGED <<worker, has_new_task, callerVars, workerVars>>

\* Mutant: the stop of the previous run is never taken back.
StaysStopped(from, to) ==
    /\ Caller(from, to)
    /\ UNCHANGED <<worker, has_new_task, callerVars, workerVars>>

Unstopped(from, to) ==
    /\ Caller(from, to)
    /\ stop' = FALSE
    /\ UNCHANGED <<worker, has_new_task, commits, pending_prompt, running_task,
                   running_future, shutdown, freed, workerVars>>

\* notify_one: it wakes the worker if that is asleep, and is lost otherwise.
Notify == worker' = IF worker = "asleep" THEN "check" ELSE worker

CommitStop ==
    /\ Caller("idle", "commit_wait") /\ commits < MaxCommits
    /\ commits' = commits + 1
    /\ stop' = TRUE
    /\ UNCHANGED <<worker, has_new_task, pending_prompt, running_task,
                   running_future, shutdown, freed, workerVars>>

CommitPrompt ==
    /\ Caller("commit_prompt", "commit_flag")
    /\ pending_prompt' = commits
    /\ UNCHANGED <<worker, has_new_task, commits, running_task, running_future,
                   stop, shutdown, freed, workerVars>>

CommitFlag ==
    /\ Caller("commit_flag", "commit_task")
    /\ has_new_task' = TRUE
    /\ UNCHANGED <<worker, callerVars, workerVars>>

CommitTask ==
    /\ Caller("commit_task", "commit_future")
    /\ running_task' = commits
    /\ UNCHANGED <<worker, has_new_task, commits, pending_prompt,
                   running_future, stop, shutdown, freed, workerVars>>

CommitFuture ==
    /\ Caller("commit_future", "commit_notify")
    /\ running_future' = running_task
    /\ UNCHANGED <<worker, has_new_task, commits, pending_prompt, running_task,
                   stop, shutdown, freed, workerVars>>

CommitNotify ==
    /\ Caller("commit_notify", "idle") /\ Notify
    /\ UNCHANGED <<has_new_task, callerVars, workerVars>>

ClearStop ==
    /\ Caller("idle", "clear_wait")
    /\ stop' = TRUE
    /\ UNCHANGED <<worker, has_new_task, commits, pending_prompt, running_task,
                   running_future, shutdown, freed, workerVars>>

CommitRest ==
    \/ Waited("commit_wait", "commit_unstop")
    \/ Unstopped("commit_unstop", "commit_prompt")
    \/ CommitPrompt \/ CommitFlag \/ CommitTask \/ CommitFuture \/ CommitNotify

ClearRest ==
    \/ Waited("clear_wait", "clear_unstop")
    \/ Unstopped("clear_unstop", "idle")

\* The destructor frees what the worker may be using before it joins it.
DestroyStop ==
    /\ Caller("idle", "shutdown")
    /\ stop' = TRUE
    /\ UNCHANGED <<worker, has_new_task, commits, pending_prompt, running_task,
                   running_future, shutdown, freed, workerVars>>

DestroyShutdown ==
    /\ Caller("shutdown", "notify")
    /\ shutdown' = TRUE
    /\ UNCHANGED <<worker, has_new_task, commits, pending_prompt, running_task,
                   running_future, stop, freed, workerVars>>

DestroyNotify ==
    /\ Caller("notify", "free") /\ Notify
    /\ UNCHANGED <<has_new_task, callerVars, workerVars>>

DestroyFree ==
    /\ Caller("free", "join")
    /\ freed' = TRUE
    /\ UNCHANGED <<worker, has_new_task, commits, pending_prompt, running_task,
                   running_future, stop, shutdown, workerVars>>

DestroyJoin ==
    /\ Caller("join", "gone") /\ worker = "exited"
    /\ UNCHANGED <<worker, has_new_task, callerVars, workerVars>>

DestroyRest == DestroyShutdown \/ DestroyNotify \/ DestroyFree \/ DestroyJoin

(***************************************************************************)
(* The worker thread                                                       *)
(***************************************************************************)
Worker(from, to) ==
    /\ worker = from /\ worker' = to
    /\ UNCHANGED <<caller, callerVars>>

\* cond_.wait evaluates its predicate, and only then begins to wait.
WorkerCheck ==
    /\ Worker("check", IF has_new_task \/ shutdown THEN "awake" ELSE "block")
    /\ UNCHANGED <<has_new_task, workerVars>>

WorkerBlock == Worker("block", "asleep") /\ UNCHANGED <<has_new_task, workerVars>>

SpuriousWakeup ==
    Worker("asleep", "check") /\ UNCHANGED <<has_new_task, workerVars>>

WorkerAwake ==
    /\ Worker("awake", IF shutdown THEN "exited" ELSE "take")
    /\ UNCHANGED <<has_new_task, workerVars>>

WorkerTake ==
    /\ Worker("take", "unflag")
    /\ prompt' = pending_prompt
    /\ UNCHANGED <<has_new_task, fulfilled>>

\* Mutant: the flag is left, so the prompt is run again.
WorkerKeepsFlag == Worker("unflag", "run") /\ UNCHANGED <<has_new_task, workerVars>>

WorkerUnflag ==
    /\ Worker("unflag", "run")
    /\ has_new_task' = FALSE
    /\ UNCHANGED workerVars

\* run() gives up: tokenizing or decoding failed, or stop_ was seen.
RunFails == Worker("run", "done") /\ UNCHANGED <<has_new_task, workerVars>>

RunStops == stop /\ RunFails

RunFinishes == Worker("run", "finish") /\ UNCHANGED <<has_new_task, workerVars>>

\* Undefined behaviour: it may also do what the other steps of run() do.
RunOnFreed ==
    /\ freed
    /\ Worker("run", "crashed") /\ UNCHANGED <<has_new_task, workerVars>>

\* on_finish_(response)
OnFinish == Worker("finish", "done") /\ UNCHANGED <<has_new_task, workerVars>>

\* Mutant: a run that finds no promise counts as a promise kept.
CannotFulfilAgain == running_task \in fulfilled

\* running_task_->set_value() on a null pointer, or a second time.
CannotFulfil == running_task = None \/ running_task \in fulfilled

Fulfil ==
    /\ Worker("done", IF CannotFulfil THEN "crashed" ELSE "check")
    /\ fulfilled' = IF CannotFulfil THEN fulfilled
                                    ELSE fulfilled \cup {running_task}
    /\ UNCHANGED <<has_new_task, prompt>>

WorkerSteps ==
    \/ WorkerCheck \/ WorkerBlock \/ WorkerAwake \/ WorkerTake \/ WorkerUnflag
    \/ RunFails \/ RunStops \/ RunFinishes \/ RunOnFreed \/ Fulfil

-----------------------------------------------------------------------------
CallerSteps == \/ CommitStop \/ CommitRest \/ ClearStop \/ ClearRest
               \/ DestroyStop \/ DestroyRest

ClientNext == CallerSteps \/ WorkerSteps \/ OnFinish \/ SpuriousWakeup

\* A call once begun goes on, and so does the worker; n_predict bounds a run.
\* No wakeup may be hoped for without a notification.
ClientSpec ==
    /\ ClientInit /\ [][ClientNext]_clientVars
    /\ WF_clientVars(CommitRest \/ ClearRest \/ DestroyRest)
    /\ WF_clientVars(WorkerSteps \/ OnFinish)

-----------------------------------------------------------------------------
ClientTypeOK ==
    /\ caller \in CallerPlaces /\ worker \in WorkerPlaces
    /\ commits \in 0 .. MaxCommits
    /\ {pending_prompt, prompt, running_task, running_future}
         \subseteq Commits \cup {None}
    /\ fulfilled \subseteq Commits
    /\ {has_new_task, stop, shutdown, freed} \subseteq BOOLEAN

Resting == {"check", "block", "asleep", "crashed"}

\* When wait() has returned, the worker has nothing in hand and no commit is
\* left unserved: a commit overwrites no prompt that is still to be read, and
\* after clear() no callback comes any more (llm.cc:784, :837).
WaitedMeansQuiet ==
    caller \in {"commit_unstop", "commit_prompt", "clear_unstop"}
    => /\ worker \in Resting /\ ~has_new_task
       /\ \A k \in Commits :
            k < (IF caller = "clear_unstop" THEN commits + 1 ELSE commits)
            => k \in fulfilled

\* The promise a run fulfils, if it can fulfil one, is that of the prompt it ran:
\* wait() is never released by another commit's run (llm.cc:760).
PromiseOfItsPrompt ==
    worker = "done" /\ ~CannotFulfil => running_task = prompt

\* llm.h:129: running_task_ is the task that is running.  A run that is over
\* before commit() has made its promise finds none there, or one already kept
\* (llm.cc:787, :760).
RunHasItsTask == worker = "done" => running_task = prompt

\* A run is only ever stopped by a call that came after its commit: the stop_
\* that ended the previous run never reaches the new one (llm.cc:783, :785).
StopIsForThisRun ==
    worker = "run" /\ stop =>
        caller \in {"commit_wait", "clear_wait", "shutdown", "notify", "free",
                    "join", "gone"}

-----------------------------------------------------------------------------
\* wait() waits for the current prompt, and returns when it is done
\* (llm.cc:778).
WaitReturns ==
    LET waiting == caller \in {"commit_wait", "clear_wait"}
    IN  waiting /\ worker # "crashed" ~> ~waiting \/ worker = "crashed"
=============================================================================
