-------------------------- MODULE PredictionProofs --------------------------
(***************************************************************************)
(* Theorems about ClientSimple, LLMProvider, History and Prediction.       *)
(*                                                                         *)
(* The caller and the worker share members that no lock protects, so what  *)
(* keeps them apart is only the order of the caller's steps.  The          *)
(* invariant therefore says, for every place of the caller, how far the    *)
(* latest commit has got into the members, and then that the worker either *)
(* rests, with every commit it has been told of fulfilled, or works at the *)
(* latest of them, with only the earlier ones fulfilled.                   *)
(*                                                                         *)
(* The history drops bytes and widths by different measures.  What stays   *)
(* is that its widths are those of the last texts, and that its bytes and  *)
(* those of the committed texts end alike.                                 *)
(***************************************************************************)
EXTENDS Prediction, DataInduction

-----------------------------------------------------------------------------
(***************************************************************************)
(* The inductive invariant of the client                                   *)
(***************************************************************************)
\* The latest commit as each member knows it: a commit reaches pending_prompt_,
\* has_new_task_, running_task_ and running_future_ in that order.
Unprompted == {"commit_wait", "commit_unstop", "commit_prompt"}
Unflagged == Unprompted \cup {"commit_flag"}
Untasked == Unflagged \cup {"commit_task"}
Unfutured == Untasked \cup {"commit_future"}

LatestFor(places) == IF caller \in places THEN commits - 1 ELSE commits

Told == LatestFor(Unflagged)

MembersFollow ==
    /\ caller \in Unfutured => commits > 0
    /\ pending_prompt = LatestFor(Unprompted)
    /\ running_task = LatestFor(Untasked)
    /\ running_future = LatestFor(Unfutured)

Ending == {"notify", "free", "join", "gone"}

FlagsFollow ==
    /\ stop <=> caller \in {"commit_wait", "commit_unstop", "clear_wait",
                            "clear_unstop", "shutdown"} \cup Ending
    /\ shutdown => caller \in Ending
    /\ worker = "exited" => shutdown

\* Nothing to do: every commit the worker was told of is fulfilled.
AtRest ==
    /\ fulfilled = 1 .. Told
    /\ ~has_new_task
    /\ worker \in {"check", "block", "asleep", "awake", "exited"}
    /\ worker = "awake" => shutdown

\* The latest commit told of is flagged, or its prompt is being run.
AtWork ==
    /\ Told > 0 /\ fulfilled = 1 .. Told - 1
    /\ \/ /\ has_new_task
          /\ worker \in {"check", "block", "asleep", "awake", "take", "unflag",
                         "exited"}
          /\ worker = "unflag" => prompt = Told
       \/ /\ ~has_new_task
          /\ worker \in {"run", "finish", "done"}
          /\ prompt = Told

\* From the end of wait() until the flag is set, the worker rests.
Settled ==
    caller \in (Unflagged \ {"commit_wait"}) \cup {"clear_unstop"} => AtRest

ClientInv ==
    /\ ClientTypeOK /\ FlagsFollow
    /\ MembersFollow
    /\ worker # "crashed" => (AtRest \/ AtWork) /\ Settled
    /\ WaitedMeansQuiet

-----------------------------------------------------------------------------
(***************************************************************************)
(* The inductive invariant of the provider                                 *)
(***************************************************************************)
ProviderTasks ==
    {"new", "warm_commit", "warm_clear", "predict_clear", "predict_commit",
     "destroy", "destroying", "thrown"}

Committing == Unfutured \cup {"commit_notify"}
Clearing == {"clear_wait", "clear_unstop"}

\* The warm-up is the first commit, and every later one is a prediction, of
\* which the provider holds the last promise.
TaskFollows ==
    /\ task = "new" => commits = 0 /\ caller = "idle"
    /\ task = "warm_commit" => commits = 1
    /\ task # "new" => commits > 0
    /\ task = "predict_commit" => commits > 1
    /\ caller \in Committing => task \in {"warm_commit", "predict_commit"}
    /\ caller \in Clearing => task \in {"warm_clear", "predict_clear"}
    /\ task = "thrown" => worker = "crashed"
    /\ promise = IF commits <= 1 THEN None ELSE commits

\* A prediction is committed to a client that rests, because it was cleared.
ClearedFirst ==
    worker # "crashed" =>
        /\ caller \in Unflagged => AtRest
        /\ task = "predict_clear" /\ caller = "idle" => AtRest

\* No prompt is answered before it has run, and none with another's response.
AnswersFollow ==
    \A k \in Commits :
        /\ answer[k] \in {None, k}
        /\ worker # "crashed" /\ answer[k] # None =>
              k <= Told /\ (AtWork /\ worker # "done" => k < Told)

ProviderInv ==
    /\ ClientInv
    /\ task \in ProviderTasks
    /\ answer \in [Commits -> Commits \cup {None}]
    /\ on_ac \in BOOLEAN
    /\ TaskFollows /\ ClearedFirst /\ AnswersFollow
    /\ ReplacedInQuiet

-----------------------------------------------------------------------------
(***************************************************************************)
(* The client                                                              *)
(***************************************************************************)
LEMMA ClientInitially == ClientInit => ClientInv
<1> SUFFICES ASSUME ClientInit PROVE ClientInv
  OBVIOUS
<1>1. Told = 0 /\ fulfilled = 1 .. Told
  BY DEF ClientInit, Told, LatestFor, Unflagged, Unprompted
<1>2. AtRest BY <1>1 DEF ClientInit, AtRest
<1>3. ClientTypeOK
  <2>1. commits \in 0 .. MaxCommits BY CommitsAssumption DEF ClientInit
  <2>2. {has_new_task, stop, shutdown, freed} \subseteq BOOLEAN
    BY DEF ClientInit
  <2>3. {pending_prompt, prompt, running_task, running_future}
           \subseteq Commits \cup {None}
    BY DEF ClientInit
  <2> QED
    BY <2>1, <2>2, <2>3 DEF ClientInit, ClientTypeOK, CallerPlaces, WorkerPlaces
<1>4. FlagsFollow /\ MembersFollow /\ Settled /\ WaitedMeansQuiet
  BY DEF ClientInit, FlagsFollow, MembersFollow, Settled, WaitedMeansQuiet,
         LatestFor, Unprompted, Unflagged, Untasked, Unfutured, Ending, None
<1> QED BY <1>2, <1>3, <1>4 DEF ClientInv

\* What the calling thread does once it is inside commit, clear or the
\* destructor.
LEMMA CallerInductive ==
    ASSUME ClientInv, CallerSteps
    PROVE  ClientInv'
<1> USE CommitsAssumption
    DEF ClientInv, ClientTypeOK, FlagsFollow, MembersFollow, AtRest, AtWork,
        Settled, WaitedMeansQuiet, Told, LatestFor, Unprompted, Unflagged,
        Untasked, Unfutured, Ending, Resting, Commits, None, CallerPlaces,
        WorkerPlaces, Caller, callerVars, workerVars
<1>1. CASE CommitStop BY <1>1 DEF CommitStop
<1>2. CASE Waited("commit_wait", "commit_unstop")
  BY <1>2 DEF Waited, WaitIsOver
<1>3. CASE Unstopped("commit_unstop", "commit_prompt") BY <1>3 DEF Unstopped
<1>4. CASE CommitPrompt BY <1>4 DEF CommitPrompt
<1>5. CASE CommitFlag BY <1>5 DEF CommitFlag
<1>6. CASE CommitTask BY <1>6 DEF CommitTask
<1>7. CASE CommitFuture BY <1>7 DEF CommitFuture
<1>8. CASE CommitNotify BY <1>8 DEF CommitNotify, Notify
<1>9. CASE ClearStop BY <1>9 DEF ClearStop
<1>10. CASE Waited("clear_wait", "clear_unstop")
  BY <1>10 DEF Waited, WaitIsOver
<1>11. CASE Unstopped("clear_unstop", "idle") BY <1>11 DEF Unstopped
<1>12. CASE DestroyStop BY <1>12 DEF DestroyStop
<1>13. CASE DestroyShutdown BY <1>13 DEF DestroyShutdown
<1>14. CASE DestroyNotify BY <1>14 DEF DestroyNotify, Notify
<1>15. CASE DestroyFree BY <1>15 DEF DestroyFree
<1>16. CASE DestroyJoin BY <1>16 DEF DestroyJoin
<1> QED
  BY <1>1, <1>2, <1>3, <1>4, <1>5, <1>6, <1>7, <1>8, <1>9, <1>10, <1>11,
     <1>12, <1>13, <1>14, <1>15, <1>16, Zenon
  DEF CallerSteps, CommitRest, ClearRest, DestroyRest

\* The worker; a callback that throws counts as a step from "finish".
LEMMA WorkerInductive ==
    ASSUME ClientInv,
           \/ WorkerSteps \/ OnFinish \/ SpuriousWakeup
           \/ /\ Worker("finish", "crashed")
              /\ UNCHANGED <<has_new_task, workerVars>>
    PROVE  ClientInv'
<1> USE CommitsAssumption
    DEF ClientInv, ClientTypeOK, FlagsFollow, MembersFollow, AtRest, AtWork,
        Settled, WaitedMeansQuiet, Told, LatestFor, Unprompted, Unflagged,
        Untasked, Unfutured, Ending, Resting, Commits, None, CallerPlaces,
        WorkerPlaces, Worker, callerVars, workerVars
<1>1. CASE WorkerCheck BY <1>1 DEF WorkerCheck
<1>2. CASE WorkerBlock BY <1>2 DEF WorkerBlock
<1>3. CASE SpuriousWakeup BY <1>3 DEF SpuriousWakeup
<1>4. CASE WorkerAwake BY <1>4 DEF WorkerAwake
<1>5. CASE WorkerTake BY <1>5 DEF WorkerTake
<1>6. CASE WorkerUnflag BY <1>6 DEF WorkerUnflag
<1>7. CASE RunFails BY <1>7 DEF RunFails
<1>8. CASE RunFinishes BY <1>8 DEF RunFinishes
<1>9. CASE RunOnFreed BY <1>9 DEF RunOnFreed
<1>10. CASE OnFinish BY <1>10 DEF OnFinish
<1>11. CASE Worker("finish", "crashed")
            /\ UNCHANGED <<has_new_task, workerVars>>
  BY <1>11
<1>12. CASE Fulfil BY <1>12 DEF Fulfil, CannotFulfil
<1> QED
  BY <1>1, <1>2, <1>3, <1>4, <1>5, <1>6, <1>7, <1>8, <1>9, <1>10, <1>11,
     <1>12, Zenon
  DEF WorkerSteps, RunStops

LEMMA ClientStands == ASSUME ClientInv, UNCHANGED clientVars PROVE ClientInv'
BY DEF clientVars, callerVars, workerVars, ClientInv, ClientTypeOK, FlagsFollow,
       MembersFollow, AtRest, AtWork, Settled, WaitedMeansQuiet, Told, LatestFor

LEMMA ClientInductive == ClientInv /\ [ClientNext]_clientVars => ClientInv'
BY CallerInductive, WorkerInductive, ClientStands DEF ClientNext

\* A run that fulfils a promise is in hand, so its prompt is the latest, and the
\* only promise not yet fulfilled is that of the same commit.
LEMMA PromiseOfItsPromptNow == ClientInv => PromiseOfItsPrompt
BY DEF ClientInv, ClientTypeOK, MembersFollow, AtRest, AtWork, Told, LatestFor,
       Unflagged, Untasked, Unprompted, PromiseOfItsPrompt, CannotFulfil, None,
       Commits

\* stop_ is set only from the call's first step to the end of its wait, and after
\* the wait nothing runs.
LEMMA StopIsForThisRunNow == ClientInv => StopIsForThisRun
BY DEF ClientInv, FlagsFollow, Settled, AtRest, Unflagged, Unprompted, Ending,
       StopIsForThisRun

\* Whatever one thread commits, clears and destroys, the members that no lock
\* protects have their types, a wait that returns finds the client quiet, a run
\* fulfils the promise of its own prompt, and is stopped by a later call only.
THEOREM ClientCorrect ==
    ClientSpec => [](/\ ClientTypeOK /\ WaitedMeansQuiet
                     /\ PromiseOfItsPrompt /\ StopIsForThisRun)
<1>1. ClientInv => /\ ClientTypeOK /\ WaitedMeansQuiet
                   /\ PromiseOfItsPrompt /\ StopIsForThisRun
  BY PromiseOfItsPromptNow, StopIsForThisRunNow DEF ClientInv
<1> QED BY ClientInitially, ClientInductive, <1>1, PTL DEF ClientSpec

-----------------------------------------------------------------------------
(***************************************************************************)
(* The provider                                                            *)
(***************************************************************************)
LEMMA ProviderInitially == ProviderInit => ProviderInv
<1> SUFFICES ASSUME ProviderInit PROVE ProviderInv
  OBVIOUS
<1>1. ClientInv /\ ClientInit BY ClientInitially DEF ProviderInit
<1>2. AtRest /\ worker = "check" /\ caller = "idle" /\ commits = 0
  BY <1>1 DEF ClientInit, ClientInv, AtWork, Told, LatestFor
<1>3. TaskFollows
  BY <1>2 DEF ProviderInit, TaskFollows, Committing, Unfutured, Untasked,
              Unflagged, Unprompted, Clearing
<1>4. ClearedFirst BY <1>2 DEF ClearedFirst
<1>5. AnswersFollow /\ answer \in [Commits -> Commits \cup {None}]
  BY DEF ProviderInit, AnswersFollow
<1>6. ReplacedInQuiet BY <1>2 DEF ReplacedInQuiet, Resting
<1> QED BY <1>1, <1>3, <1>4, <1>5, <1>6 DEF ProviderInit, ProviderInv, ProviderTasks

\* The calls of the provider begin.
LEMMA CallInductive ==
    ASSUME ProviderInv,
           WarmUpCommit \/ WarmUpClear \/ Predict \/ PredictCommit \/ DestroyClient
    PROVE  ProviderInv'
<1>1. ClientInv'
  BY CallerInductive
     DEF ProviderInv, WarmUpCommit, WarmUpClear, Predict, PredictCommit,
         DestroyClient, CallerSteps
<1> USE <1>1, CommitsAssumption
    DEF ProviderInv, ProviderTasks, ClientInv, ClientTypeOK, FlagsFollow, AtRest,
        AtWork, Told, LatestFor, Unprompted, Unflagged, Untasked, Unfutured,
        Ending, Resting, Commits, None, Caller, callerVars, workerVars, At,
        Committing, Clearing, TaskFollows, ClearedFirst, AnswersFollow,
        ReplacedInQuiet
<1>2. CASE WarmUpCommit BY <1>2 DEF WarmUpCommit, CommitStop
<1>3. CASE WarmUpClear BY <1>3 DEF WarmUpClear, ClearStop
<1>4. CASE Predict BY <1>4 DEF Predict, ClearStop, Idle
<1>5. CASE PredictCommit BY <1>5 DEF PredictCommit, CommitStop
<1>6. CASE DestroyClient BY <1>6 DEF DestroyClient, DestroyStop
<1> QED BY <1>2, <1>3, <1>4, <1>5, <1>6

\* The calls of the provider go on.
LEMMA GoesInductive ==
    ASSUME ProviderInv, Goes, UNCHANGED providerVars
    PROVE  ProviderInv'
<1>1. ClientInv'
  BY CallerInductive DEF ProviderInv, Goes, CallerSteps
<1> USE <1>1, CommitsAssumption
    DEF ProviderInv, ProviderTasks, ClientInv, ClientTypeOK, FlagsFollow, AtRest,
        AtWork, Settled, Told, LatestFor, Unprompted, Unflagged, Untasked,
        Unfutured, Ending, Resting, Commits, None, Caller, callerVars, workerVars,
        Committing, Clearing, TaskFollows, ClearedFirst, AnswersFollow,
        ReplacedInQuiet, providerVars
<1>2. CASE Waited("commit_wait", "commit_unstop") BY <1>2 DEF Waited
<1>3. CASE Unstopped("commit_unstop", "commit_prompt") BY <1>3 DEF Unstopped
<1>4. CASE CommitPrompt BY <1>4 DEF CommitPrompt
<1>5. CASE CommitFlag BY <1>5 DEF CommitFlag
<1>6. CASE CommitTask BY <1>6 DEF CommitTask
<1>7. CASE CommitFuture BY <1>7 DEF CommitFuture
<1>8. CASE CommitNotify BY <1>8 DEF CommitNotify, Notify
<1>9. CASE Waited("clear_wait", "clear_unstop") BY <1>9 DEF Waited
<1>10. CASE Unstopped("clear_unstop", "idle") BY <1>10 DEF Unstopped
<1>11. CASE DestroyShutdown BY <1>11 DEF DestroyShutdown
<1>12. CASE DestroyNotify BY <1>12 DEF DestroyNotify, Notify
<1>13. CASE DestroyFree BY <1>13 DEF DestroyFree
<1>14. CASE DestroyJoin BY <1>14 DEF DestroyJoin
<1> QED
  BY <1>2, <1>3, <1>4, <1>5, <1>6, <1>7, <1>8, <1>9, <1>10, <1>11, <1>12,
     <1>13, <1>14, Zenon
  DEF Goes, CommitRest, ClearRest, DestroyRest

\* The worker goes on; what it has in hand is answered only in its callback.
LEMMA ProviderWorkerInductive ==
    ASSUME ProviderInv, UNCHANGED providerVars,
           \/ WorkerSteps \/ OnFinish \/ SpuriousWakeup
           \/ /\ Worker("finish", "crashed")
              /\ UNCHANGED <<has_new_task, workerVars>>
    PROVE  ProviderInv'
<1>1. ClientInv' BY WorkerInductive DEF ProviderInv
<1> USE <1>1, CommitsAssumption
    DEF ProviderInv, ProviderTasks, ClientInv, ClientTypeOK, FlagsFollow, AtRest,
        AtWork, Settled, Told, LatestFor, Unprompted, Unflagged, Untasked,
        Unfutured, Ending, Resting, Commits, None, Worker, callerVars, workerVars,
        Committing, Clearing, TaskFollows, ClearedFirst, AnswersFollow,
        ReplacedInQuiet, providerVars
<1>2. CASE WorkerCheck BY <1>2 DEF WorkerCheck
<1>3. CASE WorkerBlock BY <1>3 DEF WorkerBlock
<1>4. CASE SpuriousWakeup BY <1>4 DEF SpuriousWakeup
<1>5. CASE WorkerAwake BY <1>5 DEF WorkerAwake
<1>6. CASE WorkerTake BY <1>6 DEF WorkerTake
<1>7. CASE WorkerUnflag BY <1>7 DEF WorkerUnflag
<1>8. CASE RunFails BY <1>8 DEF RunFails
<1>9. CASE RunFinishes BY <1>9 DEF RunFinishes
<1>10. CASE RunOnFreed BY <1>10 DEF RunOnFreed
<1>11. CASE OnFinish BY <1>11 DEF OnFinish
<1>12. CASE Worker("finish", "crashed")
            /\ UNCHANGED <<has_new_task, workerVars>>
  BY <1>12
<1>13. CASE Fulfil BY <1>13 DEF Fulfil, CannotFulfil
<1> QED
  BY <1>2, <1>3, <1>4, <1>5, <1>6, <1>7, <1>8, <1>9, <1>10, <1>11,
     <1>12, <1>13, Zenon
  DEF WorkerSteps, RunStops

\* The worker is in its callback with the prompt of the latest commit, which is
\* the one promise_ was made for unless it is the warm-up's; the caller waits
\* for it or is past the steps that tell the worker.
LEMMA CallbackFindsItsPromiseNow == ProviderInv => CallbackFindsItsPromise
<1> SUFFICES ASSUME ProviderInv, worker = "finish", promise # None
             PROVE  promise = prompt /\ answer[promise] = None
  BY DEF CallbackFindsItsPromise
<1>1. AtWork /\ ~AtRest
  BY DEF ProviderInv, ClientInv, AtRest
<1>2. prompt = Told /\ caller \notin Unflagged
  BY <1>1 DEF AtWork, ProviderInv, ClearedFirst
<1>3. promise = commits /\ Told = commits /\ commits \in Commits
  BY <1>2 DEF ProviderInv, TaskFollows, Told, LatestFor, ClientInv, ClientTypeOK,
              None, Commits
<1>4. answer[commits] = None
  BY <1>1, <1>3 DEF ProviderInv, AnswersFollow, Commits
<1> QED BY <1>2, <1>3, <1>4

LEMMA CallbackInductive ==
    ASSUME ProviderInv, Callback
    PROVE  ProviderInv'
<1>1. CASE /\ UNCHANGED providerVars
           /\ \/ OnFinish
              \/ /\ Worker("finish", "crashed")
                 /\ UNCHANGED <<has_new_task, workerVars>>
  BY <1>1, ProviderWorkerInductive
<1>2. CASE OnFinish /\ promise # None /\ Deliver
           /\ UNCHANGED <<task, promise, on_ac, destroyed>>
  <2>1. ClientInv' BY <1>2, WorkerInductive DEF ProviderInv
  <2>2. worker = "finish" /\ worker' = "done"
        /\ UNCHANGED <<caller, has_new_task, callerVars, workerVars>>
    BY <1>2 DEF OnFinish, Worker
  <2>3. AtWork /\ ~AtRest BY <2>2 DEF ProviderInv, ClientInv, AtRest
  <2>4. prompt = Told /\ caller \notin Unflagged
    BY <2>2, <2>3 DEF AtWork, ProviderInv, ClearedFirst
  <2>5. promise = Told /\ Told = commits /\ commits \in Commits
    BY <1>2, <2>4 DEF ProviderInv, TaskFollows, Told, LatestFor, ClientInv,
                      ClientTypeOK, None, Commits
  <2>6. /\ Told' = Told
        /\ answer' = [answer EXCEPT ![Told] = Told]
    BY <1>2, <2>2, <2>4, <2>5 DEF Deliver, Told, LatestFor, callerVars
  <2>7. answer' \in [Commits -> Commits \cup {None}]
    BY <2>5, <2>6 DEF ProviderInv
  <2>8. AnswersFollow'
    <3> SUFFICES ASSUME NEW k \in Commits
                 PROVE  /\ answer'[k] \in {None, k}
                        /\ answer'[k] # None => k <= Told
      BY <2>2, <2>6 DEF AnswersFollow
    <3>1. CASE k = Told BY <2>5, <2>6, <3>1 DEF ProviderInv, Commits
    <3>2. CASE k # Told
      BY <2>2, <2>6, <3>2 DEF ProviderInv, AnswersFollow
    <3> QED BY <3>1, <3>2
  <2>9. TaskFollows' /\ ClearedFirst' /\ ReplacedInQuiet'
    BY <1>2, <2>1, <2>2, <2>3, <2>4
    DEF ProviderInv, TaskFollows, ClearedFirst, ReplacedInQuiet, callerVars,
        Resting
  <2> QED BY <1>2, <2>1, <2>7, <2>8, <2>9 DEF ProviderInv
<1> QED BY <1>1, <1>2, Zenon DEF Callback, providerVars

\* The power changes, the members are destroyed, or the provider stands still.
LEMMA AsideInductive ==
    ASSUME ProviderInv, PowerChange \/ DestroyMembers \/ StandStill
    PROVE  ProviderInv'
<1>1. UNCHANGED clientVars
  BY DEF PowerChange, DestroyMembers, StandStill
<1>2. ClientInv' BY <1>1, ClientStands DEF ProviderInv
<1>3. UNCHANGED <<AtRest, AtWork, Told>>
  BY <1>1 DEF clientVars, callerVars, workerVars, AtRest, AtWork, Told, LatestFor
<1>4. UNCHANGED <<promise, answer>> /\ on_ac' \in BOOLEAN
  BY DEF ProviderInv, PowerChange, DestroyMembers, StandStill, providerVars
<1>5. \/ UNCHANGED task
      \/ caller = "idle" /\ task \in Idle /\ task' = "destroy"
  BY DEF PowerChange, DestroyMembers, StandStill, providerVars, At
<1> QED
  BY <1>1, <1>2, <1>3, <1>4, <1>5
  DEF ProviderInv, ProviderTasks, TaskFollows, ClearedFirst, AnswersFollow,
      ReplacedInQuiet, clientVars, callerVars, workerVars, Idle, Committing,
      Clearing, Unfutured, Untasked, Unflagged, Unprompted

LEMMA ProviderInductive ==
    ProviderInv /\ [ProviderNext]_<<clientVars, providerVars>> => ProviderInv'
<1> SUFFICES ASSUME ProviderInv, [ProviderNext]_<<clientVars, providerVars>>
             PROVE  ProviderInv'
  OBVIOUS
<1>1. CASE Predict \/ WarmUpCommit \/ WarmUpClear \/ PredictCommit
           \/ DestroyClient
  BY <1>1, CallInductive
<1>2. CASE Callback BY <1>2, CallbackInductive
<1>3. CASE CallbackOnDestroyed
  BY <1>3, ProviderWorkerInductive DEF CallbackOnDestroyed
<1>4. CASE PowerChange \/ DestroyMembers BY <1>4, AsideInductive
<1>5. CASE (Goes \/ WorkerSteps \/ SpuriousWakeup) /\ UNCHANGED providerVars
  BY <1>5, GoesInductive, ProviderWorkerInductive
<1>6. CASE UNCHANGED <<clientVars, providerVars>>
  BY <1>6, AsideInductive DEF StandStill
<1> QED
  BY <1>1, <1>2, <1>3, <1>4, <1>5, <1>6, Zenon DEF ProviderNext, ProviderGoesOn

\* An exception on the rime thread ends the process between two calls of the
\* provider, when the worker may be anywhere.
LEMMA ThrowInductive ==
    ASSUME ProviderInv, Free, Throw
    PROVE  ProviderInv'
<1> USE DEF Free, Throw, ProviderInv, ClientInv, callerVars, workerVars
<1>1. ClientTypeOK' BY DEF ClientTypeOK, WorkerPlaces
<1>2. FlagsFollow' /\ MembersFollow' /\ WaitedMeansQuiet'
  BY DEF FlagsFollow, MembersFollow, LatestFor, WaitedMeansQuiet
<1>3. TaskFollows' /\ ReplacedInQuiet'
  BY DEF TaskFollows, ReplacedInQuiet, Idle, Committing, Clearing, Unfutured,
         Untasked, Unflagged, Unprompted
<1>4. ClearedFirst' /\ AnswersFollow' BY DEF ClearedFirst, AnswersFollow
<1> QED BY <1>1, <1>2, <1>3, <1>4 DEF ProviderTasks

\* A key, a prediction or the database leave the provider alone, make a step of
\* it, or throw.
LEMMA PredictionInductive ==
    ProviderInv /\ [PredictionNext]_predictionVars => ProviderInv'
<1> SUFFICES ASSUME ProviderInv, [PredictionNext]_predictionVars
             PROVE  ProviderInv'
  OBVIOUS
<1>1. CASE StandStill BY <1>1, AsideInductive
<1>2. CASE Free /\ Throw BY <1>2, ThrowInductive
<1>3. CASE ProviderNext BY <1>3, ProviderInductive
<1>4. \/ StandStill
      \/ Free /\ Throw
      \/ ProviderNext
  BY Zenon
  DEF PredictionNext, Commit, Punctuation, BackSpace, Destroy, LLMDeclines,
      LLMThrows, LLMPredicts, DBPredicts, Elsewhere, ProviderNext, StandStill,
      predictionVars
<1> QED BY <1>1, <1>2, <1>3, <1>4

\* What the invariant says of the properties the runs check.
LEMMA ProviderKeeps ==
    ProviderInv => /\ ClientTypeOK /\ WaitedMeansQuiet
                   /\ PromiseOfItsPrompt /\ StopIsForThisRun
                   /\ RetrivesItsOwnPrompt /\ CallbackFindsItsPromise
                   /\ ReplacedInQuiet
<1> SUFFICES ASSUME ProviderInv PROVE RetrivesItsOwnPrompt
  BY PromiseOfItsPromptNow, StopIsForThisRunNow, CallbackFindsItsPromiseNow
  DEF ProviderInv, ClientInv
<1>1. promise # None => promise \in Commits
  BY DEF ProviderInv, TaskFollows, ClientInv, ClientTypeOK, None, Commits
<1> QED BY <1>1 DEF ProviderInv, AnswersFollow, RetrivesItsOwnPrompt, Retrive

LEMMA Invariance == PredictionSpec => []ProviderInv
<1>1. PredictionInit => ProviderInv BY ProviderInitially DEF PredictionInit
<1> QED BY <1>1, PredictionInductive, PTL DEF PredictionSpec

-----------------------------------------------------------------------------
(***************************************************************************)
(* Sums and ends of sequences                                              *)
(***************************************************************************)
LEMMA TotalFromLeft ==
    ASSUME NEW s, Len(s) \in Nat
    PROVE  \E f : /\ Total(s) = f[Len(s)] /\ f[0] = 0
                  /\ \A i \in 1 .. Len(s) : f[i] = f[i - 1] + s[i]
<1> DEFINE n == Len(s)
           Step(g, i) == IF i = 0 THEN 0 ELSE g[i - 1] + s[i]
           F == CHOOSE f : f = [i \in 0 .. n |-> Step(f, i)]
<1>1. \E f : f = [i \in 0 .. n |-> Step(f, i)]
  <2> DEFINE Filled(m) == \E f : f = [i \in 0 .. m |-> Step(f, i)]
             T == {m \in Nat : Filled(m)}
  <2>1. Filled(0)
    <3> DEFINE g == [i \in 0 .. 0 |-> 0]
    <3>1. g = [i \in 0 .. 0 |-> Step(g, i)] OBVIOUS
    <3> HIDE DEF g
    <3> QED BY <3>1
  <2>2. ASSUME NEW m \in Nat, Filled(m) PROVE Filled(m + 1)
    <3>1. PICK h : h = [i \in 0 .. m |-> Step(h, i)] BY <2>2
    <3> DEFINE g == [i \in 0 .. m + 1 |->
                        IF i = m + 1 THEN Step(h, i) ELSE h[i]]
    <3>2. \A i \in 0 .. m + 1 : Step(g, i) = Step(h, i)
      <4>1. ASSUME NEW i \in 0 .. m + 1, i # 0 PROVE g[i - 1] = h[i - 1]
        BY <4>1
      <4> QED BY <4>1
    <3>3. \A i \in 0 .. m + 1 : g[i] = Step(h, i)
      <4>1. \A i \in 0 .. m : h[i] = Step(h, i) BY ONLY <3>1, Zenon
      <4>2. \A i \in 0 .. m + 1 : i = m + 1 \/ i \in 0 .. m OBVIOUS
      <4> HIDE DEF Step
      <4>3. \A i \in 0 .. m + 1 : g[i] = IF i = m + 1 THEN Step(h, i) ELSE h[i]
        OBVIOUS
      <4> QED BY ONLY <4>1, <4>2, <4>3, Zenon
    <3>4. g = [i \in 0 .. m + 1 |-> Step(g, i)]
      <4>1. g = [i \in 0 .. m + 1 |-> g[i]] OBVIOUS
      <4>2. \A i \in 0 .. m + 1 : g[i] = Step(g, i) BY <3>2, <3>3, Zenon
      <4> HIDE DEF Step, g
      <4> QED BY ONLY <4>1, <4>2
    <3> HIDE DEF g
    <3> QED BY <3>4
  <2>3. n \in T
    <3> HIDE DEF Filled
    <3>1. 0 \in T /\ \A m \in Nat : m \in T => m + 1 \in T BY <2>1, <2>2
    <3> HIDE DEF T
    <3> QED BY <3>1, EveryNumber
  <2> QED BY <2>3
<1>2. F = [i \in 0 .. n |-> Step(F, i)] BY <1>1
<1>3. Total(s) = F[n] BY DEF Total
<1> HIDE DEF F
<1>4. \A i \in 0 .. n : F[i] = Step(F, i) BY ONLY <1>2, Zenon
<1>5. F[0] = 0 BY <1>4
<1>6. \A i \in 1 .. n : F[i] = F[i - 1] + s[i]
  <2>1. \A i \in 1 .. n : i \in 0 .. n /\ i # 0 OBVIOUS
  <2> QED BY <1>4, <2>1
<1> QED BY <1>3, <1>5, <1>6

LEMMA TotalEmpty == Total(<<>>) = 0
<1>1. Len(<<>>) = 0 /\ Len(<<>>) \in Nat OBVIOUS
<1>2. PICK f : Total(<<>>) = f[Len(<<>>)] /\ f[0] = 0
  BY <1>1, TotalFromLeft
<1> QED BY <1>1, <1>2

LEMMA TotalAppend ==
    ASSUME NEW s \in Seq(Nat), NEW e \in Nat
    PROVE  Total(Append(s, e)) = Total(s) + e
<1> DEFINE t == Append(s, e)
           n == Len(s)
<1>1. /\ t \in Seq(Nat) /\ Len(t) = n + 1 /\ t[n + 1] = e
      /\ \A i \in 1 .. n : t[i] = s[i]
  BY AppendProperties
<1>2. n \in Nat BY LenProperties
<1>3. PICK g : /\ Total(t) = g[n + 1] /\ g[0] = 0
               /\ \A i \in 1 .. n + 1 : g[i] = g[i - 1] + t[i]
  <2> HIDE DEF t, n
  <2>1. Len(t) \in Nat BY <1>1, <1>2
  <2>2. PICK g : /\ Total(t) = g[Len(t)] /\ g[0] = 0
                 /\ \A i \in 1 .. Len(t) : g[i] = g[i - 1] + t[i]
    BY <2>1, TotalFromLeft
  <2> QED BY <1>1, <2>2
<1>4. PICK f : /\ Total(s) = f[n] /\ f[0] = 0
               /\ \A i \in 1 .. n : f[i] = f[i - 1] + s[i]
  BY <1>2, TotalFromLeft
<1> DEFINE T == {m \in Nat : m <= n => f[m] = g[m]}
<1> HIDE DEF t, n
<1>5. 0 \in T BY <1>3, <1>4
<1>6. ASSUME NEW m \in Nat, m \in T PROVE m + 1 \in T
  <2> SUFFICES ASSUME m + 1 <= n PROVE f[m + 1] = g[m + 1]
    OBVIOUS
  <2>1. /\ m + 1 \in 1 .. n /\ m + 1 \in 1 .. n + 1 /\ (m + 1) - 1 = m
        /\ m <= n
    BY <1>2
  <2>2. f[m] = g[m] BY <1>6, <2>1
  <2>3. f[m + 1] = f[m] + s[m + 1] BY <1>4, <2>1
  <2>4. g[m + 1] = g[m] + t[m + 1] BY <1>3, <2>1
  <2> QED BY <1>1, <2>1, <2>2, <2>3, <2>4
<1>7. n \in T
  <2> HIDE DEF T
  <2> QED BY <1>2, <1>5, <1>6, EveryNumber
<1>8. f[n] = g[n] BY <1>2, <1>7
<1>9. n + 1 \in 1 .. n + 1 /\ (n + 1) - 1 = n BY <1>2
<1>10. g[n + 1] = g[n] + t[n + 1] BY <1>3, <1>9
<1> QED BY <1>1, <1>3, <1>4, <1>8, <1>10 DEF t

LEMMA TotalNat == \A s \in Seq(Nat) : Total(s) \in Nat
<1> DEFINE T == {s \in Seq(Nat) : Total(s) \in Nat}
<1>1. <<>> \in T
  <2>1. <<>> \in Seq(Nat) BY EmptySeq
  <2>2. Total(<<>>) \in Nat BY TotalEmpty
  <2> QED BY <2>1, <2>2, Zenon
<1>2. ASSUME NEW s \in Seq(Nat), NEW e \in Nat, s \in T
      PROVE  Append(s, e) \in T
  <2>1. Append(s, e) \in Seq(Nat) BY AppendProperties
  <2>2. Total(Append(s, e)) = Total(s) + e BY TotalAppend
  <2> QED BY <1>2, <2>1, <2>2
<1>3. \A s \in Seq(Nat) : s \in T
  <2> HIDE DEF T
  <2> QED BY <1>1, <1>2, EverySequence
<1> QED BY <1>3

LEMMA TotalConcat ==
    ASSUME NEW s \in Seq(Nat), NEW t \in Seq(Nat)
    PROVE  Total(s \o t) = Total(s) + Total(t)
<1> DEFINE T == {u \in Seq(Nat) : Total(s \o u) = Total(s) + Total(u)}
<1>0. Total(s) \in Nat BY TotalNat
<1>1. <<>> \in T
  <2>1. <<>> \in Seq(Nat) /\ s \o <<>> = s BY EmptySeq, ConcatEmptySeq
  <2>2. Total(s) + Total(<<>>) = Total(s) BY <1>0, TotalEmpty
  <2>3. Total(s \o <<>>) = Total(s) + Total(<<>>) BY <2>1, <2>2, Zenon
  <2> QED BY <2>1, <2>3, Zenon
<1>2. ASSUME NEW u \in Seq(Nat), NEW e \in Nat, u \in T
      PROVE  Append(u, e) \in T
  <2>1. Append(u, e) \in Seq(Nat) BY AppendProperties
  <2>2. Total(Append(u, e)) = Total(u) + e BY TotalAppend
  <2>3. s \o u \in Seq(Nat) BY ConcatProperties
  <2>4. Total(Append(s \o u, e)) = Total(s \o u) + e BY <2>3, TotalAppend
  <2>5. s \o Append(u, e) = Append(s \o u, e) BY ConcatThenAppend
  <2>6. Total(u) \in Nat /\ Total(s \o u) = Total(s) + Total(u)
    BY <1>2, TotalNat
  <2>7. Total(s \o Append(u, e)) = Total(s) + Total(Append(u, e))
    BY <1>0, <2>2, <2>4, <2>5, <2>6
  <2> QED BY <2>1, <2>7
<1>3. t \in T
  <2> HIDE DEF T
  <2> QED BY <1>1, <1>2, EverySequence
<1> QED BY <1>3

\* The last elements of a sequence are its end of that length.
LEMMA LastOfEnds ==
    ASSUME NEW S, NEW s \in Seq(S), NEW n \in Nat
    PROVE  /\ LastOf(n, s) \in Seq(S)
           /\ Len(LastOf(n, s)) = IF n < Len(s) THEN n ELSE Len(s)
           /\ \E p \in Seq(S) : s = p \o LastOf(n, s)
<1> DEFINE k == IF n < Len(s) THEN Len(s) - n ELSE 0
           l == LastOf(n, s)
           p == SubSeq(s, 1, k)
<1>1. Len(s) \in Nat BY LenProperties
<1>2. k \in 0 .. Len(s) /\ l = SubSeq(s, k + 1, Len(s))
  BY <1>1 DEF LastOf
<1>a. Len(s) - k = IF n < Len(s) THEN n ELSE Len(s) BY <1>1
<1> HIDE DEF k
<1>3. /\ k + 1 \in Int /\ Len(s) \in Int /\ k \in Int /\ 1 \in Int
      /\ \A i \in k + 1 .. Len(s) : s[i] \in S
      /\ \A i \in 1 .. k : s[i] \in S
  BY <1>1, <1>2, ElementOfSeq
<1>4. p \in Seq(S) /\ Len(p) = IF 1 <= k THEN k - 1 + 1 ELSE 0
  BY <1>3, SubSeqProperties
<1> HIDE DEF l
<1>5. /\ l \in Seq(S)
      /\ Len(l) = IF k + 1 <= Len(s) THEN Len(s) - (k + 1) + 1 ELSE 0
  BY <1>2, <1>3, SubSeqProperties
<1>6. Len(l) = Len(s) - k BY <1>1, <1>2, <1>5
<1>7. s = p \o l
  <2>1. /\ 1 \in 1 .. Len(s) + 1 /\ k \in 1 - 1 .. Len(s)
        /\ Len(s) \in k .. Len(s)
    BY <1>1, <1>2
  <2>2. p \o SubSeq(s, k + 1, Len(s)) = SubSeq(s, 1, Len(s))
    BY <2>1, ConcatAdjacentSubSeq
  <2> QED BY <1>2, <2>2, SubSeqFull
<1> HIDE DEF p
<1> QED BY <1>4, <1>5, <1>6, <1>7, <1>a DEF l

LEMMA EndIsLastOf ==
    ASSUME NEW S, NEW p \in Seq(S), NEW t \in Seq(S)
    PROVE  LastOf(Len(t), p \o t) = t
<1> DEFINE s == p \o t
           l == LastOf(Len(t), s)
<1>1. /\ s \in Seq(S) /\ Len(s) = Len(p) + Len(t)
      /\ \A i \in 1 .. Len(p) + Len(t) :
            s[i] = IF i <= Len(p) THEN p[i] ELSE t[i - Len(p)]
  BY ConcatProperties
<1>2. Len(p) \in Nat /\ Len(t) \in Nat BY LenProperties
<1> HIDE DEF s
<1>3. PICK q \in Seq(S) : s = q \o l BY <1>1, <1>2, LastOfEnds
<1>4. l \in Seq(S) /\ Len(l) = Len(t)
  <2>1. Len(l) = IF Len(t) < Len(s) THEN Len(t) ELSE Len(s)
    BY <1>1, <1>2, LastOfEnds
  <2>2. l \in Seq(S) BY <1>1, <1>2, LastOfEnds
  <2> QED BY <1>1, <1>2, <2>1, <2>2
<1> HIDE DEF l
<1>5. /\ Len(s) = Len(q) + Len(l)
      /\ \A i \in 1 .. Len(q) + Len(l) :
            s[i] = IF i <= Len(q) THEN q[i] ELSE l[i - Len(q)]
  BY <1>3, <1>4, ConcatProperties, ZenonT(60)
<1>6. Len(q) \in Nat BY LenProperties
<1>7. Len(q) = Len(p) BY <1>1, <1>2, <1>4, <1>5, <1>6
<1>8. ASSUME NEW i \in 1 .. Len(t) PROVE l[i] = t[i]
  <2>1. /\ i + Len(p) \in 1 .. Len(p) + Len(t) /\ ~(i + Len(p) <= Len(p))
        /\ (i + Len(p)) - Len(p) = i
    BY <1>2
  <2>2. s[i + Len(p)] = t[i] BY <1>1, <2>1
  <2>3. s[i + Len(p)] = l[i] BY <1>4, <1>5, <1>7, <2>1
  <2> QED BY <2>2, <2>3
<1>9. l = t BY <1>4, <1>8, SeqEqual
<1> QED BY <1>9 DEF l, s

\* Asked for more elements than there are, it is all of them.
LEMMA LastOfAll ==
    ASSUME NEW s, NEW n \in Nat, Len(s) \in Nat, ~(n < Len(s))
    PROVE  LastOf(n, s) = LastOf(Len(s), s)
<1>1. ~(Len(s) < Len(s)) OBVIOUS
<1> QED BY <1>1 DEF LastOf

\* The last elements of a concatenation are those of its end, if there are
\* that many.
LEMMA LastOfConcat ==
    ASSUME NEW S, NEW p \in Seq(S), NEW t \in Seq(S),
           NEW n \in Nat, n <= Len(t)
    PROVE  LastOf(n, p \o t) = LastOf(n, t)
<1> DEFINE l == LastOf(n, t)
<1>1. Len(t) \in Nat BY LenProperties
<1>2. Len(l) = IF n < Len(t) THEN n ELSE Len(t) BY LastOfEnds
<1>3. l \in Seq(S) /\ \E q \in Seq(S) : t = q \o l BY LastOfEnds
<1> HIDE DEF l
<1>4. Len(l) = n BY <1>1, <1>2
<1>5. PICK q \in Seq(S) : t = q \o l BY <1>3
<1>6. p \o t = (p \o q) \o l
  <2>1. (p \o q) \o l = p \o (q \o l) BY <1>3, Z3T(60)
  <2> QED BY ONLY <1>5, <2>1
<1>7. p \o q \in Seq(S) BY ConcatProperties
<1>8. LastOf(Len(l), (p \o q) \o l) = l BY <1>3, <1>7, EndIsLastOf
<1> QED BY <1>4, <1>6, <1>8 DEF l

-----------------------------------------------------------------------------
(***************************************************************************)
(* Widths and bytes                                                        *)
(***************************************************************************)
Chars == Seq(Bytes)

\* The widths of every text are those of its characters.
WidthsOf(texts) == [i \in DOMAIN texts |-> Widths(texts[i])]

LEMMA WidthsType ==
    ASSUME NEW text \in Seq(Chars)
    PROVE  /\ Widths(text) \in Seq(Nat) /\ Len(Widths(text)) = Len(text)
           /\ \A i \in 1 .. Len(text) : Widths(text)[i] = Len(text[i])
<1>1. DOMAIN text = 1 .. Len(text) /\ Len(text) \in Nat BY LenProperties
<1>2. \A i \in 1 .. Len(text) : Len(text[i]) \in Nat
  BY ElementOfSeq, LenProperties DEF Chars
<1> QED BY <1>1, <1>2 DEF Widths

LEMMA WidthsAppend ==
    ASSUME NEW text \in Seq(Chars), NEW char \in Chars
    PROVE  Widths(Append(text, char)) = Append(Widths(text), Len(char))
<1> DEFINE w == Widths(text)
           t == Append(text, char)
           n == Len(text)
<1>1. /\ t \in Seq(Chars) /\ Len(t) = n + 1 /\ t[n + 1] = char
      /\ \A i \in 1 .. n : t[i] = text[i]
  BY AppendProperties
<1>2. n \in Nat /\ Len(char) \in Nat BY LenProperties DEF Chars
<1>3. /\ w \in Seq(Nat) /\ Len(w) = n
      /\ \A i \in 1 .. n : w[i] = Len(text[i])
  BY WidthsType
<1> HIDE DEF t, w, n
<1>4. /\ Append(w, Len(char)) \in Seq(Nat)
      /\ Len(Append(w, Len(char))) = n + 1
      /\ \A i \in 1 .. n : Append(w, Len(char))[i] = w[i]
      /\ Append(w, Len(char))[n + 1] = Len(char)
  BY <1>2, <1>3, AppendProperties
<1>5. /\ Widths(t) \in Seq(Nat) /\ Len(Widths(t)) = n + 1
      /\ \A i \in 1 .. n + 1 : Widths(t)[i] = Len(t[i])
  BY <1>1, WidthsType
<1>6. \A i \in 1 .. n + 1 : Widths(t)[i] = Append(w, Len(char))[i]
  <2>1. \A i \in 1 .. n : Widths(t)[i] = Append(w, Len(char))[i]
    <3> TAKE i \in 1 .. n
    <3>1. i \in 1 .. n + 1 BY <1>2
    <3>2. Widths(t)[i] = Len(t[i]) BY <1>5, <3>1
    <3> QED BY <1>1, <1>3, <1>4, <3>2
  <2>2. Widths(t)[n + 1] = Append(w, Len(char))[n + 1]
    <3>1. n + 1 \in 1 .. n + 1 BY <1>2
    <3>2. Widths(t)[n + 1] = Len(t[n + 1]) BY <1>5, <3>1
    <3> QED BY <1>1, <1>4, <3>2
  <2>3. \A i \in 1 .. n + 1 : i \in 1 .. n \/ i = n + 1 BY <1>2
  <2> QED BY <2>1, <2>2, <2>3, Zenon
<1> QED BY <1>4, <1>5, <1>6, SeqEqual DEF t, w

LEMMA WidthsEmpty == Widths(<<>>) = <<>>
BY DEF Widths

LEMMA WidthsConcat ==
    ASSUME NEW s \in Seq(Chars), NEW t \in Seq(Chars)
    PROVE  Widths(s \o t) = Widths(s) \o Widths(t)
<1> DEFINE T == {u \in Seq(Chars) : Widths(s \o u) = Widths(s) \o Widths(u)}
<1>0. Widths(s) \in Seq(Nat) BY WidthsType
<1>1. <<>> \in T
  <2>1. <<>> \in Seq(Chars) /\ s \o <<>> = s BY EmptySeq, ConcatEmptySeq
  <2>2. Widths(s) \o <<>> = Widths(s) BY <1>0, ConcatEmptySeq
  <2>3. Widths(s \o <<>>) = Widths(s) \o Widths(<<>>)
    BY <2>1, <2>2, WidthsEmpty, Zenon
  <2> QED BY <2>1, <2>3, Zenon
<1>2. ASSUME NEW u \in Seq(Chars), NEW e \in Chars, u \in T
      PROVE  Append(u, e) \in T
  <2>1. Append(u, e) \in Seq(Chars) BY AppendProperties
  <2>2. s \o u \in Seq(Chars) BY ConcatProperties
  <2>3. s \o Append(u, e) = Append(s \o u, e) BY ConcatThenAppend
  <2>4. Widths(Append(s \o u, e)) = Append(Widths(s \o u), Len(e))
    BY <2>2, WidthsAppend
  <2>5. Widths(Append(u, e)) = Append(Widths(u), Len(e)) BY WidthsAppend
  <2>6. Widths(u) \in Seq(Nat) /\ Len(e) \in Nat
    BY WidthsType, LenProperties DEF Chars
  <2>7. Widths(s) \o Append(Widths(u), Len(e))
          = Append(Widths(s) \o Widths(u), Len(e))
    BY <1>0, <2>6, ConcatThenAppend, SMTT(60)
  <2>8. Widths(s \o u) = Widths(s) \o Widths(u) BY <1>2
  <2>9. Widths(s \o Append(u, e)) = Widths(s) \o Widths(Append(u, e))
    BY <2>3, <2>4, <2>5, <2>7, <2>8
  <2> QED BY <2>1, <2>9
<1>3. t \in T
  <2> HIDE DEF T
  <2> QED BY <1>1, <1>2, EverySequence
<1> QED BY <1>3

\* The widths sum up to the bytes.
LEMMA TotalOfWidths ==
    ASSUME NEW text \in Seq(Chars)
    PROVE  Total(Widths(text)) = Len(FlattenSeq(text))
<1> DEFINE T == {u \in Seq(Chars) : Total(Widths(u)) = Len(FlattenSeq(u))}
<1>1. <<>> \in T
  <2>1. <<>> \in Seq(Chars) /\ Len(<<>>) = 0 BY EmptySeq
  <2>2. Total(Widths(<<>>)) = Len(FlattenSeq(<<>>))
    BY <2>1, WidthsEmpty, FlattenEmpty, TotalEmpty, Zenon
  <2> QED BY <2>1, <2>2, Zenon
<1>2. ASSUME NEW u \in Seq(Chars), NEW e \in Chars, u \in T
      PROVE  Append(u, e) \in T
  <2>1. Append(u, e) \in Seq(Chars) BY AppendProperties
  <2>2. Widths(u) \in Seq(Nat) /\ Len(e) \in Nat
    BY WidthsType, LenProperties DEF Chars
  <2>3. Total(Widths(Append(u, e))) = Total(Widths(u)) + Len(e)
    BY <2>2, WidthsAppend, TotalAppend
  <2>4. FlattenSeq(u) \in Chars BY FlattenType DEF Chars
  <2>5. FlattenSeq(Append(u, e)) = IF u = <<>> THEN e ELSE FlattenSeq(u) \o e
    BY FlattenAppend
  <2>6. Len(FlattenSeq(Append(u, e))) = Len(FlattenSeq(u)) + Len(e)
    <3>1. CASE u = <<>>
      <4>1. Len(FlattenSeq(u)) = 0 BY <3>1, FlattenEmpty
      <4> QED BY <2>2, <2>5, <3>1, <4>1
    <3>2. CASE u # <<>>
      <4>1. Len(FlattenSeq(u) \o e) = Len(FlattenSeq(u)) + Len(e)
        BY <2>4, ConcatProperties DEF Chars
      <4> QED BY <2>5, <3>2, <4>1
    <3> QED BY <3>1, <3>2
  <2>7. Total(Widths(u)) = Len(FlattenSeq(u)) BY <1>2
  <2>8. Total(Widths(Append(u, e))) = Len(FlattenSeq(Append(u, e)))
    BY <2>3, <2>6, <2>7
  <2> QED BY <2>1, <2>8
<1>3. text \in T
  <2> HIDE DEF T
  <2> QED BY <1>1, <1>2, EverySequence
<1> QED BY <1>3

LEMMA WidthsOfType ==
    ASSUME NEW texts \in Seq(Seq(Chars))
    PROVE  /\ WidthsOf(texts) \in Seq(Seq(Nat))
           /\ Len(WidthsOf(texts)) = Len(texts)
           /\ \A i \in 1 .. Len(texts) : WidthsOf(texts)[i] = Widths(texts[i])
<1>1. DOMAIN texts = 1 .. Len(texts) /\ Len(texts) \in Nat BY LenProperties
<1>2. \A i \in 1 .. Len(texts) : Widths(texts[i]) \in Seq(Nat)
  BY ElementOfSeq, WidthsType
<1> QED BY <1>1, <1>2 DEF WidthsOf

LEMMA WidthsOfAppend ==
    ASSUME NEW texts \in Seq(Seq(Chars)), NEW text \in Seq(Chars)
    PROVE  WidthsOf(Append(texts, text))
           = Append(WidthsOf(texts), Widths(text))
<1> DEFINE w == WidthsOf(texts)
           t == Append(texts, text)
           n == Len(texts)
           a == Append(w, Widths(text))
<1>1. /\ t \in Seq(Seq(Chars)) /\ Len(t) = n + 1 /\ t[n + 1] = text
      /\ \A i \in 1 .. n : t[i] = texts[i]
  BY AppendProperties
<1>2. n \in Nat /\ Widths(text) \in Seq(Nat) BY LenProperties, WidthsType
<1>3. /\ w \in Seq(Seq(Nat)) /\ Len(w) = n
      /\ \A i \in 1 .. n : w[i] = Widths(texts[i])
  BY WidthsOfType
<1>4. /\ a \in Seq(Seq(Nat)) /\ Len(a) = n + 1
      /\ \A i \in 1 .. n : a[i] = w[i]
      /\ a[n + 1] = Widths(text)
  <2> HIDE DEF w, n
  <2> QED BY <1>2, <1>3, AppendProperties
<1> HIDE DEF t, w, n, a
<1>5. /\ WidthsOf(t) \in Seq(Seq(Nat)) /\ Len(WidthsOf(t)) = n + 1
      /\ \A i \in 1 .. n + 1 : WidthsOf(t)[i] = Widths(t[i])
  BY <1>1, WidthsOfType
<1>6. \A i \in 1 .. n + 1 : WidthsOf(t)[i] = a[i]
  <2>1. \A i \in 1 .. n : WidthsOf(t)[i] = a[i]
    <3> TAKE i \in 1 .. n
    <3>1. i \in 1 .. n + 1 BY <1>2
    <3>2. WidthsOf(t)[i] = Widths(t[i]) BY <1>5, <3>1
    <3> QED BY <1>1, <1>3, <1>4, <3>2
  <2>2. WidthsOf(t)[n + 1] = a[n + 1]
    <3>1. n + 1 \in 1 .. n + 1 BY <1>2
    <3>2. WidthsOf(t)[n + 1] = Widths(t[n + 1]) BY <1>5, <3>1
    <3> QED BY <1>1, <1>4, <3>2
  <2>3. \A i \in 1 .. n + 1 : i \in 1 .. n \/ i = n + 1 BY <1>2
  <2> QED BY <2>1, <2>2, <2>3, Zenon
<1> QED BY <1>4, <1>5, <1>6, SeqEqual DEF t, w, a


LEMMA WidthsOfEmpty == WidthsOf(<<>>) = <<>>
BY DEF WidthsOf

LEMMA WidthsOfConcat ==
    ASSUME NEW s \in Seq(Seq(Chars)), NEW t \in Seq(Seq(Chars))
    PROVE  WidthsOf(s \o t) = WidthsOf(s) \o WidthsOf(t)
<1> DEFINE T == {u \in Seq(Seq(Chars)) :
                   WidthsOf(s \o u) = WidthsOf(s) \o WidthsOf(u)}
<1>0. WidthsOf(s) \in Seq(Seq(Nat)) BY WidthsOfType
<1>1. <<>> \in T
  <2>1. <<>> \in Seq(Seq(Chars)) /\ s \o <<>> = s BY EmptySeq, ConcatEmptySeq
  <2>2. WidthsOf(s) \o <<>> = WidthsOf(s) BY <1>0, ConcatEmptySeq
  <2>3. WidthsOf(s \o <<>>) = WidthsOf(s) \o WidthsOf(<<>>)
    BY <2>1, <2>2, WidthsOfEmpty, Zenon
  <2> QED BY <2>1, <2>3, Zenon
<1>2. ASSUME NEW u \in Seq(Seq(Chars)), NEW e \in Seq(Chars), u \in T
      PROVE  Append(u, e) \in T
  <2>1. Append(u, e) \in Seq(Seq(Chars)) BY AppendProperties
  <2>2. s \o u \in Seq(Seq(Chars)) BY ConcatProperties
  <2>3. s \o Append(u, e) = Append(s \o u, e) BY ConcatThenAppend, SMTT(60)
  <2>4. WidthsOf(Append(s \o u, e)) = Append(WidthsOf(s \o u), Widths(e))
    BY <2>2, WidthsOfAppend
  <2>5. WidthsOf(Append(u, e)) = Append(WidthsOf(u), Widths(e))
    BY WidthsOfAppend
  <2>6. WidthsOf(u) \in Seq(Seq(Nat)) /\ Widths(e) \in Seq(Nat)
    BY WidthsType, WidthsOfType
  <2>7. WidthsOf(s) \o Append(WidthsOf(u), Widths(e))
          = Append(WidthsOf(s) \o WidthsOf(u), Widths(e))
    BY <1>0, <2>6, ConcatThenAppend, SMTT(60)
  <2>8. WidthsOf(s \o u) = WidthsOf(s) \o WidthsOf(u) BY <1>2
  <2>9. WidthsOf(s \o Append(u, e)) = WidthsOf(s) \o WidthsOf(Append(u, e))
    BY <2>3, <2>4, <2>5, <2>7, <2>8
  <2> QED BY <2>1, <2>9
<1>3. t \in T
  <2> HIDE DEF T
  <2> QED BY <1>1, <1>2, EverySequence
<1> QED BY <1>3

\* Joined, the widths of the texts are those of the joined texts.
LEMMA FlattenOfWidths ==
    ASSUME NEW texts \in Seq(Seq(Chars))
    PROVE  FlattenSeq(WidthsOf(texts)) = Widths(FlattenSeq(texts))
<1> DEFINE T == {u \in Seq(Seq(Chars)) :
                   FlattenSeq(WidthsOf(u)) = Widths(FlattenSeq(u))}
<1>1. <<>> \in T
  <2>1. <<>> \in Seq(Seq(Chars)) BY EmptySeq
  <2>2. FlattenSeq(WidthsOf(<<>>)) = Widths(FlattenSeq(<<>>))
    BY WidthsOfEmpty, WidthsEmpty, FlattenEmpty, Zenon
  <2> QED BY <2>1, <2>2, Zenon
<1>2. ASSUME NEW u \in Seq(Seq(Chars)), NEW e \in Seq(Chars), u \in T
      PROVE  Append(u, e) \in T
  <2>1. Append(u, e) \in Seq(Seq(Chars)) BY AppendProperties
  <2>2. /\ WidthsOf(u) \in Seq(Seq(Nat)) /\ Len(WidthsOf(u)) = Len(u)
        /\ Widths(e) \in Seq(Nat)
    BY WidthsType, WidthsOfType
  <2>3. WidthsOf(Append(u, e)) = Append(WidthsOf(u), Widths(e))
    BY WidthsOfAppend
  <2>4. FlattenSeq(Append(WidthsOf(u), Widths(e)))
          = IF WidthsOf(u) = <<>> THEN Widths(e)
            ELSE FlattenSeq(WidthsOf(u)) \o Widths(e)
    BY <2>2, FlattenAppend
  <2>5. FlattenSeq(Append(u, e)) = IF u = <<>> THEN e ELSE FlattenSeq(u) \o e
    BY FlattenAppend
  <2>6. WidthsOf(u) = <<>> <=> u = <<>> BY <2>2, EmptySeq
  <2>7. FlattenSeq(u) \in Seq(Chars) BY FlattenType
  <2>8. Widths(FlattenSeq(u) \o e) = Widths(FlattenSeq(u)) \o Widths(e)
    BY <2>7, WidthsConcat
  <2>9. FlattenSeq(WidthsOf(u)) = Widths(FlattenSeq(u)) BY <1>2
  <2>10. FlattenSeq(WidthsOf(Append(u, e))) = Widths(FlattenSeq(Append(u, e)))
    BY <2>3, <2>4, <2>5, <2>6, <2>8, <2>9
  <2> QED BY <2>1, <2>10
<1>3. texts \in T
  <2> HIDE DEF T
  <2> QED BY <1>1, <1>2, EverySequence
<1> QED BY <1>3

\* The last widths are those of the last characters,
LEMMA WidthsOfLast ==
    ASSUME NEW text \in Seq(Chars), NEW n \in Nat
    PROVE  LastOf(n, Widths(text)) = Widths(LastOf(n, text))
<1> DEFINE l == LastOf(n, text)
           w == Widths(text)
<1>1. /\ l \in Seq(Chars)
      /\ \E p \in Seq(Chars) : text = p \o l
  BY LastOfEnds
<1>2. Len(l) = IF n < Len(text) THEN n ELSE Len(text) BY LastOfEnds
<1>3. Len(text) \in Nat /\ w \in Seq(Nat) /\ Len(w) = Len(text)
  BY LenProperties, WidthsType
<1> HIDE DEF l
<1>4. PICK p \in Seq(Chars) : text = p \o l BY <1>1
<1>5. w = Widths(p) \o Widths(l) BY <1>1, <1>4, WidthsConcat
<1>6. /\ Widths(l) \in Seq(Nat) /\ Widths(p) \in Seq(Nat)
      /\ Len(Widths(l)) = Len(l)
  BY <1>1, WidthsType
<1>7. LastOf(Len(l), w) = Widths(l) BY <1>5, <1>6, EndIsLastOf
<1> HIDE DEF w
<1>8. LastOf(n, w) = LastOf(Len(l), w)
  <2>1. CASE n < Len(w) BY <1>2, <1>3, <2>1
  <2>2. CASE ~(n < Len(w)) BY <1>2, <1>3, <2>2, LastOfAll
  <2> QED BY <2>1, <2>2
<1> QED BY <1>7, <1>8 DEF l, w

\* and those of the last texts.
LEMMA WidthsOfLastTexts ==
    ASSUME NEW texts \in Seq(Seq(Chars)), NEW n \in Nat
    PROVE  LastOf(n, WidthsOf(texts)) = WidthsOf(LastOf(n, texts))
<1> DEFINE l == LastOf(n, texts)
           w == WidthsOf(texts)
<1>1. /\ l \in Seq(Seq(Chars))
      /\ \E p \in Seq(Seq(Chars)) : texts = p \o l
  BY LastOfEnds
<1>2. Len(l) = IF n < Len(texts) THEN n ELSE Len(texts) BY LastOfEnds
<1>3. Len(texts) \in Nat /\ w \in Seq(Seq(Nat)) /\ Len(w) = Len(texts)
  BY LenProperties, WidthsOfType
<1> HIDE DEF l
<1>4. PICK p \in Seq(Seq(Chars)) : texts = p \o l BY <1>1
<1>5. w = WidthsOf(p) \o WidthsOf(l) BY <1>1, <1>4, WidthsOfConcat
<1>6. /\ WidthsOf(l) \in Seq(Seq(Nat)) /\ WidthsOf(p) \in Seq(Seq(Nat))
      /\ Len(WidthsOf(l)) = Len(l)
  BY <1>1, WidthsOfType
<1>7. LastOf(Len(l), w) = WidthsOf(l) BY <1>5, <1>6, EndIsLastOf
<1> HIDE DEF w
<1>8. LastOf(n, w) = LastOf(Len(l), w)
  <2>1. CASE n < Len(w) BY <1>2, <1>3, <2>1
  <2>2. CASE ~(n < Len(w)) BY <1>2, <1>3, <2>2, LastOfAll
  <2> QED BY <2>1, <2>2
<1> QED BY <1>7, <1>8 DEF l, w

\* The last elements are those of an end that is long enough.
LEMMA LastOfEnd ==
    ASSUME NEW S, NEW s \in Seq(S), NEW t \in Seq(S), EndOf(S, t, s),
           NEW n \in Nat, n <= Len(t)
    PROVE  LastOf(n, s) = LastOf(n, t)
<1>1. PICK p \in Seq(S) : s = p \o t BY DEF EndOf
<1> QED BY <1>1, LastOfConcat

\* An end is one of as many elements, too.
LEMMA EndOfLast ==
    ASSUME NEW S, NEW s \in Seq(S), NEW t \in Seq(S), EndOf(S, t, s),
           NEW n \in Nat, Len(t) <= n
    PROVE  EndOf(S, t, LastOf(n, s))
<1> DEFINE l == LastOf(n, s)
           k == Len(t)
           e == LastOf(k, l)
<1>1. PICK p \in Seq(S) : s = p \o t BY DEF EndOf
<1>2. k \in Nat /\ Len(s) \in Nat /\ k <= Len(s)
  <2>1. Len(s) = Len(p) + Len(t) BY <1>1, ConcatProperties
  <2> QED BY <2>1, LenProperties
<1>3. l \in Seq(S) /\ \E q \in Seq(S) : s = q \o l BY LastOfEnds
<1>4. Len(l) = IF n < Len(s) THEN n ELSE Len(s) BY LastOfEnds
<1>5. k <= Len(l) BY <1>2, <1>4
<1> HIDE DEF l
<1>6. EndOf(S, l, s) BY <1>3 DEF EndOf
<1>7. LastOf(k, s) = LastOf(k, l)
  <2> HIDE DEF k
  <2> QED BY <1>2, <1>3, <1>5, <1>6, LastOfEnd
<1>8. LastOf(k, s) = t BY <1>1, EndIsLastOf
<1>9. \E q \in Seq(S) : l = q \o LastOf(k, l)
  <2> HIDE DEF k
  <2> QED BY <1>2, <1>3, LastOfEnds
<1> QED BY <1>7, <1>8, <1>9 DEF EndOf, l

-----------------------------------------------------------------------------
(***************************************************************************)
(* The inductive invariant of the history                                  *)
(***************************************************************************)
\* The widths are those of the last texts that were committed.  Once some were
\* dropped, the bytes need be neither all of theirs nor only theirs, but they
\* and those of the committed texts end alike: each is the end of all the bytes
\* there were.
HistoryInv ==
    /\ committed \in Seq(Seq(Chars)) /\ input \in Chars
    /\ Len(pos) < 2 * Size
    /\ \E kept \in Seq(Seq(Chars)) :
          /\ EndOf(Seq(Chars), kept, committed)
          /\ pos = WidthsOf(kept)
          /\ ~cleaned => input = BytesOf(kept)
    /\ \E all \in Chars :
          EndOf(Bytes, input, all) /\ EndOf(Bytes, BytesOf(committed), all)

LEMMA BytesOfType ==
    ASSUME NEW texts \in Seq(Seq(Chars)) PROVE BytesOf(texts) \in Chars
<1>1. FlattenSeq(texts) \in Seq(Chars) BY FlattenType
<1> QED BY <1>1, FlattenType DEF BytesOf, Chars

LEMMA BytesOfAppend ==
    ASSUME NEW texts \in Seq(Seq(Chars)), NEW text \in Seq(Chars)
    PROVE  BytesOf(Append(texts, text)) = BytesOf(texts) \o FlattenSeq(text)
<1>1. FlattenSeq(texts) \in Seq(Chars) BY FlattenType
<1>2. FlattenSeq(Append(texts, text))
        = IF texts = <<>> THEN text ELSE FlattenSeq(texts) \o text
  BY FlattenAppend
<1>3. FlattenSeq(text) \in Seq(Bytes) BY FlattenType DEF Chars
<1>4. CASE texts = <<>>
  <2>1. FlattenSeq(texts) = <<>> BY <1>4, FlattenEmpty
  <2>2. FlattenSeq(FlattenSeq(texts)) = <<>> BY <2>1, FlattenEmpty
  <2>3. <<>> \o FlattenSeq(text) = FlattenSeq(text) BY <1>3, ConcatEmptySeq
  <2> QED BY <1>2, <1>4, <2>2, <2>3 DEF BytesOf
<1>5. CASE texts # <<>>
  <2>1. FlattenSeq(FlattenSeq(texts) \o text)
          = FlattenSeq(FlattenSeq(texts)) \o FlattenSeq(text)
    BY <1>1, FlattenConcat DEF Chars
  <2> QED BY <1>2, <1>5, <2>1 DEF BytesOf
<1> QED BY <1>4, <1>5

LEMMA BytesOfEnd ==
    ASSUME NEW s \in Seq(Seq(Chars)), NEW t \in Seq(Seq(Chars)),
           EndOf(Seq(Chars), t, s)
    PROVE  EndOf(Bytes, BytesOf(t), BytesOf(s))
<1>1. EndOf(Chars, FlattenSeq(t), FlattenSeq(s)) BY JoinedEnd
<1>2. FlattenSeq(s) \in Seq(Chars) /\ FlattenSeq(t) \in Seq(Chars)
  BY FlattenType
<1> QED BY <1>1, <1>2, JoinedEnd DEF BytesOf, Chars

LEMMA DroppedNat ==
    ASSUME NEW texts \in Seq(Seq(Nat)), Len(texts) = 2 * Size
    PROVE  Dropped(texts) \in Nat
<1> DEFINE widths == [i \in 1 .. Size |-> Total(texts[2 * i - 1])]
<1>1. Size \in Nat BY HistoryAssumption
<1>2. \A i \in 1 .. Size : 2 * i - 1 \in 1 .. Len(texts) BY <1>1
<1>3. \A i \in 1 .. Size : texts[2 * i - 1] \in Seq(Nat)
  BY <1>2, ElementOfSeq
<1>4. \A i \in 1 .. Size : Total(texts[2 * i - 1]) \in Nat BY <1>3, TotalNat
<1>5. widths \in Seq(Nat) BY <1>1, <1>4
<1> HIDE DEF widths
<1>6. Total(widths) \in Nat BY <1>5, TotalNat
<1> QED BY <1>6 DEF Dropped, widths

LEMMA HistoryInitially == HistoryInit => HistoryInv
<1> SUFFICES ASSUME HistoryInit PROVE HistoryInv
  OBVIOUS
<1>1. <<>> \in Seq(Seq(Chars)) /\ <<>> \in Chars /\ <<>> \in Seq(Seq(Bytes))
  BY EmptySeq DEF Chars
<1>2. BytesOf(<<>>) = <<>> BY FlattenEmpty DEF BytesOf
<1>3. \A S : EndOf(S, <<>>, <<>>)
  <2> TAKE S
  <2>1. <<>> \in Seq(S) /\ <<>> = <<>> \o <<>> BY EmptySeq, ConcatEmptySeq
  <2> QED BY <2>1 DEF EndOf
<1>4. Len(<<>>) < 2 * Size
  <2>1. Size \in Nat \ {0} BY HistoryAssumption
  <2> QED BY <2>1
<1>5. \E kept \in Seq(Seq(Chars)) :
         /\ EndOf(Seq(Chars), kept, committed)
         /\ pos = WidthsOf(kept)
         /\ ~cleaned => input = BytesOf(kept)
  <2>1. /\ EndOf(Seq(Chars), <<>>, committed)
        /\ pos = WidthsOf(<<>>) /\ input = BytesOf(<<>>)
    BY <1>2, <1>3, WidthsOfEmpty DEF HistoryInit
  <2> QED BY <1>1, <2>1
<1>6. \E all \in Chars :
         EndOf(Bytes, input, all) /\ EndOf(Bytes, BytesOf(committed), all)
  <2>1. EndOf(Bytes, input, <<>>) /\ EndOf(Bytes, BytesOf(committed), <<>>)
    BY <1>2, <1>3 DEF HistoryInit
  <2> QED BY <1>1, <2>1
<1>7. committed \in Seq(Seq(Chars)) /\ input \in Chars /\ Len(pos) < 2 * Size
  BY <1>1, <1>4 DEF HistoryInit
<1> QED BY <1>5, <1>6, <1>7 DEF HistoryInv

\* A text is added at the end of everything, and what is dropped is before it.
LEMMA AddInductive ==
    ASSUME HistoryInv, NEW text \in Seq(Chars), Add(text)
    PROVE  HistoryInv'
<1> DEFINE b == FlattenSeq(text)
           bytes == input \o b
           texts == Append(pos, Widths(text))
           added == Append(committed, text)
<1>1. Size \in Nat \ {0} /\ 2 * Size \in Nat /\ 2 * Size - 1 \in Nat
  BY HistoryAssumption
<1>2. b \in Chars BY FlattenType DEF Chars
<1>3. PICK kept \in Seq(Seq(Chars)) :
         /\ EndOf(Seq(Chars), kept, committed)
         /\ pos = WidthsOf(kept)
         /\ ~cleaned => input = BytesOf(kept)
  BY DEF HistoryInv
<1>4. PICK all \in Chars :
         EndOf(Bytes, input, all) /\ EndOf(Bytes, BytesOf(committed), all)
  BY DEF HistoryInv
<1> DEFINE longer == Append(kept, text)
<1>5. /\ committed \in Seq(Seq(Chars)) /\ input \in Chars
      /\ Len(pos) < 2 * Size
  BY DEF HistoryInv
<1>6. /\ added \in Seq(Seq(Chars)) /\ longer \in Seq(Seq(Chars))
      /\ Len(longer) = Len(kept) + 1 /\ Len(kept) \in Nat
  BY <1>5, AppendProperties, LenProperties
<1>7. texts = WidthsOf(longer) BY <1>3, WidthsOfAppend
<1>8. EndOf(Seq(Chars), longer, added)
  <2>1. PICK p \in Seq(Seq(Chars)) : committed = p \o kept BY <1>3 DEF EndOf
  <2>2. p \o Append(kept, text) = Append(p \o kept, text) BY ConcatThenAppend
  <2>3. added = p \o longer BY <2>1, <2>2
  <2> HIDE DEF added, longer
  <2> QED BY <2>1, <2>3 DEF EndOf
<1>9. Len(longer) <= 2 * Size
  <2>1. Len(pos) = Len(kept) BY <1>3, WidthsOfType
  <2> QED BY <1>1, <1>5, <1>6, <2>1
<1>10. BytesOf(longer) = BytesOf(kept) \o b BY BytesOfAppend
<1>11. BytesOf(added) = BytesOf(committed) \o b BY <1>5, BytesOfAppend
<1>12. /\ texts \in Seq(Seq(Nat)) /\ Len(texts) = Len(longer)
  BY <1>6, <1>7, WidthsOfType
<1>13. bytes \in Chars /\ all \o b \in Chars
  BY <1>2, <1>5, ConcatProperties DEF Chars
<1>14. /\ \/ /\ Len(texts) >= 2 * Size /\ Cleanup(bytes, texts)
          \/ /\ ~(Len(texts) >= 2 * Size)
             /\ input' = bytes /\ pos' = texts /\ cleaned' = cleaned
       /\ committed' = LastOf(2 * Size - 1, added)
  BY DEF Add
<1>15. EndOf(Bytes, bytes, all \o b)
  BY <1>2, <1>4, <1>5, EndIsExtended DEF Chars
<1> HIDE DEF bytes, texts, added, longer, b
<1>16. committed' \in Seq(Seq(Chars)) /\ EndOf(Seq(Chars), committed', added)
  BY <1>1, <1>6, <1>14, LastOfEnds, ZenonT(60) DEF EndOf
<1>17. \A k \in Seq(Seq(Chars)) :
          EndOf(Seq(Chars), k, longer) /\ Len(k) < 2 * Size =>
             EndOf(Seq(Chars), k, committed')
  <2> TAKE k \in Seq(Seq(Chars))
  <2> HAVE EndOf(Seq(Chars), k, longer) /\ Len(k) < 2 * Size
  <2>1. EndOf(Seq(Chars), k, added) BY <1>6, <1>8, EndOfEnd
  <2>2. Len(k) \in Nat BY LenProperties
  <2>3. Len(k) <= 2 * Size - 1 BY <1>1, <2>2
  <2> QED BY <1>1, <1>6, <1>14, <2>1, <2>3, EndOfLast
<1>18. EndOf(Bytes, BytesOf(committed'), all \o b)
  <2>1. EndOf(Bytes, BytesOf(committed'), BytesOf(added))
    BY <1>6, <1>16, BytesOfEnd
  <2>2. EndOf(Bytes, BytesOf(added), all \o b)
    BY <1>2, <1>4, <1>5, <1>11, BytesOfType, EndIsExtended DEF Chars
  <2>3. BytesOf(committed') \in Chars /\ BytesOf(added) \in Chars
    BY <1>6, <1>16, BytesOfType
  <2> QED BY <1>13, <2>1, <2>2, <2>3, EndOfEnd DEF Chars
<1>19. CASE ~(Len(texts) >= 2 * Size)
  <2>1. input' = bytes /\ pos' = texts /\ cleaned' = cleaned BY <1>14, <1>19
  <2>2. Len(longer) < 2 * Size BY <1>1, <1>6, <1>12, <1>19
  <2>3. EndOf(Seq(Chars), longer, longer)
    <3>1. <<>> \in Seq(Seq(Chars)) /\ longer = <<>> \o longer
      BY <1>6, EmptySeq, ConcatEmptySeq
    <3> QED BY <3>1 DEF EndOf
  <2>4. EndOf(Seq(Chars), longer, committed')
    BY <1>6, <1>17, <2>2, <2>3
  <2>5. ~cleaned' => input' = BytesOf(longer)
    BY <1>3, <1>10, <2>1 DEF bytes
  <2>6. Len(pos') < 2 * Size BY <1>12, <2>1, <2>2
  <2> QED
    BY <1>6, <1>7, <1>13, <1>15, <1>16, <1>18, <2>1, <2>4, <2>5, <2>6
    DEF HistoryInv
<1>20. CASE Len(texts) >= 2 * Size
  <2> DEFINE rest == SubSeq(longer, Size + 1, Len(longer))
  <2>1. Len(longer) = 2 * Size
    <3>1. Len(longer) \in Nat /\ Len(longer) >= 2 * Size BY <1>6, <1>12, <1>20
    <3> HIDE DEF rest
    <3> QED BY <1>1, <1>9, <3>1
  <2>2. /\ input' = SubSeq(bytes, Dropped(texts) + 1, Len(bytes))
        /\ pos' = SubSeq(texts, Size + 1, Len(texts)) /\ cleaned'
    BY <1>14, <1>20 DEF Cleanup
  <2>3. Dropped(texts) \in Nat BY <1>12, <2>1, DroppedNat
  <2>4. input' \in Chars /\ EndOf(Bytes, input', bytes)
    BY <1>13, <2>2, <2>3, RestIsEnd DEF Chars
  <2>5. EndOf(Bytes, input', all \o b)
    BY <1>13, <1>15, <2>4, EndOfEnd DEF Chars
  <2>6. rest \in Seq(Seq(Chars)) /\ EndOf(Seq(Chars), rest, longer)
    BY <1>1, <1>6, RestIsEnd
  <2>7. \A s : Len(s) = 2 * Size =>
               LastOf(Size, s) = SubSeq(s, Size + 1, Len(s))
    <3> TAKE s
    <3> HAVE Len(s) = 2 * Size
    <3>1. Size < Len(s) /\ Len(s) - Size + 1 = Size + 1 BY <1>1
    <3> QED BY <3>1 DEF LastOf
  <2>8. rest = LastOf(Size, longer) BY <2>1, <2>7
  <2>9. pos' = LastOf(Size, texts) BY <1>12, <2>1, <2>2, <2>7
  <2>10. pos' = WidthsOf(rest)
    BY <1>1, <1>6, <1>7, <2>8, <2>9, WidthsOfLastTexts
  <2>11. Len(rest) = Size
    <3> HIDE DEF rest
    <3>1. Len(rest) = IF Size < Len(longer) THEN Size ELSE Len(longer)
      BY <1>1, <1>6, <2>8, LastOfEnds
    <3>2. Size < Len(longer) BY <1>1, <2>1
    <3> QED BY ONLY <3>1, <3>2
  <2> HIDE DEF rest
  <2>12. Len(pos') = Size BY <2>6, <2>10, <2>11, WidthsOfType
  <2>13. Size < 2 * Size BY <1>1
  <2>14. EndOf(Seq(Chars), rest, committed') BY <1>17, <2>6, <2>11, <2>13
  <2>15. \E k \in Seq(Seq(Chars)) :
            /\ EndOf(Seq(Chars), k, committed')
            /\ pos' = WidthsOf(k)
            /\ ~cleaned' => input' = BytesOf(k)
    BY <2>2, <2>6, <2>10, <2>14
  <2> QED
    BY <1>13, <1>16, <1>18, <2>4, <2>5, <2>12, <2>13, <2>15 DEF HistoryInv
<1> QED BY <1>19, <1>20

LEMMA ClearInductive == ASSUME Clear PROVE HistoryInv'
<1>1. HistoryInit' BY DEF Clear, HistoryInit
<1> QED BY <1>1, HistoryInitially, PTL

LEMMA HistoryStands ==
    ASSUME HistoryInv, UNCHANGED historyVars
    PROVE  HistoryInv'
BY DEF historyVars, HistoryInv

-----------------------------------------------------------------------------
(***************************************************************************)
(* The reads                                                               *)
(***************************************************************************)
\* What a read of the last texts or characters gives, if their bytes are still
\* there: the total of their widths finds their beginning.
LEMMA SuffixIsEnd ==
    ASSUME HistoryInv, NEW read \in Chars,
           EndOf(Bytes, read, BytesOf(committed))
    PROVE  Suffix(Len(read)) \in {read, Throws}
<1>1. PICK all \in Chars :
         EndOf(Bytes, input, all) /\ EndOf(Bytes, BytesOf(committed), all)
  BY DEF HistoryInv
<1>2. input \in Chars /\ BytesOf(committed) \in Chars
  BY BytesOfType DEF HistoryInv
<1>3. EndOf(Bytes, read, all) BY <1>1, <1>2, EndOfEnd DEF Chars
<1>4. PICK p \in Chars : all = p \o read BY <1>3 DEF EndOf, Chars
<1>5. LastOf(Len(read), all) = read BY <1>4, EndIsLastOf DEF Chars
<1>6. Len(read) \in Nat BY LenProperties DEF Chars
<1>7. CASE Len(read) <= Len(input)
  <2>1. LastOf(Len(read), all) = LastOf(Len(read), input)
    BY <1>1, <1>2, <1>6, <1>7, LastOfEnd DEF Chars
  <2> QED BY <1>5, <1>7, <2>1 DEF Suffix
<1>8. CASE ~(Len(read) <= Len(input)) BY <1>8 DEF Suffix
<1> QED BY <1>7, <1>8

LEMMA GetsReads ==
    ASSUME NEW kept \in Seq(Seq(Chars)), pos = WidthsOf(kept), NEW n \in Nat
    PROVE  /\ LastOf(n, kept) \in Seq(Seq(Chars))
           /\ EndOf(Seq(Chars), LastOf(n, kept), kept)
           /\ Gets(n) = Suffix(Len(BytesOf(LastOf(n, kept))))
<1> DEFINE l == LastOf(n, kept)
<1>1. l \in Seq(Seq(Chars)) /\ EndOf(Seq(Chars), l, kept)
  BY LastOfEnds DEF EndOf
<1>2. LastOf(n, pos) = WidthsOf(l) BY WidthsOfLastTexts
<1> HIDE DEF l
<1>3. FlattenSeq(WidthsOf(l)) = Widths(FlattenSeq(l)) BY <1>1, FlattenOfWidths
<1>4. FlattenSeq(l) \in Seq(Chars) BY <1>1, FlattenType
<1>5. Total(Widths(FlattenSeq(l))) = Len(BytesOf(l))
  BY <1>4, TotalOfWidths DEF BytesOf
<1> QED BY <1>1, <1>2, <1>3, <1>5 DEF Gets, l

LEMMA GetCharsReads ==
    ASSUME NEW kept \in Seq(Seq(Chars)), pos = WidthsOf(kept), NEW n \in Nat
    PROVE  /\ LastOf(n, FlattenSeq(kept)) \in Seq(Chars)
           /\ EndOf(Chars, LastOf(n, FlattenSeq(kept)), FlattenSeq(kept))
           /\ GetChars(n) = Suffix(Len(FlattenSeq(LastOf(n, FlattenSeq(kept)))))
<1> DEFINE f == FlattenSeq(kept)
           l == LastOf(n, f)
<1>1. f \in Seq(Chars) BY FlattenType
<1>2. FlattenSeq(pos) = Widths(f) BY FlattenOfWidths
<1> HIDE DEF f
<1>3. l \in Seq(Chars) /\ EndOf(Chars, l, f) BY <1>1, LastOfEnds DEF EndOf
<1>4. LastOf(n, FlattenSeq(pos)) = Widths(l) BY <1>1, <1>2, WidthsOfLast
<1> HIDE DEF l
<1>5. Total(Widths(l)) = Len(FlattenSeq(l)) BY <1>3, TotalOfWidths
<1> QED BY <1>3, <1>4, <1>5 DEF GetChars, l, f

LEMMA ReadsAreRecentNow == HistoryInv => ReadsAreRecent
<1> SUFFICES ASSUME HistoryInv PROVE ReadsAreRecent
  OBVIOUS
<1>1. PICK kept \in Seq(Seq(Chars)) :
         EndOf(Seq(Chars), kept, committed) /\ pos = WidthsOf(kept)
  BY DEF HistoryInv
<1>2. committed \in Seq(Seq(Chars)) BY DEF HistoryInv
<1>3. ASSUME NEW n \in 1 .. Len(pos)
      PROVE  Gets(n) \in {BytesOf(LastOf(n, committed)), Throws}
  <2> DEFINE l == LastOf(n, kept)
  <2>1. n \in Nat /\ n <= Len(kept) BY <1>1, WidthsOfType, LenProperties
  <2>2. /\ l \in Seq(Seq(Chars)) /\ EndOf(Seq(Chars), l, kept)
        /\ Gets(n) = Suffix(Len(BytesOf(l)))
    BY <1>1, <2>1, GetsReads
  <2>3. LastOf(n, committed) = l BY <1>1, <1>2, <2>1, LastOfEnd
  <2> HIDE DEF l
  <2>4. EndOf(Seq(Chars), l, committed) BY <1>1, <1>2, <2>2, EndOfEnd
  <2>5. BytesOf(l) \in Chars /\ EndOf(Bytes, BytesOf(l), BytesOf(committed))
    BY <1>2, <2>2, <2>4, BytesOfEnd, BytesOfType
  <2> QED BY <2>2, <2>3, <2>5, SuffixIsEnd
<1>4. ASSUME NEW n \in 1 .. Len(FlattenSeq(pos))
      PROVE  GetChars(n)
             \in {FlattenSeq(LastOf(n, FlattenSeq(committed))), Throws}
  <2> DEFINE f == FlattenSeq(kept)
             g == FlattenSeq(committed)
             l == LastOf(n, f)
  <2>1. f \in Seq(Chars) /\ g \in Seq(Chars) BY <1>2, FlattenType
  <2>2. EndOf(Chars, f, g) BY <1>1, <1>2, JoinedEnd
  <2>3. n \in Nat /\ n <= Len(f)
    <3>1. FlattenSeq(pos) = Widths(f) BY <1>1, FlattenOfWidths
    <3> HIDE DEF f
    <3>2. Len(Widths(f)) = Len(f) /\ Len(f) \in Nat
      BY <2>1, WidthsType, LenProperties
    <3> QED BY <3>1, <3>2
  <2>4. /\ l \in Seq(Chars) /\ EndOf(Chars, l, f)
        /\ GetChars(n) = Suffix(Len(FlattenSeq(l)))
    BY <1>1, <2>3, GetCharsReads
  <2> HIDE DEF f
  <2>5. LastOf(n, g) = l
    <3> HIDE DEF g
    <3> QED BY <2>1, <2>2, <2>3, LastOfEnd
  <2> HIDE DEF l
  <2>6. EndOf(Chars, l, g) BY <2>1, <2>2, <2>4, EndOfEnd
  <2>7. FlattenSeq(l) \in Chars BY <2>4, FlattenType DEF Chars
  <2>8. EndOf(Bytes, FlattenSeq(l), FlattenSeq(g))
    <3> HIDE DEF g
    <3> QED BY <2>1, <2>4, <2>6, JoinedEnd DEF Chars
  <2>9. Suffix(Len(FlattenSeq(l))) \in {FlattenSeq(l), Throws}
    BY <2>7, <2>8, SuffixIsEnd DEF BytesOf
  <2> QED BY <2>4, <2>5, <2>9
<1> QED BY <1>3, <1>4 DEF ReadsAreRecent

\* Before anything is dropped the bytes are all there.
LEMMA SuffixFits ==
    ASSUME HistoryInv, NEW read \in Chars, EndOf(Bytes, read, input)
    PROVE  Suffix(Len(read)) # Throws
<1>1. input \in Chars BY DEF HistoryInv
<1>2. PICK p \in Chars : input = p \o read BY DEF EndOf, Chars
<1>3. LastOf(Len(read), input) = read BY <1>2, EndIsLastOf DEF Chars
<1>4. Len(read) <= Len(input)
  <2>1. Len(input) = Len(p) + Len(read) BY <1>2, ConcatProperties DEF Chars
  <2>2. Len(p) \in Nat /\ Len(read) \in Nat BY LenProperties DEF Chars
  <2> QED BY <2>1, <2>2
<1>5. read # Throws BY HistoryAssumption DEF Chars
<1> QED BY <1>3, <1>4, <1>5 DEF Suffix

LEMMA NoReadThrows ==
    ASSUME HistoryInv, ~cleaned, NEW n \in Nat
    PROVE  Gets(n) # Throws /\ GetChars(n) # Throws
<1>1. PICK kept \in Seq(Seq(Chars)) :
         pos = WidthsOf(kept) /\ input = BytesOf(kept)
  BY DEF HistoryInv
<1>2. Gets(n) # Throws
  <2> DEFINE l == LastOf(n, kept)
  <2>1. /\ l \in Seq(Seq(Chars)) /\ EndOf(Seq(Chars), l, kept)
        /\ Gets(n) = Suffix(Len(BytesOf(l)))
    BY <1>1, GetsReads
  <2> HIDE DEF l
  <2>2. BytesOf(l) \in Chars /\ EndOf(Bytes, BytesOf(l), input)
    BY <1>1, <2>1, BytesOfEnd, BytesOfType
  <2> QED BY <2>1, <2>2, SuffixFits
<1>3. GetChars(n) # Throws
  <2> DEFINE f == FlattenSeq(kept)
             l == LastOf(n, f)
  <2>1. /\ l \in Seq(Chars) /\ EndOf(Chars, l, f)
        /\ GetChars(n) = Suffix(Len(FlattenSeq(l)))
    BY <1>1, GetCharsReads
  <2>2. f \in Seq(Chars) /\ input = FlattenSeq(f)
    BY <1>1, FlattenType DEF BytesOf
  <2> HIDE DEF f, l
  <2>3. FlattenSeq(l) \in Chars BY <2>1, FlattenType DEF Chars
  <2>4. EndOf(Bytes, FlattenSeq(l), input) BY <2>1, <2>2, JoinedEnd DEF Chars
  <2> QED BY <2>1, <2>3, <2>4, SuffixFits
<1> QED BY <1>2, <1>3

-----------------------------------------------------------------------------
(***************************************************************************)
(* The prediction                                                          *)
(***************************************************************************)
\* Something the rime thread reads before it throws has thrown.
ReadThrows == LastText = Throws \/ Prompt = Throws \/ Throws \in Hints

LEMMA ReadThrowsAfterCleanup == HistoryInv /\ ReadThrows => cleaned
<1> SUFFICES ASSUME HistoryInv, ReadThrows, ~cleaned PROVE FALSE
  OBVIOUS
<1>1. MaxHistory \in Nat /\ 1 \in Nat BY PredictionAssumption
<1>2. \A i \in 2 .. Len(FlattenSeq(pos)) : i \in Nat
  <2>1. PICK kept \in Seq(Seq(Chars)) : pos = WidthsOf(kept) BY DEF HistoryInv
  <2>2. FlattenSeq(pos) = Widths(FlattenSeq(kept)) BY <2>1, FlattenOfWidths
  <2>3. FlattenSeq(kept) \in Seq(Chars) BY FlattenType
  <2>4. Len(FlattenSeq(pos)) \in Nat BY <2>2, <2>3, WidthsType, LenProperties
  <2> QED BY <2>4
<1>3. LastText # Throws BY <1>1, NoReadThrows DEF LastText
<1>4. Prompt # Throws BY <1>1, NoReadThrows DEF Prompt
<1>5. BackChar # Throws BY <1>1, NoReadThrows DEF BackChar
<1>6. \A n \in Nat : GetChars(n) # Throws BY NoReadThrows
<1>7. Throws \notin Hints BY <1>2, <1>5, <1>6 DEF Hints
<1> QED BY <1>3, <1>4, <1>7 DEF ReadThrows

\* The provider's own steps do not throw on the rime thread.
LEMMA ProviderThrowsNot ==
    ASSUME ProviderNext, task' = "thrown"
    PROVE  task = "thrown"
BY DEF ProviderNext, ProviderGoesOn, WarmUpCommit, WarmUpClear, PredictCommit,
       DestroyClient, Callback, CallbackOnDestroyed, PowerChange, providerVars,
       Predict, DestroyMembers, At

\* A step extends or clears the history, throws after a read that does, or
\* leaves the history alone.
LEMMA PredictionStep ==
    ASSUME [PredictionNext]_predictionVars
    PROVE  \/ /\ Free /\ StandStill
              /\ (\E text \in Texts : Add(text)) \/ Clear
           \/ ReadThrows /\ UNCHANGED historyVars
           \/ (ProviderNext \/ StandStill) /\ UNCHANGED historyVars
<1>1. ASSUME NEW text \in Texts, Commit(text) \/ Punctuation(text)
      PROVE  \/ Free /\ StandStill /\ Add(text)
             \/ ReadThrows /\ UNCHANGED historyVars
  BY <1>1 DEF Commit, Punctuation, Throw, ReadThrows, historyVars
<1>2. CASE BackSpace BY <1>2 DEF BackSpace
<1>3. CASE LLMDeclines \/ LLMThrows \/ LLMPredicts \/ DBPredicts
  BY <1>3
  DEF LLMDeclines, LLMThrows, LLMPredicts, DBPredicts, Throw, ReadThrows,
      ProviderNext, historyVars
<1>4. CASE Destroy \/ Elsewhere
  BY <1>4 DEF Destroy, Elsewhere, ProviderNext, historyVars
<1>5. CASE UNCHANGED predictionVars
  BY <1>5 DEF predictionVars, StandStill, historyVars
<1> QED BY <1>1, <1>2, <1>3, <1>4, <1>5 DEF PredictionNext

LEMMA HistoryInductive ==
    ASSUME HistoryInv, ThrowsOnlyAfterCleanup, [PredictionNext]_predictionVars
    PROVE  HistoryInv' /\ ThrowsOnlyAfterCleanup'
<1>1. CASE Free /\ StandStill /\ ((\E text \in Texts : Add(text)) \/ Clear)
  <2>1. Texts \subseteq Seq(Chars) BY HistoryAssumption DEF Chars
  <2>2. HistoryInv' BY <1>1, <2>1, AddInductive, ClearInductive
  <2>3. task' # "thrown" BY <1>1 DEF Free, StandStill, Idle, providerVars
  <2> QED BY <2>2, <2>3 DEF ThrowsOnlyAfterCleanup
<1>2. CASE ReadThrows /\ UNCHANGED historyVars
  <2>1. cleaned /\ UNCHANGED cleaned
    BY <1>2, ReadThrowsAfterCleanup DEF historyVars
  <2> QED BY <1>2, <2>1, HistoryStands DEF ThrowsOnlyAfterCleanup
<1>3. CASE (ProviderNext \/ StandStill) /\ UNCHANGED historyVars
  <2>1. task' = "thrown" => task = "thrown"
    BY <1>3, ProviderThrowsNot DEF StandStill, providerVars
  <2>2. UNCHANGED cleaned BY <1>3 DEF historyVars
  <2> QED BY <1>3, <2>1, <2>2, HistoryStands DEF ThrowsOnlyAfterCleanup
<1> QED BY <1>1, <1>2, <1>3, PredictionStep

LEMMA HistoryInvariance == PredictionSpec => [](HistoryInv /\ ThrowsOnlyAfterCleanup)
<1>1. PredictionInit => HistoryInv /\ ThrowsOnlyAfterCleanup
  BY HistoryInitially
  DEF PredictionInit, ProviderInit, ThrowsOnlyAfterCleanup
<1> QED BY <1>1, HistoryInductive, PTL DEF PredictionSpec

-----------------------------------------------------------------------------
(***************************************************************************)
(* Theorems of the whole prediction, for any number of commits, any texts  *)
(* and any sizes of the history                                            *)
(***************************************************************************)
\* The members of the client, which no lock protects, keep their types.
THEOREM ClientTypeCorrect == PredictionSpec => []ClientTypeOK
BY Invariance, ProviderKeeps, PTL

\* Once wait() has returned the worker has nothing in hand, and every earlier
\* commit was served: pending_prompt_ is overwritten only when it was read
\* (llm.cc:784, :837).
THEOREM WaitedIsQuiet == PredictionSpec => []WaitedMeansQuiet
BY Invariance, ProviderKeeps, PTL

\* A run fulfils the promise of the prompt it ran (llm.cc:760).
THEOREM PromiseIsOfItsPrompt == PredictionSpec => []PromiseOfItsPrompt
BY Invariance, ProviderKeeps, PTL

\* The stop_ of one call never ends a run that was committed after it
\* (llm.cc:783, :785).
THEOREM StopIsOfThisRun == PredictionSpec => []StopIsForThisRun
BY Invariance, ProviderKeeps, PTL

\* Retrive shows the response to the last prediction's prompt, or nothing
\* (llm_provider.cc:54, :172).
THEOREM RetrivesOwnPrompt == PredictionSpec => []RetrivesItsOwnPrompt
BY Invariance, ProviderKeeps, PTL

\* The worker's callback finds the promise of its own prompt, not yet fulfilled,
\* and so never throws (llm_provider.cc:53).
THEOREM CallbackFindsPromise == PredictionSpec => []CallbackFindsItsPromise
BY Invariance, ProviderKeeps, PTL

\* promise_ is replaced only while no callback can be reading it, although
\* nothing locks it (llm_provider.cc:156).
THEOREM PromiseReplacedInQuiet == PredictionSpec => []ReplacedInQuiet
BY Invariance, ProviderKeeps, PTL

\* A read that returns gives the last texts or characters that were committed,
\* whole, whatever was dropped, cut or cleared before (history.cc:233, :287,
\* :298).
THEOREM ReadsStayRecent == PredictionSpec => []ReadsAreRecent
BY HistoryInvariance, ReadsAreRecentNow, PTL

\* No read of a prediction throws before the history has first dropped texts
\* (history.cc:233, copilot.cc:215, db_provider.h:62).
THEOREM ThrowsAfterCleanup == PredictionSpec => []ThrowsOnlyAfterCleanup
BY HistoryInvariance, PTL
=============================================================================
