---------------------------- MODULE LLMProvider ----------------------------
(***************************************************************************)
(* LLMProvider (src/src/llm_provider.cc) as the calling thread of a        *)
(* ClientSimple: rime asks for predictions, the worker's callback delivers *)
(* them through promise_.  promise_ and future_ are replaced together, so  *)
(* one variable stands for both; the promise of a prediction has the       *)
(* number of the commit that will make it.                                 *)
(***************************************************************************)
EXTENDS ClientSimple

VARIABLES
    task,       \* how far the provider is with the call it is making
    promise,    \* promise_, and future_ with it
    answer,     \* the prompt whose response a promise was given, if any
    on_ac,      \* is_on_ac_
    destroyed   \* promise_ and future_ are destroyed

providerVars == <<task, promise, answer, on_ac, destroyed>>

ProviderInit ==
    /\ ClientInit
    /\ task = "new"
    /\ promise = None
    /\ answer = [k \in Commits |-> None]
    /\ on_ac \in BOOLEAN
    /\ destroyed = FALSE

(***************************************************************************)
(* The rime thread                                                         *)
(***************************************************************************)
At(from, to) == caller = "idle" /\ task \in from /\ task' = to

Idle == {"warm_clear", "predict_commit"}

\* The constructor warms the model up, with no promise to fulfil.
WarmUpCommit ==
    /\ At({"new"}, "warm_commit") /\ CommitStop
    /\ UNCHANGED <<promise, answer, on_ac, destroyed>>

WarmUpClear ==
    /\ At({"warm_commit"}, "warm_clear") /\ ClearStop
    /\ UNCHANGED <<promise, answer, on_ac, destroyed>>

\* Mutant: the previous run is not cleared first.
PredictAtOnce ==
    /\ At(Idle, "predict_clear") /\ on_ac /\ commits < MaxCommits
    /\ UNCHANGED <<clientVars, promise, answer, on_ac, destroyed>>

\* Declined on battery.  (It also is when history_ is short; then nothing
\* happens, and the next Predict may come.)
Predict ==
    /\ At(Idle, "predict_clear") /\ on_ac /\ commits < MaxCommits
    /\ ClearStop
    /\ UNCHANGED <<promise, answer, on_ac, destroyed>>

PredictCommit ==
    /\ At({"predict_clear"}, "predict_commit") /\ CommitStop
    /\ promise' = commits + 1
    /\ UNCHANGED <<answer, on_ac, destroyed>>

\* What Retrive finds within its timeout.
Retrive == IF on_ac /\ promise # None THEN answer[promise] ELSE None

\* Members are destroyed in reverse order: client_ outlives promise_.
DestroyMembers ==
    /\ At(Idle, "destroy")
    /\ destroyed' = TRUE
    /\ UNCHANGED <<clientVars, promise, answer, on_ac>>

DestroyClient ==
    /\ At({"destroy"}, "destroying") /\ DestroyStop
    /\ UNCHANGED <<promise, answer, on_ac, destroyed>>

(***************************************************************************)
(* Other threads                                                           *)
(***************************************************************************)
Deliver == answer' = [answer EXCEPT ![promise] = prompt]

SetTwice == promise # None /\ answer[promise] # None

\* The callback the provider gave to the client.
Callback ==
    /\ worker = "finish"
    /\ IF SetTwice
       THEN /\ Worker("finish", "crashed")
            /\ UNCHANGED <<has_new_task, workerVars, answer>>
       ELSE /\ OnFinish
            /\ IF promise # None THEN Deliver ELSE UNCHANGED answer
    /\ UNCHANGED <<task, promise, on_ac, destroyed>>

\* promise_ is destroyed: the callback finds it null, or anything else.
CallbackOnDestroyed ==
    /\ destroyed
    /\ OnFinish \/ (Worker("finish", "crashed")
                    /\ UNCHANGED <<has_new_task, workerVars>>)
    /\ UNCHANGED providerVars

\* The thread of the power notifications.
PowerChange ==
    /\ task \notin {"new", "warm_commit"} /\ worker # "crashed"
    /\ on_ac' = ~on_ac
    /\ UNCHANGED <<clientVars, task, promise, answer, destroyed>>

-----------------------------------------------------------------------------
Goes == CommitRest \/ ClearRest \/ DestroyRest

ProviderGoesOn ==
    \/ WarmUpCommit \/ WarmUpClear \/ PredictCommit \/ DestroyClient
    \/ Callback \/ CallbackOnDestroyed \/ PowerChange
    \/ (Goes \/ WorkerSteps \/ SpuriousWakeup) /\ UNCHANGED providerVars

ProviderNext == Predict \/ DestroyMembers \/ ProviderGoesOn

ProviderSpec == ProviderInit /\ [][ProviderNext]_<<clientVars, providerVars>>

-----------------------------------------------------------------------------
\* Retrive shows the response to the prompt of the last prediction or nothing,
\* however many were aborted and replaced before (llm_provider.cc:54, :172).
RetrivesItsOwnPrompt == Retrive \in {None, promise}

\* A callback that is about to run finds the promise of the prompt that ran, not
\* yet fulfilled: it never throws in the worker (llm_provider.cc:53).
CallbackFindsItsPromise ==
    worker = "finish" /\ ~destroyed /\ promise # None
    => promise = prompt /\ answer[promise] = None

\* promise_ is replaced only while the worker cannot be in the callback that
\* reads it, although no lock protects it (llm_provider.cc:156).
ReplacedInQuiet ==
    task = "predict_clear" /\ caller = "idle" => worker \in Resting
=============================================================================
