----------------------------- MODULE Prediction -----------------------------
(***************************************************************************)
(* What a commit sets off on the rime thread: the processor adds it to the *)
(* history, and the engine asks its providers one after the other, the     *)
(* language model for the last texts (llm_provider.cc) and the database    *)
(* for the last characters (db_provider.h).  An exception ends the process.*)
(***************************************************************************)
EXTENDS LLMProvider, History

CONSTANTS
    MaxHistory,     \* max_history of the language model
    MaxHints        \* max_hints of the database; 0 stands for INT_MAX

ASSUME PredictionAssumption == MaxHistory \in Nat /\ MaxHints \in Nat

VARIABLE turn   \* what the rime thread does next: "key", "llm" or "db"

predictionVars == <<clientVars, providerVars, historyVars, turn>>

PredictionInit == ProviderInit /\ HistoryInit /\ turn = "key"

Turn(from, to) == turn = from /\ turn' = to

\* The rime thread is in no call of the provider.
Free == caller = "idle" /\ task \in Idle /\ worker # "crashed"

Throw ==
    /\ worker' = "crashed" /\ task' = "thrown"
    /\ UNCHANGED <<caller, has_new_task, callerVars, workerVars, promise,
                   answer, on_ac, destroyed, historyVars>>

StandStill == UNCHANGED <<clientVars, providerVars>>

(***************************************************************************)
(* Key events                                                              *)
(***************************************************************************)
\* OnContextUpdate: a commit is added unless it is the last text again, and
\* predicted upon unless it is raw.
Commit(text) ==
    /\ Free
    /\ \/ LastText = Throws /\ Turn("key", "key") /\ Throw
       \/ /\ LastText \notin {Throws, FlattenSeq(text)}
          /\ turn = "key" /\ turn' \in {"key", "llm"}
          /\ Add(text) /\ StandStill

\* Punctuation is added as it is, before rime commits anything.
Punctuation(text) ==
    /\ Free /\ Turn("key", "key")
    /\ Len(FlattenSeq(text)) = 1
    /\ Add(text) /\ StandStill

BackSpace == Free /\ Turn("key", "key") /\ Clear /\ StandStill

\* The engine is destroyed between keys.
Destroy == DestroyMembers /\ turn = "key" /\ UNCHANGED <<historyVars, turn>>

(***************************************************************************)
(* CopilotEngine::Copilot                                                  *)
(***************************************************************************)
Prompt == Gets(MaxHistory)

LLMDeclines ==
    /\ Free /\ Turn("llm", "db")
    /\ ~on_ac \/ Len(pos) < 3
    /\ StandStill /\ UNCHANGED historyVars

LLMThrows ==
    /\ Free /\ Turn("llm", "key")
    /\ on_ac /\ Len(pos) >= 3 /\ Prompt = Throws
    /\ Throw

LLMPredicts ==
    /\ Turn("llm", "db")
    /\ Len(pos) >= 3 /\ Prompt # Throws
    /\ Predict
    /\ UNCHANGED historyVars

\* What DBProvider looks up, one character more each time, until it gets no
\* longer: it reads the whole history unless max_hints is set.
Hints ==
    {BackChar} \cup
    {GetChars(n) : n \in {i \in 2 .. Len(FlattenSeq(pos)) :
                             MaxHints = 0 \/ i < MaxHints}}

DBPredicts ==
    /\ Free /\ Turn("db", "key")
    /\ IF Throws \in Hints
       THEN Throw
       ELSE StandStill /\ UNCHANGED historyVars

-----------------------------------------------------------------------------
Elsewhere == ProviderGoesOn /\ UNCHANGED <<historyVars, turn>>

PredictionNext ==
    \/ \E text \in Texts : Commit(text) \/ Punctuation(text)
    \/ BackSpace \/ Destroy
    \/ LLMDeclines \/ LLMThrows \/ LLMPredicts \/ DBPredicts
    \/ Elsewhere

PredictionSpec == PredictionInit /\ [][PredictionNext]_predictionVars

-----------------------------------------------------------------------------
\* No read of a prediction throws before the history has first dropped texts,
\* however many keys, deletions and predictions there were (history.cc:233,
\* copilot.cc:215, db_provider.h:62).
ThrowsOnlyAfterCleanup == task = "thrown" => cleaned
=============================================================================
