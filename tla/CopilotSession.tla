--------------------------- MODULE CopilotSession ---------------------------
(***************************************************************************)
(* The Copilot processor (src/src/copilot.cc) of every rime session, with  *)
(* the engine all sessions of a schema share (copilot_engine.cc), the two  *)
(* providers and the translator.  A key event runs to its end, with every  *)
(* notification it causes, before the next: it is one action.              *)
(*                                                                         *)
(* rime is external: its composition, commit history and option, and what  *)
(* it does with a key that Copilot leaves to it (a menu of punctuation is  *)
(* left out).  A handler is an operator from a moment (session and engine) *)
(* to a moment.                                                            *)
(***************************************************************************)
EXTENDS Naturals

CONSTANTS
    Sessions, Texts,
    NoText,             \* the empty text
    MaxIterations       \* copilot/max_iterations, 0 for no limit

ASSUME CopilotAssumption == NoText \notin Texts /\ MaxIterations \in Nat

VARIABLES
    session,    \* per session: rime's context and the members of Copilot
    engine      \* the members of CopilotEngine and of its providers

copilotVars == <<session, engine>>

NoMenu == [db |-> NoText, llm |-> FALSE]

\* The last record of rime's commit history; type "raw" stands for "punct" and
\* "thru" too, which Copilot does not tell apart.
NoCommit == [text |-> NoText, type |-> "none"]

\* composition is the tag of its last segment; picks is history: predictions
\* picked in a row, with no key between them but navigation.
NewSession ==
    [ composition |-> "empty", menu |-> NoMenu, last_commit |-> NoCommit,
      copilot |-> TRUE, last_action |-> "kUnspecified",
      iteration_counter |-> 0, picks |-> 0 ]

NoHistory == [last |-> NoText, size |-> 0]

\* candidates are known by the text that was last when they were looked up,
\* future by whether it is valid, history by its last text and its size, up to
\* the 3 that count.
NewEngine ==
    [ query |-> NoText, candidates |-> NoText, future |-> FALSE,
      history |-> NoHistory ]

CopilotInit ==
    /\ session = [s \in Sessions |-> NewSession]
    /\ engine = NewEngine

\* What the providers meet: power, a matching entry, an answer in time.
Fortunes ==
    {o \in [on_ac : BOOLEAN, found : BOOLEAN, answered : BOOLEAN] :
        o.answered => o.on_ac}

\* The best of them, for keys after which Copilot is deaf and asks no provider:
\* if it did, this would show.
Fortune == [on_ac |-> TRUE, found |-> TRUE, answered |-> TRUE]

(***************************************************************************)
(* The engine                                                              *)
(***************************************************************************)
Clear(w) == [w EXCEPT !.e.query = NoText, !.e.candidates = NoText]

BackSpace(w) == [w EXCEPT !.e.query = NoText, !.e.history = NoHistory]

Add(w, text) ==
    [w EXCEPT !.e.history =
        [last |-> text, size |-> IF @.size = 3 THEN 3 ELSE @.size + 1]]

LastText(w) == w.e.history.last

LLMPredicts(w, o) == o.on_ac /\ w.e.history.size = 3

DBPredicts(w, o) == o.found /\ w.e.history.size > 0

\* Mutant: the database provider keeps its candidates when it finds none.
PredictKeepingCandidates(w, o) ==
    [w EXCEPT !.e.candidates = IF DBPredicts(w, o) THEN LastText(w) ELSE @,
              !.e.future     = @ \/ LLMPredicts(w, o)]

\* Every provider is asked; the language model may decline and keeps its future.
Predict(w, o) ==
    [w EXCEPT !.e.candidates = IF DBPredicts(w, o) THEN LastText(w) ELSE NoText,
              !.e.future     = @ \/ LLMPredicts(w, o)]

\* What CopilotTranslator::Query collects for a segment tagged copilot.
Query(w, o) ==
    IF w.e.query = NoText THEN NoMenu
    ELSE [ db  |-> w.e.candidates,
           llm |-> o.on_ac /\ o.answered /\ w.e.future ]

Offers(menu) == menu.db # NoText \/ menu.llm

(***************************************************************************)
(* The processor                                                           *)
(***************************************************************************)
\* The menu is filled at once, by rime's answer to the notification.
CopilotAndUpdate(w, text, o) ==
    LET p == Predict(w, o)
        q == [p EXCEPT !.e.query = text, !.s.composition = "copilot"]
    IN  IF LLMPredicts(w, o) \/ DBPredicts(w, o)
        THEN [q EXCEPT !.s.menu = Query(q, o)]
        ELSE p

\* Mutant: a deletion is forgotten.
DeafToSpecialOnly(w) == w.s.last_action = "kSpecial"

\* Updates in the wake of such a key are none of Copilot's business.
Deaf(w) == w.s.last_action \in {"kSpecial", "kDelete"}

NothingNew(w) ==
    w.s.last_commit = NoCommit \/ LastText(w) = w.s.last_commit.text

Forget(w) == [Clear(w) EXCEPT !.s.iteration_counter = 0]

\* Mutant: one iteration too many.
OneTooMany(n) == MaxIterations > 0 /\ n > MaxIterations

Enough(n) == MaxIterations > 0 /\ n >= MaxIterations

OnContextUpdate(w, o) ==
    LET last == w.s.last_commit
        a    == Add(w, last.text)
        n    == w.s.iteration_counter + 1
    IN  CASE \/ w.s.composition # "empty" \/ ~w.s.copilot
             \/ Deaf(w) \/ NothingNew(w)             -> w
          [] OTHER ->
               CASE last.type = "raw" -> Forget(a)
                 [] last.type = "copilot" ->
                      IF Enough(n) THEN Forget(a)
                      ELSE CopilotAndUpdate(
                             [a EXCEPT !.s.iteration_counter = n], last.text, o)
                 [] OTHER -> CopilotAndUpdate(a, last.text, o)

\* rime's Context::Clear, which notifies.
ContextClear(w, o) ==
    OnContextUpdate([w EXCEPT !.s.composition = "empty", !.s.menu = NoMenu], o)

\* The same, whatever the providers meet; upon a raw commit they are not asked.
Cleared(w) ==
    {ContextClear(w, o) :
        o \in IF w.s.last_commit.type = "raw" THEN {Fortune} ELSE Fortunes}

CloseMenu(w, o) == IF w.s.composition = "copilot" THEN ContextClear(w, o) ELSE w

CommitText(w, text, type) ==
    [w EXCEPT !.s.last_commit = [text |-> text, type |-> type]]

(***************************************************************************)
(* Key events of a session                                                 *)
(***************************************************************************)
Now(s) == [s |-> session[s], e |-> engine]

Become(s, w) ==
    /\ session' = [session EXCEPT ![s] = w.s]
    /\ engine' = w.e

\* What Copilot has noted of the key by the time another part commits text.  No
\* code tells kSelect from kUnspecified.
Pressed(s, action) ==
    [Now(s) EXCEPT !.s.last_action = action, !.s.picks = 0]

Shows(s, tag) == session[s].composition = tag

\* rime deletes from the input; or the application deletes, and rime as a rule
\* forgets its last commit.
BackSpaceKey(s) ==
    LET a == Forget(Pressed(s, "kDelete"))
        b == CloseMenu(BackSpace(a), Fortune)
    IN  \/ /\ Shows(s, "abc")
           /\ \E rest \in {"abc", "empty"} :
                Become(s, OnContextUpdate([a EXCEPT !.s.composition = rest],
                                          Fortune))
        \/ /\ ~Shows(s, "abc")
           /\ \E last \in {session[s].last_commit, NoCommit} :
                Become(s, [b EXCEPT !.s.last_commit = last])

\* A letter makes or extends the input, in place of a prediction.
LetterKey(s) ==
    Become(s, [Pressed(s, "kUnspecified") EXCEPT !.s.composition = "abc",
                                                !.s.menu = NoMenu])

\* A letter or digit, or space after navigation, goes straight to the
\* application; AutoSpacer puts a space before it and leaves a prediction.
PlainKey(s) == \E text \in Texts :
    /\ session[s].composition \in {"empty", "copilot"}
    /\ Become(s, CommitText(Pressed(s, "kUnspecified"), text, "raw"))

\* A key, other than a special one, by which rime commits a candidate
CommitKey(s) == \E text \in Texts :
    /\ Shows(s, "abc")
    /\ LET a == CommitText(Pressed(s, "kUnspecified"), text, "word")
       IN  \E w \in Cleared(a) : Become(s, w)

\* AutoSpacer commits the input or the candidate itself.
SpacerCommitKey(s) == \E text \in Texts :
    /\ Shows(s, "abc")
    /\ LET a == CommitText(Pressed(s, "kUnspecified"), text, "raw")
       IN  \E w \in Cleared(a) : Become(s, w)

\* A pick that no prediction answers is the last in its row.
EndRow(w) ==
    IF w.s.composition = "copilot" THEN w ELSE [w EXCEPT !.s.picks = 0]

\* A digit, or space after navigation
PickPrediction(s) == \E text \in Texts :
    /\ Shows(s, "copilot") /\ Offers(session[s].menu)
    /\ LET a == [Pressed(s, "kUnspecified")
                   EXCEPT !.s.picks = session[s].picks + 1]
       IN  \E w \in Cleared(CommitText(a, text, "copilot")) :
             Become(s, EndRow(w))

\* AutoSpacer forgets rime's last commit if it goes by it.
NavigationKey(s) == \E last \in {session[s].last_commit, NoCommit} :
    Become(s, [Now(s) EXCEPT !.s.last_action = "kUnspecified",
                             !.s.last_commit = last])

SpecialPressed(s) == Forget(Pressed(s, "kSpecial"))

\* Punctuation: rime commits it, full-width or not, with what was typed.
PunctKey(s) == \E punct, text \in Texts :
    LET a == CloseMenu(Add(SpecialPressed(s), punct), Fortune)
    IN  Become(s, ContextClear(CommitText(a, text, "raw"), Fortune))

\* Enter, Escape, Delete, space with nothing typed and the like: rime or the
\* application has what was typed, or rime forgets its last commit.
SpecialKey(s) ==
    \E last \in {session[s].last_commit, NoCommit} \cup
              [text : Texts, type : {"raw"}] :
      LET a == CloseMenu(SpecialPressed(s), Fortune)
      IN  Become(s, ContextClear([a EXCEPT !.s.last_commit = last], Fortune))

OnSelect(w) == [w EXCEPT !.s.last_action = "kUnspecified"]

\* A special key that selects: a candidate, or punctuation for what it is.  What
\* is added before is the key, if it is punctuation.  Of the selection Copilot
\* hears before rime commits it, or after; of punctuation, which is not predicted
\* upon, after.
SpecialSelectKey(s) ==
    \E a \in {SpecialPressed(s)} \cup {Add(SpecialPressed(s), punct) : punct \in Texts},
       text \in Texts, type \in {"word", "raw"} :
      /\ type = "word" => Shows(s, "abc")
      /\ LET c == CommitText(CloseMenu(a, Fortune), text, type)
         IN  \/ /\ type = "word"
                /\ \E w \in Cleared(OnSelect(c)) : Become(s, w)
             \/ Become(s, OnSelect(ContextClear(c, Fortune)))

\* A part of a candidate is committed, and predicted upon at once.
SelectCharacter(s) == \E text \in Texts :
    /\ Shows(s, "abc") \/ (Shows(s, "copilot") /\ Offers(session[s].menu))
    /\ LET a == CommitText(Pressed(s, "kUnspecified"), text, "raw")
       IN  \E w \in {CopilotAndUpdate(ContextClear(a, o), text, o) :
                        o \in Fortunes} : Become(s, w)

\* The application clears rime's context between keys, composing or not.
ClearComposition(s) ==
    \E w \in Cleared([Now(s) EXCEPT !.s.picks = 0]) : Become(s, w)

\* The switch of README.md:29
ToggleSwitch(s) ==
    /\ Shows(s, "empty")
    /\ Become(s, [Now(s) EXCEPT !.s.copilot = ~@])

CopilotNext == \E s \in Sessions :
    \/ BackSpaceKey(s) \/ LetterKey(s) \/ PlainKey(s) \/ CommitKey(s)
    \/ SpacerCommitKey(s) \/ PickPrediction(s) \/ NavigationKey(s)
    \/ SpecialKey(s) \/ PunctKey(s) \/ SpecialSelectKey(s) \/ SelectCharacter(s)
    \/ ClearComposition(s) \/ ToggleSwitch(s)

CopilotSpec == CopilotInit /\ [][CopilotNext]_copilotVars

-----------------------------------------------------------------------------
Predicted(s) ==
    /\ session'[s].composition = "copilot"
    /\ session[s].composition # "copilot" \/ session'[s].menu # session[s].menu

\* However keys and the sessions alternate, no more than max_iterations
\* predictions come in a row, each for the pick of the one before; the counter
\* is reset by many keys and by any commit that is not predicted upon
\* (copilot.cc:139, :172, :222, :228).
ChainIsBounded ==
    MaxIterations > 0 => \A s \in Sessions :
        Shows(s, "copilot") => session[s].picks < MaxIterations

\* While the switch is on, a menu that appears is for the text its own session
\* committed last, and so are the candidates of the database in it, although
\* the engine, its history and its candidates are shared (copilot.cc:219, :238;
\* db_provider.h:58).
MenuAnswersLatestCommit ==
    [][\A s \in Sessions : Predicted(s) /\ session[s].copilot =>
         LET text == session'[s].last_commit.text
         IN  /\ engine'.query = text
             /\ session'[s].menu.db \in {NoText, text}]_copilotVars

\* Nothing is predicted in the wake of a deletion or a special key, by whichever
\* updates they cause themselves or rime causes until the next key or selection
\* (copilot.cc:202, :205).  A special key that selects is none of these from
\* then on (:189): its candidate is predicted upon.
DeletePredictsNothing ==
    [][\A s \in Sessions :
         session'[s].last_action \in {"kDelete", "kSpecial"}
         => ~Predicted(s)]_copilotVars
=============================================================================
