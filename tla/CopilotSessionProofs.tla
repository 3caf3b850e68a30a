------------------------ MODULE CopilotSessionProofs ------------------------
(***************************************************************************)
(* Theorems of CopilotSession, for any sessions, texts and limit of        *)
(* iterations.  All that a key does to rime's context goes through         *)
(* OnContextUpdate or CopilotAndUpdate: what those two make of a moment    *)
(* is said once, and each key follows from it.                             *)
(***************************************************************************)
EXTENDS CopilotSession, TLAPS

AnyText == Texts \cup {NoText}

Menus == [db : AnyText, llm : BOOLEAN]

CommitTypes == {"none", "raw", "word", "copilot"}

Commits == [text : AnyText, type : CommitTypes]

SessionStates ==
    [ composition : {"empty", "abc", "copilot"}, menu : Menus,
      last_commit : Commits, copilot : BOOLEAN,
      last_action : {"kUnspecified", "kSpecial", "kDelete"},
      iteration_counter : Nat, picks : Nat ]

Engines ==
    [ query : AnyText, candidates : AnyText, future : BOOLEAN,
      history : [last : AnyText, size : 0..3] ]

Moments == [s : SessionStates, e : Engines]

Alike(w, v) ==
    /\ w.s.last_commit = v.s.last_commit /\ w.s.copilot = v.s.copilot
    /\ w.s.last_action = v.s.last_action /\ w.s.picks = v.s.picks

\* The menu on the screen is what it was.
SameMenu(w, v) ==
    w.s.composition = v.s.composition /\ w.s.menu = v.s.menu

-----------------------------------------------------------------------------
(***************************************************************************)
(* The engine                                                              *)
(***************************************************************************)
LEMMA ClearOK ==
    ASSUME NEW w \in Moments
    PROVE  Clear(w) \in Moments /\ Clear(w).s = w.s
BY DEF Clear, Moments, Engines, AnyText

LEMMA BackSpaceOK ==
    ASSUME NEW w \in Moments
    PROVE  BackSpace(w) \in Moments /\ BackSpace(w).s = w.s
<1>1. NoHistory \in [last : AnyText, size : 0..3]
  BY DEF NoHistory, AnyText
<1> QED BY <1>1 DEF BackSpace, Moments, Engines, AnyText

LEMMA AddOK ==
    ASSUME NEW w \in Moments, NEW text \in AnyText
    PROVE  /\ Add(w, text) \in Moments /\ Add(w, text).s = w.s
           /\ LastText(Add(w, text)) = text
<1> DEFINE size == w.e.history.size
           h == [last |-> text, size |-> IF size = 3 THEN 3 ELSE size + 1]
<1>1. h \in [last : AnyText, size : 0..3] BY DEF Moments, Engines
<1>2. Add(w, text) = [w EXCEPT !.e.history = h] BY DEF Add, Moments, Engines
<1>3. h.last = text OBVIOUS
<1> HIDE DEF h
<1> QED BY <1>1, <1>2, <1>3 DEF Moments, Engines, LastText

LEMMA PredictOK ==
    ASSUME NEW w \in Moments, NEW o \in Fortunes
    PROVE  /\ Predict(w, o) \in Moments /\ Predict(w, o).s = w.s
           /\ Predict(w, o).e.candidates \in {LastText(w), NoText}
<1>1. LastText(w) \in AnyText /\ NoText \in AnyText
  BY DEF LastText, Moments, Engines, AnyText
<1> DEFINE p == Predict(w, o)
<1>2. /\ p.s = w.s /\ p.e.query = w.e.query /\ p.e.history = w.e.history
      /\ p.e.candidates = IF DBPredicts(w, o) THEN LastText(w) ELSE NoText
  BY DEF Predict, Moments, Engines
<1>3. p.e.future \in BOOLEAN BY DEF Predict, Moments, Engines
<1>4. p \in [ s : {p.s},
              e : [ query : {p.e.query}, candidates : {p.e.candidates},
                    future : {p.e.future}, history : {p.e.history} ] ]
  BY DEF Predict, Moments, Engines
<1> HIDE DEF p
<1>5. p.e \in Engines BY <1>1, <1>2, <1>3, <1>4 DEF Moments, Engines
<1>6. p \in Moments BY <1>2, <1>4, <1>5 DEF Moments
<1> QED BY <1>2, <1>6 DEF p

LEMMA QueryOK ==
    ASSUME NEW w \in Moments, NEW o \in Fortunes
    PROVE  /\ Query(w, o) \in Menus
           /\ Query(w, o).db \in {NoText, w.e.candidates}
BY DEF Query, NoMenu, Menus, Moments, Engines, AnyText, Fortunes

-----------------------------------------------------------------------------
(***************************************************************************)
(* The processor                                                           *)
(***************************************************************************)
\* A prediction that comes up is for the text, and so are the candidates of the
\* database in it.
MenuFor(w, text) ==
    /\ w.s.composition = "copilot" /\ w.e.query = text
    /\ w.s.menu.db \in {NoText, text}

LEMMA CopilotAndUpdateOK ==
    ASSUME NEW w \in Moments, NEW o \in Fortunes, NEW text \in AnyText
    PROVE  LET r == CopilotAndUpdate(w, text, o)
           IN  /\ r \in Moments /\ Alike(r, w)
               /\ r.s.iteration_counter = w.s.iteration_counter
               /\ SameMenu(r, w) \/ (LastText(w) = text => MenuFor(r, text))
<1> DEFINE p == Predict(w, o)
           q == [p EXCEPT !.e.query = text, !.s.composition = "copilot"]
           m == Query(q, o)
           r == CopilotAndUpdate(w, text, o)
<1>1. p \in Moments /\ p.s = w.s /\ p.e.candidates \in {LastText(w), NoText}
  BY PredictOK
<1>2. r = p \/ r = [q EXCEPT !.s.menu = m]
  BY DEF CopilotAndUpdate
<1> HIDE DEF p, r
<1>3. /\ q \in Moments /\ Alike(q, w) /\ q.s.composition = "copilot"
      /\ q.s.iteration_counter = w.s.iteration_counter
      /\ q.e.query = text /\ q.e.candidates = p.e.candidates
  BY <1>1 DEF Moments, SessionStates, Engines, Alike
<1> HIDE DEF q
<1>4. m \in Menus /\ m.db \in {NoText, LastText(w)} BY <1>1, <1>3, QueryOK
<1> HIDE DEF m
<1>5. CASE r = p
  BY <1>1, <1>5 DEF Alike, SameMenu, r
<1>6. CASE r = [q EXCEPT !.s.menu = m]
  <2>1. /\ r \in Moments /\ Alike(r, w) /\ r.s.composition = "copilot"
        /\ r.s.iteration_counter = w.s.iteration_counter
        /\ r.e.query = text /\ r.s.menu = m
    BY <1>3, <1>4, <1>6 DEF Moments, SessionStates, Engines, Alike
  <2> QED BY <1>4, <2>1 DEF MenuFor, r
<1> QED BY <1>2, <1>5, <1>6

LEMMA ForgetOK ==
    ASSUME NEW w \in Moments
    PROVE  /\ Forget(w) \in Moments /\ Alike(Forget(w), w)
           /\ SameMenu(Forget(w), w) /\ Forget(w).s.iteration_counter = 0
           /\ LastText(Forget(w)) = LastText(w)
BY DEF Forget, Clear, Moments, SessionStates, Engines, Alike, SameMenu,
       LastText, AnyText

\* The counter stays below the limit, where there is one.
Below(n) == MaxIterations > 0 => n < MaxIterations

\* What an update makes of a moment: nothing comes up, or a prediction for the
\* last commit does, that counts if it is for the pick of a prediction.
Updated(w, r) ==
    /\ r \in Moments /\ Alike(r, w)
    /\ Below(w.s.iteration_counter) => Below(r.s.iteration_counter)
    /\ \/ SameMenu(r, w)
       \/ /\ MenuFor(r, w.s.last_commit.text)
          /\ ~Deaf(w) /\ w.s.copilot /\ w.s.last_commit.type # "raw"
          /\ w.s.last_commit.type = "copilot"
               => r.s.iteration_counter = w.s.iteration_counter + 1

LEMMA OnContextUpdateOK ==
    ASSUME NEW w \in Moments, NEW o \in Fortunes
    PROVE  Updated(w, OnContextUpdate(w, o))
<1> DEFINE r == OnContextUpdate(w, o)
           last == w.s.last_commit
           a == Add(w, last.text)
           n == w.s.iteration_counter + 1
<1>1. last \in Commits /\ last.text \in AnyText /\ n \in Nat
  BY DEF Moments, SessionStates, Commits
<1>2. a \in Moments /\ a.s = w.s /\ LastText(a) = last.text BY <1>1, AddOK
<1>3. CASE \/ w.s.composition # "empty" \/ ~w.s.copilot
           \/ Deaf(w) \/ NothingNew(w)
  <2>1. r = w BY <1>3 DEF OnContextUpdate
  <2> HIDE DEF r
  <2> QED BY <2>1 DEF Updated, Alike, SameMenu, r
<1>4. CASE ~(\/ w.s.composition # "empty" \/ ~w.s.copilot
             \/ Deaf(w) \/ NothingNew(w))
  <2>1. CASE last.type = "raw" \/ (last.type = "copilot" /\ Enough(n))
    <3>1. r = Forget(a) BY <1>4, <2>1 DEF OnContextUpdate
    <3> HIDE DEF a, r
    <3>2. Updated(w, r)
      BY <1>2, <3>1, ForgetOK DEF Updated, Alike, SameMenu, Below
    <3> QED BY <3>2 DEF r
  <2>2. CASE last.type = "copilot" /\ ~Enough(n)
    <3> DEFINE b == [a EXCEPT !.s.iteration_counter = n]
    <3>1. r = CopilotAndUpdate(b, last.text, o)
      BY <1>4, <2>2 DEF OnContextUpdate
    <3>2. /\ b \in Moments /\ Alike(b, w) /\ SameMenu(b, w)
          /\ b.s.iteration_counter = n /\ LastText(b) = last.text
      BY <1>1, <1>2 DEF Moments, SessionStates, Alike, SameMenu, LastText
    <3> HIDE DEF b
    <3>3. /\ r \in Moments /\ Alike(r, b) /\ r.s.iteration_counter = n
          /\ SameMenu(r, b) \/ MenuFor(r, last.text)
      BY <1>1, <3>1, <3>2, CopilotAndUpdateOK
    <3>4. Below(n) BY <1>1, <2>2, CopilotAssumption DEF Enough, Below
    <3> HIDE DEF r
    <3>5. Updated(w, r)
      BY <1>4, <2>2, <3>2, <3>3, <3>4 DEF Updated, Alike, SameMenu
    <3> QED BY <3>5 DEF r
  <2>3. CASE last.type \notin {"raw", "copilot"}
    <3>1. r = CopilotAndUpdate(a, last.text, o)
      BY <1>4, <2>3 DEF OnContextUpdate
    <3> HIDE DEF a
    <3>3. /\ r \in Moments /\ Alike(r, a)
          /\ r.s.iteration_counter = a.s.iteration_counter
          /\ SameMenu(r, a) \/ MenuFor(r, last.text)
      BY <1>1, <1>2, <3>1, CopilotAndUpdateOK
    <3> HIDE DEF r
    <3>4. Updated(w, r)
      BY <1>2, <1>4, <2>3, <3>3 DEF Updated, Alike, SameMenu
    <3> QED BY <3>4 DEF r
  <2> QED BY <2>1, <2>2, <2>3
<1> QED BY <1>3, <1>4

-----------------------------------------------------------------------------
(***************************************************************************)
(* What the keys do with it                                                *)
(***************************************************************************)
LEMMA ContextClearOK ==
    ASSUME NEW w \in Moments, NEW o \in Fortunes
    PROVE  LET r == ContextClear(w, o)
           IN  /\ r \in Moments /\ Alike(r, w)
               /\ Below(w.s.iteration_counter) => Below(r.s.iteration_counter)
               /\ \/ r.s.composition = "empty"
                  \/ /\ MenuFor(r, w.s.last_commit.text)
                     /\ ~Deaf(w) /\ w.s.copilot /\ w.s.last_commit.type # "raw"
                     /\ w.s.last_commit.type = "copilot"
                          => r.s.iteration_counter = w.s.iteration_counter + 1
<1> DEFINE v == [w EXCEPT !.s.composition = "empty", !.s.menu = NoMenu]
           r == ContextClear(w, o)
<1>1. NoMenu \in Menus BY DEF NoMenu, Menus, AnyText
<1>2. /\ v \in Moments /\ Alike(v, w) /\ v.s.composition = "empty"
      /\ v.s.iteration_counter = w.s.iteration_counter
  BY <1>1 DEF Moments, SessionStates, Alike
<1>3. r = OnContextUpdate(v, o) BY DEF ContextClear
<1> HIDE DEF v, r
<1>4. Updated(v, r) BY <1>2, <1>3, OnContextUpdateOK
<1>5. /\ r \in Moments /\ Alike(r, w)
      /\ Below(w.s.iteration_counter) => Below(r.s.iteration_counter)
      /\ \/ r.s.composition = "empty"
         \/ /\ MenuFor(r, w.s.last_commit.text)
            /\ ~Deaf(w) /\ w.s.copilot /\ w.s.last_commit.type # "raw"
            /\ w.s.last_commit.type = "copilot"
                 => r.s.iteration_counter = w.s.iteration_counter + 1
  BY <1>2, <1>4 DEF Updated, Alike, SameMenu, Deaf
<1> QED BY <1>5 DEF r

\* A raw commit is added, unless it is the last text again.
LEMMA RawIsAdded ==
    ASSUME NEW w \in Moments, NEW o \in Fortunes,
           w.s.copilot, ~Deaf(w), w.s.last_commit.type = "raw"
    PROVE  LastText(ContextClear(w, o)) = w.s.last_commit.text
<1> DEFINE v == [w EXCEPT !.s.composition = "empty", !.s.menu = NoMenu]
           last == w.s.last_commit
<1>1. NoMenu \in Menus BY DEF NoMenu, Menus, AnyText
<1>2. /\ v \in Moments /\ Alike(v, w) /\ v.s.composition = "empty"
      /\ LastText(v) = LastText(w)
  BY <1>1 DEF Moments, SessionStates, Alike, LastText
<1>3. ContextClear(w, o) = OnContextUpdate(v, o) BY DEF ContextClear
<1> HIDE DEF v
<1>4. last # NoCommit /\ v.s.copilot /\ ~Deaf(v) /\ v.s.last_commit = last
  BY <1>2 DEF NoCommit, Alike, Deaf
<1>5. CASE LastText(v) = last.text
  <2>1. OnContextUpdate(v, o) = v
    BY <1>4, <1>5 DEF OnContextUpdate, NothingNew
  <2> QED BY <1>3, <1>5, <2>1
<1>6. CASE LastText(v) # last.text
  <2>1. OnContextUpdate(v, o) = Forget(Add(v, last.text))
    BY <1>2, <1>4, <1>6 DEF OnContextUpdate, NothingNew
  <2>2. last.text \in AnyText BY DEF Moments, SessionStates, Commits
  <2>3. /\ Add(v, last.text) \in Moments
        /\ LastText(Add(v, last.text)) = last.text
    BY <1>2, <2>2, AddOK
  <2>4. LastText(Forget(Add(v, last.text))) = last.text BY <2>3, ForgetOK
  <2> QED BY <1>3, <2>1, <2>4
<1> QED BY <1>5, <1>6

\* A key after which Copilot is deaf brings nothing up.
LEMMA CloseMenuOK ==
    ASSUME NEW w \in Moments, NEW o \in Fortunes, Deaf(w)
    PROVE  LET r == CloseMenu(w, o)
           IN  /\ r \in Moments /\ Alike(r, w)
               /\ Below(w.s.iteration_counter) => Below(r.s.iteration_counter)
               /\ r.s.composition # "copilot"
<1> DEFINE r == CloseMenu(w, o)
<1>1. CASE w.s.composition = "copilot"
  <2>1. r = ContextClear(w, o) BY <1>1 DEF CloseMenu
  <2> HIDE DEF r
  <2>2. /\ r \in Moments /\ Alike(r, w) /\ r.s.composition = "empty"
        /\ Below(w.s.iteration_counter) => Below(r.s.iteration_counter)
    BY <2>1, ContextClearOK
  <2> QED BY <2>2 DEF r
<1>2. CASE w.s.composition # "copilot"
  <2>1. r = w BY <1>2 DEF CloseMenu
  <2> HIDE DEF r
  <2> QED BY <1>2, <2>1 DEF Alike, r
<1> QED BY <1>1, <1>2

LEMMA CommitTextOK ==
    ASSUME NEW w \in Moments, NEW text \in AnyText,
           NEW type \in CommitTypes
    PROVE  LET r == CommitText(w, text, type)
           IN  /\ r \in Moments /\ SameMenu(r, w)
               /\ r.s.last_commit.text = text /\ r.s.last_commit.type = type
               /\ r.s.copilot = w.s.copilot /\ r.s.last_action = w.s.last_action
               /\ r.s.picks = w.s.picks /\ r.e = w.e
               /\ r.s.iteration_counter = w.s.iteration_counter
<1> DEFINE c == [text |-> text, type |-> type]
<1>1. c \in Commits /\ c.text = text /\ c.type = type BY DEF Commits
<1>2. CommitText(w, text, type) = [w EXCEPT !.s.last_commit = c]
  BY DEF CommitText
<1> HIDE DEF c
<1> QED BY <1>1, <1>2 DEF Moments, SessionStates, SameMenu

CopilotTypes == session \in [Sessions -> SessionStates] /\ engine \in Engines

LEMMA PressedOK ==
    ASSUME CopilotTypes, NEW s \in Sessions,
           NEW action \in {"kUnspecified", "kSpecial", "kDelete"}
    PROVE  LET r == Pressed(s, action)
           IN  /\ Now(s) \in Moments /\ r \in Moments
               /\ r.s.last_action = action /\ r.s.picks = 0
               /\ r.s.composition = session[s].composition
               /\ r.s.menu = session[s].menu
               /\ r.s.copilot = session[s].copilot
               /\ r.s.last_commit = session[s].last_commit
               /\ r.s.iteration_counter = session[s].iteration_counter
BY ZenonT(60) DEF Pressed, Now, CopilotTypes, Moments, SessionStates

-----------------------------------------------------------------------------
(***************************************************************************)
(* The keys                                                                *)
(***************************************************************************)
\* A chain is no longer than the counter says, which is below the limit.
Chained(st) ==
    /\ Below(st.iteration_counter)
    /\ st.composition = "copilot" => st.picks <= st.iteration_counter

\* What is on the screen is no prediction, or the one that was, or one that
\* answers the last commit.
Shown(s, r) ==
    \/ r.s.composition # "copilot"
    \/ r.s.composition = session[s].composition /\ r.s.menu = session[s].menu
    \/ /\ r.s.last_action = "kUnspecified"
       /\ session[s].copilot => MenuFor(r, r.s.last_commit.text)

StepOK(s, r) == r \in Moments /\ Chained(r.s) /\ Shown(s, r)

CopilotInv == CopilotTypes /\ \A s \in Sessions : Chained(session[s])

LEMMA FortuneOK == Fortune \in Fortunes
BY DEF Fortune, Fortunes

\* A commit, or a withdrawal, after which rime clears the composition.
LEMMA ClearedStep ==
    ASSUME NEW s \in Sessions, NEW v \in Moments, NEW w \in Cleared(v),
           Below(v.s.iteration_counter),
           \/ v.s.picks = 0
           \/ /\ v.s.last_commit.type = "copilot"
              /\ v.s.picks <= v.s.iteration_counter + 1
    PROVE  StepOK(s, w)
<1>1. PICK o \in Fortunes : w = ContextClear(v, o) BY FortuneOK DEF Cleared
<1>2. /\ w \in Moments /\ Alike(w, v)
      /\ Below(v.s.iteration_counter) => Below(w.s.iteration_counter)
      /\ \/ w.s.composition = "empty"
         \/ /\ MenuFor(w, v.s.last_commit.text)
            /\ ~Deaf(v) /\ v.s.copilot /\ v.s.last_commit.type # "raw"
            /\ v.s.last_commit.type = "copilot"
                 => w.s.iteration_counter = v.s.iteration_counter + 1
  BY <1>1, ContextClearOK
<1>3. w.s.iteration_counter \in Nat /\ v.s.iteration_counter \in Nat
  BY <1>2 DEF Moments, SessionStates
<1>4. Chained(w.s) BY <1>2, <1>3 DEF Chained, Alike
<1>5. Shown(s, w)
  <2>1. CASE w.s.composition = "empty" BY <2>1 DEF Shown
  <2>2. CASE w.s.composition # "empty"
    <3>1. w.s.last_action \notin {"kSpecial", "kDelete"}
      BY <1>2, <2>2 DEF Deaf, Alike
    <3>2. w.s.last_action = "kUnspecified"
      BY <1>2, <3>1 DEF Moments, SessionStates
    <3> QED BY <1>2, <2>2, <3>2 DEF Shown, Alike
  <2> QED BY <2>1, <2>2
<1> QED BY <1>2, <1>4, <1>5 DEF StepOK

\* A moment without a prediction is in order.
LEMMA NothingShown ==
    ASSUME NEW s, NEW r \in Moments, r.s.composition # "copilot",
           Below(r.s.iteration_counter)
    PROVE  StepOK(s, r)
BY DEF StepOK, Chained, Shown

LEMMA BackSpaceKeyOK ==
    ASSUME CopilotInv, NEW s \in Sessions, BackSpaceKey(s)
    PROVE  \E r : StepOK(s, r) /\ Become(s, r)
<1> DEFINE w == Pressed(s, "kDelete")
           a == Forget(w)
           b == CloseMenu(BackSpace(a), Fortune)
<1>1. w \in Moments /\ w.s.last_action = "kDelete"
      /\ w.s.composition = session[s].composition
  BY PressedOK DEF CopilotInv
<1> HIDE DEF w
<1>2. /\ a \in Moments /\ a.s.last_action = "kDelete"
      /\ a.s.iteration_counter = 0
  BY <1>1, ForgetOK DEF Alike
<1>3. Below(0) BY DEF Below
<1> HIDE DEF a
<1>4. ASSUME NEW rest \in {"abc", "empty"},
             Become(s, OnContextUpdate([a EXCEPT !.s.composition = rest],
                                       Fortune))
      PROVE  \E r : StepOK(s, r) /\ Become(s, r)
  <2> DEFINE v == [a EXCEPT !.s.composition = rest]
             r == OnContextUpdate(v, Fortune)
  <2>1. /\ v \in Moments /\ v.s.composition = rest /\ Deaf(v)
        /\ v.s.iteration_counter = 0
    BY <1>2 DEF Moments, SessionStates, Deaf
  <2> HIDE DEF v
  <2>2. Updated(v, r) BY <2>1, OnContextUpdateOK, FortuneOK
  <2> HIDE DEF r
  <2>3. r \in Moments /\ r.s.composition = rest /\ Below(r.s.iteration_counter)
    BY <1>3, <2>1, <2>2 DEF Updated, SameMenu
  <2>4. StepOK(s, r) BY <2>3, NothingShown
  <2> QED BY <1>4, <2>4 DEF r, v
<1>5. ASSUME NEW last \in {session[s].last_commit, NoCommit},
             Become(s, [b EXCEPT !.s.last_commit = last])
      PROVE  \E r : StepOK(s, r) /\ Become(s, r)
  <2>1. BackSpace(a) \in Moments /\ BackSpace(a).s = a.s BY <1>2, BackSpaceOK
  <2>2. /\ b \in Moments /\ b.s.composition # "copilot"
        /\ Below(b.s.iteration_counter)
    BY <1>2, <1>3, <2>1, CloseMenuOK, FortuneOK DEF Deaf
  <2> HIDE DEF b
  <2>3. last \in Commits
    BY DEF CopilotInv, CopilotTypes, SessionStates, NoCommit, Commits,
           CommitTypes, AnyText
  <2> DEFINE r == [b EXCEPT !.s.last_commit = last]
  <2>4. /\ r \in Moments /\ r.s.composition # "copilot"
        /\ Below(r.s.iteration_counter)
    BY <2>2, <2>3 DEF Moments, SessionStates
  <2> HIDE DEF r
  <2>5. StepOK(s, r) BY <2>4, NothingShown
  <2> QED BY <1>5, <2>5 DEF r
<1> QED BY <1>4, <1>5 DEF BackSpaceKey, a, b, w

\* A key that leaves the menu as it was, with no pick counted.
LEMMA MenuKept ==
    ASSUME NEW s \in Sessions, NEW r \in Moments,
           Below(r.s.iteration_counter), r.s.picks = 0,
           r.s.composition = session[s].composition,
           r.s.menu = session[s].menu
    PROVE  StepOK(s, r)
BY DEF StepOK, Chained, Shown, Moments, SessionStates

LEMMA LetterKeyOK ==
    ASSUME CopilotInv, NEW s \in Sessions, LetterKey(s)
    PROVE  \E r : StepOK(s, r) /\ Become(s, r)
<1> DEFINE w == Pressed(s, "kUnspecified")
           r == [w EXCEPT !.s.composition = "abc", !.s.menu = NoMenu]
<1>1. /\ w \in Moments
      /\ w.s.iteration_counter = session[s].iteration_counter
  BY PressedOK DEF CopilotInv
<1>2. NoMenu \in Menus BY DEF NoMenu, Menus, AnyText
<1>3. Become(s, r) BY DEF LetterKey
<1> HIDE DEF w
<1>4. /\ r \in Moments /\ r.s.composition # "copilot"
      /\ r.s.iteration_counter = w.s.iteration_counter
  BY <1>1, <1>2 DEF Moments, SessionStates
<1> HIDE DEF r
<1>5. Below(r.s.iteration_counter) BY <1>1, <1>4 DEF CopilotInv, Chained
<1>6. StepOK(s, r) BY <1>4, <1>5, NothingShown
<1> QED BY <1>3, <1>6

LEMMA PlainKeyOK ==
    ASSUME CopilotInv, NEW s \in Sessions, PlainKey(s)
    PROVE  \E r : StepOK(s, r) /\ Become(s, r)
<1> DEFINE w == Pressed(s, "kUnspecified")
<1>1. PICK text \in Texts : Become(s, CommitText(w, text, "raw"))
  BY DEF PlainKey
<1>2. /\ w \in Moments /\ w.s.picks = 0
      /\ w.s.composition = session[s].composition
      /\ w.s.menu = session[s].menu
      /\ w.s.iteration_counter = session[s].iteration_counter
  BY PressedOK DEF CopilotInv
<1> HIDE DEF w
<1> DEFINE r == CommitText(w, text, "raw")
<1>a. text \in AnyText /\ "raw" \in CommitTypes
  BY DEF AnyText, CommitTypes
<1>3. /\ r \in Moments /\ SameMenu(r, w) /\ r.s.picks = 0
      /\ r.s.iteration_counter = w.s.iteration_counter
  BY <1>2, <1>a, CommitTextOK
<1>4. Become(s, r) BY <1>1
<1> HIDE DEF r
<1>5. Below(r.s.iteration_counter) BY <1>2, <1>3 DEF CopilotInv, Chained
<1>6. StepOK(s, r) BY <1>2, <1>3, <1>5, MenuKept DEF SameMenu
<1> QED BY <1>4, <1>6

\* A commit by a key that no pick is counted for, and rime clears.
LEMMA CommitCleared ==
    ASSUME NEW s \in Sessions, NEW v \in Moments, NEW text \in Texts,
           NEW type \in {"raw", "word"}, v.s.picks = 0,
           Below(v.s.iteration_counter),
           NEW w \in Cleared(CommitText(v, text, type))
    PROVE  StepOK(s, w)
<1> DEFINE c == CommitText(v, text, type)
<1>a. text \in AnyText /\ type \in CommitTypes
  BY DEF AnyText, CommitTypes
<1>1. /\ c \in Moments /\ c.s.picks = 0
      /\ c.s.iteration_counter = v.s.iteration_counter
  BY <1>a, CommitTextOK
<1> HIDE DEF c
<1> QED BY <1>1, ClearedStep DEF c

LEMMA CommitKeyOK ==
    ASSUME CopilotInv, NEW s \in Sessions, CommitKey(s) \/ SpacerCommitKey(s)
    PROVE  \E r : StepOK(s, r) /\ Become(s, r)
<1> DEFINE v == Pressed(s, "kUnspecified")
<1>0. PICK text \in Texts, type \in {"raw", "word"} :
         \E w \in Cleared(CommitText(v, text, type)) : Become(s, w)
  BY DEF CommitKey, SpacerCommitKey
<1>1. PICK w \in Cleared(CommitText(v, text, type)) : Become(s, w)
  BY <1>0
<1>2. /\ v \in Moments /\ v.s.picks = 0
      /\ v.s.iteration_counter = session[s].iteration_counter
  BY PressedOK DEF CopilotInv
<1> HIDE DEF v
<1>3. Below(v.s.iteration_counter) BY <1>2 DEF CopilotInv, Chained
<1>4. StepOK(s, w) BY <1>2, <1>3, CommitCleared
<1> QED BY <1>1, <1>4

LEMMA EndRowOK ==
    ASSUME NEW s, NEW w, StepOK(s, w)
    PROVE  StepOK(s, EndRow(w))
<1> DEFINE r == [w EXCEPT !.s.picks = 0]
<1>1. CASE w.s.composition = "copilot" BY <1>1 DEF EndRow
<1>2. CASE w.s.composition # "copilot"
  <2>1. EndRow(w) = r BY <1>2 DEF EndRow
  <2>2. /\ r \in Moments /\ r.s.composition = w.s.composition
        /\ r.s.iteration_counter = w.s.iteration_counter
    BY DEF StepOK, Moments, SessionStates
  <2>3. Below(w.s.iteration_counter) BY DEF StepOK, Chained
  <2> HIDE DEF r
  <2> QED BY <1>2, <2>1, <2>2, <2>3, NothingShown
<1> QED BY <1>1, <1>2

LEMMA PickPredictionOK ==
    ASSUME CopilotInv, NEW s \in Sessions, PickPrediction(s)
    PROVE  \E r : StepOK(s, r) /\ Become(s, r)
<1> DEFINE v == Pressed(s, "kUnspecified")
           a == [v EXCEPT !.s.picks = session[s].picks + 1]
<1>0. PICK text \in Texts :
         /\ Shows(s, "copilot")
         /\ \E w \in Cleared(CommitText(a, text, "copilot")) :
              Become(s, EndRow(w))
  BY DEF PickPrediction
<1>1. PICK w \in Cleared(CommitText(a, text, "copilot")) :
         Become(s, EndRow(w))
  BY <1>0
<1>2. /\ v \in Moments
      /\ v.s.iteration_counter = session[s].iteration_counter
  BY PressedOK DEF CopilotInv
<1> HIDE DEF v
<1>3. session[s] \in SessionStates BY DEF CopilotInv, CopilotTypes
<1>4. /\ a \in Moments /\ a.s.picks = session[s].picks + 1
      /\ a.s.iteration_counter = session[s].iteration_counter
  BY <1>2, <1>3 DEF Moments, SessionStates
<1> HIDE DEF a
<1> DEFINE c == CommitText(a, text, "copilot")
<1>5. /\ c \in Moments /\ c.s.picks = session[s].picks + 1
      /\ c.s.last_commit.type = "copilot"
      /\ c.s.iteration_counter = session[s].iteration_counter
  BY <1>4, CommitTextOK DEF AnyText, CommitTypes
<1>6. /\ Below(session[s].iteration_counter)
      /\ session[s].picks <= session[s].iteration_counter
  BY <1>0 DEF CopilotInv, Chained, Shows
<1>7. w \in Cleared(c) BY <1>1
<1> HIDE DEF c
<1>8. c.s.picks <= c.s.iteration_counter + 1
  BY <1>3, <1>5, <1>6 DEF SessionStates
<1>9. StepOK(s, w) BY <1>5, <1>6, <1>7, <1>8, ClearedStep
<1>10. StepOK(s, EndRow(w)) BY <1>9, EndRowOK
<1> QED BY <1>1, <1>10

LEMMA NavigationKeyOK ==
    ASSUME CopilotInv, NEW s \in Sessions, NavigationKey(s)
    PROVE  \E r : StepOK(s, r) /\ Become(s, r)
<1>1. PICK last \in {session[s].last_commit, NoCommit} :
         Become(s, [Now(s) EXCEPT !.s.last_action = "kUnspecified",
                                  !.s.last_commit = last])
  BY DEF NavigationKey
<1> DEFINE r == [Now(s) EXCEPT !.s.last_action = "kUnspecified",
                               !.s.last_commit = last]
<1>2. session[s] \in SessionStates /\ engine \in Engines
  BY DEF CopilotInv, CopilotTypes
<1>3. last \in Commits
  BY <1>2 DEF SessionStates, NoCommit, Commits, CommitTypes, AnyText
<1>4. /\ r \in Moments
      /\ r.s.composition = session[s].composition
      /\ r.s.menu = session[s].menu /\ r.s.picks = session[s].picks
      /\ r.s.iteration_counter = session[s].iteration_counter
  BY <1>2, <1>3 DEF Now, Moments, SessionStates
<1>5. Become(s, r) BY <1>1
<1> HIDE DEF r
<1>6. Chained(session[s]) BY DEF CopilotInv
<1>7. StepOK(s, r) BY <1>4, <1>6 DEF StepOK, Shown, Chained
<1> QED BY <1>5, <1>7

LEMMA SpecialPressedOK ==
    ASSUME CopilotInv, NEW s \in Sessions
    PROVE  LET a == SpecialPressed(s)
           IN  /\ a \in Moments /\ a.s.last_action = "kSpecial"
               /\ a.s.iteration_counter = 0 /\ a.s.picks = 0
<1> DEFINE w == Pressed(s, "kSpecial")
<1>1. w \in Moments /\ w.s.last_action = "kSpecial" /\ w.s.picks = 0
  BY PressedOK DEF CopilotInv
<1>2. SpecialPressed(s) = Forget(w) BY DEF SpecialPressed
<1> HIDE DEF w
<1> QED BY <1>1, <1>2, ForgetOK DEF Alike

\* rime clears in the wake of a special key: nothing comes up.
LEMMA DeafClear ==
    ASSUME NEW s \in Sessions, NEW w \in Moments, Deaf(w),
           Below(w.s.iteration_counter)
    PROVE  StepOK(s, ContextClear(w, Fortune))
<1> DEFINE r == ContextClear(w, Fortune)
<1>1. /\ r \in Moments /\ r.s.composition = "empty"
      /\ Below(r.s.iteration_counter)
  BY FortuneOK, ContextClearOK
<1> HIDE DEF r
<1>2. StepOK(s, r) BY <1>1, NothingShown
<1> QED BY <1>2 DEF r

LEMMA PunctKeyOK ==
    ASSUME CopilotInv, NEW s \in Sessions, PunctKey(s)
    PROVE  \E r : StepOK(s, r) /\ Become(s, r)
<1> DEFINE p == SpecialPressed(s)
<1>1. PICK punct \in Texts, text \in Texts :
         Become(s, ContextClear(
                     CommitText(CloseMenu(Add(p, punct), Fortune), text, "raw"),
                     Fortune))
  BY DEF PunctKey
<1>2. /\ p \in Moments /\ p.s.last_action = "kSpecial"
      /\ p.s.iteration_counter = 0
  BY SpecialPressedOK
<1> HIDE DEF p
<1> DEFINE b == Add(p, punct)
           a == CloseMenu(b, Fortune)
           c == CommitText(a, text, "raw")
<1>3. b \in Moments /\ b.s = p.s BY <1>2, AddOK DEF AnyText
<1> HIDE DEF b
<1>4. /\ a \in Moments /\ a.s.last_action = "kSpecial"
      /\ Below(a.s.iteration_counter)
  BY <1>2, <1>3, CloseMenuOK, FortuneOK DEF Deaf, Alike, Below
<1> HIDE DEF a
<1>a. text \in AnyText /\ "raw" \in CommitTypes
  BY DEF AnyText, CommitTypes
<1>5. c \in Moments /\ Deaf(c) /\ Below(c.s.iteration_counter)
  BY <1>4, <1>a, CommitTextOK DEF Deaf
<1> HIDE DEF c
<1>6. StepOK(s, ContextClear(c, Fortune)) BY <1>5, DeafClear
<1> QED BY <1>1, <1>6 DEF c, a, b

LEMMA SpecialKeyOK ==
    ASSUME CopilotInv, NEW s \in Sessions, SpecialKey(s)
    PROVE  \E r : StepOK(s, r) /\ Become(s, r)
<1> DEFINE p == SpecialPressed(s)
           a == CloseMenu(p, Fortune)
<1>1. PICK last \in {session[s].last_commit, NoCommit} \cup
                      [text : Texts, type : {"raw"}] :
         Become(s, ContextClear([a EXCEPT !.s.last_commit = last], Fortune))
  BY DEF SpecialKey
<1>2. last \in Commits
  BY DEF CopilotInv, CopilotTypes, SessionStates, NoCommit, Commits,
         CommitTypes, AnyText
<1>3. /\ p \in Moments /\ p.s.last_action = "kSpecial"
      /\ p.s.iteration_counter = 0
  BY SpecialPressedOK
<1> HIDE DEF p
<1>4. /\ a \in Moments /\ a.s.last_action = "kSpecial"
      /\ Below(a.s.iteration_counter)
  BY <1>3, CloseMenuOK, FortuneOK DEF Deaf, Alike, Below
<1> HIDE DEF a
<1> DEFINE c == [a EXCEPT !.s.last_commit = last]
<1>5. c \in Moments /\ Deaf(c) /\ Below(c.s.iteration_counter)
  BY <1>2, <1>4 DEF Deaf, Moments, SessionStates
<1> HIDE DEF c
<1>6. StepOK(s, ContextClear(c, Fortune)) BY <1>5, DeafClear
<1> QED BY <1>1, <1>6 DEF c

LEMMA OnSelectOK ==
    ASSUME NEW w \in Moments
    PROVE  LET r == OnSelect(w)
           IN  /\ r \in Moments /\ r.s.last_action = "kUnspecified"
               /\ r.s.composition = w.s.composition /\ r.s.picks = w.s.picks
               /\ r.s.iteration_counter = w.s.iteration_counter
BY DEF OnSelect, Moments, SessionStates

\* Of a selection Copilot hears before the commit, which is then predicted upon
\* like another key's, or after it, when nothing has come up.
LEMMA SpecialSelectKeyOK ==
    ASSUME CopilotInv, NEW s \in Sessions, SpecialSelectKey(s)
    PROVE  \E r : StepOK(s, r) /\ Become(s, r)
<1> DEFINE p == SpecialPressed(s)
<1>1. PICK a \in {p} \cup {Add(p, punct) : punct \in Texts},
           text \in Texts, type \in {"word", "raw"} :
         LET c == CommitText(CloseMenu(a, Fortune), text, type)
         IN  \/ /\ type = "word"
                /\ \E w \in Cleared(OnSelect(c)) : Become(s, w)
             \/ Become(s, OnSelect(ContextClear(c, Fortune)))
  BY DEF SpecialSelectKey
<1>2. /\ p \in Moments /\ p.s.last_action = "kSpecial"
      /\ p.s.iteration_counter = 0 /\ p.s.picks = 0
  BY SpecialPressedOK
<1>3. a \in Moments /\ a.s = p.s
  <2> HIDE DEF p
  <2>1. CASE a = p BY <1>2, <2>1
  <2>2. ASSUME NEW punct \in Texts, a = Add(p, punct)
        PROVE  a \in Moments /\ a.s = p.s
    BY <1>2, <2>2, AddOK DEF AnyText
  <2> QED BY <2>1, <2>2
<1> DEFINE b == CloseMenu(a, Fortune)
           c == CommitText(b, text, type)
           d == ContextClear(c, Fortune)
<1>4. /\ \/ \E w \in Cleared(OnSelect(c)) : Become(s, w)
         \/ Become(s, OnSelect(d))
  BY <1>1
<1> HIDE DEF p
<1>5. /\ b \in Moments /\ b.s.last_action = "kSpecial" /\ b.s.picks = 0
      /\ Below(b.s.iteration_counter)
  BY <1>2, <1>3, CloseMenuOK, FortuneOK DEF Deaf, Alike, Below
<1> HIDE DEF b
<1>6. text \in AnyText /\ type \in CommitTypes
  BY DEF AnyText, CommitTypes
<1>7. /\ c \in Moments /\ Deaf(c) /\ c.s.picks = 0
      /\ Below(c.s.iteration_counter)
  BY <1>5, <1>6, CommitTextOK DEF Deaf
<1> HIDE DEF c
<1>8. ASSUME NEW w \in Cleared(OnSelect(c)) PROVE StepOK(s, w)
  BY <1>7, OnSelectOK, ClearedStep
<1>9. StepOK(s, OnSelect(d))
  <2>1. /\ d \in Moments /\ d.s.composition = "empty"
        /\ Below(d.s.iteration_counter)
    BY <1>7, FortuneOK, ContextClearOK
  <2> HIDE DEF d
  <2>2. /\ OnSelect(d) \in Moments /\ OnSelect(d).s.composition = "empty"
        /\ Below(OnSelect(d).s.iteration_counter)
    BY <2>1, OnSelectOK
  <2> QED BY <2>2, NothingShown
<1> HIDE DEF d
<1> QED BY <1>4, <1>8, <1>9

LEMMA SelectCharacterOK ==
    ASSUME CopilotInv, NEW s \in Sessions, SelectCharacter(s)
    PROVE  \E r : StepOK(s, r) /\ Become(s, r)
<1> DEFINE v == Pressed(s, "kUnspecified")
<1>1. PICK text \in Texts, o \in Fortunes :
         Become(s, CopilotAndUpdate(
                     ContextClear(CommitText(v, text, "raw"), o), text, o))
  BY DEF SelectCharacter
<1>2. /\ v \in Moments /\ v.s.picks = 0 /\ v.s.last_action = "kUnspecified"
      /\ v.s.copilot = session[s].copilot
      /\ v.s.iteration_counter = session[s].iteration_counter
  BY PressedOK DEF CopilotInv
<1> HIDE DEF v
<1> DEFINE c == CommitText(v, text, "raw")
           b == ContextClear(c, o)
           r == CopilotAndUpdate(b, text, o)
<1>3. text \in AnyText /\ "raw" \in CommitTypes BY DEF AnyText, CommitTypes
<1>4. /\ c \in Moments /\ c.s.picks = 0 /\ c.s.last_action = "kUnspecified"
      /\ c.s.copilot = session[s].copilot
      /\ c.s.last_commit.text = text /\ c.s.last_commit.type = "raw"
      /\ c.s.iteration_counter = session[s].iteration_counter
  BY <1>2, <1>3, CommitTextOK
<1>5. Become(s, r) BY <1>1
<1> HIDE DEF c
<1>6. /\ b \in Moments /\ Alike(b, c) /\ b.s.composition = "empty"
      /\ Below(b.s.iteration_counter)
  BY <1>4, ContextClearOK DEF CopilotInv, Chained
<1>7. session[s].copilot => LastText(b) = text
  BY <1>4, RawIsAdded DEF Deaf
<1> HIDE DEF b
<1>8. /\ r \in Moments /\ Alike(r, b)
      /\ r.s.iteration_counter = b.s.iteration_counter
      /\ SameMenu(r, b) \/ (LastText(b) = text => MenuFor(r, text))
  BY <1>3, <1>6, CopilotAndUpdateOK
<1> HIDE DEF r
<1>9. Chained(r.s)
  BY <1>4, <1>6, <1>8 DEF Chained, Alike, Moments, SessionStates
<1>10. Shown(s, r)
  BY <1>4, <1>6, <1>7, <1>8 DEF Shown, Alike, SameMenu
<1>11. StepOK(s, r) BY <1>8, <1>9, <1>10 DEF StepOK
<1> QED BY <1>5, <1>11

LEMMA ClearCompositionOK ==
    ASSUME CopilotInv, NEW s \in Sessions, ClearComposition(s)
    PROVE  \E r : StepOK(s, r) /\ Become(s, r)
<1> DEFINE v == [Now(s) EXCEPT !.s.picks = 0]
<1>1. PICK w \in Cleared(v) : Become(s, w) BY DEF ClearComposition
<1>2. /\ v \in Moments /\ v.s.picks = 0
      /\ v.s.iteration_counter = session[s].iteration_counter
  BY DEF CopilotInv, CopilotTypes, Now, Moments, SessionStates
<1> HIDE DEF v
<1>3. Below(v.s.iteration_counter) BY <1>2 DEF CopilotInv, Chained
<1>4. StepOK(s, w) BY <1>2, <1>3, ClearedStep
<1> QED BY <1>1, <1>4

LEMMA ToggleSwitchOK ==
    ASSUME CopilotInv, NEW s \in Sessions, ToggleSwitch(s)
    PROVE  \E r : StepOK(s, r) /\ Become(s, r)
<1> DEFINE b == ~session[s].copilot
           r == [Now(s) EXCEPT !.s.copilot = b]
<1>1. r.s.composition = "empty" /\ Become(s, r)
  BY DEF ToggleSwitch, Shows, Now, CopilotInv, CopilotTypes, SessionStates
<1>2. b \in BOOLEAN OBVIOUS
<1> HIDE DEF b
<1>3. /\ r \in Moments
      /\ r.s.iteration_counter = session[s].iteration_counter
  BY <1>2 DEF CopilotInv, CopilotTypes, Now, Moments, SessionStates
<1> HIDE DEF r
<1>4. Below(r.s.iteration_counter) BY <1>3 DEF CopilotInv, Chained
<1>5. StepOK(s, r) BY <1>1, <1>3, <1>4, NothingShown
<1> QED BY <1>1, <1>5

-----------------------------------------------------------------------------
(***************************************************************************)
(* The invariant, and what it gives                                        *)
(***************************************************************************)
\* Whichever the key, its session becomes a moment that is in order.
LEMMA NextInOrder ==
    ASSUME CopilotInv, CopilotNext
    PROVE  \E s \in Sessions : \E r : StepOK(s, r) /\ Become(s, r)
<1>1. PICK s \in Sessions :
        \/ BackSpaceKey(s) \/ LetterKey(s) \/ PlainKey(s) \/ CommitKey(s)
        \/ SpacerCommitKey(s) \/ PickPrediction(s) \/ NavigationKey(s)
        \/ SpecialKey(s) \/ PunctKey(s) \/ SpecialSelectKey(s)
        \/ SelectCharacter(s) \/ ClearComposition(s) \/ ToggleSwitch(s)
  BY DEF CopilotNext
<1>2. \E r : StepOK(s, r) /\ Become(s, r)
  <2>1. CASE BackSpaceKey(s) BY <2>1, BackSpaceKeyOK
  <2>2. CASE LetterKey(s) BY <2>2, LetterKeyOK
  <2>3. CASE PlainKey(s) BY <2>3, PlainKeyOK
  <2>4. CASE CommitKey(s) BY <2>4, CommitKeyOK
  <2>5. CASE SpacerCommitKey(s) BY <2>5, CommitKeyOK
  <2>6. CASE PickPrediction(s) BY <2>6, PickPredictionOK
  <2>7. CASE NavigationKey(s) BY <2>7, NavigationKeyOK
  <2>8. CASE SpecialKey(s) BY <2>8, SpecialKeyOK
  <2>9. CASE PunctKey(s) BY <2>9, PunctKeyOK
  <2>10. CASE SpecialSelectKey(s) BY <2>10, SpecialSelectKeyOK
  <2>11. CASE SelectCharacter(s) BY <2>11, SelectCharacterOK
  <2>12. CASE ClearComposition(s) BY <2>12, ClearCompositionOK
  <2>13. CASE ToggleSwitch(s) BY <2>13, ToggleSwitchOK
  <2> QED BY <1>1, <2>1, <2>2, <2>3, <2>4, <2>5, <2>6, <2>7, <2>8, <2>9,
             <2>10, <2>11, <2>12, <2>13
<1> QED BY <1>2

LEMMA InitInOrder == CopilotInit => CopilotInv
<1> SUFFICES ASSUME CopilotInit PROVE CopilotInv OBVIOUS
<1>1. NoMenu \in Menus BY DEF NoMenu, Menus, AnyText
<1>2. NoCommit \in Commits BY DEF NoCommit, Commits, CommitTypes, AnyText
<1>3. NoHistory \in [last : AnyText, size : 0..3] BY DEF NoHistory, AnyText
<1>4. /\ NewSession \in SessionStates /\ NewSession.composition = "empty"
      /\ NewSession.iteration_counter = 0
  BY <1>1, <1>2 DEF NewSession, SessionStates
<1>5. NewEngine \in Engines BY <1>3 DEF NewEngine, Engines, AnyText
<1>6. CopilotTypes BY <1>4, <1>5 DEF CopilotInit, CopilotTypes
<1>7. ASSUME NEW s \in Sessions PROVE Chained(session[s])
  <2>1. session[s] = NewSession BY DEF CopilotInit
  <2> QED BY <1>4, <2>1 DEF Chained, Below
<1> QED BY <1>6, <1>7 DEF CopilotInv

LEMMA NextKeepsOrder ==
    ASSUME CopilotInv, [CopilotNext]_copilotVars
    PROVE  CopilotInv'
<1>1. CASE CopilotNext
  <2>1. PICK s \in Sessions : \E r : StepOK(s, r) /\ Become(s, r)
    BY <1>1, NextInOrder
  <2>2. PICK r : StepOK(s, r) /\ Become(s, r) BY <2>1
  <2>3. r.s \in SessionStates /\ r.e \in Engines /\ Chained(r.s)
    BY <2>2 DEF StepOK, Moments
  <2>4. session' = [session EXCEPT ![s] = r.s] /\ engine' = r.e
    BY <2>2 DEF Become
  <2>5. CopilotTypes' BY <2>3, <2>4 DEF CopilotInv, CopilotTypes
  <2>6. ASSUME NEW z \in Sessions PROVE Chained(session'[z])
    <3>1. session'[z] = r.s \/ session'[z] = session[z]
      BY <2>4 DEF CopilotInv, CopilotTypes
    <3> QED BY <2>3, <3>1 DEF CopilotInv
  <2> QED BY <2>5, <2>6 DEF CopilotInv, Chained
<1>2. CASE UNCHANGED copilotVars
  BY <1>2 DEF copilotVars, CopilotInv, CopilotTypes, Chained
<1> QED BY <1>1, <1>2

\* Of every session the types are right, and its chain is no longer than its
\* counter says.
THEOREM CopilotKeepsOrder == CopilotSpec => []CopilotInv
<1> QED BY InitInOrder, NextKeepsOrder, PTL DEF CopilotSpec

LEMMA InOrderIsBounded == CopilotInv => ChainIsBounded
<1> SUFFICES ASSUME CopilotInv, MaxIterations > 0,
                    NEW s \in Sessions, Shows(s, "copilot")
             PROVE  session[s].picks < MaxIterations
  BY DEF ChainIsBounded
<1>1. session[s] \in SessionStates BY DEF CopilotInv, CopilotTypes
<1>2. session[s].picks \in Nat /\ session[s].iteration_counter \in Nat
  BY <1>1 DEF SessionStates
<1>3. /\ session[s].picks <= session[s].iteration_counter
      /\ session[s].iteration_counter < MaxIterations
  BY DEF CopilotInv, Chained, Below, Shows
<1> QED BY <1>2, <1>3, CopilotAssumption

\* However keys and the sessions alternate, no more than max_iterations
\* predictions come in a row (copilot.cc:222).
THEOREM ChainsAreBounded == CopilotSpec => []ChainIsBounded
<1> QED BY CopilotKeepsOrder, InOrderIsBounded, PTL

\* A prediction that comes up is of the session whose key it is, which is not in
\* the wake of a deletion or a special key, and answers what it committed.
LEMMA PredictedInOrder ==
    ASSUME CopilotInv, [CopilotNext]_copilotVars,
           NEW z \in Sessions, Predicted(z)
    PROVE  /\ session'[z].last_action = "kUnspecified"
           /\ session[z].copilot =>
                 /\ engine'.query = session'[z].last_commit.text
                 /\ session'[z].menu.db \in
                       {NoText, session'[z].last_commit.text}
<1>1. CASE CopilotNext
  <2>1. PICK s \in Sessions : \E r : StepOK(s, r) /\ Become(s, r)
    BY <1>1, NextInOrder
  <2>2. PICK r : StepOK(s, r) /\ Become(s, r) BY <2>1
  <2>3. session' = [session EXCEPT ![s] = r.s] /\ engine' = r.e
    BY <2>2 DEF Become
  <2>4. CASE z # s
    <3>1. session'[z] = session[z]
      BY <2>3, <2>4 DEF CopilotInv, CopilotTypes
    <3> QED BY <3>1 DEF Predicted
  <2>5. CASE z = s
    <3>1. session'[z] = r.s BY <2>3, <2>5 DEF CopilotInv, CopilotTypes
    <3>2. /\ r.s.last_action = "kUnspecified"
          /\ session[z].copilot => MenuFor(r, r.s.last_commit.text)
      BY <2>2, <2>5, <3>1 DEF StepOK, Shown, Predicted
    <3> QED BY <2>3, <3>1, <3>2 DEF MenuFor
  <2> QED BY <2>4, <2>5
<1>2. CASE UNCHANGED copilotVars
  BY <1>2 DEF copilotVars, Predicted
<1> QED BY <1>1, <1>2

\* A menu that appears answers what its own session committed last, although the
\* engine is shared (copilot.cc:219, :238; db_provider.h:58).
THEOREM MenusAnswerTheirCommit == CopilotSpec => MenuAnswersLatestCommit
<1>1. ASSUME CopilotInv, [CopilotNext]_copilotVars
      PROVE  [\A s \in Sessions : Predicted(s) /\ session[s].copilot =>
                LET text == session'[s].last_commit.text
                IN  /\ engine'.query = text
                    /\ session'[s].menu.db \in {NoText, text}]_copilotVars
  BY <1>1, PredictedInOrder
<1> QED BY <1>1, CopilotKeepsOrder, PTL
        DEF CopilotSpec, MenuAnswersLatestCommit

\* Nothing is predicted in the wake of a deletion or a special key
\* (copilot.cc:202, :205).
THEOREM DeletionIsQuiet == CopilotSpec => DeletePredictsNothing
<1>1. ASSUME CopilotInv, [CopilotNext]_copilotVars
      PROVE  [\A s \in Sessions :
                session'[s].last_action \in {"kDelete", "kSpecial"}
                => ~Predicted(s)]_copilotVars
  BY <1>1, PredictedInOrder
<1> QED BY <1>1, CopilotKeepsOrder, PTL
        DEF CopilotSpec, DeletePredictsNothing
=============================================================================
