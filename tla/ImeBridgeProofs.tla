-------------------------- MODULE ImeBridgeProofs --------------------------
(***************************************************************************)
(* Theorems of the bridge, for any clients, sessions, texts and bounds.    *)
(*                                                                         *)
(* Of ImeBridge: its type invariant, the agreement of base and depth, the  *)
(* stability of the initial mode, and that it implements AsciiRequests:    *)
(* the initial state maps to an initial state, and every step to a step or *)
(* a stutter.  The invariant is needed there where the code decides by a   *)
(* flag and the requests by the nesting.                                   *)
(*                                                                         *)
(* Of ImeBridgeContext and ImeBridgeHistory: all is about what is queued.  *)
(* An entry whose text its editor no longer stands by has its erasure      *)
(* queued.  An entry that was dismissed is gone or its erasure is queued,  *)
(* and no set is queued behind that.  An action that is applied moves from *)
(* the queue into the depth, and what they make together stays.            *)
(***************************************************************************)
EXTENDS ImeBridgeRefinement, ImeBridgeContext, ImeBridgeHistory, DataInduction,
        SequenceTheorems, TLAPS

\* BaseIffDepth, for one entry.
Sound(st) ==
    /\ st.has_base <=> st.depth > 0
    /\ st.has_base => st.has_initial

IInv == TypeOK /\ BaseIffDepth

-----------------------------------------------------------------------------
\* A new entry has a type and no cycle.
LEMMA NewClientStateOK ==
    NewClientState \in ClientState /\ Sound(NewClientState)
BY DEF NewClientState, ClientState, Sound

\* A set keeps the type of an entry, and the base it saves is there with the
\* depth it counts.
LEMMA AfterSetOK ==
    ASSUME NEW st \in ClientState, NEW stack \in BOOLEAN, NEW now \in BOOLEAN
    PROVE  /\ AfterSet(st, stack, now) \in ClientState
           /\ Sound(st) => Sound(AfterSet(st, stack, now))
<1> DEFINE new     == AfterSet(st, stack, now)
           opens   == stack /\ st.depth = 0
           init    == IF st.has_initial THEN st.initial_state ELSE now
           hasbase == IF opens THEN TRUE ELSE st.has_base
           base    == IF opens THEN now ELSE st.base
           deeper  == IF stack THEN st.depth + 1 ELSE st.depth
<1>1. /\ st.depth \in Nat /\ st.has_base \in BOOLEAN /\ st.base \in BOOLEAN
      /\ st.initial_state \in BOOLEAN
  BY DEF ClientState
<1>a. init \in BOOLEAN /\ hasbase \in BOOLEAN /\ base \in BOOLEAN
  BY <1>1, Zenon
<1>b. deeper \in Nat BY <1>1
<1>2. new = [st EXCEPT !.has_initial = TRUE, !.initial_state = init,
                       !.has_base = hasbase, !.base = base, !.depth = deeper]
  BY DEF AfterSet
<1>3. /\ new \in ClientState
      /\ new.has_initial = TRUE /\ new.has_base = hasbase /\ new.depth = deeper
  <2> HIDE DEF new, init, hasbase, base, deeper
  <2> QED BY <1>1, <1>a, <1>b, <1>2 DEF ClientState
<1>4. ASSUME Sound(st) PROVE Sound(new)
  <2>1. CASE opens
    <3>1. hasbase = TRUE /\ deeper = 1 BY <2>1
    <3> HIDE DEF new
    <3> QED BY <1>3, <3>1 DEF Sound
  <2>2. CASE ~opens
    <3>1. hasbase = st.has_base BY <2>2
    <3>2. deeper > 0 <=> st.depth > 0 BY <1>1, <2>2
    <3> HIDE DEF new, hasbase, deeper
    <3> QED BY <1>3, <1>4, <3>1, <3>2 DEF Sound
  <2> QED BY <2>1, <2>2
<1> QED BY <1>3, <1>4

\* A restore that applies keeps the type of an entry, and drops the base as it
\* reaches depth 0.
LEMMA AfterRestoreOK ==
    ASSUME NEW st \in ClientState, st.depth > 0
    PROVE  /\ AfterRestore(st) \in ClientState
           /\ Sound(st) => Sound(AfterRestore(st))
<1> DEFINE new     == AfterRestore(st)
           hasbase == IF ClosesCycle(st) THEN FALSE ELSE st.has_base
<1>1. st.depth \in Nat /\ st.depth - 1 \in Nat /\ st.has_base \in BOOLEAN
  BY DEF ClientState
<1>a. hasbase \in BOOLEAN BY <1>1
<1>2. new = [st EXCEPT !.depth = st.depth - 1, !.has_base = hasbase]
  BY DEF AfterRestore
<1>3. /\ new \in ClientState
      /\ new.has_initial = st.has_initial /\ new.has_base = hasbase
      /\ new.depth = st.depth - 1
  <2> HIDE DEF new, hasbase
  <2> QED BY <1>1, <1>a, <1>2 DEF ClientState
<1>4. ASSUME Sound(st) PROVE Sound(new)
  <2>1. st.has_base /\ st.has_initial BY <1>4 DEF Sound
  <2>2. CASE st.depth = 1
    <3>1. hasbase = FALSE BY <2>1, <2>2 DEF ClosesCycle
    <3> HIDE DEF new, hasbase
    <3> QED BY <1>3, <2>2, <3>1 DEF Sound
  <2>3. CASE st.depth # 1
    <3>1. hasbase = st.has_base BY <2>3 DEF ClosesCycle
    <3>2. st.depth - 1 > 0 BY <1>1, <2>3
    <3> HIDE DEF new, hasbase
    <3> QED BY <1>3, <2>1, <3>1, <3>2 DEF Sound
  <2> QED BY <2>2, <2>3
<1> QED BY <1>3, <1>4

\* The entry a handler finds or makes.
LEMMA StateOfOK ==
    ASSUME IInv, NEW c \in Clients
    PROVE  StateOf(c) \in ClientState /\ Sound(StateOf(c))
<1>1. CASE Known(c)
  BY <1>1 DEF IInv, TypeOK, BaseIffDepth, StateOf, Known, Sound
<1>2. CASE ~Known(c)
  BY <1>2, NewClientStateOK DEF StateOf
<1> QED BY <1>1, <1>2

\* A step that changes one entry into a sound one keeps all of them sound.
LEMMA EntryChanged ==
    ASSUME IInv, NEW c \in Clients, NEW st \in ClientState \cup {NoState},
           st # NoState => Sound(st),
           client_states' = [client_states EXCEPT ![c] = st]
    PROVE  /\ client_states' \in [Clients -> ClientState \cup {NoState}]
           /\ BaseIffDepth'
BY DEF IInv, TypeOK, BaseIffDepth, Sound, Known

\* Whatever is pushed is an action of its client, and queues stay queues.
LEMMA PushOK ==
    ASSUME IInv, NEW a \in PendingAction, Push(a)
    PROVE  pending_actions' \in Seq(PendingAction)
BY DEF IInv, TypeOK, Push

LEMMA PlainActionOK ==
    ASSUME NEW type \in ActionTypes, NEW c \in Clients
    PROVE  /\ PlainAction(type, c) \in PendingAction
           /\ \A ascii, stack \in BOOLEAN :
                [PlainAction(type, c) EXCEPT !.ascii = ascii, !.stack = stack]
                  \in PendingAction
           /\ \A restore \in BOOLEAN :
                [PlainAction(type, c) EXCEPT !.restore = restore] \in PendingAction
BY DEF PlainAction, PendingAction

\* The head of a batch is an action, and its session's mode a Boolean.
LEMMA ApplyingOK ==
    ASSUME IInv, NEW type, Applying(type)
    PROVE  /\ Head(batch) \in PendingAction
           /\ batch' \in Seq(PendingAction)
           /\ current \in Sessions
           /\ ascii_mode[current] \in BOOLEAN
           /\ UNCHANGED <<active_client, pending_actions, current>>
BY DEF IInv, TypeOK, Applying

-----------------------------------------------------------------------------
\* Every message keeps the invariant.
LEMMA MessageOK ==
    ASSUME IInv, NEW c \in Clients, ProcessMessage(c)
    PROVE  IInv'
<1>1. ASSUME NEW ascii \in BOOLEAN, NEW stack \in BOOLEAN,
             HandleSet(c, ascii, stack)
      PROVE  IInv'
  <2>1. pending_actions' \in Seq(PendingAction)
    BY <1>1, PlainActionOK, PushOK DEF HandleSet, ActionTypes
  <2> QED BY <1>1, <2>1, StateOfOK, EntryChanged DEF HandleSet, IInv, TypeOK
<1>2. CASE HandleRestore(c)
  <2>1. pending_actions' \in Seq(PendingAction)
    BY <1>2, PlainActionOK, PushOK DEF HandleRestore, ActionTypes, IInv, TypeOK
  <2> QED BY <1>2, <2>1 DEF HandleRestore, IInv, TypeOK, BaseIffDepth, Known
<1>3. ASSUME NEW restore \in BOOLEAN, HandleReset(c, restore)
      PROVE  IInv'
  <2>1. pending_actions' \in Seq(PendingAction)
    BY <1>3, PlainActionOK, PushOK DEF HandleReset, ActionTypes
  <2> QED BY <1>3, <2>1 DEF HandleReset, IInv, TypeOK, BaseIffDepth, Known
<1>4. CASE HandleUnregister(c)
  <2>1. pending_actions' \in Seq(PendingAction)
    BY <1>4, PlainActionOK, PushOK DEF HandleUnregister, ActionTypes
  <2> QED BY <1>4, <2>1 DEF HandleUnregister, IInv, TypeOK, BaseIffDepth, Known
<1>5. ASSUME NEW text \in Texts, HandleContext(c, text)
      PROVE  IInv'
  <2> DEFINE st == [StateOf(c) EXCEPT !.context = text]
  <2>1. st \in ClientState /\ Sound(st)
    BY StateOfOK DEF ClientState, Sound
  <2> QED BY <1>5, <2>1, EntryChanged DEF HandleContext, IInv, TypeOK
<1>6. CASE HandleClearContext(c)
  <2>1. CASE Known(c)
    <3> DEFINE st == [client_states[c] EXCEPT !.context = NoText]
    <3>1. st \in ClientState /\ Sound(st)
      BY <2>1, StateOfOK DEF StateOf, ClientState, Sound
    <3>2. client_states' = [client_states EXCEPT ![c] = st]
      BY <1>6, <2>1 DEF HandleClearContext
    <3> QED BY <1>6, <2>1, <3>1, <3>2, EntryChanged
            DEF HandleClearContext, IInv, TypeOK
  <2>2. CASE ~Known(c)
    BY <1>6, <2>2 DEF HandleClearContext, IInv, TypeOK, BaseIffDepth, Known
  <2> QED BY <2>1, <2>2
<1>7. CASE HandleActivate(c)
  BY <1>7, StateOfOK, EntryChanged DEF HandleActivate, IInv, TypeOK
<1>8. CASE HandleDeactivate(c)
  BY <1>8 DEF HandleDeactivate, IInv, TypeOK, BaseIffDepth, Known
<1> QED
  BY <1>1, <1>2, <1>3, <1>4, <1>5, <1>6, <1>7, <1>8 DEF ProcessMessage

\* Every step of the rime thread in Process keeps the invariant.
LEMMA RimeThreadOK ==
    ASSUME IInv, RimeThread
    PROVE  IInv'
<1> DEFINE a == Head(batch)
           c == a.client
<1> USE NamesAssumption
<1>1. CASE ApplySet
  <2>1. Applying("kSet") BY <1>1 DEF ApplySet
  <2>2. a \in PendingAction BY <2>1, ApplyingOK
  <2>3. c \in Clients /\ a.stack \in BOOLEAN /\ a.ascii \in BOOLEAN
    BY <2>2 DEF PendingAction
  <2> DEFINE st == AfterSet(StateOf(c), a.stack, ascii_mode[current])
  <2>4. st \in ClientState /\ Sound(st)
    BY <2>1, <2>3, StateOfOK, AfterSetOK, ApplyingOK
  <2>5. client_states' = [client_states EXCEPT ![c] = st]
    BY <1>1 DEF ApplySet
  <2>6. /\ client_states' \in [Clients -> ClientState \cup {NoState}]
        /\ BaseIffDepth'
    <3> HIDE DEF st, c
    <3> QED BY <2>3, <2>4, <2>5, EntryChanged
  <2>7. ascii_mode' \in [Sessions -> BOOLEAN]
    BY <1>1, <2>3 DEF ApplySet, SetOption, IInv, TypeOK
  <2> QED BY <2>1, <2>6, <2>7, ApplyingOK DEF IInv, TypeOK
<1>2. CASE ApplyRestore
  <2>1. Applying("kRestore") BY <1>2 DEF ApplyRestore
  <2>2. c \in Clients BY <2>1, ApplyingOK DEF PendingAction
  <2>3. CASE RestoreApplies(c)
    <3> DEFINE st == AfterRestore(client_states[c])
    <3>1. /\ client_states[c] \in ClientState /\ client_states[c].depth > 0
          /\ Sound(client_states[c])
      BY <2>2, <2>3, StateOfOK DEF RestoreApplies, StateOf
    <3>2. st \in ClientState /\ Sound(st) BY <3>1, AfterRestoreOK
    <3>3. client_states' = [client_states EXCEPT ![c] = st]
      BY <1>2, <2>3 DEF ApplyRestore
    <3>4. /\ client_states' \in [Clients -> ClientState \cup {NoState}]
          /\ BaseIffDepth'
      <4> HIDE DEF st, c
      <4> QED BY <2>2, <3>2, <3>3, EntryChanged
    <3>5. client_states[c].base \in BOOLEAN BY <3>1 DEF ClientState
    <3>6. ascii_mode' \in [Sessions -> BOOLEAN]
      BY <1>2, <2>3, <3>5 DEF ApplyRestore, SetOption, IInv, TypeOK
    <3> QED BY <2>1, <3>4, <3>6, ApplyingOK DEF IInv, TypeOK
  <2>4. CASE ~RestoreApplies(c)
    <3>1. UNCHANGED <<client_states, ascii_mode>>
      BY <1>2, <2>4 DEF ApplyRestore
    <3> QED BY <2>1, <3>1, ApplyingOK DEF IInv, TypeOK, BaseIffDepth, Known
  <2> QED BY <2>3, <2>4
<1>3. CASE ApplyReset
  <2>1. Applying("kReset") BY <1>3 DEF ApplyReset
  <2>2. c \in Clients BY <2>1, ApplyingOK DEF PendingAction
  <2>3. Erase(c) BY <1>3 DEF ApplyReset
  <2>4. /\ client_states' \in [Clients -> ClientState \cup {NoState}]
        /\ BaseIffDepth'
    <3> HIDE DEF c
    <3> QED BY <2>2, <2>3, EntryChanged DEF Erase
  <2>5. Known(c) => client_states[c].initial_state \in BOOLEAN
    BY <2>2 DEF IInv, TypeOK, Known, ClientState
  <2>6. ascii_mode' \in [Sessions -> BOOLEAN]
    BY <1>3, <2>5 DEF ApplyReset, SetOption, IInv, TypeOK
  <2> QED BY <2>1, <2>4, <2>6, ApplyingOK DEF IInv, TypeOK
<1>4. CASE ApplyUnregister
  <2>1. Applying("kUnregister") BY <1>4 DEF ApplyUnregister
  <2>2. c \in Clients BY <2>1, ApplyingOK DEF PendingAction
  <2>3. Erase(c) /\ UNCHANGED ascii_mode BY <1>4 DEF ApplyUnregister
  <2>4. /\ client_states' \in [Clients -> ClientState \cup {NoState}]
        /\ BaseIffDepth'
    <3> HIDE DEF c
    <3> QED BY <2>2, <2>3, EntryChanged DEF Erase
  <2> QED BY <2>1, <2>3, <2>4, ApplyingOK DEF IInv, TypeOK
<1>5. CASE FinishProcess
  BY <1>5 DEF FinishProcess, IInv, TypeOK, BaseIffDepth, Known
<1> QED BY <1>1, <1>2, <1>3, <1>4, <1>5 DEF RimeThread, ApplyAction

\* A key event and a toggle change no entry.
LEMMA SessionOK ==
    ASSUME IInv, NEW s \in Sessions, TakePendingActions(s) \/ UserToggle(s)
    PROVE  IInv'
<1>1. CASE TakePendingActions(s)
  BY <1>1 DEF TakePendingActions, IInv, TypeOK, BaseIffDepth, Known
<1>2. CASE UserToggle(s)
  BY <1>2, NamesAssumption DEF UserToggle, IInv, TypeOK, BaseIffDepth, Known
<1> QED BY <1>1, <1>2

LEMMA Inductive == IInv /\ [Next]_vars => IInv'
<1> SUFFICES ASSUME IInv, [Next]_vars PROVE IInv'
  OBVIOUS
<1>1. CASE UNCHANGED vars
  BY <1>1 DEF vars, IInv, TypeOK, BaseIffDepth, Known
<1> QED BY <1>1, MessageOK, RimeThreadOK, SessionOK DEF Next

LEMMA Initially == Init => IInv
BY DEF Init, IInv, TypeOK, BaseIffDepth, Known

LEMMA Invariance == Spec => []IInv
BY Initially, Inductive, PTL DEF Spec

-----------------------------------------------------------------------------
\* The state keeps its type: no depth falls below zero, and no action is
\* applied outside a Process.
THEOREM TypeCorrect == Spec => []TypeOK
BY Invariance, PTL DEF IInv

\* A cycle of sets is open exactly while its base is kept.
THEOREM BaseCorrect == Spec => []BaseIffDepth
BY Invariance, PTL DEF IInv
(***************************************************************************)
(* The two queues are one                                                  *)
(***************************************************************************)
\* Pushing on the shared queue appends to the actions to do.
LEMMA QueuePush ==
    ASSUME TypeOK, NEW a \in PendingAction, Push(a), UNCHANGED batch
    PROVE  Todo' = Append(Todo, a)
<1>1. batch \in Seq(PendingAction) /\ pending_actions \in Seq(PendingAction)
  BY DEF TypeOK
<1>2. pending_actions' = Append(pending_actions, a) BY DEF Push
<1> QED BY <1>1, <1>2 DEF Todo

\* Swapping the shared queue into an empty batch moves nothing.
LEMMA QueueTake ==
    ASSUME TypeOK, batch = <<>>, batch' = pending_actions,
           pending_actions' = <<>>
    PROVE  Todo' = Todo
<1>1. pending_actions \in Seq(PendingAction) BY DEF TypeOK
<1> QED BY <1>1 DEF Todo

\* Applying the head of the batch serves the head of the actions to do.
LEMMA QueueServe ==
    ASSUME TypeOK, NEW type, Applying(type)
    PROVE  /\ Todo # <<>>
           /\ Head(Todo) = Head(batch)
           /\ Todo' = Tail(Todo)
<1>1. /\ batch \in Seq(PendingAction) /\ pending_actions \in Seq(PendingAction)
      /\ batch # <<>> /\ batch' = Tail(batch)
      /\ pending_actions' = pending_actions
  BY DEF TypeOK, Applying
<1>2. /\ batch \o pending_actions # <<>>
      /\ Head(batch \o pending_actions) = Head(batch)
      /\ Tail(batch \o pending_actions) = Tail(batch) \o pending_actions
  BY <1>1
<1> QED BY <1>1, <1>2 DEF Todo

-----------------------------------------------------------------------------
KeepsInitial(old, new) ==
    old # NoState /\ old.has_initial /\ new # NoState
    => new.has_initial /\ new.initial_state = old.initial_state

AllKeepInitial ==
    \A c \in Clients :
        (/\ Known(c) /\ client_states[c].has_initial
         /\ client_states'[c] # NoState)
        => /\ client_states'[c].has_initial
           /\ client_states'[c].initial_state = client_states[c].initial_state

\* A step that changes one entry changes no other initial mode.
LEMMA EntryKeepsInitial ==
    ASSUME IInv, NEW c \in Clients, NEW st,
           client_states' = [client_states EXCEPT ![c] = st],
           KeepsInitial(client_states[c], st)
    PROVE  AllKeepInitial
BY DEF IInv, TypeOK, AllKeepInitial, KeepsInitial, Known

LEMMA UnchangedKeepsInitial ==
    UNCHANGED client_states => AllKeepInitial
BY DEF AllKeepInitial, Known

\* What the handlers and the steps of Process put in place of an entry.
LEMMA KeptByHandlers ==
    ASSUME IInv, NEW c \in Clients
    PROVE  /\ KeepsInitial(client_states[c], StateOf(c))
           /\ \A text : KeepsInitial(client_states[c],
                                    [StateOf(c) EXCEPT !.context = text])
           /\ KeepsInitial(client_states[c], NoState)
<1>1. StateOf(c) \in ClientState BY StateOfOK
<1>2. KeepsInitial(client_states[c], NoState) BY DEF KeepsInitial
<1>3. CASE ~Known(c) BY <1>2, <1>3 DEF KeepsInitial, Known
<1>4. CASE Known(c)
  <2>1. StateOf(c) = client_states[c] BY <1>4 DEF StateOf
  <2>2. \A text : /\ [StateOf(c) EXCEPT !.context = text].has_initial
                        = StateOf(c).has_initial
                  /\ [StateOf(c) EXCEPT !.context = text].initial_state
                        = StateOf(c).initial_state
    BY <1>1 DEF ClientState
  <2> QED BY <1>2, <2>1, <2>2 DEF KeepsInitial
<1> QED BY <1>3, <1>4

LEMMA KeptByApply ==
    ASSUME IInv, NEW c \in Clients, NEW stack, NEW now
    PROVE  /\ KeepsInitial(client_states[c], AfterSet(StateOf(c), stack, now))
           /\ Known(c) => KeepsInitial(client_states[c],
                                      AfterRestore(client_states[c]))
<1>1. StateOf(c) \in ClientState BY StateOfOK
<1>2. CASE ~Known(c) BY <1>2 DEF KeepsInitial, Known
<1>3. CASE Known(c)
  <2>1. StateOf(c) = client_states[c] BY <1>3 DEF StateOf
  <2>2. /\ AfterSet(StateOf(c), stack, now).has_initial
        /\ StateOf(c).has_initial
           => AfterSet(StateOf(c), stack, now).initial_state
                = StateOf(c).initial_state
    BY <1>1 DEF AfterSet, ClientState
  <2>3. /\ AfterRestore(StateOf(c)).has_initial = StateOf(c).has_initial
        /\ AfterRestore(StateOf(c)).initial_state = StateOf(c).initial_state
    BY <1>1 DEF AfterRestore, ClientState
  <2> QED BY <2>1, <2>2, <2>3 DEF KeepsInitial
<1> QED BY <1>2, <1>3

LEMMA InitialStep == IInv /\ [Next]_vars => [AllKeepInitial]_vars
<1> SUFFICES ASSUME IInv, Next PROVE AllKeepInitial
  OBVIOUS
<1>1. ASSUME NEW c \in Clients, ProcessMessage(c)
      PROVE  AllKeepInitial
  <2>1. ASSUME NEW ascii \in BOOLEAN, NEW stack \in BOOLEAN,
               HandleSet(c, ascii, stack)
        PROVE  AllKeepInitial
    BY <2>1, KeptByHandlers, EntryKeepsInitial DEF HandleSet
  <2>2. ASSUME NEW text \in Texts, HandleContext(c, text)
        PROVE  AllKeepInitial
    <3> DEFINE st == [StateOf(c) EXCEPT !.context = text]
    <3>1. KeepsInitial(client_states[c], st) BY KeptByHandlers
    <3>2. client_states' = [client_states EXCEPT ![c] = st]
      BY <2>2 DEF HandleContext
    <3> HIDE DEF st
    <3> QED BY <3>1, <3>2, EntryKeepsInitial
  <2>3. ASSUME HandleClearContext(c), Known(c)
        PROVE  AllKeepInitial
    <3> DEFINE st == [StateOf(c) EXCEPT !.context = NoText]
    <3>1. KeepsInitial(client_states[c], st) BY KeptByHandlers
    <3>2. client_states' = [client_states EXCEPT ![c] = st]
      BY <2>3 DEF HandleClearContext, StateOf
    <3> HIDE DEF st
    <3> QED BY <3>1, <3>2, EntryKeepsInitial
  <2>4. CASE HandleActivate(c)
    BY <2>4, KeptByHandlers, EntryKeepsInitial DEF HandleActivate
  <2>5. CASE \/ HandleRestore(c) \/ \E restore \in BOOLEAN : HandleReset(c, restore)
             \/ HandleUnregister(c) \/ HandleDeactivate(c)
             \/ HandleClearContext(c) /\ ~Known(c)
    <3>1. UNCHANGED client_states
      BY <2>5 DEF HandleRestore, HandleReset, HandleUnregister,
                  HandleDeactivate, HandleClearContext
    <3> QED BY <3>1, UnchangedKeepsInitial
  <2> QED BY <1>1, <2>1, <2>2, <2>3, <2>4, <2>5 DEF ProcessMessage
<1>2. ASSUME NEW s \in Sessions, TakePendingActions(s) \/ UserToggle(s)
      PROVE  AllKeepInitial
  BY <1>2, UnchangedKeepsInitial DEF TakePendingActions, UserToggle
<1>3. CASE RimeThread
  <2> DEFINE c == Head(batch).client
  <2>1. batch # <<>> => c \in Clients
    <3>1. batch # <<>> => Head(batch) \in PendingAction BY DEF IInv, TypeOK
    <3> QED BY <3>1 DEF PendingAction
  <2>2. CASE ApplySet
    <3>1. c \in Clients BY <2>1, <2>2 DEF ApplySet, Applying
    <3> DEFINE st == AfterSet(StateOf(c), Head(batch).stack, ascii_mode[current])
    <3>2. client_states' = [client_states EXCEPT ![c] = st]
      BY <2>2 DEF ApplySet
    <3>3. KeepsInitial(client_states[c], st) BY <3>1, KeptByApply
    <3> HIDE DEF c, st
    <3> QED BY <3>1, <3>2, <3>3, EntryKeepsInitial
  <2>3. ASSUME ApplyRestore, RestoreApplies(c)
        PROVE  AllKeepInitial
    <3>1. c \in Clients BY <2>1, <2>3 DEF ApplyRestore, Applying
    <3> DEFINE st == AfterRestore(client_states[c])
    <3>2. client_states' = [client_states EXCEPT ![c] = st]
      BY <2>3 DEF ApplyRestore
    <3>3. KeepsInitial(client_states[c], st)
      BY <2>3, <3>1, KeptByApply DEF RestoreApplies
    <3> HIDE DEF c, st
    <3> QED BY <3>1, <3>2, <3>3, EntryKeepsInitial
  <2>4. ASSUME ApplyRestore, ~RestoreApplies(c)
        PROVE  AllKeepInitial
    BY <2>4, UnchangedKeepsInitial DEF ApplyRestore
  <2>5. CASE ApplyReset \/ ApplyUnregister
    <3>1. c \in Clients BY <2>1, <2>5 DEF ApplyReset, ApplyUnregister, Applying
    <3>2. Erase(c) BY <2>5 DEF ApplyReset, ApplyUnregister
    <3> HIDE DEF c
    <3> QED BY <3>1, <3>2, KeptByHandlers, EntryKeepsInitial DEF Erase
  <2>6. CASE FinishProcess
    BY <2>6, UnchangedKeepsInitial DEF FinishProcess
  <2> QED BY <1>3, <2>2, <2>3, <2>4, <2>5, <2>6 DEF RimeThread, ApplyAction
<1> QED BY <1>1, <1>2, <1>3 DEF Next

\* The mode an editor found is stable while its entry exists.
THEOREM InitialStable == Spec => InitialStateStable
<1>1. IInv /\ [Next]_vars => [AllKeepInitial]_vars BY InitialStep
<1>2. Spec => [][AllKeepInitial]_vars BY <1>1, Invariance, PTL DEF Spec
<1> QED BY <1>2 DEF InitialStateStable, AllKeepInitial

-----------------------------------------------------------------------------
(***************************************************************************)
(* The entries, as the requests see them                                   *)
(***************************************************************************)
\* A step that changes one entry changes what the requests see of it alone.
LEMMA EntryMaps ==
    ASSUME TypeOK, NEW c \in Clients, NEW st,
           client_states' = [client_states EXCEPT ![c] = st]
    PROVE  /\ LevelOf' = [LevelOf EXCEPT ![c] = EntryLevel(st)]
           /\ BaseOf' = [BaseOf EXCEPT ![c] = EntryBase(st)]
           /\ InitialOf' = [InitialOf EXCEPT ![c] = EntryInitial(st)]
BY DEF TypeOK, LevelOf, BaseOf, InitialOf, EntryLevel, EntryBase, EntryInitial

Same(old, new) ==
    /\ EntryLevel(old) = EntryLevel(new)
    /\ EntryBase(old) = EntryBase(new)
    /\ EntryInitial(old) = EntryInitial(new)

LEMMA EntryStutters ==
    ASSUME TypeOK, NEW c \in Clients, NEW st,
           client_states' = [client_states EXCEPT ![c] = st],
           Same(client_states[c], st)
    PROVE  UNCHANGED <<LevelOf, BaseOf, InitialOf>>
BY EntryMaps DEF Same, LevelOf, BaseOf, InitialOf

LEMMA EntriesUnchanged ==
    UNCHANGED client_states => UNCHANGED <<LevelOf, BaseOf, InitialOf>>
BY DEF LevelOf, BaseOf, InitialOf

\* Making an entry, and changing its text, is invisible to the requests.
LEMMA MadeOrTouched ==
    ASSUME TypeOK, NEW c \in Clients
    PROVE  /\ Same(client_states[c], StateOf(c))
           /\ \A text \in Texts \cup {NoText} :
                Same(client_states[c], [StateOf(c) EXCEPT !.context = text])
<1>1. Same(client_states[c], StateOf(c))
  BY DEF Same, StateOf, Known, NewClientState, EntryLevel, EntryBase, EntryInitial
<1>2. StateOf(c) \in ClientState
  BY NewClientStateOK DEF StateOf, Known, TypeOK
<1>3. ASSUME NEW text \in Texts \cup {NoText}
      PROVE  Same(client_states[c], [StateOf(c) EXCEPT !.context = text])
  <2> DEFINE st  == StateOf(c)
             new == [st EXCEPT !.context = text]
  <2>1. /\ new.has_base = st.has_base /\ new.base = st.base
        /\ new.has_initial = st.has_initial
        /\ new.initial_state = st.initial_state
        /\ new.depth = st.depth
        /\ new \in ClientState
    BY <1>2 DEF ClientState
  <2>2. st # NoState /\ new # NoState BY <1>2, <2>1, NamesAssumption
  <2>3. Same(st, new)
    <3> HIDE DEF st, new
    <3> QED BY <2>1, <2>2 DEF Same, EntryLevel, EntryBase, EntryInitial
  <2> QED BY <1>1, <2>3 DEF Same
<1> QED BY <1>1, <1>3

(***************************************************************************)
(* The steps                                                               *)
(***************************************************************************)
\* A message that queues an action is a request; all others are invisible.
LEMMA PushAccepts ==
    ASSUME TypeOK, NEW a \in PendingAction, Push(a),
           UNCHANGED <<batch, ascii_mode>>,
           UNCHANGED <<LevelOf, BaseOf, InitialOf>>,
           a.type = "kRestore" => CycleOpen(a.client)
    PROVE  Abstract!Next
<1>1. Todo' = Append(Todo, a) BY QueuePush
<1>2. a.type = "kRestore" => LevelOf[a.client] > 0
  BY DEF CycleOpen, Known, LevelOf, EntryLevel, PendingAction
<1>3. Abstract!Accept(a) BY <1>1, <1>2 DEF Abstract!Accept
<1> QED BY <1>3 DEF Abstract!Next

Stutters == UNCHANGED <<Todo, LevelOf, BaseOf, InitialOf, ascii_mode>>

LEMMA PlainActionFields ==
    ASSUME NEW type, NEW c
    PROVE  /\ PlainAction(type, c).type = type
           /\ PlainAction(type, c).client = c
BY DEF PlainAction

LEMMA MessageMaps ==
    ASSUME TypeOK, NEW c \in Clients, ProcessMessage(c)
    PROVE  Abstract!Next \/ Stutters
<1>1. ASSUME NEW ascii \in BOOLEAN, NEW stack \in BOOLEAN,
             HandleSet(c, ascii, stack)
      PROVE  Abstract!Next
  <2> DEFINE a == [PlainAction("kSet", c) EXCEPT !.ascii = ascii, !.stack = stack]
  <2>1. UNCHANGED <<LevelOf, BaseOf, InitialOf>>
    BY <1>1, MadeOrTouched, EntryStutters DEF HandleSet
  <2>a. a \in PendingAction BY PlainActionOK DEF ActionTypes
  <2>b. a.type = "kSet" BY DEF PlainAction
  <2>2. a \in PendingAction /\ a.type = "kSet" BY <2>a, <2>b
  <2>3. Push(a) /\ UNCHANGED <<batch, ascii_mode>> BY <1>1 DEF HandleSet
  <2> HIDE DEF a
  <2> QED BY <2>1, <2>2, <2>3, PushAccepts
<1>2. CASE HandleRestore(c) /\ CycleOpen(c)
  <2> DEFINE a == PlainAction("kRestore", c)
  <2>1. UNCHANGED <<LevelOf, BaseOf, InitialOf>>
    BY <1>2, EntriesUnchanged DEF HandleRestore
  <2>2. a \in PendingAction /\ a.client = c
    BY PlainActionOK, PlainActionFields DEF ActionTypes
  <2>3. Push(a) /\ UNCHANGED <<batch, ascii_mode>> BY <1>2 DEF HandleRestore
  <2> HIDE DEF a
  <2> QED BY <1>2, <2>1, <2>2, <2>3, PushAccepts
<1>3. ASSUME NEW restore \in BOOLEAN, HandleReset(c, restore)
      PROVE  Abstract!Next
  <2> DEFINE a == [PlainAction("kReset", c) EXCEPT !.restore = restore]
  <2>1. UNCHANGED <<LevelOf, BaseOf, InitialOf>>
    BY <1>3, EntriesUnchanged DEF HandleReset
  <2>a. a \in PendingAction BY PlainActionOK DEF ActionTypes
  <2>b. a.type = "kReset" BY DEF PlainAction
  <2>2. a \in PendingAction /\ a.type = "kReset" BY <2>a, <2>b
  <2>3. Push(a) /\ UNCHANGED <<batch, ascii_mode>> BY <1>3 DEF HandleReset
  <2> HIDE DEF a
  <2> QED BY <2>1, <2>2, <2>3, PushAccepts
<1>4. CASE HandleUnregister(c)
  <2> DEFINE a == PlainAction("kUnregister", c)
  <2>1. UNCHANGED <<LevelOf, BaseOf, InitialOf>>
    BY <1>4, EntriesUnchanged DEF HandleUnregister
  <2>2. a \in PendingAction /\ a.type = "kUnregister"
    BY PlainActionOK, PlainActionFields DEF ActionTypes
  <2>3. Push(a) /\ UNCHANGED <<batch, ascii_mode>> BY <1>4 DEF HandleUnregister
  <2> HIDE DEF a
  <2> QED BY <2>1, <2>2, <2>3, PushAccepts
<1>5. ASSUME NEW text \in Texts, HandleContext(c, text)
      PROVE  Stutters
  <2> DEFINE st == [StateOf(c) EXCEPT !.context = text]
  <2>1. Same(client_states[c], st) BY MadeOrTouched
  <2>2. client_states' = [client_states EXCEPT ![c] = st]
    BY <1>5 DEF HandleContext
  <2>3. UNCHANGED <<LevelOf, BaseOf, InitialOf>>
    <3> HIDE DEF st
    <3> QED BY <2>1, <2>2, EntryStutters
  <2> QED BY <1>5, <2>3 DEF HandleContext, Stutters, Todo
<1>6. CASE HandleClearContext(c) /\ Known(c)
  <2> DEFINE st == [StateOf(c) EXCEPT !.context = NoText]
  <2>1. Same(client_states[c], st) BY MadeOrTouched
  <2>2. client_states' = [client_states EXCEPT ![c] = st]
    BY <1>6 DEF HandleClearContext, StateOf
  <2>3. UNCHANGED <<LevelOf, BaseOf, InitialOf>>
    <3> HIDE DEF st
    <3> QED BY <2>1, <2>2, EntryStutters
  <2> QED BY <1>6, <2>3 DEF HandleClearContext, Stutters, Todo
<1>7. CASE HandleActivate(c)
  <2>1. UNCHANGED <<LevelOf, BaseOf, InitialOf>>
    BY <1>7, MadeOrTouched, EntryStutters DEF HandleActivate
  <2> QED BY <1>7, <2>1 DEF HandleActivate, Stutters, Todo
<1>8. CASE \/ HandleDeactivate(c)
           \/ HandleClearContext(c) /\ ~Known(c)
           \/ HandleRestore(c) /\ ~CycleOpen(c)
  <2>1. UNCHANGED <<client_states, batch, pending_actions, ascii_mode>>
    BY <1>8 DEF HandleDeactivate, HandleClearContext, HandleRestore
  <2> QED BY <2>1, EntriesUnchanged DEF Stutters, Todo
<1> QED
  BY <1>1, <1>2, <1>3, <1>4, <1>5, <1>6, <1>7, <1>8 DEF ProcessMessage

\* What a set and a restore leave of an entry, in the terms of the requests.
\* Here the flags must agree with the depth: BaseIffDepth is used.
LEMMA AfterSetMaps ==
    ASSUME IInv, NEW c \in Clients, NEW stack \in BOOLEAN, NEW now \in BOOLEAN
    PROVE  LET old == client_states[c]
               new == AfterSet(StateOf(c), stack, now)
           IN  /\ EntryLevel(new) = IF stack THEN EntryLevel(old) + 1
                                             ELSE EntryLevel(old)
               /\ EntryBase(new) = IF stack /\ EntryBase(old) = Unset
                                   THEN now ELSE EntryBase(old)
               /\ EntryInitial(new) = IF EntryInitial(old) = Unset
                                      THEN now ELSE EntryInitial(old)
<1> DEFINE old == client_states[c]
           st  == StateOf(c)
           new == AfterSet(st, stack, now)
           opens == stack /\ st.depth = 0
<1>1. /\ st \in ClientState /\ Sound(st)
      /\ st # NoState /\ st.depth \in Nat
      /\ st.has_base \in BOOLEAN /\ st.base \in BOOLEAN
      /\ st.has_initial \in BOOLEAN /\ st.initial_state \in BOOLEAN
  <2>1. st \in ClientState /\ Sound(st) BY StateOfOK
  <2> QED BY <2>1, NamesAssumption DEF ClientState
<1>2. /\ EntryLevel(old) = EntryLevel(st) /\ EntryBase(old) = EntryBase(st)
      /\ EntryInitial(old) = EntryInitial(st)
  BY MadeOrTouched DEF Same, IInv
<1>3. new \in ClientState /\ new # NoState
  BY <1>1, AfterSetOK, NamesAssumption
<1>4. new.depth = IF stack THEN st.depth + 1 ELSE st.depth
  BY <1>1 DEF AfterSet, ClientState
<1>5. EntryLevel(new) = IF stack THEN EntryLevel(st) + 1 ELSE EntryLevel(st)
  <2> HIDE DEF new, st
  <2> QED BY <1>1, <1>3, <1>4 DEF EntryLevel
<1>6. EntryInitial(new) = IF EntryInitial(st) = Unset
                          THEN now ELSE EntryInitial(st)
  <2>1. /\ new.has_initial
        /\ st.has_initial => new.initial_state = st.initial_state
        /\ ~st.has_initial => new.initial_state = now
    BY <1>1 DEF AfterSet, ClientState
  <2>2. st.has_initial => st.initial_state # Unset BY <1>1, UnsetAssumption
  <2> HIDE DEF new, st
  <2> QED BY <1>1, <1>3, <2>1, <2>2, Zenon DEF EntryInitial
<1>7. EntryBase(new) = IF stack /\ EntryBase(st) = Unset
                       THEN now ELSE EntryBase(st)
  <2>1. CASE opens
    <3>1. new.has_base /\ new.base = now
      BY <1>1, <2>1 DEF AfterSet, ClientState
    <3>2. stack /\ ~st.has_base BY <1>1, <2>1 DEF Sound
    <3> HIDE DEF new, st
    <3> QED BY <1>3, <3>1, <3>2 DEF EntryBase
  <2>2. CASE ~opens
    <3>1. new.has_base = st.has_base /\ new.base = st.base
      BY <1>1, <2>2 DEF AfterSet, ClientState
    <3>2. stack => st.has_base BY <1>1, <2>2 DEF Sound
    <3>3. EntryBase(new) = EntryBase(st)
      <4> HIDE DEF new, st
      <4> QED BY <1>1, <1>3, <3>1 DEF EntryBase
    <3>4. stack => EntryBase(st) # Unset
      <4> HIDE DEF new, st
      <4> QED BY <1>1, <3>2, UnsetAssumption DEF EntryBase
    <3> HIDE DEF new, st
    <3> QED BY <3>3, <3>4
  <2> QED BY <2>1, <2>2
<1> HIDE DEF new, st, old
<1>8. /\ EntryLevel(new) = IF stack THEN EntryLevel(old) + 1 ELSE EntryLevel(old)
      /\ EntryBase(new) = IF stack /\ EntryBase(old) = Unset
                          THEN now ELSE EntryBase(old)
      /\ EntryInitial(new) = IF EntryInitial(old) = Unset
                             THEN now ELSE EntryInitial(old)
  BY <1>2, <1>5, <1>6, <1>7
<1> QED BY <1>8 DEF new, st, old

LEMMA AfterRestoreMaps ==
    ASSUME IInv, NEW c \in Clients, RestoreApplies(c)
    PROVE  LET old == client_states[c]
               new == AfterRestore(old)
           IN  /\ EntryLevel(old) \in Nat \ {0}
               /\ EntryLevel(new) = EntryLevel(old) - 1
               /\ EntryBase(new) = IF EntryLevel(old) = 1 THEN Unset
                                                          ELSE EntryBase(old)
               /\ EntryInitial(new) = EntryInitial(old)
               /\ ClosesCycle(old) <=> EntryLevel(old) = 1
               /\ EntryBase(old) = old.base
<1> DEFINE old == client_states[c]
           new == AfterRestore(old)
<1>1. /\ old \in ClientState /\ Sound(old) /\ old # NoState
      /\ old.depth \in Nat \ {0} /\ old.has_base
  <2>1. old \in ClientState /\ Sound(old) /\ old # NoState /\ old.depth > 0
    BY StateOfOK DEF StateOf, RestoreApplies, Known
  <2> QED BY <2>1 DEF Sound, ClientState
<1>2. new \in ClientState /\ new # NoState
  BY <1>1, AfterRestoreOK, NamesAssumption
<1>3. /\ new.depth = old.depth - 1 /\ new.base = old.base
      /\ new.has_initial = old.has_initial
      /\ new.initial_state = old.initial_state
      /\ ClosesCycle(old) => ~new.has_base
      /\ ~ClosesCycle(old) => new.has_base = old.has_base
  BY <1>1 DEF AfterRestore, ClientState
<1>4. ClosesCycle(old) <=> old.depth = 1 BY <1>1 DEF ClosesCycle
<1> HIDE DEF new, old
<1>5. EntryLevel(old) = old.depth /\ EntryLevel(new) = old.depth - 1
  BY <1>1, <1>2, <1>3 DEF EntryLevel
<1>6. EntryInitial(new) = EntryInitial(old)
  BY <1>1, <1>2, <1>3 DEF EntryInitial
<1>7. EntryBase(old) = old.base BY <1>1 DEF EntryBase
<1>8. EntryBase(new) = IF EntryLevel(old) = 1 THEN Unset ELSE EntryBase(old)
  <2>1. CASE ClosesCycle(old)
    <3>1. ~new.has_base /\ EntryLevel(old) = 1 BY <1>3, <1>4, <1>5, <2>1
    <3> QED BY <3>1 DEF EntryBase
  <2>2. CASE ~ClosesCycle(old)
    <3>1. new.has_base /\ EntryLevel(old) # 1
      BY <1>1, <1>3, <1>4, <1>5, <2>2
    <3> QED BY <1>2, <1>3, <1>7, <3>1 DEF EntryBase
  <2> QED BY <2>1, <2>2
<1>9. /\ EntryLevel(old) \in Nat \ {0}
      /\ EntryLevel(new) = EntryLevel(old) - 1
      /\ EntryBase(new) = IF EntryLevel(old) = 1 THEN Unset ELSE EntryBase(old)
      /\ EntryInitial(new) = EntryInitial(old)
      /\ ClosesCycle(old) <=> EntryLevel(old) = 1
      /\ EntryBase(old) = old.base
  BY <1>1, <1>4, <1>5, <1>6, <1>7, <1>8
<1> QED BY <1>9 DEF new, old

LEMMA RimeThreadMaps ==
    ASSUME IInv, RimeThread
    PROVE  Abstract!Next \/ Stutters
<1> DEFINE a == Head(batch)
           c == a.client
           old == client_states[c]
<1>0. ASSUME NEW type, Applying(type)
      PROVE  /\ TypeOK /\ a \in PendingAction /\ c \in Clients
             /\ a.type = type
             /\ current \in Sessions /\ ascii_mode[current] \in BOOLEAN
             /\ Todo # <<>> /\ Head(Todo) = a
             /\ Todo' = Tail(Todo)
             /\ LevelOf[c] = EntryLevel(old) /\ BaseOf[c] = EntryBase(old)
             /\ InitialOf[c] = EntryInitial(old)
  <2>1. TypeOK BY DEF IInv
  <2>2. a \in PendingAction /\ a.type = type
    BY <1>0, ApplyingOK DEF Applying
  <2>3. c \in Clients BY <2>2 DEF PendingAction
  <2> HIDE DEF a, c
  <2>4. /\ LevelOf[c] = EntryLevel(old) /\ BaseOf[c] = EntryBase(old)
        /\ InitialOf[c] = EntryInitial(old)
    BY <2>3 DEF LevelOf, BaseOf, InitialOf
  <2> QED BY <1>0, <2>1, <2>2, <2>3, <2>4, ApplyingOK, QueueServe DEF a, c
<1>1. CASE ApplySet
  <2>1. Applying("kSet") BY <1>1 DEF ApplySet
  <2> DEFINE new == AfterSet(StateOf(c), a.stack, ascii_mode[current])
  <2>2. a.stack \in BOOLEAN BY <1>0, <2>1 DEF PendingAction
  <2>3. /\ EntryLevel(new) = IF a.stack THEN EntryLevel(old) + 1
                                       ELSE EntryLevel(old)
        /\ EntryBase(new) = IF a.stack /\ EntryBase(old) = Unset
                            THEN ascii_mode[current] ELSE EntryBase(old)
        /\ EntryInitial(new) = IF EntryInitial(old) = Unset
                               THEN ascii_mode[current] ELSE EntryInitial(old)
    BY <1>0, <2>1, <2>2, AfterSetMaps
  <2>4. client_states' = [client_states EXCEPT ![c] = new]
    BY <1>1 DEF ApplySet
  <2>5. /\ LevelOf' = [LevelOf EXCEPT ![c] = EntryLevel(new)]
        /\ BaseOf' = [BaseOf EXCEPT ![c] = EntryBase(new)]
        /\ InitialOf' = [InitialOf EXCEPT ![c] = EntryInitial(new)]
    <3>1. c \in Clients /\ TypeOK BY <1>0, <2>1
    <3> HIDE DEF new, c
    <3> QED BY <2>4, <3>1, EntryMaps
  <2>6. ascii_mode' = [ascii_mode EXCEPT ![current] = a.ascii]
    BY <1>1 DEF ApplySet, SetOption
  <2>7. Abstract!Serving("kSet", current, a.ascii)
    BY <1>0, <2>1, <2>6 DEF Abstract!Serving
  <2>8. InitialOf' = [InitialOf EXCEPT ![c] =
                        IF @ = Unset THEN ascii_mode[current] ELSE @]
    BY <1>0, <2>1, <2>3, <2>5
  <2>9. CASE a.stack
    <3>1. /\ LevelOf' = [LevelOf EXCEPT ![c] = @ + 1]
          /\ BaseOf' = [BaseOf EXCEPT ![c] =
                          IF @ = Unset THEN ascii_mode[current] ELSE @]
      BY <1>0, <2>1, <2>3, <2>5, <2>9
    <3>2. Abstract!ServeSet(current)
      BY <1>0, <2>1, <2>7, <2>8, <2>9, <3>1 DEF Abstract!ServeSet
    <3> QED BY <1>0, <2>1, <3>2 DEF Abstract!Next
  <2>10. CASE ~a.stack
    <3>1. UNCHANGED <<LevelOf, BaseOf>>
      <4>1. LevelOf' = [LevelOf EXCEPT ![c] = @] BY <1>0, <2>1, <2>3, <2>5, <2>10
      <4>2. BaseOf' = [BaseOf EXCEPT ![c] = @] BY <1>0, <2>1, <2>3, <2>5, <2>10
      <4> QED BY <4>1, <4>2 DEF LevelOf, BaseOf
    <3>2. Abstract!ServeSet(current)
      BY <1>0, <2>1, <2>7, <2>8, <2>10, <3>1 DEF Abstract!ServeSet
    <3> QED BY <1>0, <2>1, <3>2 DEF Abstract!Next
  <2> QED BY <2>9, <2>10
<1>2. CASE ApplyRestore
  <2>1. Applying("kRestore") BY <1>2 DEF ApplyRestore
  <2>2. CASE RestoreApplies(c)
    <3> DEFINE new == AfterRestore(old)
    <3>1. /\ EntryLevel(old) \in Nat \ {0}
          /\ EntryLevel(new) = EntryLevel(old) - 1
          /\ EntryBase(new) = IF EntryLevel(old) = 1 THEN Unset
                                                     ELSE EntryBase(old)
          /\ EntryInitial(new) = EntryInitial(old)
          /\ ClosesCycle(old) <=> EntryLevel(old) = 1
          /\ EntryBase(old) = old.base
      BY <1>0, <2>1, <2>2, AfterRestoreMaps
    <3>2. client_states' = [client_states EXCEPT ![c] = new]
      BY <1>2, <2>2 DEF ApplyRestore
    <3>3. /\ LevelOf' = [LevelOf EXCEPT ![c] = EntryLevel(new)]
          /\ BaseOf' = [BaseOf EXCEPT ![c] = EntryBase(new)]
          /\ InitialOf' = [InitialOf EXCEPT ![c] = EntryInitial(new)]
      <4>1. c \in Clients /\ TypeOK BY <1>0, <2>1
      <4> HIDE DEF new, c
      <4> QED BY <3>2, <4>1, EntryMaps
    <3>4. UNCHANGED InitialOf
      <4>1. InitialOf' = [InitialOf EXCEPT ![c] = @] BY <1>0, <2>1, <3>1, <3>3
      <4> QED BY <4>1 DEF InitialOf
    <3>5. ascii_mode' = [ascii_mode EXCEPT ![current] =
                           IF LevelOf[c] = 1 THEN BaseOf[c] ELSE ascii_mode[current]]
      <4>1. CASE LevelOf[c] = 1
        BY <1>0, <1>2, <2>1, <2>2, <3>1, <4>1 DEF ApplyRestore, SetOption
      <4>2. CASE LevelOf[c] # 1
        <5>1. UNCHANGED ascii_mode
          BY <1>0, <1>2, <2>1, <2>2, <3>1, <4>2 DEF ApplyRestore
        <5> QED BY <4>2, <5>1 DEF IInv, TypeOK
      <4> QED BY <4>1, <4>2
    <3>6. Abstract!Serving("kRestore", current,
             IF LevelOf[c] = 1 THEN BaseOf[c] ELSE ascii_mode[current])
      BY <1>0, <2>1, <3>5 DEF Abstract!Serving
    <3>7. /\ LevelOf' = [LevelOf EXCEPT ![c] = IF @ = 0 THEN 0 ELSE @ - 1]
          /\ BaseOf' = [BaseOf EXCEPT ![c] = IF LevelOf[c] = 1 THEN Unset ELSE @]
      BY <1>0, <2>1, <3>1, <3>3
    <3>8. Abstract!ServeRestore(current)
      BY <1>0, <2>1, <3>4, <3>6, <3>7 DEF Abstract!ServeRestore
    <3> QED BY <1>0, <2>1, <3>8 DEF Abstract!Next
  <2>3. CASE ~RestoreApplies(c)
    <3>1. UNCHANGED <<client_states, ascii_mode>>
      BY <1>2, <2>3 DEF ApplyRestore
    <3>2. UNCHANGED <<LevelOf, BaseOf, InitialOf>> BY <3>1, EntriesUnchanged
    <3>3. LevelOf[c] = 0
      <4>1. old = NoState \/ (old \in ClientState /\ ~(old.depth > 0))
        BY <1>0, <2>1, <2>3 DEF RestoreApplies, Known, TypeOK
      <4> QED BY <1>0, <2>1, <4>1 DEF EntryLevel, ClientState
    <3>4. /\ LevelOf' = [LevelOf EXCEPT ![c] = IF @ = 0 THEN 0 ELSE @ - 1]
          /\ BaseOf' = [BaseOf EXCEPT ![c] = IF LevelOf[c] = 1 THEN Unset ELSE @]
      <4>1. /\ LevelOf = [LevelOf EXCEPT ![c] = LevelOf[c]]
            /\ BaseOf = [BaseOf EXCEPT ![c] = BaseOf[c]]
        BY DEF LevelOf, BaseOf
      <4> QED BY <3>2, <3>3, <4>1
    <3>5. Abstract!Serving("kRestore", current,
             IF LevelOf[c] = 1 THEN BaseOf[c] ELSE ascii_mode[current])
      BY <1>0, <2>1, <3>1, <3>3, SMTT(60) DEF Abstract!Serving, TypeOK
    <3>6. Abstract!ServeRestore(current)
      BY <1>0, <2>1, <3>2, <3>4, <3>5 DEF Abstract!ServeRestore
    <3> QED BY <1>0, <2>1, <3>6 DEF Abstract!Next
  <2> QED BY <2>2, <2>3
<1>3. ASSUME NEW type, Applying(type), Erase(c)
      PROVE  Abstract!Forget(c)
  <2>1. EntryLevel(NoState) = 0 /\ EntryBase(NoState) = Unset
        /\ EntryInitial(NoState) = Unset
    BY DEF EntryLevel, EntryBase, EntryInitial
  <2>2. c \in Clients /\ TypeOK BY <1>0, <1>3
  <2> HIDE DEF c
  <2>3. client_states' = [client_states EXCEPT ![c] = NoState]
    BY <1>3 DEF Erase
  <2>4. /\ LevelOf' = [LevelOf EXCEPT ![c] = EntryLevel(NoState)]
        /\ BaseOf' = [BaseOf EXCEPT ![c] = EntryBase(NoState)]
        /\ InitialOf' = [InitialOf EXCEPT ![c] = EntryInitial(NoState)]
    BY <2>2, <2>3, EntryMaps
  <2> QED BY <2>1, <2>4 DEF Abstract!Forget
<1>4. CASE ApplyReset
  <2>1. Applying("kReset") /\ Erase(c) BY <1>4 DEF ApplyReset
  <2>2. ascii_mode' = [ascii_mode EXCEPT ![current] =
                         IF a.restore /\ InitialOf[c] # Unset
                         THEN InitialOf[c] ELSE ascii_mode[current]]
    <3>1. InitialOf[c] # Unset <=> Known(c) /\ old.has_initial
      <4>1. Known(c) => old.initial_state \in BOOLEAN
        BY <1>0, <2>1 DEF TypeOK, Known, ClientState
      <4>2. InitialOf[c] = EntryInitial(old) BY <1>0, <2>1
      <4> QED BY <4>1, <4>2, UnsetAssumption DEF EntryInitial, Known
    <3>2. CASE a.restore /\ InitialOf[c] # Unset
      <4>1. InitialOf[c] = old.initial_state
        BY <1>0, <2>1, <3>1, <3>2 DEF EntryInitial, Known
      <4> QED BY <1>4, <3>1, <3>2, <4>1 DEF ApplyReset, SetOption
    <3>3. CASE ~(a.restore /\ InitialOf[c] # Unset)
      <4>1. UNCHANGED ascii_mode BY <1>4, <3>1, <3>3 DEF ApplyReset
      <4> QED BY <3>3, <4>1 DEF IInv, TypeOK
    <3> QED BY <3>2, <3>3
  <2>3. Abstract!Serving("kReset", current,
           IF a.restore /\ InitialOf[c] # Unset
           THEN InitialOf[c] ELSE ascii_mode[current])
    BY <1>0, <2>1, <2>2 DEF Abstract!Serving
  <2>4. Abstract!ServeReset(current)
    BY <1>0, <1>3, <2>1, <2>3 DEF Abstract!ServeReset
  <2> QED BY <1>0, <2>1, <2>4 DEF Abstract!Next
<1>5. CASE ApplyUnregister
  <2>1. Applying("kUnregister") /\ Erase(c) /\ UNCHANGED ascii_mode
    BY <1>5 DEF ApplyUnregister
  <2>2. Abstract!Serving("kUnregister", current, ascii_mode[current])
    BY <1>0, <2>1 DEF Abstract!Serving, TypeOK
  <2>3. Abstract!ServeUnregister(current)
    BY <1>0, <1>3, <2>1, <2>2 DEF Abstract!ServeUnregister
  <2> QED BY <1>0, <2>1, <2>3 DEF Abstract!Next
<1>6. CASE FinishProcess
  <2>1. UNCHANGED <<client_states, batch, pending_actions, ascii_mode>>
    BY <1>6 DEF FinishProcess
  <2> QED BY <2>1, EntriesUnchanged DEF Stutters, Todo
<1> QED BY <1>1, <1>2, <1>4, <1>5, <1>6 DEF RimeThread, ApplyAction

(***************************************************************************)
(* The refinement                                                          *)
(***************************************************************************)
LEMMA InitMaps == Init => Abstract!Init
<1> SUFFICES ASSUME Init PROVE Abstract!Init
  OBVIOUS
<1>1. /\ EntryLevel(NoState) = 0 /\ EntryBase(NoState) = Unset
      /\ EntryInitial(NoState) = Unset
  BY DEF EntryLevel, EntryBase, EntryInitial
<1>2. /\ LevelOf = [c \in Clients |-> 0]
      /\ BaseOf = [c \in Clients |-> Unset]
      /\ InitialOf = [c \in Clients |-> Unset]
  BY <1>1 DEF Init, LevelOf, BaseOf, InitialOf
<1>3. Todo = <<>> BY DEF Init, Todo
<1> QED BY <1>2, <1>3 DEF Init, Abstract!Init

LEMMA StepMaps == IInv /\ [Next]_vars => [Abstract!Next]_(Abstract!vars)
<1> SUFFICES ASSUME IInv, [Next]_vars
             PROVE  Abstract!Next \/ Stutters
  BY DEF Stutters, Abstract!vars
<1>1. ASSUME NEW c \in Clients, ProcessMessage(c)
      PROVE  Abstract!Next \/ Stutters
  BY <1>1, MessageMaps DEF IInv
<1>2. ASSUME NEW s \in Sessions, TakePendingActions(s)
      PROVE  Stutters
  <2>1. batch = <<>>
    BY <1>2, NamesAssumption DEF TakePendingActions, IInv, TypeOK
  <2>2. Todo' = Todo
    BY <1>2, <2>1, QueueTake DEF TakePendingActions, IInv
  <2> QED BY <1>2, <2>2, EntriesUnchanged DEF TakePendingActions, Stutters
<1>3. ASSUME NEW s \in Sessions, UserToggle(s)
      PROVE  Abstract!Next
  <2>1. Abstract!Toggle(s)
    BY <1>3, EntriesUnchanged DEF UserToggle, Abstract!Toggle, Todo
  <2> QED BY <2>1 DEF Abstract!Next
<1>4. CASE RimeThread
  BY <1>4, RimeThreadMaps
<1>5. CASE UNCHANGED vars
  BY <1>5, EntriesUnchanged DEF vars, Stutters, Todo
<1> QED BY <1>1, <1>2, <1>3, <1>4, <1>5 DEF Next

\* The bridge does to ascii_mode what one queue of requests, served in order and
\* each once, would do.
THEOREM Refinement == Spec => ImplementsRequests
<1>1. Init => Abstract!Init BY InitMaps
<1>2. IInv /\ [Next]_vars => [Abstract!Next]_(Abstract!vars) BY StepMaps
<1> QED BY <1>1, <1>2, Invariance, PTL DEF Spec, ImplementsRequests, Abstract!Spec

-----------------------------------------------------------------------------
(***************************************************************************)
(* The text of the active client                                           *)
(***************************************************************************)
Erases(a, c) == a.client = c /\ a.type \in {"kReset", "kUnregister"}

ErasureQueued(c) == \E i \in DOMAIN Todo : Erases(Todo[i], c)

Outdated(c) ==
    /\ Known(c) /\ client_states[c].context # NoText
    /\ client_states[c].context # offered[c]

TypeOKC ==
    /\ owner \in Clients \cup {NoClient}
    /\ offered \in [Clients -> Texts \cup {NoText}]

CInv ==
    /\ IInv
    /\ TypeOKC
    /\ active_client \in {owner, NoClient}
    /\ \A c \in Clients : Outdated(c) => ErasureQueued(c)

-----------------------------------------------------------------------------
\* The history variables add no step.
LEMMA StepC == NextC => Next
BY DEF NextC, ContextC, ClearContextC, DismissC, ActivateC, DeactivateC, AsciiC,
       Next, ProcessMessage

LEMMA TodoType == TypeOK => Todo \in Seq(PendingAction)
BY DEF TypeOK, Todo

\* What is queued stays queued while actions are added behind it.
LEMMA PushKeepsErasure ==
    ASSUME TypeOK, NEW a \in PendingAction, Push(a), UNCHANGED batch,
           NEW c
    PROVE  /\ ErasureQueued(c) => ErasureQueued(c)'
           /\ Erases(a, c) => ErasureQueued(c)'
<1>1. Todo \in Seq(PendingAction) /\ Todo' = Append(Todo, a)
  BY TodoType, QueuePush
<1>2. /\ DOMAIN Todo' = 1 .. Len(Todo) + 1 /\ DOMAIN Todo = 1 .. Len(Todo)
      /\ Len(Todo) \in Nat
      /\ \A i \in 1 .. Len(Todo) : Todo'[i] = Todo[i]
      /\ Todo'[Len(Todo) + 1] = a
  BY <1>1
<1>3. ASSUME ErasureQueued(c) PROVE ErasureQueued(c)'
  <2>1. PICK i \in 1 .. Len(Todo) : Erases(Todo[i], c)
    BY <1>2, <1>3 DEF ErasureQueued
  <2>2. i \in DOMAIN Todo' /\ Erases(Todo'[i], c) BY <1>2, <2>1
  <2> QED BY <2>2 DEF ErasureQueued, Erases
<1>4. ASSUME Erases(a, c) PROVE ErasureQueued(c)'
  <2>1. Len(Todo) + 1 \in DOMAIN Todo' /\ Erases(Todo'[Len(Todo) + 1], c)
    BY <1>2, <1>4
  <2> QED BY <2>1 DEF ErasureQueued, Erases
<1> QED BY <1>3, <1>4

\* It stays queued until it is itself applied.
LEMMA ServeKeepsErasure ==
    ASSUME TypeOK, NEW type, Applying(type), NEW c,
           ErasureQueued(c), ~Erases(Head(batch), c)
    PROVE  ErasureQueued(c)'
<1>1. /\ Todo \in Seq(PendingAction) /\ Todo # <<>>
      /\ Head(Todo) = Head(batch) /\ Todo' = Tail(Todo)
  BY TodoType, QueueServe
<1>2. PICK i \in 1 .. Len(Todo) : Erases(Todo[i], c)
  BY <1>1 DEF ErasureQueued
<1>3. i # 1 BY <1>1, <1>2
<1>4. i - 1 \in DOMAIN Todo' /\ Todo'[i - 1] = Todo[i]
  BY <1>1, <1>2, <1>3
<1> QED BY <1>2, <1>4 DEF ErasureQueued, Erases

-----------------------------------------------------------------------------
AllErased == \A c \in Clients : Outdated(c) => ErasureQueued(c)

NoneNewlyOutdated == \A d \in Clients : Outdated(d)' => Outdated(d)

\* Where nothing becomes outdated and the queues keep their erasures, nothing is
\* left outdated for good.
LEMMA NoNewOutdated ==
    ASSUME CInv, NoneNewlyOutdated,
           \A d \in Clients : ErasureQueued(d) => ErasureQueued(d)'
    PROVE  AllErased'
BY DEF CInv, NoneNewlyOutdated, AllErased

LEMMA SameQueue ==
    UNCHANGED Todo => \A d : ErasureQueued(d) => ErasureQueued(d)'
BY DEF ErasureQueued

LEMMA EntryNotOutdated ==
    ASSUME CInv, NEW c \in Clients, NEW st, UNCHANGED offered,
           client_states' = [client_states EXCEPT ![c] = st],
           \/ st = NoState \/ st.context = NoText
           \/ client_states[c] # NoState /\ st.context = client_states[c].context
    PROVE  NoneNewlyOutdated
BY DEF CInv, IInv, TypeOK, NoneNewlyOutdated, Outdated, Known

\* The text of the entries that handlers find or make.
LEMMA TextOf ==
    ASSUME IInv, NEW c \in Clients
    PROVE  /\ StateOf(c) \in ClientState
           /\ \/ StateOf(c).context = NoText
              \/ /\ client_states[c] # NoState
                 /\ StateOf(c).context = client_states[c].context
           /\ \A stack, now \in BOOLEAN :
                AfterSet(StateOf(c), stack, now).context = StateOf(c).context
           /\ AfterRestore(StateOf(c)).context = StateOf(c).context
           /\ \A text \in Texts \cup {NoText} :
                [StateOf(c) EXCEPT !.context = text].context = text
<1>1. StateOf(c) \in ClientState BY StateOfOK
<1>2. \/ StateOf(c).context = NoText
      \/ /\ client_states[c] # NoState
         /\ StateOf(c).context = client_states[c].context
  BY DEF StateOf, Known, NewClientState
<1>3. /\ \A stack, now \in BOOLEAN :
            AfterSet(StateOf(c), stack, now).context = StateOf(c).context
      /\ AfterRestore(StateOf(c)).context = StateOf(c).context
  BY <1>1 DEF AfterSet, AfterRestore, ClientState
<1>4. \A text \in Texts \cup {NoText} :
        [StateOf(c) EXCEPT !.context = text].context = text
  BY <1>1 DEF ClientState
<1> QED BY <1>1, <1>2, <1>3, <1>4

\* No message leaves outdated text without an erasure behind it.
LEMMA MessageC ==
    ASSUME CInv, NEW c \in Clients,
           \/ ContextC(c) \/ ClearContextC(c) \/ DismissC(c)
           \/ ActivateC(c) \/ DeactivateC(c) \/ AsciiC(c)
    PROVE  /\ TypeOKC' /\ active_client' \in {owner', NoClient}
           /\ AllErased'
<1>0. IInv /\ TypeOK BY DEF CInv, IInv
<1>1. ASSUME NEW text \in Texts, HandleContext(c, text), Offers(c, text)
      PROVE  TypeOKC' /\ active_client' \in {owner', NoClient} /\ AllErased'
  <2> DEFINE st == [StateOf(c) EXCEPT !.context = text]
  <2>1. st.context = text BY <1>0, TextOf
  <2>2. client_states' = [client_states EXCEPT ![c] = st]
    BY <1>1 DEF HandleContext
  <2>3. offered' = [offered EXCEPT ![c] = text] /\ UNCHANGED owner
    BY <1>1 DEF Offers
  <2>4. NoneNewlyOutdated
    <3> HIDE DEF st
    <3> QED BY <2>1, <2>2, <2>3
            DEF CInv, TypeOKC, IInv, TypeOK, NoneNewlyOutdated, Outdated, Known
  <2>5. UNCHANGED Todo BY <1>1 DEF HandleContext, Todo
  <2>6. TypeOKC' BY <2>3 DEF CInv, TypeOKC
  <2>7. active_client' \in {owner', NoClient}
    BY <1>1, <2>3 DEF HandleContext, CInv
  <2> QED BY <2>4, <2>5, <2>6, <2>7, SameQueue, NoNewOutdated
<1>2. CASE ClearContextC(c)
  <2>1. /\ offered' = [offered EXCEPT ![c] = NoText] /\ UNCHANGED owner
        /\ HandleClearContext(c)
    BY <1>2 DEF ClearContextC, Offers
  <2>2. NoneNewlyOutdated
    <3>1. CASE Known(c)
      <4> DEFINE st == [StateOf(c) EXCEPT !.context = NoText]
      <4>1. client_states' = [client_states EXCEPT ![c] = st]
        BY <2>1, <3>1 DEF HandleClearContext, StateOf
      <4>2. st.context = NoText BY <1>0, TextOf
      <4> HIDE DEF st
      <4> QED BY <2>1, <4>1, <4>2
              DEF CInv, TypeOKC, IInv, TypeOK, NoneNewlyOutdated, Outdated, Known
    <3>2. CASE ~Known(c)
      <4>1. UNCHANGED client_states BY <2>1, <3>2 DEF HandleClearContext
      <4> QED BY <2>1, <3>2, <4>1
              DEF CInv, TypeOKC, NoneNewlyOutdated, Outdated, Known
    <3> QED BY <3>1, <3>2
  <2>3. UNCHANGED Todo BY <2>1 DEF HandleClearContext, Todo
  <2>4. TypeOKC' BY <2>1 DEF CInv, TypeOKC
  <2>5. active_client' \in {owner', NoClient}
    BY <2>1 DEF HandleClearContext, CInv
  <2> QED BY <2>2, <2>3, <2>4, <2>5, SameQueue, NoNewOutdated
<1>3. CASE DismissC(c)
  <2>1. PICK a \in PendingAction :
          /\ Push(a) /\ Erases(a, c)
          /\ UNCHANGED <<client_states, active_client, batch>>
    <3>1. CASE HandleUnregister(c)
      <4> DEFINE a == PlainAction("kUnregister", c)
      <4>1. a \in PendingAction BY PlainActionOK DEF ActionTypes
      <4>2. Erases(a, c) BY DEF PlainAction, Erases
      <4> QED BY <3>1, <4>1, <4>2 DEF HandleUnregister
    <3>2. ASSUME NEW restore \in BOOLEAN, HandleReset(c, restore)
          PROVE  \E a \in PendingAction :
                   /\ Push(a) /\ Erases(a, c)
                   /\ UNCHANGED <<client_states, active_client, batch>>
      <4> DEFINE a == [PlainAction("kReset", c) EXCEPT !.restore = restore]
      <4>1. a \in PendingAction BY PlainActionOK DEF ActionTypes
      <4>2. Erases(a, c) BY DEF PlainAction, Erases
      <4>3. Push(a) /\ UNCHANGED <<client_states, active_client, batch>>
        BY <3>2 DEF HandleReset
      <4> HIDE DEF a
      <4> QED BY <4>1, <4>2, <4>3
    <3> QED BY <1>3, <3>1, <3>2 DEF DismissC
  <2>2. offered' = [offered EXCEPT ![c] = NoText] /\ UNCHANGED owner
    BY <1>3 DEF DismissC, Offers
  <2>3. \A d : ErasureQueued(d) => ErasureQueued(d)'
    BY <1>0, <2>1, PushKeepsErasure
  <2>4. ErasureQueued(c)' BY <1>0, <2>1, PushKeepsErasure
  <2>5. \A d \in Clients : Outdated(d)' => Outdated(d) \/ d = c
    BY <2>1, <2>2 DEF CInv, TypeOKC, Outdated, Known
  <2>6. AllErased' BY <2>3, <2>4, <2>5 DEF CInv, AllErased
  <2> QED BY <2>1, <2>2, <2>6 DEF CInv, TypeOKC
<1>4. CASE ActivateC(c)
  <2>1. /\ client_states' = [client_states EXCEPT ![c] = StateOf(c)]
        /\ active_client' = c /\ owner' = c /\ UNCHANGED offered
        /\ UNCHANGED Todo
    BY <1>4 DEF ActivateC, HandleActivate, Todo
  <2>2. NoneNewlyOutdated BY <1>0, <2>1, TextOf, EntryNotOutdated
  <2>3. AllErased' BY <2>1, <2>2, SameQueue, NoNewOutdated
  <2> QED BY <2>1, <2>3 DEF CInv, TypeOKC
<1>5. CASE DeactivateC(c)
  <2>1. /\ UNCHANGED <<client_states, offered, Todo>>
        /\ active_client' = IF active_client = c THEN NoClient ELSE active_client
        /\ owner' = IF owner = c THEN NoClient ELSE owner
    BY <1>5 DEF DeactivateC, HandleDeactivate, Todo
  <2>2. NoneNewlyOutdated BY <2>1 DEF NoneNewlyOutdated, Outdated, Known
  <2>3. AllErased' BY <2>1, <2>2, SameQueue, NoNewOutdated
  <2> QED BY <2>1, <2>3 DEF CInv, TypeOKC
<1>6. ASSUME NEW ascii \in BOOLEAN, NEW stack \in BOOLEAN,
             HandleSet(c, ascii, stack), UNCHANGED historyC
      PROVE  TypeOKC' /\ active_client' \in {owner', NoClient} /\ AllErased'
  <2> DEFINE a == [PlainAction("kSet", c) EXCEPT !.ascii = ascii, !.stack = stack]
  <2>1. /\ client_states' = [client_states EXCEPT ![c] = StateOf(c)]
        /\ UNCHANGED <<active_client, batch, owner, offered>>
        /\ Push(a)
    BY <1>6 DEF HandleSet, historyC
  <2>2. a \in PendingAction BY PlainActionOK DEF ActionTypes
  <2> HIDE DEF a
  <2>3. NoneNewlyOutdated BY <1>0, <2>1, TextOf, EntryNotOutdated
  <2>4. \A d : ErasureQueued(d) => ErasureQueued(d)'
    BY <1>0, <2>1, <2>2, PushKeepsErasure
  <2>5. AllErased' BY <2>3, <2>4, NoNewOutdated
  <2> QED BY <2>1, <2>5 DEF CInv, TypeOKC
<1>7. ASSUME HandleRestore(c), UNCHANGED historyC
      PROVE  TypeOKC' /\ active_client' \in {owner', NoClient} /\ AllErased'
  <2> DEFINE a == PlainAction("kRestore", c)
  <2>1. /\ UNCHANGED <<client_states, active_client, batch, owner, offered>>
        /\ Push(a) \/ UNCHANGED Todo
    BY <1>7 DEF HandleRestore, historyC, Todo
  <2>2. a \in PendingAction BY PlainActionOK DEF ActionTypes
  <2> HIDE DEF a
  <2>3. NoneNewlyOutdated BY <2>1 DEF NoneNewlyOutdated, Outdated, Known
  <2>4. \A d : ErasureQueued(d) => ErasureQueued(d)'
    BY <1>0, <2>1, <2>2, PushKeepsErasure, SameQueue
  <2>5. AllErased' BY <2>3, <2>4, NoNewOutdated
  <2> QED BY <2>1, <2>5 DEF CInv, TypeOKC
<1> QED
  BY <1>1, <1>2, <1>3, <1>4, <1>5, <1>6, <1>7 DEF ContextC, AsciiC

\* The steps of Process erase what is outdated, or leave it to a later erasure.
LEMMA ProcessC ==
    ASSUME CInv, RimeThread, UNCHANGED historyC
    PROVE  AllErased' /\ UNCHANGED active_client
<1>0. IInv /\ TypeOK BY DEF CInv, IInv
<1> DEFINE a == Head(batch)
           c == a.client
<1>1. ASSUME NEW type, Applying(type), NoneNewlyOutdated,
             \A d \in Clients : Erases(a, d) => ~Known(d)'
      PROVE  AllErased' /\ UNCHANGED active_client
  <2>1. ASSUME NEW d \in Clients, Outdated(d)'
        PROVE  ErasureQueued(d)'
    <3>1. ErasureQueued(d) BY <1>1, <2>1 DEF CInv, NoneNewlyOutdated
    <3>2. ~Erases(a, d) BY <1>1, <2>1 DEF Outdated
    <3> QED BY <1>0, <1>1, <3>1, <3>2, ServeKeepsErasure
  <2> QED BY <1>1, <2>1 DEF AllErased, Applying
<1>2. ASSUME NEW type, Applying(type)
      PROVE  c \in Clients /\ a.stack \in BOOLEAN /\ ascii_mode[current] \in BOOLEAN
             /\ a.type = type
  <2>1. a \in PendingAction BY <1>0, <1>2, ApplyingOK
  <2>2. c \in Clients /\ a.stack \in BOOLEAN BY <2>1 DEF PendingAction
  <2> QED BY <1>0, <1>2, <2>2, ApplyingOK DEF Applying
<1>3. CASE ApplySet
  <2>1. Applying("kSet") BY <1>3 DEF ApplySet
  <2> DEFINE st == AfterSet(StateOf(c), a.stack, ascii_mode[current])
  <2>2. client_states' = [client_states EXCEPT ![c] = st] /\ UNCHANGED offered
    BY <1>3 DEF ApplySet, historyC
  <2>3. \/ st.context = NoText
        \/ /\ client_states[c] # NoState
           /\ st.context = client_states[c].context
    BY <1>0, <1>2, <2>1, TextOf
  <2>4. NoneNewlyOutdated
    <3>1. c \in Clients BY <1>2, <2>1
    <3> HIDE DEF st, c
    <3> QED BY <2>2, <2>3, <3>1, EntryNotOutdated
  <2> QED BY <1>1, <1>2, <2>1, <2>4 DEF Erases
<1>4. CASE ApplyRestore
  <2>1. Applying("kRestore") BY <1>4 DEF ApplyRestore
  <2>2. NoneNewlyOutdated
    <3>1. CASE RestoreApplies(c)
      <4> DEFINE st == AfterRestore(StateOf(c))
      <4>1. client_states' = [client_states EXCEPT ![c] = st] /\ UNCHANGED offered
        BY <1>4, <3>1 DEF ApplyRestore, RestoreApplies, StateOf, historyC
      <4>2. \/ st.context = NoText
            \/ /\ client_states[c] # NoState
               /\ st.context = client_states[c].context
        BY <1>0, <1>2, <2>1, TextOf
      <4>3. c \in Clients BY <1>2, <2>1
      <4> HIDE DEF st, c
      <4> QED BY <4>1, <4>2, <4>3, EntryNotOutdated
    <3>2. CASE ~RestoreApplies(c)
      BY <1>4, <3>2
         DEF ApplyRestore, historyC, NoneNewlyOutdated, Outdated, Known
    <3> QED BY <3>1, <3>2
  <2> QED BY <1>1, <1>2, <2>1, <2>2 DEF Erases
<1>5. ASSUME NEW type, Applying(type), Erase(c)
      PROVE  AllErased' /\ UNCHANGED active_client
  <2>1. client_states' = [client_states EXCEPT ![c] = NoState] /\ UNCHANGED offered
    BY <1>5 DEF Erase, historyC
  <2>2. c \in Clients BY <1>2, <1>5
  <2>3. NoneNewlyOutdated
    <3> HIDE DEF c
    <3> QED BY <2>1, <2>2, EntryNotOutdated
  <2>4. \A d \in Clients : Erases(a, d) => ~Known(d)'
    BY <1>0, <2>1, <2>2 DEF Erases, Known, TypeOK
  <2> QED BY <1>1, <1>5, <2>3, <2>4
<1>6. CASE ApplyReset \/ ApplyUnregister
  BY <1>5, <1>6 DEF ApplyReset, ApplyUnregister
<1>7. CASE FinishProcess
  <2>1. UNCHANGED <<client_states, offered, active_client>> /\ UNCHANGED Todo
    BY <1>7 DEF FinishProcess, historyC, Todo
  <2>2. NoneNewlyOutdated BY <2>1 DEF NoneNewlyOutdated, Outdated, Known
  <2> QED BY <2>1, <2>2, SameQueue, NoNewOutdated
<1> QED BY <1>3, <1>4, <1>6, <1>7 DEF RimeThread, ApplyAction

LEMMA InductiveC == CInv /\ [NextC]_varsC => CInv'
<1> SUFFICES ASSUME CInv, [NextC]_varsC PROVE CInv'
  OBVIOUS
<1>1. IInv'
  BY StepC, Inductive DEF CInv, varsC, vars
<1>2. ASSUME NEW c \in Clients,
             \/ ContextC(c) \/ ClearContextC(c) \/ DismissC(c)
             \/ ActivateC(c) \/ DeactivateC(c) \/ AsciiC(c)
      PROVE  CInv'
  BY <1>1, <1>2, MessageC DEF CInv, AllErased
<1>3. ASSUME RimeThread, UNCHANGED historyC
      PROVE  CInv'
  <2>1. AllErased' /\ UNCHANGED active_client BY <1>3, ProcessC
  <2> QED BY <1>1, <1>3, <2>1 DEF CInv, AllErased, historyC, TypeOKC
<1>4. ASSUME \/ \E s \in Sessions : TakePendingActions(s) \/ UserToggle(s)
             \/ UNCHANGED vars,
             UNCHANGED historyC
      PROVE  CInv'
  <2>1. UNCHANGED <<client_states, active_client, owner, offered>>
    BY <1>4 DEF TakePendingActions, UserToggle, vars, historyC
  <2>2. UNCHANGED Todo
    <3>1. ASSUME NEW s \in Sessions, TakePendingActions(s)
          PROVE  UNCHANGED Todo
      <4>1. batch = <<>>
        BY <3>1, NamesAssumption DEF TakePendingActions, CInv, IInv, TypeOK
      <4> QED BY <3>1, <4>1, QueueTake DEF TakePendingActions, CInv, IInv
    <3>2. ASSUME NEW s \in Sessions, UserToggle(s)
          PROVE  UNCHANGED Todo
      BY <3>2 DEF UserToggle, Todo
    <3>3. CASE UNCHANGED vars BY <3>3 DEF vars, Todo
    <3> QED BY <1>4, <3>1, <3>2, <3>3
  <2>3. NoneNewlyOutdated BY <2>1 DEF NoneNewlyOutdated, Outdated, Known
  <2>4. AllErased' BY <2>2, <2>3, SameQueue, NoNewOutdated
  <2> QED BY <1>1, <2>1, <2>4 DEF CInv, AllErased, TypeOKC
<1> QED BY <1>2, <1>3, <1>4 DEF NextC, varsC

LEMMA InitiallyC == InitC => CInv
<1> SUFFICES ASSUME InitC PROVE CInv
  OBVIOUS
<1>1. IInv BY Initially DEF InitC
<1> QED BY <1>1 DEF InitC, Init, CInv, TypeOKC, Outdated, Known

LEMMA CurrentNow == CInv => ContextIsCurrent
<1> SUFFICES ASSUME CInv, GetActiveContext # NoText
             PROVE  /\ active_client = owner
                    /\ NothingQueued(owner) => GetActiveContext = offered[owner]
  BY DEF ContextIsCurrent
<1>1. /\ active_client # NoClient /\ Known(active_client)
      /\ GetActiveContext = client_states[active_client].context
  BY DEF GetActiveContext
<1>2. active_client = owner /\ owner \in Clients
  BY <1>1 DEF CInv, TypeOKC
<1>3. ASSUME NothingQueued(owner) PROVE ~Outdated(owner)
  BY <1>2, <1>3 DEF NothingQueued, CInv, ErasureQueued, Erases
<1> QED BY <1>1, <1>2, <1>3 DEF Outdated

\* The copilot is given the text of the owner alone, and text the owner stands
\* by unless something of the owner's is still queued.
THEOREM ContextCurrent == SpecC => []ContextIsCurrent
BY InitiallyC, InductiveC, CurrentNow, PTL DEF SpecC

-----------------------------------------------------------------------------
(***************************************************************************)
(* The depth that a queue makes                                            *)
(***************************************************************************)
\* DepthAfterAll is what its recursion says,
LEMMA DepthsExist ==
    ASSUME NEW c, NEW d, NEW s, Len(s) \in Nat
    PROVE  \E f : /\ DepthAfterAll(c, d, s) = f[Len(s)] /\ f[0] = d
                  /\ \A i \in 1 .. Len(s) :
                        f[i] = DepthAfter(c, f[i - 1], s[i])
<1> DEFINE n == Len(s)
           Step(g, i) == IF i = 0 THEN d ELSE DepthAfter(c, g[i - 1], s[i])
           F == CHOOSE f : f = [i \in 0 .. n |-> Step(f, i)]
<1>1. \E f : f = [i \in 0 .. n |-> Step(f, i)]
  <2> DEFINE Filled(m) == \E f : f = [i \in 0 .. m |-> Step(f, i)]
             T == {m \in Nat : Filled(m)}
  <2>1. Filled(0)
    <3> DEFINE g == [i \in 0 .. 0 |-> d]
    <3>1. g = [i \in 0 .. 0 |-> Step(g, i)] OBVIOUS
    <3> HIDE DEF g
    <3> QED BY <3>1
  <2>2. ASSUME NEW m \in Nat, Filled(m) PROVE Filled(m + 1)
    <3>1. PICK h : h = [i \in 0 .. m |-> Step(h, i)] BY <2>2
    <3> DEFINE g == [i \in 0 .. m + 1 |->
                        IF i = m + 1 THEN Step(h, i) ELSE h[i]]
    <3>2. \A i \in 0 .. m + 1 : Step(g, i) = Step(h, i)
      <4>1. ASSUME NEW i \in 0 .. m + 1, i # 0 PROVE g[i - 1] = h[i - 1]
        BY <4>1
      <4> QED BY <4>1
    <3>3. \A i \in 0 .. m + 1 : g[i] = Step(h, i)
      <4>1. \A i \in 0 .. m : h[i] = Step(h, i) BY ONLY <3>1, Zenon
      <4>2. \A i \in 0 .. m + 1 : i = m + 1 \/ i \in 0 .. m OBVIOUS
      <4> HIDE DEF Step
      <4>3. \A i \in 0 .. m + 1 : g[i] = IF i = m + 1 THEN Step(h, i) ELSE h[i]
        OBVIOUS
      <4> QED BY ONLY <4>1, <4>2, <4>3, Zenon
    <3>4. g = [i \in 0 .. m + 1 |-> Step(g, i)]
      <4>1. g = [i \in 0 .. m + 1 |-> g[i]] OBVIOUS
      <4>2. \A i \in 0 .. m + 1 : g[i] = Step(g, i) BY <3>2, <3>3, Zenon
      <4> HIDE DEF Step, g
      <4> QED BY ONLY <4>1, <4>2
    <3> HIDE DEF g
    <3> QED BY <3>4
  <2>3. n \in T
    <3> HIDE DEF Filled
    <3>1. 0 \in T /\ \A m \in Nat : m \in T => m + 1 \in T BY <2>1, <2>2
    <3> HIDE DEF T
    <3> QED BY <3>1, EveryNumber
  <2> QED BY <2>3
<1>2. F = [i \in 0 .. n |-> Step(F, i)] BY <1>1
<1>3. DepthAfterAll(c, d, s) = F[n] BY DEF DepthAfterAll
<1> HIDE DEF F
<1>4. \A i \in 0 .. n : F[i] = Step(F, i) BY ONLY <1>2, Zenon
<1>5. F[0] = d BY <1>4
<1>6. \A i \in 1 .. n : F[i] = DepthAfter(c, F[i - 1], s[i])
  <2>1. \A i \in 1 .. n : i \in 0 .. n /\ i # 0 OBVIOUS
  <2> QED BY <1>4, <2>1
<1> QED BY <1>3, <1>5, <1>6

\* and whatever follows the same recursion comes to the same depth.
LEMMA DepthsAgree ==
    ASSUME NEW c, NEW d, NEW s, Len(s) \in Nat, NEW g, g[0] = d,
           \A i \in 1 .. Len(s) : g[i] = DepthAfter(c, g[i - 1], s[i])
    PROVE  DepthAfterAll(c, d, s) = g[Len(s)]
<1> DEFINE n == Len(s)
<1>1. PICK f : /\ DepthAfterAll(c, d, s) = f[n] /\ f[0] = d
               /\ \A i \in 1 .. n : f[i] = DepthAfter(c, f[i - 1], s[i])
  BY DepthsExist
<1> DEFINE T == {m \in Nat : m <= n => f[m] = g[m]}
<1>2. 0 \in T BY <1>1
<1>3. ASSUME NEW m \in Nat, m \in T PROVE m + 1 \in T
  <2> SUFFICES ASSUME m + 1 <= n PROVE f[m + 1] = g[m + 1]
    OBVIOUS
  <2>1. m + 1 \in 1 .. n /\ (m + 1) - 1 = m /\ m <= n OBVIOUS
  <2>2. f[m] = g[m] BY <1>3, <2>1
  <2> QED BY <1>1, <2>1, <2>2
<1>4. n \in T
  <2> HIDE DEF T
  <2> QED BY <1>2, <1>3, EveryNumber
<1> QED BY <1>1, <1>4

\* An action that is queued counts last,
LEMMA DepthOfPushed ==
    ASSUME NEW S, NEW s \in Seq(S), NEW a \in S, NEW c, NEW d
    PROVE  DepthAfterAll(c, d, Append(s, a))
               = DepthAfter(c, DepthAfterAll(c, d, s), a)
<1> DEFINE n == Len(s)
           t == Append(s, a)
<1>1. /\ n \in Nat /\ Len(t) = n + 1 /\ t[n + 1] = a
      /\ \A i \in 1 .. n : t[i] = s[i]
  BY AppendProperties, LenProperties
<1> HIDE DEF t
<1>2. PICK f : /\ DepthAfterAll(c, d, t) = f[n + 1] /\ f[0] = d
               /\ \A i \in 1 .. n + 1 : f[i] = DepthAfter(c, f[i - 1], t[i])
  <2>1. Len(t) \in Nat BY <1>1
  <2>2. \E f : /\ DepthAfterAll(c, d, t) = f[Len(t)] /\ f[0] = d
               /\ \A i \in 1 .. Len(t) : f[i] = DepthAfter(c, f[i - 1], t[i])
    BY <2>1, DepthsExist
  <2>3. Len(t) = n + 1 BY <1>1
  <2> HIDE DEF n
  <2> QED BY <2>2, <2>3
<1>3. \A i \in 1 .. n : f[i] = DepthAfter(c, f[i - 1], s[i])
  <2>1. \A i \in 1 .. n : i \in 1 .. n + 1 BY <1>1
  <2> QED BY <1>1, <1>2, <2>1
<1>4. DepthAfterAll(c, d, s) = f[n] BY <1>1, <1>2, <1>3, DepthsAgree
<1>5. f[n + 1] = DepthAfter(c, f[n], a)
  <2>1. n + 1 \in 1 .. n + 1 /\ (n + 1) - 1 = n BY <1>1
  <2> QED BY <1>1, <1>2, <2>1
<1> QED BY <1>2, <1>4, <1>5 DEF t

\* and one that is applied first counts for the depth it is applied to.
LEMMA DepthOfServed ==
    ASSUME NEW S, NEW s \in Seq(S), s # <<>>, NEW c, NEW d
    PROVE  DepthAfterAll(c, d, s)
               = DepthAfterAll(c, DepthAfter(c, d, Head(s)), Tail(s))
<1> DEFINE n == Len(s)
           t == Tail(s)
<1>1. /\ n \in Nat /\ n # 0 /\ Len(t) = n - 1 /\ n - 1 \in Nat
      /\ Head(s) = s[1]
      /\ \A i \in 1 .. n - 1 : t[i] = s[i + 1]
  BY HeadTailProperties, LenProperties
<1> HIDE DEF t
<1>2. PICK f : /\ DepthAfterAll(c, d, s) = f[n] /\ f[0] = d
               /\ \A i \in 1 .. n : f[i] = DepthAfter(c, f[i - 1], s[i])
  BY <1>1, DepthsExist, SMTT(60)
<1> DEFINE g == [i \in 0 .. n - 1 |-> f[i + 1]]
<1>3. g[0] = DepthAfter(c, d, Head(s))
  <2>1. 1 \in 1 .. n /\ 1 - 1 = 0 /\ 0 \in 0 .. n - 1 /\ 0 + 1 = 1 BY <1>1
  <2>2. g[0] = f[1] BY <2>1
  <2> HIDE DEF g
  <2> QED BY <1>1, <1>2, <2>1, <2>2
<1>4. \A i \in 1 .. n - 1 : g[i] = DepthAfter(c, g[i - 1], t[i])
  <2> TAKE i \in 1 .. n - 1
  <2>1. /\ i + 1 \in 1 .. n /\ (i + 1) - 1 = i /\ (i - 1) + 1 = i
        /\ i \in 0 .. n - 1 /\ i - 1 \in 0 .. n - 1
    BY <1>1
  <2>2. g[i] = f[i + 1] /\ g[i - 1] = f[i] BY <2>1
  <2>3. t[i] = s[i + 1] BY <1>1
  <2> HIDE DEF g
  <2> QED BY <1>2, <2>1, <2>2, <2>3
<1>5. g[n - 1] = f[n]
  <2>1. n - 1 \in 0 .. n - 1 /\ (n - 1) + 1 = n BY <1>1
  <2> QED BY <2>1
<1> HIDE DEF g
<1>6. DepthAfterAll(c, DepthAfter(c, d, Head(s)), t) = g[n - 1]
  BY <1>1, <1>3, <1>4, DepthsAgree
<1> QED BY <1>2, <1>5, <1>6 DEF t

\* A depth is a number whatever is applied.
LEMMA DepthAfterNat ==
    ASSUME NEW a \in PendingAction, NEW c, NEW d \in Nat
    PROVE  DepthAfter(c, d, a) \in Nat
<1>1. a.type \in ActionTypes BY DEF PendingAction
<1>2. d # 0 => d - 1 \in Nat OBVIOUS
<1> QED BY <1>1, <1>2 DEF DepthAfter, ActionTypes

LEMMA DepthAfterAllNat ==
    ASSUME NEW s \in Seq(PendingAction), NEW c, NEW d \in Nat
    PROVE  DepthAfterAll(c, d, s) \in Nat
<1> DEFINE n == Len(s)
<1>1. n \in Nat /\ \A i \in 1 .. n : s[i] \in PendingAction
  BY ElementOfSeq, LenProperties
<1>2. PICK f : /\ DepthAfterAll(c, d, s) = f[n] /\ f[0] = d
               /\ \A i \in 1 .. n : f[i] = DepthAfter(c, f[i - 1], s[i])
  BY <1>1, DepthsExist, SMTT(60)
<1> DEFINE T == {m \in Nat : m <= n => f[m] \in Nat}
<1>3. 0 \in T BY <1>2
<1>4. ASSUME NEW m \in Nat, m \in T PROVE m + 1 \in T
  <2> SUFFICES ASSUME m + 1 <= n PROVE f[m + 1] \in Nat
    OBVIOUS
  <2>1. m + 1 \in 1 .. n /\ (m + 1) - 1 = m /\ m <= n BY <1>1
  <2>2. f[m] \in Nat BY <1>4, <2>1
  <2>3. f[m + 1] = DepthAfter(c, f[m], s[m + 1]) BY <1>2, <2>1
  <2> QED BY <1>1, <2>1, <2>2, <2>3, DepthAfterNat
<1>5. n \in T
  <2> HIDE DEF T
  <2> QED BY <1>1, <1>3, <1>4, EveryNumber
<1> QED BY <1>1, <1>2, <1>5

-----------------------------------------------------------------------------
(***************************************************************************)
(* Nesting and dismissal                                                   *)
(***************************************************************************)
Makes(a, c) == a.client = c /\ a.type = "kSet"

Ends(j, c) == IF j = 0 THEN ~Known(c) ELSE Erases(Todo[j], c)

\* The entry of c is gone or will be: from the j-th action on, which erases it,
\* or from now on, nothing queued makes it again.
Ended(c) ==
    \E j \in 0 .. Len(Todo) :
        Ends(j, c) /\ \A i \in j + 1 .. Len(Todo) : ~Makes(Todo[i], c)

TypeOKH ==
    /\ balance \in [Clients -> Nat]
    /\ dismissed \in [Clients -> BOOLEAN]

AllEnded == \A c \in Clients : dismissed[c] => Ended(c)

HInv == IInv /\ TypeOKH /\ NeverRestoresEarly /\ AllEnded

\* The history variables add no step.
LEMMA StepH == NextH => Next
BY DEF NextH, SetH, RestoreH, DismissH, TouchH, WithdrawH, RimeThreadH, Next,
       ProcessMessage

\* The depth a client will reach is a number.
LEMMA DepthsAreNat ==
    ASSUME TypeOK, NEW c \in Clients
    PROVE  DepthNow(c) \in Nat /\ DepthAfterTodo(c) \in Nat
<1>1. DepthNow(c) \in Nat BY DEF TypeOK, DepthNow, Known, ClientState
<1> QED BY <1>1, TodoType, DepthAfterAllNat DEF DepthAfterTodo

\* A queued action counts on top of what is queued.
LEMMA PushDepth ==
    ASSUME TypeOK, NEW a \in PendingAction, Push(a), UNCHANGED batch,
           NEW c, UNCHANGED DepthNow(c)
    PROVE  DepthAfterTodo(c)' = DepthAfter(c, DepthAfterTodo(c), a)
<1>1. Todo \in Seq(PendingAction) /\ Todo' = Append(Todo, a)
  BY TodoType, QueuePush
<1> DEFINE s == Todo
           d == DepthNow(c)
<1>2. DepthAfterTodo(c)' = DepthAfterAll(c, d, Append(s, a))
  BY <1>1 DEF DepthAfterTodo
<1>3. DepthAfterTodo(c) = DepthAfterAll(c, d, s) BY DEF DepthAfterTodo
<1> HIDE DEF s, d
<1>4. s \in Seq(PendingAction) BY <1>1 DEF s
<1> QED BY <1>2, <1>3, <1>4, DepthOfPushed

\* An action that is applied to the depth no longer counts in the queue.
LEMMA ServeDepth ==
    ASSUME TypeOK, NEW type, Applying(type), NEW c,
           DepthNow(c)' = DepthAfter(c, DepthNow(c), Head(batch))
    PROVE  DepthAfterTodo(c)' = DepthAfterTodo(c)
<1>1. /\ Todo \in Seq(PendingAction) /\ Todo # <<>>
      /\ Head(Todo) = Head(batch) /\ Todo' = Tail(Todo)
  BY TodoType, QueueServe
<1> DEFINE s == Todo
           d == DepthNow(c)
<1>2. DepthAfterTodo(c)' = DepthAfterAll(c, DepthAfter(c, d, Head(s)), Tail(s))
  BY <1>1 DEF DepthAfterTodo
<1>3. DepthAfterTodo(c) = DepthAfterAll(c, d, s) BY DEF DepthAfterTodo
<1> HIDE DEF s, d
<1>4. s \in Seq(PendingAction) /\ s # <<>> BY <1>1 DEF s
<1> QED BY <1>2, <1>3, <1>4, DepthOfServed

LEMMA SameDepth ==
    ASSUME NEW c, UNCHANGED DepthNow(c), UNCHANGED Todo
    PROVE  UNCHANGED DepthAfterTodo(c)
BY DEF DepthAfterTodo

\* The depths after an entry is written or erased.
LEMMA DepthOfEntry ==
    ASSUME TypeOK, NEW c \in Clients, NEW st,
           client_states' = [client_states EXCEPT ![c] = st]
    PROVE  /\ DepthNow(c)' = IF st = NoState THEN 0 ELSE st.depth
           /\ \A d \in Clients : d # c => UNCHANGED DepthNow(d)
           /\ Known(c)' <=> st # NoState
           /\ \A d \in Clients : d # c => (Known(d)' <=> Known(d))
BY DEF TypeOK, DepthNow, Known

\* The depth of the entries that handlers find or make.
LEMMA DepthOf ==
    ASSUME IInv, NEW c \in Clients
    PROVE  /\ StateOf(c).depth = DepthNow(c) /\ StateOf(c) # NoState
           /\ \A text \in Texts \cup {NoText} :
                /\ [StateOf(c) EXCEPT !.context = text].depth = DepthNow(c)
                /\ [StateOf(c) EXCEPT !.context = text] # NoState
<1>1. StateOf(c).depth = DepthNow(c)
  BY DEF StateOf, DepthNow, NewClientState
<1>2. StateOf(c) \in ClientState BY StateOfOK
<1>3. ASSUME NEW text \in Texts \cup {NoText}
      PROVE  /\ [StateOf(c) EXCEPT !.context = text].depth = StateOf(c).depth
             /\ [StateOf(c) EXCEPT !.context = text] \in ClientState
  BY <1>2 DEF ClientState
<1> QED BY <1>1, <1>2, <1>3, NamesAssumption

\* A queued action does not make an entry that has ended, unless it is a set,
LEMMA PushKeepsEnded ==
    ASSUME TypeOK, NEW a \in PendingAction, Push(a), UNCHANGED batch,
           NEW c, Known(c)' <=> Known(c), ~Makes(a, c), Ended(c)
    PROVE  Ended(c)'
<1> DEFINE n == Len(Todo)
<1>1. Todo \in Seq(PendingAction) /\ Todo' = Append(Todo, a)
  BY TodoType, QueuePush
<1>2. /\ n \in Nat /\ Len(Todo)' = n + 1 /\ Todo'[n + 1] = a
      /\ \A i \in 1 .. n : Todo'[i] = Todo[i]
  BY <1>1
<1>3. PICK j \in 0 .. n :
        Ends(j, c) /\ \A i \in j + 1 .. n : ~Makes(Todo[i], c)
  BY DEF Ended
<1>4. Ends(j, c)' BY <1>2, <1>3 DEF Ends, Erases
<1>5. ASSUME NEW i \in j + 1 .. n + 1 PROVE ~Makes(Todo'[i], c)
  <2>1. i = n + 1 \/ (i \in j + 1 .. n /\ i \in 1 .. n) BY <1>2
  <2> QED BY <1>2, <1>3, <2>1
<1>6. j \in 0 .. n + 1 BY <1>2
<1> QED BY <1>2, <1>4, <1>5, <1>6 DEF Ended, Makes

\* one that erases ends it,
LEMMA PushEnds ==
    ASSUME TypeOK, NEW a \in PendingAction, Push(a), UNCHANGED batch,
           NEW c, Erases(a, c)
    PROVE  Ended(c)'
<1>1. Todo \in Seq(PendingAction) /\ Todo' = Append(Todo, a)
  BY TodoType, QueuePush
<1>2. PICK n \in Nat : Len(Todo)' = n + 1 /\ Todo'[n + 1] = a
  BY <1>1
<1>3. n + 1 \in 0 .. n + 1 /\ n + 1 # 0 BY <1>2
<1>4. Ends(n + 1, c)' BY <1>2, <1>3 DEF Ends, Erases
<1> QED BY <1>2, <1>3, <1>4 DEF Ended

\* and applying one keeps it ended when only sets make entries.
LEMMA ServeKeepsEnded ==
    ASSUME TypeOK, NEW type, Applying(type), NEW c,
           Erases(Head(batch), c) => ~Known(c)',
           ~Known(c) /\ ~Makes(Head(batch), c) => ~Known(c)',
           Ended(c)
    PROVE  Ended(c)'
<1> DEFINE n == Len(Todo)
<1>1. /\ Todo \in Seq(PendingAction) /\ Todo # <<>>
      /\ Head(Todo) = Head(batch) /\ Todo' = Tail(Todo)
  BY TodoType, QueueServe
<1>2. /\ n \in Nat /\ n # 0 /\ Len(Todo)' = n - 1 /\ Todo[1] = Head(batch)
      /\ \A i \in 1 .. n - 1 : Todo'[i] = Todo[i + 1]
  BY <1>1
<1>3. PICK j \in 0 .. n :
        Ends(j, c) /\ \A i \in j + 1 .. n : ~Makes(Todo[i], c)
  BY DEF Ended
<1>4. ASSUME NEW k \in Nat, k <= n - 1, j <= k + 1, Ends(k, c)'
      PROVE  Ended(c)'
  <2>1. ASSUME NEW i \in k + 1 .. n - 1 PROVE ~Makes(Todo'[i], c)
    <3>1. i \in 1 .. n - 1 /\ i + 1 \in j + 1 .. n BY <1>2, <1>4
    <3> QED BY <1>2, <1>3, <3>1
  <2>2. k \in 0 .. n - 1 BY <1>2, <1>4
  <2> QED BY <1>2, <1>4, <2>1, <2>2 DEF Ended, Makes
<1>5. CASE j <= 1
  <2>1. ~Known(c)'
    <3>1. CASE j = 0
      <4>1. 1 \in j + 1 .. n BY <1>2, <3>1
      <4> QED BY <1>2, <1>3, <3>1, <4>1 DEF Ends
    <3>2. CASE j = 1 BY <1>2, <1>3, <3>2 DEF Ends
    <3> QED BY <1>5, <3>1, <3>2
  <2>2. Ends(0, c)' BY <2>1 DEF Ends
  <2> QED BY <1>2, <1>4, <1>5, <2>2
<1>6. CASE ~(j <= 1)
  <2>1. /\ j - 1 \in Nat /\ j - 1 # 0 /\ j - 1 \in 1 .. n - 1 /\ j # 0
        /\ j - 1 <= n - 1 /\ j <= (j - 1) + 1 /\ (j - 1) + 1 = j
    BY <1>2, <1>6
  <2>2. Ends(j - 1, c)' BY <1>2, <1>3, <2>1 DEF Ends, Erases
  <2> QED BY <1>4, <2>1, <2>2
<1> QED BY <1>5, <1>6

LEMMA SameEnded ==
    ASSUME NEW c, UNCHANGED Todo, Known(c)' <=> Known(c), Ended(c)
    PROVE  Ended(c)'
BY DEF Ended, Ends, Erases, Makes

-----------------------------------------------------------------------------
HistoryOK == TypeOKH /\ NeverRestoresEarly /\ AllEnded

\* What a message asks for its client concerns no other.
LEMMA AskedOK ==
    ASSUME HInv, NEW c \in Clients, NEW n \in Nat, NEW ends \in BOOLEAN,
           Asks(c, n, ends),
           n <= DepthAfterTodo(c)', ends => Ended(c)',
           \A d \in Clients : d # c =>
                UNCHANGED DepthAfterTodo(d) /\ (Ended(d) => Ended(d)')
    PROVE  HistoryOK'
BY DEF HInv, TypeOKH, NeverRestoresEarly, AllEnded, HistoryOK, Asks

\* A message that queues an action: what it asks must be what the action does.
LEMMA PushedOK ==
    ASSUME HInv, NEW c \in Clients, NEW n \in Nat, NEW ends \in BOOLEAN,
           Asks(c, n, ends),
           NEW a \in PendingAction, a.client = c, Push(a), UNCHANGED batch,
           \A d \in Clients : UNCHANGED DepthNow(d),
           \A d \in Clients : d # c => (Known(d)' <=> Known(d)),
           n <= DepthAfter(c, DepthAfterTodo(c), a),
           ends => Ended(c)'
    PROVE  HistoryOK'
<1>0. TypeOK BY DEF HInv, IInv
<1>1. n <= DepthAfterTodo(c)' BY <1>0, PushDepth
<1>2. ASSUME NEW d \in Clients, d # c
      PROVE  UNCHANGED DepthAfterTodo(d) /\ (Ended(d) => Ended(d)')
  <2>1. DepthAfterTodo(d)' = DepthAfter(d, DepthAfterTodo(d), a)
    BY <1>0, PushDepth
  <2>2. DepthAfter(d, DepthAfterTodo(d), a) = DepthAfterTodo(d)
    BY <1>2 DEF DepthAfter
  <2>3. ~Makes(a, d) BY <1>2 DEF Makes
  <2> QED BY <1>0, <1>2, <2>1, <2>2, <2>3, PushKeepsEnded
<1> QED BY <1>1, <1>2, AskedOK

\* A message that queues nothing and keeps the depths.
LEMMA NotPushedOK ==
    ASSUME HInv, NEW c \in Clients, NEW n \in Nat, NEW ends \in BOOLEAN,
           Asks(c, n, ends), UNCHANGED Todo,
           \A d \in Clients : UNCHANGED DepthNow(d),
           \A d \in Clients : d # c => (Known(d)' <=> Known(d)),
           n <= balance[c], ends => Ended(c) /\ UNCHANGED Known(c)
    PROVE  HistoryOK'
<1>0. TypeOK BY DEF HInv, IInv
<1>1. \A d \in Clients : UNCHANGED DepthAfterTodo(d) BY SameDepth
<1>2. n <= DepthAfterTodo(c)'
  <2>1. balance[c] \in Nat /\ balance[c] <= DepthAfterTodo(c)
    BY DEF HInv, TypeOKH, NeverRestoresEarly
  <2>2. DepthAfterTodo(c) \in Nat BY <1>0, DepthsAreNat
  <2> QED BY <1>1, <2>1, <2>2
<1>3. ends => Ended(c)' BY SameEnded
<1>4. \A d \in Clients : d # c => (Ended(d) => Ended(d)') BY SameEnded
<1> QED BY <1>1, <1>2, <1>3, <1>4, AskedOK

\* A message writes entries of the depth they had.
LEMMA EntryKeepsDepth ==
    ASSUME TypeOK, NEW c \in Clients, NEW st, st # NoState,
           st.depth = DepthNow(c),
           client_states' = [client_states EXCEPT ![c] = st]
    PROVE  /\ \A d \in Clients : UNCHANGED DepthNow(d)
           /\ \A d \in Clients : d # c => (Known(d)' <=> Known(d))
           /\ Known(c)'
BY DepthOfEntry

LEMMA SameEntries ==
    UNCHANGED client_states =>
        \A d : UNCHANGED DepthNow(d) /\ UNCHANGED Known(d)
BY DEF DepthNow, Known

\* Every message keeps the nesting and the dismissals.
LEMMA MessageH ==
    ASSUME HInv, NEW c \in Clients,
           SetH(c) \/ RestoreH(c) \/ DismissH(c) \/ TouchH(c) \/ WithdrawH(c)
    PROVE  HistoryOK'
<1>0. /\ IInv /\ TypeOK /\ balance[c] \in Nat /\ dismissed[c] \in BOOLEAN
      /\ balance[c] <= DepthAfterTodo(c) /\ DepthAfterTodo(c) \in Nat
      /\ dismissed[c] => Ended(c)
  BY DepthsAreNat DEF HInv, IInv, TypeOKH, NeverRestoresEarly, AllEnded
<1>1. ASSUME NEW ascii \in BOOLEAN, NEW stack \in BOOLEAN,
             HandleSet(c, ascii, stack),
             Asks(c, IF stack THEN balance[c] + 1 ELSE balance[c], FALSE)
      PROVE  HistoryOK'
  <2> DEFINE a == [PlainAction("kSet", c) EXCEPT !.ascii = ascii, !.stack = stack]
             n == IF stack THEN balance[c] + 1 ELSE balance[c]
  <2>1. a \in PendingAction BY PlainActionOK DEF ActionTypes
  <2>2. a.client = c /\ a.type = "kSet" /\ a.stack = stack BY DEF PlainAction
  <2>3. /\ Push(a) /\ UNCHANGED batch
        /\ client_states' = [client_states EXCEPT ![c] = StateOf(c)]
    BY <1>1 DEF HandleSet
  <2>4. n \in Nat BY <1>0
  <2>5. n <= DepthAfter(c, DepthAfterTodo(c), a)
    <3> HIDE DEF a
    <3> QED BY <1>0, <2>2 DEF DepthAfter
  <2>6. /\ \A d \in Clients : UNCHANGED DepthNow(d)
        /\ \A d \in Clients : d # c => (Known(d)' <=> Known(d))
    BY <1>0, <2>3, DepthOf, EntryKeepsDepth
  <2>7. Asks(c, n, FALSE) BY <1>1
  <2> HIDE DEF a, n
  <2> QED BY <2>1, <2>2, <2>3, <2>4, <2>5, <2>6, <2>7, PushedOK
<1>2. CASE RestoreH(c)
  <2> DEFINE a == PlainAction("kRestore", c)
             n == IF balance[c] = 0 THEN 0 ELSE balance[c] - 1
  <2>1. a \in PendingAction BY PlainActionOK DEF ActionTypes
  <2>2. a.client = c /\ a.type = "kRestore" BY DEF PlainAction
  <2>3. /\ Asks(c, n, dismissed[c]) /\ UNCHANGED <<client_states, batch>>
        /\ Push(a) \/ UNCHANGED pending_actions
    BY <1>2 DEF RestoreH, HandleRestore
  <2>4. n \in Nat /\ n <= balance[c] BY <1>0
  <2>5. \A d \in Clients : UNCHANGED DepthNow(d) /\ UNCHANGED Known(d)
    BY <2>3, SameEntries
  <2>6. CASE Push(a)
    <3>1. n <= DepthAfter(c, DepthAfterTodo(c), a)
      <4> HIDE DEF a
      <4> QED BY <1>0, <2>2 DEF DepthAfter
    <3>2. Ended(c) => Ended(c)'
      <4>1. ~Makes(a, c) BY <2>2 DEF Makes
      <4> HIDE DEF a
      <4> QED BY <1>0, <2>1, <2>3, <2>5, <2>6, <4>1, PushKeepsEnded
    <3> HIDE DEF a, n
    <3> QED BY <1>0, <2>1, <2>2, <2>3, <2>4, <2>5, <2>6, <3>1, <3>2, PushedOK
  <2>7. CASE UNCHANGED pending_actions
    <3>1. UNCHANGED Todo BY <2>3, <2>7 DEF Todo
    <3> HIDE DEF n
    <3> QED BY <1>0, <2>3, <2>4, <2>5, <3>1, NotPushedOK
  <2> QED BY <2>3, <2>6, <2>7
<1>3. CASE DismissH(c)
  <2>1. PICK a \in PendingAction :
          /\ Push(a) /\ Erases(a, c)
          /\ UNCHANGED <<client_states, batch>>
    <3>1. CASE HandleUnregister(c)
      <4> DEFINE a == PlainAction("kUnregister", c)
      <4>1. a \in PendingAction BY PlainActionOK DEF ActionTypes
      <4>2. Erases(a, c) BY DEF PlainAction, Erases
      <4> QED BY <3>1, <4>1, <4>2 DEF HandleUnregister
    <3>2. ASSUME NEW restore \in BOOLEAN, HandleReset(c, restore)
          PROVE  \E a \in PendingAction :
                   /\ Push(a) /\ Erases(a, c)
                   /\ UNCHANGED <<client_states, batch>>
      <4> DEFINE a == [PlainAction("kReset", c) EXCEPT !.restore = restore]
      <4>1. a \in PendingAction BY PlainActionOK DEF ActionTypes
      <4>2. Erases(a, c) BY DEF PlainAction, Erases
      <4>3. Push(a) /\ UNCHANGED <<client_states, batch>>
        BY <3>2 DEF HandleReset
      <4> HIDE DEF a
      <4> QED BY <4>1, <4>2, <4>3
    <3> QED BY <1>3, <3>1, <3>2 DEF DismissH
  <2>2. Asks(c, 0, TRUE) BY <1>3 DEF DismissH
  <2>3. \A d \in Clients : UNCHANGED DepthNow(d) /\ UNCHANGED Known(d)
    BY <2>1, SameEntries
  <2>4. a.client = c /\ DepthAfter(c, DepthAfterTodo(c), a) \in Nat
    BY <1>0, <2>1, DepthAfterNat DEF Erases
  <2>5. 0 <= DepthAfter(c, DepthAfterTodo(c), a) BY <2>4
  <2>6. Ended(c)' BY <1>0, <2>1, PushEnds
  <2>7. \A d \in Clients : UNCHANGED DepthNow(d) /\ (Known(d)' <=> Known(d))
    BY <2>3
  <2>8. 0 \in Nat /\ TRUE \in BOOLEAN OBVIOUS
  <2> QED BY <2>1, <2>2, <2>4, <2>5, <2>6, <2>7, <2>8, PushedOK
<1>4. ASSUME NEW st, st # NoState, st.depth = DepthNow(c),
             client_states' = [client_states EXCEPT ![c] = st],
             UNCHANGED <<pending_actions, batch>>,
             \/ Asks(c, balance[c], FALSE)
             \/ Asks(c, balance[c], dismissed[c]) /\ Known(c)
      PROVE  HistoryOK'
  <2>1. UNCHANGED Todo BY <1>4 DEF Todo
  <2>2. /\ \A d \in Clients : UNCHANGED DepthNow(d)
        /\ \A d \in Clients : d # c => (Known(d)' <=> Known(d))
        /\ Known(c)'
    BY <1>0, <1>4, EntryKeepsDepth
  <2>3. balance[c] <= balance[c] BY <1>0
  <2>4. CASE Asks(c, balance[c], FALSE)
    BY <1>0, <2>1, <2>2, <2>3, <2>4, NotPushedOK
  <2>5. CASE Asks(c, balance[c], dismissed[c]) /\ Known(c)
    <3>1. UNCHANGED Known(c) BY <2>2, <2>5 DEF Known
    <3> QED BY <1>0, <2>1, <2>2, <2>3, <2>5, <3>1, NotPushedOK
  <2> QED BY <1>4, <2>4, <2>5
<1>5. CASE TouchH(c)
  <2>1. Asks(c, balance[c], FALSE) BY <1>5 DEF TouchH
  <2>2. CASE HandleActivate(c)
    BY <1>0, <1>4, <2>1, <2>2, DepthOf DEF HandleActivate
  <2>3. ASSUME NEW text \in Texts, HandleContext(c, text)
        PROVE  HistoryOK'
    <3> DEFINE st == [StateOf(c) EXCEPT !.context = text]
    <3>1. st # NoState /\ st.depth = DepthNow(c) BY <1>0, DepthOf
    <3>2. /\ client_states' = [client_states EXCEPT ![c] = st]
          /\ UNCHANGED <<pending_actions, batch>>
      BY <2>3 DEF HandleContext
    <3> HIDE DEF st
    <3> QED BY <1>4, <2>1, <3>1, <3>2
  <2> QED BY <1>5, <2>2, <2>3 DEF TouchH
<1>6. CASE WithdrawH(c)
  <2>1. /\ Asks(c, balance[c], dismissed[c])
        /\ UNCHANGED <<pending_actions, batch>>
    BY <1>6 DEF WithdrawH, HandleClearContext, HandleDeactivate, history, Asks,
                HInv, TypeOKH
  <2>2. CASE HandleClearContext(c) /\ Known(c)
    <3> DEFINE st == [StateOf(c) EXCEPT !.context = NoText]
    <3>1. st # NoState /\ st.depth = DepthNow(c) BY <1>0, DepthOf
    <3>2. client_states' = [client_states EXCEPT ![c] = st]
      BY <2>2 DEF HandleClearContext, StateOf
    <3> HIDE DEF st
    <3> QED BY <1>4, <2>1, <2>2, <3>1, <3>2
  <2>3. CASE UNCHANGED client_states
    <3>1. \A d \in Clients : UNCHANGED DepthNow(d) /\ UNCHANGED Known(d)
      BY <2>3, SameEntries
    <3>2. UNCHANGED Todo /\ balance[c] <= balance[c] BY <1>0, <2>1 DEF Todo
    <3> QED BY <1>0, <2>1, <3>1, <3>2, NotPushedOK
  <2> QED
    BY <1>6, <2>2, <2>3 DEF WithdrawH, HandleClearContext, HandleDeactivate
<1> QED
  BY <1>1, <1>2, <1>3, <1>5, <1>6 DEF SetH

\* The actions of Process move from the queue into the depths.
LEMMA ProcessH ==
    ASSUME HInv, RimeThreadH
    PROVE  HistoryOK'
<1>0. /\ IInv /\ TypeOK
      /\ RimeThread /\ UNCHANGED <<balance, dismissed>>
  BY DEF HInv, IInv, RimeThreadH, history
<1>1. ASSUME \A d \in Clients : UNCHANGED DepthAfterTodo(d) /\ (Ended(d) => Ended(d)')
      PROVE  HistoryOK'
  BY <1>0, <1>1 DEF HInv, TypeOKH, NeverRestoresEarly, AllEnded, HistoryOK
<1> DEFINE a == Head(batch)
           e == a.client
<1>2. ASSUME NEW type, Applying(type),
             \A d \in Clients : DepthNow(d)' = DepthAfter(d, DepthNow(d), a),
             \A d \in Clients : Erases(a, d) => ~Known(d)',
             \A d \in Clients : ~Known(d) /\ ~Makes(a, d) => ~Known(d)'
      PROVE  HistoryOK'
  <2>1. \A d \in Clients : UNCHANGED DepthAfterTodo(d)
    BY <1>0, <1>2, ServeDepth
  <2>2. \A d \in Clients : Ended(d) => Ended(d)'
    BY <1>0, <1>2, ServeKeepsEnded
  <2> QED BY <1>1, <2>1, <2>2
<1>3. ASSUME NEW type, Applying(type)
      PROVE  /\ a \in PendingAction /\ e \in Clients /\ a.type = type
             /\ a.stack \in BOOLEAN /\ ascii_mode[current] \in BOOLEAN
             /\ \A d \in Clients : d # e => ~Erases(a, d) /\ ~Makes(a, d)
             /\ \A d \in Clients : d # e =>
                    DepthAfter(d, DepthNow(d), a) = DepthNow(d)
  <2>1. a \in PendingAction /\ ascii_mode[current] \in BOOLEAN
    BY <1>0, <1>3, ApplyingOK
  <2>2. e \in Clients /\ a.stack \in BOOLEAN BY <2>1 DEF PendingAction
  <2>3. a.type = type BY <1>3 DEF Applying
  <2> HIDE DEF a
  <2> QED BY <2>1, <2>2, <2>3 DEF Erases, Makes, DepthAfter
\* A step that writes or erases the entry of its client.
<1>4. ASSUME NEW type, Applying(type), NEW st,
             client_states' = [client_states EXCEPT ![e] = st],
             DepthAfter(e, DepthNow(e), a) = IF st = NoState THEN 0 ELSE st.depth,
             Erases(a, e) => st = NoState,
             ~Known(e) /\ ~Makes(a, e) => st = NoState
      PROVE  HistoryOK'
  <2>1. /\ e \in Clients
        /\ \A d \in Clients : d # e => ~Erases(a, d) /\ ~Makes(a, d)
        /\ \A d \in Clients : d # e =>
                DepthAfter(d, DepthNow(d), a) = DepthNow(d)
    BY <1>3, <1>4
  <2>2. PICK x \in Clients : x = e BY <2>1
  <2> HIDE DEF a
  <2>3. /\ DepthNow(x)' = IF st = NoState THEN 0 ELSE st.depth
        /\ Known(x)' <=> st # NoState
        /\ \A d \in Clients : d # x => UNCHANGED DepthNow(d)
        /\ \A d \in Clients : d # x => (Known(d)' <=> Known(d))
    BY <1>0, <1>4, <2>2, DepthOfEntry
  <2>4. /\ DepthAfter(x, DepthNow(x), a) = IF st = NoState THEN 0 ELSE st.depth
        /\ Erases(a, x) => st = NoState
        /\ ~Known(x) /\ ~Makes(a, x) => st = NoState
        /\ \A d \in Clients : d # x => ~Erases(a, d) /\ ~Makes(a, d)
        /\ \A d \in Clients : d # x =>
                DepthAfter(d, DepthNow(d), a) = DepthNow(d)
    BY <1>4, <2>1, <2>2
  <2> HIDE DEF e
  <2>5. \A d \in Clients : DepthNow(d)' = DepthAfter(d, DepthNow(d), a)
    BY <2>3, <2>4
  <2>6. \A d \in Clients : Erases(a, d) => ~Known(d)'
    BY <2>3, <2>4
  <2>7. \A d \in Clients : ~Known(d) /\ ~Makes(a, d) => ~Known(d)'
    BY <2>3, <2>4
  <2> QED BY <1>2, <1>4, <2>5, <2>6, <2>7
<1>5. CASE ApplySet
  <2>1. Applying("kSet") BY <1>5 DEF ApplySet
  <2>2. a.type = "kSet" /\ e \in Clients BY <1>3, <2>1
  <2> DEFINE st == AfterSet(StateOf(e), a.stack, ascii_mode[current])
  <2>3. client_states' = [client_states EXCEPT ![e] = st]
    BY <1>5 DEF ApplySet
  <2>4. st \in ClientState
    BY <1>0, <1>3, <2>1, <2>2, StateOfOK, AfterSetOK
  <2>5. st.depth = IF a.stack THEN DepthNow(e) + 1 ELSE DepthNow(e)
    <3>1. StateOf(e) \in ClientState /\ StateOf(e).depth = DepthNow(e)
      BY <1>0, <2>2, StateOfOK, DepthOf
    <3> QED BY <3>1 DEF AfterSet, ClientState
  <2>6. st # NoState BY <2>4, NamesAssumption
  <2>7. DepthAfter(e, DepthNow(e), a) = st.depth
    <3> HIDE DEF a, st
    <3> QED BY <2>2, <2>5 DEF DepthAfter
  <2>8. ~Erases(a, e) /\ Makes(a, e) BY <2>2 DEF Erases, Makes
  <2> HIDE DEF a, st
  <2> QED BY <1>4, <2>1, <2>3, <2>6, <2>7, <2>8
<1>6. CASE ApplyRestore
  <2>1. Applying("kRestore") BY <1>6 DEF ApplyRestore
  <2>2. a.type = "kRestore" /\ e \in Clients BY <1>3, <2>1
  <2>3. ~Erases(a, e) /\ ~Makes(a, e) BY <2>2 DEF Erases, Makes
  <2>4. DepthAfter(e, DepthNow(e), a)
            = IF DepthNow(e) = 0 THEN 0 ELSE DepthNow(e) - 1
    <3> HIDE DEF a
    <3> QED BY <2>2 DEF DepthAfter
  <2>5. CASE RestoreApplies(e)
    <3> DEFINE st == AfterRestore(StateOf(e))
    <3>1. client_states' = [client_states EXCEPT ![e] = st]
      BY <1>6, <2>5 DEF ApplyRestore, RestoreApplies, StateOf
    <3>2. /\ StateOf(e) \in ClientState /\ StateOf(e).depth = DepthNow(e)
          /\ DepthNow(e) > 0
      BY <1>0, <2>2, <2>5, StateOfOK, DepthOf
         DEF RestoreApplies, DepthNow, Known
    <3>3. st.depth = DepthNow(e) - 1 /\ st \in ClientState
      BY <3>2, AfterRestoreOK DEF AfterRestore, ClientState
    <3>4. st # NoState /\ DepthNow(e) # 0 BY <3>2, <3>3, NamesAssumption
    <3>5. Known(e) BY <2>5 DEF RestoreApplies
    <3> HIDE DEF a, st
    <3> QED BY <1>4, <2>1, <2>3, <2>4, <3>1, <3>3, <3>4, <3>5
  <2>6. CASE ~RestoreApplies(e)
    <3>1. UNCHANGED client_states BY <1>6, <2>6 DEF ApplyRestore
    <3>2. DepthNow(e) = 0
      <4>1. DepthNow(e) \in Nat BY <1>0, <2>2, DepthsAreNat
      <4> QED BY <2>6, <4>1 DEF RestoreApplies, DepthNow
    <3>3. \A d \in Clients : DepthNow(d)' = DepthAfter(d, DepthNow(d), a)
      <4>1. \A d \in Clients : d # e => DepthAfter(d, DepthNow(d), a) = DepthNow(d)
        BY <1>3, <2>1
      <4>2. \A d \in Clients : UNCHANGED DepthNow(d) BY <3>1, SameEntries
      <4> HIDE DEF a, e
      <4> QED BY <2>4, <3>2, <4>1, <4>2
    <3>4. \A d \in Clients : ~Erases(a, d) /\ UNCHANGED Known(d)
      BY <2>2, <3>1, SameEntries DEF Erases
    <3> QED BY <1>2, <2>1, <3>3, <3>4
  <2> QED BY <2>5, <2>6
<1>7. ASSUME NEW type \in {"kReset", "kUnregister"}, Applying(type), Erase(e)
      PROVE  HistoryOK'
  <2>1. a.type = type BY <1>3, <1>7
  <2>2. DepthAfter(e, DepthNow(e), a) = 0
    <3> HIDE DEF a
    <3> QED BY <2>1 DEF DepthAfter
  <2> HIDE DEF a
  <2> QED BY <1>4, <1>7, <2>2 DEF Erase
<1>8. CASE ApplyReset \/ ApplyUnregister
  BY <1>7, <1>8 DEF ApplyReset, ApplyUnregister
<1>9. CASE FinishProcess
  <2>1. UNCHANGED client_states /\ UNCHANGED Todo
    BY <1>9 DEF FinishProcess, Todo
  <2>2. \A d \in Clients : UNCHANGED DepthNow(d) /\ UNCHANGED Known(d)
    BY <2>1, SameEntries
  <2> QED BY <1>1, <2>1, <2>2, SameDepth, SameEnded
<1> QED BY <1>0, <1>5, <1>6, <1>8, <1>9 DEF RimeThread, ApplyAction

LEMMA InductiveH == HInv /\ [NextH]_varsH => HInv'
<1> SUFFICES ASSUME HInv, [NextH]_varsH PROVE HInv'
  OBVIOUS
<1>1. IInv'
  BY StepH, Inductive DEF HInv, varsH, vars
<1>2. ASSUME NEW c \in Clients,
             SetH(c) \/ RestoreH(c) \/ DismissH(c) \/ TouchH(c) \/ WithdrawH(c)
      PROVE  HInv'
  BY <1>1, <1>2, MessageH DEF HInv, HistoryOK
<1>3. CASE RimeThreadH
  BY <1>1, <1>3, ProcessH DEF HInv, HistoryOK
<1>4. ASSUME \/ \E s \in Sessions : TakePendingActions(s) \/ UserToggle(s)
             \/ UNCHANGED vars,
             UNCHANGED history
      PROVE  HInv'
  <2>1. UNCHANGED <<client_states, balance, dismissed>>
    BY <1>4 DEF TakePendingActions, UserToggle, vars, history
  <2>2. UNCHANGED Todo
    <3>1. ASSUME NEW s \in Sessions, TakePendingActions(s)
          PROVE  UNCHANGED Todo
      <4>1. batch = <<>>
        BY <3>1, NamesAssumption DEF TakePendingActions, HInv, IInv, TypeOK
      <4> QED BY <3>1, <4>1, QueueTake DEF TakePendingActions, HInv, IInv
    <3>2. ASSUME NEW s \in Sessions, UserToggle(s)
          PROVE  UNCHANGED Todo
      BY <3>2 DEF UserToggle, Todo
    <3>3. CASE UNCHANGED vars BY <3>3 DEF vars, Todo
    <3> QED BY <1>4, <3>1, <3>2, <3>3
  <2>3. \A d \in Clients : UNCHANGED DepthNow(d) /\ UNCHANGED Known(d)
    BY <2>1, SameEntries
  <2>4. \A d \in Clients : UNCHANGED DepthAfterTodo(d) /\ (Ended(d) => Ended(d)')
    BY <2>2, <2>3, SameDepth, SameEnded
  <2> QED BY <1>1, <2>1, <2>4 DEF HInv, TypeOKH, NeverRestoresEarly, AllEnded
<1> QED BY <1>2, <1>3, <1>4 DEF NextH, varsH

LEMMA InitiallyH == InitH => HInv
<1> SUFFICES ASSUME InitH PROVE HInv
  OBVIOUS
<1>1. IInv /\ TypeOK BY Initially DEF InitH, IInv
<1>2. TypeOKH /\ AllEnded BY DEF InitH, TypeOKH, AllEnded
<1>3. NeverRestoresEarly
  <2> SUFFICES ASSUME NEW c \in Clients PROVE balance[c] <= DepthAfterTodo(c)
    BY DEF NeverRestoresEarly
  <2>1. DepthAfterTodo(c) \in Nat BY <1>1, DepthsAreNat
  <2>2. balance[c] = 0 BY DEF InitH
  <2> QED BY <2>1, <2>2
<1> QED BY <1>1, <1>2, <1>3 DEF HInv

LEMMA EndedLeavesNothing == HInv => DismissedLeavesNothing
<1> SUFFICES ASSUME HInv, NEW c \in Clients, dismissed[c],
                    \A i \in DOMAIN Todo : Todo[i].client # c
             PROVE  ~Known(c)
  BY DEF DismissedLeavesNothing
<1>1. Todo \in Seq(PendingAction) BY TodoType DEF HInv, IInv
<1>2. Len(Todo) \in Nat /\ DOMAIN Todo = 1 .. Len(Todo) BY <1>1
<1>3. PICK j \in 0 .. Len(Todo) : Ends(j, c) BY DEF HInv, AllEnded, Ended
<1>4. j = 0 \/ j \in DOMAIN Todo BY <1>2
<1> QED BY <1>3, <1>4 DEF Ends, Erases

\* No editor gets its base back before it has balanced all of its sets, however
\* its messages and the keys interleave.
THEOREM NoEarlyRestore == SpecH => []NeverRestoresEarly
<1>1. HInv => NeverRestoresEarly BY DEF HInv
<1> QED BY <1>1, InitiallyH, InductiveH, PTL DEF SpecH

\* A reset or an unregister is final: nothing the editor sent before it, and no
\* restore after it, leaves an entry behind once the queue is applied.
THEOREM DismissalIsFinal == SpecH => []DismissedLeavesNothing
BY InitiallyH, InductiveH, EndedLeavesNothing, PTL DEF SpecH
=============================================================================
