----------------------------- MODULE ImeBridge -----------------------------
(***************************************************************************)
(* The IME bridge (src/src/ime_bridge.cc): editors send messages over a    *)
(* socket, one detached thread per connection handles them, and the rime   *)
(* thread applies what they ask of ascii_mode when the next key arrives.   *)
(*                                                                         *)
(* Every access of the server's state is a critical section of mutex_, so  *)
(* the handlers interleave with the rime thread at that grain.  Rime's     *)
(* sessions share one thread: at most one of them is inside                *)
(* ImeBridge::Process at a time (current).                                 *)
(***************************************************************************)
EXTENDS Naturals, Sequences

CONSTANTS
    Clients,        \* client keys, "app:instance"
    Sessions,       \* rime sessions, each with an ImeBridge processor
    Texts,          \* what an editor reports around its cursor
    NoClient,       \* the empty active_client_
    NoSession,      \* no session is processing a key
    NoState,        \* client_states_ has no entry for the key
    NoText,         \* context_valid is false
    MaxPending,     \* bound: actions queued or taken, not yet applied
    MaxDepth        \* bound: an editor at this depth sends no further set

ClientState ==
    [ has_initial   : BOOLEAN,
      initial_state : BOOLEAN,
      has_base      : BOOLEAN,
      base          : BOOLEAN,
      depth         : Nat,
      context       : Texts \cup {NoText} ]

ActionTypes == {"kSet", "kRestore", "kReset", "kUnregister"}

PendingAction ==
    [ type    : ActionTypes,
      client  : Clients,
      ascii   : BOOLEAN,
      stack   : BOOLEAN,
      restore : BOOLEAN ]

ASSUME NamesAssumption ==
    /\ NoClient \notin Clients
    /\ NoSession \notin Sessions
    /\ NoText \notin Texts
    /\ NoState \notin ClientState

ASSUME BoundsAssumption == MaxPending \in Nat /\ MaxDepth \in Nat

VARIABLES
    client_states,      \* client_states_
    active_client,      \* active_client_
    pending_actions,    \* pending_actions_
    batch,              \* the local queue of ApplyPendingActions
    current,            \* the session whose Process is running
    ascii_mode          \* the ascii_mode option of every session's context

vars == <<client_states, active_client, pending_actions, batch, current,
          ascii_mode>>

(***************************************************************************)
(* Client entries                                                          *)
(***************************************************************************)
NewClientState ==
    [ has_initial |-> FALSE, initial_state |-> TRUE, has_base |-> FALSE,
      base |-> FALSE, depth |-> 0, context |-> NoText ]

Known(c) == client_states[c] # NoState

\* client_states_[c], which makes the entry when there is none
StateOf(c) == IF Known(c) THEN client_states[c] ELSE NewClientState

CycleOpen(c) == Known(c) /\ client_states[c].depth > 0

\* Mutant: a nested set does not count.
AfterSetWithoutNesting(st, stack, now) ==
    [st EXCEPT !.has_initial   = TRUE,
               !.initial_state = IF st.has_initial THEN @ ELSE now,
               !.has_base      = IF stack THEN TRUE ELSE @,
               !.base          = IF stack /\ st.depth = 0 THEN now ELSE @,
               !.depth         = IF stack THEN 1 ELSE @]

\* Mutant: every set overwrites the mode the editor started in.
AfterSetEveryTime(st, stack, now) ==
    [st EXCEPT !.has_initial   = TRUE,
               !.initial_state = now,
               !.has_base      = IF stack /\ st.depth = 0 THEN TRUE ELSE @,
               !.base          = IF stack /\ st.depth = 0 THEN now ELSE @,
               !.depth         = IF stack THEN @ + 1 ELSE @]

\* A set applied while ascii_mode is `now': the first one of the entry saves
\* initial_state, the first one of a cycle saves base.
AfterSet(st, stack, now) ==
    [st EXCEPT !.has_initial   = TRUE,
               !.initial_state = IF st.has_initial THEN @ ELSE now,
               !.has_base      = IF stack /\ st.depth = 0 THEN TRUE ELSE @,
               !.base          = IF stack /\ st.depth = 0 THEN now ELSE @,
               !.depth         = IF stack THEN @ + 1 ELSE @]

ClosesCycle(st) == st.depth = 1 /\ st.has_base

\* Mutant: the base is kept when its cycle ends.
AfterRestoreKeepingBase(st) == [st EXCEPT !.depth = @ - 1]

AfterRestore(st) ==
    [st EXCEPT !.depth    = @ - 1,
               !.has_base = IF ClosesCycle(st) THEN FALSE ELSE @]

-----------------------------------------------------------------------------
Init ==
    /\ client_states = [c \in Clients |-> NoState]
    /\ active_client = NoClient
    /\ pending_actions = <<>>
    /\ batch = <<>>
    /\ current = NoSession
    /\ ascii_mode = [s \in Sessions |-> FALSE]

(***************************************************************************)
(* The connection threads.  Any client's message may be handled next: this *)
(* covers every interleaving of the threads, lost and repeated messages.   *)
(***************************************************************************)
Push(a) ==
    /\ Len(batch) + Len(pending_actions) < MaxPending
    /\ pending_actions' = Append(pending_actions, a)

PlainAction(type, c) ==
    [ type |-> type, client |-> c, ascii |-> TRUE, stack |-> TRUE,
      restore |-> TRUE ]

HandleSet(c, ascii, stack) ==
    /\ StateOf(c).depth < MaxDepth
    /\ client_states' = [client_states EXCEPT ![c] = StateOf(c)]
    /\ Push([PlainAction("kSet", c) EXCEPT !.ascii = ascii, !.stack = stack])
    /\ UNCHANGED <<active_client, batch, current, ascii_mode>>

\* Judged by the depth at arrival, which counts applied actions only.
HandleRestore(c) ==
    /\ IF CycleOpen(c) THEN Push(PlainAction("kRestore", c))
                       ELSE UNCHANGED pending_actions
    /\ UNCHANGED <<client_states, active_client, batch, current, ascii_mode>>

HandleReset(c, restore) ==
    /\ Push([PlainAction("kReset", c) EXCEPT !.restore = restore])
    /\ UNCHANGED <<client_states, active_client, batch, current, ascii_mode>>

\* Mutant: the entry is erased at once, overtaking the client's queued sets.
HandleUnregisterAtOnce(c) ==
    /\ client_states' = [client_states EXCEPT ![c] = NoState]
    /\ UNCHANGED <<active_client, pending_actions, batch, current, ascii_mode>>

HandleUnregister(c) ==
    /\ Push(PlainAction("kUnregister", c))
    /\ UNCHANGED <<client_states, active_client, batch, current, ascii_mode>>

HandleContext(c, text) ==
    /\ client_states' = [client_states EXCEPT
                            ![c] = [StateOf(c) EXCEPT !.context = text]]
    /\ UNCHANGED <<active_client, pending_actions, batch, current, ascii_mode>>

\* Mutant: the text outlives the message that withdraws it.
HandleClearContextKeepingText(c) ==
    /\ active_client' = IF Known(c) /\ active_client = c
                        THEN NoClient ELSE active_client
    /\ UNCHANGED <<client_states, pending_actions, batch, current, ascii_mode>>

HandleClearContext(c) ==
    /\ IF Known(c)
       THEN /\ client_states' = [client_states EXCEPT ![c].context = NoText]
            /\ active_client' = IF active_client = c THEN NoClient
                                                     ELSE active_client
       ELSE UNCHANGED <<client_states, active_client>>
    /\ UNCHANGED <<pending_actions, batch, current, ascii_mode>>

HandleActivate(c) ==
    /\ client_states' = [client_states EXCEPT ![c] = StateOf(c)]
    /\ active_client' = c
    /\ UNCHANGED <<pending_actions, batch, current, ascii_mode>>

HandleDeactivate(c) ==
    /\ active_client' = IF active_client = c THEN NoClient ELSE active_client
    /\ UNCHANGED <<client_states, pending_actions, batch, current, ascii_mode>>

ProcessMessage(c) ==
    \/ \E ascii, stack \in BOOLEAN : HandleSet(c, ascii, stack)
    \/ HandleRestore(c)
    \/ \E restore \in BOOLEAN : HandleReset(c, restore)
    \/ HandleUnregister(c)
    \/ \E text \in Texts : HandleContext(c, text)
    \/ HandleClearContext(c)
    \/ HandleActivate(c)
    \/ HandleDeactivate(c)

(***************************************************************************)
(* The rime thread.  A key event of session s takes the whole queue, and   *)
(* applies it to the context of s whichever session the editor meant.      *)
(***************************************************************************)
\* Mutant: the queue is copied, not swapped with an empty one.
TakePendingActionsByCopy(s) ==
    /\ current = NoSession
    /\ current' = s
    /\ batch' = pending_actions
    /\ UNCHANGED <<client_states, active_client, pending_actions, ascii_mode>>

TakePendingActions(s) ==
    /\ current = NoSession
    /\ current' = s
    /\ batch' = pending_actions
    /\ pending_actions' = <<>>
    /\ UNCHANGED <<client_states, active_client, ascii_mode>>

\* One turn of the loop of ApplyPendingActions: get_option, ApplyAction and
\* set_option are one step, for only this thread writes the option.
Applying(type) ==
    /\ batch # <<>>
    /\ Head(batch).type = type
    /\ batch' = Tail(batch)
    /\ UNCHANGED <<active_client, pending_actions, current>>

SetOption(ascii) == ascii_mode' = [ascii_mode EXCEPT ![current] = ascii]

ApplySet ==
    LET a == Head(batch)
    IN  /\ Applying("kSet")
        /\ client_states' =
             [client_states EXCEPT ![a.client] =
                AfterSet(StateOf(a.client), a.stack, ascii_mode[current])]
        /\ SetOption(a.ascii)

\* Mutant: a restore counts down whatever the depth is when it is applied.
RestoreAppliesUnchecked(c) == Known(c)

RestoreApplies(c) == Known(c) /\ client_states[c].depth > 0

ApplyRestore ==
    LET c  == Head(batch).client
        st == client_states[c]
    IN  /\ Applying("kRestore")
        /\ IF RestoreApplies(c)
           THEN /\ client_states' =
                     [client_states EXCEPT ![c] = AfterRestore(st)]
                /\ IF ClosesCycle(st) THEN SetOption(st.base)
                                      ELSE UNCHANGED ascii_mode
           ELSE UNCHANGED <<client_states, ascii_mode>>

Erase(c) == client_states' = [client_states EXCEPT ![c] = NoState]

ApplyReset ==
    LET a  == Head(batch)
        st == client_states[a.client]
    IN  /\ Applying("kReset")
        /\ Erase(a.client)
        /\ IF Known(a.client) /\ a.restore /\ st.has_initial
           THEN SetOption(st.initial_state)
           ELSE UNCHANGED ascii_mode

ApplyUnregister ==
    /\ Applying("kUnregister")
    /\ Erase(Head(batch).client)
    /\ UNCHANGED ascii_mode

ApplyAction == ApplySet \/ ApplyRestore \/ ApplyReset \/ ApplyUnregister

\* Mutant: the key is held until no editor has anything queued.
FinishProcessWhenQuiet ==
    /\ current # NoSession
    /\ batch = <<>> /\ pending_actions = <<>>
    /\ current' = NoSession
    /\ UNCHANGED <<client_states, active_client, pending_actions, batch,
                   ascii_mode>>

FinishProcess ==
    /\ current # NoSession
    /\ batch = <<>>
    /\ current' = NoSession
    /\ UNCHANGED <<client_states, active_client, pending_actions, batch,
                   ascii_mode>>

\* The user, or another part of rime, switches the mode of a session.
UserToggle(s) ==
    /\ current = NoSession
    /\ ascii_mode' = [ascii_mode EXCEPT ![s] = ~@]
    /\ UNCHANGED <<client_states, active_client, pending_actions, batch,
                   current>>

\* What AutoSpacer and the copilot read, under mutex_, on the rime thread.
GetActiveContext ==
    IF active_client = NoClient \/ ~Known(active_client)
    THEN NoText
    ELSE client_states[active_client].context

\* All actions queued and not yet applied, in the order they will be.
Todo == batch \o pending_actions

-----------------------------------------------------------------------------
RimeThread == ApplyAction \/ FinishProcess

Next ==
    \/ \E c \in Clients : ProcessMessage(c)
    \/ \E s \in Sessions : TakePendingActions(s) \/ UserToggle(s)
    \/ RimeThread

\* Process never blocks but for mutex_, which is held for bounded steps.  No
\* editor and no user is obliged to do anything.
Spec == Init /\ [][Next]_vars /\ WF_vars(RimeThread)

-----------------------------------------------------------------------------
\* The state is of the declared shape.  No sequence of messages and keys drives
\* a nesting depth below zero, though a restore is judged at arrival and applied
\* later (ime_bridge.cc:265, :470), and actions are applied only within the
\* Process that took them.
TypeOK ==
    /\ client_states \in [Clients -> ClientState \cup {NoState}]
    /\ active_client \in Clients \cup {NoClient}
    /\ pending_actions \in Seq(PendingAction)
    /\ batch \in Seq(PendingAction)
    /\ current \in Sessions \cup {NoSession}
    /\ ascii_mode \in [Sessions -> BOOLEAN]
    /\ batch # <<>> => current \in Sessions

\* A client holds a base exactly while a cycle of sets is open, and then its
\* initial mode is known too: the restore that closes a cycle always has a mode
\* to go back to, and no base survives its cycle (ime_bridge.cc:444, :473).
BaseIffDepth ==
    \A c \in Clients : Known(c) =>
        /\ client_states[c].has_base <=> client_states[c].depth > 0
        /\ client_states[c].has_base => client_states[c].has_initial

\* The mode an editor found stays the same while its entry exists, whatever is
\* set, restored, nested or toggled (ime_bridge.h:23).
InitialStateStable ==
    [][\A c \in Clients :
        (/\ Known(c) /\ client_states[c].has_initial
         /\ client_states'[c] # NoState)
        => /\ client_states'[c].has_initial
           /\ client_states'[c].initial_state = client_states[c].initial_state
      ]_vars

\* A key event is never held up by editors that keep sending: Process works
\* off the queue it took and returns (ime_bridge.cc:612).
KeyEventEnds == current # NoSession ~> current = NoSession
=============================================================================
