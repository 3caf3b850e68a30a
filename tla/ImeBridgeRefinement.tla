------------------------ MODULE ImeBridgeRefinement ------------------------
(***************************************************************************)
(* ImeBridge implements AsciiRequests.  The queue the connection threads   *)
(* fill and the batch the rime thread works off are one queue of requests. *)
(***************************************************************************)
EXTENDS ImeBridge

CONSTANT Unset

ASSUME UnsetAssumption == Unset \notin BOOLEAN

\* One entry of client_states, as the requests see it.
EntryLevel(st) == IF st = NoState THEN 0 ELSE st.depth

EntryBase(st) == IF st # NoState /\ st.has_base THEN st.base ELSE Unset

EntryInitial(st) ==
    IF st # NoState /\ st.has_initial THEN st.initial_state ELSE Unset

LevelOf == [c \in Clients |-> EntryLevel(client_states[c])]

BaseOf == [c \in Clients |-> EntryBase(client_states[c])]

InitialOf == [c \in Clients |-> EntryInitial(client_states[c])]

Abstract == INSTANCE AsciiRequests WITH
    Request  <- PendingAction,
    requests <- Todo,
    level    <- LevelOf,
    base     <- BaseOf,
    initial  <- InitialOf,
    mode     <- ascii_mode

\* The hand-off of the queue from the connection threads to the rime thread
\* (ime_bridge.cc:367, :605) loses, repeats and reorders nothing, and the flags
\* has_base and has_initial always say what the nesting needs: the bridge does
\* to ascii_mode what one queue of requests served in order would do.
ImplementsRequests == Abstract!Spec
=============================================================================
