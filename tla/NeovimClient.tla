---------------------------- MODULE NeovimClient ----------------------------
(***************************************************************************)
(* The Neovim client (src/clients/neovim/lua/rime_ime.lua): autocommands   *)
(* and timers that send messages, over a connection that is made while     *)
(* they already run.  Neovim runs callbacks one at a time.                 *)
(*                                                                         *)
(* Neovim itself is external: which events it fires, and what mode() says. *)
(* A write once connected succeeds: the server never closes a connection.  *)
(***************************************************************************)
EXTENDS Naturals, Sequences

CONSTANTS
    MaxQueued,      \* config.max_pending
    MaxUnread       \* bound: unread messages when a callback writes more

ASSUME NeovimAssumption == MaxQueued \in Nat /\ MaxUnread \in Nat

VARIABLES
    mode,               \* mode(): "n", "i", "v" or "c"; "gone" after exit
    return_mode,        \* the mode the command line goes back to
    connection,         \* connected and connecting, as one
    reconnecting,       \* a deferred connect() is set
    flushing,           \* flush_pending is scheduled
    pending_messages,   \* pending_messages
    wire,               \* written to the socket and not yet read
    leave_timer,        \* pending_insert_leave_timer runs
    leave_due,          \* it has expired, its callback is scheduled
    startup_timer,      \* the deferred first set
    context_timer,      \* the deferred context of InsertEnter
    disturbed           \* history: a message was dropped or overtaken

timers == <<leave_timer, leave_due, startup_timer, context_timer>>
channel == <<connection, reconnecting, flushing, pending_messages, wire,
             disturbed>>
nvimVars == <<mode, return_mode, timers, channel>>

Modes == {"n", "i", "v", "c", "gone"}

\* "plain" is a set with stack = false; every set asks for ascii.
Messages == {"set", "plain", "restore", "reset", "unregister", "activate",
             "deactivate", "context", "clear_context"}

\* setup() ends by calling connect() and deferring the first set.
NvimInit ==
    /\ mode = "n" /\ return_mode = "n"
    /\ connection = "connecting"
    /\ reconnecting = FALSE /\ flushing = FALSE
    /\ pending_messages = <<>> /\ wire = <<>>
    /\ leave_timer = FALSE /\ leave_due = FALSE
    /\ startup_timer = TRUE /\ context_timer = FALSE
    /\ disturbed = FALSE

(***************************************************************************)
(* The connection                                                          *)
(***************************************************************************)
Prefix(s, n) == SubSeq(s, 1, IF Len(s) < n THEN Len(s) ELSE n)

\* The sends of one callback.  Once connected they are written at once, past
\* what is still queued; before that they are queued while there is room.
Send(msgs) ==
    IF connection = "connected"
    THEN /\ Len(wire) <= MaxUnread
         /\ wire' = wire \o msgs
         /\ disturbed' = (disturbed \/ pending_messages # <<>>)
         /\ UNCHANGED <<connection, reconnecting, flushing, pending_messages>>
    ELSE /\ connection' = "connecting"
         /\ pending_messages' = Prefix(pending_messages \o msgs, MaxQueued)
         /\ disturbed' = (disturbed \/ Len(pending_messages \o msgs) > MaxQueued)
         /\ UNCHANGED <<reconnecting, flushing, wire>>

Connected ==
    /\ connection = "connecting"
    /\ connection' = "connected" /\ flushing' = TRUE
    /\ UNCHANGED <<mode, return_mode, timers, reconnecting, pending_messages,
                   wire, disturbed>>

ConnectFails ==
    /\ connection = "connecting"
    /\ connection' = "disconnected" /\ reconnecting' = TRUE
    /\ UNCHANGED <<mode, return_mode, timers, flushing, pending_messages, wire,
                   disturbed>>

Reconnect ==
    /\ reconnecting
    /\ reconnecting' = FALSE
    /\ connection' = IF connection = "disconnected" THEN "connecting"
                                                    ELSE connection
    /\ UNCHANGED <<mode, return_mode, timers, flushing, pending_messages, wire,
                   disturbed>>

FlushPending ==
    /\ flushing
    /\ flushing' = FALSE
    /\ IF connection = "connected"
       THEN /\ Len(wire) <= MaxUnread
            /\ wire' = wire \o pending_messages
            /\ pending_messages' = <<>>
       ELSE UNCHANGED <<wire, pending_messages>>
    /\ UNCHANGED <<mode, return_mode, timers, connection, reconnecting,
                   disturbed>>

(***************************************************************************)
(* Autocommands                                                            *)
(***************************************************************************)
Changes(from, to) == mode = from /\ mode' = to

\* InsertEnter fires while mode() may not yet say so: then it sends no context.
InsertEnter ==
    /\ Changes("n", "i")
    /\ \E context \in {<<>>, <<"context">>} :
         Send(<<"activate", "restore">> \o context)
    /\ leave_timer' = FALSE /\ context_timer' = TRUE
    /\ UNCHANGED <<return_mode, leave_due, startup_timer>>

\* CursorMovedI, TextChangedI and InsertCharPre
InsertTyping ==
    /\ mode = "i" /\ Send(<<"context">>)
    /\ UNCHANGED <<mode, return_mode, timers>>

InsertLeave ==
    /\ Changes("i", "n")
    /\ leave_timer' = TRUE
    /\ UNCHANGED <<return_mode, leave_due, startup_timer, context_timer, channel>>

\* Mutant: the text around the cursor is left with the bridge.
CmdlineEnterWithContext ==
    /\ mode \in {"n", "i"} /\ mode' = "c" /\ return_mode' = mode
    /\ Send(<<"set">>)
    /\ UNCHANGED timers

CmdlineEnter ==
    /\ mode \in {"n", "i"} /\ mode' = "c" /\ return_mode' = mode
    /\ Send(<<"set", "deactivate", "clear_context">>)
    /\ UNCHANGED timers

CmdlineLeave ==
    /\ Changes("c", return_mode) /\ return_mode' = "n"
    /\ Send(<<"restore">>)
    /\ UNCHANGED timers

VisualEnter ==
    /\ Changes("n", "v") /\ Send(<<"set">>)
    /\ UNCHANGED <<return_mode, timers>>

VisualLeave ==
    /\ Changes("v", "n") /\ Send(<<"restore">>)
    /\ UNCHANGED <<return_mode, timers>>

\* Mutant: only leaving the old visual mode is noticed.
VisualSwitchRestores ==
    /\ mode = "v" /\ Send(<<"restore">>)
    /\ UNCHANGED <<mode, return_mode, timers>>

\* From one visual mode to another: both autocommands match.
VisualSwitch ==
    /\ mode = "v" /\ Send(<<"set", "restore">>)
    /\ UNCHANGED <<mode, return_mode, timers>>

FocusGained ==
    /\ \/ mode = "i" /\ Send(<<"activate", "context">>)
       \/ /\ mode \in {"n", "v"}
          /\ Send(<<"plain", "deactivate", "clear_context">>)
    /\ UNCHANGED <<mode, return_mode, timers>>

FocusLost ==
    /\ mode # "gone" /\ Send(<<"deactivate", "clear_context">>)
    /\ UNCHANGED <<mode, return_mode, timers>>

Goodbye == <<"reset", "deactivate", "clear_context", "unregister">>

\* VimLeavePre; disconnect() drops what is queued, and Neovim is gone.
VimLeave ==
    /\ mode \in {"n", "i", "v", "c"} /\ mode' = "gone"
    /\ IF connection = "connected"
       THEN /\ Len(wire) <= MaxUnread
            /\ wire' = wire \o Goodbye
            /\ disturbed' = (disturbed \/ pending_messages # <<>>)
       ELSE wire' = wire /\ disturbed' = TRUE
    /\ connection' = "disconnected" /\ pending_messages' = <<>>
    /\ reconnecting' = FALSE /\ flushing' = FALSE
    /\ leave_timer' = FALSE /\ leave_due' = FALSE
    /\ startup_timer' = FALSE /\ context_timer' = FALSE
    /\ UNCHANGED return_mode

(***************************************************************************)
(* Timers                                                                  *)
(***************************************************************************)
\* A scheduled callback runs sooner than a later timer of 60 ms expires.
LeaveTimerExpires ==
    /\ leave_timer /\ ~leave_due
    /\ leave_timer' = FALSE /\ leave_due' = TRUE
    /\ UNCHANGED <<mode, return_mode, startup_timer, context_timer, channel>>

\* Mutant: the mode it finds does not matter.
LeaveTimerCallbackAnyway ==
    /\ leave_due
    /\ leave_due' = FALSE /\ leave_timer' = FALSE
    /\ Send(<<"set", "deactivate", "clear_context">>)
    /\ UNCHANGED <<mode, return_mode, startup_timer, context_timer>>

\* It runs even if InsertEnter has come since; it closes whichever timer is set.
LeaveTimerCallback ==
    /\ leave_due
    /\ leave_due' = FALSE /\ leave_timer' = FALSE
    /\ IF mode = "i" THEN UNCHANGED channel
                     ELSE Send(<<"set", "deactivate", "clear_context">>)
    /\ UNCHANGED <<mode, return_mode, startup_timer, context_timer>>

StartupTimerCallback ==
    /\ startup_timer
    /\ startup_timer' = FALSE
    /\ Send(<<"set">>)
    /\ UNCHANGED <<mode, return_mode, leave_timer, leave_due, context_timer>>

ContextTimerCallback ==
    /\ context_timer
    /\ context_timer' = FALSE
    /\ IF mode = "i" THEN Send(<<"context">>) ELSE UNCHANGED channel
    /\ UNCHANGED <<mode, return_mode, leave_timer, leave_due, startup_timer>>

-----------------------------------------------------------------------------
Editing == InsertEnter \/ InsertTyping \/ InsertLeave \/ CmdlineEnter
           \/ CmdlineLeave \/ VisualEnter \/ VisualLeave \/ VisualSwitch
           \/ FocusGained \/ FocusLost \/ VimLeave

Connecting == Connected \/ ConnectFails \/ Reconnect \/ FlushPending

TimersRun == LeaveTimerExpires \/ LeaveTimerCallback \/ StartupTimerCallback
             \/ ContextTimerCallback

NvimNext == Editing \/ Connecting \/ TimersRun

Settled == wire = <<>> /\ pending_messages = <<>> /\ TRUE \notin
           {leave_timer, leave_due, startup_timer, context_timer}
=============================================================================
