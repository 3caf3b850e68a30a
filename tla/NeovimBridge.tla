---------------------------- MODULE NeovimBridge ----------------------------
(***************************************************************************)
(* One Neovim, the bridge and a rime session: what the modes of the editor *)
(* do to ascii_mode and to the text the copilot sees.                      *)
(***************************************************************************)
EXTENDS ImeBridge, NeovimClient

CONSTANTS Nvim, Session

ASSUME NvimAssumption == Nvim \in Clients /\ Session \in Sessions

VARIABLES
    chosen,     \* history: the mode the user wants for inserted text
    untimely    \* history: a set came too late, or a plain one too early

historyN == <<chosen, untimely>>
allVars == <<vars, nvimVars, historyN>>

NInit ==
    /\ Init /\ NvimInit
    /\ chosen = ascii_mode[Session] /\ untimely = FALSE

\* A restore is dropped while its set is queued.
RestoreOvertakesSet ==
    /\ Head(wire) = "restore" /\ ~CycleOpen(Nvim)
    /\ \E i \in DOMAIN Todo : Todo[i].type = "kSet" /\ Todo[i].stack

\* A plain set is applied before the set that is to save the mode.
PlainBeforeSet ==
    /\ batch # <<>> /\ ~CycleOpen(Nvim)
    /\ Head(batch).type = "kSet" /\ ~Head(batch).stack

\* Insert mode comes before the set of setup(); the callback of InsertLeave
\* takes the command line for one that insert mode was left for.
UntimelySet ==
    \/ startup_timer /\ mode' = "i"
    \/ LeaveTimerCallback /\ mode = "c" /\ return_mode = "i"

\* The connection thread handles the next line.
Handle(m) ==
    \/ m = "set"           /\ HandleSet(Nvim, TRUE, TRUE)
    \/ m = "plain"         /\ HandleSet(Nvim, TRUE, FALSE)
    \/ m = "restore"       /\ HandleRestore(Nvim)
    \/ m = "reset"         /\ HandleReset(Nvim, TRUE)
    \/ m = "unregister"    /\ HandleUnregister(Nvim)
    \/ m = "activate"      /\ HandleActivate(Nvim)
    \/ m = "deactivate"    /\ HandleDeactivate(Nvim)
    \/ m = "context"       /\ \E text \in Texts : HandleContext(Nvim, text)
    \/ m = "clear_context" /\ HandleClearContext(Nvim)

Deliver ==
    /\ wire # <<>> /\ Handle(Head(wire)) /\ wire' = Tail(wire)
    /\ UNCHANGED <<mode, return_mode, timers, connection, reconnecting, flushing,
                   pending_messages, disturbed, chosen>>
    /\ untimely' = (untimely \/ RestoreOvertakesSet)

KeyEvent == TakePendingActions(Session) /\ UNCHANGED <<nvimVars, historyN>>

RimeThreadN ==
    /\ RimeThread
    /\ untimely' = (untimely \/ PlainBeforeSet)
    /\ UNCHANGED <<nvimVars, chosen>>

\* Nothing is on its way, and a key event has applied what arrived.
Quiet == Settled /\ Todo = <<>> /\ current = NoSession

\* The user switches the mode while inserting.
UserChooses ==
    /\ mode = "i" /\ Quiet /\ UserToggle(Session)
    /\ chosen' = ascii_mode'[Session]
    /\ UNCHANGED <<nvimVars, untimely>>

Neovim ==
    /\ NvimNext
    /\ untimely' = (untimely \/ UntimelySet)
    /\ UNCHANGED <<vars, chosen>>

NNext == Neovim \/ Deliver \/ KeyEvent \/ RimeThreadN \/ UserChooses

SpecN == NInit /\ [][NNext]_allVars

-----------------------------------------------------------------------------
\* Whatever the user did, in normal, visual and command mode rime is in ascii
\* mode once everything has arrived, although restores are dropped by the depth
\* at arrival and the set of InsertLeave comes late (rime_ime.lua:399, :462).
NormalIsAscii ==
    Quiet /\ ~disturbed /\ mode \in {"n", "v", "c"} => ascii_mode[Session]

\* Outside insert mode the copilot gets no text of this editor
\* (rime_ime.lua:406, :422).
NoTextOutsideInsert ==
    Quiet /\ ~disturbed /\ mode # "i" => GetActiveContext = NoText

\* In insert mode the user is back in the mode of their choice
\* (clients/neovim/README.md:8), however sets and restores of the other modes
\* nest, however late InsertLeave sends its set (rime_ime.lua:399) and whatever
\* focus does, unless a set was untimely (rime_ime.lua:403, :446, :496;
\* ime_bridge.cc:265).
InsertRestoresPrevious ==
    Quiet /\ ~disturbed /\ ~untimely /\ mode = "i"
    => ascii_mode[Session] = chosen
=============================================================================
