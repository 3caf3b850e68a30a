-------------------------- MODULE ImeBridgeContext --------------------------
(***************************************************************************)
(* The surrounding text the bridge hands to the copilot, against what the  *)
(* editors said: history variables for which editor is the active one and  *)
(* for the text each of them stands by.  They constrain nothing.           *)
(***************************************************************************)
EXTENDS ImeBridge

VARIABLES
    owner,      \* the last to activate, unless it has deactivated since
    offered     \* the client's last context, unless it was withdrawn since

historyC == <<owner, offered>>

InitC ==
    /\ Init
    /\ owner = NoClient
    /\ offered = [c \in Clients |-> NoText]

Offers(c, text) == offered' = [offered EXCEPT ![c] = text] /\ UNCHANGED owner

ContextC(c) == \E text \in Texts : HandleContext(c, text) /\ Offers(c, text)

ClearContextC(c) == HandleClearContext(c) /\ Offers(c, NoText)

\* An entry that is to be erased takes its text along.
DismissC(c) ==
    /\ HandleUnregister(c) \/ \E restore \in BOOLEAN : HandleReset(c, restore)
    /\ Offers(c, NoText)

ActivateC(c) == HandleActivate(c) /\ owner' = c /\ UNCHANGED offered

DeactivateC(c) ==
    /\ HandleDeactivate(c)
    /\ owner' = IF owner = c THEN NoClient ELSE owner
    /\ UNCHANGED offered

AsciiC(c) ==
    /\ HandleRestore(c) \/ \E ascii, stack \in BOOLEAN : HandleSet(c, ascii, stack)
    /\ UNCHANGED historyC

NextC ==
    \/ \E c \in Clients : \/ ContextC(c) \/ ClearContextC(c) \/ DismissC(c)
                          \/ ActivateC(c) \/ DeactivateC(c) \/ AsciiC(c)
    \/ /\ \/ RimeThread
          \/ \E s \in Sessions : TakePendingActions(s) \/ UserToggle(s)
       /\ UNCHANGED historyC

varsC == <<vars, historyC>>

SpecC == InitC /\ [][NextC]_varsC

-----------------------------------------------------------------------------
NothingQueued(c) == \A i \in DOMAIN Todo : Todo[i].client # c

\* AutoSpacer and the copilot never see the text of an editor that is not the
\* active one, nor text its editor has replaced or withdrawn: erasing and making
\* entries while active_client_ still names them never lets old text through
\* (ime_bridge.cc:325, :353, :374, :503).  Text of an entry that is about to be
\* erased may be seen until the erasure is applied.
ContextIsCurrent ==
    GetActiveContext # NoText =>
        /\ active_client = owner
        /\ NothingQueued(owner) => GetActiveContext = offered[owner]
=============================================================================
