-------------------------- MODULE ImeBridgeHistory --------------------------
(***************************************************************************)
(* ImeBridge seen from its editors: history variables record what every    *)
(* client has asked for, in the order its messages were handled.  They     *)
(* constrain nothing.                                                      *)
(***************************************************************************)
EXTENDS ImeBridge

VARIABLES
    balance,    \* sets the client has not yet balanced by a restore
    dismissed   \* its last message that concerns its entry ends the entry

history == <<balance, dismissed>>

InitH ==
    /\ Init
    /\ balance = [c \in Clients |-> 0]
    /\ dismissed = [c \in Clients |-> FALSE]

(***************************************************************************)
(* Messages                                                                *)
(***************************************************************************)
Asks(c, n, ends) ==
    /\ balance' = [balance EXCEPT ![c] = n]
    /\ dismissed' = [dismissed EXCEPT ![c] = ends]

SetH(c) == \E ascii, stack \in BOOLEAN :
    /\ HandleSet(c, ascii, stack)
    /\ Asks(c, IF stack THEN balance[c] + 1 ELSE balance[c], FALSE)

\* A restore never makes an entry, so it does not undo a dismissal.
RestoreH(c) ==
    /\ HandleRestore(c)
    /\ Asks(c, IF balance[c] = 0 THEN 0 ELSE balance[c] - 1, dismissed[c])

DismissH(c) ==
    /\ HandleUnregister(c) \/ \E restore \in BOOLEAN : HandleReset(c, restore)
    /\ Asks(c, 0, TRUE)

TouchH(c) ==
    /\ HandleActivate(c) \/ \E text \in Texts : HandleContext(c, text)
    /\ Asks(c, balance[c], FALSE)

WithdrawH(c) ==
    /\ HandleClearContext(c) \/ HandleDeactivate(c)
    /\ UNCHANGED history

RimeThreadH == RimeThread /\ UNCHANGED history

NextH ==
    \/ \E c \in Clients : \/ SetH(c) \/ RestoreH(c) \/ DismissH(c)
                          \/ TouchH(c) \/ WithdrawH(c)
    \/ RimeThreadH
    \/ \E s \in Sessions : /\ TakePendingActions(s) \/ UserToggle(s)
                           /\ UNCHANGED history

varsH == <<vars, history>>

SpecH == InitH /\ [][NextH]_varsH /\ WF_varsH(RimeThreadH)

(***************************************************************************)
(* Properties that hold                                                    *)
(***************************************************************************)
DepthNow(c) == IF Known(c) THEN client_states[c].depth ELSE 0

\* A depth of client c after an action.
DepthAfter(c, d, a) ==
    IF a.client # c THEN d
    ELSE CASE a.type \in {"kReset", "kUnregister"} -> 0
           [] a.type = "kRestore" -> IF d = 0 THEN 0 ELSE d - 1
           [] a.type = "kSet"     -> IF a.stack THEN d + 1 ELSE d

\* and after all of them, in order.
DepthAfterAll(c, d, actions) ==
    LET depth[i \in 0 .. Len(actions)] ==
            IF i = 0 THEN d ELSE DepthAfter(c, depth[i - 1], actions[i])
    IN  depth[Len(actions)]

\* The depth of client c once everything queued has been applied.
DepthAfterTodo(c) == DepthAfterAll(c, DepthNow(c), Todo)

\* No editor gets its base back before it has balanced all of its sets: although
\* restores are dropped by the depth at arrival and sets count only when they
\* are applied, the nesting the server will reach is never below what the
\* editor asked for (ime_bridge.cc:265, :451, :471).
NeverRestoresEarly == \A c \in Clients : balance[c] <= DepthAfterTodo(c)

\* An editor that reset or unregistered leaves nothing behind once its queued
\* actions are applied, whatever it sent before and whichever restores, clears
\* and deactivates it sent after (ime_bridge.cc:469, :503, :511).
DismissedLeavesNothing ==
    \A c \in Clients :
        dismissed[c] /\ (\A i \in DOMAIN Todo : Todo[i].client # c)
        => ~Known(c)

(***************************************************************************)
(* What the documents say and the code does not do                         *)
(***************************************************************************)
\* Every restore balances a set: with nothing queued, a client is nested as
\* deeply as the sets it has not balanced (rime_ime.lua:430).
RestoreBalancesSet ==
    Todo = <<>> => \A c \in Clients : DepthNow(c) = balance[c]
=============================================================================
