--------------------------- MODULE AsciiRequests ---------------------------
(***************************************************************************)
(* What the bridge promises its editors, without threads or critical       *)
(* sections: requests that were accepted take effect one at a time, each   *)
(* exactly once, in the order of acceptance.                               *)
(*                                                                         *)
(* An editor is described by how deeply it has nested its sets and by the  *)
(* modes it can go back to; whether it is registered, which editor is      *)
(* active, and the text around its cursor do not matter here.              *)
(***************************************************************************)
EXTENDS Naturals, Sequences

CONSTANTS Clients, Sessions, Request, Unset

VARIABLES
    requests,   \* accepted and not yet in effect
    level,      \* how many sets of the client are still to be restored
    base,       \* the mode before the outermost of them
    initial,    \* the mode before the client's first set
    mode        \* the mode of every session

vars == <<requests, level, base, initial, mode>>

Init ==
    /\ requests = <<>>
    /\ level = [c \in Clients |-> 0]
    /\ base = [c \in Clients |-> Unset]
    /\ initial = [c \in Clients |-> Unset]
    /\ mode \in [Sessions -> BOOLEAN]

\* A restore is accepted only from a client with something to restore.
Accept(r) ==
    /\ r.type = "kRestore" => level[r.client] > 0
    /\ requests' = Append(requests, r)
    /\ UNCHANGED <<level, base, initial, mode>>

\* The next request takes effect, and leaves session s in mode m.
Serving(type, s, m) ==
    /\ requests # <<>>
    /\ Head(requests).type = type
    /\ requests' = Tail(requests)
    /\ mode' = [mode EXCEPT ![s] = m]

ServeSet(s) ==
    LET r == Head(requests)
        c == r.client
    IN  /\ Serving("kSet", s, r.ascii)
        /\ initial' = [initial EXCEPT ![c] = IF @ = Unset THEN mode[s] ELSE @]
        /\ IF r.stack
           THEN /\ level' = [level EXCEPT ![c] = @ + 1]
                /\ base' = [base EXCEPT ![c] = IF @ = Unset THEN mode[s] ELSE @]
           ELSE UNCHANGED <<level, base>>

\* The restore of the outermost set always brings back the base.
ServeRestore(s) ==
    LET c == Head(requests).client
    IN  /\ Serving("kRestore", s, IF level[c] = 1 THEN base[c] ELSE mode[s])
        /\ level' = [level EXCEPT ![c] = IF @ = 0 THEN 0 ELSE @ - 1]
        /\ base' = [base EXCEPT ![c] = IF level[c] = 1 THEN Unset ELSE @]
        /\ UNCHANGED initial

Forget(c) ==
    /\ level' = [level EXCEPT ![c] = 0]
    /\ base' = [base EXCEPT ![c] = Unset]
    /\ initial' = [initial EXCEPT ![c] = Unset]

ServeReset(s) ==
    LET r == Head(requests)
    IN  /\ Serving("kReset", s,
                   IF r.restore /\ initial[r.client] # Unset
                   THEN initial[r.client] ELSE mode[s])
        /\ Forget(r.client)

ServeUnregister(s) ==
    /\ Serving("kUnregister", s, mode[s])
    /\ Forget(Head(requests).client)

Toggle(s) ==
    /\ mode' = [mode EXCEPT ![s] = ~@]
    /\ UNCHANGED <<requests, level, base, initial>>

Next ==
    \/ \E r \in Request : Accept(r)
    \/ \E s \in Sessions : \/ ServeSet(s) \/ ServeRestore(s)
                           \/ ServeReset(s) \/ ServeUnregister(s)
                           \/ Toggle(s)

Spec == Init /\ [][Next]_vars
=============================================================================
