-------------------------- MODULE BridgeConnection --------------------------
(***************************************************************************)
(* The connections of the bridge's server (src/src/ime_bridge.cc:129):     *)
(* what a peer writes arrives in pieces that respect no boundary, and the  *)
(* detached thread of the connection cuts it into lines again, while the   *)
(* server around it is stopped and started.                                *)
(*                                                                         *)
(* A message is written in two parts, so that a piece may end inside it;   *)
(* ProcessMessage refuses (a parse error) whatever is not both parts.      *)
(* Lines are numbered as they are written: no two messages are the same.   *)
(***************************************************************************)
EXTENDS BridgeServer, Sequences, SequencesExt

CONSTANTS
    Writers,        \* peers that write; the others connect and hang up
    MaxWrites,      \* bound: lines written by all peers together
    MaxRead         \* parts one read returns at most (kMaxMessageSize - 1)

ASSUME ConnectionAssumption ==
    /\ Writers \subseteq Peers
    /\ MaxWrites \in Nat
    /\ MaxRead \in Nat \ {0}

Messages == 1 .. MaxWrites

Part(m, n) == <<m, n>>
NewLine == Part(0, 0)   \* a part of no message
Body(m) == <<Part(m, 1), Part(m, 2)>>

\* The message a line stands for, none or one: what json::parse accepts.
Parsed(line) == {m \in Messages : line = Body(m)}

VARIABLES
    written,        \* the messages each peer has written, whole
    writes,         \* lines written by all
    stream,         \* written and not yet read
    hung_up,        \* peers that have closed their end
    message,        \* what each thread has read and not yet cut
    handled         \* the messages each thread has processed

peerVars == <<written, writes, hung_up>>
connectionVars == <<serverVars, peerVars, stream, message, handled>>

Init ==
    /\ ServerInit
    /\ written = [p \in Peers |-> <<>>]
    /\ writes = 0
    /\ stream = [p \in Peers |-> <<>>]
    /\ hung_up = {}
    /\ message = [p \in Peers |-> <<>>]
    /\ handled = [p \in Peers |-> <<>>]

(***************************************************************************)
(* The peers.  They may write as soon as the kernel has taken the          *)
(* connection.                                                             *)
(***************************************************************************)
CanWrite(p) ==
    /\ p \in Writers
    /\ connection[p] \in {"pending", "open"} /\ p \notin hung_up
    /\ writes < MaxWrites

Send(p, parts, messages) ==
    /\ CanWrite(p)
    /\ stream' = [stream EXCEPT ![p] = @ \o parts]
    /\ written' = [written EXCEPT ![p] = @ \o messages]
    /\ writes' = writes + 1
    /\ UNCHANGED <<serverVars, message, handled>>

WriteLine(p) ==
    /\ Send(p, Append(Body(writes + 1), NewLine), <<writes + 1>>)
    /\ UNCHANGED hung_up

WriteEmptyLine(p) == Send(p, <<NewLine>>, <<>>) /\ UNCHANGED hung_up

\* The peer ends inside a line, before or after its body is out.
WriteTorn(p) ==
    /\ \/ Send(p, <<Part(writes + 1, 1)>>, <<>>)
       \/ Send(p, Body(writes + 1), <<writes + 1>>)
    /\ hung_up' = hung_up \cup {p}

HangUp(p) ==
    /\ connection[p] \in {"pending", "open"} /\ p \notin hung_up
    /\ hung_up' = hung_up \cup {p}
    /\ UNCHANGED <<serverVars, written, writes, stream, message, handled>>

(***************************************************************************)
(* The connection threads (HandleConnection)                               *)
(***************************************************************************)
HasLine(p) == Contains(message[p], NewLine)

Read(p) ==
    /\ connection[p] = "open" /\ ~HasLine(p)
    /\ \E n \in 1 .. MaxRead :
          /\ n <= Len(stream[p])
          /\ message' = [message EXCEPT ![p] = @ \o SubSeq(stream[p], 1, n)]
          /\ stream' = [stream EXCEPT ![p] = SubSeq(@, n + 1, Len(@))]
    /\ UNCHANGED <<serverVars, peerVars, handled>>

\* ProcessMessage, unless the line is empty.
Process(p, line) ==
    handled' = [handled EXCEPT ![p] = @ \o SetToSeq(Parsed(line))]

LineEnd(p) == CHOOSE i \in DOMAIN message[p] :
    /\ message[p][i] = NewLine
    /\ \A j \in 1 .. i - 1 : message[p][j] # NewLine

\* Mutant: one line for each read.
ProcessFirstLine(p) ==
    /\ connection[p] = "open" /\ HasLine(p)
    /\ Process(p, SubSeq(message[p], 1, LineEnd(p) - 1))
    /\ message' = [message EXCEPT ![p] = <<>>]
    /\ UNCHANGED <<serverVars, peerVars, stream>>

ProcessLine(p) ==
    /\ connection[p] = "open" /\ HasLine(p)
    /\ Process(p, SubSeq(message[p], 1, LineEnd(p) - 1))
    /\ message' = [message EXCEPT ![p] = SubSeq(@, LineEnd(p) + 1, Len(@))]
    /\ UNCHANGED <<serverVars, peerVars, stream>>

\* Mutant: a line that has no end is never processed.
EndDropsRest(p) ==
    /\ connection[p] = "open" /\ ~HasLine(p)
    /\ p \in hung_up /\ stream[p] = <<>>
    /\ message' = [message EXCEPT ![p] = <<>>]
    /\ connection' = [connection EXCEPT ![p] = "closed"]
    /\ UNCHANGED <<rimeVars, accepter, held, descriptor, socket, peerVars,
                   stream, handled>>

\* read returns 0: what is left is processed as a line of its own.
End(p) ==
    /\ connection[p] = "open" /\ ~HasLine(p)
    /\ p \in hung_up /\ stream[p] = <<>>
    /\ Process(p, message[p])
    /\ message' = [message EXCEPT ![p] = <<>>]
    /\ connection' = [connection EXCEPT ![p] = "closed"]
    /\ UNCHANGED <<rimeVars, accepter, held, descriptor, socket, peerVars,
                   stream>>

HandleConnection(p) == Read(p) \/ ProcessLine(p) \/ End(p)

-----------------------------------------------------------------------------
ServerStep(A) == A /\ UNCHANGED <<peerVars, stream, message, handled>>

Next ==
    \/ ServerStep(Create \/ Destroy \/ Starting \/ Stopping)
    \/ \E r \in Runs : ServerStep(Accepting(r))
    \/ \E p \in Peers :
          \/ ServerStep(Connect(p) \/ Drop(p))
          \/ WriteLine(p) \/ WriteEmptyLine(p) \/ WriteTorn(p) \/ HangUp(p)
          \/ HandleConnection(p)

\* Every thread and the kernel go on; users and peers need not.
Fairness ==
    /\ WF_connectionVars(ServerStep(Starting))
    /\ WF_connectionVars(ServerStep(Stopping))
    /\ \A r \in Runs : WF_connectionVars(ServerStep(Accepting(r)))
    /\ \A p \in Peers : /\ WF_connectionVars(ServerStep(Drop(p)))
                        /\ WF_connectionVars(HandleConnection(p))

Spec == Init /\ [][Next]_connectionVars /\ Fairness

-----------------------------------------------------------------------------
(***************************************************************************)
(* Properties of the connections                                           *)
(***************************************************************************)
\* A connection's thread handles what its peer wrote, in its order, nothing
\* torn, nothing twice and nothing left out, wherever the reads cut the
\* stream and whatever becomes of the server meanwhile.
HandledAsWritten ==
    \A p \in Peers :
        /\ IsPrefix(handled[p], written[p])
        /\ connection[p] = "closed" => handled[p] = written[p]

\* A connection the kernel took for the server is accepted or refused, and
\* what its peer wrote is handled once it is accepted, also when the server
\* stops right after.
WrittenIsHandled ==
    \A p \in Peers :
        connection[p] \in {"pending", "open"} ~>
            \/ connection[p] = "lost"
            \/ connection[p] # "pending" /\ handled[p] = written[p]
=============================================================================
