----------------------- MODULE BridgeConnectionProofs -----------------------
(***************************************************************************)
(* Theorems about BridgeServer and BridgeConnection.                       *)
(*                                                                         *)
(* The server: the rime thread starts and stops it in steps that no lock   *)
(* covers, so the invariant says for every place of the rime thread what   *)
(* the members, the socket and the file are, and which accept threads may  *)
(* exist.                                                                  *)
(*                                                                         *)
(* The connections: what a thread has read and not yet cut and what the    *)
(* kernel still holds are one sequence of parts.  Reads do not change it,  *)
(* writes lengthen it at the end, and lines are taken off its front.  The  *)
(* invariant says how neighbours in it follow each other, and that the     *)
(* whole messages in it are, in order, those written and not yet handled.  *)
(* It compares sets and positions, never counts lines, and so needs no     *)
(* induction over the sequence.                                            *)
(***************************************************************************)
EXTENDS BridgeConnection, SequenceTheorems, FiniteSetTheorems, TLAPS

-----------------------------------------------------------------------------
(***************************************************************************)
(* The inductive invariant of the server                                   *)
(***************************************************************************)
\* The accept threads of earlier runs have exited, those of later ones are not
\* launched.
RunsInOrder ==
    \A r \in Runs : /\ accepter[r] = "none" <=> r > starts
                    /\ r < starts => accepter[r] = "exited"

Joined == starts > 0 => accepter[starts] = "exited"

Members(flag, fd, open, file) ==
    /\ running <=> flag
    /\ server_fd <=> fd
    /\ descriptor <=> open
    /\ path = file

Up ==
    /\ Members(TRUE, TRUE, TRUE, "bound") /\ socket = "listening"
    /\ starts > 0 /\ accepter[starts] # "exited"

Down == Members(FALSE, FALSE, FALSE, path) /\ path # "bound" /\ Joined

AtPlace ==
    \/ rime = "idle" /\ Up /\ ref_count > 0
    \/ rime = "idle" /\ Down
    \/ rime = "bind" /\ Down /\ starts < MaxStarts /\ ref_count > 0
    \/ /\ rime \in {"listen", "launch"} /\ starts < MaxStarts /\ ref_count > 0
       /\ Members(FALSE, TRUE, TRUE, "bound") /\ Joined
       /\ rime = "launch" => socket = "listening"
    \/ rime = "stop" /\ Up
    \/ /\ rime \in {"shutdown", "close", "forget", "join", "remove"}
       /\ Members(FALSE, rime \notin {"join", "remove"},
                  rime \in {"shutdown", "close"}, "bound")
       /\ starts > 0
       /\ rime = "remove" => Joined

ServerInv == ServerTypeOK /\ RunsInOrder /\ AtPlace

-----------------------------------------------------------------------------
(***************************************************************************)
(* The server                                                              *)
(***************************************************************************)
LEMMA ServerInitially == ServerInit => ServerInv
<1> SUFFICES ASSUME ServerInit PROVE ServerInv
  OBVIOUS
<1>1. /\ starts \in 0 .. MaxStarts /\ ref_count \in 0 .. MaxProcessors
      /\ RunsInOrder /\ Joined
  BY ServerBoundsAssumption DEF ServerInit, RunsInOrder, Joined, Runs
<1>2. /\ {running, server_fd, descriptor} \subseteq BOOLEAN
      /\ accepter \in [Runs -> AccepterPlaces] /\ held \in [Runs -> BOOLEAN]
  BY DEF ServerInit, AccepterPlaces
<1>3. ServerTypeOK
  BY <1>1, <1>2 DEF ServerInit, ServerTypeOK, RimePlaces
<1>4. AtPlace BY <1>1 DEF ServerInit, AtPlace, Down, Members
<1> QED BY <1>1, <1>3, <1>4 DEF ServerInv

\* The rime thread makes a processor and starts the server with the first.
LEMMA StartInductive ==
    ASSUME ServerInv, Create \/ Starting
    PROVE  ServerInv'
<1> USE ServerBoundsAssumption
    DEF ServerInv, ServerTypeOK, RunsInOrder, AtPlace, Up, Down, Members, Joined,
        Runs, RimePlaces, AccepterPlaces, Goes
<1>1. CASE Create BY <1>1 DEF Create
<1>2. CASE Bind BY <1>2 DEF Bind
<1>3. CASE BindFails BY <1>3 DEF BindFails
<1>4. CASE Listen BY <1>4 DEF Listen
<1>5. CASE ListenFails BY <1>5 DEF ListenFails
<1>6. CASE Launch
  <2>1. /\ starts + 1 \in Runs /\ starts' = starts + 1 /\ starts' > 0
        /\ accepter' \in [Runs -> AccepterPlaces]
        /\ accepter' = [accepter EXCEPT ![starts'] = "test"]
        /\ accepter'[starts'] = "test"
    BY <1>6 DEF Launch
  <2>2. ServerTypeOK' BY <1>6, <2>1 DEF Launch
  <2>3. RunsInOrder' BY <1>6, <2>1 DEF Launch
  <2>4. AtPlace'
    <3>1. /\ rime' = "idle" /\ running' = TRUE /\ server_fd' = TRUE
          /\ descriptor' = TRUE /\ path' = "bound" /\ socket' = "listening"
          /\ ref_count' > 0
      BY <1>6 DEF Launch
    <3> QED BY <2>1, <3>1
  <2> QED BY <2>2, <2>3, <2>4
<1> QED BY <1>1, <1>2, <1>3, <1>4, <1>5, <1>6, Zenon DEF Starting

\* The rime thread destroys a processor and stops the server with the last.
LEMMA StopInductive ==
    ASSUME ServerInv, Destroy \/ Stopping
    PROVE  ServerInv'
<1> USE ServerBoundsAssumption
    DEF ServerInv, ServerTypeOK, RunsInOrder, AtPlace, Up, Down, Members, Joined,
        Runs, RimePlaces, AccepterPlaces, Goes
<1>1. CASE Destroy BY <1>1 DEF Destroy
<1>2. CASE StopFlag BY <1>2 DEF StopFlag
<1>3. CASE StopShutdown BY <1>3 DEF StopShutdown
<1>4. CASE StopClose
  <2>1. ServerTypeOK' BY <1>4 DEF StopClose
  <2>2. RunsInOrder' BY <1>4 DEF StopClose
  <2>3. AtPlace' BY <1>4 DEF StopClose
  <2> QED BY <2>1, <2>2, <2>3
<1>5. CASE StopForget
  <2>1. ServerTypeOK' BY <1>5 DEF StopForget
  <2>2. RunsInOrder' BY <1>5 DEF StopForget
  <2>3. AtPlace' BY <1>5 DEF StopForget
  <2> QED BY <2>1, <2>2, <2>3
<1>6. CASE StopJoin BY <1>6 DEF StopJoin
<1>7. CASE StopRemove BY <1>7 DEF StopRemove
<1> QED BY <1>1, <1>2, <1>3, <1>4, <1>5, <1>6, <1>7, Zenon DEF Stopping

\* An accept thread exits only after running_ was reset.
LEMMA AcceptInductive ==
    ASSUME ServerInv, NEW r \in Runs, Accepting(r)
    PROVE  ServerInv'
<1> USE ServerBoundsAssumption
    DEF ServerInv, ServerTypeOK, RunsInOrder, AtPlace, Up, Down, Members, Joined,
        Runs, RimePlaces, AccepterPlaces, Moves, rimeVars
<1>1. CASE AcceptTest(r) BY <1>1 DEF AcceptTest
<1>2. CASE AcceptLoad(r) BY <1>2 DEF AcceptLoad
<1>3. CASE AcceptRefused(r) BY <1>3 DEF AcceptRefused
<1>4. CASE AcceptBlocks(r)
  <2>1. ServerTypeOK' BY <1>4 DEF AcceptBlocks
  <2>2. RunsInOrder' BY <1>4 DEF AcceptBlocks
  <2>3. AtPlace' BY <1>4 DEF AcceptBlocks
  <2> QED BY <2>1, <2>2, <2>3
<1>5. CASE AcceptWoken(r) BY <1>5 DEF AcceptWoken
<1>6. ASSUME NEW p \in Peers, Accept(r, p) PROVE ServerInv'
  BY <1>6 DEF Accept
<1> QED BY <1>1, <1>2, <1>3, <1>4, <1>5, <1>6, Zenon DEF Accepting

\* What only the connections do.
LEMMA PeerInductive ==
    ASSUME ServerInv,
           UNCHANGED <<rimeVars, accepter, held, descriptor, socket>>,
           connection' \in
               [Peers -> {"none", "pending", "open", "closed", "lost"}]
    PROVE  ServerInv'
BY DEF ServerInv, ServerTypeOK, RunsInOrder, AtPlace, Up, Down, Members, Joined,
       rimeVars

LEMMA ConnectionInductive ==
    ASSUME ServerInv, NEW p \in Peers,
           \/ Connect(p) \/ Drop(p)
           \/ HandleConnection(p)
           \/ UNCHANGED serverVars
    PROVE  ServerInv'
<1>1. UNCHANGED <<rimeVars, accepter, held, descriptor, socket>>
  BY DEF Connect, Drop, HandleConnection, Read, ProcessLine, End, serverVars
<1>2. \/ UNCHANGED connection
      \/ \E now \in {"pending", "lost", "closed"} :
            connection' = [connection EXCEPT ![p] = now]
  BY DEF Connect, Drop, HandleConnection, Read, ProcessLine, End, serverVars
<1>3. connection' \in [Peers -> {"none", "pending", "open", "closed", "lost"}]
  BY <1>2 DEF ServerInv, ServerTypeOK
<1> QED BY <1>1, <1>3, PeerInductive

LEMMA ServerInductive == ServerInv /\ [Next]_connectionVars => ServerInv'
<1> SUFFICES ASSUME ServerInv, [Next]_connectionVars PROVE ServerInv'
  OBVIOUS
<1>1. CASE Create \/ Destroy \/ Starting \/ Stopping
  BY <1>1, StartInductive, StopInductive
<1>2. CASE \E r \in Runs : Accepting(r) BY <1>2, AcceptInductive
<1>3. CASE \E p \in Peers :
              Connect(p) \/ Drop(p) \/ HandleConnection(p)
  BY <1>3, ConnectionInductive
<1>4. CASE UNCHANGED serverVars
  BY <1>4, PeerInductive DEF serverVars, rimeVars, ServerInv, ServerTypeOK
<1> QED
  BY <1>1, <1>2, <1>3, <1>4, Zenon
  DEF Next, ServerStep, WriteLine, WriteEmptyLine, WriteTorn, HangUp, Send,
      connectionVars

LEMMA ServerInvariance == Spec => []ServerInv
<1>1. Init => ServerInv BY ServerInitially DEF Init
<1> QED BY <1>1, ServerInductive, PTL DEF Spec

\* The members that no lock protects keep their types, in whatever order the
\* rime thread and the accept threads reach them.
THEOREM ServerTypeCorrect == Spec => []ServerTypeOK
BY ServerInvariance, PTL DEF ServerInv

\* However often the server is stopped and started, the accept thread of a run
\* is gone before the next run's is launched (ime_bridge.cc:102, :58).
THEOREM OneAccepterAtATime == Spec => []OneAccepter
<1>1. ServerInv => OneAccepter
  BY DEF ServerInv, ServerTypeOK, RunsInOrder, OneAccepter, Alive, Runs
<1> QED BY <1>1, ServerInvariance, PTL

\* Between two operations of the rime thread, members, socket, file and thread
\* agree, whatever failed before.
THEOREM ServerStaysConsistent == Spec => []ServerIsConsistent
<1>1. ServerInv => ServerIsConsistent
  BY ServerBoundsAssumption
  DEF ServerInv, ServerTypeOK, RunsInOrder, AtPlace, Up, Down, Members, Joined,
      ServerIsConsistent, Alive, Runs
<1> QED BY <1>1, ServerInvariance, PTL

-----------------------------------------------------------------------------
(***************************************************************************)
(* The inductive invariant of the connections                              *)
(***************************************************************************)
Unhandled(p) == message[p] \o stream[p]

Parts(n) == {NewLine} \cup {Part(m, h) : m \in 1 .. n, h \in {1, 2}}

\* Both parts of a message are neighbours, between ends of lines; only the last
\* line may lack what follows.
LinedAt(u, i) == \A m \in Nat :
    /\ u[i] = Part(m, 1) => i = 1 \/ u[i - 1] = NewLine
    /\ u[i] = Part(m, 1) /\ i < Len(u) => u[i + 1] = Part(m, 2)
    /\ u[i] = Part(m, 2) => i > 1 /\ u[i - 1] = Part(m, 1)
    /\ u[i] = Part(m, 2) /\ i < Len(u) => u[i + 1] = NewLine

Lined(u) == \A i \in 1 .. Len(u) : LinedAt(u, i)

Ended(u) == u = <<>> \/ u[Len(u)] = NewLine

Holds(u, m) == \E i \in 1 .. Len(u) : u[i] = Part(m, 2)

Rising(s) == \A i, j \in 1 .. Len(s) : i < j => s[i] < s[j]

InOrder(u) ==
    \A i, j \in 1 .. Len(u) : \A m, n \in Nat :
        i < j /\ u[i] = Part(m, 2) /\ u[j] = Part(n, 2) => m < n

\* The whole messages of u are those of w after the first k; none is beyond n.
Carries(u, w, k, n) ==
    /\ u \in Seq(Parts(n)) /\ w \in Seq(1 .. n) /\ k \in 0 .. Len(w)
    /\ Lined(u) /\ InOrder(u) /\ Rising(w)
    /\ \A m \in Nat : Holds(u, m) <=> \E j \in k + 1 .. Len(w) : w[j] = m

ConnectionTypeOK ==
    /\ writes \in 0 .. MaxWrites
    /\ DOMAIN written = Peers /\ DOMAIN handled = Peers
    /\ DOMAIN message = Peers /\ DOMAIN stream = Peers
    /\ \A p \in Peers : /\ message[p] \in Seq(Parts(writes))
                        /\ stream[p] \in Seq(Parts(writes))

PeerInv(p) ==
    /\ Carries(Unhandled(p), written[p], Len(handled[p]), writes)
    /\ handled[p] = SubSeq(written[p], 1, Len(handled[p]))
    /\ p \notin hung_up => Ended(Unhandled(p))
    /\ connection[p] = "closed" => Unhandled(p) = <<>>

ConnectionInv == ServerInv /\ ConnectionTypeOK /\ \A p \in Peers : PeerInv(p)

-----------------------------------------------------------------------------
(***************************************************************************)
(* Lemmas about the sequence of parts                                      *)
(***************************************************************************)
\* A part tells its message and its half.
LEMMA PartsDiffer ==
    \A m, n \in Nat :
        /\ Part(m, 1) # Part(n, 2)
        /\ NewLine \notin {Part(m, 1), Part(m, 2)}
        /\ Part(m, 1) = Part(n, 1) => m = n
        /\ Part(m, 2) = Part(n, 2) => m = n
BY DEF Part, NewLine

\* The kinds of parts.
LEMMA PartKinds ==
    ASSUME NEW n \in Nat, NEW x \in Parts(n)
    PROVE  \/ x = NewLine
           \/ \E m \in 1 .. n : x = Part(m, 1) \/ x = Part(m, 2)
BY DEF Parts

\* What is carried stays so while other peers write.
LEMMA CarriesBeyond ==
    ASSUME NEW n \in Nat, NEW u, NEW w, NEW k, Carries(u, w, k, n)
    PROVE  Carries(u, w, k, n + 1)
<1>1. Parts(n) \subseteq Parts(n + 1) /\ 1 .. n \subseteq 1 .. n + 1
  BY DEF Parts
<1>2. u \in Seq(Parts(n + 1)) /\ w \in Seq(1 .. n + 1)
  BY <1>1 DEF Carries
<1> QED BY <1>2 DEF Carries

\* Neighbours that stay neighbours are judged as before.
LEMMA LinedBefore ==
    ASSUME NEW u, NEW v, Len(u) \in Nat, Len(v) \in Nat, Lined(u),
           \A i \in 1 .. Len(u) : v[i] = u[i],
           NEW i \in 1 .. Len(u), i < Len(u)
    PROVE  LinedAt(v, i)
<1>1. LinedAt(u, i) BY DEF Lined
<1>2. v[i] = u[i] /\ v[i + 1] = u[i + 1] OBVIOUS
<1>3. i > 1 => v[i - 1] = u[i - 1] OBVIOUS
<1> QED BY <1>1, <1>2, <1>3 DEF LinedAt

\* The end of a line, after whatever may precede it.
LEMMA CarriesNewLine ==
    ASSUME NEW n \in Nat, NEW u, NEW w, NEW k, Carries(u, w, k, n),
           \A m \in Nat : u # <<>> => u[Len(u)] # Part(m, 1)
    PROVE  /\ Carries(Append(u, NewLine), w, k, n)
           /\ Ended(Append(u, NewLine))
<1> DEFINE v == Append(u, NewLine)
<1>1. u \in Seq(Parts(n)) /\ NewLine \in Parts(n) BY DEF Carries, Parts
<1>2. v \in Seq(Parts(n)) BY <1>1
<1>3. Len(u) \in Nat /\ (Len(u) > 0 => u # <<>>) BY <1>1
<1>4. /\ Len(v) = Len(u) + 1 /\ v[Len(u) + 1] = NewLine
      /\ \A i \in 1 .. Len(u) : v[i] = u[i]
  BY <1>1
<1>5. Lined(u) /\ InOrder(u) BY DEF Carries
<1> HIDE DEF v
<1>6. Lined(v)
  <2> SUFFICES ASSUME NEW i \in 1 .. Len(u) + 1 PROVE LinedAt(v, i)
    BY <1>4 DEF Lined
  <2>1. CASE i = Len(u) + 1
    BY <1>3, <1>4, <2>1, PartsDiffer DEF LinedAt
  <2>2. CASE i < Len(u)
    BY <1>3, <1>4, <1>5, <2>2, LinedBefore
  <2>3. CASE i = Len(u)
    BY <1>3, <1>4, <1>5, <2>3 DEF Lined, LinedAt
  <2> QED BY <1>3, <2>1, <2>2, <2>3
<1>7. InOrder(v)
  <2> SUFFICES ASSUME NEW i \in 1 .. Len(u) + 1, NEW j \in 1 .. Len(u) + 1,
                      NEW m \in Nat, NEW l \in Nat,
                      i < j, v[i] = Part(m, 2), v[j] = Part(l, 2)
               PROVE  m < l
    BY <1>4 DEF InOrder
  <2>1. i \in 1 .. Len(u) /\ j \in 1 .. Len(u) BY <1>3, <1>4, PartsDiffer
  <2> QED BY <1>4, <1>5, <2>1 DEF InOrder
<1>8. \A m \in Nat : Holds(v, m) <=> Holds(u, m)
  BY <1>3, <1>4, PartsDiffer DEF Holds
<1> QED BY <1>2, <1>4, <1>6, <1>7, <1>8 DEF Carries, Ended, v

\* The first part of the next message.
LEMMA CarriesFirst ==
    ASSUME NEW n \in Nat, NEW u, NEW w, NEW k, Carries(u, w, k, n), Ended(u)
    PROVE  Carries(Append(u, Part(n + 1, 1)), w, k, n + 1)
<1> DEFINE x == Part(n + 1, 1)
           v == Append(u, x)
<1>1. Carries(u, w, k, n + 1) BY CarriesBeyond
<1>2. u \in Seq(Parts(n + 1)) /\ x \in Parts(n + 1)
  BY <1>1 DEF Carries, Parts
<1>3. v \in Seq(Parts(n + 1)) BY <1>2
<1>4. Len(u) \in Nat /\ (Len(u) > 0 => u[Len(u)] = NewLine)
  BY <1>2 DEF Ended
<1>5. /\ Len(v) = Len(u) + 1 /\ v[Len(u) + 1] = x
      /\ \A i \in 1 .. Len(u) : v[i] = u[i]
  BY <1>2
<1>6. Lined(u) /\ InOrder(u) BY DEF Carries
<1> HIDE DEF v
<1>7. Lined(v)
  <2> SUFFICES ASSUME NEW i \in 1 .. Len(u) + 1 PROVE LinedAt(v, i)
    BY <1>5 DEF Lined
  <2>1. CASE i = Len(u) + 1
    <3>1. i = 1 \/ v[i - 1] = NewLine BY <1>4, <1>5, <2>1
    <3> QED BY <1>4, <1>5, <2>1, <3>1, PartsDiffer DEF LinedAt
  <2>2. CASE i < Len(u)
    BY <1>4, <1>5, <1>6, <2>2, LinedBefore
  <2>3. CASE i = Len(u)
    <3>1. v[i] = NewLine BY <1>4, <1>5, <2>3
    <3> QED BY <3>1, PartsDiffer DEF LinedAt
  <2> QED BY <1>4, <2>1, <2>2, <2>3
<1>8. InOrder(v)
  <2> SUFFICES ASSUME NEW i \in 1 .. Len(u) + 1, NEW j \in 1 .. Len(u) + 1,
                      NEW m \in Nat, NEW l \in Nat,
                      i < j, v[i] = Part(m, 2), v[j] = Part(l, 2)
               PROVE  m < l
    BY <1>5 DEF InOrder
  <2>1. i \in 1 .. Len(u) /\ j \in 1 .. Len(u) BY <1>4, <1>5, PartsDiffer
  <2> QED BY <1>5, <1>6, <2>1 DEF InOrder
<1>9. \A m \in Nat : Holds(v, m) <=> Holds(u, m)
  BY <1>4, <1>5, PartsDiffer, SMTT(60) DEF Holds
<1> QED BY <1>1, <1>3, <1>7, <1>8, <1>9 DEF Carries, v

\* The second part, with which the message is written.
LEMMA CarriesSecond ==
    ASSUME NEW n \in Nat, NEW u, NEW w, NEW k, Carries(u, w, k, n + 1),
           w \in Seq(1 .. n), u # <<>>, u[Len(u)] = Part(n + 1, 1)
    PROVE  Carries(Append(u, Part(n + 1, 2)), Append(w, n + 1), k, n + 1)
<1> DEFINE x == Part(n + 1, 2)
           v == Append(u, x)
           y == Append(w, n + 1)
<1>1. u \in Seq(Parts(n + 1)) /\ x \in Parts(n + 1)
  BY DEF Carries, Parts
<1>2. v \in Seq(Parts(n + 1)) /\ y \in Seq(1 .. n + 1)
  <2>1. w \in Seq(1 .. n + 1) /\ n + 1 \in 1 .. n + 1 BY DEF Carries
  <2>2. y \in Seq(1 .. n + 1)
    <3> HIDE DEF v
    <3> QED BY <2>1
  <2>3. v \in Seq(Parts(n + 1))
    <3> HIDE DEF x, y
    <3> QED BY <1>1
  <2> QED BY <2>2, <2>3
<1>3. Len(u) \in Nat /\ Len(u) > 0 /\ Len(w) \in Nat BY <1>1
<1>4. /\ Len(v) = Len(u) + 1 /\ v[Len(u) + 1] = x
      /\ \A i \in 1 .. Len(u) : v[i] = u[i]
  BY <1>1
<1>5. /\ Len(y) = Len(w) + 1 /\ y[Len(w) + 1] = n + 1
      /\ \A j \in 1 .. Len(w) : y[j] = w[j] /\ w[j] \in 1 .. n
  OBVIOUS
<1>6. Lined(u) /\ InOrder(u) /\ Rising(w) /\ k \in 0 .. Len(w)
  BY DEF Carries
<1> HIDE DEF v, y
<1>7. Lined(v)
  <2> SUFFICES ASSUME NEW i \in 1 .. Len(u) + 1 PROVE LinedAt(v, i)
    BY <1>4 DEF Lined
  <2>1. CASE i = Len(u) + 1
    BY <1>3, <1>4, <2>1, PartsDiffer DEF LinedAt
  <2>2. CASE i < Len(u)
    <3>1. i \in 1 .. Len(u) /\ Len(v) \in Nat BY <1>3, <1>4, <2>2
    <3> QED BY <1>3, <1>4, <1>6, <2>2, <3>1, LinedBefore
  <2>3. CASE i = Len(u)
    <3>1. LinedAt(u, i) BY <1>3, <1>6, <2>3 DEF Lined
    <3>2. v[i] = Part(n + 1, 1) /\ (i = 1 \/ v[i - 1] = NewLine)
      BY <1>3, <1>4, <2>3, <3>1, SMTT(60) DEF LinedAt
    <3> QED BY <1>3, <1>4, <2>3, <3>2, PartsDiffer DEF LinedAt
  <2> QED BY <1>3, <2>1, <2>2, <2>3
<1>8. ASSUME NEW m \in Nat, Holds(u, m) PROVE m < n + 1
  <2>1. PICK j \in k + 1 .. Len(w) : w[j] = m BY <1>8 DEF Carries
  <2> QED BY <1>3, <1>5, <1>6, <2>1
<1>9. InOrder(v)
  <2> SUFFICES ASSUME NEW i \in 1 .. Len(u) + 1, NEW j \in 1 .. Len(u) + 1,
                      NEW m \in Nat, NEW l \in Nat,
                      i < j, v[i] = Part(m, 2), v[j] = Part(l, 2)
               PROVE  m < l
    BY <1>4 DEF InOrder
  <2>1. i \in 1 .. Len(u) BY <1>3
  <2>2. CASE j = Len(u) + 1
    <3>1. l = n + 1 BY <1>4, <2>2, PartsDiffer
    <3>2. Holds(u, m) BY <1>4, <2>1 DEF Holds
    <3> QED BY <1>8, <3>1, <3>2
  <2>3. CASE j \in 1 .. Len(u) BY <1>4, <1>6, <2>1, <2>3 DEF InOrder
  <2>4. j = Len(u) + 1 \/ j \in 1 .. Len(u) BY <1>3
  <2> QED BY <2>2, <2>3, <2>4
<1>10. Rising(y)
  <2> SUFFICES ASSUME NEW i \in 1 .. Len(w) + 1, NEW j \in 1 .. Len(w) + 1, i < j
               PROVE  y[i] < y[j]
    BY <1>5 DEF Rising
  <2>1. i \in 1 .. Len(w) BY <1>3
  <2>2. CASE j = Len(w) + 1 BY <1>5, <2>1, <2>2, SMTT(60)
  <2>3. CASE j \in 1 .. Len(w) BY <1>5, <1>6, <2>1, <2>3 DEF Rising
  <2>4. j = Len(w) + 1 \/ j \in 1 .. Len(w) BY <1>3
  <2> QED BY <2>2, <2>3, <2>4
<1>11. ASSUME NEW m \in Nat
       PROVE  Holds(v, m) <=> Holds(u, m) \/ m = n + 1
  <2>1. Holds(u, m) => Holds(v, m) BY <1>3, <1>4 DEF Holds
  <2>2. Holds(v, n + 1) BY <1>3, <1>4, SMTT(60) DEF Holds
  <2>3. ASSUME Holds(v, m) PROVE Holds(u, m) \/ m = n + 1
    <3>1. PICK i \in 1 .. Len(u) + 1 : v[i] = Part(m, 2)
      BY <1>4, <2>3 DEF Holds
    <3>2. CASE i = Len(u) + 1 BY <1>4, <3>1, <3>2, PartsDiffer
    <3>3. CASE i \in 1 .. Len(u) BY <1>4, <3>1, <3>3 DEF Holds
    <3>4. i = Len(u) + 1 \/ i \in 1 .. Len(u) BY <1>3
    <3> QED BY <3>2, <3>3, <3>4
  <2> QED BY <2>1, <2>2, <2>3
<1>12. ASSUME NEW m \in Nat
       PROVE  (\E j \in k + 1 .. Len(y) : y[j] = m)
              <=> (\E j \in k + 1 .. Len(w) : w[j] = m) \/ m = n + 1
  <2>1. Len(w) + 1 \in k + 1 .. Len(y) BY <1>3, <1>5, <1>6
  <2>2. \A j \in k + 1 .. Len(y) : j = Len(w) + 1 \/ j \in k + 1 .. Len(w)
    BY <1>3, <1>5, <1>6
  <2>3. \A j \in k + 1 .. Len(w) : j \in k + 1 .. Len(y) /\ y[j] = w[j]
    BY <1>3, <1>5, <1>6
  <2> QED BY <1>5, <2>1, <2>2, <2>3
<1>13. k \in 0 .. Len(y) BY <1>3, <1>5, <1>6
<1> QED
  BY <1>2, <1>7, <1>9, <1>10, <1>11, <1>12, <1>13 DEF Carries, v, y

-----------------------------------------------------------------------------
\* The first whole message in what is carried is the first not yet handled.
LEMMA FirstMessage ==
    ASSUME NEW n \in Nat, NEW u, NEW w, NEW k, Carries(u, w, k, n),
           NEW m \in Nat, Len(u) > 1, u[2] = Part(m, 2)
    PROVE  k + 1 \in 1 .. Len(w) /\ w[k + 1] = m
<1>1. Len(u) \in Nat /\ Len(w) \in Nat /\ k \in 0 .. Len(w) BY DEF Carries
<1>2. Holds(u, m) BY <1>1 DEF Holds
<1>3. PICK j \in k + 1 .. Len(w) : w[j] = m BY <1>2 DEF Carries
<1>4. k + 1 \in 1 .. Len(w) /\ j \in 1 .. Len(w) BY <1>1, <1>3
<1>5. \A i \in 1 .. Len(w) : w[i] \in 1 .. n BY DEF Carries
<1>6. ASSUME j # k + 1 PROVE FALSE
  <2> DEFINE l == w[k + 1]
  <2>1. l \in Nat BY <1>4, <1>5
  <2>2. l < m BY <1>3, <1>4, <1>6 DEF Carries, Rising
  <2>3. Holds(u, l)
    <3>1. k + 1 \in k + 1 .. Len(w) BY <1>1, <1>4
    <3> QED BY <2>1, <3>1 DEF Carries
  <2> HIDE DEF l
  <2>4. PICK i \in 1 .. Len(u) : u[i] = Part(l, 2) BY <2>3 DEF Holds
  <2>5. i > 1
    <3>1. LinedAt(u, i) BY <2>4 DEF Carries, Lined
    <3> QED BY <2>1, <2>4, <3>1 DEF LinedAt
  <2>6. CASE i = 2 BY <2>1, <2>2, <2>4, <2>6, PartsDiffer
  <2>7. CASE i > 2
    <3>1. 2 \in 1 .. Len(u) BY <1>1
    <3>2. InOrder(u) BY DEF Carries
    <3>3. m < l BY <2>1, <2>4, <2>7, <3>1, <3>2 DEF InOrder
    <3> QED BY <2>1, <2>2, <3>3
  <2> QED BY <2>4, <2>5, <2>6, <2>7
<1> QED BY <1>3, <1>4, <1>6

\* A line that is read whole is empty or a whole message.
LEMMA FirstLine ==
    ASSUME NEW n \in Nat, NEW u, NEW w, NEW k, Carries(u, w, k, n),
           NEW l \in 1 .. Len(u), \E i \in 1 .. l : u[i] = NewLine
    PROVE  \/ u[1] = NewLine
           \/ /\ l > 2 /\ u[3] = NewLine
              /\ \E m \in 1 .. n : u[1] = Part(m, 1) /\ u[2] = Part(m, 2)
<1> SUFFICES ASSUME u[1] # NewLine
             PROVE  /\ l > 2 /\ u[3] = NewLine
                    /\ \E m \in 1 .. n : u[1] = Part(m, 1) /\ u[2] = Part(m, 2)
  OBVIOUS
<1>1. Len(u) \in Nat BY DEF Carries
<1>2. PICK i \in 1 .. l : u[i] = NewLine OBVIOUS
<1>3. LinedAt(u, 1) /\ (Len(u) > 1 => LinedAt(u, 2))
  BY <1>1 DEF Carries, Lined
<1>4. u[1] \in Parts(n) BY <1>1 DEF Carries
<1>5. PICK m \in 1 .. n : u[1] = Part(m, 1)
  BY <1>3, <1>4, PartKinds DEF LinedAt
<1>6. l > 1 /\ Len(u) > 1 /\ u[2] = Part(m, 2)
  BY <1>1, <1>2, <1>3, <1>5 DEF LinedAt
<1>7. i # 2 BY <1>2, <1>6, PartsDiffer
<1>8. l > 2 /\ Len(u) > 2 BY <1>1, <1>2, <1>7
<1>9. u[3] = NewLine BY <1>1, <1>3, <1>6, <1>8 DEF LinedAt
<1> QED BY <1>5, <1>6, <1>8, <1>9

LEMMA OnlyTwo == \A l \in Nat : l >= 2 /\ l <= 2 => l = 2
OBVIOUS

\* A line without an end is empty, torn, or the last message.
LEMMA LastLine ==
    ASSUME NEW n \in Nat, NEW u, NEW w, NEW k, Carries(u, w, k, n),
           \A i \in 1 .. Len(u) : u[i] # NewLine
    PROVE  \/ /\ k = Len(w)
              /\ Len(u) < 2
           \/ /\ k + 1 = Len(w) /\ Len(u) = 2 /\ w[k + 1] \in 1 .. n
              /\ u[1] = Part(w[k + 1], 1) /\ u[2] = Part(w[k + 1], 2)
<1>1. /\ Len(u) \in Nat /\ Len(w) \in Nat /\ k \in 0 .. Len(w)
      /\ \A j \in 1 .. Len(w) : w[j] \in 1 .. n
  BY DEF Carries
<1>2. \A i \in 1 .. Len(u) : LinedAt(u, i) BY DEF Carries, Lined
<1>3. CASE Len(u) < 2
  <2>1. \A m \in Nat : ~Holds(u, m)
    BY <1>1, <1>2, <1>3 DEF Holds, LinedAt
  <2>2. ASSUME k < Len(w) PROVE FALSE
    <3>1. k + 1 \in k + 1 .. Len(w) /\ w[k + 1] \in Nat BY <1>1, <2>2
    <3> QED BY <2>1, <3>1 DEF Carries
  <2> QED BY <1>1, <1>3, <2>2
<1>4. CASE Len(u) >= 2
  <2>1. u[1] \in Parts(n) BY <1>1, <1>4 DEF Carries
  <2>2. LinedAt(u, 1) /\ LinedAt(u, 2) /\ u[1] # NewLine BY <1>1, <1>2, <1>4
  <2>3. PICK m \in 1 .. n : u[1] = Part(m, 1)
    BY <2>1, <2>2, PartKinds DEF LinedAt
  <2>4. u[2] = Part(m, 2) BY <1>1, <1>4, <2>2, <2>3 DEF LinedAt
  <2>5. k + 1 \in 1 .. Len(w) /\ w[k + 1] = m
    BY <1>1, <1>4, <2>4, FirstMessage
  <2>6. Len(u) = 2
    <3>1. CASE Len(u) > 2
      <4>1. u[3] = NewLine BY <1>1, <2>2, <2>4, <3>1 DEF LinedAt
      <4> QED BY <1>1, <3>1, <4>1
    <3>2. CASE ~(Len(u) > 2)
      <4>1. Len(u) \in Nat BY <1>1
      <4>2. Len(u) <= 2 /\ Len(u) >= 2 BY ONLY <1>4, <3>2, <4>1
      <4> QED BY ONLY <4>1, <4>2, OnlyTwo
    <3> QED BY <3>1, <3>2
  <2>7. ASSUME NEW l \in Nat, Holds(u, l) PROVE l = m
    <3>1. PICK i \in 1 .. 2 : u[i] = Part(l, 2) BY <2>6, <2>7 DEF Holds
    <3>2. i # 1 BY <2>3, <3>1, PartsDiffer
    <3> QED BY <2>4, <3>1, <3>2, PartsDiffer
  <2>8. ASSUME k + 1 < Len(w) PROVE FALSE
    <3>1. k + 2 \in k + 1 .. Len(w) /\ k + 2 \in 1 .. Len(w)
      BY <1>1, <2>8
    <3>2. w[k + 2] \in Nat BY <1>1, <3>1
    <3>3. Holds(u, w[k + 2]) BY <3>1, <3>2 DEF Carries
    <3>4. w[k + 1] < w[k + 2] BY <1>1, <2>5, <3>1 DEF Carries, Rising
    <3>5. w[k + 2] = m BY <2>7, <3>2, <3>3
    <3> QED BY <2>5, <3>4, <3>5
  <2>9. k + 1 = Len(w) BY <1>1, <2>5, <2>8
  <2> QED BY <2>3, <2>4, <2>5, <2>6, <2>9
<1> QED BY <1>1, <1>3, <1>4

\* What a sequence keeps without its front.
LEMMA RestOf ==
    ASSUME NEW S, NEW u \in Seq(S), NEW e \in 1 .. Len(u),
           NEW v, v = SubSeq(u, e + 1, Len(u))
    PROVE  /\ v \in Seq(S) /\ Len(v) \in Nat /\ Len(u) = Len(v) + e
           /\ \A i \in 1 .. Len(v) : i + e \in 1 .. Len(u) /\ v[i] = u[i + e]
<1>1. /\ e + 1 \in Int /\ Len(u) \in Int
      /\ \A i \in e + 1 .. Len(u) : u[i] \in S
  OBVIOUS
<1>2. /\ v \in Seq(S)
      /\ Len(v) = IF e + 1 <= Len(u) THEN Len(u) - (e + 1) + 1 ELSE 0
      /\ \A i \in 1 .. Len(u) - (e + 1) + 1 : v[i] = u[(e + 1) + i - 1]
  BY <1>1, SubSeqProperties
<1>3. Len(v) \in Nat /\ Len(u) = Len(v) + e BY <1>2
<1>4. ASSUME NEW i \in 1 .. Len(v)
      PROVE  i + e \in 1 .. Len(u) /\ v[i] = u[i + e]
  <2>1. i + e \in 1 .. Len(u) BY <1>3
  <2>2. i \in 1 .. Len(u) - (e + 1) + 1 /\ (e + 1) + i - 1 = i + e BY <1>3
  <2> QED BY <1>2, <2>1, <2>2
<1> QED BY <1>2, <1>3, <1>4

\* Neighbours behind the end of a line are judged as before.
LEMMA LinedAfter ==
    ASSUME NEW u, NEW v, NEW e \in Nat, Len(v) \in Nat, e > 0,
           Len(u) = Len(v) + e, u[e] = NewLine, Lined(u),
           \A i \in 1 .. Len(v) : i + e \in 1 .. Len(u) /\ v[i] = u[i + e]
    PROVE  Lined(v)
<1> SUFFICES ASSUME NEW i \in 1 .. Len(v) PROVE LinedAt(v, i)
  BY DEF Lined
<1>1. LinedAt(u, i + e) /\ v[i] = u[i + e] BY DEF Lined
<1>2. ASSUME i < Len(v) PROVE i + e < Len(u) /\ v[i + 1] = u[i + e + 1]
  <2>1. i + 1 \in 1 .. Len(v) /\ (i + 1) + e = i + e + 1 BY <1>2
  <2>2. v[i + 1] = u[(i + 1) + e] BY <2>1
  <2> QED BY <1>2, <2>1, <2>2
<1>3. ASSUME i > 1 PROVE v[i - 1] = u[i + e - 1]
  <2>1. i - 1 \in 1 .. Len(v) /\ (i - 1) + e = i + e - 1 BY <1>3
  <2>2. v[i - 1] = u[(i - 1) + e] BY <2>1
  <2> QED BY <2>1, <2>2
<1>4. i = 1 => u[i + e - 1] = NewLine OBVIOUS
<1>5. i = 1 \/ i > 1 OBVIOUS
<1> QED BY <1>1, <1>2, <1>3, <1>4, <1>5, PartsDiffer, SMTT(60) DEF LinedAt

\* What remains when a line is taken off the front.
LEMMA CarriesRest ==
    ASSUME NEW n \in Nat, NEW u, NEW w, NEW k, Carries(u, w, k, n),
           NEW e \in 1 .. Len(u), u[e] = NewLine,
           NEW h \in Nat, h <= Len(w),
           \/ e = 1 /\ h = k
           \/ e = 3 /\ h = k + 1 /\ u[1] = Part(w[h], 1) /\ u[2] = Part(w[h], 2)
    PROVE  /\ Carries(SubSeq(u, e + 1, Len(u)), w, h, n)
           /\ Ended(u) => Ended(SubSeq(u, e + 1, Len(u)))
<1> DEFINE v == SubSeq(u, e + 1, Len(u))
<1>1. /\ Len(u) \in Nat /\ Len(w) \in Nat /\ k \in 0 .. Len(w)
      /\ \A j \in 1 .. Len(w) : w[j] \in 1 .. n
      /\ \A i \in 1 .. Len(u) : u[i] \in Parts(n)
  BY DEF Carries
<1>0. Len(u) \in Nat /\ e \in Nat /\ 1 <= e /\ e <= Len(u) BY <1>1
<1>2. /\ v \in Seq(Parts(n)) /\ Len(v) \in Nat /\ Len(u) = Len(v) + e
      /\ \A i \in 1 .. Len(v) : i + e \in 1 .. Len(u) /\ v[i] = u[i + e]
  <2>1. u \in Seq(Parts(n)) BY DEF Carries
  <2>2. v = SubSeq(u, e + 1, Len(u)) OBVIOUS
  <2> HIDE DEF v
  <2> QED BY <2>1, <2>2, RestOf
<1> HIDE DEF v
<1>3. Lined(u) /\ InOrder(u) /\ Rising(w) BY DEF Carries
<1>4. Lined(v) BY <1>0, <1>2, <1>3, LinedAfter
<1>5. InOrder(v)
  <2> SUFFICES ASSUME NEW i \in 1 .. Len(v), NEW j \in 1 .. Len(v),
                      NEW m \in Nat, NEW l \in Nat,
                      i < j, v[i] = Part(m, 2), v[j] = Part(l, 2)
               PROVE  m < l
    BY DEF InOrder
  <2>1. i + e \in 1 .. Len(u) /\ v[i] = u[i + e] BY <1>2
  <2>2. j + e \in 1 .. Len(u) /\ v[j] = u[j + e] BY <1>2
  <2>3. i + e < j + e BY <1>0
  <2> QED BY <1>3, <2>1, <2>2, <2>3 DEF InOrder
<1>6. ASSUME NEW m \in Nat
      PROVE  Holds(v, m) <=> Holds(u, m) /\ (e = 3 => m # w[h])
  <2>1. ASSUME Holds(v, m) PROVE Holds(u, m) /\ (e = 3 => m # w[h])
    <3>1. PICK i \in 1 .. Len(v) : v[i] = Part(m, 2) BY <2>1 DEF Holds
    <3>2. i + e \in 1 .. Len(u) /\ u[i + e] = Part(m, 2) BY <1>2, <3>1
    <3>3. ASSUME e = 3 PROVE w[h] < m
      <4>1. 2 \in 1 .. Len(u) /\ 2 < i + e BY <1>1, <3>3
      <4>2. w[h] \in Nat /\ u[2] = Part(w[h], 2) BY <1>1, <3>3
      <4> QED BY <1>3, <3>2, <4>1, <4>2 DEF InOrder
    <3>4. Holds(u, m) BY <3>2 DEF Holds
    <3>5. e = 3 => w[h] \in Nat BY <1>1
    <3> QED BY <3>3, <3>4, <3>5
  <2>2. ASSUME Holds(u, m), e = 3 => m # w[h] PROVE Holds(v, m)
    <3>1. PICK i \in 1 .. Len(u) : u[i] = Part(m, 2) BY <2>2 DEF Holds
    <3>2. i # e BY <3>1, PartsDiffer
    <3>3. i > e
      <4>1. CASE e = 1 BY <3>2, <4>1
      <4>2. CASE e = 3
        <5>1. /\ w[h] \in Nat /\ u[1] = Part(w[h], 1)
              /\ u[2] = Part(w[h], 2) /\ m # w[h]
          BY <1>1, <2>2, <4>2
        <5>2. i # 1 /\ i # 2 BY <3>1, <5>1, PartsDiffer
        <5> QED BY <3>2, <4>2, <5>2
      <4> QED BY <4>1, <4>2
    <3>4. i - e \in 1 .. Len(v) /\ (i - e) + e = i BY <1>0, <1>2, <3>3
    <3>5. v[i - e] = u[i] BY <1>2, <3>4
    <3> QED BY <3>1, <3>4, <3>5 DEF Holds
  <2> QED BY <2>1, <2>2
<1>7. ASSUME NEW m \in Nat
      PROVE  (\E j \in h + 1 .. Len(w) : w[j] = m)
             <=> (\E j \in k + 1 .. Len(w) : w[j] = m) /\ (e = 3 => m # w[h])
  <2>1. CASE e = 1 BY <2>1
  <2>2. CASE e = 3
    <3>1. h = k + 1 /\ h \in 1 .. Len(w) BY <1>1, <2>2
    <3>2. \A j \in h + 1 .. Len(w) :
            /\ j \in k + 1 .. Len(w) /\ j \in 1 .. Len(w) /\ h < j
            /\ w[j] \in Nat
      BY <1>1, <3>1
    <3>3. \A j \in h + 1 .. Len(w) : w[h] < w[j]
      BY <1>3, <3>1, <3>2 DEF Rising
    <3>4. w[h] \in Nat BY <1>1, <3>1
    <3>5. \A j \in k + 1 .. Len(w) : j = h \/ j \in h + 1 .. Len(w)
      BY <1>1, <3>1
    <3> QED BY <2>2, <3>2, <3>3, <3>4, <3>5, SMTT(60)
  <2> QED BY <2>1, <2>2
<1>8. h \in 0 .. Len(w) /\ w \in Seq(1 .. n) BY <1>1 DEF Carries
<1>9. Carries(v, w, h, n)
  <2>1. \A m \in Nat : Holds(v, m) <=> \E j \in h + 1 .. Len(w) : w[j] = m
    BY <1>6, <1>7 DEF Carries
  <2> QED BY <1>2, <1>3, <1>4, <1>5, <1>8, <2>1 DEF Carries
<1>10. Ended(u) => Ended(v)
  <2>1. CASE e = Len(u) BY <1>1, <1>2, <2>1 DEF Ended
  <2>2. CASE e < Len(u)
    <3>1. Len(v) \in 1 .. Len(v) /\ Len(v) + e = Len(u) BY <1>0, <1>2, <2>2
    <3>2. v[Len(v)] = u[Len(u)] BY <1>2, <3>1
    <3>3. u # <<>> BY <1>0
    <3> QED BY <3>2, <3>3 DEF Ended
  <2> QED BY <1>1, <2>1, <2>2
<1> QED BY <1>9, <1>10 DEF v

-----------------------------------------------------------------------------
(***************************************************************************)
(* Lemmas about what the threads compute                                   *)
(***************************************************************************)
\* Nothing is carried once everything is handled.
LEMMA CarriesNothing ==
    ASSUME NEW n \in Nat, NEW w \in Seq(1 .. n), Rising(w)
    PROVE  Carries(<<>>, w, Len(w), n) /\ Ended(<<>>)
<1> DEFINE u == <<>>
<1>1. u \in Seq(Parts(n)) /\ Len(u) = 0 OBVIOUS
<1>2. Ended(u) BY DEF Ended
<1> HIDE DEF u
<1>3. Lined(u) /\ InOrder(u) BY <1>1 DEF Lined, InOrder
<1>4. Len(w) \in Nat OBVIOUS
<1>5. \A m \in Nat : ~Holds(u, m) /\ ~\E j \in Len(w) + 1 .. Len(w) : w[j] = m
  BY <1>1, <1>4 DEF Holds
<1>6. Carries(u, w, Len(w), n) BY <1>1, <1>3, <1>4, <1>5 DEF Carries
<1> QED BY <1>2, <1>6 DEF u

\* Parts written one after another are written as one.
LEMMA AppendParts ==
    ASSUME NEW S, NEW u \in Seq(S), NEW a \in S, NEW b \in S, NEW c \in S
    PROVE  /\ u \o <<a>> = Append(u, a)
           /\ u \o <<a, b>> = Append(Append(u, a), b)
           /\ u \o Append(<<a, b>>, c) = Append(Append(Append(u, a), b), c)
<1>1. u \o <<a>> = Append(u, a) BY AppendIsConcat
<1>2. Append(u, a) \in Seq(S) /\ Append(Append(u, a), b) \in Seq(S) OBVIOUS
<1>3. <<a>> \in Seq(S) /\ <<b>> \in Seq(S) /\ <<c>> \in Seq(S)
      /\ <<a, b>> \in Seq(S)
  OBVIOUS
<1>4. <<a>> \o <<b>> = <<a, b>>
  <2> DEFINE x == <<a>>
             y == <<b>>
             z == <<a, b>>
  <2>1. /\ Len(x) = 1 /\ Len(y) = 1 /\ Len(z) = 2
        /\ x[1] = a /\ y[1] = b /\ z[1] = a /\ z[2] = b
    OBVIOUS
  <2>2. x \in Seq(S) /\ y \in Seq(S) /\ z \in Seq(S) BY <1>3
  <2> HIDE DEF x, y, z
  <2>3. /\ x \o y \in Seq(S) /\ Len(x \o y) = 2
        /\ (x \o y)[1] = a /\ (x \o y)[2] = b
    BY <2>1, <2>2, ConcatProperties, SMTT(60)
  <2>4. \A i \in 1 .. 2 : i = 1 \/ i = 2 OBVIOUS
  <2>5. x \o y = z BY <2>1, <2>2, <2>3, <2>4, SeqEqual
  <2> QED BY <2>5 DEF x, y, z
<1>5. u \o <<a, b>> = Append(Append(u, a), b)
  <2>1. u \o (<<a>> \o <<b>>) = (u \o <<a>>) \o <<b>>
    BY <1>3, ConcatAssociative
  <2>2. Append(u, a) \o <<b>> = Append(Append(u, a), b)
    BY <1>2, AppendIsConcat
  <2> QED BY <1>1, <1>4, <2>1, <2>2
<1>6. u \o Append(<<a, b>>, c) = Append(Append(Append(u, a), b), c)
  <2>1. Append(<<a, b>>, c) = <<a, b>> \o <<c>> BY <1>3, AppendIsConcat
  <2>2. u \o (<<a, b>> \o <<c>>) = (u \o <<a, b>>) \o <<c>>
    BY <1>3, ConcatAssociative
  <2>3. Append(Append(u, a), b) \o <<c>> = Append(Append(Append(u, a), b), c)
    BY <1>2, AppendIsConcat
  <2> QED BY <1>5, <2>1, <2>2, <2>3
<1> QED BY <1>1, <1>5, <1>6

Joins(a, x, y) == (a \o x) \o y = a \o (x \o y)

LEMMA JoinsAnyWay ==
    ASSUME NEW S, NEW a \in Seq(S), NEW x \in Seq(S), NEW y \in Seq(S)
    PROVE  Joins(a, x, y)
BY ConcatAssociative, SMTT(60) DEF Joins

TakenOff(S, a, b, n) ==
    /\ a \o SubSeq(b, 1, n) \in Seq(S)
    /\ SubSeq(b, n + 1, Len(b)) \in Seq(S)
    /\ (a \o SubSeq(b, 1, n)) \o SubSeq(b, n + 1, Len(b)) = a \o b

\* A read moves parts, it changes none.
LEMMA ReadMoves ==
    ASSUME NEW S, NEW a \in Seq(S), NEW b \in Seq(S), NEW n \in 1 .. Len(b)
    PROVE  TakenOff(S, a, b, n)
<1>1. SubSeq(b, 1, n) \in Seq(S)
  <2>1. 1 \in Int /\ n \in Int /\ \A i \in 1 .. n : b[i] \in S OBVIOUS
  <2> QED BY <2>1, SubSeqProperties
<1>2. SubSeq(b, n + 1, Len(b)) \in Seq(S)
  <2>1. /\ n + 1 \in Int /\ Len(b) \in Int
        /\ \A i \in n + 1 .. Len(b) : b[i] \in S
    OBVIOUS
  <2> QED BY <2>1, SubSeqProperties
<1>3. SubSeq(b, 1, n) \o SubSeq(b, n + 1, Len(b)) = b
  <2>1. 1 \in 1 .. Len(b) + 1 /\ n \in 1 - 1 .. Len(b) /\ Len(b) \in n .. Len(b)
    OBVIOUS
  <2>2. SubSeq(b, 1, n) \o SubSeq(b, n + 1, Len(b)) = SubSeq(b, 1, Len(b))
    BY <2>1, ConcatAdjacentSubSeq
  <2> QED BY <2>2, SubSeqFull
<1>4. Joins(a, SubSeq(b, 1, n), SubSeq(b, n + 1, Len(b)))
  BY <1>1, <1>2, JoinsAnyWay
<1>5. a \o SubSeq(b, 1, n) \in Seq(S) BY <1>1, ConcatProperties
<1> QED BY <1>2, <1>3, <1>4, <1>5, Zenon DEF Joins, TakenOff

\* The set of the messages of a line, as a sequence.
LEMMA SetToSeqSmall ==
    /\ SetToSeq({}) = <<>>
    /\ \A m : SetToSeq({m}) = <<m>>
<1>1. SetToSeq({}) = <<>>
  <2>1. Cardinality({}) = 0 BY FS_EmptySet
  <2>2. \A f : f \in [1 .. 0 -> {}] <=> f = <<>>
    <3>1. <<>> = [i \in 1 .. 0 |-> i] OBVIOUS
    <3>2. 1 .. 0 = {} OBVIOUS
    <3> QED BY <3>1, <3>2
  <2>3. IsInjective(<<>>) BY DEF IsInjective
  <2> QED BY <2>1, <2>2, <2>3 DEF SetToSeq
<1>2. ASSUME NEW m PROVE SetToSeq({m}) = <<m>>
  <2>1. Cardinality({m}) = 1 BY FS_Singleton
  <2>2. \A f : f \in [1 .. 1 -> {m}] <=> f = <<m>> OBVIOUS
  <2>3. IsInjective(<<m>>) BY DEF IsInjective
  <2> QED BY <2>1, <2>2, <2>3 DEF SetToSeq
<1> QED BY <1>1, <1>2

-----------------------------------------------------------------------------
(***************************************************************************)
(* The connections                                                         *)
(***************************************************************************)
\* What a step of another peer, of the server or of nobody leaves as it is.
LEMMA OthersKeep ==
    ASSUME ConnectionInv, NEW q \in Peers,
           writes' = writes \/ writes' = writes + 1,
           written'[q] = written[q], handled'[q] = handled[q],
           message'[q] = message[q], stream'[q] = stream[q],
           q \in hung_up' <=> q \in hung_up,
           connection'[q] = "closed" => connection[q] = "closed"
    PROVE  PeerInv(q)'
<1>1. PeerInv(q) /\ writes \in Nat
  BY DEF ConnectionInv, ConnectionTypeOK
<1>2. Carries(Unhandled(q), written[q], Len(handled[q]), writes')
  BY <1>1, CarriesBeyond DEF PeerInv
<1>3. Unhandled(q)' = Unhandled(q) BY DEF Unhandled
<1> HIDE DEF Unhandled
<1> QED BY <1>1, <1>2, <1>3, Zenon DEF PeerInv

LEMMA SeqWidens ==
    ASSUME NEW S, NEW T, S \subseteq T, NEW s \in Seq(S)
    PROVE  s \in Seq(T)
OBVIOUS

LEMMA SeqElements ==
    ASSUME NEW S, NEW s \in Seq(S)
    PROVE  Len(s) \in Nat /\ \A i \in 1 .. Len(s) : s[i] \in S
OBVIOUS

\* The parts a peer may have written already, it may have written later.
LEMMA MoreParts ==
    ASSUME NEW n \in Nat, NEW u \in Seq(Parts(n))
    PROVE  u \in Seq(Parts(n + 1))
<1>1. Parts(n) \subseteq Parts(n + 1) BY DEF Parts
<1> QED BY <1>1, SeqWidens

\* A peer that writes, given what that makes of its stream.
LEMMA SendInductive ==
    ASSUME ConnectionInv, NEW p \in Peers, NEW parts, NEW messages,
           Send(p, parts, messages),
           hung_up' = hung_up \/ hung_up' = hung_up \cup {p},
           parts \in Seq(Parts(writes + 1)),
           messages \in {<<>>, <<writes + 1>>},
           Carries(Unhandled(p) \o parts, written[p] \o messages,
                   Len(handled[p]), writes + 1),
           p \notin hung_up' => Ended(Unhandled(p) \o parts)
    PROVE  ConnectionTypeOK' /\ \A q \in Peers : PeerInv(q)'
<1> DEFINE u == Unhandled(p)
           n == writes
<1>1. /\ n \in Nat /\ n + 1 \in 0 .. MaxWrites /\ writes' = n + 1
      /\ PeerInv(p)
      /\ message[p] \in Seq(Parts(n)) /\ stream[p] \in Seq(Parts(n))
  BY ConnectionAssumption
  DEF ConnectionInv, ConnectionTypeOK, Send, CanWrite
<1>2. /\ stream' = [stream EXCEPT ![p] = stream[p] \o parts]
      /\ written' = [written EXCEPT ![p] = written[p] \o messages]
      /\ message' = message /\ handled' = handled /\ connection' = connection
      /\ connection[p] # "closed"
  BY DEF Send, CanWrite, serverVars
<1>3. /\ DOMAIN written = Peers /\ DOMAIN handled = Peers
      /\ DOMAIN message = Peers /\ DOMAIN stream = Peers
  BY DEF ConnectionInv, ConnectionTypeOK
<1>4. \A q \in Peers \ {p} : stream'[q] = stream[q] /\ written'[q] = written[q]
  BY <1>2, <1>3
<1>5. stream'[p] = stream[p] \o parts /\ written'[p] = written[p] \o messages
  BY <1>2, <1>3
<1>6. /\ message[p] \in Seq(Parts(n + 1)) /\ stream[p] \in Seq(Parts(n + 1))
  BY <1>1, MoreParts
<1>7. ConnectionTypeOK'
  <2>1. ASSUME NEW q \in Peers
        PROVE  message'[q] \in Seq(Parts(n + 1)) /\ stream'[q] \in Seq(Parts(n + 1))
    <3>1. message[q] \in Seq(Parts(n)) /\ stream[q] \in Seq(Parts(n))
      BY DEF ConnectionInv, ConnectionTypeOK
    <3>2. message[q] \in Seq(Parts(n + 1)) /\ stream[q] \in Seq(Parts(n + 1))
      BY <1>1, <3>1, MoreParts
    <3>3. CASE q = p
      <4>1. stream[p] \o parts \in Seq(Parts(n + 1)) BY <1>6, ConcatProperties
      <4> QED BY <1>2, <1>5, <3>2, <3>3, <4>1
    <3>4. CASE q # p BY <1>2, <1>4, <3>2, <3>4
    <3> QED BY <3>3, <3>4
  <2>2. /\ DOMAIN written' = Peers /\ DOMAIN handled' = Peers
        /\ DOMAIN message' = Peers /\ DOMAIN stream' = Peers
    BY <1>2, <1>3
  <2> QED BY <1>1, <2>1, <2>2 DEF ConnectionTypeOK
<1>8. Unhandled(p)' = u \o parts
  <2>1. Joins(message[p], stream[p], parts) BY <1>6, JoinsAnyWay
  <2> QED BY <1>2, <1>5, <2>1, Zenon DEF Unhandled, Joins
<1>9. handled[p] = SubSeq(written[p] \o messages, 1, Len(handled[p]))
  <2> DEFINE w == written[p]
             k == Len(handled[p])
  <2>1. w \in Seq(Nat) /\ k \in 0 .. Len(w) /\ handled[p] = SubSeq(w, 1, k)
    <3>1. w \in Seq(1 .. n) /\ k \in 0 .. Len(w) BY <1>1 DEF PeerInv, Carries
    <3>2. handled[p] = SubSeq(w, 1, k) BY <1>1 DEF PeerInv
    <3>3. w \in Seq(Nat)
      <4>1. 1 .. n \subseteq Nat OBVIOUS
      <4> QED BY <3>1, <4>1, SeqWidens
    <3> QED BY <3>1, <3>2, <3>3
  <2>2. messages \in Seq(Nat)
    <3>1. <<>> \in Seq(Nat) OBVIOUS
    <3>2. <<n + 1>> \in Seq(Nat)
      <4>1. n + 1 \in Nat BY <1>1
      <4> QED BY <4>1
    <3> QED BY <3>1, <3>2
  <2> HIDE DEF w, k
  <2>3. CASE k = 0
    <3>1. SubSeq(w, 1, k) = <<>> /\ SubSeq(w \o messages, 1, k) = <<>>
      BY <2>3, SubSeqEmpty
    <3> QED BY <2>1, <3>1 DEF k, w
  <2>4. CASE k # 0
    <3>1. 1 \in 1 .. Len(w) /\ k \in 1 .. Len(w) BY <2>1, <2>4
    <3>2. SubSeq(w \o messages, 1, k) = SubSeq(w, 1, k)
      BY <2>1, <2>2, <3>1, SubSeqOfConcat1
    <3> QED BY <2>1, <3>2 DEF k, w
  <2> QED BY <2>3, <2>4
<1>10. PeerInv(p)'
  <2> HIDE DEF u
  <2>1. Carries(u \o parts, written'[p], Len(handled'[p]), writes')
    BY <1>1, <1>2, <1>5 DEF u
  <2>2. handled'[p] = SubSeq(written'[p], 1, Len(handled'[p]))
    BY <1>2, <1>5, <1>9
  <2>3. p \notin hung_up' => Ended(u \o parts) BY DEF u
  <2>4. connection'[p] # "closed" BY <1>2
  <2> QED BY <1>8, <2>1, <2>2, <2>3, <2>4, Zenon DEF PeerInv
<1>11. ASSUME NEW q \in Peers, q # p PROVE PeerInv(q)'
  BY <1>1, <1>2, <1>4, <1>11, OthersKeep
<1> QED BY <1>7, <1>10, <1>11

\* A peer writes a message, an empty line, or its last and torn one.
LEMMA WriteInductive ==
    ASSUME ConnectionInv, NEW p \in Peers,
           WriteLine(p) \/ WriteEmptyLine(p) \/ WriteTorn(p)
    PROVE  ConnectionTypeOK' /\ \A q \in Peers : PeerInv(q)'
<1> DEFINE u == Unhandled(p)
           w == written[p]
           k == Len(handled[p])
           n == writes
           one == Append(u, Part(n + 1, 1))
           two == Append(one, Part(n + 1, 2))
<1>1. n \in Nat /\ Carries(u, w, k, n) /\ Ended(u)
  BY DEF ConnectionInv, ConnectionTypeOK, PeerInv, WriteLine, WriteEmptyLine,
         WriteTorn, Send, CanWrite
<1>2. u \in Seq(Parts(n + 1)) /\ w \in Seq(1 .. n) /\ w \in Seq(1 .. n + 1)
  <2>1. u \in Seq(Parts(n)) /\ w \in Seq(1 .. n) BY <1>1 DEF Carries
  <2>2. 1 .. n \subseteq 1 .. n + 1 BY <1>1
  <2> HIDE DEF u, w
  <2>3. w \in Seq(1 .. n + 1) BY <2>1, <2>2, SeqWidens
  <2> QED BY <1>1, <2>1, <2>3, MoreParts
<1>3. {Part(n + 1, 1), Part(n + 1, 2), NewLine} \subseteq Parts(n + 1)
  BY <1>1 DEF Parts
<1> HIDE DEF u, w, k, one, two
<1>4. Carries(one, w, k, n + 1) BY <1>1, CarriesFirst DEF one
<1>5. one \in Seq(Parts(n + 1)) /\ one # <<>> /\ one[Len(one)] = Part(n + 1, 1)
  BY <1>2, <1>3, AppendProperties DEF one
<1>6. Carries(two, Append(w, n + 1), k, n + 1)
  BY <1>1, <1>2, <1>4, <1>5, CarriesSecond DEF two
<1>7. two \in Seq(Parts(n + 1)) /\ two # <<>> /\ two[Len(two)] = Part(n + 1, 2)
  BY <1>3, <1>5, AppendProperties DEF two
<1>8. /\ w \o <<>> = w /\ w \o <<n + 1>> = Append(w, n + 1)
  <2>1. n + 1 \in 1 .. n + 1 BY <1>1
  <2> QED BY <1>2, <2>1, ConcatEmptySeq, AppendIsConcat
<1>9. /\ u \o <<Part(n + 1, 1)>> = one
      /\ u \o Body(n + 1) = two
      /\ u \o Append(Body(n + 1), NewLine) = Append(two, NewLine)
      /\ u \o <<NewLine>> = Append(u, NewLine)
  BY <1>2, <1>3, AppendParts, SMTT(60) DEF one, two, Body
<1>10. /\ <<Part(n + 1, 1)>> \in Seq(Parts(n + 1))
       /\ Body(n + 1) \in Seq(Parts(n + 1))
       /\ Append(Body(n + 1), NewLine) \in Seq(Parts(n + 1))
       /\ <<NewLine>> \in Seq(Parts(n + 1))
  <2> DEFINE a == Part(n + 1, 1)
             b == Part(n + 1, 2)
             S == Parts(n + 1)
  <2>1. a \in S /\ b \in S /\ NewLine \in S BY <1>3
  <2>2. Body(n + 1) = <<a, b>> BY DEF Body
  <2> HIDE DEF a, b, S
  <2>3. <<a>> \in Seq(S) /\ <<a, b>> \in Seq(S) /\ <<NewLine>> \in Seq(S)
    BY <2>1
  <2>4. Append(<<a, b>>, NewLine) \in Seq(S) BY <2>1, <2>3, AppendProperties
  <2> QED BY <2>2, <2>3, <2>4 DEF a, b, S
<1>11. CASE WriteLine(p)
  <2>1. \A m \in Nat : two[Len(two)] # Part(m, 1)
    BY <1>1, <1>7, PartsDiffer
  <2>2. /\ Carries(Append(two, NewLine), Append(w, n + 1), k, n + 1)
        /\ Ended(Append(two, NewLine))
    BY <1>1, <1>6, <2>1, CarriesNewLine
  <2>3. Send(p, Append(Body(n + 1), NewLine), <<n + 1>>) /\ hung_up' = hung_up
    BY <1>11 DEF WriteLine
  <2> QED BY <1>8, <1>9, <1>10, <2>2, <2>3, SendInductive DEF u, w, k
<1>12. CASE WriteEmptyLine(p)
  <2>1. \A m \in Nat : u # <<>> => u[Len(u)] # Part(m, 1)
    BY <1>1, PartsDiffer DEF Ended
  <2>2. Carries(Append(u, NewLine), w, k, n) /\ Ended(Append(u, NewLine))
    BY <1>1, <2>1, CarriesNewLine
  <2>3. Carries(Append(u, NewLine), w, k, n + 1) BY <1>1, <2>2, CarriesBeyond
  <2>4. Send(p, <<NewLine>>, <<>>) /\ hung_up' = hung_up
    BY <1>12 DEF WriteEmptyLine
  <2> QED BY <1>8, <1>9, <1>10, <2>2, <2>3, <2>4, SendInductive DEF u, w, k
<1>13. CASE Send(p, <<Part(n + 1, 1)>>, <<>>) /\ hung_up' = hung_up \cup {p}
  BY <1>4, <1>8, <1>9, <1>10, <1>13, SendInductive DEF u, w, k
<1>14. CASE Send(p, Body(n + 1), <<n + 1>>) /\ hung_up' = hung_up \cup {p}
  BY <1>6, <1>8, <1>9, <1>10, <1>14, SendInductive DEF u, w, k
<1> QED BY <1>11, <1>12, <1>13, <1>14, Zenon DEF WriteTorn

\* A thread that reads, and a peer that hangs up.
LEMMA ReadInductive ==
    ASSUME ConnectionInv, NEW p \in Peers, Read(p) \/ HangUp(p)
    PROVE  ConnectionTypeOK' /\ \A q \in Peers : PeerInv(q)'
<1>1. /\ DOMAIN message = Peers /\ DOMAIN stream = Peers
      /\ message[p] \in Seq(Parts(writes)) /\ stream[p] \in Seq(Parts(writes))
  BY DEF ConnectionInv, ConnectionTypeOK
<1>2. PeerInv(p) BY DEF ConnectionInv
<1>3. /\ writes' = writes /\ written' = written /\ handled' = handled
      /\ connection' = connection /\ connection[p] # "closed"
  BY DEF Read, HangUp, serverVars, peerVars
<1>4. CASE HangUp(p)
  <2>1. /\ message' = message /\ stream' = stream
        /\ hung_up' = hung_up \cup {p}
    BY <1>4 DEF HangUp
  <2>2. ConnectionTypeOK' BY <1>3, <2>1 DEF ConnectionInv, ConnectionTypeOK
  <2>3. ASSUME NEW q \in Peers, q # p PROVE PeerInv(q)'
    BY <1>3, <2>1, <2>3, OthersKeep
  <2>4. PeerInv(p)'
    <3>1. Unhandled(p)' = Unhandled(p) BY <2>1 DEF Unhandled
    <3> QED BY <1>2, <1>3, <2>1, <3>1, Zenon DEF PeerInv
  <2> QED BY <2>2, <2>3, <2>4
<1>5. CASE Read(p)
  <2>1. PICK n \in 1 .. MaxRead :
          /\ n <= Len(stream[p])
          /\ message' = [message EXCEPT ![p] =
                             message[p] \o SubSeq(stream[p], 1, n)]
          /\ stream' = [stream EXCEPT ![p] =
                            SubSeq(stream[p], n + 1, Len(stream[p]))]
    BY <1>5 DEF Read
  <2>2. n \in 1 .. Len(stream[p]) BY <1>1, <2>1, ConnectionAssumption
  <2>3. /\ message[p] \o SubSeq(stream[p], 1, n) \in Seq(Parts(writes))
        /\ SubSeq(stream[p], n + 1, Len(stream[p])) \in Seq(Parts(writes))
        /\ (message[p] \o SubSeq(stream[p], 1, n))
               \o SubSeq(stream[p], n + 1, Len(stream[p]))
           = message[p] \o stream[p]
    <3>1. TakenOff(Parts(writes), message[p], stream[p], n)
      BY <1>1, <2>2, ReadMoves
    <3> QED BY ONLY <3>1, Zenon DEF TakenOff
  <2>4. /\ message'[p] = message[p] \o SubSeq(stream[p], 1, n)
        /\ stream'[p] = SubSeq(stream[p], n + 1, Len(stream[p]))
        /\ \A q \in Peers \ {p} :
               message'[q] = message[q] /\ stream'[q] = stream[q]
        /\ DOMAIN message' = Peers /\ DOMAIN stream' = Peers
    BY <1>1, <2>1
  <2>5. hung_up' = hung_up BY <1>5 DEF Read, peerVars
  <2>6. /\ message'[p] \in Seq(Parts(writes)) /\ stream'[p] \in Seq(Parts(writes))
        /\ message'[p] \o stream'[p] = message[p] \o stream[p]
    BY <2>3, <2>4
  <2>7. ConnectionTypeOK'
    <3>1. \A q \in Peers : /\ message'[q] \in Seq(Parts(writes))
                           /\ stream'[q] \in Seq(Parts(writes))
      BY <2>4, <2>6 DEF ConnectionInv, ConnectionTypeOK
    <3> QED BY <1>3, <2>4, <3>1 DEF ConnectionInv, ConnectionTypeOK
  <2>8. ASSUME NEW q \in Peers, q # p PROVE PeerInv(q)'
    BY <1>3, <2>4, <2>5, <2>8, OthersKeep
  <2>9. PeerInv(p)'
    <3>1. Unhandled(p)' = Unhandled(p) BY <2>6 DEF Unhandled
    <3> QED BY <1>2, <1>3, <2>5, <3>1, Zenon DEF PeerInv
  <2> QED BY <2>7, <2>8, <2>9
<1> QED BY <1>4, <1>5

LEMMA FirstTwo ==
    ASSUME NEW S, NEW s \in Seq(S), Len(s) > 2
    PROVE  SubSeq(s, 1, 2) = <<s[1], s[2]>>
<1> DEFINE x == SubSeq(s, 1, 2)
           y == <<s[1], s[2]>>
<1>1. 1 \in Int /\ 2 \in Int /\ \A i \in 1 .. 2 : s[i] \in S OBVIOUS
<1>2. /\ x \in Seq(S) /\ Len(x) = 2 /\ x[1] = s[1] /\ x[2] = s[2]
  BY <1>1, SubSeqProperties
<1>3. s[1] \in S /\ s[2] \in S BY <1>1
<1>4. y \in Seq(S) /\ Len(y) = 2 /\ y[1] = s[1] /\ y[2] = s[2] BY <1>3
<1> HIDE DEF x, y
<1>5. \A i \in 1 .. 2 : i = 1 \/ i = 2 OBVIOUS
<1>6. x = y BY <1>2, <1>4, <1>5, SeqEqual
<1> QED BY <1>6 DEF x, y

\* What a thread that is at the end of a line handles, and what it keeps.
LEMMA LineHandled ==
    ASSUME ConnectionInv, NEW p \in Peers, ProcessLine(p)
    PROVE  LET u == Unhandled(p)
               w == written[p]
               k == Len(handled[p])
           IN  \E e \in 1 .. Len(message[p]), h \in Nat :
                   /\ e = LineEnd(p) /\ u[e] = NewLine /\ h <= Len(w)
                   /\ \/ /\ e = 1 /\ h = k
                         /\ handled'[p] = handled[p]
                      \/ /\ e = 3 /\ h = k + 1
                         /\ u[1] = Part(w[h], 1) /\ u[2] = Part(w[h], 2)
                         /\ handled'[p] = handled[p] \o <<w[h]>>
<1> DEFINE s == message[p]
           u == Unhandled(p)
           w == written[p]
           k == Len(handled[p])
           n == writes
           Ends(e) == /\ s[e] = NewLine
                      /\ \A j \in 1 .. e - 1 : s[j] # NewLine
<1>1. /\ s \in Seq(Parts(n)) /\ stream[p] \in Seq(Parts(n)) /\ n \in 0 .. MaxWrites
      /\ DOMAIN handled = Peers
  BY DEF ConnectionInv, ConnectionTypeOK
<1>2. Carries(u, w, k, n) BY DEF ConnectionInv, PeerInv
<1>3. /\ Len(s) \in Nat /\ Len(u) \in Nat /\ Len(s) <= Len(u)
      /\ \A i \in 1 .. Len(s) : u[i] = s[i]
  <2> DEFINE t == stream[p]
  <2>1. s \in Seq(Parts(n)) /\ t \in Seq(Parts(n)) /\ u = s \o t
    BY <1>1 DEF Unhandled
  <2> HIDE DEF s, t, u
  <2>2. /\ Len(s \o t) = Len(s) + Len(t) /\ Len(s) \in Nat /\ Len(t) \in Nat
        /\ \A i \in 1 .. Len(s) : (s \o t)[i] = s[i]
    BY <2>1, ConcatProperties
  <2> QED BY <2>1, <2>2
<1>4. \E i \in 1 .. Len(s) : s[i] = NewLine
  BY DEF ProcessLine, HasLine, Contains
<1>5. LineEnd(p) = CHOOSE e \in 1 .. Len(s) : Ends(e)
  <2>1. DOMAIN s = 1 .. Len(s) BY <1>1
  <2> QED BY <2>1 DEF LineEnd
<1>6. handled' = [handled EXCEPT ![p] =
                      handled[p] \o SetToSeq(Parsed(SubSeq(s, 1, LineEnd(p) - 1)))]
  BY DEF ProcessLine, Process
<1>7. handled'[p] = handled[p] \o SetToSeq(Parsed(SubSeq(s, 1, LineEnd(p) - 1)))
  BY <1>1, <1>6
<1> HIDE DEF s, u, w, k
<1>8. handled[p] \in Seq(Nat)
  <2>1. w \in Seq(1 .. n) /\ k \in 0 .. Len(w) /\ handled[p] = SubSeq(w, 1, k)
    BY <1>2 DEF Carries, ConnectionInv, PeerInv, w, k
  <2>2. 1 .. n \subseteq Nat OBVIOUS
  <2>3. w \in Seq(Nat) BY <2>1, <2>2, SeqWidens
  <2>4. 1 \in Int /\ k \in Int /\ \A i \in 1 .. k : w[i] \in Nat
    BY <2>1, <2>3
  <2> QED BY <2>1, <2>4, SubSeqProperties
<1>9. \A e, i \in 1 .. Len(s) : Ends(e) /\ Ends(i) => e = i
  BY <1>3
<1>10. CASE u[1] = NewLine
  <2>1. 1 \in 1 .. Len(s) /\ Ends(1) BY <1>3, <1>4, <1>10
  <2>2. LineEnd(p) = 1 BY <1>5, <1>9, <2>1
  <2>3. SubSeq(s, 1, LineEnd(p) - 1) = <<>> BY <2>2, SubSeqEmpty
  <2>4. Parsed(<<>>) = {} BY DEF Parsed, Body
  <2>5. handled'[p] = handled[p]
    <3>1. handled[p] \o <<>> = handled[p] BY <1>8, ConcatEmptySeq
    <3> QED BY <1>7, <2>3, <2>4, <3>1, SetToSeqSmall
  <2>6. k \in Nat /\ k <= Len(w) BY <1>2 DEF Carries
  <2> QED BY <1>10, <2>1, <2>2, <2>5, <2>6 DEF s, u, w, k
<1>11. CASE u[1] # NewLine
  <2>0. /\ Len(s) > 2 /\ u[3] = NewLine
        /\ \E m \in 1 .. n : u[1] = Part(m, 1) /\ u[2] = Part(m, 2)
    <3>1. /\ n \in Nat /\ Len(s) \in 1 .. Len(u)
          /\ \E i \in 1 .. Len(s) : u[i] = NewLine
      BY <1>1, <1>3, <1>4
    <3> HIDE DEF n
    <3> QED BY <1>2, <1>11, <3>1, FirstLine
  <2>1. PICK m \in 1 .. n : u[1] = Part(m, 1) /\ u[2] = Part(m, 2) BY <2>0
  <2>2. Len(s) > 2 /\ u[3] = NewLine BY <2>0
  <2>3. 3 \in 1 .. Len(s) /\ Ends(3)
    <3>1. s[1] = Part(m, 1) /\ s[2] = Part(m, 2) /\ s[3] = NewLine
      BY <1>3, <2>1, <2>2
    <3>2. \A j \in 1 .. 3 - 1 : j = 1 \/ j = 2 OBVIOUS
    <3>3. m \in Nat BY <1>1
    <3> QED BY <1>3, <2>2, <3>1, <3>2, <3>3, PartsDiffer
  <2>4. LineEnd(p) = 3 BY <1>5, <1>9, <2>3
  <2>5. SubSeq(s, 1, LineEnd(p) - 1) = Body(m)
    <3>1. s[1] = Part(m, 1) /\ s[2] = Part(m, 2) BY <1>3, <2>1, <2>2
    <3>2. s \in Seq(Parts(n)) /\ Len(s) > 2 BY <1>1, <2>2 DEF s
    <3>3. SubSeq(s, 1, 2) = <<s[1], s[2]>> BY <3>2, FirstTwo
    <3> QED BY <2>4, <3>1, <3>3 DEF Body
  <2>6. Parsed(Body(m)) = {m}
    <3>1. m \in Messages BY <1>1, ConnectionAssumption DEF Messages
    <3>2. \A l \in Messages : Body(l) = Body(m) => l = m
      BY DEF Body, Part
    <3> QED BY <3>1, <3>2 DEF Parsed
  <2>7. handled'[p] = handled[p] \o <<m>>
    BY <1>7, <2>5, <2>6, SetToSeqSmall
  <2>8. k + 1 \in 1 .. Len(w) /\ w[k + 1] = m
    BY <1>1, <1>2, <1>3, <2>1, <2>2, FirstMessage
  <2>9. k + 1 \in Nat /\ k + 1 <= Len(w)
    BY <1>2, <2>8 DEF Carries
  <2> HIDE DEF Ends
  <2> QED BY <2>1, <2>2, <2>3, <2>4, <2>7, <2>8, <2>9 DEF s, u, w, k
<1> QED BY <1>10, <1>11

\* What was handled, with the next message.
LEMMA HandledNext ==
    ASSUME NEW n \in Nat, NEW w \in Seq(1 .. n), NEW k \in Nat, k + 1 <= Len(w),
           NEW d, d = SubSeq(w, 1, k), NEW c, c = d \o <<w[k + 1]>>
    PROVE  c = SubSeq(w, 1, k + 1) /\ Len(c) = k + 1
<1>1. 1 \in 1 .. Len(w) /\ k + 1 \in 1 .. Len(w) OBVIOUS
<1>2. SubSeq(w, 1, k + 1) = SubSeq(w, 1, (k + 1) - 1) \o <<w[k + 1]>>
  BY <1>1, SubSeqRecursiveSecond
<1>3. (k + 1) - 1 = k OBVIOUS
<1>4. c = SubSeq(w, 1, k + 1) BY <1>2, <1>3
<1>5. Len(SubSeq(w, 1, k + 1)) = k + 1
  <2>1. \A i \in 1 .. k + 1 : w[i] \in 1 .. n BY <1>1
  <2>2. 1 \in Int /\ k + 1 \in Int /\ 1 <= k + 1 OBVIOUS
  <2>3. Len(SubSeq(w, 1, k + 1))
        = IF 1 <= k + 1 THEN (k + 1) - 1 + 1 ELSE 0
    BY <2>1, <2>2, SubSeqProperties
  <2> QED BY <2>2, <2>3
<1> QED BY <1>4, <1>5

\* What lies behind the line, read or not.
LEMMA BehindLine ==
    ASSUME NEW S, NEW a \in Seq(S), NEW b \in Seq(S), NEW e \in 1 .. Len(a)
    PROVE  /\ SubSeq(a, e + 1, Len(a)) \in Seq(S)
           /\ SubSeq(a, e + 1, Len(a)) \o b = SubSeq(a \o b, e + 1, Len(a \o b))
<1> DEFINE u == a \o b
           v == SubSeq(a, e + 1, Len(a))
           x == v \o b
           y == SubSeq(u, e + 1, Len(u))
<1>1. /\ u \in Seq(S) /\ Len(u) = Len(a) + Len(b)
      /\ \A i \in 1 .. Len(u) :
             u[i] = IF i <= Len(a) THEN a[i] ELSE b[i - Len(a)]
      /\ Len(a) \in Nat /\ Len(b) \in Nat
  BY ConcatProperties
<1> HIDE DEF u
<1>2. /\ v \in Seq(S) /\ Len(v) \in Nat /\ Len(a) = Len(v) + e
      /\ \A i \in 1 .. Len(v) : v[i] = a[i + e]
  BY RestOf
<1> HIDE DEF v
<1>3. /\ x \in Seq(S) /\ Len(x) = Len(v) + Len(b)
      /\ \A i \in 1 .. Len(x) :
             x[i] = IF i <= Len(v) THEN v[i] ELSE b[i - Len(v)]
  BY <1>2, ConcatProperties
<1> HIDE DEF x
<1>4. /\ y \in Seq(S) /\ Len(y) \in Nat /\ Len(u) = Len(y) + e
      /\ \A i \in 1 .. Len(y) : i + e \in 1 .. Len(u) /\ y[i] = u[i + e]
  <2>1. e \in 1 .. Len(u) BY <1>1
  <2> QED BY <1>1, <2>1, RestOf
<1> HIDE DEF y
<1>5. Len(x) = Len(y) BY <1>1, <1>2, <1>3, <1>4
<1>6. ASSUME NEW i \in 1 .. Len(x) PROVE x[i] = y[i]
  <2>1. y[i] = u[i + e] /\ i + e \in 1 .. Len(u) BY <1>4, <1>5
  <2>2. CASE i <= Len(v)
    <3>1. i + e <= Len(a) /\ i \in 1 .. Len(v) BY <1>2, <2>2
    <3> QED BY <1>1, <1>2, <1>3, <2>1, <2>2, <3>1
  <2>3. CASE ~(i <= Len(v))
    <3>1. ~(i + e <= Len(a)) /\ (i + e) - Len(a) = i - Len(v) BY <1>2, <2>3
    <3> QED BY <1>1, <1>3, <2>1, <2>3, <3>1
  <2> QED BY <2>2, <2>3
<1>7. x = y BY <1>3, <1>4, <1>5, <1>6, SeqEqual
<1> QED BY <1>2, <1>7 DEF x, y, u, v

\* A thread handles a line.
LEMMA ProcessLineInductive ==
    ASSUME ConnectionInv, NEW p \in Peers, ProcessLine(p)
    PROVE  ConnectionTypeOK' /\ \A q \in Peers : PeerInv(q)'
<1> DEFINE u == Unhandled(p)
           w == written[p]
           k == Len(handled[p])
           n == writes
<1>1. PICK e \in 1 .. Len(message[p]), h \in Nat :
        /\ e = LineEnd(p) /\ u[e] = NewLine /\ h <= Len(w)
        /\ \/ /\ e = 1 /\ h = k
              /\ handled'[p] = handled[p]
           \/ /\ e = 3 /\ h = k + 1
              /\ u[1] = Part(w[h], 1) /\ u[2] = Part(w[h], 2)
              /\ handled'[p] = handled[p] \o <<w[h]>>
  BY LineHandled
<1>2. /\ DOMAIN message = Peers /\ DOMAIN handled = Peers /\ n \in Nat
      /\ DOMAIN stream = Peers /\ DOMAIN written = Peers
      /\ message[p] \in Seq(Parts(n)) /\ stream[p] \in Seq(Parts(n))
  BY DEF ConnectionInv, ConnectionTypeOK
<1>3. /\ Carries(u, w, k, n) /\ handled[p] = SubSeq(w, 1, k)
      /\ p \notin hung_up => Ended(u)
  BY DEF ConnectionInv, PeerInv
<1>4. /\ message' = [message EXCEPT ![p] =
                         SubSeq(message[p], e + 1, Len(message[p]))]
      /\ \E c : handled' = [handled EXCEPT ![p] = c]
      /\ stream' = stream /\ written' = written /\ writes' = writes
      /\ hung_up' = hung_up /\ connection' = connection
      /\ connection[p] # "closed"
  BY <1>1 DEF ProcessLine, Process, serverVars, peerVars
<1>5. /\ message'[p] = SubSeq(message[p], e + 1, Len(message[p]))
      /\ \A q \in Peers \ {p} :
             message'[q] = message[q] /\ handled'[q] = handled[q]
      /\ DOMAIN message' = Peers /\ DOMAIN handled' = Peers
  BY <1>2, <1>4
<1>6. /\ message'[p] \in Seq(Parts(n))
      /\ Unhandled(p)' = SubSeq(u, e + 1, Len(u))
      /\ e \in 1 .. Len(u)
  <2> DEFINE a == message[p]
             b == stream[p]
             S == Parts(n)
  <2>1. a \in Seq(S) /\ b \in Seq(S) /\ e \in 1 .. Len(a) /\ u = a \o b
    BY <1>1, <1>2 DEF Unhandled
  <2>2. /\ Unhandled(p)' = SubSeq(a, e + 1, Len(a)) \o b
        /\ message'[p] = SubSeq(a, e + 1, Len(a))
    BY <1>4, <1>5 DEF Unhandled
  <2> HIDE DEF a, b, S, u
  <2>3. /\ SubSeq(a, e + 1, Len(a)) \in Seq(S)
        /\ SubSeq(a, e + 1, Len(a)) \o b = SubSeq(u, e + 1, Len(u))
    BY <2>1, BehindLine
  <2>4. e \in 1 .. Len(u)
    <3>1. Len(u) = Len(a) + Len(b) /\ Len(a) \in Nat /\ Len(b) \in Nat
      BY <2>1, ConcatProperties
    <3> QED BY <2>1, <3>1
  <2> QED BY <2>2, <2>3, <2>4 DEF S
<1>7. ConnectionTypeOK'
  <2>1. \A q \in Peers : message'[q] \in Seq(Parts(n)) /\ stream'[q] \in Seq(Parts(n))
    BY <1>4, <1>5, <1>6 DEF ConnectionInv, ConnectionTypeOK
  <2> QED BY <1>2, <1>4, <1>5, <2>1 DEF ConnectionInv, ConnectionTypeOK
<1>8. ASSUME NEW q \in Peers, q # p PROVE PeerInv(q)'
  BY <1>4, <1>5, <1>8, OthersKeep
<1>9. handled'[p] = SubSeq(w, 1, h) /\ Len(handled'[p]) = h
  <2> HIDE DEF u, w
  <2>1. CASE h = k /\ handled'[p] = handled[p] BY <1>3, <2>1
  <2>2. CASE h = k + 1 /\ handled'[p] = handled[p] \o <<w[h]>>
    <3>1. w \in Seq(1 .. n) /\ k \in Nat BY <1>3 DEF Carries
    <3> HIDE DEF k
    <3> QED BY <1>1, <1>2, <1>3, <2>2, <3>1, HandledNext, SMTT(60)
  <2> QED BY <1>1, <2>1, <2>2
<1>10. /\ Carries(SubSeq(u, e + 1, Len(u)), w, h, n)
       /\ Ended(u) => Ended(SubSeq(u, e + 1, Len(u)))
  <2> HIDE DEF u, w, k, n
  <2>1. \/ e = 1 /\ h = k
        \/ e = 3 /\ h = k + 1 /\ u[1] = Part(w[h], 1) /\ u[2] = Part(w[h], 2)
    BY <1>1
  <2>2. u[e] = NewLine /\ h <= Len(w) BY <1>1
  <2> QED BY <1>2, <1>3, <1>6, <2>1, <2>2, CarriesRest
<1>11. PeerInv(p)'
  <2> HIDE DEF u
  <2>1. Carries(Unhandled(p)', written'[p], Len(handled'[p]), writes')
    BY <1>4, <1>6, <1>9, <1>10
  <2>2. handled'[p] = SubSeq(written'[p], 1, Len(handled'[p]))
    BY <1>4, <1>9
  <2>3. p \notin hung_up' => Ended(Unhandled(p)') BY <1>3, <1>4, <1>6, <1>10
  <2> QED BY <1>4, <2>1, <2>2, <2>3, Zenon DEF PeerInv
<1> QED BY <1>7, <1>8, <1>11

\* A thread comes to the end of its stream.
LEMMA EndInductive ==
    ASSUME ConnectionInv, NEW p \in Peers, End(p)
    PROVE  ConnectionTypeOK' /\ \A q \in Peers : PeerInv(q)'
<1> DEFINE u == Unhandled(p)
           w == written[p]
           k == Len(handled[p])
           n == writes
<1>1. /\ DOMAIN message = Peers /\ DOMAIN handled = Peers
      /\ DOMAIN stream = Peers /\ DOMAIN written = Peers
      /\ DOMAIN connection = Peers
      /\ n \in 0 .. MaxWrites /\ message[p] \in Seq(Parts(n))
  BY DEF ConnectionInv, ConnectionTypeOK, ServerInv, ServerTypeOK
<1>2. /\ Carries(u, w, k, n) /\ handled[p] = SubSeq(w, 1, k)
  BY DEF ConnectionInv, PeerInv
<1>3. /\ message' = [message EXCEPT ![p] = <<>>]
      /\ handled' = [handled EXCEPT ![p] =
                         handled[p] \o SetToSeq(Parsed(message[p]))]
      /\ connection' = [connection EXCEPT ![p] = "closed"]
      /\ stream' = stream /\ stream[p] = <<>>
      /\ written' = written /\ writes' = writes /\ hung_up' = hung_up
      /\ \A i \in 1 .. Len(message[p]) : message[p][i] # NewLine
  BY DEF End, Process, HasLine, Contains, peerVars
<1>4. /\ message'[p] = <<>>
      /\ handled'[p] = handled[p] \o SetToSeq(Parsed(message[p]))
      /\ \A q \in Peers \ {p} : /\ message'[q] = message[q]
                                /\ handled'[q] = handled[q]
                                /\ connection'[q] = connection[q]
      /\ DOMAIN message' = Peers /\ DOMAIN handled' = Peers
  BY <1>1, <1>3
<1>5. u = message[p]
  <2> DEFINE a == message[p]
  <2>1. a \o <<>> = a BY <1>1, ConcatEmptySeq
  <2> QED BY <1>3, <2>1 DEF Unhandled
<1>6. Unhandled(p)' = <<>>
  <2>1. <<>> \o <<>> = <<>> OBVIOUS
  <2> QED BY <1>3, <1>4, <2>1 DEF Unhandled
<1>7. ConnectionTypeOK'
  <2>1. \A q \in Peers : message'[q] \in Seq(Parts(n)) /\ stream'[q] \in Seq(Parts(n))
    <3>1. <<>> \in Seq(Parts(n)) OBVIOUS
    <3> QED BY <1>3, <1>4, <3>1 DEF ConnectionInv, ConnectionTypeOK
  <2> QED BY <1>1, <1>3, <1>4, <2>1 DEF ConnectionInv, ConnectionTypeOK
<1>8. ASSUME NEW q \in Peers, q # p PROVE PeerInv(q)'
  BY <1>3, <1>4, <1>8, OthersKeep
<1>9. w \in Seq(1 .. n) /\ Rising(w) /\ k \in Nat /\ Len(w) \in Nat /\ n \in Nat
  BY <1>1, <1>2 DEF Carries
<1>10. \/ /\ k = Len(w) /\ Len(u) < 2
       \/ /\ k + 1 = Len(w) /\ Len(u) = 2 /\ w[k + 1] \in 1 .. n
          /\ u[1] = Part(w[k + 1], 1) /\ u[2] = Part(w[k + 1], 2)
  <2>1. \A i \in 1 .. Len(u) : u[i] # NewLine BY <1>3, <1>5
  <2> HIDE DEF u, w, k, n
  <2> QED BY <1>2, <1>9, <2>1, LastLine
<1>11. handled'[p] = SubSeq(w, 1, Len(w)) /\ Len(handled'[p]) = Len(w)
  <2>1. CASE k = Len(w) /\ Len(u) < 2
    <3>1. \A m : Len(Body(m)) = 2 BY DEF Body
    <3>2. ASSUME NEW m, message[p] = Body(m) PROVE FALSE
      <4>1. Len(u) = 2 BY <1>5, <3>1, <3>2
      <4> QED BY <2>1, <4>1
    <3>3. Parsed(message[p]) = {} BY <3>2 DEF Parsed
    <3>4. handled[p] \in Seq(1 .. n)
      <4> HIDE DEF w, n
      <4>1. handled[p] = w BY <1>2, <1>9, <2>1, SubSeqFull
      <4> QED BY <1>9, <4>1
    <3>5. handled[p] \o <<>> = handled[p] BY <3>4, ConcatEmptySeq
    <3>6. handled'[p] = handled[p] BY <1>4, <3>3, <3>5, SetToSeqSmall
    <3> QED BY <1>2, <2>1, <3>6
  <2>2. CASE /\ k + 1 = Len(w) /\ Len(u) = 2 /\ w[k + 1] \in 1 .. n
             /\ u[1] = Part(w[k + 1], 1) /\ u[2] = Part(w[k + 1], 2)
    <3> DEFINE m == w[k + 1]
    <3>1. message[p] = Body(m)
      <4>1. u \in Seq(Parts(n)) BY <1>1, <1>5
      <4>2. u = <<u[1], u[2]>> BY <2>2, <4>1
      <4> QED BY <1>5, <2>2, <4>2 DEF Body
    <3>2. Parsed(Body(m)) = {m}
      <4>1. m \in Messages BY <1>1, <2>2, ConnectionAssumption DEF Messages
      <4>2. \A l \in Messages : Body(l) = Body(m) => l = m
        BY DEF Body, Part
      <4> QED BY <4>1, <4>2 DEF Parsed
    <3>3. handled'[p] = handled[p] \o <<m>>
      BY <1>4, <3>1, <3>2, SetToSeqSmall
    <3> HIDE DEF w, k, n
    <3> QED BY <1>2, <1>9, <2>2, <3>3, HandledNext, SMTT(60)
  <2> QED BY <1>10, <2>1, <2>2
<1>12. PeerInv(p)'
  <2>1. Carries(<<>>, w, Len(w), n) /\ Ended(<<>>) BY <1>9, CarriesNothing
  <2>2. Carries(Unhandled(p)', written'[p], Len(handled'[p]), writes')
    BY <1>3, <1>6, <1>11, <2>1
  <2>3. handled'[p] = SubSeq(written'[p], 1, Len(handled'[p])) BY <1>3, <1>11
  <2>4. Ended(Unhandled(p)') BY <1>6, <2>1
  <2> QED BY <1>6, <2>2, <2>3, <2>4, Zenon DEF PeerInv
<1> QED BY <1>7, <1>8, <1>12

\* The server, whatever it does, takes nothing from a connection it accepted.
LEMMA ServerStepInductive ==
    ASSUME ConnectionInv,
           UNCHANGED <<peerVars, stream, message, handled>>,
           \A p \in Peers : connection'[p] = "closed" => connection[p] = "closed"
    PROVE  ConnectionTypeOK' /\ \A q \in Peers : PeerInv(q)'
<1>1. ConnectionTypeOK' BY DEF ConnectionInv, ConnectionTypeOK, peerVars
<1>2. ASSUME NEW q \in Peers PROVE PeerInv(q)'
  BY OthersKeep DEF peerVars
<1> QED BY <1>1, <1>2

LEMMA ServerClosesNone ==
    ASSUME ServerInv,
           \/ Create \/ Destroy \/ Starting \/ Stopping
           \/ \E r \in Runs : Accepting(r)
           \/ \E p \in Peers : Connect(p) \/ Drop(p)
    PROVE  \A p \in Peers : connection'[p] = "closed" => connection[p] = "closed"
<1> USE DEF ServerInv, ServerTypeOK
<1>1. CASE Create \/ Destroy BY <1>1 DEF Create, Destroy
<1>2. CASE Starting
  BY <1>2 DEF Starting, Bind, BindFails, Listen, ListenFails, Launch
<1>3. CASE Stopping
  BY <1>3 DEF Stopping, StopFlag, StopShutdown, StopClose, StopForget, StopJoin,
              StopRemove
<1>4. ASSUME NEW r \in Runs, Accepting(r)
      PROVE  \A p \in Peers : connection'[p] = "closed" => connection[p] = "closed"
  BY <1>4 DEF Accepting, AcceptTest, AcceptLoad, AcceptRefused, AcceptBlocks,
              AcceptWoken, Accept
<1>5. ASSUME NEW q \in Peers, Connect(q) \/ Drop(q)
      PROVE  \A p \in Peers : connection'[p] = "closed" => connection[p] = "closed"
  BY <1>5 DEF Connect, Drop
<1> QED BY <1>1, <1>2, <1>3, <1>4, <1>5

LEMMA ConnectionInitially == Init => ConnectionInv
<1> SUFFICES ASSUME Init PROVE ConnectionInv
  OBVIOUS
<1>1. ServerInv BY ServerInitially DEF Init
<1>2. ConnectionTypeOK
  <2>1. <<>> \in Seq(Parts(writes)) OBVIOUS
  <2> QED BY <2>1, ConnectionAssumption DEF Init, ConnectionTypeOK
<1>3. ASSUME NEW p \in Peers PROVE PeerInv(p)
  <2>1. /\ message[p] = <<>> /\ stream[p] = <<>> /\ written[p] = <<>>
        /\ handled[p] = <<>> /\ writes = 0 /\ connection[p] = "none"
    BY <1>3 DEF Init, ServerInit
  <2>2. Unhandled(p) = <<>>
    <3>1. <<>> \o <<>> = <<>> OBVIOUS
    <3> QED BY <2>1, <3>1 DEF Unhandled
  <2>3. <<>> \in Seq(1 .. 0) /\ Rising(<<>>) /\ Len(<<>>) = 0 BY DEF Rising
  <2>4. Carries(<<>>, <<>>, 0, 0) /\ Ended(<<>>) BY <2>3, CarriesNothing
  <2>5. SubSeq(<<>>, 1, 0) = <<>> BY SubSeqEmpty
  <2> QED BY <2>1, <2>2, <2>3, <2>4, <2>5 DEF PeerInv
<1> QED BY <1>1, <1>2, <1>3 DEF ConnectionInv

LEMMA ConnectionsInductive ==
    ConnectionInv /\ [Next]_connectionVars => ConnectionInv'
<1> SUFFICES ASSUME ConnectionInv, [Next]_connectionVars PROVE ConnectionInv'
  OBVIOUS
<1>1. ServerInv' BY ServerInductive DEF ConnectionInv
<1>2. SUFFICES ConnectionTypeOK' /\ \A q \in Peers : PeerInv(q)'
  BY <1>1 DEF ConnectionInv
<1>3. CASE \/ ServerStep(Create \/ Destroy \/ Starting \/ Stopping)
           \/ \E r \in Runs : ServerStep(Accepting(r))
           \/ \E p \in Peers : ServerStep(Connect(p) \/ Drop(p))
  <2>1. \A p \in Peers : connection'[p] = "closed" => connection[p] = "closed"
    BY <1>3, ServerClosesNone DEF ServerStep, ConnectionInv
  <2>2. UNCHANGED <<peerVars, stream, message, handled>>
    BY <1>3, Zenon DEF ServerStep
  <2> QED BY <2>1, <2>2, ServerStepInductive
<1>4. CASE \E p \in Peers : WriteLine(p) \/ WriteEmptyLine(p) \/ WriteTorn(p)
  BY <1>4, WriteInductive
<1>5. CASE \E p \in Peers : HangUp(p) \/ Read(p) BY <1>5, ReadInductive
<1>6. CASE \E p \in Peers : ProcessLine(p) BY <1>6, ProcessLineInductive
<1>7. CASE \E p \in Peers : End(p) BY <1>7, EndInductive
<1>8. CASE UNCHANGED connectionVars
  BY <1>8, ServerStepInductive DEF connectionVars, serverVars
<1> QED
  BY <1>3, <1>4, <1>5, <1>6, <1>7, <1>8, Zenon DEF Next, HandleConnection

\* Every connection's thread handles its peer's messages, whole, in order, each
\* once, and all of them by the time it closes, wherever the reads cut the
\* stream (ime_bridge.cc:129) and whatever becomes of the server meanwhile.
THEOREM HandlesAsWritten == Spec => []HandledAsWritten
<1>1. ConnectionInv => HandledAsWritten
  <2> SUFFICES ASSUME ConnectionInv, NEW p \in Peers
               PROVE  /\ IsPrefix(handled[p], written[p])
                      /\ connection[p] = "closed" => handled[p] = written[p]
    BY DEF HandledAsWritten
  <2> DEFINE u == Unhandled(p)
             w == written[p]
             d == handled[p]
             n == writes
  <2>1. /\ Carries(u, w, Len(d), n) /\ d = SubSeq(w, 1, Len(d)) /\ n \in Nat
        /\ connection[p] = "closed" => u = <<>>
    BY DEF ConnectionInv, ConnectionTypeOK, PeerInv
  <2> HIDE DEF u, d, w, n
  <2>2. w \in Seq(1 .. n) BY <2>1 DEF Carries
  <2>3. Len(w) \in Nat /\ \A i \in 1 .. Len(w) : w[i] \in 1 .. n
    BY <2>2, SeqElements
  <2>4. /\ Len(d) \in 0 .. Len(w)
        /\ \A m \in Nat : Holds(u, m) <=> \E j \in Len(d) + 1 .. Len(w) : w[j] = m
    BY <2>1 DEF Carries
  <2>5. d \in Seq(1 .. n)
    <3>1. 1 \in Int /\ Len(d) \in Int /\ \A i \in 1 .. Len(d) : w[i] \in 1 .. n
      BY <2>3, <2>4
    <3>2. SubSeq(w, 1, Len(d)) \in Seq(1 .. n) BY <3>1, SubSeqProperties
    <3> QED BY <2>1, <3>2
  <2>6. IsPrefix(d, w)
    <3>1. SubSeq(d, 1, Len(d)) = d BY <2>5, SubSeqFull
    <3> QED BY <2>1, <2>3, <2>4, <3>1 DEF IsPrefix
  <2>7. ASSUME u = <<>> PROVE d = w
    <3>1. \A m \in Nat : ~Holds(u, m) BY <2>7 DEF Holds
    <3>2. ASSUME Len(d) < Len(w) PROVE FALSE
      <4>1. Len(w) \in Len(d) + 1 .. Len(w) /\ Len(w) \in 1 .. Len(w)
        BY <2>3, <2>4, <3>2
      <4>2. w[Len(w)] \in Nat BY <2>1, <2>3, <4>1
      <4> QED BY <2>4, <3>1, <4>1, <4>2
    <3>3. Len(d) = Len(w) BY <2>3, <2>4, <3>2
    <3>4. SubSeq(w, 1, Len(w)) = w BY <2>2, SubSeqFull
    <3> QED BY <2>1, <3>3, <3>4
  <2> QED BY <2>1, <2>6, <2>7 DEF d, w
<1>2. Init => ConnectionInv BY ConnectionInitially
<1> QED BY <1>1, <1>2, ConnectionsInductive, PTL DEF Spec

=============================================================================
