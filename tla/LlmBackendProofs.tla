-------------------------- MODULE LlmBackendProofs --------------------------
(***************************************************************************)
(* Theorems about LlmBackend.                                              *)
(*                                                                         *)
(* The invariant has four parts.  A client's promise is pending exactly    *)
(* while its ticket is in one of the worker's three places, and in one     *)
(* only.  Where a client's thread is says what the others can still do.    *)
(* The part of the batch that is ahead of the worker belongs to tickets    *)
(* that are not sampled, and holds something of each.  And what lies in    *)
(* the context from before a clear is asked to be removed before the       *)
(* client's next ticket reaches the batch.  Apart from it, Capacity bounds *)
(* the cells in use and the tokens of a ticket.                            *)
(*                                                                         *)
(* The batch is computed from the tickets by FlattenSeq: what it holds is  *)
(* shown by induction over the number of tickets.                          *)
(***************************************************************************)
EXTENDS LlmBackend, DataInduction

-----------------------------------------------------------------------------
(***************************************************************************)
(* The inductive invariant                                                 *)
(***************************************************************************)
Before == {"idle", "commit_wait", "clear_wait", "remove_wait"}
Leaving == {"quit", "free", "join", "gone"}

ThreadsOK ==
    /\ place \in [Clients -> Before \cup Leaving \cup
                             {"commit", "clear", "remove"}]
    /\ future \in [Clients -> {"none", "pending", "ready"}]
    /\ worker \in {"wait", "take", "prepare", "decode", "sample", "exited"}
    /\ tickets_ \in Seq(Clients) /\ tickets \in Seq(Clients)
    /\ decoded \subseteq Clients

\* Each pending promise has its ticket, in one place.
OneTicketEach ==
    /\ \A c \in Clients : future[c] = "pending" <=> InFlight(c)
    /\ IsInjective(tickets) /\ IsInjective(tickets_)
    /\ Range(tickets) \cap Range(tickets_) = {}
    /\ decoded \cap (Range(tickets) \cup Range(tickets_)) = {}

\* Only the last client stops the worker.
PlacesAgree ==
    /\ \A c \in Clients : place[c] \notin Before => future[c] # "pending"
    /\ freed \/ (\E c \in Clients : place[c] \in Leaving \ {"gone"})
           => \A c \in Clients : place[c] \in Leaving

\* The worker has something to do, and no other tickets in its hands.
WorkerBusy ==
    /\ worker = "take" => Range(tickets) \cup Range(tickets_) # {} \/ ~running_
    /\ worker = "prepare" => Range(tickets) # {}
    /\ worker = "decode" => decoded # {}
    /\ worker \in {"wait", "take", "prepare", "exited"} => decoded = {}

\* From the batch's position p on are the tokens of the tickets not sampled.
Ahead(p) ==
    /\ \A i \in p + 1 .. Len(batch) : batch[i] \in decoded
    /\ \A c \in decoded : \E i \in p + 1 .. Len(batch) : batch[i] = c

BatchAhead ==
    /\ batch \in Seq(Clients) /\ at \in Nat /\ chunk \in Nat \ {0}
    /\ worker = "decode" => Ahead(at)
    /\ worker = "sample" =>
          /\ \A i \in at + chunk + 1 .. Len(batch) : batch[i] \in decoded
          /\ \A c \in decoded : \E i \in at + 1 .. Len(batch) : batch[i] = c

\* -1 is the position before the first.
Positions == Nat \cup {-1}

TicketSet == [tokens : Nat, n_decoded : Nat, again : BOOLEAN,
              p0 : Positions, p1 : Positions]

EntrySet == [p0 : Positions, p1 : Positions]

USE DEF TicketSet, EntrySet

TicketsOK ==
    /\ ticket \in [Clients -> TicketSet]
    /\ \A c \in Clients : InFlight(c) => ticket[c].tokens > 0

CellsOK ==
    /\ cells \in [Clients -> SUBSET Nat] /\ older \in [Clients -> SUBSET Nat]
    /\ \A c \in Clients :
          IsFiniteSet(cells[c]) /\ older[c] \subseteq cells[c]

EntriesOK ==
    /\ history \in [Clients -> Seq(EntrySet)]
    /\ pop_back_ \in [Clients -> Positions \cup {Nothing}]

\* What of a client's cells its history tells of.
Told(c) ==
    /\ history[c] # <<>> => history[c][1].p0 = -1
    /\ history[c] = <<>> /\ c \notin decoded =>
          cells[c] = {} \/ pop_back_[c] = -1
    /\ history[c] = <<>> /\ c \in decoded => ticket[c].p0 = -1
    /\ older[c] # {} => pop_back_[c] = -1 /\ c \notin decoded

HistoryTells ==
    \A c \in Clients :
        /\ history[c] = <<>> /\ InFlight(c) =>
              /\ First(c) /\ ~ticket[c].again
              /\ c \in decoded \/ ticket[c].p0 = -1
        /\ c \notin loose => Told(c)

BackendInv ==
    /\ ThreadsOK /\ OneTicketEach /\ PlacesAgree /\ WorkerBusy
    /\ BatchAhead /\ TicketsOK /\ CellsOK /\ EntriesOK /\ HistoryTells

-----------------------------------------------------------------------------
(***************************************************************************)
(* Lemmas about data                                                       *)
(***************************************************************************)
\* What FlattenSeq holds: the elements of its sequences, and nothing else.
Holds(s, x) == \E i \in 1 .. Len(s) : s[i] = x

\* so with two sequences joined,
LEMMA HoldsJoined ==
    ASSUME NEW S, NEW s \in Seq(S), NEW t \in Seq(S), NEW x
    PROVE  /\ s \o t \in Seq(S)
           /\ Holds(s \o t, x) <=> Holds(s, x) \/ Holds(t, x)
<1> DEFINE u == s \o t
<1>1. /\ u \in Seq(S) /\ Len(u) = Len(s) + Len(t)
      /\ Len(s) \in Nat /\ Len(t) \in Nat
      /\ \A i \in 1 .. Len(s) + Len(t) :
             u[i] = IF i <= Len(s) THEN s[i] ELSE t[i - Len(s)]
  BY ConcatProperties
<1> HIDE DEF u
<1>2. ASSUME Holds(u, x) PROVE Holds(s, x) \/ Holds(t, x)
  <2>1. PICK i \in 1 .. Len(s) + Len(t) : u[i] = x BY <1>1, <1>2 DEF Holds
  <2>2. CASE i <= Len(s)
    <3>1. i \in 1 .. Len(s) /\ s[i] = x BY <1>1, <2>1, <2>2
    <3> QED BY <3>1 DEF Holds
  <2>3. CASE ~(i <= Len(s))
    <3>1. i - Len(s) \in 1 .. Len(t) /\ t[i - Len(s)] = x BY <1>1, <2>1, <2>3
    <3> QED BY <3>1 DEF Holds
  <2> QED BY <2>2, <2>3
<1>3. ASSUME Holds(s, x) PROVE Holds(u, x)
  <2>1. PICK i \in 1 .. Len(s) : s[i] = x BY <1>3 DEF Holds
  <2>2. i \in 1 .. Len(u) /\ u[i] = x BY <1>1, <2>1
  <2> QED BY <2>2 DEF Holds
<1>4. ASSUME Holds(t, x) PROVE Holds(u, x)
  <2>1. PICK i \in 1 .. Len(t) : t[i] = x BY <1>4 DEF Holds
  <2>2. /\ i + Len(s) \in 1 .. Len(u) /\ (i + Len(s)) - Len(s) = i
        /\ ~(i + Len(s) <= Len(s))
    BY <1>1
  <2>3. u[i + Len(s)] = x BY <1>1, <2>1, <2>2
  <2> QED BY <2>2, <2>3 DEF Holds
<1> QED BY <1>1, <1>2, <1>3, <1>4 DEF u

\* and with any number of them.
LEMMA FlattenHolds ==
    ASSUME NEW S, NEW ss \in Seq(Seq(S))
    PROVE  /\ FlattenSeq(ss) \in Seq(S)
           /\ \A x : Holds(FlattenSeq(ss), x)
                     <=> \E k \in 1 .. Len(ss) : Holds(ss[k], x)
<1> DEFINE Q(tt) == \A x : Holds(FlattenSeq(tt), x)
                           <=> \E k \in 1 .. Len(tt) : Holds(tt[k], x)
           T == {tt \in Seq(Seq(S)) : Q(tt)}
<1>1. <<>> \in T
  <2>1. <<>> \in Seq(Seq(S)) /\ Len(<<>>) = 0 BY EmptySeq
  <2>2. \A x : ~Holds(<<>>, x) BY DEF Holds
  <2>3. Q(<<>>) BY <2>1, <2>2, FlattenEmpty
  <2> HIDE DEF Q
  <2> QED BY <2>1, <2>3, Zenon
<1>2. ASSUME NEW tt \in Seq(Seq(S)), NEW t \in Seq(S), tt \in T
      PROVE  Append(tt, t) \in T
  <2> DEFINE uu == Append(tt, t)
  <2>1. /\ uu \in Seq(Seq(S)) /\ Len(uu) = Len(tt) + 1
        /\ \A k \in 1 .. Len(tt) : uu[k] = tt[k]
        /\ uu[Len(tt) + 1] = t /\ Len(tt) \in Nat
    BY AppendProperties, LenProperties
  <2>2. FlattenSeq(uu) = IF tt = <<>> THEN t ELSE FlattenSeq(tt) \o t
    BY FlattenAppend
  <2> HIDE DEF uu
  <2>3. \A x : Holds(FlattenSeq(uu), x)
               <=> Holds(FlattenSeq(tt), x) \/ Holds(t, x)
    <3>1. CASE tt = <<>>
      <4>1. \A x : ~Holds(FlattenSeq(tt), x) BY <3>1, FlattenEmpty DEF Holds
      <4> QED BY <2>2, <3>1, <4>1
    <3>2. CASE tt # <<>>
      <4>1. FlattenSeq(tt) \in Seq(S) BY FlattenType
      <4> QED BY <2>2, <3>2, <4>1, HoldsJoined
    <3> QED BY <3>1, <3>2
  <2>4. \A x : (\E k \in 1 .. Len(uu) : Holds(uu[k], x))
               <=> (\E k \in 1 .. Len(tt) : Holds(tt[k], x)) \/ Holds(t, x)
    <3>1. \A k : k \in 1 .. Len(uu) <=> k \in 1 .. Len(tt) \/ k = Len(tt) + 1
      BY <2>1
    <3> QED BY ONLY <2>1, <3>1, Zenon
  <2>5. Q(uu)
    <3>1. Q(tt)
      <4> HIDE DEF Q
      <4> QED BY <1>2
    <3> QED BY ONLY <2>3, <2>4, <3>1, Zenon
  <2>6. uu \in T
    <3> HIDE DEF Q
    <3> QED BY <2>1, <2>5
  <2> QED BY <2>6 DEF uu
<1>3. ss \in T
  <2> HIDE DEF T
  <2> QED BY <1>1, <1>2, EverySequence
<1>4. Q(ss)
  <2> HIDE DEF Q
  <2> QED BY <1>3
<1> QED BY <1>4, FlattenType

-----------------------------------------------------------------------------
(***************************************************************************)
(* Lemmas about the queues                                                 *)
(***************************************************************************)
\* The clients in a queue.
LEMMA QueueRange ==
    ASSUME NEW S, NEW s \in Seq(S)
    PROVE  /\ Range(s) \subseteq S
           /\ \A x : x \in Range(s) <=> Holds(s, x)
           /\ \A x : Contains(s, x) <=> x \in Range(s)
           /\ s # <<>> => Range(s) # {}
<1>1. Range(s) = {s[i] : i \in 1 .. Len(s)} /\ Range(s) \subseteq S
  BY RangeEquality, RangeOfSeq
<1>2. s # <<>> => 1 \in 1 .. Len(s) BY EmptySeq, LenProperties
<1> QED BY <1>1, <1>2 DEF Holds, Contains

\* IsInjective, over the positions of the queue.
LEMMA QueueInjective ==
    ASSUME NEW S, NEW s \in Seq(S)
    PROVE  IsInjective(s)
           <=> \A a, b \in 1 .. Len(s) : s[a] = s[b] => a = b
<1>1. DOMAIN s = 1 .. Len(s) BY LenProperties
<1> QED BY <1>1 DEF IsInjective

\* The empty queue.
LEMMA QueueEmpty == Range(<<>>) = {} /\ IsInjective(<<>>)
<1>1. DOMAIN <<>> = {} OBVIOUS
<1> QED BY <1>1 DEF Range, IsInjective

\* Two queues without a client in common: the worker takes the tickets.
LEMMA QueuesJoin ==
    ASSUME NEW S, NEW s \in Seq(S), NEW t \in Seq(S),
           IsInjective(s), IsInjective(t), Range(s) \cap Range(t) = {}
    PROVE  /\ s \o t \in Seq(S)
           /\ Range(s \o t) = Range(s) \cup Range(t)
           /\ IsInjective(s \o t)
<1>1. s \o t \in Seq(S) /\ Range(s \o t) = Range(s) \cup Range(t)
  BY ConcatProperties, RangeConcatenation
<1> DEFINE u == s \o t
<1>2. /\ Len(s) \in Nat /\ Len(t) \in Nat /\ Len(u) = Len(s) + Len(t)
      /\ \A i \in 1 .. Len(s) + Len(t) :
             u[i] = IF i <= Len(s) THEN s[i] ELSE t[i - Len(s)]
  BY ConcatProperties
<1>3. /\ \A a, b \in 1 .. Len(s) : s[a] = s[b] => a = b
      /\ \A a, b \in 1 .. Len(t) : t[a] = t[b] => a = b
  BY QueueInjective
<1>4. \A a \in 1 .. Len(s), b \in 1 .. Len(t) : s[a] # t[b]
  <2>1. \A x : Holds(s, x) => ~Holds(t, x) BY QueueRange
  <2> QED BY <2>1 DEF Holds
<1> HIDE DEF u
<1>5. ASSUME NEW a \in 1 .. Len(u), NEW b \in 1 .. Len(u), u[a] = u[b]
      PROVE  a = b
  <2>1. CASE a <= Len(s) /\ b <= Len(s) BY ONLY <1>2, <1>3, <1>5, <2>1
  <2>2. CASE a <= Len(s) /\ ~(b <= Len(s))
    <3>1. a \in 1 .. Len(s) /\ b - Len(s) \in 1 .. Len(t)
      BY ONLY <1>2, <1>5, <2>2
    <3> QED BY ONLY <1>2, <1>4, <1>5, <2>2, <3>1
  <2>3. CASE ~(a <= Len(s)) /\ b <= Len(s)
    <3>1. b \in 1 .. Len(s) /\ a - Len(s) \in 1 .. Len(t)
      BY ONLY <1>2, <1>5, <2>3
    <3> QED BY ONLY <1>2, <1>4, <1>5, <2>3, <3>1
  <2>4. CASE ~(a <= Len(s)) /\ ~(b <= Len(s))
    <3>1. a - Len(s) \in 1 .. Len(t) /\ b - Len(s) \in 1 .. Len(t)
      BY ONLY <1>2, <1>5, <2>4
    <3>2. a - Len(s) = b - Len(s) BY ONLY <1>2, <1>3, <1>5, <2>4, <3>1
    <3> QED BY ONLY <1>2, <1>5, <3>2
  <2> QED BY <2>1, <2>2, <2>3, <2>4
<1>6. IsInjective(u)
  <2>1. u \in Seq(S) BY <1>1 DEF u
  <2> QED BY <1>5, <2>1, QueueInjective
<1> QED BY <1>1, <1>6 DEF u

\* A queue gets a client it does not have.
LEMMA QueueGrows ==
    ASSUME NEW S, NEW s \in Seq(S), NEW e \in S,
           IsInjective(s), e \notin Range(s)
    PROVE  /\ Append(s, e) \in Seq(S)
           /\ Range(Append(s, e)) = Range(s) \cup {e}
           /\ IsInjective(Append(s, e))
<1>1. <<e>> \in Seq(S) /\ Append(s, e) = s \o <<e>> BY AppendIsConcat
<1>2. Range(<<e>>) = {e} /\ IsInjective(<<e>>)
  <2>1. DOMAIN <<e>> = {1} OBVIOUS
  <2> QED BY <2>1 DEF Range, IsInjective
<1>3. Range(s) \cap Range(<<e>>) = {} BY <1>2
<1>4. /\ s \o <<e>> \in Seq(S)
      /\ Range(s \o <<e>>) = Range(s) \cup Range(<<e>>)
      /\ IsInjective(s \o <<e>>)
  BY <1>1, <1>2, <1>3, QueuesJoin
<1> QED BY <1>1, <1>2, <1>4

-----------------------------------------------------------------------------
(***************************************************************************)
(* Lemmas about the batch and the cells                                    *)
(***************************************************************************)
\* The batch of the tickets ts holds tokens of these clients.
LEMMA TokensHold ==
    ASSUME NEW ts \in Seq(Clients),
           \A c \in Range(ts) : ticket[c].tokens \in Nat \ {0}
    PROVE  /\ Tokens(ts) \in Seq(Clients)
           /\ \A c : Holds(Tokens(ts), c) <=> c \in Range(ts)
<1> DEFINE Of(k) == [j \in 1 .. ticket[ts[k]].tokens |-> ts[k]]
           ss == [k \in DOMAIN ts |-> Of(k)]
           n == Len(ts)
<1>1. n \in Nat /\ \A k \in 1 .. n : ts[k] \in Clients OBVIOUS
<1>2. \A k \in 1 .. n : ts[k] \in Range(ts)
  BY QueueRange DEF Holds
<1>3. \A k \in 1 .. n : /\ Of(k) \in Seq(Clients)
                        /\ \A c : Holds(Of(k), c) <=> c = ts[k]
  <2> TAKE k \in 1 .. n
  <2> DEFINE m == ticket[ts[k]].tokens
             s == [j \in 1 .. m |-> ts[k]]
  <2>1. m \in Nat /\ 1 \in 1 .. m BY <1>2
  <2>2. ts[k] \in Clients BY <1>1
  <2>3. s \in Seq(Clients) /\ Len(s) = m
    <3> HIDE DEF m
    <3> QED BY <2>1, <2>2
  <2>4. \A j \in 1 .. m : s[j] = ts[k] OBVIOUS
  <2> HIDE DEF s, m
  <2>5. \A c : Holds(s, c) <=> c = ts[k] BY <2>1, <2>3, <2>4 DEF Holds
  <2> QED BY <2>3, <2>5 DEF s, m
<1>4. ss = [k \in 1 .. n |-> Of(k)] BY LenProperties
<1>5. ss \in Seq(Seq(Clients)) /\ Len(ss) = n /\ \A k \in 1 .. n : ss[k] = Of(k)
  <2>1. \A k \in 1 .. n : Of(k) \in Seq(Clients) BY <1>3
  <2> HIDE DEF Of, n, ss
  <2> QED BY ONLY <1>1, <1>4, <2>1
<1> HIDE DEF Of, ss
<1>6. /\ FlattenSeq(ss) \in Seq(Clients)
      /\ \A c : Holds(FlattenSeq(ss), c) <=> \E k \in 1 .. n : Holds(ss[k], c)
  BY <1>5, FlattenHolds
<1>7. \A c : (\E k \in 1 .. n : Holds(ss[k], c)) <=> Holds(ts, c)
  <2>1. \A c : \A k \in 1 .. n : Holds(ss[k], c) <=> c = ts[k]
    BY <1>3, <1>5, Zenon
  <2> QED BY <2>1 DEF Holds
<1>8. \A c : Holds(ts, c) <=> c \in Range(ts) BY QueueRange
<1>9. FlattenSeq(ss) = Tokens(ts) BY DEF Tokens, ss, Of
<1> QED BY <1>6, <1>7, <1>8, <1>9

\* The greatest position of a sequence of the context.
LEMMA GreatestPosition ==
    ASSUME NEW S, S \subseteq Nat, IsFiniteSet(S)
    PROVE  (IF S = {} THEN -1 ELSE Max(S)) \in Positions
<1>1. CASE S = {} BY <1>1 DEF Positions
<1>2. CASE S # {}
  <2>1. Max(S) \in Nat BY <1>2, GreatestNumber
  <2> QED BY <1>2, <2>1 DEF Positions
<1> QED BY <1>1, <1>2

-----------------------------------------------------------------------------
(***************************************************************************)
(* Every action keeps the invariant: the calls of a client                *)
(***************************************************************************)
\* cancel sets stop.
LEMMA ClientWaits ==
    ASSUME BackendInv, NEW c \in Clients,
           NEW w \in {"commit_wait", "clear_wait", "remove_wait"},
           CancelBegins(c, w)
    PROVE  BackendInv'
<1> USE BackendAssumption
    DEF BackendInv, CancelBegins, Goes,
        clientVars, queueVars, workerVars, contextVars, engineVars
<1>1. ThreadsOK' BY DEF ThreadsOK, Before, Leaving
<1>2. OneTicketEach' BY DEF OneTicketEach, InFlight
<1>3. PlacesAgree'
  BY DEF ThreadsOK, OneTicketEach, PlacesAgree, InFlight, Before, Leaving
<1>4. WorkerBusy'
  BY DEF WorkerBusy, OneTicketEach, InFlight, PlacesAgree, Before
<1>5. BatchAhead' BY DEF BatchAhead, Ahead
<1>6. TicketsOK' BY DEF TicketsOK, InFlight, Positions
<1>7. CellsOK' BY DEF CellsOK
<1>8. EntriesOK' BY DEF EntriesOK, Positions, Nothing
<1>9. HistoryTells' BY DEF HistoryTells, Told, TicketsOK, InFlight, First
<1> QED BY <1>1, <1>2, <1>3, <1>4, <1>5, <1>6, <1>7, <1>8, <1>9

\* cancel has waited: the promise is not pending any more.
LEMMA ClientWaited ==
    ASSUME BackendInv, NEW c \in Clients, NEW call \in Calls,
           CancelEnds(c, call[1], call[2])
    PROVE  BackendInv'
<1> USE BackendAssumption
    DEF BackendInv, CancelEnds, Waited, Goes, Calls,
        clientVars, queueVars, workerVars, contextVars, engineVars
<1>1. ThreadsOK' BY DEF ThreadsOK, Before, Leaving
<1>2. OneTicketEach' BY DEF OneTicketEach, InFlight
<1>3. PlacesAgree'
  BY DEF ThreadsOK, OneTicketEach, PlacesAgree, InFlight, Before, Leaving
<1>4. WorkerBusy'
  BY DEF WorkerBusy, OneTicketEach, InFlight, PlacesAgree, Before
<1>5. BatchAhead' BY DEF BatchAhead, Ahead
<1>6. TicketsOK' BY DEF TicketsOK, InFlight, Positions
<1>7. CellsOK' BY DEF CellsOK
<1>8. EntriesOK' BY DEF EntriesOK, Positions, Nothing
<1>9. HistoryTells' BY DEF HistoryTells, Told, TicketsOK, InFlight, First
<1> QED BY <1>1, <1>2, <1>3, <1>4, <1>5, <1>6, <1>7, <1>8, <1>9

\* The last of the clients goes on to ~Backend.
LEMMA ClientReleases ==
    ASSUME BackendInv, NEW c \in Clients, Release(c)
    PROVE  BackendInv'
<1> USE BackendAssumption
    DEF BackendInv, Release, Goes, Others,
        clientVars, queueVars, workerVars, contextVars, engineVars
<1>1. ThreadsOK' BY DEF ThreadsOK, Before, Leaving
<1>2. OneTicketEach' BY DEF OneTicketEach, InFlight
<1>3. PlacesAgree'
  BY DEF ThreadsOK, OneTicketEach, PlacesAgree, InFlight, Before, Leaving
<1>4. WorkerBusy'
  BY DEF WorkerBusy, OneTicketEach, InFlight, PlacesAgree, Before
<1>5. BatchAhead' BY DEF BatchAhead, Ahead
<1>6. TicketsOK' BY DEF TicketsOK, InFlight, Positions
<1>7. CellsOK' BY DEF CellsOK
<1>8. EntriesOK' BY DEF EntriesOK, Positions, Nothing
<1>9. HistoryTells' BY DEF HistoryTells, Told, TicketsOK, InFlight, First
<1> QED BY <1>1, <1>2, <1>3, <1>4, <1>5, <1>6, <1>7, <1>8, <1>9

\* ~Backend.
LEMMA ClientQuits ==
    ASSUME BackendInv, NEW c \in Clients, Quit(c)
    PROVE  BackendInv'
<1> USE BackendAssumption
    DEF BackendInv, Quit, Goes,
        clientVars, queueVars, workerVars, contextVars, engineVars
<1>1. ThreadsOK' BY DEF ThreadsOK, Before, Leaving
<1>2. OneTicketEach' BY DEF OneTicketEach, InFlight
<1>3. PlacesAgree'
  BY DEF ThreadsOK, OneTicketEach, PlacesAgree, InFlight, Before, Leaving
<1>4. WorkerBusy'
  BY DEF WorkerBusy, OneTicketEach, InFlight, PlacesAgree, Before
<1>5. BatchAhead' BY DEF BatchAhead, Ahead
<1>6. TicketsOK' BY DEF TicketsOK, InFlight, Positions
<1>7. CellsOK' BY DEF CellsOK
<1>8. EntriesOK' BY DEF EntriesOK, Positions, Nothing
<1>9. HistoryTells' BY DEF HistoryTells, Told, TicketsOK, InFlight, First
<1> QED BY <1>1, <1>2, <1>3, <1>4, <1>5, <1>6, <1>7, <1>8, <1>9

LEMMA ClientFrees ==
    ASSUME BackendInv, NEW c \in Clients, Free(c)
    PROVE  BackendInv'
<1> USE BackendAssumption
    DEF BackendInv, Free, Goes,
        clientVars, queueVars, workerVars, contextVars, engineVars
<1>1. ThreadsOK' BY DEF ThreadsOK, Before, Leaving
<1>2. OneTicketEach' BY DEF OneTicketEach, InFlight
<1>3. PlacesAgree'
  BY DEF ThreadsOK, OneTicketEach, PlacesAgree, InFlight, Before, Leaving
<1>4. WorkerBusy'
  BY DEF WorkerBusy, OneTicketEach, InFlight, PlacesAgree, Before
<1>5. BatchAhead' BY DEF BatchAhead, Ahead
<1>6. TicketsOK' BY DEF TicketsOK, InFlight, Positions
<1>7. CellsOK' BY DEF CellsOK
<1>8. EntriesOK' BY DEF EntriesOK, Positions, Nothing
<1>9. HistoryTells' BY DEF HistoryTells, Told, TicketsOK, InFlight, First
<1> QED BY <1>1, <1>2, <1>3, <1>4, <1>5, <1>6, <1>7, <1>8, <1>9

LEMMA ClientJoins ==
    ASSUME BackendInv, NEW c \in Clients, Join(c)
    PROVE  BackendInv'
<1> USE BackendAssumption
    DEF BackendInv, Join, Goes,
        clientVars, queueVars, workerVars, contextVars, engineVars
<1>1. ThreadsOK' BY DEF ThreadsOK, Before, Leaving
<1>2. OneTicketEach' BY DEF OneTicketEach, InFlight
<1>3. PlacesAgree'
  BY DEF ThreadsOK, OneTicketEach, PlacesAgree, InFlight, Before, Leaving
<1>4. WorkerBusy'
  BY DEF WorkerBusy, OneTicketEach, InFlight, PlacesAgree, Before
<1>5. BatchAhead' BY DEF BatchAhead, Ahead
<1>6. TicketsOK' BY DEF TicketsOK, InFlight, Positions
<1>7. CellsOK' BY DEF CellsOK
<1>8. EntriesOK' BY DEF EntriesOK, Positions, Nothing
<1>9. HistoryTells' BY DEF HistoryTells, Told, TicketsOK, InFlight, First
<1> QED BY <1>1, <1>2, <1>3, <1>4, <1>5, <1>6, <1>7, <1>8, <1>9

\* The client's promise is not pending, so it has no ticket yet.
LEMMA CommitKeeps ==
    ASSUME BackendInv, NEW c \in Clients, NEW n \in 0 .. MaxPrompt,
           Commit(c, n)
    PROVE  BackendInv'
<1> USE DEF BackendInv
<1>1. ~InFlight(c)
  BY DEF Commit, Goes, PlacesAgree, OneTicketEach, Before
<1>2. /\ place[c] = "commit" /\ place' = [place EXCEPT ![c] = "idle"]
      /\ UNCHANGED <<pop_back_, worker, tickets, decoded, batch, at, chunk,
                     cells, older, loose, history, running_, freed>>
  BY DEF Commit, Goes, contextVars
<1>3. CASE n = 0 /\ history[c] = <<>>
  <2>1. UNCHANGED <<future, ticket, tickets_>> BY <1>3 DEF Commit
  <2> USE <1>2, <2>1
  <2>2. ThreadsOK' BY DEF ThreadsOK, Before
  <2>3. OneTicketEach' BY DEF OneTicketEach, InFlight
  <2>4. PlacesAgree' BY DEF ThreadsOK, PlacesAgree, Before, Leaving
  <2>5. WorkerBusy' BY DEF WorkerBusy
  <2>6. BatchAhead' BY DEF BatchAhead, Ahead
  <2>7. TicketsOK' BY DEF TicketsOK, InFlight
  <2>8. CellsOK' BY DEF CellsOK
  <2>9. EntriesOK' BY DEF EntriesOK
  <2>10. HistoryTells' BY DEF HistoryTells, Told, InFlight, First
  <2> QED BY <2>2, <2>3, <2>4, <2>5, <2>6, <2>7, <2>8, <2>9, <2>10
<1>4. CASE ~(n = 0 /\ history[c] = <<>>)
  <2> DEFINE t == [NoTicket EXCEPT !.tokens = IF n = 0 THEN 1 ELSE n,
                                   !.again = n = 0]
  <2>1. /\ future' = [future EXCEPT ![c] = "pending"]
        /\ ticket' = [ticket EXCEPT ![c] = t]
        /\ tickets_' = Append(tickets_, c)
    BY <1>4 DEF Commit
  <2>2. /\ t \in TicketSet
        /\ t.tokens > 0 /\ t.n_decoded = 0 /\ t.p0 = -1
        /\ t.again <=> n = 0
    <3>1. n \in Nat BY BackendAssumption
    <3>2. (IF n = 0 THEN 1 ELSE n) \in Nat \ {0} /\ (n = 0) \in BOOLEAN
      BY <3>1
    <3> DEFINE tokens == IF n = 0 THEN 1 ELSE n
               again == n = 0
    <3> HIDE DEF tokens, again
    <3>3. ASSUME NEW m \in Nat, NEW b \in BOOLEAN
          PROVE  LET u == [NoTicket EXCEPT !.tokens = m, !.again = b]
                 IN  /\ u \in TicketSet
                     /\ u.tokens = m /\ u.again = b
                     /\ u.n_decoded = 0 /\ u.p0 = -1
      BY DEF NoTicket, Positions
    <3>4. tokens \in Nat /\ again \in BOOLEAN BY <3>2 DEF tokens, again
    <3>5. t = [NoTicket EXCEPT !.tokens = tokens, !.again = again]
      BY DEF tokens, again
    <3> HIDE DEF t
    <3>6. /\ t \in TicketSet
          /\ t.tokens = tokens /\ t.again = again
          /\ t.n_decoded = 0 /\ t.p0 = -1
      BY ONLY <3>3, <3>4, <3>5
    <3>7. tokens > 0 /\ again \in BOOLEAN /\ (again <=> n = 0)
      BY <3>1, <3>2 DEF tokens, again
    <3> QED BY ONLY <3>6, <3>7
  <2>3. /\ tickets_' \in Seq(Clients)
        /\ Range(tickets_') = Range(tickets_) \cup {c}
        /\ IsInjective(tickets_')
    BY <1>1, <2>1, QueueGrows DEF ThreadsOK, OneTicketEach, InFlight
  <2> DEFINE q == tickets_'
             f == future'
             u == ticket'
  <2>4. /\ f = [future EXCEPT ![c] = "pending"]
        /\ u = [ticket EXCEPT ![c] = t]
        /\ q = tickets_' /\ f = future' /\ u = ticket'
    BY <2>1
  <2> HIDE DEF t, q, f, u
  <2> USE <1>1, <1>2, <2>3, <2>4
  <2>5. ThreadsOK' BY DEF ThreadsOK, Before
  <2>6. OneTicketEach' BY DEF ThreadsOK, OneTicketEach, InFlight
  <2>7. PlacesAgree' BY DEF ThreadsOK, PlacesAgree, Before, Leaving
  <2>8. WorkerBusy' BY DEF WorkerBusy
  <2>9. BatchAhead' BY DEF BatchAhead, Ahead
  <2>10. TicketsOK' BY <2>2 DEF TicketsOK, InFlight
  <2>11. CellsOK' BY DEF CellsOK
  <2>12. EntriesOK' BY DEF EntriesOK
  <2>13. HistoryTells'
    <3>1. history[c] = <<>> => ~t.again BY <1>4, <2>2
    <3> QED BY <2>2, <3>1
        DEF HistoryTells, TicketsOK, Told, InFlight, First
  <2> QED BY <2>5, <2>6, <2>7, <2>8, <2>9, <2>10, <2>11, <2>12, <2>13
<1> QED BY <1>3, <1>4

\* What resize_kv_cache keeps of the bounds it is asked for.
LEMMA EarliestPosition ==
    ASSUME NEW a \in Positions \cup {Nothing}, NEW p \in Positions
    PROVE  /\ Earliest(a, p) \in Positions
           /\ a = -1 \/ p = -1 => Earliest(a, p) = -1
BY DEF Earliest, Positions, Nothing

\* The cells are asked for unless the history tells that there are none.
LEMMA ClearKeeps ==
    ASSUME BackendInv, NEW c \in Clients, Clear(c)
    PROVE  BackendInv'
<1> USE DEF BackendInv
<1>1. ~InFlight(c)
  BY DEF Clear, Goes, PlacesAgree, OneTicketEach, Before
<1>2. /\ place[c] = "clear" /\ place' = [place EXCEPT ![c] = "idle"]
      /\ older' = [older EXCEPT ![c] = cells[c]]
      /\ UNCHANGED <<future, tickets_, worker, ticket, tickets, decoded,
                     batch, at, chunk, cells, loose, running_, freed>>
  BY DEF Clear, Goes, workerVars
<1>3. /\ history' = [history EXCEPT ![c] = <<>>]
      /\ \/ history[c] = <<>> /\ pop_back_' = pop_back_
         \/ history[c] # <<>> /\ pop_back_' = [pop_back_ EXCEPT ![c] = -1]
  <2>1. CASE history[c] = <<>> BY <2>1 DEF Clear, EntriesOK
  <2>2. CASE history[c] # <<>>
    <3>1. Earliest(pop_back_[c], -1) = -1
      BY EarliestPosition DEF EntriesOK, Positions
    <3> QED BY <2>2, <3>1 DEF Clear
  <2> QED BY <2>1, <2>2
<1> USE <1>1, <1>2, <1>3
<1>4. ThreadsOK' BY DEF ThreadsOK, Before
<1>5. OneTicketEach' BY DEF OneTicketEach, InFlight
<1>6. PlacesAgree' BY DEF ThreadsOK, PlacesAgree, Before, Leaving
<1>7. WorkerBusy' BY DEF WorkerBusy
<1>8. BatchAhead' BY DEF BatchAhead, Ahead
<1>9. TicketsOK' BY DEF TicketsOK, InFlight
<1>10. CellsOK' BY DEF CellsOK
<1>11. EntriesOK'
  <2>1. <<>> \in Seq(EntrySet) OBVIOUS
  <2> QED BY <2>1 DEF EntriesOK, Positions
<1>12. HistoryTells'
  BY DEF HistoryTells, Told, InFlight, First, EntriesOK, CellsOK
<1> QED BY <1>4, <1>5, <1>6, <1>7, <1>8, <1>9, <1>10, <1>11, <1>12

\* What pop_back leaves, and what it takes away.
LEMMA FrontOf ==
    ASSUME NEW S, NEW s \in Seq(S), s # <<>>
    PROVE  /\ Front(s) \in Seq(S) /\ Last(s) \in S
           /\ Front(s) # <<>> => Front(s)[1] = s[1]
           /\ Front(s) = <<>> => Last(s) = s[1]
<1>1. Len(s) \in Nat \ {0} BY EmptySeq
<1>2. /\ Front(s) \in Seq(S) /\ Len(Front(s)) = Len(s) - 1
      /\ \A i \in 1 .. Len(s) - 1 : Front(s)[i] = s[i]
  <2>1. /\ \A i \in 1 .. Len(s) - 1 : s[i] \in S
        /\ SubSeq(s, 1, Len(s) - 1) \in Seq(S)
        /\ Len(SubSeq(s, 1, Len(s) - 1)) = Len(s) - 1
        /\ \A i \in 1 .. Len(s) - 1 : SubSeq(s, 1, Len(s) - 1)[i] = s[i]
    <3>1. \A i \in 1 .. Len(s) - 1 : i \in 1 .. Len(s) BY <1>1
    <3>2. Len(s) - 1 \in 1 - 1 .. Len(s) /\ 1 \in 1 .. Len(s) + 1 BY <1>1
    <3>3. (Len(s) - 1) - 1 + 1 = Len(s) - 1 /\ \A i \in Int : 1 + i - 1 = i
      BY <1>1
    <3> QED BY <1>1, <3>1, <3>2, <3>3, SubSeqProperties
  <2> QED BY <2>1 DEF Front
<1>3. Last(s) \in S BY <1>1 DEF Last
<1>4. Front(s) # <<>> => 1 \in 1 .. Len(s) - 1 BY <1>1, <1>2, EmptySeq
<1>5. Front(s) = <<>> => Len(s) = 1 BY <1>1, <1>2
<1> QED BY <1>2, <1>3, <1>4, <1>5 DEF Last

\* The last entry to go is the first one, and asks for all cells.
LEMMA PopBackKeeps ==
    ASSUME BackendInv, NEW c \in Clients, PopBack(c)
    PROVE  BackendInv'
<1> USE DEF BackendInv
<1> DEFINE h == Front(history[c])
           b == Earliest(pop_back_[c], Last(history[c]).p0)
<1>1. /\ ~InFlight(c) /\ history[c] # <<>>
      /\ history' = [history EXCEPT ![c] = h]
      /\ pop_back_' = [pop_back_ EXCEPT ![c] = b]
      /\ UNCHANGED <<place, future, tickets_, worker, ticket, tickets, decoded,
                     batch, at, chunk, cells, older, loose, running_, freed>>
  BY DEF PopBack, Pops, workerVars, contextVars
<1>2. /\ h \in Seq(EntrySet)
      /\ h # <<>> => h[1] = history[c][1]
      /\ h = <<>> => Last(history[c]) = history[c][1]
      /\ Last(history[c]).p0 \in Positions
  <2> DEFINE Entry == EntrySet
  <2>1. history[c] \in Seq(Entry) BY DEF EntriesOK
  <2>2. \A e \in Entry : e.p0 \in Positions OBVIOUS
  <2> HIDE DEF Entry
  <2>3. /\ h \in Seq(Entry) /\ Last(history[c]) \in Entry
        /\ h # <<>> => h[1] = history[c][1]
        /\ h = <<>> => Last(history[c]) = history[c][1]
    BY <1>1, <2>1, FrontOf
  <2> QED BY <2>2, <2>3 DEF Entry
<1>3. /\ b \in Positions
      /\ pop_back_[c] = -1 \/ Last(history[c]).p0 = -1 => b = -1
  BY <1>2, EarliestPosition DEF EntriesOK
<1> HIDE DEF h, b
<1> USE <1>1
<1>4. ThreadsOK' BY DEF ThreadsOK
<1>5. OneTicketEach' BY DEF OneTicketEach, InFlight
<1>6. PlacesAgree' BY DEF PlacesAgree
<1>7. WorkerBusy' BY DEF WorkerBusy
<1>8. BatchAhead' BY DEF BatchAhead, Ahead
<1>9. TicketsOK' BY DEF TicketsOK, InFlight
<1>10. CellsOK' BY DEF CellsOK
<1>11. EntriesOK' BY <1>2, <1>3 DEF EntriesOK
<1>12. HistoryTells'
  BY <1>2, <1>3 DEF HistoryTells, Told, InFlight, First, EntriesOK
<1> QED BY <1>4, <1>5, <1>6, <1>7, <1>8, <1>9, <1>10, <1>11, <1>12

\* Its client has cells no entry accounts for, from now on.
LEMMA PopFrontKeeps ==
    ASSUME BackendInv, NEW c \in Clients, PopFront(c)
    PROVE  BackendInv'
<1> USE DEF BackendInv
<1> DEFINE h == Tail(history[c])
<1>1. /\ ~InFlight(c) /\ history[c] # <<>>
      /\ history' = [history EXCEPT ![c] = h]
      /\ loose' = loose \cup {c}
      /\ UNCHANGED <<place, future, tickets_, pop_back_, worker, ticket,
                     tickets, decoded, batch, at, chunk, cells, older,
                     running_, freed>>
  BY DEF PopFront, Pops, workerVars
<1>2. h \in Seq(EntrySet)
  BY <1>1, HeadTailProperties DEF EntriesOK
<1> HIDE DEF h
<1> USE <1>1
<1>4. ThreadsOK' BY DEF ThreadsOK
<1>5. OneTicketEach' BY DEF OneTicketEach, InFlight
<1>6. PlacesAgree' BY DEF PlacesAgree
<1>7. WorkerBusy' BY DEF WorkerBusy
<1>8. BatchAhead' BY DEF BatchAhead, Ahead
<1>9. TicketsOK' BY DEF TicketsOK, InFlight
<1>10. CellsOK' BY DEF CellsOK
<1>11. EntriesOK' BY <1>2 DEF EntriesOK
<1>12. HistoryTells' BY DEF HistoryTells, Told, InFlight, First, EntriesOK
<1> QED BY <1>4, <1>5, <1>6, <1>7, <1>8, <1>9, <1>10, <1>11, <1>12

-----------------------------------------------------------------------------
(***************************************************************************)
(* Every action keeps the invariant: the worker                            *)
(***************************************************************************)
\* The worker wakes up because of a ticket, or of the end.
LEMMA WorkerWakesUp ==
    ASSUME BackendInv, WorkerWakes
    PROVE  BackendInv'
<1> USE BackendAssumption
    DEF BackendInv, WorkerWakes,
        clientVars, queueVars, workerVars, contextVars, engineVars
<1>1. ThreadsOK' BY DEF ThreadsOK, Before, Leaving
<1>2. OneTicketEach' BY DEF OneTicketEach, InFlight
<1>3. PlacesAgree'
  BY DEF ThreadsOK, OneTicketEach, PlacesAgree, InFlight, Before, Leaving
<1>4. WorkerBusy'
  BY QueueRange DEF ThreadsOK, WorkerBusy, OneTicketEach, InFlight,
      PlacesAgree, Before
<1>5. BatchAhead' BY DEF BatchAhead, Ahead
<1>6. TicketsOK' BY DEF TicketsOK, InFlight, Positions
<1>7. CellsOK' BY DEF CellsOK
<1>8. EntriesOK' BY DEF EntriesOK, Positions, Nothing
<1>9. HistoryTells' BY DEF HistoryTells, Told, TicketsOK, InFlight, First
<1> QED BY <1>1, <1>2, <1>3, <1>4, <1>5, <1>6, <1>7, <1>8, <1>9

LEMMA WorkerHalvesIt ==
    ASSUME BackendInv, WorkerHalves
    PROVE  BackendInv'
<1> USE BackendAssumption
    DEF BackendInv, WorkerHalves,
        clientVars, queueVars, workerVars, contextVars, engineVars
<1>1. ThreadsOK' BY DEF ThreadsOK, Before, Leaving
<1>2. OneTicketEach' BY DEF OneTicketEach, InFlight
<1>3. PlacesAgree'
  BY DEF ThreadsOK, OneTicketEach, PlacesAgree, InFlight, Before, Leaving
<1>4. WorkerBusy'
  BY DEF WorkerBusy, OneTicketEach, InFlight, PlacesAgree, Before
<1>5. BatchAhead' BY DEF BatchAhead, Ahead
<1>6. TicketsOK' BY DEF TicketsOK, InFlight, Positions
<1>7. CellsOK' BY DEF CellsOK
<1>8. EntriesOK' BY DEF EntriesOK, Positions, Nothing
<1>9. HistoryTells' BY DEF HistoryTells, Told, TicketsOK, InFlight, First
<1> QED BY <1>1, <1>2, <1>3, <1>4, <1>5, <1>6, <1>7, <1>8, <1>9


\* The tickets change hands.
LEMMA WorkerTakesKeeps ==
    ASSUME BackendInv, WorkerTakes
    PROVE  BackendInv'
<1> USE DEF BackendInv
<1>1. /\ worker = "take" /\ worker' \in {"exited", "prepare"}
      /\ UNCHANGED <<place, future, history, pop_back_, ticket, decoded,
                     batch, at, chunk, cells, older, loose, running_, freed>>
  BY DEF WorkerTakes, clientVars, contextVars
<1>2. /\ tickets' \in Seq(Clients) /\ tickets_' \in Seq(Clients)
      /\ Range(tickets') \cup Range(tickets_')
             = Range(tickets) \cup Range(tickets_)
      /\ Range(tickets') \cap Range(tickets_') = {}
      /\ IsInjective(tickets') /\ IsInjective(tickets_')
      /\ worker' = "prepare" => running_ /\ Range(tickets_') = {}
  <2>1. CASE ~running_
    BY <2>1 DEF WorkerTakes, ThreadsOK, OneTicketEach
  <2>2. CASE running_
    <3>1. /\ tickets' = tickets \o tickets_ /\ tickets_' = <<>>
          /\ worker' = "prepare"
      BY <2>2 DEF WorkerTakes
    <3>2. /\ tickets \o tickets_ \in Seq(Clients)
          /\ Range(tickets \o tickets_) = Range(tickets) \cup Range(tickets_)
          /\ IsInjective(tickets \o tickets_)
      BY QueuesJoin DEF ThreadsOK, OneTicketEach
    <3>3. <<>> \in Seq(Clients) OBVIOUS
    <3> QED BY <2>2, <3>1, <3>2, <3>3, QueueEmpty
  <2> QED BY <2>1, <2>2
<1>3. \A c : InFlight(c)' <=> InFlight(c) BY <1>1, <1>2 DEF InFlight
<1> USE <1>1, <1>2, <1>3
<1>4. ThreadsOK' BY DEF ThreadsOK
<1>5. OneTicketEach' BY DEF OneTicketEach
<1>6. PlacesAgree' BY DEF PlacesAgree
<1>7. WorkerBusy' BY DEF WorkerBusy
<1>8. BatchAhead' BY DEF BatchAhead
<1>9. TicketsOK' BY DEF TicketsOK
<1>10. CellsOK' BY DEF CellsOK
<1>11. EntriesOK' BY DEF EntriesOK
<1>12. HistoryTells' BY DEF HistoryTells, Told, First
<1> QED BY <1>4, <1>5, <1>6, <1>7, <1>8, <1>9, <1>10, <1>11, <1>12

\* resize_kv_cache only removes, and all of it when the bound is -1.
LEMMA ResizedIsLess ==
    ASSUME BackendInv, NEW c \in Clients
    PROVE  /\ Resized(c) \subseteq cells[c] /\ Resized(c) \subseteq Nat
           /\ IsFiniteSet(Resized(c))
           /\ pop_back_[c] = -1 => Resized(c) = {}
<1>1. Resized(c) \subseteq cells[c] BY DEF Resized
<1>2. cells[c] \subseteq Nat /\ IsFiniteSet(cells[c])
  BY DEF BackendInv, CellsOK
<1>3. ASSUME pop_back_[c] = -1 PROVE Resized(c) = {}
  <2>1. Removed(cells[c], -1, -1) = cells[c] BY <1>2 DEF Removed
  <2> QED BY <1>3, <2>1 DEF Resized, Nothing
<1> QED BY <1>1, <1>2, <1>3, FS_Subset

\* The batch holds something of every ticket that was taken.
LEMMA WorkerPreparesKeeps ==
    ASSUME BackendInv, WorkerPrepares
    PROVE  BackendInv'
<1> USE DEF BackendInv
<1> DEFINE top(c) == IF Resized(c) = {} THEN -1 ELSE Max(Resized(c))
           moved(c) == IF Contains(tickets, c) /\ ticket[c].p0 < 0
                       THEN [ticket[c] EXCEPT !.p0 = top(c)] ELSE ticket[c]
           held == Range(tickets)
           kept == [c \in Clients |-> Resized(c)]
           left == [c \in Clients |-> older[c] \cap Resized(c)]
           t == [c \in Clients |-> moved(c)]
<1>1. /\ worker = "prepare" /\ worker' = "decode"
      /\ cells' = kept /\ older' = left /\ ticket' = t
      /\ pop_back_' = [c \in Clients |-> Nothing]
      /\ decoded' = held /\ tickets' = <<>>
      /\ at' = 0 /\ chunk' = n_batch
      /\ UNCHANGED <<place, future, history, tickets_, loose, running_, freed>>
  BY DEF WorkerPrepares, clientVars
<1>2. /\ held \subseteq Clients /\ held # {} /\ decoded = {}
      /\ \A c : Contains(tickets, c) <=> c \in held
      /\ Range(tickets') = {} /\ IsInjective(tickets')
      /\ tickets' \in Seq(Clients)
  <2>1. <<>> \in Seq(Clients) OBVIOUS
  <2>2. held # {} /\ decoded = {} BY <1>1 DEF WorkerBusy
  <2>3. held \subseteq Clients /\ \A c : Contains(tickets, c) <=> c \in held
    BY QueueRange DEF ThreadsOK
  <2> QED BY <1>1, <2>1, <2>2, <2>3, QueueEmpty
<1>3. \A c \in Clients :
          /\ Resized(c) \subseteq cells[c] /\ Resized(c) \subseteq Nat
          /\ IsFiniteSet(Resized(c))
          /\ pop_back_[c] = -1 => Resized(c) = {}
          /\ top(c) \in Positions
  BY ResizedIsLess, GreatestPosition
<1>4. \A c \in Clients :
          /\ t[c] \in TicketSet
          /\ t[c].tokens = ticket[c].tokens
          /\ t[c].n_decoded = ticket[c].n_decoded
          /\ t[c].again = ticket[c].again
          /\ t[c].p0 = IF c \in held /\ ticket[c].p0 < 0
                       THEN top(c) ELSE ticket[c].p0
  <2> TAKE c \in Clients
  <2>1. t[c] = IF c \in held /\ ticket[c].p0 < 0
               THEN [ticket[c] EXCEPT !.p0 = top(c)] ELSE ticket[c]
    BY <1>2
  <2>2. ticket[c] \in TicketSet
    BY DEF TicketsOK
  <2>3. top(c) \in Positions BY <1>3
  <2> HIDE DEF top, t, held
  <2> QED BY ONLY <2>1, <2>2, <2>3
<1>5. \A c \in Clients : /\ kept[c] = Resized(c)
                         /\ left[c] = older[c] \cap Resized(c)
                         /\ Resized(c) = {} => top(c) = -1
  OBVIOUS
<1>6. /\ DOMAIN t = Clients /\ DOMAIN kept = Clients /\ DOMAIN left = Clients
      /\ t = [c \in Clients |-> t[c]] /\ kept = [c \in Clients |-> kept[c]]
      /\ left = [c \in Clients |-> left[c]]
  OBVIOUS
<1>7. \A c : InFlight(c)' <=> InFlight(c) BY <1>1, <1>2 DEF InFlight
<1>8. BatchAhead'
  <2>1. batch' = Tokens(tickets) BY DEF WorkerPrepares
  <2>2. \A c \in held : ticket[c].tokens \in Nat \ {0}
    BY <1>2 DEF TicketsOK, InFlight
  <2>3. /\ batch' \in Seq(Clients)
        /\ \A c : Holds(batch', c) <=> c \in held
    BY <2>1, <2>2, TokensHold DEF ThreadsOK
  <2>4. /\ \A i \in 1 .. Len(batch') : batch'[i] \in held
        /\ \A c \in held : \E i \in 1 .. Len(batch') : batch'[i] = c
    BY <2>3 DEF Holds
  <2>5. /\ at' = 0 /\ 0 + 1 = 1 /\ chunk' \in Nat \ {0} /\ decoded' = held
        /\ worker' = "decode"
    BY <1>1, BackendAssumption
  <2> HIDE DEF held
  <2> QED BY ONLY <2>3, <2>4, <2>5 DEF BatchAhead, Ahead
<1> HIDE DEF top, t, held, kept, left
<1> USE <1>1, <1>2, <1>7
<1>9. ThreadsOK' BY DEF ThreadsOK
<1>10. OneTicketEach'
  BY DEF OneTicketEach, held
<1>11. PlacesAgree' BY DEF PlacesAgree
<1>12. WorkerBusy' BY DEF WorkerBusy
<1>13. TicketsOK' BY <1>4, <1>6 DEF TicketsOK
<1>14. CellsOK' BY <1>3, <1>5, <1>6 DEF CellsOK
<1>15. EntriesOK' BY DEF EntriesOK
<1>16. HistoryTells'
  <2>1. ASSUME NEW c \in Clients, history[c] = <<>>, InFlight(c)
        PROVE  /\ t[c].n_decoded = 0 /\ ~t[c].again
               /\ c \in held \/ t[c].p0 = -1
    BY <1>4, <2>1 DEF HistoryTells, First
  <2>2. ASSUME NEW c \in Clients, c \notin loose PROVE Told(c)'
    <3>1. Told(c) BY <2>2 DEF HistoryTells
    <3>2. history[c] = <<>> => Resized(c) = {}
      BY <1>3, <2>2, <3>1 DEF Told
    <3>3. history[c] = <<>> /\ c \in held => t[c].p0 = -1
      <4>1. c \in held => InFlight(c) BY DEF InFlight, held
      <4>2. history[c] = <<>> /\ c \in held => ticket[c].p0 = -1
        BY <4>1 DEF HistoryTells
      <4> QED BY <1>4, <1>5, <3>2, <4>2
    <3>4. older[c] \cap Resized(c) = {}
      BY <1>3, <2>2, <3>1 DEF Told
    <3> QED BY <1>5, <3>1, <3>2, <3>3, <3>4 DEF Told
  <2> QED BY <2>1, <2>2 DEF HistoryTells, First
<1> QED BY <1>8, <1>9, <1>10, <1>11, <1>12, <1>13, <1>14, <1>15, <1>16

\* llama_memory_seq_pos_max.
LEMMA PosMaxPosition ==
    ASSUME BackendInv, NEW c \in Clients
    PROVE  pos_max(c) \in Positions
BY GreatestPosition DEF BackendInv, CellsOK, pos_max

\* Cells come only to clients whose tokens are in the chunk.
LEMMA WorkerDecodesKeeps ==
    ASSUME BackendInv, WorkerDecodes
    PROVE  BackendInv'
<1> USE DEF BackendInv
<1> DEFINE new(c) == pos_max(c) + 1 .. pos_max(c) + Cardinality(Share(c))
           more == [c \in Clients |-> cells[c] \cup new(c)]
<1>1. /\ worker = "decode" /\ worker' = "sample" /\ cells' = more
      /\ UNCHANGED <<place, future, history, tickets_, pop_back_, ticket,
                     tickets, decoded, batch, at, chunk, older, loose,
                     running_, freed>>
  BY DEF WorkerDecodes, clientVars, queueVars
<1>2. at \in Nat /\ chunk \in Nat \ {0} /\ Len(batch) \in Nat
  BY LenProperties DEF BatchAhead
<1>3. \A c \in Clients : /\ Cardinality(Share(c)) \in Nat
                         /\ c \notin decoded => Cardinality(Share(c)) = 0
  <2> TAKE c \in Clients
  <2>1. Chunk \subseteq at + 1 .. Len(batch) BY <1>2 DEF Chunk
  <2>2. IsFiniteSet(at + 1 .. Len(batch)) BY <1>2, FS_Interval
  <2>3. Share(c) \subseteq at + 1 .. Len(batch) /\ IsFiniteSet(Share(c))
    <3>1. Share(c) \subseteq at + 1 .. Len(batch) BY <2>1 DEF Share
    <3> HIDE DEF Share
    <3> QED BY <2>2, <3>1, FS_Subset
  <2>4. \A i \in at + 1 .. Len(batch) : batch[i] \in decoded
    BY <1>1 DEF BatchAhead, Ahead
  <2>5. c \notin decoded => Share(c) = {} BY <2>1, <2>4 DEF Share
  <2> HIDE DEF Share
  <2> QED BY <2>3, <2>5, FS_CardinalityType, FS_EmptySet
<1>4. \A c \in Clients : /\ new(c) \subseteq Nat /\ IsFiniteSet(new(c))
                         /\ c \notin decoded => new(c) = {}
  <2> TAKE c \in Clients
  <2> DEFINE p == pos_max(c)
             n == Cardinality(Share(c))
  <2>1. p \in Int /\ p >= -1 /\ n \in Nat /\ (c \notin decoded => n = 0)
    BY <1>3, PosMaxPosition DEF Positions
  <2> HIDE DEF p, n
  <2>2. p + 1 \in Int /\ p + n \in Int BY <2>1
  <2>3. /\ p + 1 .. p + n \subseteq Nat
        /\ c \notin decoded => p + 1 .. p + n = {}
    BY <2>1
  <2>4. IsFiniteSet(p + 1 .. p + n) BY <2>2, FS_Interval
  <2> QED BY <2>3, <2>4 DEF p, n
<1> HIDE DEF new
<1>5. /\ \A c \in Clients : more[c] = cells[c] \cup new(c)
      /\ more = [c \in Clients |-> more[c]]
  OBVIOUS
<1> HIDE DEF more
<1> USE <1>1
<1>6. ThreadsOK' BY DEF ThreadsOK
<1>7. OneTicketEach' BY DEF OneTicketEach, InFlight
<1>8. PlacesAgree' BY DEF PlacesAgree
<1>9. WorkerBusy' BY DEF WorkerBusy
<1>10. BatchAhead'
  <2>1. \A i \in at + chunk + 1 .. Len(batch) : i \in at + 1 .. Len(batch)
    BY <1>2
  <2> QED BY <2>1 DEF BatchAhead, Ahead
<1>11. TicketsOK' BY DEF TicketsOK, InFlight
<1>12. CellsOK'
  <2>1. \A c \in Clients : /\ cells[c] \cup new(c) \subseteq Nat
                           /\ older[c] \subseteq cells[c] \cup new(c)
    BY <1>4 DEF CellsOK
  <2>2. \A c \in Clients : IsFiniteSet(cells[c] \cup new(c))
    BY <1>4, FS_Union DEF CellsOK
  <2> QED BY <1>5, <2>1, <2>2 DEF CellsOK
<1>13. EntriesOK' BY DEF EntriesOK
<1>14. HistoryTells'
  BY <1>4, <1>5 DEF HistoryTells, Told, InFlight, First
<1> QED BY <1>6, <1>7, <1>8, <1>9, <1>10, <1>11, <1>12, <1>13, <1>14

\* A ticket that is done.
LEMMA NoTicketOK ==
    /\ NoTicket \in TicketSet
    /\ NoTicket.p0 = -1
BY DEF NoTicket, Positions

\* All tickets of the batch go, with their promises.
LEMMA WorkerDropsKeeps ==
    ASSUME BackendInv, WorkerDrops
    PROVE  BackendInv'
<1> USE DEF BackendInv
<1>1. /\ worker = "decode" /\ decoded' = {}
      /\ worker' = IF tickets = <<>> THEN "wait" ELSE "take"
      /\ batch' = <<>> /\ at' = 0 /\ chunk' = n_batch
      /\ future' = [c \in Clients |->
             IF c \in decoded THEN "ready" ELSE future[c]]
      /\ loose' = loose \cup {c \in decoded : history[c] = <<>>}
      /\ UNCHANGED <<place, history, tickets_, pop_back_, tickets, cells,
                     older, running_, freed>>
  BY DEF WorkerDrops, NextBatch, Forgets, queueVars
<1>2. ticket' = [c \in Clients |->
          IF c \in decoded THEN NoTicket ELSE ticket[c]]
  BY DEF WorkerDrops
<1>3. tickets # <<>> => Range(tickets) # {} BY QueueRange DEF ThreadsOK
<1> USE <1>1, <1>2
<1>4. ThreadsOK' BY DEF ThreadsOK
<1>5. OneTicketEach' BY DEF OneTicketEach, InFlight
<1>6. PlacesAgree' BY DEF PlacesAgree, ThreadsOK
<1>7. WorkerBusy' BY <1>3 DEF WorkerBusy
<1>8. BatchAhead' BY BackendAssumption DEF BatchAhead
<1>9. TicketsOK'
  BY NoTicketOK DEF TicketsOK, OneTicketEach, InFlight
<1>10. CellsOK' BY DEF CellsOK
<1>11. EntriesOK' BY DEF EntriesOK
<1>12. HistoryTells'
  BY DEF HistoryTells, Told, InFlight, First, TicketsOK, OneTicketEach
<1> QED BY <1>4, <1>5, <1>6, <1>7, <1>8, <1>9, <1>10, <1>11, <1>12

\* A client whose token is drawn has no token behind the chunk,
LEMMA DueIsLast ==
    ASSUME BackendInv, NEW c \in Clients, Due(c)
    PROVE  \A i \in at + chunk + 1 .. Len(batch) : batch[i] # c
<1>1. /\ at \in Nat /\ chunk \in Nat \ {0} /\ Len(batch) \in Nat
      /\ DOMAIN batch = 1 .. Len(batch)
  BY LenProperties DEF BackendInv, BatchAhead
<1>2. PICK m \in Share(c) : \A j \in DOMAIN batch : batch[j] = c => j <= m
  BY DEF Due
<1>3. m \in Int /\ m <= at + chunk BY <1>1, <1>2 DEF Share, Chunk
<1>4. \A j \in 1 .. Len(batch) : batch[j] = c => j <= m BY ONLY <1>1, <1>2
<1> SUFFICES ASSUME NEW i \in at + chunk + 1 .. Len(batch), batch[i] = c
             PROVE  FALSE
  OBVIOUS
<1>5. i \in 1 .. Len(batch) BY ONLY <1>1
<1>6. i <= m BY ONLY <1>4, <1>5, batch[i] = c
<1> QED BY ONLY <1>1, <1>3, <1>6

\* and one whose token is not drawn has its last one there.
LEMMA NotDueIsBehind ==
    ASSUME BackendInv, worker = "sample", NEW c \in decoded, ~Due(c)
    PROVE  \E i \in at + chunk + 1 .. Len(batch) : batch[i] = c
<1>1. /\ at \in Nat /\ chunk \in Nat \ {0} /\ Len(batch) \in Nat
      /\ DOMAIN batch = 1 .. Len(batch)
  BY LenProperties DEF BackendInv, BatchAhead
<1> DEFINE P == {i \in 1 .. Len(batch) : batch[i] = c}
<1>2. PICK p \in at + 1 .. Len(batch) : batch[p] = c
  BY DEF BackendInv, BatchAhead
<1>3. P \subseteq Nat /\ p \in P BY <1>1, <1>2
<1>4. IsFiniteSet(P)
  <2>1. IsFiniteSet(1 .. Len(batch)) BY <1>1, FS_Interval
  <2> QED BY <2>1, FS_Subset
<1>5. Max(P) \in P /\ \A i \in P : i <= Max(P)
  <2> HIDE DEF P
  <2> QED BY <1>3, <1>4, GreatestNumber
<1> DEFINE m == Max(P)
<1>6. /\ m \in 1 .. Len(batch) /\ batch[m] = c /\ p <= m
      /\ \A j \in 1 .. Len(batch) : batch[j] = c => j <= m
  <2> HIDE DEF m
  <2>1. m \in P /\ \A i \in P : i <= m BY <1>5 DEF m
  <2> QED BY <1>3, <2>1
<1> HIDE DEF m, P
<1>7. ~(m <= at + chunk)
  <2> SUFFICES ASSUME m <= at + chunk PROVE FALSE
    OBVIOUS
  <2>1. m \in Chunk BY ONLY <1>1, <1>2, <1>6, m <= at + chunk DEF Chunk
  <2>2. m \in Share(c) BY <1>6, <2>1 DEF Share
  <2>3. \A j \in DOMAIN batch : batch[j] = c => j <= m BY ONLY <1>1, <1>6
  <2> QED BY ONLY <2>2, <2>3, worker = "sample", c \in decoded, ~Due(c) DEF Due
<1>8. m \in at + chunk + 1 .. Len(batch) BY ONLY <1>1, <1>6, <1>7
<1> QED BY <1>6, <1>8

\* on_first_token: the history is no longer empty, and tells of all cells.
LEMMA BegunTells ==
    ASSUME BackendInv, NEW c \in decoded
    PROVE  /\ c \in Clients /\ P1(c) \in Positions
           /\ Begun(c) \in Seq(EntrySet)
           /\ Begun(c) # <<>>
           /\ c \notin loose => Begun(c)[1].p0 = -1
<1>1. c \in Clients /\ InFlight(c)
  BY DEF BackendInv, ThreadsOK, InFlight
<1>2. P1(c) \in Positions /\ ticket[c].p0 \in Positions
  BY <1>1, PosMaxPosition DEF BackendInv, TicketsOK, P1
<1>3. history[c] = <<>> =>
          /\ First(c) /\ ~ticket[c].again
          /\ c \notin loose => ticket[c].p0 = -1
  BY <1>1 DEF BackendInv, HistoryTells, Told
<1>4. history[c] # <<>> /\ c \notin loose => history[c][1].p0 = -1
  BY <1>1 DEF BackendInv, HistoryTells, Told
<1> DEFINE Entry == EntrySet
           e == [p0 |-> ticket[c].p0, p1 |-> P1(c)]
           h == history[c]
<1>5. h \in Seq(Entry) BY <1>1 DEF BackendInv, EntriesOK
<1>6. e \in Entry /\ e.p0 = ticket[c].p0 BY <1>2
<1>7. Begun(c) = IF First(c) /\ ~ticket[c].again THEN Append(h, e) ELSE h
  BY DEF Begun
<1> HIDE DEF Entry, e
<1>8. /\ Append(h, e) \in Seq(Entry) /\ Append(h, e) # <<>>
      /\ h # <<>> => Append(h, e)[1] = h[1]
      /\ h = <<>> => Append(h, e)[1] = e
  <2> HIDE DEF h
  <2>1. /\ Append(h, e) \in Seq(Entry) /\ Append(h, e) # <<>>
        /\ Len(h) \in Nat
        /\ \A i \in 1 .. Len(h) : Append(h, e)[i] = h[i]
        /\ Append(h, e)[Len(h) + 1] = e
    BY <1>5, <1>6, AppendProperties
  <2>2. h # <<>> => 1 \in 1 .. Len(h) BY <1>5, EmptySeq
  <2>3. h = <<>> => Len(h) + 1 = 1 BY EmptySeq
  <2> QED BY <2>1, <2>2, <2>3
<1>9. Begun(c) \in Seq(Entry) /\ Begun(c) # <<>>
  BY <1>3, <1>5, <1>7, <1>8
<1>10. c \notin loose => Begun(c)[1].p0 = -1
  BY <1>3, <1>4, <1>6, <1>7, <1>8
<1> QED BY <1>1, <1>2, <1>9, <1>10 DEF Entry

\* What the four ends of a sample have in common: the ticket leaves decoded,
\* and the history keeps what on_first_token made of it.
LEMMA SampleKeeps ==
    ASSUME BackendInv, NEW c \in Clients, Due(c), Leaves(c),
           NEW t \in TicketSet,
           ticket' = [ticket EXCEPT ![c] = t],
           NEW f \in {"pending", "ready"}, future' = [future EXCEPT ![c] = f],
           tickets' \in Seq(Clients), IsInjective(tickets'),
           Range(tickets') = Range(tickets) \cup
                             (IF f = "pending" THEN {c} ELSE {}),
           f = "pending" => t.tokens > 0,
           NEW h \in Seq(EntrySet),
           history' = [history EXCEPT ![c] = h], h # <<>>,
           h[1] = Begun(c)[1],
           NEW s \in SUBSET cells[c], cells' = [cells EXCEPT ![c] = s],
           NEW o \in SUBSET older[c], older' = [older EXCEPT ![c] = o],
           o \subseteq s
    PROVE  BackendInv'
<1> USE DEF BackendInv
<1>1. /\ worker = "sample" /\ c \in decoded /\ InFlight(c)
      /\ decoded' = decoded \ {c}
      /\ UNCHANGED <<place, tickets_, pop_back_, worker, batch, at, chunk,
                     loose, running_, freed>>
  BY DEF Due, Leaves, queueVars, InFlight
<1>2. c \notin loose => h[1].p0 = -1 BY <1>1, BegunTells
<1>3. /\ \A d \in Clients \ {c} : InFlight(d)' <=> InFlight(d)
      /\ InFlight(c)' <=> f = "pending"
  BY <1>1 DEF InFlight, OneTicketEach
<1> USE <1>1
<1>4. ThreadsOK' BY DEF ThreadsOK
<1>5. OneTicketEach' BY <1>3 DEF OneTicketEach, ThreadsOK
<1>6. PlacesAgree' BY DEF PlacesAgree, OneTicketEach, ThreadsOK
<1>7. WorkerBusy' BY DEF WorkerBusy
<1>8. BatchAhead'
  <2>1. \A i \in at + chunk + 1 .. Len(batch) : batch[i] # c BY DueIsLast
  <2> QED BY <2>1 DEF BatchAhead
<1>9. TicketsOK' BY <1>3 DEF TicketsOK
<1>10. CellsOK'
  <2>1. s \subseteq Nat /\ IsFiniteSet(s) BY FS_Subset DEF CellsOK
  <2> QED BY <2>1 DEF CellsOK
<1>11. EntriesOK' BY DEF EntriesOK
<1>12. HistoryTells'
  <2>1. ASSUME NEW d \in Clients \ {c}, history[d] = <<>>, InFlight(d)
        PROVE  First(d)' /\ ~ticket'[d].again
               /\ (d \in decoded' \/ ticket'[d].p0 = -1)
    BY <2>1 DEF HistoryTells, First, TicketsOK
  <2>2. ASSUME NEW d \in Clients \ {c}, d \notin loose PROVE Told(d)'
    BY <2>2 DEF HistoryTells, Told, TicketsOK, CellsOK, EntriesOK
  <2>3. c \notin loose => Told(c)'
    BY <1>2 DEF HistoryTells, Told, CellsOK, EntriesOK
  <2>4. history'[c] # <<>> BY DEF EntriesOK
  <2>5. \A d \in Clients \ {c} : history'[d] = history[d] BY DEF EntriesOK
  <2> QED BY <1>3, <2>1, <2>2, <2>3, <2>4, <2>5 DEF HistoryTells
<1> QED BY <1>4, <1>5, <1>6, <1>7, <1>8, <1>9, <1>10, <1>11, <1>12

\* The answer ends, and becomes an entry of the history.
LEMMA SampleFinishes ==
    ASSUME BackendInv, NEW c \in Clients, Due(c),
           NEW p2 \in Positions, Finishes(c, p2)
    PROVE  BackendInv'
<1> DEFINE e == [p0 |-> P1(c), p1 |-> p2]
           h == Append(Begun(c), e)
           Entry == EntrySet
<1>1. /\ c \in decoded /\ Leaves(c)
      /\ history' = [history EXCEPT ![c] = h]
      /\ future' = [future EXCEPT ![c] = "ready"]
      /\ ticket' = [ticket EXCEPT ![c] = NoTicket]
      /\ UNCHANGED <<tickets, cells, older>>
  BY DEF Due, Finishes
<1>2. Begun(c) \in Seq(Entry) /\ Begun(c) # <<>> /\ P1(c) \in Positions
  BY <1>1, BegunTells
<1>3. e \in Entry BY <1>2
<1>4. h \in Seq(Entry) /\ h # <<>> /\ h[1] = Begun(c)[1]
  <2> HIDE DEF e, Entry
  <2>1. 1 \in 1 .. Len(Begun(c)) BY <1>2, EmptySeq
  <2> QED BY <1>2, <1>3, <2>1, AppendProperties
<1>5. /\ tickets' \in Seq(Clients) /\ IsInjective(tickets')
      /\ Range(tickets') = Range(tickets) \cup {}
  BY <1>1 DEF BackendInv, ThreadsOK, OneTicketEach
<1>6. /\ cells' = [cells EXCEPT ![c] = cells[c]]
      /\ older' = [older EXCEPT ![c] = older[c]]
      /\ older[c] \subseteq cells[c]
  BY <1>1 DEF BackendInv, CellsOK
<1> HIDE DEF h
<1> QED BY <1>1, <1>4, <1>5, <1>6, NoTicketOK, SampleKeeps

\* The callback sees stop.
LEMMA SampleStops ==
    ASSUME BackendInv, NEW c \in Clients, SampleStopped(c)
    PROVE  BackendInv'
<1> DEFINE h == Begun(c)
           s == cells[c] \ Removed(cells[c], P1(c), -1)
           o == older[c] \ Removed(older[c], P1(c), -1)
<1>1. /\ Due(c) /\ c \in decoded /\ Leaves(c)
      /\ history' = [history EXCEPT ![c] = h]
      /\ future' = [future EXCEPT ![c] = "ready"]
      /\ ticket' = [ticket EXCEPT ![c] = NoTicket]
      /\ cells' = [cells EXCEPT ![c] = s]
      /\ older' = [older EXCEPT ![c] = o]
      /\ UNCHANGED tickets
  BY DEF SampleStopped, Due, BackendInv, CellsOK
<1>2. h \in Seq(EntrySet) /\ h # <<>>
  BY <1>1, BegunTells
<1>3. /\ tickets' \in Seq(Clients) /\ IsInjective(tickets')
      /\ Range(tickets') = Range(tickets) \cup {}
  BY <1>1 DEF BackendInv, ThreadsOK, OneTicketEach
<1>4. s \subseteq cells[c] /\ o \subseteq older[c] /\ o \subseteq s
  BY DEF Removed, BackendInv, CellsOK
<1>5. h[1] = Begun(c)[1] OBVIOUS
<1> HIDE DEF h, s, o
<1> QED BY <1>1, <1>2, <1>3, <1>4, <1>5, NoTicketOK, SampleKeeps

\* The ticket goes back into the queue with the token that was drawn.
LEMMA SampleGoesOn ==
    ASSUME BackendInv, NEW c \in Clients, NEW prints \in BOOLEAN,
           SampleMore(c, prints)
    PROVE  BackendInv'
<1> DEFINE h == Begun(c)
           t == [ticket[c] EXCEPT !.n_decoded = @ + 1, !.tokens = 1,
                                  !.p1 = P1(c)]
<1>1. /\ Due(c) /\ c \in decoded /\ Leaves(c)
      /\ history' = [history EXCEPT ![c] = h]
      /\ tickets' = Append(tickets, c)
      /\ UNCHANGED <<future, cells, older>>
  BY DEF SampleMore, Due
<1>2. /\ h \in Seq(EntrySet) /\ h # <<>>
      /\ P1(c) \in Positions
  BY <1>1, BegunTells
<1>3. ticket' = [ticket EXCEPT ![c] = t]
  BY DEF SampleMore, BackendInv, TicketsOK
<1>4. /\ t \in TicketSet
      /\ t.tokens > 0
  <2> DEFINE n == ticket[c].n_decoded + 1
             k == [ticket[c] EXCEPT !.n_decoded = n]
             l == [k EXCEPT !.tokens = 1]
  <2>1. n \in Nat /\ ticket[c] \in TicketSet BY DEF BackendInv, TicketsOK
  <2>2. k \in TicketSet
    <3> HIDE DEF n
    <3> QED BY <2>1
  <2>3. l \in TicketSet /\ l.tokens = 1
    <3> HIDE DEF k
    <3> QED BY <2>2
  <2>4. t = [l EXCEPT !.p1 = P1(c)]
    OBVIOUS
  <2> HIDE DEF l, t
  <2> QED BY <1>2, <2>3, <2>4
<1>5. /\ tickets' \in Seq(Clients) /\ IsInjective(tickets')
      /\ Range(tickets') = Range(tickets) \cup {c}
  BY <1>1, QueueGrows DEF BackendInv, ThreadsOK, OneTicketEach
<1>6. /\ future' = [future EXCEPT ![c] = "pending"]
      /\ cells' = [cells EXCEPT ![c] = cells[c]]
      /\ older' = [older EXCEPT ![c] = older[c]]
      /\ older[c] \subseteq cells[c]
  <2>1. future[c] = "pending"
    BY <1>1 DEF BackendInv, OneTicketEach, InFlight
  <2> QED BY <1>1, <2>1 DEF BackendInv, CellsOK, ThreadsOK
<1>7. h[1] = Begun(c)[1] OBVIOUS
<1> HIDE DEF h, t
<1> QED BY <1>1, <1>2, <1>3, <1>4, <1>5, <1>6, <1>7, SampleKeeps, ZenonT(60)

\* All four.
LEMMA SamplesKeep ==
    ASSUME BackendInv, NEW c \in Clients, Samples(c)
    PROVE  BackendInv'
<1>1. CASE SampleEnd(c)
  BY <1>1, SampleFinishes DEF SampleEnd, Positions
<1>2. CASE SampleLast(c)
  BY <1>2, SampleFinishes, PosMaxPosition DEF SampleLast
<1> QED BY <1>1, <1>2, SampleStops, SampleGoesOn DEF Samples

\* What is not drawn lies in the chunks that are left,
LEMMA NextChunkKeeps ==
    ASSUME BackendInv, WorkerNextChunk
    PROVE  BackendInv'
<1> USE DEF BackendInv
<1>1. /\ worker = "sample" /\ worker' = "decode" /\ at' = at + chunk
      /\ at + chunk < Len(batch) /\ \A c \in Clients : ~Due(c)
      /\ UNCHANGED <<place, future, history, tickets_, pop_back_, ticket,
                     tickets, decoded, batch, chunk, cells, older, loose,
                     running_, freed>>
  BY DEF WorkerNextChunk, Sampled, clientVars, queueVars, contextVars
<1>2. at \in Nat /\ chunk \in Nat \ {0} /\ Len(batch) \in Nat
  BY LenProperties DEF BatchAhead
<1>3. \A c \in decoded : \E i \in at + chunk + 1 .. Len(batch) : batch[i] = c
  BY <1>1, NotDueIsBehind DEF ThreadsOK
<1>4. \A i \in at + chunk + 1 .. Len(batch) : batch[i] \in decoded
  BY <1>1 DEF BatchAhead
<1>5. decoded # {}
  <2>1. Len(batch) \in at + chunk + 1 .. Len(batch) BY ONLY <1>1, <1>2
  <2> QED BY <1>4, <2>1
<1> USE <1>1
<1>6. ThreadsOK' BY DEF ThreadsOK
<1>7. OneTicketEach' BY DEF OneTicketEach, InFlight
<1>8. PlacesAgree' BY DEF PlacesAgree
<1>9. WorkerBusy' BY <1>5 DEF WorkerBusy
<1>10. BatchAhead' BY <1>2, <1>3, <1>4 DEF BatchAhead, Ahead
<1>11. TicketsOK' BY DEF TicketsOK, InFlight
<1>12. CellsOK' BY DEF CellsOK
<1>13. EntriesOK' BY DEF EntriesOK
<1>14. HistoryTells' BY DEF HistoryTells, Told, InFlight, First
<1> QED BY <1>6, <1>7, <1>8, <1>9, <1>10, <1>11, <1>12, <1>13, <1>14

\* and behind the last one there is nothing.
LEMMA NextBatchKeeps ==
    ASSUME BackendInv, WorkerNextBatch
    PROVE  BackendInv'
<1> USE DEF BackendInv
<1>1. /\ worker = "sample" /\ at + chunk >= Len(batch)
      /\ worker' = IF tickets = <<>> THEN "wait" ELSE "take"
      /\ \A c \in Clients : ~Due(c)
      /\ batch' = <<>> /\ at' = 0 /\ chunk' = n_batch
      /\ UNCHANGED <<place, future, history, tickets_, pop_back_, ticket,
                     tickets, decoded, cells, older, loose, running_, freed>>
  BY DEF WorkerNextBatch, NextBatch, Forgets, Sampled, clientVars, queueVars,
         contextVars
<1>2. decoded = {}
  <2>1. at \in Nat /\ chunk \in Nat \ {0} /\ Len(batch) \in Nat
    BY LenProperties DEF BatchAhead
  <2>2. \A c \in decoded : \E i \in at + chunk + 1 .. Len(batch) : batch[i] = c
    BY <1>1, NotDueIsBehind DEF ThreadsOK
  <2>3. at + chunk + 1 .. Len(batch) = {} BY ONLY <1>1, <2>1
  <2> QED BY <2>2, <2>3
<1>3. tickets # <<>> => Range(tickets) # {} BY QueueRange DEF ThreadsOK
<1> USE <1>1
<1>4. ThreadsOK' BY DEF ThreadsOK
<1>5. OneTicketEach' BY DEF OneTicketEach, InFlight
<1>6. PlacesAgree' BY DEF PlacesAgree
<1>7. WorkerBusy' BY <1>2, <1>3 DEF WorkerBusy
<1>8. BatchAhead' BY BackendAssumption DEF BatchAhead
<1>9. TicketsOK' BY DEF TicketsOK, InFlight
<1>10. CellsOK' BY DEF CellsOK
<1>11. EntriesOK' BY DEF EntriesOK
<1>12. HistoryTells' BY DEF HistoryTells, Told, InFlight, First
<1> QED BY <1>4, <1>5, <1>6, <1>7, <1>8, <1>9, <1>10, <1>11, <1>12

\* A step of nobody.
LEMMA StutterKeeps ==
    ASSUME BackendInv, UNCHANGED backendVars
    PROVE  BackendInv'
<1> USE DEF BackendInv, backendVars, clientVars, queueVars, workerVars,
        contextVars, engineVars
<1>1. ThreadsOK' BY DEF ThreadsOK
<1>2. OneTicketEach' BY DEF OneTicketEach, InFlight
<1>3. PlacesAgree' BY DEF PlacesAgree
<1>4. WorkerBusy' BY DEF WorkerBusy
<1>5. BatchAhead' BY DEF BatchAhead, Ahead
<1>6. TicketsOK' BY DEF TicketsOK, InFlight
<1>7. CellsOK' BY DEF CellsOK
<1>8. EntriesOK' BY DEF EntriesOK
<1>9. HistoryTells' BY DEF HistoryTells, Told, InFlight, First
<1> QED BY <1>1, <1>2, <1>3, <1>4, <1>5, <1>6, <1>7, <1>8, <1>9

-----------------------------------------------------------------------------
(***************************************************************************)
(* The invariant holds, and so do the properties                           *)
(***************************************************************************)
\* Nobody has called yet.
LEMMA InitInv == BackendInit => BackendInv
<1> SUFFICES ASSUME BackendInit PROVE BackendInv
  OBVIOUS
<1> USE BackendAssumption DEF BackendInit, BackendInv
<1>1. <<>> \in Seq(Clients) /\ Range(<<>>) = {} /\ IsInjective(<<>>)
  BY QueueEmpty
<1>2. ~\E c : InFlight(c)
  <2>1. tickets_ = <<>> /\ tickets = <<>> /\ decoded = {} OBVIOUS
  <2> QED BY ONLY <1>1, <2>1 DEF InFlight
<1>3. ThreadsOK BY <1>1 DEF ThreadsOK, Before
<1>4. OneTicketEach BY <1>1, <1>2 DEF OneTicketEach
<1>5. PlacesAgree BY DEF PlacesAgree, Before, Leaving
<1>6. WorkerBusy BY DEF WorkerBusy
<1>7. BatchAhead BY DEF BatchAhead
<1>8. TicketsOK BY <1>2, NoTicketOK DEF TicketsOK
<1>9. CellsOK BY FS_EmptySet DEF CellsOK
<1>10. EntriesOK BY DEF EntriesOK
<1>11. HistoryTells BY <1>2 DEF HistoryTells, Told
<1> QED BY <1>3, <1>4, <1>5, <1>6, <1>7, <1>8, <1>9, <1>10, <1>11

\* A step of the system.
LEMMA NextKeeps == BackendInv /\ [BackendNext]_backendVars => BackendInv'
<1> SUFFICES ASSUME BackendInv, [BackendNext]_backendVars
             PROVE  BackendInv'
  OBVIOUS
<1>1. CASE \E c \in Clients : CallBegins(c)
  BY <1>1, ClientWaits, PopBackKeeps, PopFrontKeeps
  DEF CallBegins, ReleaseBegins
<1>2. CASE \E c \in Clients : Inside(c)
  BY <1>2, ClientWaited, CommitKeeps, ClearKeeps, ClientReleases, ClientQuits,
     ClientFrees, ClientJoins
  DEF Inside
<1>3. CASE Worker
  BY <1>3, WorkerWakesUp, WorkerTakesKeeps, WorkerPreparesKeeps,
     WorkerDecodesKeeps, WorkerHalvesIt, WorkerDropsKeeps, SamplesKeep,
     NextChunkKeeps, NextBatchKeeps
  DEF Worker
<1>4. CASE UNCHANGED backendVars BY <1>4, StutterKeeps
<1> QED BY <1>1, <1>2, <1>3, <1>4 DEF BackendNext

\* The invariant of every run of the engine.
LEMMA BackendInvariant == BackendSpec => []BackendInv
<1> QED BY InitInv, NextKeeps, PTL DEF BackendSpec

\* A promise that is waited for has its ticket in exactly one of the worker's
\* hands: no ticket is lost or drawn twice (Backend::process and run).
THEOREM TicketsAreKept == BackendSpec => []OneTicketEach
<1>1. BackendInv => OneTicketEach BY DEF BackendInv
<1> QED BY <1>1, BackendInvariant, PTL

\* Past the wait of cancel the worker has nothing of the client any more.
THEOREM WorksOnOneSide == BackendSpec => []OneSide
<1>1. BackendInv => OneSide
  BY DEF BackendInv, OneSide, OneTicketEach, PlacesAgree, Before
<1> QED BY <1>1, BackendInvariant, PTL

\* ~Backend frees the context before it joins the worker, and the worker
\* does not go back to it.
THEOREM FreedStaysUnused == BackendSpec => []FreedIsUnused
<1>1. BackendInv => FreedIsUnused
  <2> SUFFICES ASSUME BackendInv, freed
               PROVE  worker \notin {"prepare", "decode"} /\ decoded = {}
    BY DEF FreedIsUnused
  <2>1. \A c \in Clients : ~InFlight(c)
    BY DEF BackendInv, PlacesAgree, OneTicketEach, Before, Leaving
  <2>2. decoded = {} /\ Range(tickets) = {}
    BY <2>1, QueueRange DEF BackendInv, ThreadsOK, InFlight
  <2> QED BY <2>2 DEF BackendInv, WorkerBusy
<1> QED BY <1>1, BackendInvariant, PTL

\* What clear removed from the history is not in the context of the next
\* answer, in whatever order the worker sees the bounds and the ticket.
THEOREM ClearedStaysForgotten == BackendSpec => []ClearedIsForgotten
<1>1. BackendInv => ClearedIsForgotten
  BY DEF BackendInv, ClearedIsForgotten, HistoryTells, Told, ThreadsOK
<1> QED BY <1>1, BackendInvariant, PTL

-----------------------------------------------------------------------------
(***************************************************************************)
(* What is allocated for n_ctx tokens is enough                            *)
(***************************************************************************)
\* The cells in use, and the tokens of a ticket.
Capacity ==
    /\ stop \in [Clients -> BOOLEAN]
    /\ \A c \in Clients : ticket[c].tokens <= MaxPrompt
    /\ Used <= n_ctx

\* llama has n_ctx cells for the clients together.
LEMMA UsedIsTotal == Used = TotalSize(cells, Clients)
BY DEF Used, TotalSize

\* Fewer cells in every sequence are fewer in all.
LEMMA UsedShrinks ==
    ASSUME IsFiniteSet(Clients), CellsOK, Used <= n_ctx,
           \A c \in Clients : cells'[c] \subseteq cells[c]
    PROVE  Used' <= n_ctx
<1>1. \A c \in Clients :
          /\ IsFiniteSet(cells[c]) /\ IsFiniteSet(cells'[c])
          /\ Cardinality(cells[c]) \in Nat
          /\ Cardinality(cells'[c]) <= Cardinality(cells[c])
          /\ Cardinality({i \in {} : batch[i] = c}) = 0
  <2> TAKE c \in Clients
  <2>1. IsFiniteSet(cells[c]) BY DEF CellsOK
  <2>2. {i \in {} : batch[i] = c} = {} OBVIOUS
  <2> QED BY <2>1, <2>2, FS_Subset, FS_CardinalityType, FS_EmptySet
<1>2. \A c \in Clients : Cardinality(cells'[c]) <= Cardinality(cells[c]) +
                             Cardinality({i \in {} : batch[i] = c})
  BY <1>1
<1> DEFINE e == cells'
<1>3. /\ TotalSize(cells, Clients) \in Nat /\ TotalSize(e, Clients) \in Nat
      /\ TotalSize(e, Clients) <= TotalSize(cells, Clients) + Cardinality({})
  <2> HIDE DEF e
  <2>1. \A c \in Clients : /\ IsFiniteSet(cells[c]) /\ IsFiniteSet(e[c])
                           /\ Cardinality(e[c]) <= Cardinality(cells[c]) +
                                  Cardinality({i \in {} : batch[i] = c})
    BY <1>1, <1>2 DEF e
  <2>2. IsFiniteSet({}) BY FS_EmptySet
  <2> QED BY ONLY IsFiniteSet(Clients), <2>1, <2>2, TotalGrows
<1>4. Cardinality({}) = 0 BY FS_EmptySet
<1>5. Used' = TotalSize(e, Clients)
  BY DEF Used, TotalSize, MapThenSumSet, MapThenFoldSet
<1> HIDE DEF e
<1> QED BY <1>3, <1>4, <1>5, UsedIsTotal, BackendAssumption

\* A chunk brings no more cells than it has tokens.
LEMMA UsedGrows ==
    ASSUME IsFiniteSet(Clients), BackendInv, WorkerDecodes
    PROVE  Used' <= n_ctx
<1> DEFINE new(c) == pos_max(c) + 1 .. pos_max(c) + Cardinality(Share(c))
           e == cells'
<1>1. IsFiniteSet(Chunk)
  <2>1. at \in Nat /\ chunk \in Nat /\ Len(batch) \in Nat
    BY LenProperties DEF BackendInv, BatchAhead
  <2>2. /\ at + 1 \in Int
        /\ (IF at + chunk < Len(batch) THEN at + chunk ELSE Len(batch)) \in Int
    BY <2>1
  <2> QED BY <2>2, FS_Interval DEF Chunk
<1>2. \A c \in Clients : e[c] = cells[c] \cup new(c)
  BY DEF WorkerDecodes
<1>3. \A c \in Clients : /\ IsFiniteSet(cells[c]) /\ IsFiniteSet(e[c])
                         /\ Cardinality(e[c]) <= Cardinality(cells[c]) +
                                Cardinality({i \in Chunk : batch[i] = c})
  <2> TAKE c \in Clients
  <2> DEFINE p == pos_max(c)
             n == Cardinality(Share(c))
             N == p + 1 .. p + n
  <2>1. IsFiniteSet(Share(c)) BY <1>1, FS_Subset DEF Share
  <2>2. n \in Nat BY <2>1, FS_CardinalityType
  <2>3. p \in Int BY PosMaxPosition DEF Positions
  <2>4. IsFiniteSet(N) /\ Cardinality(N) = n
    <3> HIDE DEF p, n
    <3> QED BY <2>2, <2>3, FS_Interval
  <2>5. IsFiniteSet(cells[c]) BY DEF BackendInv, CellsOK
  <2>6. e[c] = cells[c] \cup N BY <1>2
  <2>7. Share(c) = {i \in Chunk : batch[i] = c} BY DEF Share
  <2> HIDE DEF e, p, N
  <2>8. /\ IsFiniteSet(e[c])
        /\ Cardinality(e[c]) = Cardinality(cells[c]) + Cardinality(N)
                               - Cardinality(cells[c] \cap N)
    BY ONLY <2>4, <2>5, <2>6, FS_Union
  <2>9. /\ Cardinality(cells[c] \cap N) \in Nat
        /\ Cardinality(cells[c]) \in Nat
    BY ONLY <2>5, FS_Intersection, FS_CardinalityType
  <2>10. Cardinality(e[c]) <= Cardinality(cells[c]) + n
    <3> HIDE DEF n
    <3> QED BY ONLY <2>2, <2>4, <2>8, <2>9
  <2> QED BY <2>5, <2>7, <2>8, <2>10
<1> HIDE DEF e
<1>4. /\ TotalSize(cells, Clients) \in Nat /\ TotalSize(e, Clients) \in Nat
      /\ TotalSize(e, Clients)
             <= TotalSize(cells, Clients) + Cardinality(Chunk)
  BY ONLY IsFiniteSet(Clients), <1>1, <1>3, TotalGrows
<1>5. Used' = TotalSize(e, Clients)
  BY DEF Used, TotalSize, MapThenSumSet, MapThenFoldSet, e
<1>6. TotalSize(cells, Clients) + Cardinality(Chunk) <= n_ctx
  BY UsedIsTotal DEF WorkerDecodes, Fits
<1>7. Cardinality(Chunk) \in Nat BY <1>1, FS_CardinalityType
<1> QED BY <1>4, <1>5, <1>6, <1>7, BackendAssumption

\* Every step leaves the cells, removes some, or decodes a chunk.
LEMMA UsedFits ==
    ASSUME IsFiniteSet(Clients), BackendInv, Used <= n_ctx,
           [BackendNext]_backendVars
    PROVE  Used' <= n_ctx
<1> USE DEF BackendInv
<1> DEFINE Less == \A c \in Clients : cells'[c] \subseteq cells[c]
<1>1. CASE WorkerDecodes BY <1>1, UsedGrows
<1>2. CASE WorkerPrepares
  <2>1. \A c \in Clients : cells'[c] \subseteq cells[c]
    BY <1>2, ResizedIsLess DEF WorkerPrepares
  <2> QED BY <2>1, UsedShrinks
<1>3. ASSUME NEW c \in Clients, SampleStopped(c) PROVE Less
  <2>1. cells' = [cells EXCEPT ![c] = @ \ Removed(@, P1(c), -1)]
    BY <1>3 DEF SampleStopped
  <2> QED BY <2>1 DEF CellsOK
<1>4. ASSUME UNCHANGED cells PROVE Less BY <1>4
<1>5. \/ WorkerDecodes \/ WorkerPrepares
      \/ \E c \in Clients : SampleStopped(c)
      \/ UNCHANGED cells
  <2>1. ASSUME NEW c \in Clients, CallBegins(c) \/ Inside(c)
        PROVE  UNCHANGED cells
    BY <2>1 DEF CallBegins, CancelBegins, ReleaseBegins, PopBack, PopFront,
        Inside, CancelEnds, Commit, Clear, Release, Quit, Free, Join,
        engineVars, contextVars
  <2>2. ASSUME NEW c \in Clients, Samples(c)
        PROVE  SampleStopped(c) \/ UNCHANGED cells
    BY <2>2 DEF Samples, SampleEnd, SampleLast, SampleMore, Finishes
  <2>3. CASE UNCHANGED backendVars
    BY <2>3 DEF backendVars, engineVars, contextVars
  <2>4. CASE Worker
    BY <2>2, <2>4 DEF Worker, WorkerWakes, WorkerTakes, WorkerHalves,
        WorkerDrops, WorkerNextChunk, WorkerNextBatch, contextVars
  <2> QED BY <2>1, <2>3, <2>4 DEF BackendNext
<1> QED
  <2>1. Less => Used' <= n_ctx BY UsedShrinks
  <2> QED BY <1>1, <1>2, <1>3, <1>4, <1>5, <2>1

\* A prompt has at most MaxPrompt tokens, and a ticket that goes on has one.
LEMMA TicketsFit ==
    ASSUME BackendInv, [BackendNext]_backendVars,
           \A c \in Clients : ticket[c].tokens <= MaxPrompt
    PROVE  \A c \in Clients : ticket'[c].tokens <= MaxPrompt
<1> DEFINE Fit == \A c \in Clients : ticket'[c].tokens <= MaxPrompt
<1>1. ticket \in [Clients -> TicketSet] /\ MaxPrompt \in Nat \ {0}
  BY BackendAssumption DEF BackendInv, TicketsOK
<1>2. NoTicket.tokens = 0 BY DEF NoTicket
<1>3. ASSUME NEW c \in Clients, NEW t, t.tokens <= MaxPrompt,
             ticket' = [ticket EXCEPT ![c] = t]
      PROVE  Fit
  BY <1>1, <1>3
<1>4. ASSUME UNCHANGED ticket PROVE Fit BY <1>4
<1>5. ASSUME NEW c \in Clients, NEW n \in 0 .. MaxPrompt, Commit(c, n)
      PROVE  Fit
  <2> DEFINE t == [NoTicket EXCEPT !.tokens = IF n = 0 THEN 1 ELSE n,
                                   !.again = n = 0]
             k == IF n = 0 THEN 1 ELSE n
  <2>1. k <= MaxPrompt BY <1>1
  <2>2. t.tokens = k BY DEF NoTicket
  <2>3. t.tokens <= MaxPrompt
    <3> HIDE DEF t, k
    <3> QED BY ONLY <2>1, <2>2
  <2>4. UNCHANGED ticket \/ ticket' = [ticket EXCEPT ![c] = t]
    BY <1>5 DEF Commit
  <2> HIDE DEF t, Fit
  <2> QED BY ONLY <1>3, <1>4, <2>3, <2>4, c \in Clients
<1>6. ASSUME NEW c \in Clients, CallBegins(c) \/ Inside(c) PROVE Fit
  <2>1. UNCHANGED ticket \/ \E n \in 0 .. MaxPrompt : Commit(c, n)
    BY <1>6 DEF CallBegins, CancelBegins, ReleaseBegins, PopBack, PopFront,
        Inside, CancelEnds, Clear, Release, Quit, Free, Join, engineVars,
        workerVars
  <2> HIDE DEF Fit
  <2> QED BY <1>4, <1>5, <2>1
<1>7. ASSUME NEW c \in Clients, Samples(c) PROVE Fit
  <2>1. CASE ticket' = [ticket EXCEPT ![c] = NoTicket]
    BY <1>1, <1>2, <2>1
  <2>2. ASSUME NEW prints \in BOOLEAN, SampleMore(c, prints) PROVE Fit
    <3>1. ticket' = [ticket EXCEPT ![c].n_decoded = @ + 1, ![c].tokens = 1,
                                   ![c].p1 = P1(c)]
      BY <2>2 DEF SampleMore
    <3> DEFINE t == [ticket[c] EXCEPT !.n_decoded = @ + 1, !.tokens = 1,
                                      !.p1 = P1(c)]
    <3>2. ticket' = [ticket EXCEPT ![c] = t] BY <1>1, <3>1
    <3>3. t.tokens = 1 BY <1>1
    <3>4. t.tokens <= MaxPrompt
      <4> HIDE DEF t
      <4> QED BY ONLY <1>1, <3>3
    <3> HIDE DEF t, Fit
    <3> QED BY ONLY <1>3, <3>2, <3>4, c \in Clients
  <2>3. \/ ticket' = [ticket EXCEPT ![c] = NoTicket]
        \/ \E prints \in BOOLEAN : SampleMore(c, prints)
    BY <1>7 DEF Samples, SampleEnd, SampleLast, SampleStopped, Finishes
  <2> HIDE DEF Fit
  <2> QED BY <2>1, <2>2, <2>3
<1>8. CASE WorkerPrepares
  <2> DEFINE top(c) == IF Resized(c) = {} THEN -1 ELSE Max(Resized(c))
             moved(c) == Contains(tickets, c) /\ ticket[c].p0 < 0
  <2>1. ticket' = [c \in Clients |->
            IF moved(c) THEN [ticket[c] EXCEPT !.p0 = top(c)] ELSE ticket[c]]
    BY <1>8 DEF WorkerPrepares
  <2> HIDE DEF top, moved
  <2>2. \A c \in Clients : ticket'[c].tokens = ticket[c].tokens
    BY <1>1, <2>1
  <2> QED BY <2>2
<1>9. CASE WorkerDrops
  BY <1>1, <1>2, <1>9 DEF WorkerDrops
<1>10. CASE UNCHANGED backendVars
  BY <1>10 DEF backendVars, engineVars, workerVars
<1>11. CASE Worker
  <2>1. \/ WorkerPrepares \/ WorkerDrops \/ UNCHANGED ticket
        \/ \E c \in Clients : Samples(c)
    BY <1>11 DEF Worker, WorkerWakes, WorkerTakes, WorkerDecodes, WorkerHalves,
        WorkerNextChunk, WorkerNextBatch
  <2> QED BY <1>4, <1>7, <1>8, <1>9, <2>1
<1> QED BY <1>6, <1>10, <1>11 DEF BackendNext

\* The room that is left: cells for what is decoded, and the tokens of a
\* ticket.
LEMMA CapacityKeeps ==
    ASSUME IsFiniteSet(Clients), BackendInv, Capacity,
           [BackendNext]_backendVars
    PROVE  Capacity'
<1>1. stop' \in [Clients -> BOOLEAN]
  <2>1. ASSUME NEW c \in Clients, CallBegins(c) \/ Inside(c)
        PROVE  UNCHANGED stop \/ \E b \in BOOLEAN :
                                     stop' = [stop EXCEPT ![c] = b]
    BY <2>1 DEF CallBegins, CancelBegins, ReleaseBegins, Pops, PopBack,
        PopFront, Inside, CancelEnds, Commit, Clear, Release, Quit, Free, Join
  <2>2. CASE Worker
    BY <2>2 DEF Worker, WorkerWakes, WorkerTakes, WorkerPrepares,
        WorkerDecodes, WorkerHalves, WorkerDrops, Samples, SampleEnd,
        SampleStopped, SampleLast, SampleMore, Finishes, Leaves,
        WorkerNextChunk, WorkerNextBatch, Capacity, clientVars
  <2>3. CASE UNCHANGED backendVars
    BY <2>3 DEF backendVars, clientVars, Capacity
  <2>4. stop \in [Clients -> BOOLEAN] BY DEF Capacity
  <2> QED BY <2>1, <2>2, <2>3, <2>4 DEF BackendNext
<1> QED BY <1>1, UsedFits, TicketsFit DEF Capacity

\* A batch brings the tokens of every client's ticket at most.
LEMMA BatchFits ==
    ASSUME IsFiniteSet(Clients), BackendInv, Capacity, WorkerPrepares
    PROVE  Len(batch') <= Cardinality(Clients) * MaxPrompt
<1> DEFINE Of(k) == [j \in 1 .. ticket[tickets[k]].tokens |-> tickets[k]]
           ss == [k \in DOMAIN tickets |-> Of(k)]
           U == {s \in Seq(Clients) : Len(s) <= MaxPrompt}
           n == Len(tickets)
<1>1. /\ n \in Nat /\ DOMAIN tickets = 1 .. n
      /\ \A k \in 1 .. n : tickets[k] \in Clients
  BY LenProperties, ElementOfSeq DEF BackendInv, ThreadsOK
<1>2. \A k \in 1 .. n : Of(k) \in U
  <2>1. \A c \in Clients : /\ ticket[c].tokens \in Nat
                           /\ ticket[c].tokens <= MaxPrompt
    BY DEF BackendInv, TicketsOK, Capacity
  <2> TAKE k \in 1 .. n
  <2> DEFINE c == tickets[k]
             m == ticket[c].tokens
  <2>2. c \in Clients BY <1>1
  <2>3. m \in Nat /\ m <= MaxPrompt BY <2>1, <2>2
  <2>4. [j \in 1 .. m |-> c] \in Seq(Clients) /\ Len([j \in 1 .. m |-> c]) = m
    <3> HIDE DEF c, m
    <3> QED BY <2>2, <2>3
  <2> QED BY <2>3, <2>4
<1>3. ss \in Seq(U) /\ Len(ss) = n
  <2> HIDE DEF Of, U, n
  <2> QED BY <1>1, <1>2
<1>4. batch' = FlattenSeq(ss) BY DEF WorkerPrepares, Tokens
<1>5. Len(batch') \in Nat /\ Len(batch') <= n * MaxPrompt
  <2>1. MaxPrompt \in Nat BY BackendAssumption
  <2> HIDE DEF ss, n
  <2>2. ss \in Seq({s \in Seq(Clients) : Len(s) <= MaxPrompt}) BY <1>3
  <2> QED BY <1>3, <1>4, <2>1, <2>2, FlattenLength
<1>6. n <= Cardinality(Clients)
  BY InjectiveLength DEF BackendInv, ThreadsOK, OneTicketEach
<1>7. Cardinality(Clients) \in Nat BY FS_CardinalityType
<1>8. \A a, b, m \in Nat : a <= b => a * m <= b * m OBVIOUS
<1> HIDE DEF n
<1>9. n * MaxPrompt <= Cardinality(Clients) * MaxPrompt
  BY <1>1, <1>6, <1>7, <1>8, BackendAssumption
<1> DEFINE most == Cardinality(Clients) * MaxPrompt
           all == n * MaxPrompt
<1>10. /\ all \in Nat /\ most \in Nat
       /\ Len(batch') \in Nat /\ Len(batch') <= all
       /\ all <= most
  BY <1>1, <1>5, <1>7, <1>9, BackendAssumption
<1>11. most = Cardinality(Clients) * MaxPrompt OBVIOUS
<1> HIDE DEF most, all
<1>12. Len(batch') <= most BY ONLY <1>10
<1> QED BY <1>11, <1>12

LEMMA MostIsNatural ==
    ASSUME IsFiniteSet(Clients)
    PROVE  0 <= Cardinality(Clients) * MaxPrompt
<1>1. Cardinality(Clients) \in Nat /\ MaxPrompt \in Nat
  BY FS_CardinalityType, BackendAssumption
<1>2. \A a, b \in Nat : 0 <= a * b OBVIOUS
<1> QED BY <1>1, <1>2

\* Only WorkerPrepares fills the batch.
LEMMA BatchStaysInBounds ==
    ASSUME IsFiniteSet(Clients), BackendInv, Capacity,
           Len(batch) <= Cardinality(Clients) * MaxPrompt,
           [BackendNext]_backendVars
    PROVE  Len(batch') <= Cardinality(Clients) * MaxPrompt
<1>1. CASE WorkerPrepares BY <1>1, BatchFits
<1>2. CASE batch' = <<>>
  BY <1>2, MostIsNatural
<1>3. CASE UNCHANGED batch BY <1>3
<1>4. ASSUME NEW c \in Clients, CallBegins(c) \/ Inside(c)
      PROVE  UNCHANGED batch
  BY <1>4 DEF CallBegins, CancelBegins, ReleaseBegins, PopBack, PopFront,
      Inside, CancelEnds, Commit, Clear, Release, Quit, Free, Join,
      engineVars, workerVars
<1>5. ASSUME Worker PROVE WorkerPrepares \/ batch' = <<>> \/ UNCHANGED batch
  BY <1>5 DEF Worker, WorkerWakes, WorkerTakes, WorkerDecodes, WorkerHalves,
      WorkerDrops, Samples, SampleEnd, SampleStopped, SampleLast, SampleMore,
      Finishes, Leaves, WorkerNextChunk, WorkerNextBatch, Forgets
<1>6. ASSUME UNCHANGED backendVars PROVE UNCHANGED batch
  BY <1>6 DEF backendVars, engineVars, workerVars
<1> QED BY <1>1, <1>2, <1>3, <1>4, <1>5, <1>6 DEF BackendNext

-----------------------------------------------------------------------------
\* The context never holds more than its n_ctx cells, whatever the prompts.
THEOREM CellsAreEnough ==
    ASSUME IsFiniteSet(Clients)
    PROVE  BackendSpec => []Capacity
<1>1. BackendInit => Capacity
  <2> SUFFICES ASSUME BackendInit PROVE Capacity
    OBVIOUS
  <2>1. \A c \in Clients : cells[c] = {} BY DEF BackendInit
  <2>2. Used = 0 BY <2>1, UsedIsTotal, TotalOfNothing
  <2> QED BY <2>2, BackendAssumption DEF Capacity, BackendInit, NoTicket
<1>2. BackendInv /\ Capacity /\ [BackendNext]_backendVars => Capacity'
  BY CapacityKeeps
<1> QED BY <1>1, <1>2, BackendInvariant, PTL DEF BackendSpec

\* The state is of its type, whatever the room n_ctx has: a batch is one prompt
\* of each client at most, though tickets are queued again with every token.
THEOREM BackendTypeCorrect ==
    ASSUME IsFiniteSet(Clients)
    PROVE  BackendSpec => []BackendTypeOK
<1> DEFINE Bounded == Len(batch) <= Cardinality(Clients) * MaxPrompt
<1>1. BackendInit => Bounded
  <2>1. BackendInit => Len(batch) = 0 BY DEF BackendInit
  <2> QED BY <2>1, MostIsNatural
<1>2. BackendInv /\ Capacity /\ Bounded /\ [BackendNext]_backendVars => Bounded'
  BY BatchStaysInBounds
<1>3. BackendInv /\ Capacity /\ Bounded => BackendTypeOK
  BY DEF BackendInv, Capacity, BackendTypeOK, ThreadsOK, OneTicketEach,
      CellsOK, Before, Leaving
<1> HIDE DEF Bounded
<1> QED
  BY <1>1, <1>2, <1>3, BackendInvariant, CellsAreEnough, PTL DEF BackendSpec
=============================================================================
