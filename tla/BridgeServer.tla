---------------------------- MODULE BridgeServer ----------------------------
(***************************************************************************)
(* The life of the bridge's server (src/src/ime_bridge.cc): the rime       *)
(* thread makes and destroys the sessions' ImeBridge processors, which     *)
(* count their references to the singleton and start and stop it; every    *)
(* start has an accept thread of its own.  A redeployment destroys every   *)
(* processor and makes new ones.                                           *)
(*                                                                         *)
(* Stop does not take mutex_, and server_fd_ is a plain int that the       *)
(* accept thread reads: each access of the members is a step of its own.   *)
(* Of the system calls: shutdown wakes an accept that is blocked (Linux)  *)
(* where close alone does not, and the number of a descriptor that is      *)
(* closed goes to the next socket.                                         *)
(***************************************************************************)
EXTENDS Naturals

CONSTANTS
    Peers,          \* editors, each with one connection
    MaxProcessors,  \* bound: ImeBridge processors alive at a time
    MaxStarts       \* bound: accept threads launched in a behaviour

ASSUME ServerBoundsAssumption == MaxProcessors \in Nat /\ MaxStarts \in Nat

Runs == 1 .. MaxStarts

VARIABLES
    rime,           \* where the rime thread is
    ref_count,      \* ref_count_
    running,        \* running_
    server_fd,      \* server_fd_ is a descriptor, not -1
    starts,         \* accept threads launched; the last is server_thread_
    accepter,       \* where each accept thread is
    held,           \* what each accept thread read in server_fd_
    descriptor,     \* the descriptor is open
    socket,         \* the listening socket
    path,           \* what socket_path names
    connection      \* each peer's connection

rimeVars == <<rime, ref_count, running, server_fd, starts, path>>
serverVars == <<rimeVars, accepter, held, descriptor, socket, connection>>

RimePlaces ==
    {"idle", "bind", "listen", "launch",
     "stop", "shutdown", "close", "forget", "join", "remove"}

AccepterPlaces == {"none", "test", "load", "call", "blocked", "exited"}

ServerInit ==
    /\ rime = "idle"
    /\ ref_count = 0
    /\ running = FALSE /\ server_fd = FALSE
    /\ starts = 0
    /\ accepter = [r \in Runs |-> "none"]
    /\ held = [r \in Runs |-> FALSE]
    /\ descriptor = FALSE /\ socket = "none"
    /\ path = "none"
    /\ connection = [p \in Peers |-> "none"]

Goes(from, to) == rime = from /\ rime' = to

(***************************************************************************)
(* The rime thread: a processor is made.  AddRef, then Start.              *)
(***************************************************************************)
Create ==
    /\ ref_count < MaxProcessors
    /\ running \/ starts < MaxStarts
    /\ Goes("idle", IF running THEN "idle" ELSE "bind")
    /\ ref_count' = ref_count + 1
    /\ UNCHANGED <<running, server_fd, starts, accepter, held, descriptor,
                   socket, path, connection>>

\* Whatever the path names is unlinked; socket and bind follow.  Connections
\* that the previous socket never accepted are gone with it.
Bind ==
    /\ Goes("bind", "listen")
    /\ path' = "bound"
    /\ server_fd' = TRUE /\ descriptor' = TRUE /\ socket' = "bound"
    /\ connection' = [p \in Peers |->
           IF connection[p] = "pending" THEN "lost" ELSE connection[p]]
    /\ UNCHANGED <<ref_count, running, starts, accepter, held>>

\* After the path was unlinked, either call fails.
BindFails ==
    /\ Goes("bind", "idle")
    /\ server_fd' = FALSE /\ path' = "none"
    /\ UNCHANGED <<ref_count, running, starts, accepter, held, descriptor,
                   socket, connection>>

Listen ==
    /\ Goes("listen", "launch")
    /\ socket' = "listening"
    /\ UNCHANGED <<ref_count, running, server_fd, starts, accepter, held,
                   descriptor, path, connection>>

\* Mutant: the early return of a failed listen is missing.
ListenFailsUnnoticed ==
    /\ Goes("listen", "launch")
    /\ server_fd' = FALSE /\ descriptor' = FALSE /\ socket' = "none"
    /\ path' = "stale"
    /\ UNCHANGED <<ref_count, running, starts, accepter, held, connection>>

\* The file of a socket that is closed stays behind.
ListenFails ==
    /\ Goes("listen", "idle")
    /\ server_fd' = FALSE /\ descriptor' = FALSE /\ socket' = "none"
    /\ path' = "stale"
    /\ UNCHANGED <<ref_count, running, starts, accepter, held, connection>>

Launch ==
    /\ Goes("launch", "idle")
    /\ running' = TRUE
    /\ starts' = starts + 1
    /\ accepter' = [accepter EXCEPT ![starts + 1] = "test"]
    /\ UNCHANGED <<ref_count, server_fd, held, descriptor, socket, path,
                   connection>>

(***************************************************************************)
(* The rime thread: a processor is destroyed.  Release, which stops the    *)
(* server with the last reference.                                         *)
(***************************************************************************)
\* Mutant: a processor that was not enabled releases as well.
DestroyDisabled ==
    /\ Goes("idle", IF ref_count = 1 /\ running THEN "stop" ELSE "idle")
    /\ ref_count' = ref_count - 1
    /\ UNCHANGED <<running, server_fd, starts, accepter, held, descriptor,
                   socket, path, connection>>

Destroy ==
    /\ ref_count > 0
    /\ Goes("idle", IF ref_count = 1 /\ running THEN "stop" ELSE "idle")
    /\ ref_count' = ref_count - 1
    /\ UNCHANGED <<running, server_fd, starts, accepter, held, descriptor,
                   socket, path, connection>>

StopFlag ==
    /\ Goes("stop", "shutdown")
    /\ running' = FALSE
    /\ UNCHANGED <<ref_count, server_fd, starts, accepter, held, descriptor,
                   socket, path, connection>>

\* Mutant: the descriptor is closed only.
StopWithoutShutdown ==
    /\ Goes("shutdown", "close")
    /\ UNCHANGED <<ref_count, running, server_fd, starts, accepter, held,
                   descriptor, socket, path, connection>>

StopShutdown ==
    /\ Goes("shutdown", "close")
    /\ socket' = "shut"
    /\ UNCHANGED <<ref_count, running, server_fd, starts, accepter, held,
                   descriptor, path, connection>>

StopClose ==
    /\ Goes("close", "forget")
    /\ descriptor' = FALSE
    /\ UNCHANGED <<ref_count, running, server_fd, starts, accepter, held,
                   socket, path, connection>>

StopForget ==
    /\ Goes("forget", "join")
    /\ server_fd' = FALSE
    /\ UNCHANGED <<ref_count, running, starts, accepter, held, descriptor,
                   socket, path, connection>>

\* Mutant: the thread is dropped and not joined.
StopDetach ==
    /\ Goes("join", "remove")
    /\ UNCHANGED <<ref_count, running, server_fd, starts, accepter, held,
                   descriptor, socket, path, connection>>

StopJoin ==
    /\ Goes("join", "remove")
    /\ accepter[starts] = "exited"
    /\ UNCHANGED <<ref_count, running, server_fd, starts, accepter, held,
                   descriptor, socket, path, connection>>

StopRemove ==
    /\ Goes("remove", "idle")
    /\ path' = "none"
    /\ UNCHANGED <<ref_count, running, server_fd, starts, accepter, held,
                   descriptor, socket, connection>>

Starting == Bind \/ BindFails \/ Listen \/ ListenFails \/ Launch

Stopping ==
    \/ StopFlag \/ StopShutdown \/ StopClose \/ StopForget \/ StopJoin
    \/ StopRemove

(***************************************************************************)
(* The accept threads (RunServer)                                          *)
(***************************************************************************)
Moves(r, from, to) ==
    /\ accepter[r] = from
    /\ accepter' = [accepter EXCEPT ![r] = to]
    /\ UNCHANGED <<rimeVars, descriptor, socket>>

AcceptTest(r) ==
    /\ Moves(r, "test", IF running THEN "load" ELSE "exited")
    /\ UNCHANGED <<held, connection>>

AcceptLoad(r) ==
    /\ Moves(r, "load", "call")
    /\ held' = [held EXCEPT ![r] = server_fd]
    /\ UNCHANGED connection

\* -1, a closed descriptor, or a socket that was shut down.
AcceptRefused(r) ==
    /\ Moves(r, "call", "test")
    /\ ~held[r] \/ ~descriptor \/ socket = "shut"
    /\ UNCHANGED <<held, connection>>

AcceptBlocks(r) ==
    /\ Moves(r, "call", "blocked")
    /\ held[r] /\ descriptor /\ socket # "shut"
    /\ UNCHANGED <<held, connection>>

AcceptWoken(r) ==
    /\ Moves(r, "blocked", "test")
    /\ socket = "shut"
    /\ UNCHANGED <<held, connection>>

\* A connection is taken, also from a socket that was just shut down, and
\* given a detached thread.
Accept(r, p) ==
    /\ Moves(r, "blocked", "test")
    /\ connection[p] = "pending"
    /\ connection' = [connection EXCEPT ![p] = "open"]
    /\ UNCHANGED held

Accepting(r) ==
    \/ AcceptTest(r) \/ AcceptLoad(r) \/ AcceptRefused(r) \/ AcceptBlocks(r)
    \/ AcceptWoken(r)
    \/ \E p \in Peers : Accept(r, p)

(***************************************************************************)
(* The peers and the kernel                                                *)
(***************************************************************************)
Connect(p) ==
    /\ connection[p] = "none"
    /\ path = "bound" /\ socket = "listening"
    /\ connection' = [connection EXCEPT ![p] = "pending"]
    /\ UNCHANGED <<rimeVars, accepter, held, descriptor, socket>>

\* The backlog is dropped once nobody can accept from it.
Drop(p) ==
    /\ connection[p] = "pending"
    /\ ~descriptor
    /\ \A r \in Runs : accepter[r] # "blocked"
    /\ connection' = [connection EXCEPT ![p] = "lost"]
    /\ UNCHANGED <<rimeVars, accepter, held, descriptor, socket>>

-----------------------------------------------------------------------------
(***************************************************************************)
(* Properties of the life cycle                                            *)
(***************************************************************************)
ServerTypeOK ==
    /\ rime \in RimePlaces
    /\ ref_count \in 0 .. MaxProcessors
    /\ {running, server_fd, descriptor} \subseteq BOOLEAN
    /\ starts \in 0 .. MaxStarts
    /\ accepter \in [Runs -> AccepterPlaces]
    /\ held \in [Runs -> BOOLEAN]
    /\ socket \in {"none", "bound", "listening", "shut"}
    /\ path \in {"none", "bound", "stale"}
    /\ connection \in [Peers -> {"none", "pending", "open", "closed", "lost"}]

Alive(r) == accepter[r] \notin {"none", "exited"}

\* No accept thread outlives the Stop of its run: one that did would accept
\* on the descriptor of the next run, and server_thread_ would be assigned
\* while joinable, which ends the process.
OneAccepter == \A r \in Runs : Alive(r) => r = starts

\* Between two operations of the rime thread the members agree with each
\* other, with the socket and with the file, whatever failed before: a server
\* that runs can be reached and has a thread that will accept, one that does
\* not has left nothing that can be, and without processors it does not run.
ServerIsConsistent ==
    rime = "idle" =>
        /\ running => /\ path = "bound" /\ socket = "listening"
                      /\ server_fd /\ descriptor /\ Alive(starts)
        /\ ~running => /\ path # "bound" /\ ~server_fd /\ ~descriptor
                       /\ \A r \in Runs : ~Alive(r)
        /\ ref_count = 0 => ~running

\* Stop comes back: join() does not wait for a thread that sleeps in accept,
\* wherever that thread was when the descriptor was closed under it.
StopReturns == rime = "stop" ~> rime = "idle"
=============================================================================
