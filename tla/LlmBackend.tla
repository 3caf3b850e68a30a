----------------------------- MODULE LlmBackend -----------------------------
(***************************************************************************)
(* The batched engine (src/src/llm.cc:69-713): clients of one model share  *)
(* a Backend, whose worker decodes the tickets of all of them together in  *)
(* one context, each in a sequence of its own.                             *)
(*                                                                         *)
(* Of a text only its number of tokens is kept, of the context the cells   *)
(* of each sequence.  A client is used by one thread at a time, and popped *)
(* only while it has no ticket; wait() by itself changes nothing.  llama   *)
(* is external: a batch decodes when it fits into the cells that are left, *)
(* may fail for reasons of its own, and any token may be sampled.  A batch *)
(* may be longer here than the arrays of n_ctx it is written to            *)
(* (llm.cc:605), and nothing comes of it.                                  *)
(***************************************************************************)
EXTENDS Integers, Sequences, SequencesExt, FiniteSetsExt

CONSTANTS
    Clients,        \* the clients that CreateClient made for the model
    n_ctx,          \* cells of the context
    n_batch,        \* tokens decoded in one call
    n_predict,
    MaxPrompt,      \* bound: tokens of a prompt
    MaxCommits,     \* bound: commits of all clients
    MaxPops         \* bound: pops of all clients

ASSUME BackendAssumption ==
    /\ {n_batch, n_predict, MaxPrompt} \subseteq Nat \ {0}
    /\ {n_ctx, MaxCommits, MaxPops} \subseteq Nat

VARIABLES
    place,          \* where each client's thread is
    stop,           \* stop
    future,         \* future: none, pending or ready
    history,        \* history: the entries' p0 and p1
    calls,          \* commits and pops begun
    tickets_,       \* clients whose ticket nobody has taken
    pop_back_,      \* the least p0 asked for, of each client
    pop_front_,     \* the greatest p1
    running_,
    freed,          \* ctx_ is freed
    worker,         \* where the worker is
    ticket,         \* each client's ticket
    tickets,        \* the tickets of the next batch
    decoded,        \* the tickets of this batch that are not sampled
    batch,          \* the client of each token
    at,             \* tokens of the batch that are decoded
    chunk,          \* the local n_batch of process
    cells,          \* the positions each sequence holds
    older,          \* history: those from before the client's last clear
    loose           \* history: clients with cells no entry accounts for

clientVars == <<place, stop, future, history, calls>>
queueVars == <<tickets_, pop_back_, pop_front_>>
workerVars == <<worker, ticket, tickets, decoded, batch, at, chunk>>
contextVars == <<cells, older, loose>>
engineVars == <<queueVars, workerVars, contextVars, running_, freed>>
backendVars == <<clientVars, engineVars>>

Nothing == -2               \* no pop asked for; -1 is no bound

\* again: the prompt is empty
NoTicket ==
    [tokens |-> 0, n_decoded |-> 0, p0 |-> -1, p1 |-> -1, again |-> FALSE]

BackendInit ==
    /\ place = [c \in Clients |-> "idle"]
    /\ stop = [c \in Clients |-> FALSE]
    /\ future = [c \in Clients |-> "none"]
    /\ history = [c \in Clients |-> <<>>]
    /\ calls = [commits |-> 0, pops |-> 0]
    /\ tickets_ = <<>>
    /\ pop_back_ = [c \in Clients |-> Nothing]
    /\ pop_front_ = [c \in Clients |-> Nothing]
    /\ running_ = TRUE /\ freed = FALSE
    /\ worker = "wait"
    /\ ticket = [c \in Clients |-> NoTicket]
    /\ tickets = <<>> /\ decoded = {}
    /\ batch = <<>> /\ at = 0 /\ chunk = n_batch
    /\ cells = [c \in Clients |-> {}] /\ older = [c \in Clients |-> {}]
    /\ loose = {}

pos_max(c) == IF cells[c] = {} THEN -1 ELSE Max(cells[c])

InFlight(c) == c \in Range(tickets_) \cup Range(tickets) \cup decoded

(***************************************************************************)
(* The clients' threads                                                    *)
(***************************************************************************)
Goes(c, from, to) ==
    /\ place[c] = from
    /\ place' = [place EXCEPT ![c] = to]

\* commit, clear and the destructor begin with cancel: stop is set,
CancelBegins(c, waiting) ==
    /\ Goes(c, "idle", waiting)
    /\ stop' = [stop EXCEPT ![c] = TRUE]
    /\ UNCHANGED <<future, history, engineVars>>

\* Mutant: cancel does not wait.
WaitedForNothing(c) == TRUE

Waited(c) == future[c] # "pending"

\* the future is waited for, and stop is reset.
CancelEnds(c, waiting, call) ==
    /\ Goes(c, waiting, call)
    /\ Waited(c)
    /\ stop' = [stop EXCEPT ![c] = FALSE]
    /\ UNCHANGED <<future, history, calls, engineVars>>

\* An empty prompt goes on from the last token, if there is one.
Commit(c, n) ==
    /\ Goes(c, "commit", "idle")
    /\ IF n = 0 /\ history[c] = <<>>
       THEN UNCHANGED <<future, ticket, tickets_>>
       ELSE /\ future' = [future EXCEPT ![c] = "pending"]
            /\ ticket' = [ticket EXCEPT ![c] =
                   [NoTicket EXCEPT !.tokens = IF n = 0 THEN 1 ELSE n,
                                    !.again = n = 0]]
            /\ tickets_' = Append(tickets_, c)
    /\ UNCHANGED <<stop, history, calls, pop_back_, pop_front_, worker,
                   tickets, decoded, batch, at, chunk, contextVars, running_,
                   freed>>

\* Mutant: resize_kv_cache keeps the first p0 of a client.
EarliestAsked(asked, p0) == IF asked = Nothing THEN p0 ELSE asked

Earliest(asked, p0) == IF asked = Nothing \/ p0 < asked THEN p0 ELSE asked

Latest(asked, p1) == IF asked = Nothing \/ p1 > asked THEN p1 ELSE asked

\* With an empty history it returns early.
Clear(c) ==
    /\ Goes(c, "clear", "idle")
    /\ older' = [older EXCEPT ![c] = cells[c]]
    /\ IF history[c] = <<>>
       THEN UNCHANGED <<history, pop_back_>>
       ELSE /\ history' = [history EXCEPT ![c] = <<>>]
            /\ pop_back_' = [pop_back_ EXCEPT ![c] = Earliest(@, -1)]
    /\ UNCHANGED <<stop, future, calls, tickets_, pop_front_, workerVars,
                   cells, loose, running_, freed>>

Pops(c) ==
    /\ place[c] = "idle" /\ ~InFlight(c) /\ history[c] # <<>>
    /\ calls.pops < MaxPops /\ calls' = [calls EXCEPT !.pops = @ + 1]

PopBack(c) ==
    /\ Pops(c)
    /\ pop_back_' = [pop_back_ EXCEPT ![c] = Earliest(@, Last(history[c]).p0)]
    /\ history' = [history EXCEPT ![c] = Front(@)]
    /\ UNCHANGED <<place, stop, future, tickets_, pop_front_,
                   workerVars, contextVars, running_, freed>>

\* The entry's last cells stay: the bound handed to llama is p1 - 1.
PopFront(c) ==
    /\ Pops(c)
    /\ pop_front_' = [pop_front_ EXCEPT ![c] = Latest(@, Head(history[c]).p1)]
    /\ history' = [history EXCEPT ![c] = Tail(@)]
    /\ loose' = loose \cup {c}
    /\ UNCHANGED <<place, stop, future, tickets_, pop_back_,
                   workerVars, cells, older, running_, freed>>

Others(c) ==
    {d \in Clients \ {c} : place[d] \notin {"quit", "free", "join", "gone"}}

\* RemoveClient, and the client's share of the Backend, which goes with the
\* last one.  The cells of the sequence stay in the context.

Release(c) ==
    /\ Goes(c, "remove", IF Others(c) = {} THEN "quit" ELSE "gone")
    /\ UNCHANGED <<stop, future, history, calls, engineVars>>

\* ~Backend, which frees the context before it joins the worker.
Quit(c) ==
    /\ Goes(c, "quit", "free")
    /\ running_' = FALSE
    /\ UNCHANGED <<stop, future, history, calls, queueVars, workerVars,
                   contextVars, freed>>

Free(c) ==
    /\ Goes(c, "free", "join")
    /\ freed' = TRUE
    /\ UNCHANGED <<stop, future, history, calls, queueVars, workerVars,
                   contextVars, running_>>

Join(c) ==
    /\ Goes(c, "join", "gone")
    /\ worker = "exited"
    /\ UNCHANGED <<stop, future, history, calls, engineVars>>

Calls ==
    { <<"commit_wait", "commit">>, <<"clear_wait", "clear">>,
      <<"remove_wait", "remove">> }

\* What the client's thread does once it is inside a call.
Inside(c) ==
    \/ \E call \in Calls : CancelEnds(c, call[1], call[2])
    \/ \E n \in 0 .. MaxPrompt : Commit(c, n)
    \/ Clear(c)
    \/ Release(c) \/ Quit(c) \/ Free(c) \/ Join(c)

\* Mutant: the destructor does not cancel.
ReleaseBeginsAtOnce(c) ==
    /\ Goes(c, "idle", "remove") /\ UNCHANGED stop
    /\ UNCHANGED <<future, history, calls, engineVars>>

ReleaseBegins(c) == CancelBegins(c, "remove_wait") /\ UNCHANGED calls

CallBegins(c) ==
    \/ /\ calls.commits < MaxCommits
       /\ calls' = [calls EXCEPT !.commits = @ + 1]
       /\ CancelBegins(c, "commit_wait")
    \/ CancelBegins(c, "clear_wait") /\ UNCHANGED calls
    \/ ReleaseBegins(c)
    \/ PopBack(c) \/ PopFront(c)

(***************************************************************************)
(* The worker (run)                                                        *)
(***************************************************************************)
WorkerWakes ==
    /\ worker = "wait"
    /\ tickets_ # <<>> \/ ~running_
    /\ worker' = "take"
    /\ UNCHANGED <<clientVars, queueVars, ticket, tickets, decoded, batch, at,
                   chunk, contextVars, running_, freed>>

WorkerTakes ==
    /\ worker = "take"
    /\ IF ~running_
       THEN worker' = "exited" /\ UNCHANGED <<tickets, tickets_>>
       ELSE /\ worker' = "prepare"
            /\ tickets' = tickets \o tickets_
            /\ tickets_' = <<>>
    /\ UNCHANGED <<clientVars, pop_back_, pop_front_, ticket, decoded, batch,
                   at, chunk, contextVars, running_, freed>>

\* llama_memory_seq_rm: a negative bound is no bound.
Removed(set, from, to) == {p \in set : p >= from /\ (to < 0 \/ p < to)}

Resized(c) ==
    LET back == IF pop_back_[c] = Nothing THEN {}
                ELSE Removed(cells[c], pop_back_[c], -1)
        front == IF pop_front_[c] = Nothing THEN {}
                 ELSE Removed(cells[c], -1, pop_front_[c] - 1)
    IN  cells[c] \ (back \cup front)

Tokens(ts) == FlattenSeq([i \in DOMAIN ts |->
                  [j \in 1 .. ticket[ts[i]].tokens |-> ts[i]]])

\* resize_kv_cache, and the batch of everything the tickets bring.
WorkerPrepares ==
    /\ worker = "prepare"
    /\ worker' = "decode"
    /\ cells' = [c \in Clients |-> Resized(c)]
    /\ older' = [c \in Clients |-> older[c] \cap Resized(c)]
    /\ pop_back_' = [c \in Clients |-> Nothing]
    /\ pop_front_' = [c \in Clients |-> Nothing]
    /\ ticket' = [c \in Clients |->
           IF Contains(tickets, c) /\ ticket[c].p0 < 0
           THEN [ticket[c] EXCEPT !.p0 = IF Resized(c) = {} THEN -1
                                         ELSE Max(Resized(c))]
           ELSE ticket[c]]
    /\ batch' = Tokens(tickets)
    /\ decoded' = Range(tickets) /\ tickets' = <<>>
    /\ at' = 0 /\ chunk' = n_batch
    /\ UNCHANGED <<clientVars, tickets_, loose, running_, freed>>

(***************************************************************************)
(* process: the batch goes to llama in chunks                              *)
(***************************************************************************)
Chunk == at + 1 .. IF at + chunk < Len(batch) THEN at + chunk ELSE Len(batch)

\* The tokens of the chunk that are c's.
Share(c) == {i \in Chunk : batch[i] = c}

Used == MapThenSumSet(LAMBDA c : Cardinality(cells[c]), Clients)

Fits == Used + Cardinality(Chunk) <= n_ctx

WorkerDecodes ==
    /\ worker = "decode" /\ Fits
    /\ worker' = "sample"
    /\ cells' = [c \in Clients |->
           cells[c] \cup
               (pos_max(c) + 1 .. pos_max(c) + Cardinality(Share(c)))]
    /\ UNCHANGED <<clientVars, queueVars, ticket, tickets, decoded, batch, at,
                   chunk, older, loose, running_, freed>>

WorkerHalves ==
    /\ worker = "decode" /\ ~Fits /\ chunk > 1
    /\ chunk' = chunk \div 2
    /\ UNCHANGED <<clientVars, queueVars, worker, ticket, tickets, decoded,
                   batch, at, contextVars, running_, freed>>

\* The locals of process
Forgets == batch' = <<>> /\ at' = 0 /\ chunk' = n_batch

NextBatch == IF tickets = <<>> THEN "wait" ELSE "take"

\* Mutant: the tickets that did not decode are tried again.
WorkerTriesAgain ==
    /\ worker = "decode"
    /\ ~Fits => chunk = 1
    /\ worker' = "take"
    /\ tickets' = tickets \o SetToSeq(decoded)
    /\ decoded' = {}
    /\ Forgets
    /\ UNCHANGED <<clientVars, queueVars, ticket, contextVars, running_,
                   freed>>

\* No cell is left, or llama fails: the tickets of all clients that are not
\* sampled yet are dropped, and their promises with them.
WorkerDrops ==
    /\ worker = "decode"
    /\ ~Fits => chunk = 1
    /\ worker' = NextBatch
    /\ future' = [c \in Clients |->
           IF c \in decoded THEN "ready" ELSE future[c]]
    /\ ticket' = [c \in Clients |->
           IF c \in decoded THEN NoTicket ELSE ticket[c]]
    /\ decoded' = {}
    /\ loose' = loose \cup {c \in decoded : history[c] = <<>>}
    /\ Forgets
    /\ UNCHANGED <<place, stop, history, calls, queueVars, tickets, cells,
                   older, running_, freed>>

(***************************************************************************)
(* process: a token for every ticket whose last token was decoded          *)
(***************************************************************************)
Due(c) ==
    /\ worker = "sample" /\ c \in decoded
    /\ \E i \in Share(c) : \A j \in DOMAIN batch : batch[j] = c => j <= i

\* on_first_token.  An empty prompt makes no entry.
First(c) == ticket[c].n_decoded = 0

P1(c) == IF First(c) THEN pos_max(c) ELSE ticket[c].p1

Begun(c) ==
    IF First(c) /\ ~ticket[c].again
    THEN Append(history[c], [p0 |-> ticket[c].p0, p1 |-> P1(c)])
    ELSE history[c]

Leaves(c) ==
    /\ decoded' = decoded \ {c}
    /\ UNCHANGED <<place, stop, calls, queueVars, worker, batch, at, chunk,
                   loose, running_, freed>>

\* on_finish, and then the promise.
Finishes(c, p2) ==
    /\ history' = [history EXCEPT ![c] =
           Append(Begun(c), [p0 |-> P1(c), p1 |-> p2])]
    /\ future' = [future EXCEPT ![c] = "ready"]
    /\ ticket' = [ticket EXCEPT ![c] = NoTicket]
    /\ UNCHANGED <<tickets, cells, older>>
    /\ Leaves(c)

\* The model ends its answer.  p2 stays -1.
SampleEnd(c) == Due(c) /\ Finishes(c, -1)

\* The callback sees stop: the cells from p1 on, which is the prompt's last
\* token, are removed.
SampleStopped(c) ==
    /\ Due(c) /\ stop[c]
    /\ cells' = [cells EXCEPT ![c] = @ \ Removed(@, P1(c), -1)]
    /\ older' = [older EXCEPT ![c] = @ \ Removed(@, P1(c), -1)]
    /\ history' = [history EXCEPT ![c] = Begun(c)]
    /\ future' = [future EXCEPT ![c] = "ready"]
    /\ ticket' = [ticket EXCEPT ![c] = NoTicket]
    /\ UNCHANGED tickets
    /\ Leaves(c)

Enough(c) == ticket[c].n_decoded + 1 >= n_predict

SampleLast(c) ==
    /\ Due(c) /\ ~stop[c] /\ Enough(c)
    /\ Finishes(c, pos_max(c))

\* A token that prints nothing reaches neither the callback nor the count.
SampleMore(c, prints) ==
    /\ Due(c)
    /\ prints => ~stop[c] /\ ~Enough(c)
    /\ history' = [history EXCEPT ![c] = Begun(c)]
    /\ ticket' = [ticket EXCEPT ![c].n_decoded = @ + 1, ![c].tokens = 1,
                                ![c].p1 = P1(c)]
    /\ tickets' = Append(tickets, c)
    /\ UNCHANGED <<future, cells, older>>
    /\ Leaves(c)

Samples(c) ==
    \/ SampleEnd(c) \/ SampleStopped(c) \/ SampleLast(c)
    \/ \E prints \in BOOLEAN : SampleMore(c, prints)

Sampled == worker = "sample" /\ \A c \in Clients : ~Due(c)

WorkerNextChunk ==
    /\ Sampled /\ at + chunk < Len(batch)
    /\ worker' = "decode" /\ at' = at + chunk
    /\ UNCHANGED <<clientVars, queueVars, ticket, tickets, decoded, batch,
                   chunk, contextVars, running_, freed>>

WorkerNextBatch ==
    /\ Sampled /\ at + chunk >= Len(batch)
    /\ worker' = NextBatch /\ Forgets
    /\ UNCHANGED <<clientVars, queueVars, ticket, tickets, decoded,
                   contextVars, running_, freed>>

Worker ==
    \/ WorkerWakes \/ WorkerTakes \/ WorkerPrepares
    \/ WorkerDecodes \/ WorkerHalves \/ WorkerDrops
    \/ \E c \in Clients : Samples(c)
    \/ WorkerNextChunk \/ WorkerNextBatch

BackendNext ==
    \/ \E c \in Clients : CallBegins(c) \/ Inside(c)
    \/ Worker

\* The worker and the calls go on; nobody has to call.
BackendSpec ==
    /\ BackendInit /\ [][BackendNext]_backendVars
    /\ WF_backendVars(Worker)
    /\ \A c \in Clients : WF_backendVars(Inside(c))

-----------------------------------------------------------------------------
(***************************************************************************)
(* Properties                                                              *)
(***************************************************************************)
\* The arrays of a batch are written without a look at their length: it is one
\* prompt of each client at most, and that n_ctx has room for these is left to
\* the user (llm.cc:605).
BackendTypeOK ==
    /\ place \in [Clients -> {"idle", "commit_wait", "commit",
                              "clear_wait", "clear", "remove_wait", "remove",
                              "quit", "free", "join", "gone"}]
    /\ stop \in [Clients -> BOOLEAN]
    /\ future \in [Clients -> {"none", "pending", "ready"}]
    /\ worker \in {"wait", "take", "prepare", "decode", "sample", "exited"}
    /\ Used <= n_ctx
    /\ Len(batch) <= Cardinality(Clients) * MaxPrompt
    /\ \A c \in Clients :
          /\ IsInjective(tickets) /\ IsInjective(tickets_)
          /\ older[c] \subseteq cells[c]

\* The worker and the client's thread never work on a client at once: past
\* the wait of a call nothing of its ticket is left, so neither callback can
\* come any more, and history, pos and sampler belong to the caller.
OneSide ==
    \A c \in Clients :
        place[c] \notin {"idle", "commit_wait", "clear_wait",
                          "remove_wait"} => ~InFlight(c)

\* What was said before a clear is not in the context of what comes after it,
\* though the cells are removed by the worker and the prompt may be queued
\* before it has seen either - as long as the history told of all cells.
ClearedIsForgotten ==
    worker = "sample" =>
        \A c \in decoded : older[c] = {} \/ c \in loose

\* The context is freed before the worker is joined: it has
\* no ticket by then, and does not go back to the context before it exits.
FreedIsUnused == freed => worker \notin {"prepare", "decode"} /\ decoded = {}

\* Every call returns: cancel waits for a worker that sees the stop at the
\* next printed token, reaches n_predict, or runs out of cells, and the
\* destructor for a worker that is not asleep.
CallsReturn ==
    \A c \in Clients : place[c] # "idle" ~> place[c] \in {"idle", "gone"}
=============================================================================
