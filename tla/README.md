# Verification of librime-copilot

TLA+ models of the concurrent core of librime-copilot, the TLC runs that check
them on small instances, and TLAPS proofs of what matters most for every
instance.  Paths are relative to the repository; `ime_bridge.cc:265` means
`src/ime_bridge.cc`, line 265.

    tlc -config MCImeBridgeHistory.cfg MCImeBridgeHistory   # any run of PROJECT.json
    tlapm ImeBridgeProofs.tla                               # the proofs of a module

## 1. The system

librime-copilot is a plugin of the rime input method.  It predicts what the user
types next, switches `ascii_mode` for editors such as Neovim, and puts spaces
between Chinese and Latin text.  The repository has no tests.

| Part | State | Operations | What makes it hard |
|---|---|---|---|
| **IME bridge** (`ime_bridge.{h,cc}`) | one entry per client (nesting depth, base, initial mode, text around its cursor), the active client, a queue of actions | a handler per message; the rime thread takes the queue at a key event and applies it | one thread per connection and the rime thread; decisions taken at arrival, effects at the next key |
| **The bridge's server** (`ime_bridge.cc:28-156`) | a count of processors, a running flag, a descriptor, the accept thread; what each connection has read and not cut | `AddRef`, `Release`, `Start`, `Stop`, accept, read lines | Stop and the accept thread share a descriptor without a lock; detached threads; reads that respect no line |
| **Neovim client** (`clients/neovim/lua/rime_ime.lua`) | connection, at most 10 pending messages | autocommands send set, restore, activate, context ... | asynchronous connect; messages dropped, lost and overtaken |
| **ClientSimple** (`llm.cc:719`) | a pending prompt, the running task and its future, stop and shutdown flags | `commit`, `wait`, `clear`, the worker's loop, the destructor | two threads without a common lock |
| **LLMProvider** (`llm_provider.{h,cc}`) | a promise and its future, AC power | `Predict`, `Retrive`, the callback of the worker | aborted and late answers; members destroyed in order |
| **LLM backend** (`llm.cc:69-713`) | tickets, sequences, a batch | `commit`, `cancel`, `clear`, pops; a worker that decodes the tickets of all clients in batches | callbacks into the callers' state without a lock; pops carried out later; a context that runs full; compiled, but reached only without `USE_SIMPLE_CLIENT` |
| **Copilot processor** (`copilot.{h,cc}`) | last action, last key, iteration counter | key events, commits, the update notification | notifications re-enter it; it guesses from the last key what an update means |
| **Copilot engine, translator** (`copilot_engine.*`, `copilot_translator.*`) | the query, candidates, the history | `Copilot`, `Clear`, `BackSpace`, `candidates` | shared by all sessions of a schema |
| **DB provider, database** (`db_provider.h`, `copilot_db.*`) | candidates; memory-mapped tries | `Predict`, `Clear`, `Retrive` | - |
| **History, UTF8** (`history.*`) | the texts committed, with offsets | `add`, `pop`, `gets`, `get_chars`, slices | offsets when the oldest texts are dropped |
| **AutoSpacer** (`auto_spacer.*`) | the boundary when a composition began, per client | a key, with the surrounding text or by the commit history | decides from text that may be old; two paths that take turns |
| **SelectCharacter, filters** (`select_character.*`, `filters.*`) | none; lazy translations | commit a part of a candidate; drop candidates | - |
| **Power monitor, IMK client, module** (`utils.*`, `imk_client.*`, `copilot_module.cc`) | platform handles | notifications; the caret's surroundings on macOS | the notification outlives its listener |
| **Tools** (`tools/`) | - | build the database | - |

How they interact: the bridge's connection threads share its state with the
rime thread under `mutex_`.  The Copilot processor runs the bridge, AutoSpacer
and SelectCharacter on every key; AutoSpacer and the copilot read the bridge's
active context.  A commit makes the processor ask the engine for a prediction;
the engine asks its providers; LLMProvider commits a prompt to ClientSimple,
whose worker calls back into LLMProvider, while the translator waits up to
200 ms for the answer.

Correctness, per part:

- **Bridge**: every accepted request takes effect once, in order; an editor's
  mode comes back when, and only when, it has balanced its sets; an editor that
  left leaves nothing; nobody sees text of an editor that is not active or text
  it has withdrawn; editors cannot hold a key event up.
- **The server**: Stop returns; one thread accepts; whatever fails, flag, descriptor,
  socket and file agree; what a peer writes is handled, whole, once and in order.
- **LLM backend**: worker and caller never work on a client at once; nothing that was
  cleared is decoded upon; a full context keeps nobody waiting.
- **ClientSimple**: `wait()` means quiet, and returns; no prompt is lost or run
  twice; a stop reaches the run it is meant for.
- **LLMProvider**: an answer is the answer to the prompt asked last.
- **Neovim client**: what reaches the bridge is what the editor did, in order.
- **Processor and engine**: a menu shows predictions for the latest commit of
  its own session; iterations are bounded as configured.
- **History**: a read gives the last texts, whatever has been dropped.
- **AutoSpacer**: one space where Chinese meets English and none elsewhere, judged by the
  document as it was when the composition began, or, without surrounding text, by what was
  committed last.

`PROJECT.json` lists the hazards, each at the line where it bites, with the
properties that would catch it.

## 2. The modules

| Module | What it is |
|---|---|
| `ImeBridge` | the bridge's messages and its processor: an action per handler and per step of the rime thread |
| `AsciiRequests` | what the bridge promises: one queue of requests, served in order |
| `ImeBridgeRefinement` | the mapping from the first to the second |
| `ImeBridgeHistory` | the bridge with what each editor has asked for |
| `ImeBridgeContext` | the bridge with the text each editor stands by |
| `BridgeServer` | the server's life: the rime thread, the accept threads, the socket and its file |
| `BridgeConnection` | extends `BridgeServer` with peers that write and the threads that cut lines |
| `ClientSimple` | caller and worker, one shared access a step |
| `LLMProvider` | extends `ClientSimple` with the caller that exists |
| `History` | the texts committed: bytes, widths, and every read |
| `Prediction` | `LLMProvider` and `History` with the keys and the engine that drive both |
| `LlmBackend` | the batched engine: clients, their tickets, the worker and the context's cells |
| `NeovimClient` | the Neovim client: autocommands, timers, connection and queue |
| `NeovimBridge` | `ImeBridge` with one Neovim as its editor |
| `CopilotSession` | the processor of every session, with the engine they share, its providers and the translator |
| `AutoSpacer` | both paths of AutoSpacer, between a client, rime and a document |
| `ImeBridgeProofs` | theorems of `ImeBridge`, the refinement, `ImeBridgeContext` and `ImeBridgeHistory` |
| `NeovimBridgeProofs` | theorems of `NeovimBridge` |
| `BridgeConnectionProofs` | theorems of `BridgeServer` and `BridgeConnection` |
| `PredictionProofs` | theorems of `ClientSimple`, `LLMProvider`, `History` and `Prediction` |
| `LlmBackendProofs`, `CopilotSessionProofs`, `AutoSpacerProofs` | theorems of the modules they are named after |
| `DataInduction` | induction over numbers, sequences and finite sets, which three of the above use |
| `MC...` | instances for TLC |

### ImeBridge

`client_states`, `active_client` and `pending_actions` are the members of that
name.  `batch` is the local queue of `ApplyPendingActions`, `current` the session
whose `Process` runs, `ascii_mode` the option in each session's context (kept by
rime, outside the repository).  An entry has the fields of
`ImeBridgeClientState` except `current_target`, which is written and never read,
and `last_active`, which only `CleanupStaleClients` reads, and nothing calls that.  The
text before and after the cursor is one value; `NoText` is `context_valid = false`.

Each `Handle...` action is one critical section of `mutex_`.  `TouchClient` and
the parsing in `ProcessMessage` change nothing else that is modelled; `ping` and
messages that are refused change nothing.  `TakePendingActions(s)` begins a
`Process` of session `s`; every action of the batch is a step (`ApplySet`,
`ApplyRestore`, `ApplyReset`, `ApplyUnregister`); `FinishProcess` ends it.  In one
such step `get_option`, the critical section of `ApplyAction` and `set_option` go
together: only the rime thread touches the option, and the option is not shared
with the connection threads.  `UserToggle` is the user, who switches the mode
between key events.  `kContext` and `kClearContext` in `ApplyAction` are dead:
nothing pushes them.

Any client may send any message at any time.  That covers every interleaving of
the connection threads, lost, repeated and reordered messages, and editors that
crash.

### AsciiRequests and the refinement

The abstract specification has no batch, no entries and no flags: a sequence of
requests, and for each client how many sets are open, the mode before the
outermost, and the mode before the first.  Its `Accept` lets a restore in only
from a client with an open set; then it serves requests one at a time.  The
mapping concatenates `batch` and `pending_actions`, and reads level, base and
initial mode from the entry and its flags.  Messages about text and activity
are stuttering steps, and so is the hand-off of the queue.

### History variables

`ImeBridgeHistory` counts per client the sets it has not yet balanced
(`balance`) and whether it has dismissed itself; `DepthAfterAll` is the depth it will have
once a sequence of actions is applied.  `ImeBridgeContext` records the owner and the text offered.
They are updated with the messages, never read by the bridge's actions.

### NeovimClient and NeovimBridge

Neovim runs callbacks one at a time, so an autocommand or a timer is one action,
with all the messages it sends.  The modes of the editor, and which events it
fires, are external: `mode` is what `mode()` says (`R` counts as `i`), and
`Changes` and `return_mode` allow the changes the handlers expect.  From insert
mode the command line is entered without `InsertLeave` (`<C-r>=`).  `connection` is
`connected` and `connecting` in one; `send` writes at once when connected, past
what still waits in `pending_messages`, and otherwise queues up to `max_pending`.
The 60 ms timer of `InsertLeave` is two flags, for it can be cancelled only until
it expires: then its callback is scheduled and will run.  The deferred set of
`setup()` and the deferred context of `InsertEnter` may run at any time after they
are set.  A scheduled callback is taken to run before a 60 ms timer set later
expires.

`NeovimBridge` hands the messages on `wire` to the handlers of `ImeBridge`, one at
a time (`Deliver`); key events are those of one rime session.  The user switches
the mode while inserting, when nothing is on its way (`UserChooses`); `chosen`
remembers it.  `disturbed` records that a message was dropped for want of room,
or overtook an older one: the client promises nothing after that, and the
properties are about undisturbed behaviours.

`untimely` records the four ways in which sets and restores fall out of step with
each other although every message arrives: a restore that is dropped while its set
is queued (`ime_bridge.cc:265`), a plain set of `FocusGained` applied before the mode
was saved (`rime_ime.lua:446`), insert mode before the deferred set of `setup()`
(`:496`), and the callback of `InsertLeave` that takes the command line entered from
insert mode for one that insert mode was left for (`:403`).  After one of them insert
mode may be in the wrong mode; `InsertRestoresPrevious` says that nothing else does it.

The public functions (`M.set` and so on) called by a user's own configuration
are left out, and so is a restart of rime: a write to a closed pipe fails in a
callback that the client does not pass, so it never learns of it.

### CopilotSession

rime calls the processor on one thread, and a key event runs to its end, with all
the notifications it causes, before the next: a key event is one action, and what
runs within it is written as operators from a moment (one session and the engine)
to a moment.  The operators have the names of the functions.  `ContextClear` is
rime's `Context::Clear`, which notifies, so `OnContextUpdate` runs in the middle of
the handlers that call it; `CopilotAndUpdate` notifies too, with `self_updating_`
set, and rime's answer to that fills the menu.

rime is external: a session's `composition` (the tag of its last segment), its `menu`, its
last commit and the option `copilot`. Keys are told apart by what the processor and rime do
with them: `CommitKey` is any key by which rime commits a candidate, `SpecialKey` any that
is neither a letter, a digit nor navigation, and so on; what rime commits is any text.
`SpacerCommitKey` and `PlainKey` have what AutoSpacer commits instead of rime. The types
`punct`, `raw` and `thru` of a commit are one, and so are `kSelect` and `kUnspecified`: no
code tells them apart. A special key that selects a candidate (`SpecialSelectKey`) adds its
own character to the history if that is punctuation, and nothing else; `OnSelect` comes
before or after rime's commit, as rime has it, and what is committed is new to the history
and predicted upon. For punctuation, which is never predicted upon, only "after" is tried:
"before" is the same with a `ClearComposition` to follow. The history is its last text and its size up to 3; the database's
candidates are known by the text they were looked up for, the language model's future by
whether it is valid. `Fortunes` are what the providers may meet: power, a matching entry, an
answer in time. After a key that makes the processor deaf none of it matters, and only the
best `Fortune` is tried. `picks` is a history variable, put back when no prediction follows a pick (`EndRow`).

### AutoSpacer

Of a text only the class of the character at its boundary matters, and of rime's input
whether there is one and the spaces it begins with. The classes of punctuation
(`Punctuation`) are those the predicates of `auto_spacer.cc:52-139` and `:275-283` tell
apart: right punctuation in and out of the two ranges of `IsPunctString` (`rpunct`,
`rbrace`), the full stop, what is no right punctuation in and out of them (`lpunct`,
`lbrace`), the backquote. A record that ends in a space without being one is `padded`: a
right space makes it. `doc` is what stands around the caret, `surrounding` what the client
last reported of it (`GetSurroundingText`), which may be older, or be the caret behind the
marked text while composing. A key is one action, by the path that `Process` takes for it:
`...WithContext` if the client reports anything, `...ByHistory` if not. When AutoSpacer
returns `kNoop` the action goes on with what rime and the client then do (`Rime...`,
external): a letter begins or extends a composition or, in ascii mode, types itself; other
keys commit a candidate or type themselves; rime records what is committed, except for keys
with a modifier. Of punctuation that the history path has recorded before rime gets the key
(`IsModifierPunctKey`) the record stays even if rime keeps the key for its menu, and Enter
of the keypad is recorded as the byte that is left of its key code.

There is one client, for each has its own entry; `sent` is what the last step put
into the document.  `input.plain`, `input.fresh` and `input.unseen` are history: how the
composition began.  The caret in the marked text is taken to be at its end: if the user has
moved it and nothing stood behind the composition, the code takes the letter
behind it for the document's (`auto_spacer.cc:413`).

### BridgeServer and BridgeConnection

One thread of rime makes and destroys the processors (`Create`, `Destroy`); the
`Start` and `Stop` they lead to are steps, one for each access that another thread can
see.  `mutex_` is left out: only `Start` takes it, and no thread that reads these
members does.  Each launch has an accept thread of its own (`accepter[r]`), with the
descriptor it last read (`held`), for `server_fd_` is a plain `int`.  `descriptor`,
`socket`, `path` and `connection` are the kernel's: `shutdown` wakes a blocked accept,
`close` alone does not, a closed number goes to the next socket, and a socket's file
outlives it.  `accept` fails for no other reason.  There is one process; a second one
would unlink the path of the first (`ime_bridge.cc:55`).

A connection's thread is `Read`, `ProcessLine` and `End`.  A message is two parts and
a newline, so that a read may end in it anywhere that matters, `MaxRead` parts at a
time.  `ProcessMessage` appears as what it accepts: a line that is a message, and
nothing that is torn.  What it then does is `ImeBridge`.  Connections go on through
`Stop` and a second `Start`, as the detached threads do.

### ClientSimple and LLMProvider

The caller of `ClientSimple` never takes `mutex_`, so the worker's lock excludes
nothing and every access of a shared member is a step, in program order.
Commits are numbered, and the number stands for the prompt, the promise in
`running_task_` and its future.  `cond_.wait` is three steps: test the predicate,
begin to sleep, wake up; a notification between the first two is lost.
`has_new_task_` and `running_task_` are plain members: on a machine that reorders
stores there are more behaviours than these.  `run` may give up (a failed
decode), stop (`stop_`) or finish; after the destructor's frees it may also
crash.  `set_value` on a null or fulfilled promise ends the process
("crashed").

`LLMProvider` adds what the rime thread does with it: the warm-up of the
constructor, `Predict`, and the destructor, which destroys `promise_` before
`client_`.  `promise_` and `future_` are always replaced together and are one
variable.  A `Predict` that is declined changes nothing and needs no action here.
The callback that finds `promise_` destroyed is undefined behaviour: it may do
nothing, deliver, or crash.

### History and Prediction

`input` and `pos` are the members; a text is a sequence of characters, a character of
bytes, and `pos` has the widths.  `Cleanup` sums what the code sums: it reads
`pos_[i]` while it pops the front, so the totals are those of every second text
(`history.cc:233`).  A read that reaches before the beginning of `input` raises
`std::out_of_range`, written `Throws`.  `committed` and `cleaned` are history.

`Prediction` is the rime thread around them: `Commit` is `OnContextUpdate` down to
`history->add`, then the engine asks the language model (`LLMDeclines`, `LLMThrows`,
`LLMPredicts`) and the database (`DBPredicts`).  Without `max_hints` the database's
loop ends when `get_chars` returns no more, so it reads the whole history.  Nothing
catches an exception on this thread: `Throw` ends the process.

### LlmBackend

Of a text only its number of tokens is kept, of the context the positions that each
sequence holds.  `place[c]` is where a client's thread is: `commit`, `clear` and the
destructor begin with `cancel` (`CancelBegins`, `CancelEnds`).  A ticket is in
`tickets_`, `tickets` or `decoded`, the lists it moves through; `at` and `chunk` are
the locals of `process`.  Each sampled token is a step, with the callbacks
it calls.  `pop_back_` and `pop_front_` keep what `resize_kv_cache` makes of the
queues, the bounds of each sequence.  llama is external: a batch decodes if
it fits, may fail, and any token may be sampled, the end of the answer or one that
prints nothing among them.  `older` (cells from before the last clear) and `loose`
(cells no history entry accounts for) are history.  A client is used by one thread;
it is popped only while it has no ticket.

## 3. The runs

| Run | Bounds | Result |
|---|---|---|
| `bridge` | 1 client, 2 sessions, 1 text, 2 actions in flight, depth 2 | 177 k states; `TypeOK`, `BaseIffDepth`, `InitialStateStable`, `NeverRestoresEarly`, `DismissedLeavesNothing`, `KeyEventEnds`, `ImplementsRequests` hold |
| `context` | 2 clients, 2 texts, 1 in flight | 204 k states; `ContextIsCurrent`, `ImplementsRequests` hold |
| `neovim` | 1 Neovim, 2 actions in flight, depth 3, 6 queued messages, undisturbed | 1.62 M states; `NormalIsAscii`, `NoTextOutsideInsert`, `InsertRestoresPrevious` hold |
| `copilot` | 2 sessions, 2 texts, `max_iterations` 2 | 285 k states; `ChainIsBounded`, `MenuAnswersLatestCommit`, `DeletePredictsNothing` hold |
| `server` | 2 peers, one of which writes 2 lines; 2 processors, 2 starts, 3 parts a read | 221 k states; `ServerTypeOK`, `OneAccepter`, `ServerIsConsistent`, `HandledAsWritten`, `StopReturns`, `WrittenIsHandled` hold |
| `provider` | the warm-up and 3 predictions; cleanup at 4 texts, 3 texts of 1 to 3 bytes, 7 bytes | 557 k states; `ClientTypeOK`, `WaitedMeansQuiet`, `PromiseOfItsPrompt`, `StopIsForThisRun`, `RetrivesItsOwnPrompt`, `CallbackFindsItsPromise`, `ReplacedInQuiet`, `ReadsAreRecent`, `ThrowsOnlyAfterCleanup` hold |
| `backend` | 2 clients, 4 cells, batches and answers of 2, prompts of 0 to 2 tokens, 2 commits, 1 pop | 555 k states; `BackendTypeOK`, `OneSide`, `ClearedIsForgotten`, `FreedIsUnused`, `CallsReturn` hold |
| `spacer` | 1 client; 6 classes before the caret, 3 behind it, 2 of punctuation; right space on | 728 k states; `SpacerTypeOK`, `JunctionsAreSpaced`, `JunctionsByHistory` hold |
| `balance`, `wait`, `task`, `boundary` | as small as shows it | each is violated, see 4 |

The bounds, and why they are enough:

- `MaxPending` bounds the actions queued or taken and not yet applied.  Two are
  needed for a decision at arrival to be outdated when it is applied.
- `MaxDepth` stops an editor from sending sets.  With depth 2 there is an inner
  and an outermost set; sets in flight take the real depth beyond it.
- `ImplementsRequests` has two actions in flight in `bridge` and two clients in `context`.
- Clients do not meet in one another's entries, only in the queue, the active
  client and `ascii_mode`; two clients suffice where those matter.  The theorems
  about `ImeBridge` hold for any number of clients and any bound.
- `MaxQueued` stands for `max_pending`, which is 10 in the code: 6 is room for the
  set of `setup()` and two callbacks of three messages.
- `MaxUnread = 0`: a callback writes when the bridge has read what was written
  before.  The client never reads from the socket and sees nothing of the bridge, so a
  callback can be put off until then: the same messages arrive in the same order,
  and the state once all is quiet is the same.  Key events may still come between
  any two messages.
- `neovim` has the CONSTRAINT `Undisturbed`: beyond the first message lost or
  overtaken its invariants hold trivially.
- `copilot`: two sessions, for an engine is shared; two texts, for a candidate to be
  the wrong one; two iterations, for there to be a first that is allowed and a
  last that is not.  The history needs no bound.
- `MaxCommits = 4`: the warm-up and three predictions have a run after an aborted,
  after a finished and after a failed one.
- `Size = 2` stands for the 100 of the code: cleanup comes at 4 texts.  `MaxInput`
  stops commits when the bytes have grown past what it should have left.  Texts of one
  narrow, one wide and two characters tell lengths, widths and texts apart.
- `MaxStarts = 2` brings an accept thread of an earlier run; `MaxRead = 3`, for lines of
  three parts, lets a read end within a line, at its end and behind it.
- `n_ctx = 4` with two clients of up to three cells each: the context runs full, and a
  batch is halved and dropped.  Prompts together fit into `n_ctx`: the code writes the batch
  into arrays of that size without a check (`llm.cc:605`), and what it does beyond them is not
  modelled.
- `Lefts` and `Rights` are the classes a caret may be moved between; typing brings in the
  others.  `PunctKeys` is the punctuation that is typed: right punctuation, which may be recorded
  before rime has it, and the full stop, which the history path forces letters behind.  The
  theorems hold for all six classes.  There is no bound on the number of keys.
- Symmetry is used for clients, sessions and texts, and only in runs that check
  safety.

Deadlock is checked in the runs of the bridge and of AutoSpacer.  In the runs of `ClientSimple`,
`Prediction` and `LlmBackend` it is not: the destructor ends the behaviour, and so does a
crash.  Nor in `server`, which ends when starts and lines are used up.

Fairness.  `ImeBridge` has weak fairness of the rime thread's steps inside
`Process` (`RimeThread`): `Process` blocks on nothing but `mutex_`, which is held
for bounded steps.  Nothing makes an editor send or a user type.
`ClientSimple`
has weak fairness of a call once begun and of the worker, whose runs `n_predict`
bounds; a spurious wakeup is allowed and never relied on.
`BridgeConnection` has it for the rime thread inside `Start` and `Stop`, for every accept
and connection thread, and for the kernel's closing of a backlog; nobody has to make a
processor, connect or write.  `LlmBackend` has it for the worker and for a call once
begun.  The worker is one condition, for it always has a next step while it has work;
that a call returns does not rest on the model printing anything: a full context ends a
run of tokens that print nothing.

Each property has a mutant, an operator whose comment begins with `Mutant:` and
which stands just before the definition it would replace: with it, TLC finds
the property violated.

## 4. Where the documents and the code differ

- **balance** (`ime_bridge.cc:265`).  A restore is dropped while the depth is 0, and
  a set counts only once a key event has applied it.  Set and restore without a
  key between them (Neovim: enter and leave the command line by a mapping) leave
  the client nested, and its next outermost restore restores nothing.
  `rime_ime.lua:430`: always call restore to balance the set of CmdlineEnter.
- **wait** (`llm.cc:790`).  `commit` notifies without `mutex_`; a lost notification
  leaves the prompt unread and the next `wait` for good.  `llm.cc:778`: wait until
  the current prompt is done.
- **task** (`llm.cc:787`). `commit` sets `has_new_task_` before it makes `running_task_`.
  The worker may look at the flag in between (it does so before it sleeps, and at a spurious
  wakeup), and if its run is over before the next line of the caller - the prompt cannot be
  tokenized, the decode fails - it calls `set_value` on a null pointer or on the promise of
  the commit before, which is kept, and the process dies ("crashed"). `llm.h:129` says of
  `running_task_`: the task that is running. `PromiseOfItsPrompt` is about the runs that find
  a promise to keep.
- **boundary** (`auto_spacer.cc:386`).  A key with a modifier returns before the
  boundary is cached: a composition that begins with Shift and a letter is
  decorated by the boundary of an earlier one, or by none.  `auto_spacer.h:36`:
  "Stores boundary when composition starts, used at commit time."  With plain keys
  it holds, which `JunctionsAreSpaced` rests on.

Seen while modelling, with no run of their own.

`History::cleanup` (`history.cc:233`) sums the lengths of texts 0, 2, 4 ... while it
drops texts 0 to `size_ - 1`.  The bytes left are then too many or too few for the
widths left.  Too few, and a read of everything throws: `DBProvider::Predict` reads
everything unless `max_hints` is set (`db_provider.h:61`, `copilot_engine.cc:149`), on the
rime thread, where nothing catches it.  It takes 200 texts without a deletion to get
there.  `ThrowsOnlyAfterCleanup` shows that there is no other way, `ReadsAreRecent` that
reads which return are right nonetheless.

Insert mode can be left in the wrong mode by the four untimely cases of section 2, the
plainest of which is `setup()`: it sends `set(true)` 200 ms later in whatever mode the
editor then is (`rime_ime.lua:496`).

With the switch off a selected character is predicted upon all the same: the callback
of SelectCharacter does not look at the option (`copilot.cc:85`; `README.md:29` names its
states prediction off and prediction on).

Reset and unregister are queued, and what comes of them at the next key is an entry less
(`ime_bridge.cc:503`, `:512`): text that the same editor has sent in the meantime is lost with
it, though newer than its dismissal.  The properties of the bridge are about the other side,
that nothing old is left.

In the engine (`llm.cc`): the tokens of all tickets are written to arrays of `n_ctx`
elements (384) without a look at how many there are (605), so prompts of several clients
that together exceed the context overwrite what lies behind; `clear` does nothing when the
history is empty, though a failed decode or `pop_front` has left cells (228); `pop_front`
keeps the entry's last cell (490); an answer that ends by itself leaves its end unset (544);
a batch that does not fit drops the tickets of every client in it (516); a token that prints
nothing is neither stopped nor counted (551); the cells of a client that is destroyed stay;
the names that `CreateClient` looks up are never entered (663).

`UTF8::left` drops the last character although its comment says that all of the
text is returned (`history.cc:175`).

`CleanupStaleClients`
(`ime_bridge.cc:391`) has no caller, although `README.md:62` promises the cleanup of
stale clients.  Spaces go around Chinese punctuation outside two ranges of Unicode
(quotation marks, dashes, the ellipsis: `auto_spacer.cc:41`), and before a number
typed behind Chinese punctuation by the history path (`auto_spacer.cc:530`, which
comes before the test at 539), although `README.md:91` says Chinese punctuation
never gets spaces; the history path puts a space into the composition
(`auto_spacer.cc:598`), although `README.md:87` says none is inserted then.
An English candidate chosen by Space is taken for Chinese (`auto_spacer.cc:443`);
`README.md:77` promises detection for number keys only, and `JunctionsAreSpaced`
leaves that candidate out.

The history path knows what was committed last, not what the caret is at, and judges it in
ways of its own.  A commit with a right space leaves a record that ends in a space but is not
one: if the client then withdraws its text, `NeedAddSpace` puts another space behind it
(`auto_spacer.cc:159`), and two stand in the document.  English that went straight out (Enter,
or ascii mode) gets no space before the Chinese that follows (`auto_spacer.cc:593`).  After Enter
of the keypad in ascii mode the next letter gets a space at the beginning of the line
(`auto_spacer.cc:551`, `:602`), for what is left of the key code is no ASCII.  `JunctionsByHistory`
is about the rest: it leaves out records that are not what stands before the caret, and says
of English that went straight out that it gets no space.

## 5. What is proved

The assumptions are the named `ASSUME`s: the special values are not clients,
sessions, texts or entries, and the bounds are natural numbers, positive where the code
makes them so.  No finiteness is assumed.  Each invariant below was checked by TLC
before it was proved.

**The bridge** (`ImeBridgeProofs`).  `TypeCorrect`, `BaseCorrect`, `InitialStable`:
`TypeOK` alone is not inductive, for that applying a set finds a session to read
`ascii_mode` of needs its last conjunct, and `BaseIffDepth` needs that a base is only
dropped at depth 1.  `IInv == TypeOK /\ BaseIffDepth` is inductive; the proof has a step
per action.  `InitialStable` follows from it, action by action: an action either leaves
`has_initial` and `initial_state`, or erases the entry.  `Refinement`: `Spec` implies
`Abstract!Spec`.  `BaseIffDepth` is what makes the flag-free abstract serving agree with
the code's: "no base is set" is "depth is 0".  A lemma per action says which abstract
step it is.

**Its editors** (also `ImeBridgeProofs`).  All three theorems are about what is queued.

- `ContextCurrent`: text in an entry with nothing queued is the text offered, and the
  active client is the owner or none; a handed-out text may be outdated only while a
  dismissal is queued.
- `NoEarlyRestore`: once the whole queue is applied an editor is at least as deep as it
  has sets to balance.  `NeverRestoresEarly` says this and is inductive with `TypeOK`.
  The depth after a queue is a recursive function of the queue; its lemmas (that
  it exists and is the only one, is a number, and what an appended and a removed action make
  of it) are proved by induction on the queue's length.
- `DismissalIsFinal`: of an editor that dismissed itself either nothing is left, or some
  action in the queue erases it, and behind that one there is none of its sets.  That is
  the invariant (`AllEnded`), for what makes a restore in the queue harmless is its place
  behind the erasure.

**Neovim** (`NeovimBridgeProofs`).  What Neovim has sent and the bridge has not applied is
one sequence: the actions queued, the messages on the wire, those pending in Neovim.  The
mode says how deeply sets nest (`Nesting`: insert mode 0, normal mode 1 once its timer has
sent, one more for what is entered from there), and the sequence leads the depth there.
Callbacks change the mode and the end of the sequence (`NestsBy`, for each of them); the
bridge moves its front into the depth; so the place it leads to stays right.  There are
two such depths.  `Least` starts from the depth at the bridge if ascii mode is on, else from 0.
It never falls short of `Nesting`, whatever restores are dropped, for that only makes it
greater: `AsciiOutsideInsert`.  `Most` starts from the depth itself and does not exceed
`Nesting` until a set is untimely; until then the user's mode is at `Home`, as the mode or as the
base of the open cycle: `InsertKeepsChoice`.  For `TextOnlyInInsert` some deactivate in the
sequence, or the bridge already, has switched the text off, with no activate behind it
(`SwitchedOff`), unless the timer of `InsertLeave` is still to send it.  That a queue's depth is
monotone in where it starts, and that of two queues composes, is by induction.

**The server** (`BridgeConnectionProofs`).  `ServerTypeCorrect`, `OneAccepterAtATime`,
`ServerStaysConsistent`: no lock covers the steps of `Start` and `Stop`, so the invariant
says for every place of the rime thread what flag, descriptor, socket and file are, and which
accept threads may still run: those of earlier starts have exited, since `Stop` joins.
`HandlesAsWritten`: what a thread has read and not cut and what the kernel still holds
are one sequence of parts.  A read does not change it, a write lengthens its end, a line
is taken off its front.  The invariant says how neighbours in it follow each other and
that the whole messages in it are those written and not handled.  It compares sets and
positions, and needs no induction.

**ClientSimple, provider, prediction** (`PredictionProofs`).  `ClientCorrect` is about
`ClientSimple` under any caller; the next seven are about `PredictionSpec`, whose steps
are shown to be steps of `LLMProvider`, and those steps of `ClientSimple`.  The invariant
relates the caller's place, the worker's and the flags: the worker is at rest or at work
on the latest commit it was told of, and from the end of `wait` until `has_new_task_` is
set it is at rest (`Settled`).  That a wait is always between two commits is what makes
unlocked members safe.  The provider adds that `promise` is the last prediction's and
that no answer is there before its run (`AnswersFollow`).

**History** (also `PredictionProofs`).  `HistoryInv` says that the widths are those of
the last texts committed, and that the bytes and those of the committed texts are both ends
of one sequence, all the bytes there were.  A cleanup drops widths and bytes by different
measures, so neither is a function of the other afterwards; but both drop from the front,
and reads count from the end.  That is `ReadsStayRecent`.  `ThrowsAfterCleanup` adds that
before the first cleanup the bytes are those of the texts whose widths are kept.  It needs
that the widths of a text sum up to its bytes (`TotalOfWidths`) and that joining, widths and
ends go together (`FlattenOfWidths`, `WidthsOfLast`, `JoinedEnd`), each by induction.

**LLM backend** (`LlmBackendProofs`).  `BackendInv` has four ideas.  A promise is
pending exactly while its ticket is in one, and only one, of the worker's three places
(`TicketsAreKept`); where a client's thread is says what the others can still do, so that
only the last to leave stops the worker; what lies ahead in the batch belongs to tickets
that are not sampled; and cells from before a clear are asked to be removed before the
client's next ticket reaches the batch.  `WorksOnOneSide`, `FreedStaysUnused` and
`ClearedStaysForgotten` follow.  The batch is made by `FlattenSeq`; what it holds is shown
by induction on the number of tickets.  `CellsAreEnough`: the cells in use are a sum over the
clients, and by induction on the clients it grows with a chunk by no more than the
tokens of the chunk, for which `Fits` has room.  `BackendTypeCorrect`: no client has two
tickets and none has more than `MaxPrompt` tokens, so a batch is one prompt of each client at
most.  Whether the arrays of `n_ctx` have room for these is not looked at by the code (section 4)
and not assumed by the theorem.

**Processor and engine** (`CopilotSessionProofs`).  Every key goes through
`OnContextUpdate` or `CopilotAndUpdate`; what these two make of a moment is said once
(`Updated`), and a lemma per key says that its moment is in order: the counter is below
the limit, a prediction on the screen has had no more picks than the counter says
(`Chained`), and what is on the screen is the menu that was there or one for the text
just committed.  `ChainIsBounded` alone is not inductive: `picks` is bounded only through
the counter, which other keys may reset, but then they reset the picks or close the menu.
`MenusAnswerTheirCommit` and `DeletionIsQuiet` are read off the keys; a special key that selects
a candidate is the one special key that predicts, and its lemma follows the menu from the
candidate rime commits.

**AutoSpacer** (`AutoSpacerProofs`).  `SpacerTypes` bounds the spaces in front of the input
by one: no key strips or adds a space without looking (`SpacerTypeCorrect`).  `JunctionsSpaced`
needs `BoundaryKept`: while a composition lasts that began with a plain key and the text around
it known, the boundary kept is that of the document, and what the client reports agrees with it
on the right.  `RecordedJunctionsSpaced` needs `RecordKept`: while a composition lasts that
began with a plain key and no surrounding text, its head has one space if the record is English
that did not go straight out, and none if it is Chinese or a space - unless a key has recorded
something else meanwhile, and then the record is not what stands in the document.  So Chinese
behind English has its space in the input already, English behind Chinese gets it from
`NeedAddSpace`, which looks at the head first, and neither gets two, by whichever path the keys in
between have gone.

`DataInduction` has induction over the natural numbers, the sequences and the parts of a finite
set in the form of sets (a set that holds 0, and with every number the next, holds them all),
from the library's theorem on finite sets.  It serves the recursive functions above, each
by a set of its own, and has what `FlattenSeq` makes of longer sequences and how a sum of
sizes over a set grows.

Only model-checked:

- liveness (`KeyEventEnds`, `StopReturns`, `WrittenIsHandled`, `CallsReturn`): beyond the
  prover.

## 6. Plan

Every component with state of its own is modelled, and every safety property that a passing
run checks is proved.

## 7. Not modelled

- **Filters** (`filters.*`): lazy translations over the candidates of one query.  They keep no
  state between keys, and what they decide is the text of a candidate.
- **Database** (`copilot_db.*`, `tools/`): a file built once and mapped read-only.
- **UTF8** slices and `History::pop`, which has no caller.
- **Power monitor** (`utils.*`): a polling thread around platform calls; `LLMProvider` has the
  notification, at any time.  That its callback outlives the provider is a hazard in
  `PROJECT.json`.
- **IMK client, module** (`imk_client.*`, `copilot_module.cc`): platform calls, registration.
- **`CleanupStaleClients`**: no caller.  **A second process** on the same socket path.
- The branch of `LLMProvider` that is not built; the engine below it is `LlmBackend`.
- In `LlmBackend`: `CreateClient` while others work, and pops during a run, which the code does
  not guard at all (`llm.cc:240`).
- I/O, logging, JSON, the text of prompts and candidates.

Where such code matters it appears as a choice: any message, any outcome of a run, any
time for a change of power.
