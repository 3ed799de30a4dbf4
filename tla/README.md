# Formal models of Crab City

Crab City is a server that runs Claude Code (or a shell) in pseudo-terminals and
shares each of them with any number of browsers and command lines. This directory
holds TLA+ models of its core, the TLC configurations that check them, and TLAPS
proofs about them. Everything is translated from the source; where a comment or a
document says something else than the code does, a configuration shows the difference.

- [The system](#the-system)
- [The plan](#the-plan)
- [The models](#the-models): [TerminalLock](#terminallock), [Viewports](#viewports),
  [OutputReplay](#outputreplay), [Conversation](#conversation-conversationsync-laggingcopy),
  [StateInference](#stateinference), [SessionClaims](#sessionclaims),
  [InstanceList](#instancelist), [Inbox](#inbox), [History](#history), [DaemonFiles](#daemonfiles)
- [The runs](#the-runs), [what the code does not keep](#what-the-code-does-not-keep), [bounds](#bounds), [fairness](#fairness)
- [The proofs](#the-proofs)
- [What is not modelled](#what-is-not-modelled)

To check a model: `tlc -config TerminalLock.cfg MCTerminalLock.tla`, or, for a
model without an `MC` module, `tlc -config ConversationSync.cfg ConversationSync.tla`;
to check a proof: `tlapm TerminalLock_proof.tla`.

## The system

Paths are relative to `src/packages/crab_city/src/` unless they start elsewhere.

| Part | State | Operations | Talks to |
|---|---|---|---|
| Multiplexed WebSocket handler, one per connection (`ws/handler.rs`) | focused instance, cancellation token of the focus task, its refresh channel, a channel of one for session selections, a queue of 100 messages to the client | one client message at a time; `select!` over input, sender and broadcast tasks; clean-up after it | everything below |
| `GlobalStateManager` (`ws/state_manager.rs`) | trackers, presence, terminal locks, session claims, first input, pending attributions, time of the current state; each map behind a lock of its own | called by handlers, watchers, HTTP handlers | broadcasts state and life-cycle messages to all connections |
| Focus task, one per Focus (`ws/focus.rs`) | receiver of the output broadcast, UTF-8 decoder, receiver of conversation events | forwards output and turns; answers refresh requests with a replay and drains its receiver | instance actor, the connection's queue |
| Instance actor (`instance_actor.rs`) | `InstanceInfo`, virtual terminal, driver, output broadcast of 64 | commands one at a time, PTY output, driver signals, chosen by `select!` | PTY actor, drivers, state broadcast |
| Virtual terminal (`src/packages/virtual_terminal`) | vt100 screen, keyframe and deltas, one viewport per client, effective dimensions | process, replay, viewport changes | owned by the actor |
| Claude driver and state manager (`claude_driver.rs`, `inference/`) | inferred state, definitive-idle flag, conversation turns | output, signals of the watcher | owned by the actor |
| Conversation watcher, one per instance (`ws/conversation_watcher.rs`, `ws/merging_watcher.rs`) | session it reads, unanswered tool uses, held text, turns | looks for a session; polls its log every 500 ms | signals to the actor over a channel of 100; claims |
| Session search, one per Focus without a session (`ws/conversation_watcher.rs`) | the candidates it found | claims one, or asks the user | claims, actor, the client |
| Instance manager (`instance_manager.rs`, `handlers/instances.rs`) | handles, names in use | create, stop, rename | spawns actors |
| PTY actor (`src/packages/pty_manager`) | master side, writer, child | write, resize, kill | reader thread to a broadcast |
| Persistence (`persistence.rs`) | buffer of entries, sessions tracked | poll logs, flush every 5 s or 50 entries | SQLite |
| Import (`import.rs`) | none of its own; size and time of each file are in SQLite | at start and on request: reads the whole log of a session that has changed | SQLite, beside the persistence |
| Inbox (`ws/state_manager.rs`, `repository/inbox.rs`) | last state per instance, inbox rows | follows the state broadcast | SQLite, life-cycle broadcast |
| Tasks, chat, auth, notes, settings, search | SQLite | HTTP handlers | life-cycle broadcast |
| Server process (`main.rs`, `server.rs`, within the desktop application too) | `daemon.lock`, locked for its lifetime; `daemon.pid`, `daemon.port` | start, restart on another configuration, end | the command line, through the files |
| Command line (`cli/`) | raw terminal | start, find, stop the server; attach | the three files, the server |
| Web UI stores (`src/packages/crab_city_ui/src/lib/stores`) | socket, replay flag per terminal, lock, turns | reconnect, sync, dispatch | server |

What is hard about it:

- **No lock is held across an await.** A handler is a series of short pieces of
  work on several maps; handlers of other connections come in between, and the
  `select!` of the connection drops the handler at whatever await it is in when
  the socket ends. This is where presence, locks and sizes go wrong.
- **Channels overwrite or block.** Broadcasts drop their oldest items for slow
  receivers; bounded queues stop their senders, and with them the tasks.
- **The server guesses.** What Claude does is inferred from a log that is polled
  and from patterns on the screen; which log is whose is inferred from times,
  content and who was first.
- **Two writers share a table or a file.** Watcher and dismissals, tracker and
  import, commands and servers take several statements each without a transaction,
  fail at any of them, and find the rest when they start again.
- **Tasks outlive their reason.** A focus task or search that has been cancelled
  goes on until its next cancellation point, next to the one that replaced it.

What makes each modelled part correct is stated with its model below;
`PROJECT.json` lists the hazards, line by line, and which property covers each.

## The plan

In order of what users notice first.

| | Module | About | |
|---|---|---|---|
| 1 | `Lease`, `TerminalLock` | presence and the lock that decides who types; the lease that a lock is | done, proved, with the refinement |
| 2 | `Viewports` | which size the terminal has | done, proved |
| 3 | `OutputReplay` | what reaches a client's terminal | done, safety proved |
| 4 | `StateInference` | whether Claude is shown as working or waiting | done, safety proved |
| 5 | `SessionClaims` | which log belongs to which instance | done, safety proved |
| 6 | `LaggingCopy`, `Conversation`, `ConversationSync` | the watcher's, the driver's and the client's copies of the turns; the abstract copy both implement | done, both refinements proved |
| 7 | `InstanceList` | creation, names, deletion; state and life-cycle broadcasts; the client's list | done, proved |
| 8 | `Inbox` | the rows that follow the states | done, proved |
| 9 | `History` | buffer, flush, import, failure and restart | done, proved |
| 10 | `DaemonFiles` | who is the server, and who finds it | done, proved |
| 11 | `PtyActor` | write, resize, kill and exit of the child | left |
| 12 | pure algorithms against reference definitions: UTF-8 stream decoder, keyframe compaction, attribution queues | | left |
| 13 | the web UI's own copy of the lock (`stores/terminalLock.ts`) | | left |

Every safety property of the passing runs is proved. Proofs that would add most next:
an abstract specification of the client's list of instances, and of the inbox, with
their refinements; what `OutputReplay` promises across a change of focus.

Each component is one module with its CONSTANTS and their assumptions; an `MC`
module gives TLC its sets; a `_proof` module holds the theorems. No module uses
RECURSIVE. Definitions named `X_Fault` stand before `X` and are `X` with a
plausible mistake; each is used to see that a property notices it. Variables called
history in a comment (`torn`, `seen`, `cut`, ...) are read by properties only; they
record that something happened the property is not about.

## The models

### TerminalLock

`ws/state_manager.rs` (presence, `terminal_locks`) and the handlers in
`ws/handler.rs`. `todo[c]` is the rest of the handler connection `c` is running, as
a list of pieces: `leave`, `join`, `peek` and `settle` (the two halves of
`reconcile_terminal_lock_with_presence`, which copies presence and drops its guard
before it takes the other), `touch`, `read` and `send` (the two halves of
`broadcast_terminal_lock_update`). `Disconnect` empties `todo[c]` at any point;
`LeaveAll` and `ReleaseOne` are the clean-up. `Tick` is the clock.

| Code | Model |
|---|---|
| `presence`, `terminal_locks`, `trackers` | `presence`, `lock`, `registered` |
| `focused_instance` | `focused[c]` |
| the presence copy in a reconcile, the lock copied for a broadcast | `seen[c]`, `read[c]` |
| what clients were last told | `announced` |
| `updates` of the clean-up | `affected[c]` |

Abstractions: connections are authenticated; the answer to the sender itself is
left out (the broadcast follows it); a lock's age counts up to `Timeout` and no
further; broadcasts are delivered. `FocusedOnly` limits lock requests to the
instance the client shows, as the web UI does. `Serial` lets one handler run at a
time: properties that hold with it and fail without are intended and raced.

`Lease` is what a lock promises, without handlers, presence or announcements: it is
granted to a connection in its own user's name, ends at any time, is renewed, ages with
all others, and is granted over somebody else's only once that one has expired.
`LocksAreLeases` says that the locks implement it, whatever the interleaving.

### Viewports

`virtual_terminal/src/lib.rs` (viewports), the actor's commands and their callers.
A report of a size is two commands: change the viewport, and, if the answer says
that the effective dimensions changed, resize the PTY. `pending[c]` is the second
one; it is lost if the connection ends in between. `Serial` as above. Screen
contents are left out, and a viewport's client type, which nothing decides on.

### OutputReplay

One instance and one connection: the actor's broadcast of output, the focus tasks
(one generation `g` per Focus, with `pc`, `pos`, `carry`, `refresh`), the handler,
the connection's queue `wire` and the client's terminal. Output is a series of
numbered chunks; a replay covers the chunks produced when the actor answered.
`expect` is the chunk the client's terminal shows next: 0 from a Focus or
TerminalVisible, or a FocusAck, until a replay arrives (`awaitingReplay` of
`terminal.ts`). A cancelled task runs on until it is back in its `select!` and
that picks the cancellation. `Leaves` lets the client focus other instances.
`seen` records whether the program printed during a replay ("hurried") and whether
a lag cut a drain short ("lagged"): the code repeats nothing without the second,
and loses nothing without the first, in the same behaviours. Conversation messages
share the queue in the code and are in `ConversationSync`.

### Conversation, ConversationSync, LaggingCopy

`Conversation` is the server: Claude's log, the watcher (`InitialPoll`, `Poll`: late
tool results are merged into this poll's turns or those already emitted), its
channel to the actor (`SendSignal` waits while it is full), and `on_signal`
(`TakeSignal`), which changes the driver's copy and broadcasts the change in one
step. `ConversationSync` adds one connection: focus tasks that subscribe, send a
snapshot and forward broadcasts, with a lag that leads back to the snapshot;
`send_conversation_since`, each in a task of its own; the client's list, its 10 s
timer, and lost connections.

| Code | Model |
|---|---|
| the session's log; the watcher's position in it | `log`, `read`; `polled` after the first poll |
| `emitted_turns` / `conversation_turns` of the watcher | `turns` |
| the message about to be sent, the channel, the driver's `conversation_turns` | `out`, `signals`, `driver` |
| the broadcast channel of 64 | `events`, of which the last `EventCap` can be read |
| `instanceConversation` of the client | `shown` |

`LaggingCopy` is what all this promises: the source grows, by turns at its end and
results within; the copy is an earlier state of the source. `DriverFollows` says that
the driver's copy implements it for the watcher's, and never goes back;
`ClientFollows` that the client's implements it for the driver's, with `MayForget`,
for a snapshot on its way may be older than what a broadcast brought. The client is
followed as long as one sender feeds it: `raced` records that an answer to a
synchronisation, or a replaced task, sent next to the task.

`AsReadAtOnce` is about the watcher alone: however the log is split over polls, its
turns are those of one poll of everything it has read.

Abstractions: a turn is its number and the results merged into it; entries without
`uuid` are left out (a client appends those without a check); each tool result comes
once and after its turn; formatting is left out.

### StateInference

Log entries go through five stages: Claude writes them to `file`; a poll turns all
of `file` into `batch` (merging tool results into the same poll's tool use, or
making a late result an event of its own); the loop over the batch skips, holds or
sends; `signals` is the channel to the actor; `TakeSignal` is the state manager
with `apply_state_change` and `broadcast_state`. `Output` is a chunk of terminal
output with any pattern, at any time. Claude is external and writes in the order
`docs/claude-jsonl-protocol.md` gives.

Abstractions: an entry is its kind; an assistant entry uses one tool at most
(`tool` runs by itself, `ask` waits for the user); the driver's
`current_claude_state` always equals the manager's state and is folded into it; the
staleness flag is left out.

### SessionClaims

The watcher of every instance (`watcher`), the search of every client's focus
(`search`), the claims both write (`claim`), the signals to the actor (`told`) and
the session id clients see (`session`). `Look` and `Claim`, and `FocusLook`,
`FocusClaim` and `SetSession`, are apart because the code awaits between them. A
Focus aborts the client's old search at any of these points. `picker` and `chosen`
are the question to the user and the answer in the connection's channel.

Abstractions: all instances share a directory and are older than all files, so
every file is a candidate for each; typed content is a line or not yet a line, and
matches a file if Claude of this instance wrote it. Looking and checking content
are one step; what can change in between only adds candidates. Claude is external:
a file appears (`StartClaude`), gets a message, or is continued in another one.

### InstanceList

The HTTP requests of `handlers/instances.rs`, step by step between their awaits:
`Reserve`, `Spawn`/`SpawnFails`, `Store`, `Find`, `Announce` for a creation,
`Unregister`, `StopInstance`, `Delete` for a deletion, `SetName` and `Renamed`; the
actor's `ChangeState`; the two broadcast channels with their lags; the connection,
which reads its list, then subscribes to states, then to life-cycle messages; and the
client's list with `fetchInstances`. Requests about one instance may overlap. `torn`
is the set of instances about which something was lost or crossed; a new connection
empties it.

Abstractions: what is told of an instance is its custom name and its state, numbered
in the order they are given; reading the list is one step (`list` asks one actor
after the other); lists are not filtered by permission.

### Inbox

`start_inbox_watcher` as a task with a list of statements to do (`task`), its own idea
of the last state (`prev`, from the broadcasts in `heard`), the rows (`row`), the
dismissals in their three steps, and one client. The watcher's select and write are
two steps without a transaction. `excused` names instances whose question
may be missing (dismissed, or the first state heard), `failed` those with a failed
statement, `missed` those whose last state a lag took, and `inboxTorn` is what `torn` is
above. `RestartServer` loses everything but the rows.

### History

One session: its log, the tasks that track it (`Track`, `Poll`, `Push`, one per
instance of the project), the shared buffer, the three that flush it (`Drain` and
`Write` apart, since the buffer is emptied first and the write may fail), and one
import, statement by statement. A turn has one row, the first that was written
(`INSERT OR IGNORE`). `Stamp` stands for size and modification time, and `Crash` for
the end of the server at any point; `imported` is how much of the log the last import
that ended well had read. Two imports at once, soft deletion and titles are left out;
of several conversations of a session the import takes the oldest, as the index does.

### DaemonFiles

Server processes, each started once, and commands, each run any number of times, on
one data directory. `lockPath`, `pidFile` and `portFile` are the three files; a lock
is on a file, not on a name, so `file[s]` is the one server `s` opened, and the file
at `daemon.lock` may be another by the time it locks. Every access to a file is a
step; a server or command may die between any two. A health check waits while the
server is bound and does not serve. `Embedded` servers, those of the desktop
application, rebind to the port they find in `daemon.port` when they restart, and
write no files then. `unlinked` records that a server locked a file that had been removed;
`hidden` are the servers whose files others removed or overwrote.

Abstractions: ports are chosen by the system, so two servers never have the same one
(`--port 0`, the default); process ids are not reused; a file is written at once.
Attaching and what commands do with the server they found are left out.

### MCRecords

`InstanceList`, `Inbox`, `History` and `DaemonFiles` share no state, so `MCRecords` is
their disjoint sum: a behaviour is one of one of them while the others rest in their
initial states. Their type invariants are proved and not checked again by its runs. A sum costs what its parts cost together, where a product would cost
what they cost multiplied, and asks nothing the parts do not. Real composition is in
`ConversationSync`, which extends `Conversation`.

## The runs

A run that passes shows its properties for its bounds. A run that is expected to
find a violation shows, in a shortest trace, that the code does not do what a
comment or document says; `PROJECT.json` quotes both ("findings").

| Run | Shows |
|---|---|
| `lock` | Two users, two instances: the locks implement `Lease`; nobody takes over a live lock; presence follows focus and clean-up, also when a Focus is cut short, and a connection is present once. |
| `lock_serial` | With handlers that do not overlap the holder is a viewer, clients are told the truth, reconciles evict nobody present. |
| `lock_live` | A lock whose holder is gone expires, although the same user's other tab goes on typing. |
| `viewports` | The effective size fits exactly the clients that look, stays when nobody does, and is not held by a client that is gone. |
| `viewports_race` | The PTY is left at another size than the terminal: a client is dropped between the viewport command and the resize, or two resizes arrive in the other order. |
| `replay` | For a client that stays: unless the program prints during a replay no chunk is lost uncounted, however small the channel; unless a lag cuts a drain short nothing is shown twice, however busy the program; it ends up with everything. Every replaced focus task ends. |
| `replay_overshoot` | If the program prints during a replay, the drain loses output newer than it. |
| `conversation` | Turns and late results, split over polls, snapshots, broadcasts, lags, synchronisations and lost connections: the watcher's turns are those of one poll; no client sees a turn twice; the driver's copy implements `LaggingCopy` of the watcher's, the client's of the driver's; a client that stays ends up with all turns and results. |
| `inference` | However the log is cut into polls, merged, held and queued, and whatever the terminal shows: a turn's end is final, sticks, is published, and is in the end shown, with or without `turn_duration`. |
| `claims` | Two searches and deletion: claims last as long as their instance; what is watched or shown is claimed. |
| `claims_live` | With rotation and users' choices: the actor is told of the file that is read, and a claimed session is in the end watched, whoever claimed it. |
| `records` | A client's list is the server's once all has arrived, but for what was lost; a listed instance can be focused. The inbox is what the states call for, and clients show it. What an import read stays stored, whatever trackers, failures and stops do. One server has the directory, the files name it, and an orderly end leaves none. |

### What the code does not keep

Some statements, of comments and documents or simply without the conditions of the
properties above, were formalised and refuted on the way. Their configurations are
kept beside the runs; TLC ends each with a violation of its one property. They mark
where the properties above need their conditions.

| Configuration | Property | What happens |
|---|---|---|
| `TerminalLock_ghost.cfg` | `HolderPresentWhenQuiet` | A connection dropped between leaving an instance and reconciling it keeps that instance's lock after its clean-up (`ws/handler.rs:685`). |
| `TerminalLock_stale.cfg` | `ReconcileSparesPresentHolder` | A reconcile acts on a presence copy older than the holder's arrival (`ws/state_manager.rs:657`). |
| `TerminalLock_announce.cfg` | `AnnouncedWhenQuiet` | Two handlers read the lock and broadcast in the other order (`ws/handler.rs:760`). |
| `TerminalLock_tabs.cfg` | `InputOfHolderRefreshes` | Input from the holder's other tab does not refresh the lock, although the comment says so (`ws/state_manager.rs:614`). |
| `OutputReplay_laggeddrain.cfg` | `NeverRepeated` | `try_recv` also ends the drain with `Lagged`; chunks of the replay follow it (`ws/focus.rs:356`). |
| `OutputReplay_refocus.cfg` | `NeverRepeated` | A cancelled task delivers output after the replay of its successor (`ws/handler.rs:198`). |
| `ConversationSync_askhole.cfg` | `AlwaysFollows` | An older snapshot replaces the client's list between a question and its answer; the answer then follows a turn the list no longer has (`ws/focus.rs:110`). |
| `ConversationSync_refocushole.cfg` | `AlwaysFollows` | The snapshot of a replaced task arrives after that of its successor; the next broadcast leaves a hole (`ws/focus.rs:274`). |
| `ConversationSync_silence.cfg` | `AskAnswered` | A synchronisation that finds nothing new is not answered; the client takes the connection for dead and reconnects. |
| `StateInference_flash.cfg` | `NoGreenFlash` | Claude pauses for longer than a poll in the middle of a turn and is shown as waiting (`ws/conversation_watcher.rs:505`). |
| `StateInference_answer.cfg` | `AnswerEndsWait` | A question and its answer are read by one poll: the answer is merged, the question's signal stays the last (`ws/merging_watcher.rs:66`). |
| `SessionClaims_steal.cfg` | `ClaimsAreKept` | A rotation takes over another instance's claim (`ws/conversation_watcher.rs:491`). |
| `SessionClaims_refused.cfg` | `ShownIsClaimed` | Two users choose one file for two instances; the refused claim is shown all the same (`ws/conversation_watcher.rs:667`). |
| `SessionClaims_abort.cfg` | `WatchedIsShown` | A search is aborted between claim and session id; the session is read and never shown (`ws/focus.rs:421`). |
| `SessionClaims_leak.cfg` | `DeletedHoldsNothing` | A claim is made for an instance that was unregistered meanwhile (`ws/conversation_watcher.rs:265`). |
| `SessionClaims_choice.cfg` | `ChoiceReachesItsInstance` | A selection is used for the instance focused since (`ws/conversation_watcher.rs:662`). |

More of the kind stand in the modules and fail as soon as they are added to a
configuration there is:

- `ReconcileGrantsSoleUser` (`TerminalLock.cfg`): the holder leaves, the lock is
  cleared, and the sole user left is not granted it (`ws/state_manager.rs:668`);
- `RespondingIsShown` (`StateInference.cfg`): Thinking to Responding is no change
  of `ProcessState` and is not published (`claude_driver.rs:56`);
- `OneSession` and `MessagesMatch` (`SessionClaims_refused.cfg`, `_claims.cfg`): watcher
  and search claim a file each for one instance; the search claims a file whose
  messages were sent elsewhere (`ws/conversation_watcher.rs:597`);
- `ListAlwaysInStep` (`Records.cfg`): a client's list stays wrong about what happened
  between its list and its subscriptions, was lost to a lag, which is ignored, or
  crossed on two channels (`ws/handler.rs:71`, `:149`);
- `EveryTurnAlwaysStored` (`Records.cfg`): an import that ends between
  `create_conversation`, which writes the stamp, and its entries leaves a
  conversation later imports take for complete (`import.rs:377`);
- `AnswersAreStored` (`Records.cfg`): a turn that was stored without its tool results
  keeps that row, `INSERT OR IGNORE`, although late results are merged (`persistence.rs:71`);
- `OneServerAlways` (`DaemonFiles.cfg`): a server opens `daemon.lock`, the one that holds
  it removes it and ends, a third creates a new one: both lock theirs (`server.rs:480`);
- `AlwaysNamed` (`DaemonFiles.cfg`): a command that read a dead server's pid removes the
  files a new one has written since, which is then not found (`cli/daemon.rs:76`); an
  embedded server that restarts without its port file takes another port and writes
  no file (`server.rs:767`);
- `PidServesPort` (`DaemonFiles.cfg`): a command reads the pid of one server and the port
  of the next, and would stop the wrong one.

Seen on the way, with no property of its own: a row of the inbox outlives its
instance and a restart; an empty inbox is not sent to a client that connects
(`ws/handler.rs:88`), which keeps its old items, although `inbox.ts` calls the server
the single source of truth; `turn_count` exceeds one only after a statement failed.

Larger instances than the runs', which pass: `ConversationSync_long.cfg`
(three turns, a lagging client), `ConversationSync_reconnect.cfg` (two focus tasks with
reconnections), `Records_two.cfg` (two listed instances, two trackers, three servers;
3.7 million states, four minutes), `DaemonFiles.cfg` (three servers and a command;
12 million states, three minutes).

### Bounds

- `TerminalLock`: two instances for a Focus that leaves one; `lock` has a
  connection of each of two users, `lock_live` two tabs of one user, `lock_serial`
  both. A timeout of 1 or 2 ticks tells fresh, ageing and expired apart. All state
  is finite without further bounds.
- `Viewports`: two heights and two widths, such that the smallest of each can come
  from different clients; three clients.
- `OutputReplay`: `MaxChunks` exceeds `Cap`, so lags happen, in the loop and in the
  drain; queues of 1 fill up; two generations are one replacement, all that a task
  can see of later ones. `MaxVisible` bounds refresh requests.
- `ConversationSync`: two turns and one late result are a snapshot, a delta and an
  update; channels of one are full or lag at once; two focus tasks are one
  replacement or reconnection, one question to synchronise overlaps either. Lost
  connections are not bounded, save by the focus tasks that follow.
- `StateInference`: seven entries are a prompt, a question with its answer, text
  and `turn_duration`, and the start of the next turn; a channel of one is always
  full when it matters; three chunks go through the boot phase and a tool.
- `SessionClaims`: two instances compete for two files, which are enough for a
  question to the user, for a rotation, and for a rotation into a file the other
  instance has found; one client searches next to both watchers.

- `Records`: one listed instance whose life, list and fetches overlap; two instances of
  the inbox, since the watcher serves them one after the other, with channels of one
  and four changes of state; one tracker beside the timer and the import, two turns,
  a batch of two, two conversations; two servers, one of them embedded, and a command.
  Connections, requests, failures, dismissals, fetches, imports and stops are not bounded.

The runs stop by design (connections end, counters reach their bounds), so those
that do turn deadlock checking off.

### Fairness

- `TerminalLock`: weak fairness of the clock, of every handler's next piece and of
  the clean-up: tokio polls a ready task. Clients owe nothing.
- `OutputReplay`: weak fairness of every task, of delivery and of the handler's own
  send; strong fairness of `Refresh` and `Stop`, because `select!` picks at random
  among the branches that are ready: a request or cancellation that stays ready is
  picked although output is ready every time too.
- `ConversationSync`: weak fairness of the polls that find something, the channel, the
  actor, focus tasks, answers and delivery; strong fairness of `Stop`, as above. A
  first poll may fail, but is repeated until it succeeds. Claude, the client's
  requests and the network owe nothing.
- `StateInference`: weak fairness of the watcher's steps and of the actor taking
  signals. Claude and the terminal owe nothing.
- `SessionClaims`: weak fairness of watchers, searches, actors and of a deletion
  that has begun. Claude, users and clients owe nothing.

## The proofs

TLC shows the properties for the sets above; TLAPS proves these for every value of
the constants that meets the named assumptions.

| Theorem | Says | How |
|---|---|---|
| `TerminalLock_proof`: `TypeCorrect`, `HolderCorrect`, `TimeoutRespected` | types, one lock at most; a lock's user is its connection's; no takeover before the timeout | `LockUpdates` lists what a step can do to a lock: nothing, ageing, clearing, touching, or a fresh lock where `CanAcquire` or no lock was. The three follow from it. |
| `LeasesCorrect` | the locks implement `Lease` | `LeaseStep` takes the actions one by one: each renews, ends or grants one lock, ages all, or changes none. A grant by `Settle` is in the name of the only user of the snapshot, whose connection it takes, however old the snapshot is. |
| under `Serial`: `AnnouncedCorrect`, `ReconcileSpares`, and with `FocusedOnly` `HolderPresent` | clients are told the truth; a reconcile evicts nobody present; the holder is a viewer | `SerialInv`: one connection is busy, and what it has still to do is one of the lists that handlers start with, or an end of one. So its snapshot is the presence and what it has read is the holder, and a change that is not announced has a `send` ahead. `HoldersDue`: a holder who is absent has a `settle` ahead or a clean-up that will release. |
| `PresenceCorrect`, `PresentOnceCorrect` | presence follows focus; present once | `PresenceInv` is stronger: it says for each shape of `todo[c]` (leave still to do, join still to do, neither) where `c` is present, and that the rest of the list has no further leave or join. Without it a half-done Focus would not be covered. |
| `Viewports_proof`: `TypeCorrect`, `EffectiveCorrect`, `KeptCorrect`, `NoGhosts` | types; the size fits the clients that look; it stays when nobody does; no ghosts | The minimum of a set of naturals exists by well-foundedness; `ChangeFits` says what each command leaves. |
| under `Serial`: `PtyFollows` | the PTY has the screen's size when nothing is in progress | `SerialInv`: one connection at most is between its commands, and the second one will make the PTY what the screen already is. |
| `StateInference_proof`: `InvCorrect`, `TypeCorrect`, `PublishedCorrect`, `SticksCorrect` | types and the agreement of the caches; after `turn_duration` only a user entry ends the wait | `Inv` adds that the driver's state is the image of the manager's and of the published one, and that definitive idle implies waiting. |
| `DurationCorrect` | a processed `turn_duration` leaves Claude known to wait | `DurationInv` follows the entry through the stages: when the log ends in `turn_duration`, it is the last thing of substance in `file`, or in `batch`, or in `signals`, or it has been processed and the later stages hold nothing that undoes it; held text is released only ahead of it. |
| `SessionClaims_proof`: `TypeCorrect`; `KeptCorrect`, `WatchedCorrect` | types; without continuation, claims end only with their instance, and what is watched is claimed | `ClaimStep`: a claim changes only in `Unregister`, after which the instance is never up again. So whatever was claimed for an instance that is up stays claimed. |
| `ShownCorrect` | without continuation and selection, what is shown is claimed | every session id on its way to `session`, in `told` or in a search about to set it, is claimed (`ToldClaimed`, `FoundClaimed`). That the two hypotheses are needed is shown by `SessionClaims_steal.cfg` and `SessionClaims_refused.cfg`. |
| `LastToldCorrect` | the last file the actor has still to hear of is the one that is read, however often the log is rotated | Inductive as it stands: a watcher that changes its file queues the new one behind all it has told before (`LastToldStep`). |
| `OutputReplay_proof`: `TypeCorrect`, `OneUncancelledCorrect` | types, the queue's capacity; at most the current focus task is not cancelled | `TypeHandler`, `TypeTask`: one lemma for each who sends; a Focus cancels the one before in the step that starts the next. |
| `NoRepeatCorrect`, `NoSilentLossCorrect` | a client that stays is shown nothing twice unless a lag cut a drain short, and loses nothing uncounted unless the program printed during a replay | One invariant, `FedInv(side)`, read as an upper and as a lower bound: a chain of bounds leads along the wire from the chunk the client expects to the one its task will send next (`Fits`: what a message does to a bound; `Held`: what the task's place in its loop says of the end of the chain). A replay may only lower or raise the chain as the side allows; what the two excuses name is exactly the step that breaks it. |
| `TerminalUpToDateCorrect` | with the wire empty and all read, the terminal shows what was printed | both sides of `FedInv` at once |
| `Conversation_proof`: `ServerInvCorrect`, `DriverFollowsCorrect`, `DriverUpToDateCorrect` | the driver's copy implements `LaggingCopy`; with nothing on its way it is the watcher's | `ServerInv`: a chain of copies leads from the driver's, by applying the messages of the channel in order, to the watcher's, each an earlier state of the next. Sending makes the chain longer (`ChainExtends`), taking a message drops its head (`ChainAdvances`). Every step is then a `Grow`, a `Show` or a stutter; the clients' steps are stutters (`ServerOnly`). |
| `AsReadAtOnceCorrect` | the watcher's turns do not depend on how the log is split over polls | `ReadInv` adds what Claude's log is: no entry twice, turns in order, a result after its turn (`LogInv`). So the turns in what has been read are the first ones (`Prefix`, `FirstTurns`), the ones a poll finds follow them, and a result found belongs to a turn of this poll or of an earlier one (`PollReads`). |
| `SyncTypeCorrect`, `NoDuplicatesCorrect` | types, the capacities of both queues; no turn twice at the client | Turns are numbered by their place in the watcher's list and in every copy (`NumberInv`); so no message on its way, in a task, an answer or the wire names a turn twice (`DistinctInv`), and the client adds only turns it does not have. `Extended` picks these by their positions: the prover cannot expand `SelectSeq`. |
| `ClientFollowsCorrect` | fed by one sender, the client's list implements `LaggingCopy` of the driver's | `FollowInv`: there is a history of the driver's copies, one per broadcast; the wire leads the client, message by message, to one that is no older than the last broadcast its task received (`Caught`). `Reads` is the heart of it: a broadcast applied to that copy or a later one gives a copy of the history, whether the subscription came before the snapshot or a lag lay in between. |
| `ClientUpToDateCorrect`, `ShownIsWrittenCorrect`, `WholeWayCorrect` | with nothing on its way the client has the watcher's turns; it shows only what Claude wrote, in its place; from watcher to browser there is one lagging copy | The invariants above, end to end; the two refinements compose since one copy precedes the other (`PrecedesTransitive`). |
| `Records_proof`: `ListTypeCorrect`, `ListedCorrect`, `NamesCorrect` | types; what is listed with no request at work can be focused; a name borne once stays reserved | `LifeInv` follows an instance through creation and deletion that overlap: listed only once stored, deleted only once listed, tracked when its creation is over unless it is being deleted. |
| `ListInStepCorrect` | once all has arrived, a client's list is the server's, but for what was lost or crossed | `LearnInv`: requests about an instance do not overlap unless it is torn (`Ordered`), and the last word on an instance, looked for in the channel, then on the wire, then in the list, is the server's (`WordOn`, `NewsInv`); a list being fetched is as fresh as what was told when it was read (`FreshInv`). |
| `Inbox_proof`: `InboxTypeCorrect`, `InStepCorrect` | types; clients show the rows there are | `WordInv`: the last word on an instance, in the channel, on the wire or shown, is its row, unless it is torn, being dismissed or has just been written. `CountInv` bounds the counters for the type. |
| `FollowsStateCorrect` | the row is one that the state calls for | `FollowInv`: the last state on its way to the watcher is the state, unless a lag took it; `RowInv`: the row is what the last state heard calls for once the statements still ahead have run. |
| `Records_proof`: `HistoryTypeCorrect`, `StoredCorrect` | types; what an import that ended well had read stays stored | `StoredInv`: a stamp that is the log's, or the one the import has just read, stands for turns that are in the table. `ImportInv`: stamps are never newer than the log, and an import's reading is at least as new as its stamp. A stamp never comes back, since the log only grows: an old one is never taken for current. |
| `Records_proof`: `DaemonTypeCorrect`, `OneServerCorrect`, `NamedCorrect`, `NothingLingersCorrect` | types; one server has the directory; the files name it; an orderly end leaves none behind | `LockInv`: servers that hold a lock hold different files, and while no removed file was locked, each that may still touch the directory holds the one at `daemon.lock`, so there is one (`OneActive`). `NamedInv` follows from it: whoever else writes or removes a file is the only active server, or a command, which hides the server named. `OwedInv`: the server the pid file names will still remove it, and some server will remove the port file; a server that ends and leaves the files does so because another one's pid is there, which owes both. |

Assumptions: `UserOfAssumption`, `TimeoutAssumption`, `NoOneAssumption`
(`TerminalLock`); `RowsAssumption`, `ColsAssumption` (`Viewports`);
`ToolsAssumption`, `CapAssumption` (`StateInference`); `NoneAssumption`
(`SessionClaims`); `CapAssumption`, `BoundAssumption` (`OutputReplay`, `Conversation`),
`ClientAssumption` (`ConversationSync`); `NameAssumption`, `CapAssumption`,
`ListBoundAssumption` (`InstanceList`); `WriterAssumption`, `StampAssumption`,
`HistoryBoundAssumption` (`History`); `InboxAssumption` (`Inbox`); `DaemonAssumption`
(`DaemonFiles`). They say that markers are no members of the sets, and numbers are
numbers, with capacities of at least one. `Serial` and `FocusedOnly` are hypotheses of the theorems that name
them: without `Serial` TLC refutes the properties, as `TerminalLock_ghost.cfg` and the
others above show; the web UI sends lock messages only for the instance it shows
(`FocusedOnly`). The bounds of the models (`MaxTurns` and the like) are parameters of
the theorems, so these hold for all.

Only model-checked: the liveness properties `AbandonedLockExpires`, `CatchesUp`,
`OldTasksEnd`, `ClientCatchesUp`, `TurnEndIsShown` and `ClaimedIsWatched`, for TLAPS does
not reason about fairness with ENABLED. The theorems about queues that are empty
(`ClientUpToDate`, `TerminalUpToDate`, `DriverUpToDate`) are their safety half: what is
left to TLC is that the queues do get empty. The type invariants of `Viewports`,
`OutputReplay`, `SessionClaims` and of the parts of `MCRecords` are proved and
therefore not among the runs' properties, nor is `HolderIsOneOfUser`, which
`LocksAreLeases` includes.

## What is not modelled

`PROJECT.json` lists every component with its status. Left out for good: SQL, git and
file browsing, screen contents and escape sequences, password handling, chat, tasks
and settings (rows and a broadcast), styling and view state: sequential code, or
storage behind single statements, without a protocol TLC could say something about.
They are most of the code, so the models cover a small share of its lines; what they
cover is where several tasks, processes or writers meet. Left for later, with their
hazards noted: the parts the plan names as left. In the modelled parts, left out are:

- the second `SessionSelect` that finds the channel full and stops the handler
  (`ws/handler.rs:435`): the model's user waits until there is room;
- candidates that differ because instances were created at different times;
- several tool uses in one assistant entry;
- entries of the log without a `uuid`, and two imports at once;
- the lobby, chat and task broadcasts that share the life-cycle channel.

Hazards seen in parts that are not modelled, beside those in `PROJECT.json`:
attributions beyond 50 push out the oldest (`ws/state_manager.rs:522`); the exit of the
child is noticed only after the next command (`pty_manager/src/pty.rs:331`), and SIGINT
ends the PTY actor although the child may run on (`:406`); a task is sent before its
dispatch is stored (`handlers/tasks.rs:202`); the uses of an invitation are counted after
the account is created (`auth.rs:433`).
