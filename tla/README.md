# teammate-mcp: a verification development

TLA+ models of the message-delivery machinery of teammate-mcp, TLC
configurations that check them on small instances, and TLAPS proofs of the
properties that matter most. Paths are relative to the repository root; source
files live under `src/teammate_mcp/` unless another directory is named.

## The system

teammate-mcp lets agent sessions (Claude panes in iTerm, Codex threads) send
each other messages. There is no central broker. Every session runs its own MCP
server process; these, one mailbox worker, one watchdog, an optional daemon, CLI
commands and editor hooks share files under `~/.teammate-mcp` and coordinate
with `flock`. Most of what can go wrong is therefore an interleaving of
processes over files, or the death of one of them between two writes.

| Component | State it keeps | Operations | Hard part |
| --- | --- | --- | --- |
| Mailbox delivery (`mailbox_worker.py`, `codex_transport.py`) | `delivery/<job>.json`, `connection.json`, per-job locks | `scan_once`, `deliver_record`, `deliver`, `ensure_worker` | timeouts against late answers, crash after dispatch, stale endpoints |
| Registry (`registry.py`, parts of `server.py`) | `registry.json` under one lock | `register`, `register_mailbox`, `unregister`, `prune_dead`, `configure_mailbox_delivery` | addresses that change owner while mail is on its way |
| Ask (`server._ask_async`) | `inbox/`, `history/` | mailbox, native channel and keystroke paths | compare-and-write under the registry lock; fallback rewrites |
| Conversation (`server.reply`, `mark_processed`) | `responses/`, `processed/` | `reply`, `_save_processed_receipt` | reply sent but not recorded; duplicate acknowledgements |
| Native channel (`claude_channel.py`) | `channel` record, `channel_delivery` in envelopes | `connect`, `confirm`, `scan_once` | two pumps at a reconnect |
| Pane delivery (`server.py`, `pane_delivery.py`, `watcher.py`, `hooks/`) | send lock, lease and `pane_delivery` in envelopes | keystroke injection, watchdog wake, hook drains | four actors that may all hand over one message |
| Queue (`queue.py`) | `pending/`, `inflight/`, `done/`, `failed/` | `enqueue`, `claim`, `complete`, `fail` | completing what was never claimed |
| Singletons (`mailbox_worker.main`, `watcher.py`, `daemon.py`) | pid files, heartbeats, lock files | start, take over, stop | two starts, a stale heartbeat |
| Spawn ledger (`cli.py`, `spawn_track.py`) | `spawn_ledger.jsonl`, `spawned.jsonl` | spawn, despawn, close-pane | lost updates |
| Identity (`session_identity.py`, `server._bootstrap_caller`) | request metadata, startup pane | bootstrap | undoing an explicit disable |
| iTerm automation, CLI printing, event log, poll guard | - | - | pure I/O, not modelled |

How they meet: `ask` writes an envelope into the recipient's `inbox/`; the
worker (Codex threads), a channel pump (Claude with a channel), or a keystroke
sender, a hook or the watchdog (panes) hands it over; the receiver answers with
`reply`, which is an `ask` in the other direction plus a receipt in
`processed/`. Registry changes move or orphan mailboxes under all of them.

What makes each component correct, in a sentence: a message is handed over at
most once and only to the session it was written for; what the files say about
it is true; nothing that was handled comes back; no message stays stuck while
its receiver is available; an answer, once complete, is never lost; there is
one worker, one watchdog and one daemon.

## Modules

| Module | What it is |
| --- | --- |
| `DeliveryContract` | what automatic delivery promises about each message, without files, locks, worker or attempts |
| `MailboxDelivery` | the delivery system of one Codex address: registry record, senders, worker, receiver's tools, app-server |
| `ReplyContract` | what answering promises about one question: one answer, chosen before it is sent, and none other ever reported |
| `AddressContract` | what the registry promises about addresses: one for each agent, kept ones go to nobody else before they are freed, a thread's mail is nobody else's |
| `CallContract` | what a call about a label promises, carried out by the daemon, the caller or both |
| `Conversation` | answering one question: `reply`, the response record, the writers of a receipt, the drain hook |
| `ChannelPump` | native delivery to the Claude sessions that claim one address: connections, registry record, mailbox |
| `PaneDelivery` | keystroke delivery to the panes that own one address: senders, watchdog, hooks, acknowledgements |
| `PaneRegistry` | `registry.json` with panes and threads together: registering, pruning, archiving |
| `Supervision` | how the watchdog and the mailbox worker are kept running |
| `Daemon` | the registry daemon, launchd and the clients' fallback |
| `Spawning` | spawn, despawn and close-pane around the spawn ledger, the registry and the panes |
| `X_proofs` | the inductive invariants of module `X` and their TLAPS proofs |
| `MCX` | symmetry sets of module `X` for TLC |

`MailboxDelivery`, `ChannelPump` and `PaneDelivery` are the three ways an
envelope that `ask` wrote reaches a session; `Conversation` starts where the
session answers. `PaneRegistry` is what decides under all of them who owns an
address, `Supervision` what keeps two of their actors alive, `Daemon` one of the
ways the registry is written, and `Spawning` how panes come and go. The modules
share no variables (what `PaneRegistry` takes for granted of the daemon, that a
registration its client gave up on may be written once more, later and whole, is
what `CallContract` says and `Daemon` implements): each has the files its operations touch, and the others'
steps as far as they show in those files. An acknowledgement, for the
transports, is the step that takes the envelope away; a registration, for
`PaneDelivery`, is an address that moves; the watchdog, there, is down or up.

### MailboxDelivery

One address (label), any number of messages and of threads that may own it.
A step is what one process does between two points where another process's
write can come in between: awaits, separate file writes, lock acquisitions.

| Variable | In the code |
| --- | --- |
| `endpoint`, `registrations` | the label's record in `registry.json`; `stamp` is `registered_at`, which each `register_mailbox` renews. Code compares whole records, so does the model |
| `regLock` | `registry._exclusive_lock`; `unregister` holds it from the rename of the mailbox to the removal of the label, `ask` from its comparison to the write of the envelope |
| `sender[j]` | the process in `_ask_async` for message `j`, with the endpoint it looked up |
| `box[j]`, `recipient[j]` | where the envelope is, and its `recipient_thread_id` |
| `delivery[j]`, `connBackoff` | `delivery/<j>.json` (state, attempts, whether `retry_at` is in the future), and `connection.json`'s `retry_at` |
| `deliveryLock[j]`, `receiptLock[j]` | `locks/<j>.delivery.lock` (worker, `retry_delivery`) and `locks/<j>.lock` (worker while dispatching, `mark_processed`) |
| `worker` | the mailbox worker: `pc`, endpoint and pending list of the scan, current message, attempts read, method, answer, result |
| `threadSt`, `reachable`, `flight`, `accepted` | the app-server, external: thread states, its socket, undecided requests, and a history of which turns contain which message |

The worker's program counter follows `scan_once` (`idle`, `connected`) and
`deliver_record` with `deliver`: `resolved` (registry rechecked), `probing`
(`thread/read`), `turns` (`thread/turns/list`), `guard` and `mark`
(`before_dispatch`: checks, then the write of `dispatching`), `send`, `await`,
`write` (the result). It can die at each of them; locks are released, files and
requests stay. The app-server may accept, reject or lose a request at any time
later, whether or not the worker still waits.

Abstractions: message text, conversation ids, `cwd` and `socket_path` are left
out; backoff lengths are a flag and a step of the clock; a pane-era message
left in the inbox has no recipient thread; `configure_mailbox_delivery` takes
effect in one step, because its write happens only if the record is the one it
looked up. After `unregister` has renamed the mailbox the lock files are new
ones; the model keeps the old locks, which protect nothing any more, since
every path of a moved message is gone. The read of an envelope that is
unlinked between `path.exists()` and `read_text()` (the scan ends with a
connection backoff) is not modelled.

`ContractStatus` maps a state to the contract: a message is *offered* from the
moment `before_dispatch` has passed its checks until its request is decided,
*unresolved* when the file says `dispatching` or `uncertain` and nothing is
under way, *held* while it can be tried. The implementation run and the
contract together say that an unresolved message is never offered again.

### Conversation

One question in its receiver's mailbox, any number of `reply` calls
(`Replies`, each with a text of its own) and of other calls that write a
receipt (`Acks`: `mark_processed`, the CLI's `mark` and `drain`, the watchdog).

| Variable | In the code |
| --- | --- |
| `inbox`, `receipt` | `inbox/<q>.json` exists; `processed/<q>.json` with its `terminal` |
| `response` | `responses/<q>.json`: state and text |
| `posted` | history: replies written into the questioner's inbox |
| `replyLock`, `receiptLock` | `locks/<q>.reply.lock` (taken without waiting) and `locks/<q>.lock` |
| `call[w]` | where call `w` is, and the terminal it is about to write |
| `hook` | `user_prompt_submit_inbox_drain.py` between reading, writing and unlinking |
| `sender` | `_ask_async` of the questioner, which types the question into the receiver's pane: its writes and unlinks of the envelope |

`reply` goes through `mark` (the record says dispatching), `send`, `sent` or
`rejected`, then through the three steps of `_save_processed_receipt`:
`receipt` (lock, read), `read` (write), `written` (unlink). A call may raise or
die at any step, which frees its locks; one that stops at `written` is `torn`
and leaves receipt and envelope side by side. Hook and sender take part only under
`TEAMMATE_LEGACY_PANE_INPUT`, and both are `off` otherwise. The sender takes the
send lock (which the hook respects), looks once whether the question is still
there, then rewrites the envelope (lease, mark, restored copy, fallback) and
unlinks it without the receipt lock and without a receipt, whatever calls and
hook do meanwhile; so a handled question need not have a receipt, and may come
back. The reply's own delivery is an
`ask`, reduced to the write it makes or fails to make. Left out: archiving the
mailbox of an address (in `PaneRegistry`), the watchdog's own writes of the
envelope (in `PaneDelivery`), and the hook's write being visible half-done.

For `ReplyContract` the question is *open* while the response record is missing
or says failed, *claimed* while it says dispatching, *answered* when it says
sent; what is delivered is what was posted, and what is reported is the reply in
a receipt of a sent answer. Claiming before sending, withdrawing only while
nothing is delivered, and a receipt that repeats the record are then steps that
the contract allows and their variants are not.

### ChannelPump

One address, any number of messages, of sessions that may register it, and of
connections (`Pumps`), each in the MCP server process of the session
`pump[p].session`.

| Variable | In the code |
| --- | --- |
| `record` | the label's owner (`session_id` or `claude_owner`) and `channel` in `registry.json` |
| `box[j]`, `recipient[j]`, `mail[j]` | where the envelope is, its `recipient_session_id` or `recipient_claude_owner`, its `channel_delivery` state |
| `sendLock`, `receiptLock[j]` | `.send-lock` and `locks/<j>.lock` |
| `acks`, `handled` | messages whose receipt is being written; history: messages acknowledged so far |
| `orphaned` | history: messages a pump was past its check for when their mailbox was renamed |
| `pump[p]` | the task: `ready`, the rest of the scan, the message at hand, the mark it writes next |
| `events[j][p]` | history: notifications that carried `j` on connection `p` |

The program counter follows `_ensure_channel`, `connect`, `run`, `scan_once`
and `_update_pending`; a step ends where another process's write can come in
between. `send_notification` may raise with or without the session getting the
event. A task can be cancelled at its awaits, a process killed anywhere.
`Headless` is the address of a Claude process without a pane, whose reconnect
rewrites the record. A connection may start beside a running one, as when an old
MCP process outlives the session's reconnect; `beside` remembers that it did.
`unregister` of a channel address renames the mailbox with its lock files: locks
held on the old files protect nothing in the new ones, which the model says by
freeing them. An acknowledgement goes ahead whether or not the envelope is still
there, as `_save_processed_receipt` does, one at a time for each message: it
may therefore come between the check of a pump and its write once the mailbox
was renamed in between. Left out: the ten-second age and process test of
`channel_ready(record)`, which only words the answer of `ask`; delivery leases
(keystroke delivery is off); labels from `TEAMMATE_LABEL` without a record. The
existence check and the read of the envelope in `_update_pending_locked` are
one step.

### PaneDelivery

One address, with `TEAMMATE_LEGACY_PANE_INPUT` on; each message has a sending
process of its own.

| Variable | In the code |
| --- | --- |
| `owner`, `open` | the pane registered under the address, and the panes that exist |
| `screen` | what the owner's screen looks like to `_wake_action` and the capture heuristics |
| `box[j]`, `mail[j]`, `receipt[j]` | the envelope, its `delivery_lease` and `pane_delivery`, and `processed/` |
| `sendLock` | `.send-lock` of the address |
| `sender[j]` | `_ask_async`: lock, lease renewal, stabilisation, mark, injection, early unlink, verification, re-creation, and what follows the lock |
| `watch`, `starving` | the watchdog: `_scan_once`, `_wake` step by step, the pane whose `TERM_SESSION_ID` it inherited and never wakes (`self`), and its count of scans of a busy pane |
| `hook` | the inbox hook: what it still has to copy and unlink, and what it has in hand |
| `stuck[j]`, `handed[j][p]` | the compose box that holds `j` unsubmitted; history of what agents were given |
| `late`, `cut` | history: leases that ran out on a holder at work; messages a killed hook had unlinked |

What an actor reads off the screen is a free choice: the code's heuristics may
err either way. A user may press Enter on a stuck body, start typing, or
submit, which fires the hook. A tool call may be cancelled while it awaits the
thread that types (`server.py:1022`): the thread has not started, or runs to its
end, and what should follow it does not happen, so that the lease stays until it
lapses (`Cancelled`, `LeaseLapses`). Left out: the switch of an address to a
channel while a sender works, the watchdog's cooldown, envelopes that are not
JSON, and the typing back of a user's draft.

### PaneRegistry

| Variable | In the code |
| --- | --- |
| `reg[l]` | the record of a label: kind, owner, age in ticks of 30 s |
| `mail[l]` | whose unread mail lies in the mailbox of `l` |
| `cache`, `cacheLock` | the alive-sessions file and its refresh lock |
| `pruner[k]` | `prune_dead`: from the reading of the living panes to the archiving after the registry lock |
| `comer[p]` | a process that registers pane `p`, between choosing a label and writing it |
| `late` | registrations the daemon still has from clients that gave up |

A change of `registry.json` is one step, since it is made under
`_exclusive_lock`; what is decided outside it is not. Labels are numbers, as
automatic labels are in effect. `iTerm` may leave out a pane it has just opened.
Only records with a session id have an age: nothing reads `registered_at` of the
others.

For `AddressContract` an address is *kept* for its owner while its record is a
mailbox or has a connected channel. `register` takes an address and gives up the
agent's others, a connection keeps it, `unregister` and `prune_dead` free it;
what they archive under the registry lock goes with the address, and what
`prune_dead` archives later is a step of its own.

### Supervision and Daemon

`Supervision` has one service, watchdog or worker (`service`), because both
follow one scheme: pid file and heartbeat (`pidFile`, `beat`), a run lock
(`runLock`), processes (`proc`, `version`) and callers of
`ensure_watchdog_running` or `ensure_worker` (`caller`, `ensureLock`). Only the
watchdog is started under a lock and replaced when its wake text is old. Pids
are given out again, also to other programs.

`Daemon` follows `_serve` step by step (`daemon[p]`): look at the pid file,
remove the socket, bind, write the pid file, and on exit the same backwards.
launchd (`job`) starts it whenever it ends; somebody may start another one. A
client (`client[c]`) looks for the socket, sends, and after five seconds does a
registration itself; an unregister is left at that. A request may be carried out
and its answer lost, when the daemon ends in between. For `CallContract` a call
is *late* when it was carried out and its request is still there, or its client
has yet to learn that there will be no answer, or to fall back.

### Spawning

| Variable | In the code |
| --- | --- |
| `pane[p]`, `env[p]` | an iTerm pane and its `TEAMMATE_LABEL` |
| `reg[l]` | the registry's pane, or mailbox, under a label |
| `ledger[l]` | the last entry of `spawn_ledger.jsonl` for a label, which is what `_load_spawn_ledger` returns |
| `call[c]` | a command: what it has read (`book`, `target`) and has to do (`todo`) |
| `spawned`, `orderly`, `fresh` | history: panes opened by spawn; whether commands ran one at a time and to their end; whether labels given were unused |

Each file operation, each osascript call and each registry operation of a
command is a step. Left out: `--mode`, anchors and window bounds, boot prompts,
the text of the AppleScript, and `spawned.jsonl`, which no command of these
reads.

## Runs

| Run | Instance | Question |
| --- | --- | --- |
| `mailbox_owners` | 1 message, 2 threads, 2 registrations, 1 crash, users' turns at any time, 3 attempts, both policies | Can a change of owner, policy or registration at any step misdirect, repeat or resurrect a message? |
| `mailbox_queue` | 2 messages, 1 thread, 1 registration, 1 crash, 2 attempts, idle policy | Can messages of one scan be confused, and is `DeliveryContract` implemented? |
| `mailbox_settles` | 1 message, 1 thread, 1 crash, users' turns at any time, 3 attempts, fairness | Does every message come to a visible end once users stop beginning turns? |
| `conversation_replies` | 2 replies, 2 acknowledgements, hook and sender on or off, 2 failures at any step | Is `ReplyContract` implemented, so that one answer is sent at most and what the files say of it is true, and does a completed answer survive? |
| `conversation_kept` | 2 replies, 1 acknowledgement, hook and sender on or off, 1 failure | Does it survive the hook, and a call cut short? (No.) |
| `channel_overlap` | 1 message, 2 sessions, 2 connections, 2 registrations, 1 end at any step | Are marks true, is a message sent twice by overlapping connections only, and does what is handled come back only when its mailbox was renamed under a pump? |
| `pane_once` | 2 messages, 1 pane, 1 lease that runs out early | Is a message handed over once by senders, watchdog and hooks on one lock? |
| `pane_moves` | 1 message, 2 panes, 1 death or closed pane, 1 lease, 1 move, fairness | Is what may have been typed marked, does every lease in force have a holder at work, is nothing lost, and is mail that may be delivered delivered? |
| `registry_shared` | 2 panes, 1 thread, 2 labels, 1 pruner, 1 late request, 1 mailbox with mail | Is `AddressContract` implemented, so that each owner has one label and keeps it, and does a thread's mail stay its own? |
| `supervision_started` | 3 pids, 2 callers, 1 event, both services, fairness | Does a process of this version run in the end, and stay? |
| `daemon_calls` | 3 pids, 2 panes, 1 closer, 1 end, 1 daemon by hand, fairness | Is `CallContract` implemented, so that registrations are written, once or twice, whatever happens to the daemon, and does it come back? |
| `spawning_commands` | 3 panes, 3 labels (one a mailbox's), 2 commands | Does despawn close spawned panes only, and find all of them? |

Bounds. Registrations and process deaths are counted and capped; manual
retries, configuration changes, server outages and reachability are not, nor is
what users do: `UserChoices` names it, turns and closed threads in two runs,
nothing in `mailbox_queue`, where it plays no part. Two owners and two registrations give every order of
unregister, claim and late answer around one message; one death per behaviour
can fall on any step of any process, and the proofs below have no bound. Two
messages are needed only for the confusion of answers and the order inside a
scan. `MaxAttempts` is 3 as in the code, 2 where the attempt count plays no
part. Deadlock is not checked: a system without work to do rests.

`Conversation`: calls are used once, so their number bounds the behaviour. Two
replies overlap or repeat, and the acknowledgements before, between and after
them are two. The run of `ChannelPump` has one message: messages of one scan
share only the locks, and the proofs cover any number. `MaxStops` counts pumps
cancelled or killed; a pump whose record is taken away, whose greeting fails or
whose notification raises ends without being counted.

`PaneDelivery`: `MaxLapses` counts leases that run out (120 s) on a process
that is still at work; a lease of a dead process ends with it, and one of a
cancelled call lapses, uncounted. Two
messages meet in one hook's batch and in the choice of the watchdog, one is
enough for moves and deaths. `StarveLimit` is 1 scan for the code's
`STARVATION_TIMEOUT` of 90 s. `PaneRegistry`: an age saturates at two ticks, the grace period, after
which no age makes a difference; with two labels every collision is between a
label's owner and one comer, and with one pruner its stale set meets
registrations of every age. `Supervision`: `MaxEvents` counts deaths, pids taken
by strangers and one-shot scans; with as many events as pids the pids run out,
which says nothing about the code. `Daemon`: `MaxEnds` counts stops and deaths,
pids taken by strangers are not counted. `Spawning`: two commands, so that one
overlaps or follows another; three pane identities are the user's, one spawned
and one more, which is spawned, opened by hand or never used.

Fairness of `MailboxDelivery`. The worker keeps stepping, a process that holds
a lock takes its next step, `retry_at` passes, and turns end. No fairness is
assumed for restarts, users, registrations or the app-server's answers.
`MailSettles` is conditional on conditions that last: worker up (it is only
restarted by tool calls), server reachable, delivery enabled and the record
left alone, thread not closed, and nobody calling `retry_delivery` without end:
each such call resets the attempts, so endless calls keep a failing message in
`retry` for ever. A user who begins turns without end is excepted, too. Under
the idle policy mail waits as long as the thread is busy whenever it is looked
at, and a record written `waiting` loses the count of failed attempts
(`mailbox_worker.py:94-111`), so that failures and waiting may alternate without
reaching `MAX_ATTEMPTS`. The run lets users begin turns at any time and the
property asks for them to stop; turns that messages begin are not excepted.

Fairness of the others. `PaneDelivery`: processes and hooks that have begun keep
running and the watchdog scans, which its loop does; nobody is assumed to type,
submit, acknowledge or restart anything, so `MailReachesPane` excepts a user who
types again and again, a watchdog that is down again and again, an owner that
changes again and again or is gone, and the pane that launched the watchdog:
`_scan_once` skips it (`watcher.py:378-384`, `415-419`), because its user types
there, and its mail waits for its hook. `Supervision`: processes run, time passes, and asks keep coming, since
each ask ensures the service; strong fairness for a caller, because health
comes and goes between its looks. `CurrentRuns` excepts heartbeats that go stale
again and again under a running process. `Daemon`: launchd's KeepAlive is
strong fairness of `Launch` for each pid, and a started daemon runs. `ComesBack`
excepts daemons started by hand and pids on file that other programs have; in
both cases it need not come back (see below). No fairness is assumed in
`Conversation`, `ChannelPump`, `PaneRegistry` and `Spawning`: an answer depends
on a session that may never give one, native delivery on a model that may never
call `channel_ready`, and the other two do what users ask.

## Finding

- `conversation_kept`: docs/reliable-conversations.md says that existing
  completed answers survive duplicate or weaker acknowledgements. The drain hook
  copies the envelope it read over `processed/` without the receipt lock and
  without looking; an answer recorded in between is gone. The other exception in
  `AnswerSurvives` is as real: `_save_processed_receipt` prefers `inbox/` over
  `processed/` when it looks for the acknowledgement to keep, so that after a
  call that stopped between writing the receipt and unlinking the envelope the
  next weaker acknowledgement does not see the answer it replaces
  (`server.py:221`).

## Divergences without a run

The properties above hold under conditions that their text states. Each
condition is there because TLC finds the code to break the property without it,
or the property was dropped because the code does not have it. None of these
has a run of its own now; each follows from the actions named.

- Mailbox: a `register_mailbox` by the same owner between the worker's lookup
  and `before_dispatch` renews `registered_at`, which makes a message `failed`
  at its first attempt although nothing was sent (`mailbox_worker.py:81`).
  Failed attempts are forgotten when the message waits for a busy thread
  (`mailbox_worker.py:94`; the users' turns in `MailSettles`).
- Channel: docs/native-claude-channel.md says "Do not recreate an inbox item
  after a fast receipt". `_update_pending_locked` looks whether the envelope is
  there and then writes it whole (`claude_channel.py:144-150`), under the send
  lock and the receipt lock; but `unregister` renames the mailbox with both lock
  files in it and takes neither. When that comes in between, the receiver's
  acknowledgement takes a new receipt lock and finishes, and the write puts the
  handled message into the inbox of the new mailbox. Without its exception for
  `orphaned` messages TLC refutes `HandledStaysHandled` by `UpdateBegin`,
  `Unregister`, `AckBegin`, `AckEnd`, `UpdateWrite`, with one message and one
  connection. `_update_pending_locked` also does not look at `channel_delivery` again,
  so two connections that overlap can both send a message
  (`claude_channel.py:147`; the exception in `AtMostOneEvent`). `connect` writes
  itself into whatever record the label has, so that a pane which registered the
  label in between has its mail go to the other session (`claude_channel.py:62`).
- Panes: the watchdog never wakes the pane it was launched from
  (`watcher.py:415`; `Undisturbed`). A tool call that is cancelled while its
  thread types leaves a lease of a live process behind, `CancelledError` being no
  `Exception`, and for up to 120 s nobody else takes the message
  (`server.py:1022`; `Abandoned`). After an injection that raises, the mark `uncertain` keeps hook and
  watchdog away from the message for good (`server.py:927`). The sender's writes
  outside the receipt lock bring back a message that was acknowledged meanwhile
  (`server.py:844`, `1042`). A sender that gets the lock after its lease ran out
  writes over the watchdog's mark and types the message again (`server.py:843`;
  `late`). A sender types into the pane it looked up before it waited, also when
  the address has another owner by then (`server.py:918`). A hook that is killed
  before it prints takes its messages along
  (`user_prompt_submit_inbox_drain.py:156`; `cut`).
- Registry: a process that does not get the cache lock, or whose osascript call
  fails, prunes with a cached set of any age (`registry.py:263`; the age in
  `LivePaneKeepsLabel`). `prune_dead` archives after it released the lock, and
  can archive the mail of a new owner (`registry.py:364`). Mail of a plain pane
  stays when its label is unregistered or dropped, and the next pane to get the
  label drains it (`registry.py:157`). `register-pane` archives the mailbox of a
  label before it is refused that label (`cli.py:1496`). Two panes that start at
  once can choose one label, and the first goes on under a label that is not its
  own (`server.py:1735`). `whoami` answers with the first mailbox for any pane,
  since an empty session id is a suffix of all (`cli.py:1694`).
- Watchdog: an ensure between the writes of pid file and heartbeat judges the
  new watchdog by the old one's heartbeat and kills it (`watcher.py:146`); the
  next one stays.
- Daemon: of two daemons that start or end together one removes or replaces the
  other's socket and pid file (`daemon.py:268`). Any program under the pid on
  file keeps the daemon from starting (`daemon.py:246`). An unregister that the
  daemon does not answer is reported done (`cli.py:955`), and one it answers
  late can remove the label of a pane that registered it since
  (`daemon_client.py:65`).
- Spawning: a spawn that appends while a despawn or close-pane holds an older
  copy of the ledger is forgotten, and so is one whose osascript call timed out
  (`cli.py:1128`, `808`; `orderly`), or whose label is spawned again (`fresh`).
  `despawn --gone` closes a pane that is still booting or has another label by
  now (`cli.py:1100`). despawn compares with the registry as it was before it
  closed anything, and unregisters a label that moved meanwhile or that is a
  mailbox's (`cli.py:1111`). The first message of a spawn goes to whoever has
  the label (`cli.py:858`). close-pane by session id takes a mailbox for the
  pane's record, an empty session id being a prefix of all (`cli.py:931`).

## Proofs

`MailboxDelivery_proofs` proves, for every set of messages and threads and
every value of the bounds, `TypeOK`, `AtMostOnce`, `RightRecipient`,
`RetryableNotAccepted`, `DeliveredTruthful`, `InboxBelongsToOwner`,
`HandledNeverSent` and `ImplementsContract`. The only assumptions are `ConstantsAssumption`: the "no thread" and "no message" values
are not threads or messages, and the bounds are numbers.

None of the invariants is inductive alone. `IInv` adds what the argument rests
on: which lock is held at which program counter (`LockInv`); that envelopes are
written under the registry lock for the endpoint that is still registered
(`AskInv`); that at most one request per message is undecided and none after
acceptance (`RequestInv`); and what the worker knows at each step, for example
that a message it is about to send is neither accepted nor in a request, and
that after a rejection the same holds again (`WorkerInv`). Two facts carry the
steps: a message without acceptance and request stays so until the worker sends
it (`StaysUnoffered`), and acceptance is never undone (`StaysAccepted`). Each
part of `IInv` has a lemma with one step per action.

`HandledNeverSent` and the refinement need `AttemptInv` as well: a message about
to be sent was found in the inbox under its receipt lock, so it cannot be
`done`; and a record becomes ambiguous (`dispatching` or `uncertain`) only by an
attempt, which knows whether it did, so that an unsent message and one that
`retry_delivery` has under its lock never are. For `ImplementsContract` there is
one lemma per group of actions (`RegistryContract`, `SenderContract`,
`ReceiverContract`, `WorkerContract`, `RestartContract`, `ServerContract`): each
action is a step of `DeliveryContract` or leaves every message's status,
recipient and context alone. The check in `before_dispatch` is the step at which
a message is offered; the app-server's answer settles the offer; rejections,
lost answers and crashes of the worker end it unsettled.

`Conversation_proofs` proves for every set of calls and any number of failures:

- `OneReply`, with the hook and failures at every step, from `ReplyInv`: who
  holds `reply.lock`, and what the response record says at each step of the call
  that holds it. The crux is that the record says `dispatching` with the
  caller's text before anything is sent. `PostedIsKnown` (a posted answer is on
  record as sent or uncertain) and `ReceiptMatchesMessage` (a receipt of a sent
  answer tells the one that was sent) are parts of it and theorems of their own.
- `ImplementsReplyContract` from `ReplyInv` and `RecordInv`, which says that the
  record names an answer from the claim until it fails, and that a receipt of a
  sent answer lies only beside a record that is sent. Each action is one step of
  the contract or none (`AnsweringKeepsContract`), and the contract in turn
  gives `OneAnswerGiven` (`ContractGivesOneAnswer`).
- `ReportedReplyIsRecorded` from `ReceiptInv`: a receipt is written under its
  lock, and what a reply is about to write has an answer.
- `AnswerSurvives` from `SurvivalInv`: without hook and sender, envelope and completed
  receipt exist together only while a call is between the two or after one was
  torn. Both conditions of the property are needed: each gives a way to violate
  `CompletedAnswerKept`.

`ChannelPump_proofs` proves for any number of messages, sessions, connections,
registrations and ends, from `ChannelAssumption` alone:

- `EventIsMarked`, `SentTruthful` and `OncePerConnection` from `MarkInv`: what a
  pump knows of its message at each step (no event of its own before the
  notification; a mark in the file from there on), and that a mark is never
  taken back.
- `HandledStaysHandled` from `WriteInv`: a pump about to write an envelope has
  it in the inbox and holds both locks, unless the message is `orphaned`; and
  who acknowledges a message that lies in the inbox holds its receipt lock,
  unless it is `orphaned`.
- `AtMostOneEvent` from `AloneInv`: of two pumps that run, one began beside the
  other, and a message that a pump is about to send has been an event of no
  connection but one that ran beside it.

`PaneDelivery_proofs` proves `TypeOK`, `HandedOverOnce`, `TypedIsMarked`,
`LeaseHasHolder` and `NeverLost` for any number of messages, panes, moves, deaths and lapses of a
lease. `DeliveryInv` says, for a message whose lease was not outlived, in whose
hands it is (sender, watchdog or hook, of which the lock lets one be at work),
that it is marked from when it may be typed, and that nobody who is about to
hand it over meets one already handed over; for every message, that what left
the inbox is accounted for. `LeaseHasHolder` is inductive beside `DeliveryInv`:
every way out of an actor's work, return, failure, timeout and death, ends or
hands on the lease it took; the one that does not, a cancelled tool call, is an
exception the property names (`Abandoned`).

`PaneRegistry_proofs` proves `TypeOK`, `OneLabelPerOwner`, `ThreadMailStays`,
`ImplementsAddressContract` and `LivePaneKeepsLabel` for any number of panes, threads,
labels and pruners. Two facts are added: the kind of a record tells whose it is
(`KindsFit`), and a set of living panes, in the cache or in a pruner's hands,
lacks only panes whose records are no older than the set (`CacheTimely`,
`PrunersTimely`). The second is why the grace period protects: a record old
enough to be pruned is older than the set that is young enough to prune by.
The refinement (`RegistryKeepsContract`) has a lemma for each group of actions;
a registration, direct, late or by the daemon, is one `Take`, and pruning any
number of labels at once one `Free`. It includes `OwnerKeepsLabel`, a theorem of
its own, and `ContractKeepsAddresses` derives from the contract alone that mail
of an agent that lasts lies under its own address.

`Daemon_proofs` proves `TypeOK` (which includes that, without daemons started by
hand, one that serves is on file and has the socket) and
`ImplementsCallContract`, for any number of clients and daemons. `CallInv` says
that nobody acts for a client before it asks, that a good answer comes after the
operation, and that a request which is still there when its operation was
carried out is one whose client has done it itself: so no call has more than its
two turns. `RegistrationsWritten` is part of it; `ContractKeepsCalls` derives
from the contract that the label's owner changes only by a call that is due.
`Spawning_proofs`
proves `TypeOK` and `HandOpenedStay` from `BookInv`: every session id on the
ledger, in a copy a command has read, or about to be appended is that of a
spawned pane. `SpawnedKnown` follows from `KnownInv`: a spawned pane is on the
ledger under the label it was given, which it shares with no other pane while
labels are new (`LabelInv`), so that neither a reused label nor a later spawn
takes its entry; and a command that runs alone has read an entry for every open
spawned pane, and drops one only after closing the pane (`Standing`).
`Supervision_proofs` proves `TypeOK`, which includes that the
run lock, when it is taken, has a live holder, which is the one process that
loops, and that the ensure lock is held by a caller between its second look and
its spawn, and for the watchdog only.

These modules' assumptions (`PaneAssumption`, `RegistryAssumption` and so on)
are of the same sort: bounds are numbers, and the values that stand for nobody,
or for a lock that is free or held by the watchdog or a hook, are no message,
pane, thread or process.

Every safety invariant and action property of the passing runs is proved, and
the four refinements: `MailboxDelivery`, `Conversation`, `PaneRegistry` and
`Daemon` implement their contracts. The three contracts of the last three are
proved in turn to give what their headings promise, so that a reader may reason
from the contract and forget the module. Only model-checked is liveness under fairness (`MailSettles`,
`MailReachesPane`, `CurrentRuns`, `ComesBack`), which is out of the prover's
reach.

## Not modelled

- `queue.py`: a file for each ask, with an id of its own, moved between
  `pending/`, `inflight/`, `done/` and `failed/` by the ask that wrote it. No
  other actor moves it and delivery does not read it; `queue_status` counts the
  files. (`complete` does nothing for a message that was never claimed, as in
  the mailbox and channel branches of `ask`, whose files stay in `pending/`.)
- `session_identity.py` and `_bootstrap_caller`: read who is calling from
  request metadata and the environment, which clients outside the repository
  supply, then run operations that are modelled. A bootstrap that undoes an
  explicit disable made between its reading and its writing
  (`server.py:644`) is therefore not seen by any run.
- iTerm (`iterm.py`) and the parsing of screens: pure I/O; their outcomes are
  free choices in `PaneDelivery`, `PaneRegistry` and `Spawning`.
- What the app-server does with `turn/start` while a turn of the user's own
  begins (`codex_transport.py:66`): it is outside the repository; the model lets
  it accept, reject or lose the request.
- The command line's parsing and printing, the poll-guard hook, the event log,
  `scripts/` and the demos: no state that another part reads.

## What could come next

A module for `_bootstrap_caller` beside `PaneRegistry` would show the undone
disable. `ChannelPump` and `PaneDelivery` keep no contract yet: both may
hand a message over twice under the conditions that `AtMostOneEvent` and
`HandedOverOnce` name, so that a `DeliveryContract` for them has to count offers
by connection and by lease.
