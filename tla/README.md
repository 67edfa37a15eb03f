# Verification of the BLE desktop client

TLA+ models of the desktop client in `src/src` (Rust, tokio, Slint): a program
that finds a power station over Bluetooth, makes an encrypted session with it,
polls and writes its Modbus registers, provisions its Wi-Fi and upgrades its
firmware over Bluetooth or HTTP.  `src/ref` holds the peer's firmware and tools;
it is not part of the program, and is modelled only as the partner of the
handshake, of the upgrades, of the combined read and of Wi-Fi provisioning.

## 1. Inventory

| component | state it keeps | operations | what makes it correct |
|---|---|---|---|
| UI handlers (`pages/`, `app/mod.rs`) | none but the widgets | buttons; a 50 ms timer | enable only what the link allows |
| BLE service (`services/ble/mod.rs`) | command channel, `cancel_connect` | queue a command; cancel at once | a cancelled attempt does not connect |
| worker (`services/ble/worker/`) | session, scan task, radio | StartScan, StopScan, Connect, Disconnect, StartOta, StartHttpOta, register writes; reaping a dead session | one link at a time, none dropped without disconnect(), every attempt ends |
| session tasks (`worker/session.rs`) | `ProtocolSession`, session channel, tasks in flight | read notifications, poll, write, start upgrades, watch the link | die with their session |
| handshake (`protocol.rs`, `crypto/`) | phase, keys, bytes being reassembled | 2A2A01..06 and 0007, Modbus wrapping | keys belong to this session |
| frame assembly (`transport/`, `modbus/tlv.rs`) | a receive buffer | feed a chunk, take a frame | every frame once, in order, resynchronised after noise |
| Modbus transactions (`poll.rs`, `poll_executor.rs`, `poll_policy.rs`) | gate, response queue, policy | one request at a time; what the visible page needs | a reply answers its own request |
| firmware service (`services/firmware/mod.rs`) | `OtaLive`, chosen file | pick, start, stop, clear | outcome shown is the outcome |
| BLE upgrade (`ota.rs`) | packet and attempt counters | start, 1K packets, EOT, distribution progress | the image arrives whole, a stop is safe |
| HTTP upgrade (`http_ota.rs`) | server flags, byte counter | serve the image, watch register 720 | ends on success, failure or stop |
| query and configuration pages (`pages/modbus_query.rs`, `pages/device_config.rs`, `services/poll_sync.rs`, `services/modbus.rs`) | lists of cards, poll policy, snapshot of results with its generation | turn pages, add, move and remove cards, write a register, merge results | a card shows its own register |
| Wi-Fi provisioning (`state/wifi_provision.rs`, `pages/wifi_provision.rs`) | phase, its deadline, the readings | apply a network (four writes), wait, scan | an attempt ends, and succeeds by its own network |
| stores, theme, widgets, platform glue | files, handles | load, save | - |

**How they interact.**  The UI thread and a multi-threaded tokio runtime share
`BleInner` (phase, `encryption_ready`), `OtaLive`, `PollPolicy` and the live
register values, each behind its own mutex.  The UI sends `BleCommand`s over an
unbounded channel to one worker task, which owns at most one session; a session
owns a reader (`notify_task`), a writer, a poller and, in a list of abort
handles, the writes and upgrades in flight.  Two things bypass the queue: the
cancel flag, and `OtaLive.request_disconnect`, by which an upgrade asks the
worker to drop the link.

**What is hard.**  Every mutex is held only for a few assignments, so a handler
is a sequence of small steps with everyone else in between: a command queued
behind another one acts on a state its author did not see; a result arrives for
a session that is gone; an abort lands between two locks; a flag is read before
an await and used after it.  The `hazards` of `PROJECT.json` list the places
with their lines, and the properties that watch them.

## 2. Modules and the code

| module | what it is | runs |
|---|---|---|
| `BleWorker` | UI handlers, worker, session and scan tasks, upgrades as the link sees them | |
| `MCBleWorker` | its instances for TLC | link, late_reader, upgrade |
| `AbstractLink` | what the worker promises of the radio and the link | (refined by `BleWorker`) |
| `BleWorkerProofs` | theorems about `BleWorker`, the refinement among them | `tlapm` |
| `Handshake` | the 2A2A/ECDH handshake, both ends, over two lossy channels | |
| `MCHandshake` | its instance | handshake |
| `HandshakeProofs` | theorems about `Handshake` | `tlapm` |
| `ModbusLink` | poll task, register writes and an upgrade sharing one reply queue | |
| `MCModbusLink` | its instances | modbus_upgrade, modbus_writes, one violation |
| `ModbusLinkProofs` | theorems about `ModbusLink`: its types and the gate; on it replies, bit writes, what is shown, the read mode | `tlapm` |
| `TlvRead` | the combined read: assembler of notifications, collector of numbered packets, the device that cuts them | |
| `MCTlvRead` | its instance | tlv_read |
| `TlvReadProofs` | theorems about `TlvRead`: cutting, counting, reading back, one page per read | `tlapm` |
| `Upgrade` | an upgrade over BLE: XMODEM, abort, distribution, and the device's receiver | transfer |
| `AbstractTransfer` | what such an upgrade promises | (refined by `Upgrade`) |
| `UpgradeProofs` | theorems about `Upgrade`, the refinement among them | `tlapm` |
| `HttpUpgrade` | an upgrade over HTTP: server, connections, download, distribution | http_upgrade |
| `HttpUpgradeProofs` | theorems about `HttpUpgrade` | `tlapm` |
| `QueryPages` | cards, lists, edits, polls and the snapshot they are merged from | |
| `MCQueryPages` | its instance | query_pages |
| `QueryPagesProofs` | theorems about `QueryPages` | `tlapm` |
| `WifiProvision` | applying a network and what the polls say of it | |
| `MCWifiProvision` | its instance | wifi_provision |
| `WifiProvisionProofs` | theorems about `WifiProvision` | `tlapm` |

In every module one action is the code between two awaits of one task, or
between two lock acquisitions where another thread can see the difference.
Definitions keep the names of the source; `map` in `PROJECT.json` gives the
lines of each.  An operator whose comment begins with "Mutant:" is not part of
the model: it is a plausible bug in the definition that follows it, kept to show
that a property would notice.

**`BleWorker`.**  The UI thread is `uiPc`, `uiJob` (the "start upgrade"
handlers, which take four locks in turn) and `uiConn` (what the 50 ms refresh
saw last); it appends to `cmds` and sets `cancel` at once.  `phase` and
`encReady` are `BleInner`; `busy` is `PollPolicy.ota_busy`; `otaLive` is the
part of `OtaLive` that decides anything.  The worker is `wpc`, the await at
which it stands: `Top` and `Wait` are the loop, `Stop` the scan stop,
`Abort`/`Join`/`Close` are `end_session` and `disconnect_peripheral`, `Find` to
`Throughput` the connect path with its retries (`tries`) and the cancel checks
where the code has them.  `after` says which caller of `end_session` goes on.
The session's reader is `notify`, its channel `sessq`, its `ProtocolSession`
`proto` and `kex`.  Upgrade tasks are `jobs`, with the stage they have reached;
`Finish` is the task between publishing its result and `finish_ota_session`,
`Orphan` one that `end_session` has missed.  `gatt` is the link the program
holds, which the peer may drop at any moment.

Two time limits let the worker go on with something unfinished, and both are in
the model.  `disconnect_peripheral` calls `disconnect()` once: if that fails or
takes longer than `GATT_DISCONNECT_TIMEOUT` (`Disconnect`), the link is no
longer `gatt` but one of the `left` that stay open beside what follows, until
they close by themselves or the next `connect()` finds the link still up
(`WorkerGattConnected`, `support.rs:564`).  `end_session` waits for its tasks for
`SESSION_TASK_JOIN_TIMEOUT` (`WorkerJoinTimesOut`): a `notify_task` still on the
way to its next await is then one of the readers in `late`, with the rest of its
channel.  Until it ends it may show a state of its own session, start upgrades
that have nobody to send for them, or find its stream at an end and report
somebody else's upgrade as failed (`Late...`).  `amiss` (a history variable) says
that such a reader was the last to write `phase`.  The writer and the poll task
are taken as ended by then: they write nothing that is kept here, and of the
writer at most one chunk is on its way.

**`Handshake`.**  `cli` is `ProtocolSession` with the reader's reassembly
buffer and the receive key of the frame assembler; `reader` tells the
subscription (the device starts) from the open stream (the client hears).
`peer` and `dev` are the device's authenticator (`app_ble.c`): its state, the
status its receive callback sets, and the status it has acted on.  A shared key
is the number of the client secret it was made from, so "the keys agree" is
equality.  `d2c` and `c2d` are FIFO; `MaxLost` packets may vanish.

**`ModbusLink`.**  `task` holds the poll task, each register write and the
upgrade, with the step of `poll_foreground_once`, `write_control_register`,
`write_holding_registers` or `wait_ota_distribution` at which it is and the
request it has open; `gate` is the fair Modbus mutex; `down` is the one queue of
replies, `up` what is on the way to the device.  A transaction clears the
replies decoded so far, sends, and takes the first reply within its deadline; it
compares function and register count only, as `parse_read_holding` does.
`live` is `ModbusLive`, `dev` the device's registers.

**`TlvRead`.**  A page is a list of registers; `Frames` cuts it into packets as
`framing_and_send` of the firmware does, `Count` is what the client expects
(`tlv.rs`).  `up` and `air` are requests and notifications on their way;
`buffer`, `need` and `parsing` are `ModbusRxAssembler` with the loop of
`push_encrypted`; `responses` the decoded packets; `read` is the read under way
with its `TlvPacketCollector`.  Lengths are counted in words, the stream in
chunks; a chunk that is not the beginning of a packet is ciphertext, whose first
bytes may pass for any length (`BadLength` is the case that they do not).

**`Upgrade`.**  `client` is the task `run_ble_ota` (step, packet, tries, what
`finish_user_stop` has decided); `cancel`, `result` and `reqDisc` are the parts of
`OtaLive` it shares; `linked` the GATT link; `up` and `down` the two directions
of the air, with `lost` messages so far; `rx` is the device's XMODEM receiver
(`xmodem_client.c`), `reg` the group of register 720 that stands for this
upgrade, `dist` the passing on over CAN.  Who clears the reply queue drops a
prefix of `down`: what is still on the air arrives all the same.

**`HttpUpgrade`.**  `client` is `run_http_ota` with its watch loop, `server`
`HttpServeState` and the accept loop, `conn` one `handle_client` for each peer,
`fetch` the device's HTTP client (`http_client.c`), `reg` and `dist` as above.

**`QueryPages`.**  `page`, `lists` and `active` are the pages' state; `policy`
is `PollPolicy.foreground`; `live` the `QueryPollSnapshot`, `fresh` and `seen`
what the timer can tell of its generation; `ui` says whether the 50 ms callback
is between its refresh and its merge; `poll` holds the poll task and the task of
a register write, each with the list it was given; `dev` the registers.  `kept` (a history variable)
counts how many of a page's first lists have never moved into another's place.

**`WifiProvision`.**  `wifi` is `WifiProvisionUiState` (phase, whether its
deadline is over, the name applied, the two readings); `writes` the independent
tasks that write the registers; `round` the poll under way with the result it
has in hand; `live`, `fresh`, `seen`, `policy`, `was` as in `QueryPages`; `dev` is
the device's Wi-Fi, `had` (a history variable) every name it was ever given.  The
timer's callback is one step here: that the two halves can be told apart is
`QueryPages`' subject.  "In the cloud" implies "joined" here; the firmware clears
the former an instant after the latter.

**How they fit together.**  `BleWorker` decides when a session and its tasks
exist; it keeps of the handshake only the phases, and of an upgrade its stages.
`Handshake` is what happens between its `Throughput` and `Encrypted`.
`ModbusLink` is what the tasks of one encrypted session do to each other, an
upgrade being one of them; `TlvRead` is one of its combined reads taken apart,
`Upgrade` and `HttpUpgrade` what its upgrade does between taking the gate and
giving it back.  `QueryPages` is the way of a poll's results from the gate to the
screen, `WifiProvision` one consumer of it that acts on what it reads.  The
theorems of `ModbusLinkProofs` that replies do not mix justify that the modules
above it treat a read as one step, and that of `UpgradeProofs` that
`AbstractTransfer` is all another module need know of a transfer; `AbstractLink`
is to `BleWorker` what that is to `Upgrade`.

## 3. What the runs check

Passing runs, with the bounds and the reason they are enough.

* **link** (`BleWorkerLink`, fair).  Scan, stop, connect, cancel, disconnect, a
  peer that drops the link anywhere and renewed handshakes, two commands in the
  queue, four attempts (`CONNECT_RETRY_ATTEMPTS`), one reader that outlives its
  session and one link left open at a time.  No link is dropped without
  `disconnect()`; a screen that says connected is backed by a session, and
  "encrypted" belongs to this session's keys, unless a late reader has written
  it; scan, dial, link, reader and keys come and go as `AbstractLink` says, so
  that `connect()` is never called over a session or a scan; an attempt ends and
  the worker returns to its loop.  Two commands are one and another that was
  meant for what the first has changed; the theorems hold for any number.
* **late_reader** (`BleWorkerLate`).  Upgrades, reconnects and lost links with a
  reader that goes on: after the worker has let go of a session nothing of it can
  send, though an upgrade was queued, begun behind `end_session`'s back, or
  started by the late reader.  One slot holds the upgrade in question; the
  theorem has any number.
* **upgrade** (`BleWorkerUpgrade`, fair).  An upgrade over BLE begun, stopped at
  every stage and cleared, with reconnects and lost links.  No upgrade passes its
  check without keys; a stop ends the upgrade; `disconnect()` is called for a lost
  link.  One slot and one command in the queue: what two tasks do to each other is
  covered by the theorem, which holds for any number.  Joins are in time here; a
  late reader starts orphans only, which `end_session` makes as well.
* **handshake** (fair).  Every kind of device, a 0086 in two notifications, the
  five repetitions of 01 and 0086 and the seven of 0007 in `app_ble.c`, two
  packets lost.  With one 0086 answered the keys agree; plaintext is used only
  with a device that has no authentication; the handshake ends; with a device that
  waits it succeeds whatever was lost before.  Two losses are a request and its first repetition, or one each way.
  The devices are one that matches and has the firmware's deadlines (`Match`),
  one that never gives up (`Prompt`), one that fails either check and one that
  has no encryption.
* **modbus_upgrade** (fair).  One output toggle, polling, and an upgrade over
  BLE or HTTP begun at any moment, one request lost or one reply late.  The
  transfer is alone on the link; one failure does not cost a device its TLV mode;
  every write ends, with the output buttons enabled again; polling resumes.
* **modbus_writes**.  Two writers (a toggle, or either bit of one register)
  beside polling, one request lost or one reply late.  A transaction gets its
  own answer, no bit is lost and the switches shown are the device's - as long
  as no reply is late and no ungated read interferes, which the properties say.
  Two writers are enough for a lost update, the third contender is the poll task.

* **transfer** (`Upgrade`, fair).  Four packets under sequence numbers that wrap
  at 2 (256 in the code: the only thing that counts is that neighbours differ),
  three attempts, two messages lost, three in flight, two late.  The device stores
  each packet once and in order and takes only the whole file; what the client
  has counted is stored; success means that; the distribution is waited for only
  when the device has taken the end mark; every upgrade ends, and a stop in the
  middle of the transfer leaves the device with Wi-Fi.  Four packets wrap the
  numbers twice; two losses are a packet and its repetition, or an answer and the
  abort's.
* **http_upgrade** (fair).  Two chunks, the device and another client of the
  network.  A success has been served; a download that is complete ends the
  upgrade, and so does the stop button.
* **tlv_read** (fair).  Pages of one to three packets of every small layout
  (room of 4 words, headers of 2), one chunk or request lost, two answers late.
  A read that succeeds is one page, and after losses reads succeed again.
* **query_pages** (fair).  Two tabs, one of them without cards, and one group;
  one edit or write, one failed read or lost link.  No list that has kept its
  place shows another's values; a card comes to show its own register.
* **wifi_provision** (fair).  A device in one network brought into another, or
  into the same again; pages turned, a read failed, the BLE link or the Wi-Fi
  lost and made again.  An attempt gets past the Wi-Fi only with a name the
  device was given; every attempt ends while the link holds.  One attempt
  suffices for what an earlier connection leaves behind, since its readings come
  from polls before it.

A run that TLC must find violated: the source says it, the code does not do it.

| run | the source says | what happens |
|---|---|---|
| bit_write_changes_one_bit | read first, then rewrite that bit (`poll.rs:1056`) | a late reply for another one-register read is taken for the word to modify |

The passing properties that border on it say exactly how far they hold:
`BitWritesAreAtomic`, `ReplyAnswersRequest`, `ShownOutputIsReal`, the second half
of `UpgradeEnds`; so do `OneAnswerKeysAgree` (one answered challenge) and
`TasksHaveSession`, which excepts orphans because the session's write channel is
closed to them, and `ShownConnectedIsHeld` and `EncryptedIsReal`, which except what
a late reader has written.

**Known weaknesses** seen while modelling, without a run of their own.

* Link.  After a `disconnect()` that failed or timed out the program scans and
  dials beside the old link, and nobody calls it again (`support.rs:402`).  A
  `notify_task` that `end_session` did not wait for may show "connected" or
  "encrypted" with no session behind it, or clear `ota_busy` and fail the upgrade of
  the session that follows (`support.rs:83`).  A cancellation after service discovery is not looked at
  (`session.rs:83`, against `ble/mod.rs:214`).  A `StartOta` with no live session
  leaves `ota_busy` on (`worker/mod.rs:620`).  `end_session` aborts an upgrade
  without clearing `running` or its clock (`support.rs:67`, against
  `firmware/mod.rs:84`), and one started between its two aborts survives as an
  orphan.  `finish_ota_session` of an old upgrade clears `ota_busy` under a new
  one.  `request_disconnect` can be consumed by another session than the one it
  was meant for, or wiped when `OtaLive` is replaced.  Idle is shown before the
  clean-up; a StopScan queued behind a Connect sets Idle over a live session.
* Handshake.  A repeated 0086 makes a new secret while the device uses the first
  answer (against `crypto/business.rs:1`).  The firmware repeats 0007 seven times,
  where its comment counts five (`app_ble.c:802`).
* Upgrade.  A stop taken after the end mark has been acknowledged (`ota.rs:947`)
  and before the first read of register 720 sends nothing and keeps the link,
  since the device "should have Wi-Fi again" (`ota.rs:56`).  It has done its work,
  which is the second half of `AcksAreReal`, but its receiver leaves, and opens Wi-Fi, at the next
  message only, and after a stop nobody need send one.
* Modbus.  A toggle that the worker drops for an upgrade leaves `output_busy` on;
  a page whose switches could not be read shows them off; the distribution reads
  of a BLE upgrade do without the gate.  Late TLV packets of a page with the same
  number of packets are taken for this one's; a read that fails on a stale packet
  makes the next one fail, until the pause of 2 s.
* HTTP upgrade.  A device whose download cannot connect keeps the upgrade waiting
  for ever: `dist_started` counts `where = 3` (`ota.rs:475`), which the device
  writes before it connects, and that switches the only deadline off
  (`http_ota.rs:204`, `239`), so the hint of `http_ota.rs:245` is never given.
* Query and configuration pages.  Results are kept by list number and card
  number: after a removal or a move a card shows another's value until it is
  read again.  A generation counts as merged although its result was for a list
  not in front, and a result equal to the snapshot makes none, so that a card
  reset by an edit may wait although `modbus_query.rs:104` promises that polling
  fills it in; "writing..." stays after a write that failed or changed nothing;
  only the active list is reset at a disconnection; an edit form keeps the card's
  number while cards are removed.
* Wi-Fi.  Register 11108 is documented as the network joined
  (`modbus/wifi_provision.rs:24`), but the firmware copies the name *set* at once
  and clears the link flags later: old flags with the new name pass for success.
  Flags and name are separate results and may be torn.  The state is reset only
  if the configuration page is in front at the disconnection
  (`bindings.rs:396`).  After a failure the old network's link alone shows
  success.  A Wi-Fi that comes and goes starts the deadlines anew.  The four
  writes are not undone when one of them fails.

## 4. Fairness

`runtime.rs` builds a multi-threaded tokio runtime, so every task that can run
does: each task's own steps are weakly fair.  Of the awaits of the worker, the
joins, `unsubscribe()` and `disconnect()` are given up after a timeout.
`connect()`, the discovery of services, `subscribe()` and `notifications()` have
none in this code: that they return, with a result or an error, is assumed of the
operating system, and without it `WorkerReturns` would not hold.  Nothing is
assumed of a link that did not close.  The worker's `select!` may take its timer branch although a command is
waiting, but it polls its branches in random order, hence `SF` on
`WorkerReceive`.  `link_tick` looks at the link every 500 ms, hence `WF` on
noticing a lost link.  An upgrade looks at its cancel flag in each of its loops.
In `ModbusLink` the distribution wait has a stall deadline; `OtaDistEnds` is
enabled between two of its reads only, hence `SF`.  A device that has been sent
a request answers it, unless the write is lost.  Nothing is assumed of the user, of
the peer's willingness to stay connected, or of the air.

`Upgrade`: the client's steps, the device taking what it is sent and the worker's
look at `request_disconnect` (every 100 ms) are weakly fair; `DistStalls` is
strongly fair, because between two reads of register 720 it is enabled only for
an instant, and the 90 s it stands for pass all the same.  `HttpUpgrade`: task,
accept loop and a handler that has sent everything are weakly fair; a read of
register 720 succeeds now and then and the deadlines that depend on it pass
(`SF`); nothing is asked of the device or of a connection.  `TlvRead`: device,
air, assembler and reader are weakly fair; `BadLengthOf` is strongly fair because
two bytes of ciphertext are as good as random; the bound on late answers rests on
the 2 s between polls and the deadline of 1 s.  `QueryPages`: the timer, the tasks
and `end_session` are weakly fair; the gate is a fair mutex, hence `SF` for its
two customers.  `WifiProvision`: timer, clock, poll task and `end_session` are
weakly fair; nothing is assumed of the device's Wi-Fi.

## 5. What is proved

`BleWorkerProofs` proves, for every `UiOps`, every set `Slot` and `Old`, every
`MaxLeft` in `Nat`, and every `MaxQueue` and `ConnectAttempts` in `Nat \ {0}`
(`BleWorkerAssumption`):

| theorem | property |
|---|---|
| `TypeCorrect` | `TypeOK`, among it that no connect exceeds its attempts |
| `NoGattLeakCorrect` | until `disconnect()` is called for it, a link is in somebody's hands |
| `TasksHaveSessionCorrect` | nothing of a session can send without it |
| `ShownConnectedCorrect` | "connected" is backed by a session, or a late reader's |
| `EncryptedCorrect` | "encrypted" is this session's, or a late reader's |
| `FirmwareCorrect` | firmware only under keys |
| `UsesLinkInTurnCorrect` | `BleWorker` implements `AbstractLink` |

`Old` and `MaxLeft` bound how many readers go on after their session and how many
links stay open after `disconnect()`: the theorems hold for any number of both.

`TypeOK` needs one strengthening, that a retry is left wherever the connect path
is about to count one (`TriesLeft`).  The others do not stand alone: a screen
may say "connected" only because the reader is alive or just ended (or `amiss`),
the reader is alive only because the worker holds the session, and whether it does
is read off `wpc`; keys are made only after authentication, which a fresh reader
has not begun and nobody has without a reader; a session and the connect path
behind `connect()` have a link; and while the program dials, or holds a link, it
has no scan task.  `Ownership` is the conjunction of these (`SessionIsHeld`,
`NoGattLeak`, `TasksHaveSession`, `ShownConnected`, `KeysAfterAuth`,
`FreshReader`, `LinkHeld`, `ScanStopped`, `FirmwareOnlyEncrypted`,
`EncryptedIsReal`); it is preserved by every step given the types, one proof step
per action, and each theorem about a state is a conjunct of it or follows from
one.  That a late reader disturbs none of it but what is shown is the point of
the steps for `LateStep`: the upgrades it starts are orphans from the first.

`UsesLinkInTurnCorrect` is the refinement.  `AbstractLink` knows a scan, a dial, the
link held, its reader and the session's keys, and says in which order they come
and go; the mapping reads them off `scan`, `wpc`, `gatt`, `notify` and `kex`.  It
also knows whether a link told to close is still open and whether a reader told
to end still runs (`old`, `straggler`, from `left` and `late`): both come from
`Close` and `EndSession` only, and are all that may be there beside a scan, a dial
or a link.  From a state with `Ownership` every action of `BleWorker` is one of
`AbstractLink`'s or leaves all of these alone (`StepSimulates`, one proof step per
action).  It follows that `connect()` is never under way on top of a session or a
scan, that no link is told to close before its reader was told to end, and that no
session starts with the keys of another.

`ModbusLinkProofs` proves, for any set `Writer` and any `BitWrites`, `OtaJobs`
and `Mishaps` that `ModbusLinkAssumption` allows:

| theorem | property |
|---|---|
| `TypeCorrect` | `TypeOK`, among it that nobody is twice in the queue of the gate |
| `TransferIsAloneCorrect` | while an upgrade over BLE transfers, nobody else has a request open |

That the gate is a mutex is not written down anywhere in the model: `gate` is a
queue that a step appends to and takes the head from.  The invariant `Gate` says
what makes it one: a task is in the queue exactly in the steps that wait for the
gate or hold it (`Line`), once (`GateTypes`), a request is open only in the steps
that make one (`OpenAt`), by the holder or by a BLE upgrade's distribution read
(`OneOpen`), and an HTTP upgrade still holds the gate when its distribution ends
(`HttpHolds`).  Every step changes one task and keeps, enters, leaves or rejoins
the queue; four lemmas show that each of these preserves `Gate`, and the rest of
the proof puts every action under one of them.  `OneUpgrade` (an upgrade is
queued once, before its task has begun) is needed because the worker starts the
task without looking at it.

On the gate rests the second half of the module, under the same assumption:

| theorem | property |
|---|---|
| `RepliesCorrect` | while no reply is late and no distribution read clashes, a reply taken answers the request it is taken for |
| `BitWritesCorrect` | as far as that holds, a bit write changes its own bit only |
| `ShownCorrect` | as long as nothing at all went wrong, the switches shown are the device's when the gate is free |
| `TlvModeCorrect` | one lost, late or cleared reply does not cost a device its TLV mode |

`ReplyAnswersRequest` says of a reply that it is the right one, but what has to be
carried from step to step is that there is no other: one request is open at most,
and all that is on the air is that request or its answer, which brings what the
registers hold now (`Quiet`).  Whoever sends holds the gate, so nobody else is
open and the air is empty; whoever ends takes the one reply, or gives up and is
late.  `Ready` adds that a word about to be written is the register with its bit
changed: from the reply it was made of to the write the gate is never given up
(`StaysAtGate`), so that no other writer's request is served in between.  `Shown`
is about the outputs: they change in a toggle only, which reads them back before
it leaves the gate.  Each step of a task either sends, ends a transaction or
does neither (`TaskKinds`), and the invariant `Replies` is shown for each kind.

`TlvModeCorrect` is about what one mishap can do, with the probe's two attempts.
The second is only made after the one mishap has happened (`SecondTry`), so it
fails only if what the first left behind can spoil it.  A lost or cleared reply
leaves nothing (`Quiet`).  A late one leaves one reply too many, which comes
before the answer to whatever is asked next (`Stale`); after a failed probe that
is an answer to the same question, and as good.  Nobody else has asked for
anything in between, because the prober keeps the gate (`Tries`), and the upgrade
that reads without it is not there: `ota_busy` keeps away the rounds that begin
after it (`Upgrading`), and those that were in line before it have had their turn
(`Behind`, `NoneProbes`).

`UpgradeProofs` proves, for a file of any length, any numbers of attempts, any
`SeqModulus` but 1 and any bounds on the air:

| theorem | property |
|---|---|
| `TypeCorrect` | `TypeOK` |
| `AcksCorrect` | an acknowledged packet is stored, and at most one more; the distribution begins, and a stop in it keeps the link, only when the device has taken the end mark |
| `DeliversCorrect` | `Upgrade` implements `AbstractTransfer` |
| `SuccessCorrect` | a success shown is one: the image is whole, and taken or passed on |

The invariant `IInv` follows the messages.  Starts precede packets, packets on
the air are in order and none is behind the client's (`AirInv`); an
acknowledgement on its way means that the current packet is stored, and there is
one at most (`ClientInv`), which is why a late or repeated one does no harm: the
client clears the queue before it sends, and the device acknowledges a packet it
has once only.  `Neighbours` is where the modulus enters: the number of a packet
differs from its neighbours'.  `RealInv` adds register 720: it is cleared before
the first "C", so that a value read during distribution belongs to this upgrade.
`AfterInv` adds the stop in the distribution: by then no request to start is on
the air any more (`StaysAccepted`), so the receiver cannot begin anew.

`HttpUpgradeProofs`: `TypeCorrect` and `SuccessCorrect` (`SuccessWasServed`) for
any number of chunks and any peers.  What the server has counted was handed out
by some connection, and a connection never goes back.

`HandshakeProofs`, for any way of cutting packets and any bounds:

| theorem | property |
|---|---|
| `TypeCorrect` | `TypeOK`: no more secrets than requests for a key, and no bytes answered or held that are not of key packets |
| `KeysCorrect` | with one answered challenge the two keys agree |
| `PlaintextCorrect` | plaintext only with a device that does not authenticate |

`KeysCorrect` rests on `SecretsKnown`: every key, and every packet that carries
one, is the number of a secret the client has made, and with one there is no
other.  `PlaintextCorrect` rests on `Authenticating`: a device that authenticates
and is still there is about to challenge, waits for an answer, or has had one;
and `AnswersAreReal`: an answer presupposes a challenge seen, after which the
client's timer no longer makes it speak plaintext.

`TypeCorrect` is the last of the three, for it needs both.  The client takes every
chunk that follows the first of a 0086 for a part of it, whatever it is, so the
bytes held are bounded only because nothing else comes (`Order`): once the device
has asked for the client's key it sends key packets and then replies
(`KeysLast`); a reply presupposes a request under a key, or a device that does not
authenticate (`RepliesComeLast`, by `Authenticating`), and a client with a key no
longer holds anything (`DoneHoldsNothing`).  A device that has not asked yet has
sent no key packet (`KeysAreAsked`), which needs that its receive callback and its
task agree on the state (`StatusFits`).  On this rests the count: the bytes of
0086 packets that were answered, are held or on the air are no more than the
device's requests so far (`Asked`: one and its repetitions), likewise those of
0007 (`Reported`, with a limit of its own: `ResultResends`).  A good 0086 uses up all the bytes of one request, so the
answers are as many as the requests at most.  The bound on the bytes held counts
0007 packets as well: repeated ones pile up behind a 0086 of which the rest was
lost.

`WifiProvisionProofs`, for any set of networks and any bounds:

| theorem | property |
|---|---|
| `TypeCorrect` | `TypeOK` |
| `NameCorrect` | no attempt gets past the Wi-Fi with a name the device was not given |

`TypeOK` is not inductive here: that the state of the link is one is only known
because a result fits the register it was read from wherever it has got to: in
the poll's hand, in the snapshot (which holds one list's results at a time), in
the state.  `Readings` says this and that every name read is in `had`.

`QueryPagesProofs`, for any registers, lists, menus and bounds that
`QueryPagesAssumption` allows:

| theorem | property |
|---|---|
| `TypeCorrect` | `TypeOK`, among it that the list in front exists and a round is at one of its registers |
| `ResultsCorrect` | a list that has kept its place shows values of its own registers only |

What a list shows has come a long way: from its cards to the policy, to a round,
to the snapshot, and back to whatever list has that number by then.  The
invariant says at each of these places that what is kept under the name of a list
in its place fits that list (`ItemsFit`, `ResultFits`); a removal makes fewer lists
keep their place, and nothing has to be said of the others.

`TlvReadProofs`, for pages of any registers of any length and any room in a
packet that `TlvReadAssumption` allows:

| theorem | property |
|---|---|
| `TypeCorrect` | `TypeOK`, among it that a packet taken is numbered as the device announced |
| `ReadCorrect` | `ReadIsOnePage`: a read that succeeds has every register of its page, with its own words |
| `CountIsRight` | `calc_total_index` announces the number of packets that `framing_and_send` makes |
| `PacketsFit` | no packet is longer than one may be |
| `RoundTrip` | the client's parser gets back from a page's words the registers that were written, in order and whole |

The last three are about pure functions, written twice, in C and in Rust, and
the count a third time, before the packets are made.  Each is recursive, and is reasoned about
in the same way: its equation has a solution (`Recursion`), so the function it
defines satisfies it; one round of it is a lemma (`FillRound`, `PutFacts`,
`UnitsRound`, `FlattenAppend`); and the rest is induction over a set of numbers.  `ReadCorrect` adds
the invariant `IInv`: a packet on the air, in the buffer or decoded is one of its
page's (`OfItsPage`), a read that began with nothing under way holds packets of one
total (`OneTotal`), and has as many as that total says when it succeeds
(`OkIsComplete`).  That a page has a register is assumed: the firmware sends
nothing for one that has none.

**Only model-checked.**  All liveness, which with `ENABLED` is out of the
prover's reach: `WorkerReturns`, `LostLinkIsLetGo`, `StopIsHonoured`,
`HandshakeEnds`, `HandshakeSucceeds`, `WritesEnd`, `PollingResumes`, both
`UpgradeEnds`, `ReadsRecover`, `CardsSettle`, `AttemptsEnd`.  Every invariant and
action property that a passing run checks, and both refinements (`Delivers`,
`UsesLinkInTurn`), are theorems.  The library's induction theorems take an operator as a parameter, which
the provers here cannot instantiate; where a proof goes by induction it states
what is to be shown as a set, and uses that a set of natural numbers has a least
member (`SetInduction`, `AppendInduction`).

## 6. What is not modelled

* In the worker: the scan list and its ordering, the chunking of GATT writes,
  page navigation; upgrades over HTTP are `HttpUpgrade`'s and, in the proofs and
  not in a run, `BleWorker`'s.
* In `ModbusLink`: the reads of power, link state and SSID; the external-device
  pages; function 10 and field writes; the loss of the link inside a transaction
  (`BleWorker` has it: the task is aborted).
* In `Handshake`: the ciphers.  What fails to decrypt is what was encrypted
  under another key.
* In `TlvRead`: the contents of registers, and plaintext sessions, whose frames
  go another way through `ModbusRxAssembler`.
* In `Upgrade` and `HttpUpgrade`: image headers and version rules; range requests
  and what a browser would make of the server; the choice of the address.
* In `QueryPages`: the built-in settings, forms and their checks, names, copies
  of cards; more than one register write at a time; registers that change by
  themselves; a generation that comes round to the number merged last.
* In `WifiProvision`: the list of networks found, the networks stored, hints, the
  address and the reason of a disconnection; the password, which tells only in
  whether the device gets on; an upgrade that goes on meanwhile.
* Not modelled at all: register codecs, version rules and image headers
  (stateless), settings stores (whole-file writes on the UI thread), widgets and
  platform glue; and of the firmware in `src/ref`, which is most of the
  repository's lines, everything but the program's partners named above.

## 7. Plan

What is left: `ScanList`, and several writes at once in `QueryPages`.
