# Verification of camannex

camannex is a daemon that polls the devices attached to a camera (coolers and
vacuum gauges) over serial ports, and reports what they say to a log, a database
and a server. This directory holds its TLA+ models, the TLC configurations that
check them, and proofs checked by TLAPS. Paths below are under `src/src/`.

## The system

| Part | State | Operations | Talks to |
|---|---|---|---|
| Serial controller (`ControllerBase`) | directive list `drct_`, device list `allDev_`, condition `cndDrct_`, `tmlast_`, three threads | `thread_cycle`, `thread_respond`, `thread_heartbeat`, `serial_read`, `serial_write`, `AddDevice`, `Write`, `CoupleNetwork`, `DecoupleNetwork`, `Start`, `Stop` | serial port (calls and callbacks), TCP client, database, main control (callback `cbrslt_`) |
| Cooler, vacuum (`CoolerCtl`, `VacuumCtl`) | `data_`, one entry per device with a dirty flag | `check_data`, `generate_directive`, `encode_data`, `decode_data`, `write_log`, `upload_database`, `network_respond` | called by the controller's threads and by its I/O callback |
| Serial port (`SerialComm`) | a read and a write ring buffer | `Open`, `Close`, `Write`, `Read`, `Lookup`, `handle_read`, `handle_write` | the I/O service thread |
| TCP client (`TCPClient`) | the same, with a mutex for each ring | as above, `Connect`, `AsyncConnect`, `handle_connect` | the I/O service thread |
| Message queue (`MessageQueue`) | a boost interprocess queue, a table of handlers, a thread | `PostMessage`, `SendMessage`, `RegisterMessage`, `Start`, `Stop`, `thread_message` | main control |
| Main control (`AnnexControl`) | the controllers, the TCP client, the reconnection thread | `StartService`, `StopService`, `connect_*`, `on_*`, `thread_network` | all of the above |
| Text protocol (`AsciiProtocol`) | a ring of ten output buffers | `Compact*`, `Resolve` | the controllers |
| Database upload (`DataTransfer`) | the addresses, a cache for the response, libcurl's global state | one function for each kind of report, `uploadDatas` | the controllers; libcurl |
| Log file (`GLog`) | the open file and its day of the month, a mutex | `Write`, `valid_file` | every thread |
| Clock synchronisation (`NTPClient`) | a socket, the offset and whether it is valid, a thread | `thread_body`, `get_time`, `SynchClock`, `SetHost` | a time server, the system clock; the program has it commented out |
| Configuration (`parameter.h`) | the parameters, an XML file | `LoadFile`, `InitFile` | main control |
| Process (`camannex.cpp`, `daemon.cpp`) | the pid file and its lock, the signals | `main`, `MakeItDaemon`, `isProcSingleton` | the operating system |
| Mathematics (`AMath`) | | `LRC`, `Checksum`; the rest is not used | |

What is hard about it:

* Three threads and the I/O thread share `drct_`; the lock covers the additions
  and removals, not the tests of its size or the uses of its front.
* `cndDrct_` is waited for with no predicate, so a notification that comes when
  nobody waits is lost and a spurious wakeup counts as an answer.
* A vacuum gauge's answer does not name the function it answers, so a reading is
  stored under whatever is at the front of the list at that time.
* A request or an answer may be lost on the line, damaged, late or doubled; the
  database upload blocks for an unknown time.
* Bytes come in pieces of any size, with noise; no checksum of an answer is
  verified, and a ring overwrites its oldest bytes.
* Clocks with periods of their own, and a local clock that may be put forward or
  back, decide whether a link counts as dead, an offset as valid, and which file a
  line belongs to.
* `Stop` joins the threads wherever they are, and the service may be started twice,
  killed anywhere, or told to end before it has begun.

What makes each part correct: the list is a single sweep and the link carries at
most its front; readings are stored under their own name; a report holds one
complete sweep; polling goes on for ever; `Stop` ends. For the ports: the bytes
that leave are the bytes that were accepted, in order. For the protocols: each
side understands what the other said. For the queue: every message reaches its
handler, in order. For the service: one at a time, that of its configuration, and it
ends when told to.

## Modules

### `Controller`

One controller with its serial link. The variables are the members of the class
(`drct`, `allDev`, `rows` and `val` for `data_`, and `fresh`, the fields read since the
last report), a program counter
for each thread (`cyc`, `rpc`), the exchanges on the link (`line`) and the frames
read and not yet decoded (`ring`), the progress of `Stop`, and whether the
undefined behaviour of `front` or `pop_front` on an empty list has happened.

| Action | Code |
|---|---|
| `CyclePoll`, `CycleGenerate`, `CycleSend` | the tests, the two loops and `first_send` of `thread_cycle` (`ControllerBase.cpp:172`), one step per access to shared state |
| `SpuriousWakeup`, `RespondPop`, `RespondSend`, `RespondAllAnswered`, `RespondLog`, `RespondWait` | `thread_respond` (`:192`) with `write_log`, `upload_database` and `network_respond` |
| `Receive(k)` | `serial_read` (`:148`) with `decode_data` and `notify_one`: one read event that brings `k` answers, or a piece of one |
| `AddDevice`, `Write`, `Stop`, `HeartbeatExit`, `RespondExit`, `CycleExit` | the calls of other threads, and `interrupt_thread` (`:226`) of the three threads in the order of `Stop` (`:49`) |
| `Lose`, `Garble`, `Unsolicited` | what the link may do; not code of the program |

Readings are abstracted to the function code they answer, frames to the query
they answer. A damaged answer (`Garble`) is one that `decode_data` refuses for its
length; the code verifies no checksum, and what damage does to the bytes of an
answer is the subject of `Reception`. An exchange on the link is its query until the answer has been heard:
the bus is half duplex and neither end can tell the difference. A name followed by
an underscore and a word (`Front_Newest`) is a wrong variant of the definition
that follows it, to tell whether the properties notice; no specification uses it.

`first_send` over a port that is closed sends nothing (the fault `"closed"`); what
`thread_heartbeat` computes is the subject of `Heartbeat`, here it only has to be joined.

Two constants state the timing the code relies on: `Overlap`, the places
`thread_respond` may be at when an answer arrives or a period ends, and
`DevicesFirst`, whether a device is added before the first cycle. The first is
`{}` when the answer always comes while `thread_respond` waits, and `Busy` for
every interleaving.

### `ControllerProofs`

The theorems below about `Controller`.

### `StopAndWait`

What a controller in time promises the bus: directives wait in order, the first is
asked over an idle link, at most one exchange is out, and a directive leaves only
after its own answer. `Controller` implements it (`StopWait`, `StopsAndWaits`), with `drct`
for the queue, `line` for the exchange, and `answered` while `thread_respond` has been
woken and has not yet removed the front.

### `MCController`

The instances for TLC: two devices, two or three polled codes and one code that
is not polled, one or two of each fault.

### `ByteStream`, `AsyncWrite`

`ByteStream` is what an asynchronous writer promises: the bytes that left are the
first of the bytes that `Write` accepted, in order and each once. A byte is its
number in the order of acceptance, which makes every loss, repetition and
exchange visible.

`AsyncWrite` is the code that should keep the promise: `SerialComm` and a
buffered `TCPClient`, which differ only in `handle_write`. The ring `crcsnd_` is
the stretch from `erased + 1` to `accepted`; `ops` are the outstanding
`async_write_some` and `done` the completions the I/O thread has not handled.

| Action | Code |
|---|---|
| `Write(len)` | `SerialComm::Write` (`SerialComm.cpp:68`), `TCPClient::Write` with `UseBuffer` (`tcpasio.cpp:154`): under `mtxsnd_`, as much as fits, starting a write if the ring was empty |
| `HandleWriteTcp` | `TCPClient::handle_write` (`tcpasio.cpp:189`): erase and restart under the mutex |
| `HandleWriteSerial`, `HandleWriteEnds` | `SerialComm::handle_write` (`SerialComm.cpp:114`): erase under the mutex, then, without it, the callback and `start_write` |
| `HandleError` | either of them with an error |
| `Close` | `SerialComm::Close`, `TCPClient::Close` |
| `Transfer(n)`, `Fail` | the operating system: any part of the oldest write was transferred, or it failed or was aborted; not code of the program |

`port` is one of three kinds: `"tcp"`; `"serial"`, a `SerialComm` that any thread
writes to at any time; and `"polled"`, a `SerialComm` written to only when no
write is going on. The last is how the controller uses it: `thread_respond`
writes after an answer, which the device sends when the whole message has reached
it, and `thread_cycle` when no answer is awaited (`OneOutstanding` of
`Controller`). The program never calls `UseBuffer`; `"tcp"` is the class as it can
be used, and its `Write` without a buffer is not modelled.

### `MessageQueue`

The base class of `AnnexControl`. A boost `message_queue` delivers the highest
priority first and keeps the order within one, so `mq` has a sequence for each of
the two priorities; a message carries its number in the order of acceptance.

| Action | Code |
|---|---|
| `RegisterMessage(c)`, `Start` | `MessageQueue.cpp:22` for each code of `register_messages`, then `:44` |
| `PostTest`, `PostSend` | `PostMessage` and `SendMessage` (`:30`, `:37`), split between `mq_.unique()` and `send`, which waits for room |
| `Receive`, `Handle` | `thread_message` (`:77`): take a message; call its handler, if it has one, and end if it was `MSG_QUIT` |
| `StopCall`, `StopSend`, `StopJoin`, `StopReset` | `Stop` (`:60`): send `MSG_QUIT`, wait for the thread, destroy the queue |

`undef` is set when the queue is destroyed under a thread that is about to use
it; nothing is said of what follows. One life of the queue is modelled, which is
what `StartService` and `StopService` give it.

### `Frames`

The bytes of the two protocols, with no state: `CoolerFrame`, `VacuumFrame`,
`CoolerDecode`, `VacuumDecode` (`encode_data`, `decode_data`), `decode_uint8`, `LRC`,
`Checksum`, the formats of numbers and `atof`, and the ring operations `Lookup`,
`Read` and `PushBack`. A byte is a number below 256, so arithmetic wraps as
`uint8_t` does; a double is a number of tenths, which is what `"%.1f"` writes.

### `Reception`, `MCReception`

`Controller`'s exchange, byte by byte. Its `Ask` is `first_send` when the token is
there; what the threads do to the list is left to `Controller`.

| Action | Code |
|---|---|
| `Ask(d, f, text)` | `first_send` of a directive from `generate_directive` or `Write` (`ControllerBase.cpp:139`, `:76`) |
| `Receive(n)` | `handle_read` of `n` bytes (`SerialComm.cpp:104`) and `serial_read` (`ControllerBase.cpp:148`) with `Lookup`, `Read` and `decode_data` |
| `SetValue`, `SetDirty` | the two statements of a setter (`CoolerCtl.h:41`, `VacuumCtl.h:33`) |
| `LogClear`, `LogPrint` | `write_log` (`CoolerCtl.cpp:109`): clear `dirty`, print |
| `Answer`, `Noise`, `Damage` | the device reads the directive and answers; stray bytes come between answers; a byte of a cooler's answer is lost or one slips in; not code of the program |

The device's side of the protocol is not in the repository: `DeviceReads` takes the
directive whatever its checksum, and `AnswerFrame` is of the form `decode_data`
expects. That the checksum is the one modbus ASCII asks for is not said anywhere: it is
not (see below).

### `FramesProofs`, `ReceptionProofs`

The theorems below about them. `FramesProofs` also has what the other needs to know of
`Lookup`, `Read`, `PushBack` and of the bytes of each kind of frame.

### `Upload`

| Action | Code |
|---|---|
| `Enter`, `GlobalInit`, `EasyInit` | `uploadDatas` (`DataTransfer.cpp:388`) up to the request, with its refusals |
| `Piece`, `Performed` | `WriteMemoryCallback` (`:554`) for each piece of the response, and what `curl_easy_perform` returns |
| `Finish`, `Destroy` | the verdict and the clean-up (`:504`); the destructor (`:31`) |

`StatusForms`, `DeviceForms` and `FileForms` are what each public function posts: the
names of the parts, of which some are there only for some values (`some`). `heap` has
every block that was allocated and not freed, with the number of its call, also those
no pointer leads to any more: a call without a session leaves three, one without memory
for a longer answer one. `cut` remembers such calls, and `lost` counts those that skipped
`curl_global_cleanup`. `Made` are the calls that the callers of an instance make.

### `GLog`

| Action | Code |
|---|---|
| `Lock` | `Write` (`GLog.cpp:56`, `:75`) takes `mtx_` and then the time |
| `ValidFile` | `valid_file` (`:29`): close, open, or give up |
| `Put`, `Flush` | the `fprintf` calls, one after another, and `fflush` |
| `ClockMoves` | midnight, or a step of the clock; not code of the log |

### `NTPClient`

| Action | Code |
|---|---|
| `Wake`, `Open` | `thread_body` (`NTPClient.cpp:83`): a period, `getaddrinfo` and `socket` |
| `Ask`, `Watch`, `Collect` | `get_time` (`:156`): `sendto`; `FD_SET`; `select` and `recvfrom`, which may find an old reply, none, or fail |
| `Compute` | the offset (`:117`) and, from `thread_body`, `SynchClock` (`:68`) |
| `SynchClock` | the same from another thread, without a lock: its test, then the step |
| `SetHost` | `SetHost` (`:54`), which closes the socket from another thread |

The true time drops out: `err` is the clock's error, and a reply carries the error
when its request was sent and the time each way took. `FD_SET` of a socket that
`SetHost` has closed is the one place where behaviour is undefined (`undef`).

### `AsciiProtocol`

`Say` is `CompactCooler` or `CompactVacuum` with `output_compacted`
(`AsciiProtocol.cpp:37`-`:92`); `Resolve` is the receiver's side (`:95`), which only the
property uses. A text is a sequence of words and separators. `ReadBack` says exactly what
comes back: the last field loses all the punctuation and spaces at its end, and the six
digits of `FLT_MIN` are not `FLT_MIN`.

### `Heartbeat`

`Controller` in seconds: only how long the list is (`left`), whether an answer will be
heard (`query`), and the clocks. The threads sleep by a clock that only runs; `tmlast_`
and its age are local times, and the local clock may be put forward or back: `td` is the
age the program computes, `ahead` how much of it is not time.

| Action | Code |
|---|---|
| `Poll` | `thread_cycle` looks (`ControllerBase.cpp:178`) |
| `Answer`, `Miss` | `thread_respond` hears an answer (`:197`) and uploads after the last; one that comes during the upload is lost |
| `Write` | `Write` appends a directive that nobody sends (`:76`) |
| `Heartbeat` | `thread_heartbeat` looks (`:219`) |
| `Lose`, `StepClock`, `Tick` | the line; the local clock is put forward or back; a second passes |

### `Parts`, `MCParts`, `PartsProofs`

The five parts above and `Service` share no state. `Parts` runs one of the six in each
behaviour, so that a single run checks them all; the theorems are about the specification
of each.

### `Service`, `ServiceProofs`

The sixth of the `Parts`: processes from `main` to their end. Two are started whenever they like.

| Action | Code |
|---|---|
| `Launch`, `Fork`, `isProcSingleton`, `Signal` | `main` (`camannex.cpp:24`), `MakeItDaemon` (`daemon.cpp:47`), `isProcSingleton` (`daemon.cpp:18`), the signal handler |
| `Load`, `WriteFile` | `LoadFile` and `InitFile` (`parameter.h:119`, `:47`) from the constructor of `AnnexControl` |
| `StartQueue`, `ConnectServer`, `ConnectCooler` | `StartService` (`AnnexControl.cpp:21`) |
| `Run` | `ios.run` returns |
| `StopSend`, `ThreadMessage`, `StopJoin`, `LeaveMain` | `StopService` (`AnnexControl.cpp:49`) and the destructors |
| `Kill` | the process is killed; its locks and ports go with it |

After the second fork `notify_fork` closes the pipe of the `signal_set` and opens
another, so that `Fork` loses a signal that came before. Of the configuration, the
devices, the ports, the flags and the address of the database are modelled; the group,
the baud rates, the server's address and the keys of NTP are not.

What a running controller does is the subject of the other modules. No message of
the main control appears: its codes are dropped (run `annex_codes`), and that is why
nothing here closes or reopens a controller.

### `MCAsyncWrite`, `MCMessageQueue`

Their instances for TLC. `MCMessageQueue` has two sets of codes: the first and
last code of the table of handlers, and the codes of `AnnexControl`.

### `AsyncWriteProofs`, `MessageQueueProofs`

The theorems below about them.

## Runs

| Run | Question | Result |
|---|---|---|
| `vacuum_timely` | With answers in time, are a gauge's readings stored under their names and reports complete, whatever is lost or damaged, written or stopped, and is every device reported again and again while nothing is? | holds, 2.1 million states |
| `cooler_any` | In every interleaving, with unsolicited frames and spurious wakeups, do sweeps never overlap, does `Stop` end? | holds, 1.2 million states |
| `slow_upload` | Is every device reported again and again when an upload may outlast a period? | violated: the notification is lost and polling ends |
| `lost_answer` | The same when one answer is lost | violated: nothing sends the directive again and polling ends |
| `write_in_order` | Do a buffered TCP client and a polled serial port send what they accepted, in order and once, and all of it? | holds: they implement `ByteStream`, and everything leaves unless the port was closed or a write failed |
| `serial_write` | The same of a serial port that is written to at any time | violated: a `Write` between the erasure and the restart makes the same bytes leave twice |
| `message_queue` | Are messages with a handler handled while the service runs, does only `Stop` end it, and does `Stop` return, from a full queue too? | holds, 0.13 million states |
| `annex_codes` | Are the messages `AnnexControl` posts handled? | violated: its codes are below `MSG_USER`, so their registration was refused |
| `frames` | Byte by byte: do directives fit their array, are answers heard whatever the pieces, does a damaged answer or noise without a head store nothing else, and does the log lose no change? | holds, 1.1 million states |
| `parts` | Does an upload leave only what two failures leave, does the log keep lines whole and in their file, is the clock stepped by the right answer, is a text read back, is a dead link reported, one that works only after the clock was put forward, and is one service running at a time, with the coolers of the file, until it is signalled? | holds, 0.8 million states |
| `offset_validity` | Is an offset valid for five periods at most? | violated: periods without a socket are not counted |
| `stepped_clock` | Is only a dead link reported? | violated: a step of the local clock makes a link that works look silent |

What each violation contradicts is quoted in `PROJECT.json` (`findings`). Three are of
conditions that passing runs assume away, and say what the assumption is worth:
`slow_upload` and `lost_answer` of `ReportedUndisturbed`, `stepped_clock` of a clock that
is not put forward.

The models show more that the code does otherwise than it or its comments say. No run is
about these; the properties that hold stop short of each, and say so:

* One wakeup of `cndDrct_` without a notification removes a directive that was not
  answered (`ControllerBase.cpp:197`), and a gauge's answer to it is stored as another
  reading. `ReadingsRight` is of runs without one.
* `thread_cycle` calls `first_send` whether or not it generated a directive (`:182`); with
  no device by then, it takes the front of an empty list. `NoUndef` is of runs that have
  the devices first.
* The LRC of a cooler's directive is computed over its characters, with the `':'` and the
  line end (`CoolerCtl.cpp:73`), and not over the bytes they stand for, as modbus ASCII
  has it, which `CoolerCtl.h:4` names.
* A gauge's frame has no head: a single stray byte before an answer shifts every field, and
  no checksum is looked at (`VacuumCtl.cpp:82`). `StoredAsSaid` is of whole stray lines.
* An upload that gets no session from libcurl leaves the form, the headers and the memory
  allocated (`DataTransfer.cpp:544`), below the comment `/* always cleanup */`;
  `ReturnsClean` counts them. The forms of `uploadTemperature` and `uploadVacuum` have a
  `time` (`:239`, `:262`) where the requests of `DataTransfer.h:50` have `utc`, and
  `uploadObsCtlSysStatus` posts neither `mountStatus` nor `cameraStatus`.
* `SynchClock`, called between `valid_` and `offset_` of `thread_body`, steps the clock by
  the previous offset, which may have been corrected already (`NTPClient.cpp:69`).
* A database that `enableDB` disables is used (`AnnexControl.cpp:106`), and `InitFile` gives
  the third port to the wrong variable (`parameter.h:100`). `ServesTheFile` is of the coolers.
* A signal that comes before the second fork is lost with the pipe of the `signal_set`
  (`daemon.cpp:81`). `SignalEnds` is of those that come after.

Bounds. `MaxLine` bounds what is on the link; in the timely runs at most one
exchange is ever there (`OneOutstanding`), so it is never reached, and in
`cooler_any` it allows two, enough for a late frame beside the current one.
`Budget` bounds the faults: one of each is enough to start every bad sequence,
two `Write` calls to queue behind each other. Two devices exercise both loops and
the growth of the list during a sweep; with three codes the front of the list, its
last element and the one between differ.

In `write_in_order` the ring holds three bytes and eight are written, so it is
full, empty and written over more than twice, with messages and transfers of one,
two and three bytes. In `message_queue` the queue holds two messages and four are
posted by two threads: both of them and `Stop` wait for room, and two messages of
each priority can be queued at once with others handled before.

In `frames` a ring of 52 bytes holds two answers and the stray bytes overflow it;
read events bring 1 or 9 bytes, so frames are cut everywhere; two devices, one
with a letter in its number, two fields and two values for each protocol; two
exchanges, so that what the first left behind meets the second. A byte that slips into
an answer is a digit, a letter or an end of line. The program's ring is
larger and its frames are the same. Settings are the longest that fit: ten
characters. `MaxNoise` 2 allows stray bytes before and after an answer.

In `parts`: two uploads, of a report of fixed parts and of one with a part that may be
missing, so that one starts and ends inside another; six days, each
with the day of the month of one other; four periods of the clock, where
two failures end validity, one late reply, which can put every later one out of step,
and clocks that are far off one way or the other;
two output buffers and three messages, so that the ring goes round; the periods of
`thread_cycle` and `thread_heartbeat` in ticks of two seconds (10 and 15), with an upload
of up to 22 s, longer than a period, and one step of the local clock, by the six seconds
that with these bounds make a false alarm, forward or back; `stepped_clock` has ticks of a second.
Of the service two processes, each started twice: four
starts, any two of which overlap, one of them after a kill. The runs that expect a
violation have the smallest instance that shows it.

The runs with faults or a `Stop` do not check for deadlock: after `Stop`, or after undefined
behaviour, of which the model says nothing, the system does stop; a writer stops
when everything it may write has left.

Fairness. Threads are scheduled (`WF` of `Cycle` and of `Respond`), the link
delivers what it carries, and `connect_serial` adds every configured device. No
fairness is assumed of faults or of the calls `Write` and `Stop`.
In `AsyncWrite` the operating system completes what it was given and the I/O
thread handles it (`WF` of `System`; `IOServiceKeep` keeps that thread running);
nobody has to write. In `MessageQueue` every thread runs: registration and
`Start`, `thread_message`, a poster that has entered `PostMessage`, and a `Stop`
that has begun, but nothing says that `Stop` is ever called or that anybody posts.
Weak fairness of `PostSend` is enough because what it waits for, room in the
queue, is contended for by a bounded number of messages (`MaxPosts`): a controller
reports one failure for each of its port's errors, not without end.
In `Heartbeat` time passes and the threads run (`WF` of `Poll`, `Answer`, `Miss`,
`Heartbeat` and `Tick`): losing, writing and stepping the clock are not fair. In `Service` a process runs
(`WF` of `Step(p)`); nobody has to launch, signal or kill one, and a call to the
operating system returns.

## Proofs

For every number of devices, code table, bound and budget of faults:

* `TypeCorrect`: the type invariant, with the loop bounds of `thread_cycle` even
  while `AddDevice` makes the list longer.
* `InTimeInvariant`, and from it `InTimeOneOutstanding`, `InTimeReadingsRight`,
  `InTimeReportComplete`: under `InTime` (no overlap,
  devices first, no unsolicited frame and no spurious wakeup). The argument is
  that a token goes round: the cycle thread that fills the list, the exchange on
  the link, the woken thread. `TokenInv` says that only one of them exists at a
  time. `ReportComplete` is not inductive: it needs `PendingInv` (a field not yet
  read has a directive in the list), `AnsweredInv` (the directive about to be
  removed was answered) and, for the sweep in progress, `GenerateInv`.
* `ImplementsStopAndWait`, from the same invariant: in time every step is a step of
  `StopAndWait` or stutters.
* `SweepsNeverOverlap`: without temporary directives, in every interleaving and
  with every fault. `SweepInv` adds what the next directive of `generate_directive`
  follows.

For every capacity and number of bytes (`AsyncWriteProofs`):

* `TypeCorrect`: the ring never holds more than its capacity.
* `OneWriteInvariant`, assuming `OrderedPort` (every port is `"tcp"` or
  `"polled"`): again a token, the one outstanding write, then its completion, then,
  for a serial port, the I/O thread between erasing and restarting. While it
  exists the ring is not empty or nobody writes, so `Write` starts no other;
  `Len(wire)` is `erased` plus the completion not yet handled.
* `ImplementsStream`, from it: every step is a step of `ByteStream` or stutters.

For every set of threads, codes and capacity (`MessageQueueProofs`):

* `TypeCorrect`: the queue never holds more than its capacity and only codes in
  range have a handler.
* `OnlyStopEnds`, assuming `NoQuitPosted` (no thread posts the code 0; the
  asynchronous connection of `AnnexControl` would, as `MSG_CONNECT_NETWORK` is 0,
  but nothing reaches it): `QuitInv` says that a `MSG_QUIT` anywhere means `Stop`
  is under way.

For every number of threads, period and bound (`PartsProofs`; each part keeps its own
invariant and the others' steps leave it alone):

* `AlarmsAreTrue`: a link that is not dead is reported only when the local clock was put
  forward since the last answer by `Beat - (Cycle + Slack + Exchange)`, of which 20 and 30
  seconds leave at most ten. `SinceInv` bounds the time since the last answer (`Since`, which
  is `td` less what the clock was put forward) by the cycle in progress and the wait of the
  exchange under way. That a step of less does no harm, and a step back none at all, is
  what the theorem is about; a longer one does (run `stepped_clock`).
* `LinesAreFiled`, assuming that the log is never silent for a month: `FileInv` says
  that the open file is the last line's, and the clock near it. `LinesAreWhole`:
  `PiecesInv` says what the owner of the mutex has written of its line.
* `ValidityExpires`: `CountInv` relates the age of the offset to the failures counted
  and to the periods that are not (those the run `offset_validity` is about).
  `AnswersAreOwn` and `SyncsAreAccurate`: `InStep` says that a reply in the socket is
  that to the last request, or that one came late, and that it tells the clock's error
  unless the clock was stepped from another thread since. After a late reply nothing is
  claimed.
* `CallsReturnClean`: `HeldInv` says what a call has allocated from place to place, and
  what the calls that were cut short have left, without a session or without memory.
  `LibraryStaysInitialised` counts the threads between `curl_global_init` and
  `curl_global_cleanup`, for any finite number of them.
* `MessagesReadBack`, for any number of buffers, any texts and numbers (`TextAssumption`:
  sequences of words, and a number has a digit): `TextInv` says that the `i`-th last message
  is in the `i`-th buffer before the next one, so that none of the last `Slots` is
  overwritten. That a receiver makes of a message what was said is a chain of lemmas for a
  message of any number of pairs: the flattened pairs split at the commas into themselves
  (`FlatSplits`, by induction over the pairs), a pair reads as its name and its word
  (`PairReads`), the last one as what `output_compacted` leaves of it (`LastPart`), and as
  the names are distinct each is found once, or never and then keeps what its constructor
  gave it (`FoundOnce`, `FoundNever`).

For every set of processes and configuration files (`ServiceProofs`):

* `OneServes`: `LockInv` says that whoever serves has forked twice and holds the lock
  as the process it then is. Swapping the lock and the forks would lose it.
* `Served`, which is of the coolers, their devices and the server's connection (not of the
  database, whose flag is ignored, nor of the gauges, whose port `InitFile` mistakes),
  assuming that the XML library yields a flag or nothing for a flag and a list
  for the coolers (`FilesAssumption`): `ServesTheFile` is not inductive, as a service is
  built in steps. `FileInv` says of each process what it knows of the file (`Known`: all
  of it, or, if it wrote the file, its members, which `DefaultsAgree` shows to mean the
  same), and how many of its controllers it has connected (`Connected`). It needs
  `LockInv`: while one process reads the file and serves, no other writes it.

For all bytes, texts and numbers (`FramesProofs`):

* `TenthsReadBack`: `atof` of what `encode_data` makes of a number. `CoolerFrameDecodes` and
  `GaugeAnswerDecodes`: `decode_data` of a whole frame. `TenthsFit` and
  `IntsFit`: the numbers of at most ten characters.
* What the recursive functions (`Decimal`, `Checksum`, `atof`) compute is proved by their
  defining equations and by least elements (`LeastElement`): the least number at which an
  equation fails contradicts the number before it. The induction theorems of the library,
  with their operator parameters, are not used. `Inductions` has induction over a set
  (`Induction`, `StrongInduction`) and the iteration of a function (`Iteration`); it models
  no code, and `FramesProofs` and `PartsProofs` rest on it.

For every set of devices, fields, readings, settings and stray bytes, and read events of
every size (`ReceptionProofs`):

* `TypeCorrect` and `MessagesFit`, from `Basics`: the message under
  way is the encoding of what was asked (`Meant`), and a
  setting is one of the numbers of `TenthsFit` and `IntsFit`.
* `ReadingsAsSaid`, `AnswersHeard` and `LogIsCurrent`, assuming `HarmlessNoise`, from `Inv`,
  which is `Basics`, `Store` and `Lines`. None of the three properties is inductive: whether the next read
  event stores what was said depends on every byte in the ring and on the wire. `Lines`
  says where the answer is in the ring and the wire together (`Line`): for a cooler, it
  is at a place `k` with no `':'` before it or after it, and the last byte of it has not
  been read; for a gauge, what surrounds it are lines shorter than the twelve bytes
  `decode_data` takes, and the whole of it is no longer than the ring. A frame that
  lost or gained a byte has an even length or no head or no tail (`Damaged`), and `decode_data` of a
  cooler refuses an even length, so it is never decoded as another value. `Store` says that the
  setter at work holds the value just said (`IoInv`), and which change of `data` is marked, being marked or being printed.
* What is assumed of the constants: `SettingsAssumption`, numbers that are
  temperatures have far fewer than ten characters (a `double` may have any number, which
  nothing checks), and a message has thirty bytes; `RoomAssumption`, a ring with room for an answer, what
  one read event brings and, for a gauge, the stray lines (`HoldsNoise`): the ring of
  `SerialComm` has 5120 bytes and a read event brings at most 512; `HarmlessNoise`,
  which is a hypothesis of the three and no assumption: stray bytes come between answers,
  at a cooler without a `':'`, at a gauge as lines of their own of at most eleven bytes.
  Nothing is claimed of a `':'` at a cooler, of stray bytes inside a gauge's answer or
  directly before it, where the code stores something else, or of
  more than one byte of damage to a cooler's answer: no checksum is verified.

Model-checked only: `StopEnds` (of both), `ReportedUndisturbed`, `EveryByteLeaves`,
`PostedIsHandled`, `DeadIsReported` and `SignalEnds`, which are liveness under fairness
and need `ENABLED`.

## Not modelled

* The `on_*` handlers of `AnnexControl`, `thread_network`, `DecoupleNetwork` and
  `TCPClient::AsyncConnect`: only messages lead to them, and those are dropped (run
  `annex_codes`). A synchronous connection never starts reading, so nothing would
  notice that the server is gone (`AnnexControl.cpp:29`).
* `TCPClient::Write` without a buffer: one blocking call of boost.
* `TCPServer`: not used by the program.
* What libcurl, boost and the operating system do inside; what follows undefined
  behaviour (`front` of an empty list, a queue destroyed under a thread, `fprintf` with
  a null pointer): the models record that it happened.
* Memory: the vector `data_` that `check_data` extends under a reader, and the order of
  destructors, which let threads call virtual functions of an object that is gone.
* The length of a text: `output_compacted` writes into 1024 bytes and checks nothing.
* A cooler's answer without data (nine bytes), for which the value is not initialised:
  devices answer with a number, and it would take two bytes lost at once.
* Two frames in one read event at a cooler, and a cooler's answer with nothing asked:
  `Reception` has one exchange at a time, `Controller` has both without the bytes.
* That `curl_global_init` is not safe in two threads at a time: its count is one step.
* The option `-d`, the wording of log lines, and what the program only copies: baud
  rates, the group, the server's address, the keys of NTP.
* `AMath`, but for `LRC` and `Checksum`: a numerical library that nothing calls, in
  floating point.
* `NTPClient` and `VacuumCtl` are modelled although the program has commented out what
  would create them (`AnnexControl.cpp:37`-`:44`).
