# NetBackup: TLA+ models, checks and proofs

NetBackup sends the files of client machines to a backup server. A client asks
over UDP, the server answers with a TCP port out of a configured interval and
forks a worker that receives the files on that port. A web monitor and two
terminals watch the workers and can pause or stop them.

Paths below are those of PROJECT.json: `src/` is the repository, its C and C++
code lives in `src/src/`, the web monitor in `src/monitor/`.

## 1. Inventory

| Component | State it keeps | Operations | What makes it correct |
|---|---|---|---|
| Dispatcher (`server.cpp` main, newBackup before fork) | shared table `processi[]`, `keepRunning`, UDP socket | answer `ba`, `id`, `pk`, `mo`; fork; shut down | a slot goes to one worker, is given back, at most `interval` workers, nothing left after shutdown |
| Worker (`server.cpp` newBackup after fork) | its slot's record, TCP sockets, the backup's directory | bind, accept, header, directory, file loop, give back | stores what was announced, for the host it came from; ends |
| Manager commands (`commands.cpp`) | table | NMR, GET, STP, TOG, SET | pause and stop take effect; a snapshot means something |
| Access control (`server.cpp` check_host_validity) | three lists, two flags | decide 0, 1 or 2 for a host | the lists mean what the configuration says |
| Client (`client.cpp`) | configuration, file list, sockets, key file | identify, save the key, ask, connect, send | announces what it sends; takes the right datagram for the right answer |
| Networking (`tcp.c`, `udp.c`) | `retries`, `delayms` | open, connect with retries, wait | retries end, errors are told apart |
| Configuration (`config.c`) | lines in memory | open, get property, lists | a name finds its own line and a list its own extent |
| File list (`FS.c`, loadCfg of the client) | array of names | list one directory | every entry is one file |
| Extraction (`extract.cpp`, `extract_all.cpp`) | two streams | read headers, decrypt, write | gives back what the client had |
| Terminal (`terminal.cpp`, `comandi/`) | global buffers | verify, load and run a command | what runs is what was verified |
| SSH terminal (`sshSession.cpp`) | session loops | authenticate, shell, exit | only an authenticated session reaches a command |
| Monitor (`Connector.java`, `WebSocketServer.java`, `monitor.jsp`) | one shared UDP socket | ask, command | an answer reaches the session that asked |
| Accounts (`Login`, `Logout`, `EditAccount`) | table `users`, sessions | log in, out, create, change | one account per name; changes need the password |
| Page widgets (`web/js/materialize.js`) | elements, flags, timers, animations in progress | open, close, turn, add, remove | what is seen is what is marked; nothing of a closed widget stays |
| Base32, MD5, AES, RSA | none | pure functions | decode inverts encode |

How they interact: dispatcher and workers share the table by `mmap` without a
lock, and the kernel's sockets and pids; client and server exchange UDP
datagrams and one TCP stream; monitor and dispatcher exchange UDP datagrams; the
terminals run in forked children that see the same table, and stop the server
with SIGHUP. The page's script (`monitor.jsp` line 186 loads it) is Materialize, a
library that is kept and shipped with the monitor; it talks to nothing but the
browser, and each widget keeps a state of its own between the user's events,
timers and the ends of animations.

What is hard: unlocked steps of several processes on the table; processes that
return where they were meant to exit; ports that stay busy; streams that end,
reset or fall silent; datagrams without a mark of what they answer; retries and
lengths with boundaries; a shutdown that acts on stale pids; SQL statements and
Java threads that interleave; animation ends and timers that come after what
they belong to has changed. PROJECT.json lists forty such places as hazards, each with
the properties that watch it or, where the code really goes wrong there, a note of what
the properties leave out for it; section 7 names the ones beyond.

## 2. Modules

| Module | Stands for |
|---|---|
| `SlotPool` | abstract: what the slot table promises |
| `BackupServer` | dispatcher, workers, table, kernel and clients as the server meets them |
| `BackupServerProofs` | theorems about it: types, exclusion, the refinement of `SlotPool`, directories, progress, slots given back |
| `Transfer` | the client's send loop, the stream, the worker's receive loop, byte for byte |
| `TransferProofs` | theorems about it |
| `CommonLemmas` | lemmas of several proofs: division, induction and recursion over numbers, sequences |
| `Session` | the client program with the dispatcher's answers and a worker, over UDP and TCP |
| `SessionProofs` | theorems about it |
| `AccessControl` | check_host_validity() |
| `Config` | openConfigFile() and getProperty() |
| `FileList` | the array of files of the client's loadCfg() |
| `Extract` | the extraction loop over a stored file |
| `Terminal` | local and SSH terminals, parseCommand(), the start and the end of main() |
| `HostProofs` | theorems about `Terminal`, `AccessControl`, `Config`, `FileList` and `Extract` |
| `Monitor` | pages, web socket, connector, the server's 'mo' answers |
| `Accounts` | Login, Logout, EditAccount, the checks of page and web socket |
| `WebProofs` | theorems about `Monitor` and `Accounts` |
| `Animations` | the order in which animations and timers of a page may end |
| `Filtering` | a sequence without some of its elements |
| `Collapsible`, `Dropdown`, `Modal`, `Materialbox`, `Tabs`, `Tooltip`, `Toasts`, `SideNav`, `ScrollSpy`, `Slider`, `Chips`, `Carousel`, `Autocomplete`, `Select` | one widget each |
| `OpeningProofs` | theorems about the widgets of `MCWidgets` that open and close |
| `WidgetsProofs` | theorems about the others, and about all of them together |
| `MCBackupServer`, `MCSession`, `MCExtract` | instances for TLC |
| `MCHost`, `MCWeb`, `MCWidgets` | sums of instances for TLC |

`BackupServer` composes dispatcher, workers, managers and kernel; `Transfer` composes client
and worker at the level of bytes; `Session` composes client, dispatcher and workers at the
level of messages; `Monitor` composes pages, connector, dispatcher and workers. `MCHost`,
`MCWeb` and `MCWidgets` put programs side by side that do not talk to each other: a variable
chosen at the beginning (`part`, `widget`) says which one runs. `MCHost` extends `Terminal`,
`AccessControl`, `Config`, `FileList` and `Extract`, `MCWeb` extends `Monitor` and
`Accounts`, so that their runs check the very properties that the theorems state; the
variables of a part that does not run stay as they began. The widgets share the same three
variables; how many headers, sections, slides, items, instances, messages and overlays there
are, the modals, the delays, the entries and the options are constants of `MCWidgets`. Their
state spaces add up, they do not multiply.

### BackupServer

State. `sock`, `pidOf`, `status`, `client`, `nof`, `ft` are the fields of
`backupThread` (`Headers.h`) that control reads; `holder`, `timeWait` and
`offers` are the kernel's: who is bound to a slot's port, which port is still in
TIME_WAIT, which clients were told a port and try to connect. Every process has
a program counter and the local variables of `newBackup()`. A slot is named by
its index, and its port with it.

Atomicity. A step touches the shared table, the kernel or a socket once, so
every interleaving of the unlocked code is a behaviour. `RecvBackup` reads the
free slot and answers; `Reserve` marks it and `Fork` makes the child, as in the
code (lines 239 to 250 of `server.cpp`). The two assignments of `Reserve` are one
step: the single dispatcher writes them one after the other and every reader of
`client` is reached only from a worker's later step; a rogue dispatcher changes
both fields as well.

Details that are in the model because they matter:

- `getSlot()` takes every value below -1 for free, so the -2 of a failed `bind()`
  looks free; the bind loop's counter is 5 after a late success and 6 after the
  last failure, and only 5 is tested (`BindLate`, `BindNever`).
- A worker whose `newBackup()` returns (a late bind, a compressed file that cannot
  be opened) goes on with `main()`'s loop: it becomes a second dispatcher. This is
  why any process may take the dispatcher's actions.
- `recv_tcp()` treats the end of the stream, a 0 of `recv()`, as no error: the
  worker spins (`Spin`). An error is -1, and where the code stores it in a
  `size_t` the block's length becomes huge: `BodyFails` lets the process survive
  or die.
- After a failed header the number of files is any number (the variable is
  uninitialised).
- The command STP calls `shutdown()` on a descriptor number of the worker's own
  table; in the dispatcher it reaches no worker's connection, so only its
  counters change.
- The child writes its pid itself. At shutdown the loop kills the pid the record
  holds then, and a pid of 0 means the whole process group (`Kill`).
- SIGHUP from a terminal reaches the first process only, SIGINT the group.

Abstracted: a file is one unit of the connection (its bytes are in `Transfer`);
the many fields that are only displayed; time, so sleeps are any delay; a rogue
dispatcher's own children inherit its bound port in the code and not here; after
`OpenFails` the stream is out of step in the code, here the next unit is read.
An ended worker's process id may be used again, as pids are.

### Transfer

State. `dims` are the lengths of the files; `cpc`, `cf`, `fpos`, `sent` are the
client's place; `rpc`, `rf`, `td`, `want`, `got`, `transferred`, `ft` the worker's;
`at` names the next item of the stream. The stream itself is not stored: its
items are `<<file, k>>`, with k = 0 for the header, and everything between `at`
and the client's place is in it. One byte for each `recv()` gives every cut TCP
can make. `Threshold` stands for the literal 512 and `Width` for the range of
`uint64_t`. Files are readable and keep their length while they are sent.

### Session

State. `toServer` and `toClient` are the datagrams under way, reduced to their kind;
`keyFile` is `archive/<server>.public` (none, half of it, wrong, good), the only thing that
outlives a run; `pc`, `res`, `lengthOk`, `parts`, `port`, `tries`, `tcp`, `cf` are the
locals of `client.cpp`; `worker`, `askedBy` (the slot's `client`), `paused` (its `status`),
`serves`, `left`, `stream`, `closed` the server's side of every slot. The client program is
started `MaxRuns` times.

Details that matter: the socket is not connected and a `recvfrom()` takes what comes
next (`Receives`); its result is not tested, so a time-out leaves `Nothing` in a part of
the key and the next part goes on; the identity's answer is read with one byte less
than it has, so its length may be wild (`lengthOk`) and the program crash
(`WildLength`); a `send()` of -1 is not less than an unsigned size, so a client without
a connection goes on to return 0 (`SendHeader`). `SO_RCVTIMEO` passes only when nothing
is under way unless the fault `delay` is on. There is no such time-out for `send()`: the
connection holds `Room` items, then `Put` waits for the worker, and a worker whose slot is
paused takes no file (`NextFile`) until a manager toggles it again (`Toggle`).

`setting` is one of six installations, each with its faults; it never changes.

### Monitor

State. `instance`, `made` are what getInstance() has made; `conn`, `spc`, `todo`, `len`,
`rows`, `since` belong to a page's thread; `inbox` and `receiveData` to a connector, that
is to its socket and its one buffer; `task` and `buffer` to the server's loop; `table` to
its workers. `since` and `ver` are for the properties: each change of a slot has a
version. The two calls of getInstance(), every send and every receive are steps of
their own. `receiveData` is never cleared and a number fills only its first bytes
(`Fill`); the record's status is read from the upper half of the time (`Row`); the
numbers of commands are read from a buffer with the end of an earlier datagram behind
them (`Received`). A page whose port is not 5577 waits for ever: its request goes
elsewhere (`AskRecords`).

### AccessControl, Config, FileList, Extract

Each is one program without a partner, over small inputs chosen at the beginning.
`AccessControl` keeps addresses as sets of bits, the mask being the number after the
slash taken for a mask, as in the code, and a managers' list walked to the other list's
length. `Config` reads characters: comments and empty lines are skipped, spaces left
out, a tilde becomes one, the string's terminator is put where the source ends, a line
`_` stops the count and not the copy. `FileList` keeps names as pairs of entry and
file, with the stat() nobody tests. `Extract` reads the bytes that `Transfer`'s client
and worker have stored, headers between them, with an int that overflows at `IntMax`.

### Terminal

Every process has a `step`. A session passes three loops (authentication, channel,
shell), each waiting for its kind of message; a line is read, handled, verified,
loaded. The local terminal takes one line at a time, a session all that has arrived,
of which it keeps the first. `file` counts the replacements of a command's file, of
which every other one is signed. `Exit` sends SIGHUP to a number, whosever it is by then.
`main` passes through `Stages`: it forks the terminal and the listener before it has a
socket, and its handler shuts down whatever `server` is, so an exit in that time leaves
`recvfrom()` waiting for one more datagram (`unblocked`, `Deaf`, `LastDatagram`).

### Accounts

Every servlet is a thread with one SQL statement a step: login checks, then stamps the
session's key on the row whose name and password still match; a password change checks,
then sets; an account is looked for, then inserted. Messages of the web socket and all
branches of EditAccount take a connection of the pool and keep it. Keys are fresh
numbers.

### The widgets

All have `dom` (the closure's variables and the part of the document they own), `calls`
(animations and time-outs that have not ended) and `events` (a bound on how often
somebody still touches them). `Animations` keeps the order of the ends: of the calls
one clock counts, one that began earlier and takes no longer ends first; how far one
clock is ahead of another is open. An end looks at `dom` as it is then, which
is what most of the properties are about. An action is a handler or a method of the
plugin's; the end of an animation is the closure passed as `complete`. What is drawn
(sizes, places, colours, images) is left out, as is what has no memory.

## 3. Runs

| Run | Checks | Bounds | Result |
|---|---|---|---|
| `server_clean` | `TypeOK`, `WithinInterval`, `StoredForPeer`, `NoLeak`, `NeverPastTheEnd` | 2 slots, 3 pids, 2 clients, 2 files, pauses, no faults | holds |
| `server_live` | `SlotReturned`, `OfferAccepted` | 2 slots, 2 pids, 2 clients, 1 file, pauses, fair | holds |
| `server_faults` | `SlotExclusive`, `OnlyMainDispatches`, `PoolSpec` | 2 slots, 2 pids, 1 client, all faults but `StraySources`, stops | holds |
| `server_stray` | `OneReceiver` | 1 slot, 2 pids, socket, TIME_WAIT and disk faults, signals, compression | holds |
| `transfer_plain` | type, announcement, alignment, buffer, progress, `BackupEnds` | 2 files of 0 to 8 bytes, block 3 = threshold, fair | holds |
| `transfer_encrypted` | `Aligned` | 2 files of 0 to 8 bytes, block 4 > threshold 3 | holds |
| `session_all` | `KeyNeverWrong`, `PortAnswered`, `ReturnedIsStored`, `ClientEnds` | 2 tries; no fault: 2 files, 2 slots, 3 starts; losses, pauses, bad disk: 2, 2, 2; pauses, buffers of one file: 2, 2, 2; losses, slow workers, unreadable files: 2, 2, 2; delay with reordering, delay with one datagram twice: 1, 1, 2; at most 2 toggles; fair | holds |
| `host` | `NetworksAreMonotone`, `FoundIsAsked`, `ListedOnce`, `Restored`, `LinesAfterLogin`, `LocalIsNeverLate`, `ExitStops` | see below | holds |
| `web` | `WholeInPlace`, `OwnSocketInPlace`, `RowsAreFresh`, `LastLoginHolds`, `OldPasswordOpensNothing` | see below | holds |
| `widgets` | `NothingLeftBehind`, `OneSelected`, `ShownAsMarked`, `Told`, `DataMatchesView`, `InRange` | see below | holds |
| `wrong_directory` | `StoredForPeer` | 1 slot, TIME_WAIT | violated |
| `second_file` | `Restored` | 2 plain files of up to 5 bytes under one name, packets of 2 | violated |

What the properties of the later runs say, and of what:

- `KeyNeverWrong`: whatever datagrams are lost, the key file is never one that is
  neither the server's nor recognisably half. `PortAnswered`: whenever the client is about
  to connect, the slot was given to the socket of this very run (`askedBy`) and its worker
  has served nobody since. Both only while answers come in time, once and in order: with
  delays they fail, and that is the code (section 6). `ReturnedIsStored`: where datagrams
  are only lost, a client that returns 0 has its files stored, eventually, unless its slot
  is left paused for ever. `ClientEnds`: every start ends, under every fault, unless it is
  held in send() by a slot that is left paused (section 6).
- `NetworksAreMonotone`: one more network in a list never has the opposite effect.
  `FoundIsAsked`: getProperty() gives the first line of that name in the part of the
  file that counts, unless a shorter name stands before. `ListedOnce`: with directories
  last and slashes written, every file is listed once. `Restored`: what was stored comes
  back, encrypted or alone. `LinesAfterLogin`, `LocalIsNeverLate`, `ExitStops`: no line
  before the login; the local terminal never signals a number that is no longer the
  server's; an exit ends the server or, before it has its socket, leaves it waiting for
  one more datagram.
- `WholeInPlace`, `OwnSocketInPlace`, `RowsAreFresh`: the only page's answers are in
  place whatever is lost, a page with a connector of its own is not disturbed, no row is
  older than its question. `LastLoginHolds`: of one user's pages only the last login's
  are accepted. `OldPasswordOpensNothing`: a key is written only for the password of
  that moment.
- `NothingLeftBehind`: at rest no overlay, key listener, click handler, toast or lock of
  the page's scrolling is left of what is closed (modal, side menu, picture, toasts,
  drop-down). Three limits stand in it, because the code goes beyond them (section 6): of a
  side menu touched while something moved it only says, where nobody pans, that a locked
  page has an overlay to click; a modal destroyed while it is open stays open; a drop-down
  closed before its time-out of 0 keeps its handler (`early`).
  `OneSelected`: one slide, at most one chip and, besides the tabs the page had marked, one
  tab, at every moment. `ShownAsMarked`: at rest, what is seen is what the classes say,
  of the drop-downs for those aligned to the right, of the modals for closed ones, of the
  slides unless a pan began while the end of another moved, of the carousels without wrap
  for those on their track. `Told`: the page's callbacks have told of each opening and
  closing. `DataMatchesView`: a chip's data, a select's value and the list of proposals are
  what is seen. `InRange`: the completion's index is an entry's, and a carousel rests on an
  item, the one asked for, as long as it is on its track (`OnTrack`): nobody has sent a line
  without wrap past its end last, and no resize has forgotten its padding.

Bounds of `host`: addresses of two octets of two bits, four hosts, three networks, at most
one of them configured (`MaxNetworks`), lists of one and two; files of at most four lines
out of eight kinds and two names; lists of three entries with up to two files; three
encrypted files of up to five bytes with blocks of 4 or one plain of up to seven, read by 2,
the int's largest value 20; one SSH session and the local terminal, two lines each, four
messages, two replacements of the command.

Bounds of `web`: one page with two messages, two changes, losses and other datagrams, the
same with another port, or two pages with one message each and two connectors, two slots;
two browsers, two names, two passwords, two logins, two edits, one message, three
connections in the pool.

Bounds of `widgets`: items and events touched are 3 and 4 for the collapsible, 6 events for
the drop-down, 2 modals with 3 instances and 6, 7 for the picture, 3 tabs and 4, delays of
50 and 350 ms and 7 for the tooltip, 3 toasts of 0 to 2 ticks and 6, 3 overlays and 5 for
the side menu, 3 sections and 4, 3 slides, 2 ticks and 3, 4 chips and 5, 3 carousel items
two wide, none or one of it padding, with moves of up to 3 and 4, 2 proposals of 3 and 6, 4
options, two disabled, and 4 for the select.

Why the bounds are enough. Two slots let one be taken while the other is chosen;
a third process id lets a worker too many exist if a mark were wrong; two clients
tell a right directory from a wrong one; one slot is enough where slots do not
interact, and keeps the run with stray dispatchers small. Two files cross every
border of the loops (first file, header after a file, last file); lengths up to 8
with blocks of 3 and 4 cover empty files, files shorter than a block, whole
numbers of blocks and every remainder. Two starts of the client are what a saved key
needs to be met by a later one; three are one more than the slots. Buffers of one item hold
a client at its first file but one, which is where more room would hold it later; two toggles
pause a slot and let it go on, or pause both. Two pages and two
connectors are the race of getInstance(). Three items of a widget have a neighbour on
each side and a way around; the numbers of events are those at which every hazard listed
has happened in the middle of another's animation, and the mutants, found within them,
show that they bite. The liveness and stray runs end because nothing counts without
bound: `MaxFiles` bounds announcements, `MaxTries` is the code's own 5.

Deadlock. Where faults are on, and in the violated runs, checking for deadlock is off: a
worker that waits for a silent peer, a server that was shut down, or one whose slots were
all left marked by processes that returned, really stops (a request without a free slot
changes nothing). In `session_all`, `host`, `web` and `widgets` it is off because the
programs end, or because nobody has to touch them again. Everywhere else TLC checks it.

Fairness. `Handle` (the dispatcher's pending work) and `Serve` (a worker) are
weakly fair: the operating system schedules every process. Requests and commands
are not: nobody has to ask. `Accept` stands for the client's `connect()` as well,
which is tried eight times at one second's distance (`tcp.c`); that the worker is
bound within that time is assumed in `OfferAccepted`, and `ClientGivesUp` drops
the assumption in the runs with faults. In `Transfer` both processes are weakly
fair. In `Session` the client's steps (its prompt is answered by somebody), the
dispatcher and every worker are; starting a client, pausing, letting go on, losing and
doubling are not. In
`MCHost` the terminals' own steps, the start of main() and its end once `recvfrom()` returns
by itself are; connecting, typing and sending the server a datagram are not.

What the violated runs show (PROJECT.json quotes the lines):

- `wrong_directory`: a port that stays busy for six attempts, three seconds, makes the
  worker publish -2, the slot looks free, and another request replaces the slot's client
  before the first worker names its directory after it.
- `second_file`: a name under which two files are stored unencrypted gives back the
  first only: its last block is read into the header of the next.

Every property of a passing run has a mutant: a definition with a plausible bug
(`ReservedLooksFree`, `KeyAnswerSwapped`, `GoneWithTheLast`, ...) under which that run
fails. The mutants stand before the definitions they change and nothing uses them.

## 4. Proofs

| Theorem | Says | Assumes |
|---|---|---|
| `TypeCorrect` | `Spec => []TypeOK` | `ConstantsOK` |
| `OneReceiverAlways` | `Spec => []OneReceiver`, all faults | `ConstantsOK` |
| `SlotsExclusive` | `Spec => []SlotExclusive` | `NoStray` |
| `MainDispatches` | `Spec => []OnlyMainDispatches` | `NoStray` |
| `IntervalBounds` | `Spec => []WithinInterval` | `NoStray` |
| `PoolImplemented` | `Spec => PoolSpec` | `NoStray` |
| `RightDirectory` | `Spec => []StoredForPeer` | `NoStray` |
| `ProgressEnds` | `Spec => []NeverPastTheEnd` | `NoStray`, no STP |
| `SlotsGivenBack` | `Spec => []NoLeak` | no fault, a process for every slot |
| `SentIsAnnounced` | `Spec => []SentAsAnnounced` (Transfer) | `TransferConstants` |
| `TransferTypes` | `Spec => []TypeOK` (Transfer) | `TransferConstants` |
| `StaysAligned` | `Spec => []Aligned` | `SafeBlocks` |
| `BlocksFit` | `Spec => []BlockFits` | `SafeBlocks` |
| `ProgressStaysBounded` | `Spec => []ProgressBounded` | `SafeBlocks` |
| `KeyIsServers` | `Spec => []KeyNeverWrong` (Session) | `InOrder`, inside the property |
| `PortIsAnswer` | `Spec => []PortAnswered` (Session) | `InOrder`, inside the property |
| `LoginComesFirst` | `Spec => []LinesAfterLogin` (Terminal) | `TerminalConstants` |
| `LocalSignalsInTime` | `Spec => []LocalIsNeverLate` (Terminal) | `TerminalConstants` |
| `NetworksOnlyAdd` | `AccessSpec => []NetworksAreMonotone` | `AccessConstants` |
| `FirstOfTheName` | `ConfigSpec => []FoundIsAsked` | `ConfigConstants` |
| `EveryFileOnce` | `ListSpec => []ListedOnce` | `ListConstants` |
| `StoredComesBack` | `ExtractSpec => []Restored` | `Restorable` |
| `LastLoginAlways` | `AccountsSpec => []LastLoginHolds` | `AccountsConstants` |
| `PasswordGuardsKey` | `AccountsSpec => OldPasswordOpensNothing` | `AccountsConstants` |
| `WholeAnswersInPlace` | `Spec => []WholeInPlace` (Monitor) | `MonitorConstants` |
| `OwnAnswersInPlace` | `Spec => []OwnSocketInPlace` (Monitor) | `MonitorConstants` |
| `RowsAlwaysFresh` | `Spec => []RowsAreFresh` (Monitor) | `MonitorConstants` |
| `OneIsSelected` | `Spec => []OneSelected` (MCWidgets) | `WidgetConstants` |
| `IndexesInRange` | `Spec => []InRange` (MCWidgets) | `WidgetConstants` |
| `DataIsSeen` | `Spec => []DataMatchesView` (MCWidgets) | `WidgetConstants`, `Placeholder` |
| `NothingStays` | `Spec => []NothingLeftBehind` (MCWidgets) | `WidgetConstants` |
| `SeenIsMarked` | `Spec => []ShownAsMarked` (MCWidgets) | `WidgetConstants` |
| `CallbacksTell` | `Spec => []Told` (MCWidgets) | `WidgetConstants` |

What the named assumptions ask of the constants: `TerminalConstants`, that the local
terminal's process is none of the sessions; `AccessConstants`, that the flags are numbers
and the bound one, too; `ConfigConstants`, that lines are sequences; `ListConstants`, that
the two bounds are; `ExtractConstants`, that lengths are numbers and a header, a packet and
a block have a byte; `AccountsConstants`, that the accounts of the beginning are finitely
many and have names and a password; `MonitorConstants`, that there is a slot, finitely many
pages, and a value that stands for no connector; `WidgetConstants`, that there are slides
and items and the latter are some distance apart, that counts, bounds and the lengths of
messages are numbers, that no entry and nothing typed is the word "undefined", and that the
disabled options are options. TLC evaluates each of them in the runs.

`NoStray` says that the faults of `StraySources` (failing sockets, TIME_WAIT, a full
disk) do not happen. It is necessary: with a port in TIME_WAIT the marks of the table
come apart from the workers, which `wrong_directory` shows.

The argument. `OneReceiver` follows from `PortInv`: a worker with an open connection
holds its slot's port, and the kernel gives a port to one process. `SlotExclusive`
is not inductive: `SlotInv` adds `WorkersStay` (no worker comes back to the
dispatcher's loop), `PortsTidy` (a held port belongs to a live worker of that
slot, so a bind never fails) and `MarksTrue` (a live worker's slot, and the slot
the dispatcher is about to give, is never marked free). Each action has a step of
its own. `IntervalBounds` turns exclusion into a bound: the slot variable maps live
workers into `0 .. Interval - 1` one to one. `PoolImplemented` maps `owners[s]` to the
live workers of s: `Fork` is `Acquire`, `GiveBack` and every death are `Release`, all
else stutters.

The second part of `BackupServerProofs` builds on that. `ProgressEnds` counts: a worker's
files received and files to come are together never more than the end the table shows
(`CountInv`), but for the moment between the two writes with which it begins, when the last
backup's count stands beside the new number and which `NeverPastTheEnd` names; the command
STP writes both counters and is excluded. `RightDirectory` follows a client's name through
four steps of two processes: the offer is kept for the client until accept() takes its
connection, nobody else's request can be given the slot meanwhile, so the name in the table
is still the sender's when the worker makes the directory (`PeerInv`). `SlotsGivenBack`
needs that a marked slot has a live worker or is being forked for (`LeakInv`), and that the
fork finds a process: with at least as many workers as slots, a count of the live workers
against the slots gives one (`ForkSucceeds`).

`SentIsAnnounced` needs the client's loop invariant (bytes sent equal
bytes read, a multiple of the block) and lemmas on division stated first.

`SafeBlocks` is `Block = Threshold \/ (Encrypted /\ Block >= Threshold)`, the relation
between the client's block and the worker's loop under which both ends agree where a file
ends. It is necessary: with plain blocks longer than the threshold TLC finds `Aligned`
violated, with shorter ones `BlockFits`. The three theorems share one invariant, `InStep`:
the worker knows its place. Between files it stands at a header, inside a file it stands at
the byte its counter says, of the file whose header it read. `HeadItem` and `ByteItem` say
what the stream holds at such a place; the step that matters is the one that ends a file,
where the padding the client sent and the bytes the worker still reads are the same number
because both round up to the block.

`SessionInv` says what may be under way at each wait of the client. Each begins with nothing
in the two channels but its own request or the answers to it (`Awaited`), because without
delays a time-out passes only over an empty network; that is why a lost datagram cannot
make a later answer be taken for it. The parts of the key, those read and those on the way,
rise in rank (`KeyOnItsWay`), so that a missing part leaves a gap and never a swap, and a
whole key is the server's. That the port is this run's own comes from
`Kept`: a slot marked for the run and waiting for its client stays so, because only a free
slot is given away (`StaysGiven`). `InOrder` (nothing late, reordered or doubled) is the
hypothesis inside the two properties; with delays both fail, as section 6 says.

`TerminalInv` holds a session's steps against its login: the only way into the loop that
handles lines leads through the password (`EnteredByLogin`), and the local terminal has ended
wherever the server has (`LocalEnds`).

`NetworksOnlyAdd` needs no more than that the lists stay what they were; the argument is
in the exclusive or: a number other than 0 that stands for a blacklist need not be 1, and
with one bit turned it never rises from 0 or below to above 0 (`FoundMore`).

`FirstOfTheName`: the two passes over a file skip the same lines, so that the one copied i-th
is the i-th of those that count (`ConfigInv`), and what is left of the part up to the line that
stops is a beginning of what is left of the whole (`LeftBegins`); the lines behind the number
counted are therefore never looked at. What mstrcpy() may leave at a line's end is no equals
sign and changes no name (`SameLine`). The first line that matches has the very name, because
the property's hypothesis puts the name itself in front of each shorter one.

`ListInv` says why a file finds the place it is copied to, which is the number of its
element and not the array's last: while every element so far was a file, the array is as
long as there were elements (`UpToNow`), and with the directories last that is so for every
file. The array has, without repetition, the names that the elements behind it stand for; at the
end it is therefore a bijection from its places to `Meant`, which gives the number.

`Restorable` says of the settings that there is one file, plain or encrypted, or that all
are encrypted with a block that is a multiple of the packet, and that no length passes the
largest int. It is necessary: several plain files are the run `second_file`, and a counter
that overflows ends a file early. `ExtractInv` then says where the loop stands: between two
files in front of the next header (`AtHeader`), in a file at the byte it has counted to, with
a whole number of packets before it unless the file is the only one (`InFile`); what is
written of a file is a beginning of it (`Beginnings`), which a packet makes longer by exactly
what fread() left in the buffer (`PacketBytes`, `MoreBytes`). At the end the beginnings are
whole files. `Start`, where a file begins in the stored bytes, is a recursive function: that
there is one, and that it rises, are the lemmas `Places` and `Rising`, by induction on the
number of files. The library's induction theorems take an operator, so `CommonLemmas`
states induction for a set of numbers instead (`Reached`), from the theorem that a set of
numbers has a smallest one, and shows that a function defined by recursion over numbers
exists (`Recursion`).

`AccountsInv`: while no two inserts of one name have overlapped, names are unique in the
table, and no insert that is still to come is for a name that is there or for the name of
another (`NamesUnique`, `InsertsNew`, `InsertsApart`). One row for a name has one key, so two
pages it accepts have the same. `OldPasswordOpensNothing` holds because the statement that
stamps the key has the password in its condition; what the login read before is not used.

`MonitorInv` speaks of a page whose connector no other page has (`Private`). What it waits
for, what is in the socket, what the dispatcher still works on and what it has asked for
belong together: either the rest of the answer is complete and in order (`Complete`), or the
request went to a port where nobody listens (`Elsewhere`), or something was lost and what is
left is less than what it reads (`Short`), so that it waits for ever and cannot take one
thing for another. `Fresh` adds that every record on the way was read from the table after
the question. Two facts about the connectors carry it: a connector, once held, is held by a
page that keeps it (`ConnectorsGiven`), and nothing is under way for one that nobody holds
(`OnlyForHeld`); so the steps of other pages leave it untouched, which is a lemma for
each of them.

The widgets' theorems have an invariant for each widget. A slider's is that the active slide
and the marked indicator are one and the same (`Turns`), and that what is pending ends in
ways that leave both alone; a chip is selected only while the input has no focus, which is
why a click and a key never leave two (`AtMostOne`). Chips and their data are the same line
as long as no tag is empty (`Line`): a deletion takes the same place out of both. A select's
ticks, the values it hands over and the label are one set and one sequence (`Agree`); most
handlers only move the marks and leave those alone (`SameAgree`). `Placeholder`, that the
first option is disabled, is necessary: without it a list of several choices begins with the
first option as its label and none chosen (`materialize.js` 4862), and TLC finds
`DataMatchesView` violated in the first state. Until a resize forgets its padding a
carousel's target is the place of an item, the one asked for last (`Goal`), and unless it is
held it is there or a frame is pending that brings it nearer (`Arrives`): clicks, drags and
resizes in the middle of a movement keep both. That `cycleTo()` ends at the item whichever
way around it goes is arithmetic: the two remainders, that of JavaScript with its sign and
that of wrap(), differ from the number by whole turns (`Turned`, `SameItem`, `WayLeads`).
Sequences, pending animations among them, lose elements by `Without`, a recursive function;
its lemma `WhatIsLeft` says what remains.

`NothingLeftBehind`, `ShownAsMarked` and `Told` speak of the moment when nothing is under way
any more; their invariants say, at every moment, who will put right what is not right yet.
What may be under way is any sequence of animations and timers, so each invariant relates
`dom` to what is pending:

- Picture (`BoxInv`): at most one animation runs, it is the growing or the going back, and
  handlers, overlay and flag are those of that moment (`GoesOut`, `GoesBack`).
- Tooltip (`TooltipInv`): over the element the text is seen with nothing under way that hides
  it, or the timer that shows it is (`Appears`); elsewhere the reverse (`Vanishes`).
- Dropdown (`Reacts`): a menu that ends the animations before its own is on the way its button
  asks for, and nothing pending hides one whose button is active (`Follows`); the document has
  the handler of an active button or is about to get it, and that of another only if the menu
  was hidden before the time-out that adds it (`Listens`).
- Modal (`ModalsWork`): a closed instance has no key listener, and an overlay only while its exit
  is pending; a locked page has an open instance; a modal that is seen is open or leaves.
- Side menu (`NavWorks`): as long as nobody pans, a locked page has an overlay that no removal is
  pending for (`Clickable`); as long as it is touched at rest only, it comes or goes as a whole
  (`MenuComes`, `MenuGoes`, `Calm`).
- Messages (`ToastsWork`): list and container hold the same messages once, and each has its timer,
  is under the hand, is going, or has no time left.
- Carousel (`Marks`): the marked indicator is the item that scroll() found for the present place;
  that `%` and wrap() then name the same one is `SameNumber`.
- Slider (`SlideSeen`): whatever is seen beside the active slide, or is going to appear, has a
  fade that ends after it (`Covered`), or a pan holds it (`Peeks`); the active slide is seen, or
  appears, with nothing behind that to hide it (`Lit`). Both are about the order of what is
  pending: a fade takes as long as anything does, so it ends only when it is the oldest.
- Collapsible (`ItemRight`): for each item the body is where its header wants it or moves there
  (`BodyFollows`), and the last callback agrees or is the one that the movement ends with
  (`Heard`). An accordion that is built with several open headers runs through all of them
  (`AllOpened`, induction over the items).
- Scroll spy (`Spied`): the list has each section that was told to come once, and the marked
  link is that of the head (`Listed`), kept through a pass over all sections that come
  (`AllEnter`) and go (`AllExit`), both inductions; while a scroll is not yet looked at, the
  first scan or the throttle's timer is pending.

Left to TLC is liveness, that a transfer or a client ends included, since it needs fairness and
ENABLED: `SlotReturned`, `OfferAccepted`, `BackupEnds`, `ReturnedIsStored`, `ClientEnds`,
`ExitStops`. Every invariant that a run finds to hold is a theorem.

No theorem depends on a RECURSIVE operator; `Start` of `Extract` and `Without` are recursive
functions.

## 5. Plan

What is left, in this order:

1. A refinement between `Transfer`'s stored bytes and what `Extract` reads: both describe
   the stored file on their own now, the one byte for byte as it is received.
2. The pickers of date and time and the parallax of the page's script.

## 6. Where the code and its documents differ

Two of these have a run of their own, with the line they contradict quoted in
PROJECT.json. The others were met while the modules were written; each is part of its
module's actions, and the module's properties are stated for the rest.

In the server and the client:

- The bind loop's counter is 6 after the last failure, the test is for 5
  (`server.cpp` 268): -2 is published and the slot looks free, so more workers than
  `interval` (README 381) exist.
- Stop (`commands.cpp` 37) shuts a descriptor of another process down: the backup goes on
  and the progress shown passes its end.
- The shutdown loop (`server.cpp` 535) kills the pid of the slot's previous worker when
  the new one has not written its own.
- The manual allows any multiple of 16 as a block (README 32), the receive loop
  (`server.cpp` 358) only knows 512: longer plain blocks take in the next header,
  shorter ones overrun the buffer.
- The new number of files and the count of files that have come are written one after the
  other (`server.cpp` 284, 285): GET (`commands.cpp` 25) between the two shows the last
  backup's count against the new number, past its end when that was more.
- An answer later than its time-out is taken for the port (`client.cpp` 353).
- The client's send() has no time-out (`client.cpp` 278, 301): with more to send than the
  buffers hold, a slot left paused (`server.cpp` 313) holds the client for ever; with less,
  the client has returned 0 long before its files are stored. The pause outlives its backup.
- A file that cannot be opened is announced and not sent, and the client returns 0
  (`client.cpp` 253); the worker waits for it for ever.
- The identity's answer is read without its last byte (`client.cpp` 171): its length is
  wild unless the stack was 0, and the right server is not recognised.
- The managers are walked with the other list's length (`server.cpp` 409); the number
  after the slash is taken for a mask (425); a blacklist setting other than 0 and 1
  gives answers that are no truth values (431).
- A property's name finds the lines whose name it begins with (`config.c` 124); an
  element with a colon in its first two characters ends a list (128); a line's
  terminator is put behind the memory's old contents (28).
- A file behind a directory in the list is written to the wrong place of the array
  (`client.cpp` 115).
- The extraction's counter is an int: long files are cut (`extract.cpp` 60), and the bar's
  product overflows earlier (63).
- An `exit` typed before the server has its socket (`server.cpp` 459 to 477) shuts
  descriptor 0 down and does not wake the `recvfrom()` of 485: the server goes on, answering
  nobody, until the next datagram.
- Lines typed behind the first one of a packet are lost in an SSH session
  (`sshSession.cpp` 200).

In the monitor:

- Two pages on one connector take each other's answers (`Connector.java` 81); a short
  command is read with the last digit of a longer one (`commands.cpp` 35).
- The status of a record is read from the upper half of its time (`BackupThread.java` 40),
  so that no pause is seen; the buttons are drawn for slots without a socket only
  (`monitor.jsp` 265); the records are asked from port 5577 whatever is configured
  (`Connector.java` 76).
- Every message takes a connection out of the pool and keeps it
  (`WebSocketServer.java` 46).

In the page's script (line numbers of `materialize.js`):

- A modal opened again while it closes is hidden by the end of the closing (2114); one
  destroyed while it is open leaves its key listener and the page locked (1944).
- The end of the side menu's fade-in after a close says that it is open (4070), and a
  fling leaves `menuOut` as it was (3977).
- The tabs' `clicked` is cleared by the timer of an earlier click (2777); a change of
  `location.hash` does not unmark the others (2632).
- A drop-down opened again while it fades out stays active and hidden (1780). One that is
  closed before the time-out of 0 that adds the document's handler (1769), by a pointer that
  leaves at once or a program, keeps that handler, and the next click that opens it closes it
  again, until it is used up.
- A section that loses its height keeps its link active (4274).
- A slide is taken to be the current one after another pan has begun (5369).
- A carousel of full width with a padding is set between two items by a resize, which counts
  the distance without it (9745, 9746), and one that moves loses its place.
- A click in a carousel's view outside every item has the index -1 (9610) and turns it, on a
  line without wrap to the place before the first item; the methods next and prev (9766, 9784)
  go past such a line's ends as well.
- A tag that is empty shifts the numbers of the chips against their data (5704).
- A collapsible's method stops an animation and its callback is lost (1562).
- The arrow keys stop at a disabled option, although the comment at 5084 says
  "move to next not disabled option"; the letters typed are cleared by the time-out of
  an earlier key (5106).

## 7. Hazards beyond the list

PROJECT.json's list holds forty: those the properties watch, and those they are limited
by. These were seen as well, and no property is spent on them: the body of a file the
worker cannot open is not consumed (`server.cpp` 346); -1 of recv_tcp() becomes a huge
length (364); a length is taken before its file is read (`client.cpp` 259); stat() and
mkdir() are two steps and the directory's name has a resolution of one second
(`server.cpp` 296); a buffer of recvfrom() holds the datagram before (485); fork()'s -1
is kept as a pid (459); the copying pass of a configuration does not stop where the
counting one did (`config.c` 75); stat()'s result is not tested (`FS.c` 21); a command
is verified and loaded in two steps (`terminal.cpp` 105); an account's name is looked
for and inserted by two statements (`EditAccount.java` 87), and so is a password changed
(59); the race of getInstance() (`Connector.java` 41), which is in `Monitor` and watched
by `OwnSocketInPlace`; a session outlives its logout in the table (`Logout.java` 20).

## 8. Not modelled

- AES, MD5, Base32 and the arithmetic of RSA: pure functions without state, tested by
  vectors in `src/Test/test`. A model would repeat their bits.
- SET of the manager commands: it sends the bytes of a pointer that nobody reads.
- The contents of compressed files, the printing tools, the sample commands of
  `comandi/`, the scripts.
- Of the page's script: forms, waves, parallax, pushpin, action buttons, cards, feature
  discovery and the pickers of date and time; jQuery, Velocity and Hammer are in the
  models by the order of their callbacks only. The other scripts of the page only call
  the widgets.
- The googletest library under `src/Test/lib`.
