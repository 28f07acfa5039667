# A TLA+ model of unix_networking_projects

The repository holds some seventy small programs in C and C++, most of them
after *UNIX Network Programming*: echo servers and clients in every style of
concurrency, a parallel web client, UDP, SCTP and Unix-domain examples.  There
are no tests.  Each directory is a program of its own, built by its own
makefile, and carries its own copy of the wrapper functions
(`networking_functions.c`, `unixwrapper.c`, ...), which make the system call
and leave through `err_sys` when it fails.

Most programs are a straight line of system calls.  A few keep state across
calls in a loop around `select` or `poll`, and there the difficulty lies:
descriptors that become ready in any order, partial writes, connections reset
between two calls, descriptor numbers used again, signals, and bookkeeping that
is kept in two or three places at once.  The project models those first.

## 1. Inventory

| Component | State it keeps | Operations | What is hard | What makes it correct |
|---|---|---|---|---|
| Non-blocking echo client (`nonblock_tcpcli1`) | two buffers with two positions each, `stdineof`, two descriptor sets | select, read stdin, read socket, write stdout, write socket, `Shutdown` | partial reads and writes, end of file racing the last write, full buffers, early close and RST of the server | no byte lost, repeated or reordered; one FIN, after the last byte; select always has something to wait for; it ends |
| Select servers (`server_2_select`, `server_2_pselect`) | `client[]`, `maxi`, `maxfd`, `allset`, `rset`, `nready` | select, accept, read, Writen, close, SIGINT | descriptors reused within and between passes, reset before accept, table limits, a client that does not read, signals | table, set and descriptors agree; each client gets its own bytes; `nready` is exact; SIGINT cuts no echo short |
| Poll server (`server_3_poll`) | `client[]` of pollfd, `maxi`, `nready` | poll, accept, read, Writen, close | the array is not cleared, so `revents` of a new entry is old or never written; resets | reads only what poll reported; a reset costs one connection |
| Web client (`nonblock_webclient`) | `file[]` flags and descriptors, `rset`, `wset`, `maxfd`, three counters | home page, start connect, select scan, GET, read | connect done at once or later or failed, limit on connections, descriptor reuse, three copies of the bookkeeping | each file fetched once and whole, never more than `maxnconn` connections, it always ends |
| Busy select server (`nonblock_srv_select_accept_busy`) | as the select servers | accept delayed by `sleep(5)`, unchecked | a connection reset during the sleep, any error of accept, -1 stored as a descriptor and given to `FD_SET` | as the select servers, but for the bit `FD_SET(-1)` leaves |
| Forking servers (`server_-1`, `server_0`, `server_01`, `server2_sum`, `server_4_sock_owner`, `unix_domain_srv1`, `unix_domain_srv2_credentials`) | children, their descriptor tables | accept, fork, close twice, echo, SIGCHLD, waitpid, SIGINT | signals merge and reach children too; descriptors are shared; a buffer used as a string | every child reaped, every descriptor closed by everyone, nobody's bytes to somebody else |
| Threaded servers (`threads_srv1`, `threads_srv2_portable`) | a thread per connection, one descriptor table, heap cells | accept, create, copy the argument, echo, close | handing over the descriptor; one error ends all | each thread serves its own connection, each cell is freed once |
| Shared counter (`threads_err_global_increment*`) | a counter, a mutex | lock, fetch, print, store, unlock, join | lost updates | no increment is lost |
| UDP clients and servers (`client_1_udp`, `client_2_udp_preply_addr`, `unix_domain_udpcli1`, `advio_timeout_*`; `server_1_udp`, `unix_domain_udpsrv1`, `unix_domain_srv3_udp`) | one line under way, an alarm | send, wait, show | lost, late, reordered, duplicated and unsolicited datagrams; the alarm before `recvfrom` or after it | which answer is shown after which line; a wait ends |
| Select clients (`client_2_io_multiplexing`, `client_3_io_multiplexing`, `unix_domain_cli1`) | descriptor sets, `stdineof`; buffers inside Readline and stdio | select, blocking read, Writen, shutdown | data select cannot see; both sides blocked in a write | every line is shown, the client ends |
| Forking clients (`nonblock_tcpcli2`, `nonblock_connect`) | two processes, one socket with its flags | connect (non-blocking, then restored), copy in, copy out, `kill(getppid())`, `pause` | the signal finds the parent gone, or never comes; unterminated strings | both processes end, output as sent, the socket is blocking again |
| The rest | none across calls | one exchange, or formatting | - | not modelled, see section 7 |

Components interact through the kernel only: a socket, a pipe, a signal.  The
clients and the servers of the table talk the same protocol, an echo of a byte
stream, and each is modelled against a peer that is as free as the protocol
allows.

`PROJECT.json` lists every component with its status, and every hazard with its
line and the properties that watch it.

## 2. Modules

| Module | Models | Kind |
|---|---|---|
| `HalfRelay` | what one direction of a relay promises | abstract specification |
| `NonblockClient` | `nonblock_tcpcli1/main.c`, `str_cli`, its kernel and its peers | component, implements `HalfRelay` twice |
| `NonblockClientProofs` | invariants of `NonblockClient`, and that it implements `HalfRelay` twice | proofs |
| `ServerSockets` | listening and connected sockets, descriptor table, clients | environment (external) |
| `SelectServer` | `server_2_pselect/main.cpp`, `server_2_select/main.cpp` and `nonblock_srv_select_accept_busy/main.c`, on `ServerSockets` | component |
| `SelectServerProofs` | invariants of `SelectServer` | proofs |
| `PollServer` | `server_3_poll/main.cpp`, on `ServerSockets` | component |
| `PollServerProofs` | invariants of `PollServer` | proofs |
| `FetchPool` | what a bounded pool of downloads promises | abstract specification |
| `WebClient` | `nonblock_webclient/*.c` with its servers | component, implements `FetchPool` |
| `WebClientProofs` | invariants of `WebClient`, and that it implements `FetchPool` | proofs |
| `WorkerServer` | the forking and the threaded servers, with their clients | component |
| `WorkerServerProofs` | invariants of `WorkerServer` and of `SharedCounter` | proofs |
| `UdpClient` | the datagram clients, the datagram echo server, the network | component |
| `UdpClientProofs` | invariants of `UdpClient` | proofs |
| `SelectClient` | the blocking select clients, with their buffers and the echo server | component |
| `SelectClientProofs` | why the select clients end | proofs |
| `ForkClient` | the clients of two processes, with `connect_nonblocking` and the echo server | component |
| `ForkClientProofs` | why the two processes end, and what is put out | proofs |
| `SharedCounter` | `threads_err_global_increment_ok/main.c` | component |
| `SelectServerMC`, `PollServerMC` | symmetry sets | model checking |

An operator or action named after its variant and introduced by the word
*Mutant* is no part of the model: it is a plausible bug, kept next to the
definition it alters, and shows that the properties can tell the two apart.

### NonblockClient

`pc` names the system call `str_cli` makes next, one action for each: `Select`
(main.c:66-101), `ReadStdin` (103-128), `ReadSock` (130-153), `WriteStdout`
(155-170), `WriteSock` (172-192).  The buffers are arrays of MAXLINE bytes with
the source's positions as offsets.  Input byte *k* is the number *k*, so order,
loss and repetition can be told apart.  A read or write moves any number of
bytes the kernel could move.  `rset` and `wset` are what select left and what
the loop adds to them ("try and write to socket below").  The user, the echo
server and the reader of standard output take steps between any two calls; the
server may close early, and answers later bytes with a RST.  Each descriptor in
`Faults` may fail at any time (`Break`): a terminal that hangs up, a reader of
standard output that goes away, a connection that is lost.  The next call on it
then takes the code's error branch (`StdinError`, main.c:107-108; `SockError`,
132-134; `WriteStdout`, 159-160; `WriteSock`), and `faulty` remembers which one it
was.

### ServerSockets, SelectServer, PollServer

`ServerSockets` is the kernel as these servers use it: `files` gives what each
descriptor is open on, `queue` is the accept queue, `conn` the server's view of
each connection and `peer` the client's.  A client connects, sends, reads,
half-closes, closes or aborts (RST, which is what `nonblock_tcpcli3_rst` does)
at any time.  What a RST before accept does differs between systems:
`AbortOutcomes` says which of three outcomes happen, "dequeued" (the queue is
empty, accept waits), "accepted" (the first read fails) and "reported" (accept
gives ECONNABORTED or EPROTO).  `Trouble` says what else may: "lost", a
connection whose next read or write fails with another error than ECONNRESET
(`lost`; `broken` is either), and "short", a system without files or memory for
one more connection (`short`).

`SelectServer` has one action for each call that may block: `Select`, `Accept`
(with `AcceptAgain`, the wrapper's `goto again`, and `AcceptFails`, its
`err_sys`), `ScanClient` (the loop's next `Read`), `Echo` (one part of a
`Writen`), and `Sigint`.  The loop passes over entries that are free or not
reported without a system call, so the model goes to the next entry that is
*due*.  `SigintBlocked` distinguishes the two programs: the pselect server takes
SIGINT inside pselect only.  `AcceptChecked` is FALSE for the busy server, which
calls accept without the wrapper and stores what any failure returns
(`AcceptFailsUnseen`): the entry it fills stays free, since -1 means free, but
the pass counts it, and `FD_SET(-1)` writes outside the set.  That is undefined
in C; what this build can do is set one bit of whatever lies there, so either
`allset` is as it was, or a bit of it is set (`StrayBit`, any number that is a
parameter of the theorems), or the process ends.  A stray bit at or below
`maxfd` whose descriptor is closed makes select fail (`AsksClosed`,
`SelectFails`). `PollServer` has the same shape with `revents` in place of
`rset`; an entry poll has never been shown has an arbitrary `revents`
(`Garbage`).  Its read has three outcomes of failure and end: `Reset` (632-635)
and end of file free the entry (`ReadClosed`), any other error is `err_sys`
(`ReadFails`, 636-637).

### WebClient

The three counters, the flags, the global sets and `maxfd` are variables of
their own, updated where the source updates them.  `socket()` returns the
lowest free descriptor, so numbers are reused.  `start_connect` and
`write_get_cmd` are split at the write, because a failure there ends the
process.  A connect may complete at once, later, or fail; a connection may be
dropped at any time.  A failed connect has a pending error (`conn = "error"`)
that `getsockopt` consumes (`"cleared"`).

### WorkerServer

One module for nine programs, because they differ only in what a connection is
given to.  `program` is chosen in the initial state and never changes.  A worker
is named after the connection it was started for, and `sock` is the connection it
really serves.  `holders` says for each connection which processes have a
descriptor for it: a child gets a copy of main's whole table, and closes
`listenfd`; main closes `connfd`; threads use main's table.  SIGCHLD is one bit
(`chld`); the handler interrupts main at any point and takes one step for each
`waitpid`.  SIGINT may come to main (`Interrupt`) and to any child that is running
(`InterruptChild`), together or alone, as from a terminal or from `kill`; children
inherit the handler, or have the default action, and either way the process ends
wherever it is.  Main and the children that SIGINT ends lose what they had in
memory.  The client may put a NUL anywhere (`Input`).  `line` is the uninitialised
buffer that `server_-1` and `server_4_sock_owner` read into and then take for a
string; the first terminates it (`AfterRead`), the second does not, so `Terminated`
goes on to what the buffer held before and to a unit of the stack behind it.
`server_01` writes a line of its own first, and the sum servers answer with a line
of their own, of which only the connection it is for is kept.  `Writen` writes a
unit at a time: to a client of `Readers`, which goes on reading, it always gets
through in the end; to another only as far as `Window`, after which it waits for
ever, or until a reset.  The listening queue is a set, and `server_4_sock_owner`'s
`continue` after a failed accept changes nothing, so it is a step of no action.

### UdpClient

`program` is one of five clients.  A line is its number, and so is its answer;
the programs never see that number.  The network is a set of datagrams each way
which may be lost, kept, delivered in any order, or delivered and kept, to be
delivered again (`Copied`).  Others may send to the client's port
(`Unsolicited`): such a datagram answers no line (`Stray`).  Its address, the
server's or another, matters to "checked" (`client_2_udp_preply_addr`, which
drops what comes from another) only, and is chosen for it only (`Senders`).
`timedOut`, `copied` and `strayed` record for each line what disturbed its wait.
`early` records that the alarm of the current line went off between `alarm(5)`
and `recvfrom`.

### SelectClient

Bytes are never reordered between standard input and output, so the state of the
stream is a row of counters, from `typed` to `shown`.  `taken - used` is what is
in stdio's buffer, `recvd - scanned` what is in `read_buf` of `readline2.c`, and
`scanned - shown` what is in `recvline`.  `Cap` bounds what a socket holds one way.
Standard input, standard output and the socket may fail (`Faults`, `faulty`): the
next `Fgets`, `Read`, `Write` (which is also ended by a short write), `Fputs` or
`Writen` is then the end of the client, by `err_sys` or SIGPIPE.

### ForkClient

Parent and child take their steps independently.  The socket they share has one
`O_NONBLOCK` flag (`nonblock`) and one pending error (`err`), which the first
call after a reset takes.  `recvline` is the array `line`, with the unit of the
stack that follows it, as `nonblock_tcpcli2` never terminates it and
`nonblock_connect` puts the NUL over the last byte when a read fills it.  The
descriptors may fail here too, each in the process that uses it; the socket in
whichever calls next.

### SharedCounter

Create, lock, fetch, store, unlock and join, one action each; the program
without the mutex is the mutant of `Lock`.  Its specification is `CounterSpec`, and
its initial states, next-state relation and variables have names of their own,
because one proof module extends it together with `WorkerServer`.

## 3. Runs

| Run | Instance | Question |
|---|---|---|
| `nonblock_client` | MAXLINE 2, 4 bytes typed, socket 2 + 1, pipe 1, server may die, each descriptor may fail; 318,416 states, 60 s | does the client keep, order and deliver every byte, send its FIN once, wait for something always, end, fail for a reason outside it only, and implement `HalfRelay` each way? |
| `nonblock_loss` | 2 bytes, all capacities 1 but MAXLINE, honest server | is a normal return complete? (no: finding 1) |
| `select_server` | 2 clients of 2 bytes, window 1, 2 descriptors for clients, SIGINT masked, all three outcomes of a RST before accept, lost connections, shortage; 284,347 states, 90 s | echoes, `nready`, SIGINT and service |
| `select_full` | 3 clients (symmetric), 2 descriptors for clients, SIGINT free, accept unchecked, RSTs that stay in the queue, lost connections, shortage; 1,757,925 states, 75 s | does the table agree when descriptors run out or accept fails unseen, and is every failure explained? |
| `poll_server` | 3 clients (symmetric), 2 descriptors for clients, all outcomes of a RST, lost connections, shortage; 569,810 states, 40 s | table, stale `revents`, resets and other errors of read |
| `web_client` | 3 files, 2 connections, 2 addresses, replies of at most 1 unit, failures | counters, sets, whole files, termination, `FetchPool` |
| `worker_server` | 2 clients, one of 2 units that reads, one of 1 unit that need not read (window 1), all seven kinds of server, SIGINT to any process; 1,185,795 states, 155 s | echoes, owners of descriptors and cells, zombies, and what a client that finished is left with |
| `udp_client` | 3 lines, 2 duplicates or unsolicited datagrams, all five clients; 942,214 states, 70 s | which wrong answers can be shown, stray alarms, waits that end |
| `select_client` | 4 lines of 2 bytes, buffers of 3 bytes each way, both kinds of client, each descriptor may fail; 398,358 states, 85 s | early exits, lines that are never shown |
| `fork_client` | 5 lines, buffers of 2 each way, `recvline` of 2, both clients, each descriptor may fail; 611,730 states, 50 s | output, failures, ends of the two processes |
| `shared_counter` | 4 threads, 2 turns each | lost increments |
| `web_refused` | 2 files, 2 connections, failures | does a connect that fails leave the program running? (no: finding 2) |

Each property is stated in words above its definition.

Why the bounds are enough.  A buffer of 2 is the smallest in which a partial
write leaves a byte and a read can follow it, and in which a buffer can be full,
half full with its start used up, and empty; 4 bytes fill the whole path and
one more buffer.  Capacity 1 makes every write partial and every pipe full at
some time.  Two clients show one served while the other waits, and the reuse of
an entry while the first is open; three clients on two descriptors run out of
descriptors and reuse both the lower and the higher.  Three files on two
connections have one waiting, one connecting and one reading at once and reuse
a descriptor.  Two connections make two children end before one handler runs, and
one accept overtake the start of the other's worker; two units leave one behind in
`line`.  That only one of them reads, and that the other sends one unit (`Brief`),
keeps the run small: the other is there to be in the way, by not reading, by a reset
or by its own end.  Three lines let one be disturbed and two later answers be out of
step; two extra datagrams let a duplicate and a stray, or two of either, come
together.  With buffers of 3 bytes a read of the socket can bring readline a whole
line more than it returns, and 4 lines of 2 bytes fill all the buffers of both
ways (`Gridlock` is reached); 5 units do the same in `ForkClient`, whose
`recvline` of 2 is the smallest that a read may fill or half fill.  Two turns let a
store undo several others.  `NBytes`, `MaxSend`, `Brief`, `MaxLines`, `MaxExtra`,
`NLOOP`, `MaxReply` and the number of `Clients` are bounds of the model; `Faults`,
`Trouble` and `AbortOutcomes` are all that may happen in the runs that ask about
failures, and sets of any size in the theorems; all other constants are
parameters of the programs or of the kernel.

Deadlock is not checked: the clients end, the servers stop at `err_sys` or
SIGINT, and clients need not come.  What a stuck program would mean is stated
instead (`SelectHasWork`, `ReadsOnlyReady`, `StuckOnlyByAbort`, `AlwaysEnds`,
`WaitEnds`, `LinesShown`, `BothEnd`).

## 4. Fairness

Weak fairness of the program itself: the operating system schedules it and it
blocks only in a call whose action is then disabled.  Weak fairness of the peers
it depends on, each an assumption of the liveness properties: the echo server
reads, replies, and closes at our FIN (`ServerEcho`, `ServerClose`); the reader
of standard output reads (`Drain`) until it fails; clients read their replies
(`ClientRead`; in `WorkerServer` those of `Readers`);
a connection attempt comes to an end and a web server finishes its reply
(`Establish`, `ReplyEnds`; TCP retries, or gives up, which is `Fail`); the
network delivers a datagram or loses it (`Deliver`), and timers go off
(`Timeout`, `AlarmFires`).  In `WorkerServer` main, the handler and each worker
are scheduled fairly, one by one; in `ForkClient` each process is.  No
fairness for what nobody promises: typing, ending the input, connecting,
sending, closing, resetting, SIGINT, and nothing need break, be lost, be duplicated
or arrive unasked.  Without a client that reads, one client
does stop the select server in `Writen`; `EveryByteServed` rests on that
assumption and names the two ways out it has, a stopped server and one stuck in
`accept`.

## 5. Findings

1. `nonblock_tcpcli1/main.c:141`, "normal termination": `str_cli` returns at the
   server's FIN although `fr[]` may still hold bytes standard output has not
   accepted; `main` then exits and they are lost (`nonblock_loss`).
2. `nonblock_webclient/main.c:78`: a failed connect is reported with `err_ret`,
   documented as nonfatal (`networking_functions.c:78`), and the program then
   writes the GET to the failed socket and dies of SIGPIPE (`web_refused`).

The runs of this project also describe behaviour no text of the repository
excludes, so it is part of the property rather than a finding:

- `client_2_io_multiplexing` does wait in select over lines that Readline or
  stdio has buffered (`WaitsOverData`); `readline2.c:9-12` warns of exactly that.
- Every blocking client can end with client and server each waiting for the
  other to read (`Gridlock`), once the buffers of both directions are full.
- In `advio_timeout_SIGALRM` the alarm may go off before `recvfrom` is called; the
  wait is then without a limit (`early` in `WaitsForEver`), though line 51 says of
  the handler "just interrupt the recvfrom()".
- After one timeout, one duplicated reply or one unsolicited datagram a UDP client may
  show every later answer one line late (`AnswersExplained`).
- `nonblock_tcpcli2` and `server_4_sock_owner` put out bytes of an earlier, longer
  message; `server_-1` drops what follows a NUL, and `nonblock_connect` the last byte
  of a read that fills `recvline` (`OutputExplained`, `EchoFaithful`).
- A child of the forking clients that fails leaves its parent in `Fgets`, `Writen` or
  `pause` (`ParentLeftAlone`); a parent whose standard input fails leaves its child in
  `Read`, since the child's copy keeps the socket open and nothing sends the FIN
  (`ChildLeftAlone`).  When the parent has failed, SIGTERM goes to whatever process has
  adopted the child (`stray`).
- The busy server's unchecked accept may set a bit of `allset` for a descriptor that is
  not open, or is another client's (`StrayBitSet`), and select then fails.
- A reset of one connection ends a threaded server, and only a child of a
  forking one (`FinishedClientsLeaveNothing`).

Six hazards are of this kind: the exception in a liveness property is the very
thing that can go wrong (the untimed UDP clients and the early alarm, in
`WaitsForEver`; `WaitsOverData`, `Gridlock` and `Ended`; `ChildLeftAlone`), or the
property allows it (stale bytes of one's own connection, in `EchoFaithful`).  The
property then describes the hazard, and would not catch it; what it shows is that
nothing else goes wrong.  The notes in `PROJECT.json` say so one by one.

A point the model settled the other way: the new entry of `server_3_poll` may
have a `revents` no poll has written.  The loop does read it in principle, but
`nready` counts only entries before it, and the pass ends at zero first
(`ReadsOnlyReady`; with the early exit removed it fails).  For the same reason
"too many clients" cannot happen while the descriptor limit is at most
FD_SETSIZE, or the value `open_max()` returns (`TableConsistent`,
`EntriesMatchFiles`).

## 6. Proofs

TLAPS proves every invariant that a passing run checks, the one action property and
the three refinements; the runs show the same formulas on small instances, and
they alone show liveness.  Each theorem holds for any number of clients, files,
lines or threads, and for all sizes of buffers, tables and connections that the
assumptions of its module allow (`SizesAssumption`, `FilesAssumption`,
`WebAssumption`, ...).

| Module | Theorem | Statement |
|---|---|---|
| `NonblockClientProofs` | `TypeCorrect` | `Spec => []TypeOK` |
| | `BytesInOrder` | `Spec => []InOrder` |
| | `FinExactlyOnce` | `Spec => []HalfCloseOnce` |
| | `SelectAlwaysHasWork` | `Spec => []SelectHasWork` |
| | `ExitsExplained` | `Spec => []ExitExplained` |
| | `UpImplementsRelay` | `Spec => UpRelay` |
| | `DownImplementsRelay` | `Spec => DownRelay` |
| `SelectServerProofs` | `TypeCorrect` | `Spec => []TypeOK` |
| | `TableAlwaysConsistent` | `Spec => []TableConsistent` |
| | `NreadyAlwaysExact` | `Spec => []NreadyExact` |
| | `EchoesAlwaysOwn` | `Spec => []EchoesOwnBytes` |
| | `FailuresExplained` | `Spec => []FailureExplained` |
| | `StuckOnlyByAborts` | `Spec => []StuckOnlyByAbort` |
| | `CleanExits` | `SigintBlocked` implies `Spec => []CleanExit` |
| `PollServerProofs` | `TypeCorrect` | `Spec => []TypeOK` |
| | `EntriesAlwaysMatch` | `Spec => []EntriesMatchFiles` |
| | `AlwaysReadsReady` | `Spec => []ReadsOnlyReady` |
| | `ResetsContained` | `Spec => []ResetIsContained` |
| `WebClientProofs` | `TypeCorrect` | `Spec => []TypeOK` |
| | `CountersAlwaysAgree` | `Spec => []CountersAgree` |
| | `SetsAlwaysAgree` | `Spec => []SetsAgree` |
| | `FilesFetchedWhole` | `Spec => []FetchedWhole` |
| | `ImplementsPool` | `Spec => PoolSpec` |
| `WorkerServerProofs` | `ChildrenRemembered` | `Spec => []NoZombieForgotten` |
| | `OwnersOfResources` | `Spec => []ResourcesOwned` |
| | `EchoesFaithful` | `Spec => []EchoFaithful` |
| | `TypeCorrect` | `Spec => []TypeOK` |
| | `CounterMonotonic` | `CounterSpec => EachStoreAddsOne` |
| `UdpClientProofs` | `AnswersAlwaysExplained` | `Spec => []AnswersExplained` |
| | `AlarmStaysInItsWait` | `Spec => []NoStrayAlarm` |
| `SelectClientProofs` | `OutcomesExplained` | `Spec => []OutcomeExplained` |
| `ForkClientProofs` | `EndsAlwaysExplained` | `Spec => []EndsExplained` |
| | `OutputAlwaysExplained` | `Spec => []OutputExplained` |

The arguments, module by module, each with the inductive invariants it rests on.

**NonblockClient.**  `InOrder` compares sequences; it is not convenient for a
prover, and it says nothing of control.  The inductive invariant is

    IInv == TypeOK /\ UpBytes /\ DownBytes /\ Control

`UpBytes` and `DownBytes` say element by element what the two buffers and the
three streams hold (byte *j* of `sent` is *j*, the byte at offset *k* of the
window is `Len(sent) + k`, and so on); `InOrder` follows by extensionality.
`Control` ties the positions to `pc` and to the end of file: an empty buffer
starts over at 0 (`EmptyAtStart`, without which a full but exhausted buffer
would never be asked about: `SelectHasWork`), a descriptor is reported only if
the buffer had room when select was called and only the read in between changes
it (`Asked`, without which a read of no byte looks like end of file), the FIN
is exactly the end of input with an empty buffer (`HalfClose`), the peer closes
after the FIN unless it died (`Peer`), and the exits follow (`Exit`; a
failure needs a server that died or a member of `faulty`).  Each is
preserved by each action, one lemma per action; no constant is assumed more
than positive (`NBytes` may be 0).

The refinements rest on the same invariant.  A relay's queue is the window of a
buffer between its two positions; three lemmas say what the client does to a
window: an empty one is the empty sequence, bytes stored behind it are appended
(`WindowAppend`), and a write takes its front and leaves the rest
(`WindowSplit`).  With them `StdinData` and `SockData` are `Take`, `StdinEof` is
`EndOfSource`, `SockWritten` and `StdoutWritten` are `Pass`, and every other step
leaves the relay as it is.  `EndOfSource` needs `Asked` (the end is seen once)
and `HalfClose`; `Pass` towards the socket needs `HalfClose` to know that the
FIN was not sent before.  The downward relay numbers its bytes from the server,
so its proof adds `EchoBytes`: byte *k* the server sent is the number *k*.

**SelectServer.**

    IInv == SockType /\ SockInv /\ Table /\ Asks /\ Pass /\ Data /\ FailureExplained

`SockInv` is about the kernel: a connection has one descriptor at most, and what
waits in the accept queue has none and is there once.  One lemma for each step
of a client and each system call says what is left of it.  `Table` and `Asks`
(`allset` holds the open connections, the listening socket and at most a stray
bit) are `TableConsistent` with its consequence left out: that a free entry
exists for every free descriptor follows by counting, from an injection of the
entries into the descriptors above `listenfd` and `SetSizeAssumption`.  A bit
whose descriptor is closed can only be stray (`ClosedIsStray`), so select fails
in the busy server only, and then for one of the reasons `FailureExplained`
gives.  `Pass` says that between two calls of the loop `nready` is the number of
descriptors reported and not handled (in `accept`, of all that were reported),
and that a pass with a new connection begins with the queue not empty or a
connection that was reset (which is all `StuckOnlyByAbort` needs).  It is
preserved (`HandledKeepsPass`) because handling the lowest due entry removes
that one and no other from those due, and because a connection is accepted onto
a descriptor that was not in `allset` when select was called, hence not in
`rset`: a reused number is not taken for a report.  `Data` says that what has
been read of a connection is what it was sent and, for the one that `Writen`
serves, `buf`; each is a run of consecutive bytes (`Run`), and three lemmas on
runs do the rest. `SigintBlocked` and `AcceptChecked` remain parameters, so the
theorems hold for all three programs.  Only `CleanExits` has a hypothesis,
`SigintBlocked`: `server_2_select` lacks the mask, and the property is false
there.

**PollServer.**

    IInv == SockType /\ SockInv /\ Table /\ PassType /\ AcceptInv /\ ScanInv /\ ResetIsContained

The sockets and the table are as in `SelectServer`.  What is different is
`revents`: the entries whose `revents` is set are those poll reported and
possibly one more, a new connection in the last entry, of which poll knows
nothing.  `ScanInv` says that, this entry set apart (`fresh`), `nready` counts
the entries due and each may be read without waiting, or is the one `Writen` has
in hand; since `nready` is at least 1 during a pass and `fresh` is the last
entry, the lowest due entry is always one that was reported
(`LowestIsReported`), and this is `ReadsOnlyReady`.  An entry below `maxi` that
a connection is put into was free when poll was called, which wrote 0 into its
`revents` (`AcceptInv`): so it is not due.

**WebClient.**

    IInv == TypeInv /\ Counts /\ Descriptors /\ Held /\ GetPending /\ Fetches

The counters are the cardinalities of the flag sets in every state (`Counts`),
each step moving one file from one set to another (`Moved`).  `Descriptors`
gives each connection in flight a descriptor of its own, in `rset` and at most
`maxfd`, with `wset` one short while `write_get_cmd` is under way after a
connect; `Held` says which descriptor the process has besides, between
`start_connect`'s `connect` and its GET.  From both, `socket()` finds a
descriptor whenever a file is left to start.  For the refinement, a flag that
leaves "none" is `Start` (the guard `nconn < maxnconn` is `FetchPool`'s bound
because of `Counts`), one that becomes "done" is `Finish`, and `Exit` needs
`Counts` again: no file left to read means all are done.

**WorkerServer** has three invariants.  `NoZombieForgotten` is inductive with one
addition, that the end of main leaves no zombie behind (the processes are
adopted): a zombie appears only with a SIGCHLD, and the handler returns only when
`waitpid` has found none.  `OInv` adds to the four parts of `ResourcesOwned` what
makes them last: between accept and fork, or create, there is one accepted
connection without a worker, and it is main's `connfd` (`MainInv`); children and
threads end in their own ways (`KindInv`); and what a worker is started with is its
own connection, or a cell that holds it until the worker has freed it (`ArgInv`,
`CellsOwned`).  `EInv` rests on it: since a worker serves its own connection, what
was put into `got` and what is left in `buf` are together what the client is owed
(`OwnBytes`): its own bytes numbered in order, behind the greeting if there is one;
for `server_-1` some of them, still in order (`Rising`); for the string and sum
servers at least nobody else's, because all that `line` ever holds is the client's
own or the stack's (`OwnLine`).  A worker between two rounds has nothing left in
`buf` (`Idle`), so the next read appends and the write of a unit moves it from one to
the other (`HeadMoves`).  The string in `line` ends at its first NUL, whose existence
is a least-element argument (`TerminatedPrefix`).  SIGINT takes a worker or main out
of all of these at once, and is a case of its own in each lemma.  `TypeOK` follows
from both; it is proved, and no run checks it.

**SharedCounter** rests on mutual exclusion, stated as "a thread between lock and
unlock is the holder", and on the fact it protects: what the thread has fetched is
still the counter when it stores.

**UdpClient**: the request or the answer of a line that was not duplicated is in one
place at a time (`Unique`), so it is not shown twice; whatever is under way for a line
that is no longer waited for is excused by a timeout, a duplicate or a stray of that
line or an earlier one (`Late`), so an answer that is not the expected one is excused
too (`AnswerInv`); and what was shown is not under way again (`ShownInv`).

**SelectClient**: only the clients that shut down send a FIN, after all of their input
(`HalfClose`); a server that has not died ends only after that, with everything
written back (`Peer`), so an error of the socket comes from one that has died or from
a connection that is lost; and the two ways through the program lose nothing
(`Stream`), which a client that returns has put out whole.

**ForkClient**: a child exists only once the connection is up and the socket is
blocking again (`Processes`); the FIN, the end of the server and an error of the
socket are tied together (`HalfClose`); and a child goes on to `kill` only when it has
read all there is, unless the connection is lost (`ChildEnd`).  The output needs a
second invariant, for `nonblock_connect` (`OutInv`): a read of *n* units puts its NUL
behind the last, or over it when it filled `recvline`, so what `Fputs` finds in `line`
is just those units, without the last of a full read (`PrintedOfRead`, again by the
least element at which a NUL stands); until `Fputs` fails,
appended to the output they keep it in order, and two units left out are
at least MAXLINE apart (`ReadPrinted`).

What stays with TLC.  Liveness under fairness (`EveryByteEchoed`, `EofTerminates`,
`EveryByteServed`, `AlwaysEnds`, `FinishedClientsLeaveNothing`, `WaitEnds`,
`LinesShown`, `BothEnd`) and ENABLED are out of the prover's reach; the proved
invariants are the safety half of these arguments (select has work to wait for,
read does not block, counters reach zero only when all is done).  The two
properties that the code violates are counterexamples of TLC, and need no proof.

## 7. Not modelled

- Dead code: `str_cli`, `str_echo` and signal handlers copied into files whose
  `main` never calls them.
- One-shot programs (connect, exchange, exit), daemon start-up, name and address
  conversion, and queries of system limits: one process, no state across calls.
- Descriptor passing (`unix_domain_pass_descriptor`, `unix_domain_openfile`,
  `unix_domain_socketpair`): one exchange between a program and its child, in
  lockstep, ended by `waitpid`; nothing of it can happen in another order.
- The SCTP server and client, one loop whose only decision is a stream number.
- `server_1`, an iterative server, and `udp_loop_*`, which send datagrams or count
  them.
- `threads_readline`: a library without a program; its buffer is the one
  `SelectClient` models, one per thread.
- The branches of `connect_nonblocking` for a limit on time (`nsec` not 0) and for a
  `getsockopt` that fails as on Solaris: the only caller passes 0.
- The copies of the wrapper functions in most directories, which are the bulk of
  the repository's lines: each is one system call and `err_sys`, and is modelled
  where a program above calls it.
- The values of addresses, ports and times, and messages to the terminal.
- `EINTR` in the select servers: the only handler they install calls `exit`.
- Errors that need no other party and no shortage: `Fork` and `pthread_create` may fail,
  `Malloc` of an int does not; `Close`, `Shutdown` and `fcntl` do not.  Errors of
  `Sendto` and `Recvfrom` on the unconnected sockets of the UDP clients, of which
  `client_2_udp_preply_addr/main.cpp:346-347` says that "an asynchronous error is not
  returned".
- What else a write by `FD_SET(-1)` may change than one bit of `allset`: the variables
  that lie beside the set depend on the compiler.
- What the sum servers compute, and how much of `line` their `sscanf` looks at.
- `server_-1` writes `line[MAXLINE]` when a read fills the buffer, one byte past the
  array: no read of the model fills `line` and the unit behind it.
- Descriptors at or above FD_SETSIZE (undefined behaviour of `FD_SET`): excluded
  by `SetSizeAssumption` and listed as a hazard.

## 8. Plan

Done: `HalfRelay`, `NonblockClient` and its proofs, the two refinements among
them; `ServerSockets`, `SelectServer` (three programs), `PollServer`; `FetchPool`,
`WebClient`; `WorkerServer`, `UdpClient`, `SelectClient`, `ForkClient`,
`SharedCounter`.

Every invariant of a passing run, the action property `EachStoreAddsOne` and the
three refinements (`UpRelay`, `DownRelay`, `PoolSpec`) are proved (section 6).

What is left: the liveness properties, which stay with TLC; a promise that the
select and the poll servers have in common, a server that carries each client's
bytes back, as an abstract specification that `SelectServer` and `PollServer` both
implement; and descriptor passing, if it is ever worth a module.
