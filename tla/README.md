# Verification of the network-programming course programs

The repository is the work of a network-programming course: some eighty small C
programs under `src/`, most of them demonstrations of one system call, and about
a dozen that are systems: several processes, threads of control or peers that
share memory, semaphores, pipes, signals or sockets. This directory holds TLA+
models of those, TLC configurations that check them on small instances, and
proofs for TLAPS.

## Inventory

What runs, what state it keeps and what makes it hard. "Copies" are files with
the same program; the model names the lines of one of them.

| Component (source) | State | Operations | Interaction and hard behaviour | What makes it correct | Modelled in |
|---|---|---|---|---|---|
| Shared-memory exchange, lab 4: `ex4/2017A7PS0097P_lab4/{server,client}.c` (copies `ex4/{server,client}.c`) | a segment with four fields, two named semaphores, the server's count, N forked sub-clients | server: wait, print fields, count, post; sub-client: wait, prompt, write fields, post; SIGINT handler; parent waits for N children | any order of the processes; a sub-client killed while it holds the token; Ctrl-C anywhere; re-creation of the objects | one owner at a time; whole items; each once; the count; items get through | `ShmExchange`, `Mailbox`, `ShmExchangeProofs` |
| Poll chat server, lab 5: `ex5/2017A7PS0097P_lab5/poll.c` (copy `ex5/poll.c`) | pollfd table with `max_clients` slots, count | poll, accept or refuse, read, broadcast, close | clients come, go and are reset between poll and use and between two sends; slots with fd 0 poll stdin; SIGPIPE | table, count and descriptors agree; everybody gets the others' messages in order; slots are freed | `PollServer`, `PollServerProofs` |
| Growing-table echo server: `ex5/ibmpoll.c` | `fds[]`, `nfds`, flags `compress_array`, `close_conn`, `end_server` | poll with timeout, accept all, receive all, echo, squeeze, clean up | table changed while it is scanned; short sends; sockets that block | the table is the open connections; echoes exact; everybody is served | `IbmPoll`, `IbmPollProofs` |
| Ping-pong, lab 2: `ex2/2017A7PS0097P_lab2/pipe.c` (copy `ex2/pipe.c`) | two pipes, two semaphores, parent's counter | children divide and send; SIGUSR1/2 handlers | signals that do not queue, handlers inside handlers, EINTR | the printed number is the number of messages; nothing is signalled to a stranger | `PingPong`, `PipesProofs` |
| Signal tree, lab 1: `ex1/2017A7PS0097P_lab1/signal_tree.c` (copy `ex1/signal.c`) | `count` in shared memory, four semaphores, per process points, parent, children | fork into a tree; broadcast SIGUSR1; handler; exit at 0 points | racing decrements under a semaphore that grows; fork failing; early signals; exit inside a handler | size of the tree, who is whose child, one handler at a time, the round ends | `SignalTree`, `SignalGame`, `SignalProofs` |
| System V segment: `ex4/{server_ibm,client_ibm}.c` | a set of two semaphores, a segment | create, wait for a change, print, free, remove; look up, lock, write, release | a second client before the first message is read; restart between two removals; a segment removed before it is attached; kill without SEM_UNDO | in-use semaphore counts who is inside; messages whole | `SysvShm`, `SystemVProofs` |
| Batch job executer: `Assignment/P1/Batch-Job-Executer-master/{batchJobExecuter,execute,parse}.c` | position in the batch, begin flag, the descriptors 0 and 1 | commands, `>`, `>>`, pipelines | a child that goes on after a failed exec; a fork that fails; stages run one after the other; descriptors not restored; operators in unusual places | what runs how often; contents of the files; which batches end | `BatchJob` |
| Concurrent web client: `Assignment/P2/concurrent_web_client.c` | shared socket, message queue, ranges | HEAD, N children with GET, collect, retry, join | message type overlaps the data; child's pointers in the parent; short recv, and what it leaves in the shared connection; recv with nothing to come; a queue that an earlier run has left | ranges cover the file; a child takes its own answer; what is collected; every range is asked for | `WebClient`, `TcpProofs` |
| Pipelines: `Assignment/P1/{multi_pipes,gfg/shell}.c`, `ex2/ISF462_lab3/code/pipe/pipelines/pipeline.c` | processes with their open pipe ends, pipes, the terminal | pipe, fork, dup2, close, exec, wait; the commands' reads and writes | waiting for a writer before its reader exists; ends inherited and left open; a missing command | a pipeline ends and passes on everything | `Pipelines`, `PipesProofs` |
| Other chat servers: `ex5/{select,poll_try}.c` | tables of clients, the last buffer | as the poll server | full table: a client is greeted and forgotten; a message that goes back to a sender who has left; a failed read whose -1 is used as an index | what is shown was read, is shown to the right ones, once; leavers are forgotten | `ChatServers`, with `ChatClients`; `ChatServersProofs` |
| Co-processes and FIFO chat: `ex2/ISF462_lab3/code/{pipe,fifo}` | two pipes; a FIFO per user | write and read in turn; relay | buffered output; opening waits for the other side; a missing program | everyone gets the own answer; messages are relayed once | `CoProcesses`, `PipesProofs` |
| Message queues: `ex3/2017A7PS0097P_lab3/{mq,co_process}.c`, `ex2/ISF462_lab3/code/messagequeus`, POSIX `msg_queue` of lab 4 | queues that outlive their programs, a registration for a signal | send, receive, remove, register again | random type 0; a queue removed under others; a registration used up before the queue is empty | no old message, order kept, no lost wake-up | `MessageQueues`, `SystemVProofs` |
| Semaphores, shared memory and signals in turn: `ex3/IS_F462_lab_4/code`, `Signals/{sync,critical}.c` | semaphores, a segment, pending signals | post and wait; create, set, enter; kill and pause; block | what a killed run leaves; semget before SETALL; a signal before its pause | turns alternate, one token, runs end | `Handoff`, `SystemVProofs` |
| Mapped file and object: `mmap/{write,read}.c`, `pshm_{write,read}.c` | a file or object and who has mapped it | empty, stretch, fill, read | a file emptied under a reader | who reads alone reads all | `MappedMemory`, `SystemVProofs` |
| TCP echo programs, lab 6: `ex4/ISF462_lab6/code/tcp`; sequential downloads `Assignment/P2/download*.c` | connections, the one that is served | accept, echo until end; send, receive, save | short reads, resets, silent clients, one recv for two sends, words longer than the buffers | echoes exact and in order; files are the beginning of what was sent; clients end | `Streams`, `TcpProofs` |
| Demonstrations of one call, `ex1`, parts of `ex3` and `ex4`; debugging exercises | next to none | | | | not modelled (see below) |

`PROJECT.json` lists every component with its files, and under `hazards` what in
this code a test would hardly reach, at its line, with the properties that would
show it.

## Modules

The programs do not call one another, so each module is a system of its own. Two
are the two phases of one program (`SignalTree`, `SignalGame`), and
`ShmExchange` implements the abstract `Mailbox`. Processes are elements of a
small set, program counters are named by what is done next, and every module
begins with a comment that says which abstraction of data it makes. Definitions
marked "mutated form" are slightly wrong versions of the one that follows them;
nothing uses them. They are put in its place to see that a property fails.

* **ShmExchange** - `pc[c]` is the place of a sub-client (`unborn`, `wait`,
  `input` for the prompts, `write`, `done`; `dead` when killed without the token
  and `lost` when killed with it), `srv` that of the server. `shm[f]` is the
  owner of what field `f` holds. `memmove` and `printf` run over the fields in
  any order, one at a time. `Fork`, `ForkFails`, `ClientWait`, `Input`,
  `WriteField`, `ClientPost`, `MainReturn`, `ServerWait`, `ReadField`,
  `CountItem`, `ServerPost`, `Sigint` follow the code; `Kill` is the outside
  world. History: `shown`.
* **Mailbox** - what the exchange promises: items are put into one place and
  leave it once. `ImplementsMailbox` maps *sent* to the sub-clients that posted
  and *delivered* to `shown`.
* **ChatClients** - the clients of a chat server and the TCP stacks between:
  `conn` (`open`, `fin`, `finSent`, `rst`, `broken`), `inq`, `backlog`.
  `MayType` and `InTurn` are bounds: who types, and clients that connect in a
  given order. `PollServer` and `ChatServers` extend it.
* **PollServer** - `fd`, `armed` (events = POLLIN), `revents`, `count`, `owner` of each
  descriptor number (the lowest free one, as the kernel gives them), queues from
  and to each client. The scan goes from one slot that poll has reported to the
  next (`ScanFrom`; a slot it has not reported costs no step), and a broadcast
  sends to one slot per step (`Send`; `to` is the slot it has come to), so that
  clients connect, type, leave and are reset between two slots and between two
  sends. `SigPipe` and `EndBroadcast` are its two ends. `log` and `joined` are
  history.
* **IbmPoll** - the table as a sequence, `pc` for the place in the loop, the
  counts of units typed, waiting, being echoed, on the way back and read.
  `Inherits` says whether accepted sockets are nonblocking. `stop` is why the
  server ended: a timeout, an event of poll it does not know (`error`), a failed
  accept, SIGPIPE.
* **PingPong** - `frames` is the parent's stack of handlers, `pending` its
  pending signals (a set: they do not queue), `sync`/`hsem` the semaphores,
  `pipe` the text under way, `val` the children's numbers.
* **SignalTree** - load, store, fork and post of `fork_well` are steps of their
  own; process numbers are given in the order of the forks. A process that is
  through may broadcast SIGUSR1 while others still fork: `Deliver` puts one
  into its handler (and makes a `sem_wait` it was in fail), where it
  waits for `semaphore_handler` (`HandlerWait`), and returns (`HandlerPost`) or
  exits at 0 points as its holder (`HandlerExits`). **SignalGame** starts with a
  tree that stands.
* **SysvShm** - objects named by the server that created them; `semset` and
  `segment` are what the keys lead to at the moment. A client looks up the set
  and the segment and attaches it in three steps; when the segment was removed
  before the third, `shmat` returns -1, which the test for NULL does not notice, and the
  client ends in `strcpy` (`Crash`).
* **BatchJob** - `procs` is the chain of processes that read the batch, each the
  child of the one before; only the last runs, or the command in `job`. `pipe`
  grows by one pipe per stage. A line is the sequence of its words and of the
  blanks beyond one: the marks are compared with the whole line (`KindOf`), the
  rest is done with the words. A fork that fails runs nothing and the batch goes
  on (`NotForked`; `unforked` is history). `ParseLine`, `Pos`, `NumberOfPipes`,
  `Commands` and `Redirect` are pure operators that do what `parseLine` and
  `execute` do with it, an operator in the first place and the word after `>`
  included.
* **WebClient** - `main` is the parent's place, `kid[k]` that of child k;
  `requests` and `stream` are the two directions of the one connection,
  `sending` what the server has yet to put in, `queue` the message queue.
  `asked` is history. What is in the connection are status lines, header lines
  and the pieces of bodies, a piece being its position in the file (or that it
  is of an error page), so that a short or shifted one can be told from the
  right one. A piece may end with CRLF (`lineEnds`) or with an empty line
  (`blanks`): a child that finds what others have left reads its status line up
  to the first CRLF, wherever that is, its header up to the first empty line,
  and takes a Content-Length from any text before that. What is left behind the
  CRLF or behind a `recv` that cut a head may be the rest of it (`AfterLine`,
  `AfterCut`). `recv` waits for data or the end whatever the length. Forks of
  the parent may fail, in `Fork` and in `Collect`. The queue holds `Capacity`
  messages and may hold those of an earlier run at the beginning (`old` counts
  the ones of type 1). The server (`Answer`, `Arrive`, `Close`) is the outside
  world: it may answer with the range, the whole file or an error, with or
  without a length, deliver item by item, and may close or reset the connection
  at any time.
* **Pipelines** - one module for three programs (`program`, chosen in `Init`). A
  process is a record with its place, its open pipe ends `fds`, what stands
  behind its standard input and output, and what it has read and not yet
  written. A command that is missing does in each program what that program's
  code does.

* **ChatServers** - `select.c` and `poll_try.c` (`program`), over the same
  clients as `PollServer`. Here a broadcast is one step (`Broadcast`): what
  clients do between two of its sends is in `PollServer` only. `ready` is what
  select or poll has reported, `at` the slot that is looked at, `forgotten` the
  clients who found no empty slot.
* **CoProcesses** - the programs that talk over two pipes and the FIFO chat.
  `buf` is the buffer of standard output, or the message in the chat server's
  hands; `deaf` are clients whose open failed.
* **MessageQueues** - `queue` holds every queue there ever was, `current` the
  one the key names, `id[p]` the one process p uses.
* **Handoff** - six small programs whose processes wait for each other. `there`
  is what exists, `sees` what a process has found.
* **MappedMemory** - what is `written` of a file or an object, one cell at a
  time.
* **Streams** - one connection is two bounded inboxes, with the ends that are
  `closed`, reset (`rst`) and not yet told of it (`err`). Items are numbers, so
  that order and loss show.

Small systems that use the same kind of object are checked in one run. The
module of such a run (`MCPipes`, `MCSystemV`, `MCTcp`) holds the variables of
all of them and one more, `lab`, which says which of them acts in this
behaviour. The others stay in their initial state, and each keeps its own
fairness. Nothing flows between them: it is a sum of systems, not a product.
`MCSignals` does the same with the two phases of `signal_tree.c` (`phase`): the
game starts with a given tree (that of N = 3), not with the one that the first
phase has built.

## Runs

| Run | Instance | What it shows |
|---|---|---|
| `shm` | 3 sub-clients, 2 of which may be killed; 2 fields; SIGINT anywhere | one owner (`ExchangeInv`), no torn item, the count, the mailbox; items get through and the parent returns (`ExchangeEnds`) unless a holder is killed or the server stopped |
| `poll` | 3 slots, 4 clients that come in a given order (two of them type one message each, one may be reset, two may close), a typed line and the end of file on stdin | table, count and descriptors agree, exact delivery, also in the middle of a broadcast; what clients type is broadcast and slots are freed (`EveryoneIsServed`) unless the server waits in a stale read for ever (`StaleRead`: a silent client in a slot reported for stdin, or two freed slots that poll stdin and one typed line) |
| `poll_stdin_eof` | 2 slots, all 4 may close, nobody types | *violation*: "add new socket to array of sockets" is false once stdin has ended: the freed slot closes descriptor 0, and the next client is given descriptor 0, the mark of a free slot |
| `chat_servers` | either program, 2 slots, 3 clients (one closes, one is reset) | the table, what each client is shown (`ChatInv`), lines are sent on, leavers forgotten |
| `pipes` | ping-pong with numbers of up to four digits and either `sa_mask`; pipelines with sources of 0 to 3 items, pipes of 2, a missing command, two lines for the shell, forks that fail; co-processes with 3 rounds, chat with 2 descriptors | ping-pong: the token and the exact count, what is read is what was written, the parent prints. Pipelines: who has which end open and what the terminal shows (`PipeInv`), which end (`Ends`). Talk: own answers, rounds in step, relayed once (`TalkInv`), nobody waits without reason (`TalkGoesOn`) |
| `signals` | tree: N = 4 (room for 7), forks may fail, one signal may come early, with its handler. Game: 3 processes with 3 points, one parent with two children | tree: tokens per fork, children known, one handler at a time, N to 7 processes unless a signal interrupted one (`TreeInv`); everybody finishes unless a failed fork, or an exit in a handler, has taken along the semaphore it waits for (`BuildingEnds`). Game: one handler at a time, at most one exit (`TurnInv`), nothing changes after it (`FrozenAfterExit`), the round ends |
| `ibmpoll` | 3 clients (two silent; one sends 3 units and may reset), buffers of 2, accept may fail | the table is the open connections and echoes are exact (`TableInv`); what poll reports of an entry ends the server only if a connection was reset, and then all are closed (`EndsInOrder`; a failed accept is another reason to stop); everybody served, slots given back |
| `ibmpoll_blocking` | sockets as Linux makes them | *violation* of the comment that accepted sockets are nonblocking too: the first client that is silent stops all others |
| `sysv` | segment: 2 servers (one may be killed), 3 clients, 2 messages. Queues of 2, 2 lines, mains and clients that start again or are killed. Handoff with 3 rounds, one killed run, two SIGQUITs. Mapped: two writers, a reader, 3 cells | who is inside is counted, nobody writes under the wrong semaphores, messages whole; no old message and no lost wake-up; turns alternate; the handler of `critical.c` counts the first SIGQUIT and the second ends it; a reader alone reads all; and which of them end |
| `critical_quit` | the same | *violation* of the comment at `critical.c:42`, "SIGQUIT here will terminate with core file": the first SIGQUIT, if it comes in that last sleep, is caught and the program ends as usual |
| `batchjob` | all batches of up to 2 lines of 14, up to 3 below a `%BEGIN`, and 4 of six of them; one line is `%BEGIN` with a blank more; pipe of 1; one fork may fail | which lines run how often, the contents of every file (`BatchInv`), which batches end |
| `tcp` | ranges: 1 to 3 children, files of 0, 2 and 3 bytes, of which the 2nd and 3rd may end a line or a header, one message of an earlier run, a queue of 3, forks that fail, any server. Streams: two clients, words of 1, 5, 6 over inboxes of 2, two lines, files of 3, any server | the ranges cover the file once; a segment begins the answer to its own request unless an empty line was left in the connection (`WebInv`); the parent takes no segment that has data, and saves only with one child or with what earlier runs have left (`OnlyEmptyIsTaken`); every child ends unless it waits for a body that does not come or for room in the queue (`RangesAreFetched`); echoes in order and once, who ends the server, what the files hold, who comes to an end |

Why the bounds are enough. Two sub-clients contend and a third comes late, which
is every relative position of the exchange's token; a field less or more adds no
new way to be torn than two. Three slots and four clients of which two leave
give a full table, a refusal, a slot that is used again, a scan that passes a
slot filled behind it, and two freed slots that poll stdin at once while a third
holds a client. Three children have a first, a middle and a last range; 3 bytes
leave a rest of 1 for two and none for three, 2 make ranges of length 0 for
three, 0 is the empty file. A line end or an empty line in the second or third
byte is one in the part that a short `recv` leaves; with those, or with an old
message, a file of 3 has at most two children, and both together are left out
(`OneAtATime`: the one is in the connection, the other in the queue). A queue of
3 is full for three children and an old message; the real one holds 682
messages. A source of 3 items overfills a pipe of 2, and two lines show what the
first leaves to the second. N = 4 is the smallest tree with two levels of forks,
and is not full: it has an inner right leaf, and room for the processes that
lost decrements add; one early signal is enough for an exit that keeps the
semaphore. With three processes a handler, a broadcast and an exit meet. Two
servers are one that leaves and one that comes. Four lines below `%BEGIN` are
jobs that affect each other and others to see it, within a block and after it; a
pipe of one piece is full as soon as anything waits in it. A word of 6 is longer
than two inboxes of 2 and the server's one hand hold, one of 5 is not, and one
of 1 needs no second recv. Three rounds are a first, a middle and a last; two
descriptors let the chat server run out of them. The bounds that cut off
behaviour are named constants: `MaxSends`, `MayType`, `InTurn`, `StdinLines`,
`MaxTyped`, `SndBuf`, `MaxLines`, `MaxOutput`, `MaxWord`, `Rounds`, `MaxFds`,
`EarlySignals`, `ForkFailures`, `Marks`, `Named`, `MaxOld`, `Capacity`; and
`OneAtATime`. None of the systems is forced to stop at a bound in a way that
makes a property true: liveness is stated of what was sent below it, and a full
queue is named in the property.

Deadlock is not checked: every one of these systems stops of itself (all items
exchanged, the batch done) or waits for peers that owe nothing. That they do not
stop too early is what the liveness properties say.

### Fairness

Every process that can run is scheduled (weak fairness of each process's steps;
of the one process, for the servers). The web server answers what it has been
asked and what it sends arrives (each may as well be an error, and the
connection may end instead). A person answers a prompt that is open (lab 4's
`scanf`). Nothing else is fair: clients need not connect, type, read or close,
nobody must be killed, fork must not fail, signals from outside must not come, a
server or client need not be started.

## Proofs

`ShmExchangeProofs` proves for any finite set of sub-clients and any non-empty
set of fields, with any of them killed at any time (`ShmAssumption` is all that
is assumed):

* `TypeCorrect`: `Spec => []TypeOK`.
* `MutualExclusion`: `Spec => []OneOwner`. Inductive relative to the types: the
  sum of both semaphores and of the processes inside is at most one. The sum may
  become and stay zero, when a holder is killed.
* `DataCorrect`: `Spec => []DataInv`. `NoTornItem` speaks only of the moment in
  which the server prints and is not inductive. It needs that the segment is
  entirely the poster's from `sem_post` until the server has posted, that nobody
  else has been sent and not shown at that time, and that a writer's fields stay
  the writer's: that is `DataInv`, which rests on `OneOwner`.
* `ExchangeCorrect`: the conjunction, the invariant the run `shm` checks.
* `NeverTorn`, `CountCorrect`: the two safety invariants that follow.
* `MailboxImplemented`: `Spec => Box!Spec`. A step in which the server finishes
  an item is the mailbox's delivery, a `ClientPost` its sending, any other step
  a stutter.

`TcpProofs` extends `MCTcp`, and with it `WebClient` and the instance of
`Streams`. For every set of levels and lengths and every server:

* `RangesCoverFile`: `Spec => []RangesCover`. Once all children have asked, each
  byte of the file is in the range of exactly one of them. The invariant says
  that a child has asked for nothing or for `RangeOf(k)`, and that nobody asks
  before the parent has divided the length; the rest is arithmetic, in the
  lemmas `Rounds` (division rounds down), `Blocks` (equal blocks do not overlap)
  and `RangesPartition` (a byte is in the last range, or in that of its
  quotient). `RangesCover` is stated for a length the server gave: without one,
  -1 is divided.
* `WebInvariant`, `OwnAnswers` (`WebInv`), `OnlyEmptyTaken`: for any line ends
  and empty lines in the file, any messages in the queue at the beginning, and
  forks that fail. That a child takes the answer to its own request is said only
  of the moment it sends its segment. The invariant follows the one connection.
  At most one child is on it (`SoleKid`), and at each place of that child
  (`NetOf`) it says what is still to be asked, answered, sent and received. A
  CRLF in what another has left may have taken the child past its status line
  before its answer came (`Waits`), so that the real status line is read as part
  of the header; but there is one header line in the connection from the answer
  on (`Answered`) and none between two children (`Quiet`), and only an empty
  line ends a header. This is where `blanks = {}` is needed, and the invariant
  claims `NetInv` only then: with an empty line in what was left, a child ends
  its header there, and the child after it finds the answer to the request
  before its own. TLC finds `OwnResponse` violated without that condition. For
  the third theorem, `FirstInv` counts: the messages of type 1 taken, those in
  the queue (`Ones`) and the one child 1 may still send are never more than one
  and those that earlier runs have left, since the parent starts child 1 anew
  only when it has thrown one away; hence a file is saved only for n <= 1 +
  `old`, and what was taken was empty and the first child's.

And for every size of inboxes and buffers, every word, number of lines and file
(`StreamsAssumption`: none of them is zero, and a word has two characters):

* `StreamsAreExact` (`StreamsInv`). The invariant follows what was sent to where
  it is now. Echo (`EchoInv`): what is shown, in the client's inbox, held by the
  server and in its inbox is, in this order, what was sent, while both ends are
  open; afterwards what came back still begins it, and if a client has left
  while something of its echo was on its way, or the server's end was reset,
  that client was a `sigPipeClient` that had not read it (`Unread`). This is
  what `EndedByUnread` needs at the step in which the server ends. Web
  (`WebsInv`): what was stripped, kept, is in the inbox and still to be sent is
  the response. Who waits to be accepted waits once, is connected and is not the
  one who is served (`QueueInv`). The lemmas `SendEffect`, `TakeEffect`,
  `FailEffect` and `CloseEffect` say what a call does to a connection; those
  about sequences say that items only move (`ReceivedCat`, `SentCat`, `HeldCat`,
  `LastCat`); `ClientFrame` and `ServerFrame` reduce a step to the one
  connection it touches.

`PollServerProofs`, for any finite set of clients, any number of slots, messages
and typed lines:

* `PollInvariant`, `TableIsExact` (`TableInv`), `DeliveryIsExact`
  (`DeliveryExact`). The two properties are not inductive: that a new client
  finds a slot and a descriptor that nobody has needs that used slots hold
  different descriptors, each a client's (`SlotInv`), that who waits to be
  accepted waits once and has no descriptor (`QueueInv`), and, for the lowest
  free descriptor to exist, that there are more descriptor numbers than owners
  (`LowestFreeIs`, by cardinality). Delivery needs that `joined` is no later
  than the log, and two lemmas about logs: what is appended by the client itself
  changes nothing of what it is owed (`ExactOwn`), what another appends is
  appended to it (`ExactOther`). In the middle of a broadcast the message is in
  the log of those whose slot the loop has passed and not in that of the others
  (`Heard`): `SendStep` moves one slot from these to those, and at the end all
  have it (`EndBroadcastStep`). `DeliveryExact` counts: the k-th message sent is
  the k-th entry of the log by another since the client came.

`IbmPollProofs`, for any clients that fit in the table (`IbmAssumption`: with as
many as `fds[]` has entries the code writes behind its end), any buffer sizes,
and sockets that inherit `FIONBIO` or not:

* `IbmInvariant`, `TableIsKept` (`TableInv`), `EndIsInOrder` (`EndsInOrder`).
  Between two polls the table is not exact, and the invariant says how:
  `TabInv`, an entry is an open connection or `Gone`, and `Gone` only with
  `compress_array` set; `ScanInv`, what poll reported still holds for the
  entries that are to come; `QueueInv`, the table grows by clients of the queue
  only, so it stays in its bounds; `EndInv`, an event the server does not know
  is a connection that was reset, never a descriptor that it has closed itself.

`PipesProofs`, for every two numbers of the command line and every content of
the uninitialised `sa_mask`:

* `TokenHasPlace`, `TokenIsKept` (`TokenInv`). There is one token in the whole
  program, and `TokenIsSomewhere` lists its places: `semaphore_sync`, a child
  that works or is about to signal, a signal on its way, `semaphore_handler`
  posted, the handler that acts. Each step moves it from one place to another.
  That there is never a second signal, nor a handler to interrupt, nor a wait to
  fail is a consequence, and makes the content of `sa_mask` irrelevant.
* `ReadsAreExact` (`ReadIsExact`): with numbers of at most four digits what a
  child reads is what the other wrote. With five digits it is false: 12345 is a
  counterexample.

and for any number of rounds (at least one), typed lines and descriptors
(`TalkAssumption`):

* `TalkInvariant`, `TalkIsSound` (`TalkInv`), one invariant for each program.
  The email check (`EmailInv`): while the parent reads, the address it sent last
  is in one of the two pipes and nothing else is (`RawInv`); with buffered
  output it is with the child for ever (`StdioInv`); without a child it stays in
  the first pipe (`MissingInv`). `pipe.c` (`RoundsInv`): the six situations
  parent and child can be in together. The FIFO chat (`ChatInv`): the server
  holds a message from reading it to relaying or dropping it (`ChatPlaces`);
  pipes hold no more than was typed, and what was relayed opened a descriptor
  first (`ChatCounts`); whatever the server has or will read was sent
  (`ChatKnown`). On these rests that each message is relayed once and in its
  order (`ChatRelayed`): items only move along the way from a sender to what the
  receiver has shown (`MoveToHand`, `MoveToClient`, `MoveToScreen`), a new one
  has a new number (`Added`), and one that is dropped was there once
  (`Dropped`).

and for any output, any number of lines and any size of a pipe
(`PipelinesAssumption`: a pipe holds something):

* `PipelinesInvariant`, `PipelinesAreSound` (`PipeInv`). What the terminal shows
  at the end depends on all that happened before, so `PipeIInv` follows the
  items, for each program in its own way.
  - `multi_pipes.c`. `PMulti` says what a process holds at its place: always the
    read end of the pipe it writes to, and no write end but its standard output.
    Hence no SIGPIPE, and an end of file when the stage before has ended. When
    no stage but the last is missing, processes, pipes and stages run in step
    (`PTidy`), and, if no fork failed, `PFlow`: the terminal, the pipes and the
    buffers, put in a row (`PWay`), are at every moment the numbers that the
    source writes. A fork that failed cuts this row: nothing comes past it
    (`PDry`). The same holds behind a missing stage, but there processes
    multiply, each child spawning the rest again. That this never ends is a
    safety property here (`AllEnded` is never reached) and needs a reason: there
    is a set of processes each of which has not seen the end of its input and
    reads from a pipe that another one of the set writes to (`PRing`). A step
    moves, or enlarges, the ring; it never breaks it.
  - `pipeline.c` (`PLine`): before the fork, after one that failed, or `ls` and
    the parent that is to be `wc`. The same row of items, and `wc` begins only
    when all of them fitted into the pipe.
  - The shell (`PShell`, by the shell's place `PAtPrompt`, `PAtFork`, `PAtWait`,
    `PAtAgain`): all but the last child have ended; what that one writes of
    itself is on the terminal, in its pipe or in its hands (`PSingle`,
    `PWriter`), and the reader of a pipe has seen, or will find, what the writer
    left (`PReader`). The shell's ends are counted (`PLeak`): at most two for
    each fork that failed.

`SystemVProofs`, for any servers, clients and number of messages, whoever is
killed, and any rounds, tokens, capacity and cells (`LabsAssumption`: all but
the preset value of a semaphore are at least 1):

* `SysvInvariant`, `SegmentOfSameRun` (`SameRun`), `SegmentIsKept`
  (`SegmentInv`). `ObjectsInv` says which server's objects the keys lead to at
  each place of a server, `LookupInv` what a client can have looked up: together
  they exclude that a client holds the semaphores of one server and the segment
  of a running other. `KnownInv` says that a segment a client could not attach
  is that of a server that has ended, so that a client that crashes on it, if it
  is not astray, holds no semaphore of a running one. On that rests, server by
  server (`Guarded`), that semaphore 0 counts who is inside, and, if no client
  came before the last message was taken, that the text is whole.

* `HandoffIsSafe` (`HandoffInv`), one invariant for each program.
  `sem_wait_post.c` (`AltInv`): the token is in one of the semaphores or held by
  who printed last, or went with a run that was killed; so no two prints in a
  row are of the same process. `shmserver.c` (`OneshotInv`): while the server
  waits, semaphore 0 is at least the number of clients that are inside with both
  things found. `sync.c` (`SyncInv`): as long as no signal was missed, one of
  the two waits while the other has its turn, is about to kill or has killed.
  `critical.c` (`CritInv`): the handler has counted a SIGQUIT if and only if
  there was one, and a pending one is not counted yet; so one alone does not end
  it, in its last sleep either (see the run `critical_quit`). The mapped file
  and object are in the same property: `OpenerInv` names a last opener, from
  whose stretching on what it has copied is in the file.
* `QueuesAreSafe` (`QueuesInv`). Order (`OrderInv`) is more than the order in
  each queue: what a reader has shown comes before all that is in its queue.
  That a sent message comes last rests on `PastInv`: whatever is in a queue or
  was shown is of a line its sender typed before the one it is about to send.
  `Lab3Inv`: the queue of a second main holds nothing of before it, and while
  there is one main everything is from its co_process. `NotifyInv` relates the
  registration, the pending signal and the queue, for each place of the notified
  reader.

`SignalProofs`, for every N, forks that fail or not, any number of signals that
come early; and, in the second phase, for any tree, number of points, A and S:

* `TreeInvariant`, `TreeIsSound` (`TreeInv`). The lower bound rests on
  `CountInv`: until N - 1 forks are granted, the counter and every value read of
  it is at least N minus the forks granted, so nobody has seen its end. The
  upper bound, and that there is an identifier for every child, rest on
  `HeapInv`: there is a numbering of the processes as positions of a full binary
  tree (2v and 2v + 1 below v) in which no two share a position. If nobody has
  seen the counter's end, every position that was passed is taken (`Full`), and
  by a least position that is free the tree would be full. `KidInv` says what
  `child[]` holds, copies made by `fork` included. The handlers of early signals
  touch none of this (`BuildInv`) except where they make a wait fail;
  `OneHandler`, that `semaphore_handler` and who is in a handler are one token
  and who left keeps it, is inductive with the types. Powers of two come from
  the library's fact about the number of subsets (`PowerIs`, `PowerDoubles`),
  induction over numbers from well-founded sets (`LeastExists`).
* `GameInvariant`, `TurnsAreKept` (`TurnInv`), `PointsFreeze`
  (`FrozenAfterExit`). Tokens and holders of `semaphore_handler` are one in all,
  those of `semaphore_broadcast` one more for each wait that a signal
  interrupted; who leaves stays the holder of the first (`LeftInHandler`), so
  that no handler changes points after it.
* `EachPhaseIsSound`: the specification of the run, in which `phase` chooses one
  of the two, has both invariants and freezes after the exit.

`ChatServersProofs`, for both programs and any finite set of clients, slots and
messages:

* `ChatInvariant`, `ChatIsSound` (`ChatInv`). The table alone is not inductive:
  that a new client is in no slot needs that who waits to be accepted waits
  once, has no slot and was shown nothing (`QueueInv`). That what is shown was
  typed by the client under whose name it appears needs that whatever waits to
  be read was typed by its client (`AuthorInv`), and exact delivery that
  `joined` is never later than the log (`LogInv`). `select.c` sends to all but
  the author, `poll_try.c` to all: the authors a client is not sent are
  `Unheard(c)`, and the two lemmas about logs (`ExactOwn`, `ExactOther`) are
  stated with that set. `Broadcasts` says what one broadcast does to the queues
  of all clients.

Each inductive invariant was first checked with TLC on the instances of the
runs.

Only model-checked. Out of the prover's reach for good: all liveness (fairness
and `ENABLED`); what a recursive definition computes (the expected output of
`BatchJob`, and with it `BatchInv`). Every other safety invariant and action
property of a passing run is stated by a theorem.

## What the models show that has no run of its own

Met while modelling, and excused by name in the properties where they apply:

* Poll server: a broadcast to a client that was reset raises SIGPIPE, which ends
  the server; a reset before any read leaves `POLLIN|POLLERR|POLLHUP`, which `==
  POLLIN` never matches, and the slot is held for ever; a client put in a slot
  whose old `revents` was for stdin is read from at once, and blocks the server
  if it is silent. Two freed slots poll stdin both, and are both readable for
  one typed line: the second `read(0)` blocks the server until the next line.
* Signal tree: the comment `//CS` (line 98) marks no critical section after the
  first fork: up to N processes are in it, decrements are lost, and the tree may
  be larger than N. A right leaf keeps its sibling's number in `child[0]` and
  takes it for a child. A signal that comes before the tree stands interrupts a
  wait, and the tree may be too small; its handler waits for
  `semaphore_handler`, and if a process has exited in its own at 0 points, that
  process and, if it was inside `fork_well`, others never leave `createBtree`.
* Signal game: the process that reaches 0 exits with `semaphore_handler` held,
  and every other handler waits for ever.
* Ping-pong: once the parent has exited, the other child stays as an orphan.
* Web client: a message of the queue starts with two ints where `msgsnd` takes a
  long, so its type is `clen * 2^32 + msg_type`. `msgrcv` with type 1 then takes
  only an empty segment of the first child: the parent waits for ever, except
  for one child, or when earlier runs that were killed while they waited have
  left such segments in the queue, which `msgget` without `IPC_EXCL` opens
  again: then a file is saved from entries that were never set
  (`OnlyEmptyIsTaken`). What a single `recv` leaves of a body is read by the
  next child as the beginning of its status line and header. A CRLF in it ends
  the status line; an empty line ends the header, and then this child leaves its
  own answer to the next, which takes it for its own. `recv` of an empty body
  waits on a connection that is kept open, and the parent waits for the child. A
  full queue does the same. A range whose fork failed is never asked for.
* Pipelines: a stage of `multi_pipes` whose command is missing returns from
  `spawn_proc` as the parent does and spawns the rest of the pipeline into the
  pipe it reads: nothing of that ends. No command ever gets SIGPIPE, since every
  stage keeps the read end of its own pipe: a writer whose reader is gone waits
  instead. The shell writes the message about a missing first command to the
  pipe; a third command of a line is dropped (`parsePipe` looks for two), and a
  fork that fails leaves both ends of the pipe to the shell.
* System V: two clients may write before the server reads once; the first
  message is then lost and the second printed twice, and semaphore 1 is 2 where
  the comment at `server_ibm.c:75` names the values 0 and 1. A client that finds
  the segment before it is removed and attaches it after that writes to the
  address -1 and ends with semaphore 0 raised (`client_ibm.c:75` tests for
  NULL).
* Batch executer: a command that is not found, an empty line and a comment line
  double all that follows (`bfile` has none inside a block), unless a fork
  failed: then nothing is run in its place and the batch goes on. Line 16 of
  `bfile` is `%BEGIN` with two blanks after it, which is not recognised, as the
  mark is compared with the whole line: `bfile:17` ("This executes correctly")
  does not run. A stage with more output than a pipe holds, or a reader behind a
  stage that is not found, never ends. After `ls | ls` what the second did not
  read is read by the next `cat`. In `ls > f | cat` the word after `>` is run as
  a command and the output goes to a file of the name `cat`.
* Chat servers: `select.c` greets a client for whom it has no slot and never
  looks at it again. After a reset `read` returns -1, and the last message of
  somebody else is sent again. `poll_try.c` sends a message back to its sender
  as well.
* Co-processes: the version of `validateEmail` with standard input and output
  never answers, since its output is buffered. The chat server waits in `open`
  for a receiver that does not read, and all others with it.
* Queues: `mq.c` waits for ever when the random type was 0. The first
  `msgq_client` that ends removes the queue under the others. A message that was
  there before `mq_notify` goes unnoticed, and with it all that come after.
* Handoff: a killed run of `sem_wait_post` may leave both semaphores 0. `sync.c`
  may wait for a signal that came before its `pause`.
* Echo server: a client that leaves with an echo unread ends it for all
  (`sigPipeClient`). `client.c` with a word too long for the buffers waits to
  send, as the server does. `download.c` never ends when the server closes
  before it has the bytes it was written for.

## Not modelled, and why

`PROJECT.json` gives the reason for each component. In short: demonstrations
that make one system call or print have no state to relate; the lab 0 exercises
are sequential programs with planted faults; `lex.yy.c` is generated; the lab 6
copies of lab 4's demonstrations are copies. Formatting is left out, and a
header line is taken by what it says; what the web server sends is cut between
pieces, never inside a line end, and chunked bodies are not modelled. `myshell`
puts each word of a line at the offset it has in the line, into memory that is
not initialised, and counts the words past the end of its array: what its
`do_pipe` is given is undefined. Memory errors (the overflow of `fds[]`, of
`myshell`'s argument arrays, an uninitialised name in the FIFO server) are
outside the models; so are the last line of a batch file without a newline and a
`>` with no word after it. Three hazards are known and in no model: a client
that does not read stops the poll server in `send` (`poll.c:182`); a restarted
lab 4 server creates its semaphores anew while sub-clients wait on the old ones
(`server.c:52`); and the signal game's range `getppid() - N .. getpid() + N` may
take in processes that are not of the tree (`signal_tree.c:203`).

## Plan

What is left: `SignalTree` and `SignalGame` composed, so that the game starts in
the trees that the first phase builds.
