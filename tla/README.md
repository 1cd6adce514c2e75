# TLA+ models of darkbox

The repository is a set of small programs for console scripts: **darkbox** (a
console drawing interpreter and input server), **ptnio** (sockets for scripts:
a server process keeps the sockets, short-lived clients command it), **choice**,
**tcs_o**, the older **cbatbox** and **darkbox_i**, and the libraries below them
(`lib/core`, `lib/core_i`, `lib/znsock`, `lib/fllist`, `lib/nms.c`,
`lib/sthread.c`).  This directory holds TLA+ modules for the parts in which
something can go wrong that a test hardly reaches, the TLC configurations that
check them on small instances, and theorems proved with TLAPS.

Most of the risk is in ptnio: several processes, several threads, a shared list
of sockets, blocking system calls in the middle of everything, and a wire
protocol without a length or type on its answers.  The project starts there.

## 1. Inventory

| Component | State | Operations | Talks to | Hard parts | What makes it right |
|---|---|---|---|---|---|
| **ptnio socket registry** `ptnio/server/commands/server_cmd_{utils,new,free,accept,list,exit}.c` | `pair_list`/`pair_count` (realloc'ed array of pointers), `id_socket_pair` cells, `pair_mutex`, the descriptors | `new`, `free` (`close`), `accept`, `list`, `exit`, and the lookup every other command begins with | every server thread; the kernel's descriptors; the client through codes | lookups whose pointer and index outlive the mutex, graceful closes of seconds (with and without the mutex), failing allocations | memory safety of the list; a name has one socket; no descriptor leaked or left closed in the list; a command acts on its own socket; the mutex is given back |
| **ptnio commands on a socket** `server_cmd_{tcp,nms,bind,connect,listen,info,poll}.c` | the socket's blocking mode, shared by the threads; the locals of the loops | `bind listen connect info poll recv send nms_recv nms_send` | the network peer, the client, other threads on the same socket | loops with counters and several exits, error of one side in the middle of a transfer, two threads on one socket | bytes neither lost nor invented; count respected; the mode restored; success means delivered |
| **ptnio threads and dispatch** `ptnio/server/server.c` | the IPC socket, the thread pool | start, accept loop, dispatch | clients, the parent process | threads serve before the start-up is complete | a thread comes back from every client |
| **ptnio client** `ptnio/client/*`, `ptnio/message.c` | the command, the dialogue's position, the errorlevel | connect, send the words, dialogue of the command, exit | the server | the other side ends anywhere | both sides agree on what comes next; the errorlevel is the server's answer |
| **NMS framing** `lib/nms.c` | none | head (two length bytes) and body | sockets | width of the length | the length read is the length written |
| **ptnio start-up** `ptnio/ptnio.c`, `args_parser.c`, `pipe_fork.c`, `lib/znsock/ipc/ipc_unix.c` | parsed arguments, the pipe, the path in the file system | parse, fork, unlink/bind/listen, notify | other servers with the same ID, clients | a race for the path; a failure before the notice | when `ptnio -n` returned the server is ready; it returns |
| **znsock**, **sthread** | descriptors, blocking flag, a mutex | thin wrappers | kernel | graceful close | as used above |
| **darkbox interpreter** `darkbox/darkbox.c` | `origin_x/y`, the two buffers, the cursor and the colours of the console | `parse_cmd`, `execute_cmd` (`a c g j h d n s o l b i r q w`), `-e` encoder, `-k -i -m -y -w` | stdin, console, keyboard | quoting, escapes, limits of the buffers, end of input | `-e` and the interpreter are inverse; every letter takes its own arguments; figures are complete; it ends |
| **core**, **core_i** `lib/core`, `lib/core_i` | console colours; the latest button; stdio's buffer and the terminal's modes | output; `core_getkey`, `core_input_get_event`, `core_get_mouse`, `kbhit` | terminal | escape sequences of any length, keys typed ahead, the end of the input inside a sequence | one event per key, none lost |
| **fllist** `lib/fllist.{c,h}` | linked nodes | insert, remove, find, count; queue and stack macros | nobody yet | loops that stop at an index or at the end, whichever comes first; failing `calloc` | behaves as a sequence; nothing leaks; every loop ends |
| **choice** `choice/choice.c` | option flags, remaining time | parse, wait for a key or the timeout | core_i | unsigned time, default choice | answers with the index of the key |
| **tcs_o** `extras/tcs_o` | origin, console | `a c g d n o s w q` read from stdin | stdin, console | end of the input anywhere, escapes, text longer than its buffer | shows what darkbox shows for the commands both have; ends |
| **cbatbox** `extras/cbatbox`, two programs | origin, console, position of the last goto | the commands of its command line | arguments, console | a missing last argument, two consoles with two colour models | each command takes its own arguments; ends |
| **darkbox_i** `extras/darkbox_i` | – | `-k -m -y -z`, as darkbox | terminal | as darkbox | as darkbox |
| `tools/`, vendored Lua and PNG code | – | off-line image converter | files | none | – |

`PROJECT.json` lists for each component its sources, the modules and the status,
and under `hazards` the places (with their lines) where the code can go wrong.

## 2. Modules

| Module | Models | Kind |
|---|---|---|
| `PairList` | the socket registry with any number of threads | detailed specification |
| `SocketNames` | what the registry promises: a set of names and requests | abstract specification |
| `PairListClients` | `PairList` with finitely many clients | composition, for safety and liveness |
| `PairListProofs` | the registry's theorems; with one thread, also the refinement | proofs |
| `SharedSocket` | several threads in `recv`, `send`, `nms_recv`, `nms_send` on one socket | detailed specification |
| `MCSharedSocket` | what the peer sends, for TLC | model |
| `SharedSocketProofs` | its theorems | proofs |
| `Session` | one command end to end: client process, connection, handler, network socket | detailed specification |
| `Nms` | the two length bytes of a packet, used by `Session` and `SharedSocket` | operators |
| `SessionProofs` | the theorems about a dialogue and its packets | proofs |
| `Launch` | command line, fork, start-up of the server, the IPC path | detailed specification |
| `MCLaunch` | four concurrent launches for TLC | model |
| `LaunchProofs` | the parser's meaning and the start-up's theorems | proofs |
| `Console` | the input and the console that the drawing programs share | common part |
| `Darkbox` | the interpreter of darkbox and its encoder `-e` | detailed specification |
| `Figures` | the loops that draw lines, boxes and circles, and what a complete figure is | operators |
| `DarkboxProofs` | the theorems about the figures and about encoded texts | proofs |
| `TcsO` | tcs_o | detailed specification |
| `CbatboxCore`, `Cbatbox` | cbatbox on lib/core, cbatbox on the Windows console | detailed specifications |
| `MCDarkbox` | the four programs, four families of inputs and their meaning, for TLC | composition, model |
| `VtKeys` | decoding of key sequences and mouse reports (`core_i`) | operators |
| `ChoiceArgs` | the command line of choice, and which key is which choice | operators |
| `InputPrograms` | darkbox `-i -m -y -k -k_` and choice on a terminal | detailed specification |
| `MCInput` | the programs and what their users type, for TLC | model |
| `InputProofs` | what the reading programs report is what was typed | proofs |
| `FlList` | the linked list, with its nodes on the heap | detailed specification |
| `ListLemmas` | what `Append`, `RemoveAt` and `InsertAt` do to a sequence; least elements, induction on numbers and what a recursive function is | lemmas, for five proof modules |
| `FlListProofs` | the list is a sequence | proofs |

`PairList` comes first because every command of ptnio goes through the registry;
`SharedSocket`, `Session` and `Launch` complete ptnio; `Darkbox` with its
relatives and `InputPrograms` are the output and the input half of the other
programs; `FlList` is the library that no program uses yet.

The four specifications of ptnio divide the program by question.  `Launch` ends
where a client is connected to a running server; `Session` starts there and
follows one client with every send and receive; `PairList` keeps only what a
session does to the state shared by all threads, and has many threads.  Where
one abstracts what another details, the interface is a choice: `Session` chooses
which code the handler answers with (why is `PairList`'s matter), and `PairList`
chooses when a system call on a socket returns (what it transfers is `Session`'s
matter).  `SharedSocket` has several handlers on one socket and keeps of each
client only what it is sent and whether it is still there.

### 2.1 PairList: state and actions against the code

`pair_list` is the array as the code sees it through `pair_count`; `heap` holds
the `id_socket_pair` cells, each live or free; `fds` the descriptors with the
name each was created for; `pair_mutex` its owner; `pc` and `loc` one program
counter and set of locals for each thread.  A command is cut into steps where
another thread can get in between: at each acquisition and release of the mutex,
at each system call that may block or that changes a descriptor, and at each
read of a pair outside the mutex.  A critical section without a blocking call is
one step.

| Command | Actions | Source |
|---|---|---|
| any | `ServeClient`, `EndRequest`, `GetPair` | `server.c`, `server_get_pair` |
| `new` | `NewGetPair NewShutdown NewClose NewRemove NewSocket NewAdd` | `server_cmd_new.c` |
| `free`, `close` | `FreeRemove FreeClose` | `server_cmd_free.c` |
| `accept` | `AcceptGetPair AcceptBlock AcceptReturns AcceptLock AcceptClose AcceptAdd` | `server_cmd_accept.c` |
| `bind listen connect recv send nms_* info poll` | `UseGetPair UseRead UseReturns` | their lookup and `pair->socket` |
| `list` | `ListLock ListSend` | `server_cmd_list.c` |
| `exit` | `ExitLock ExitClose` | `server_cmd_exit.c` |

A pair read after it was freed shows what the build can show (`SocketsOf`): its
old descriptor or garbage.  A slot the list counts but never wrote (`Junk`,
after a failed `realloc`) stops the server when it is read (`JunkCrash`).

### 2.2 SharedSocket

The handlers of `server_cmd_tcp.c` and `server_cmd_nms.c` take no lock.  They
share `blocking` (O_NONBLOCK is not set), the bytes that have arrived and those
taken of them, and the bytes `out` that the kernel has accepted, of which the
peer has not read `unread`.  A system call reads the mode when it begins
(`RecvCall`, `SendCall`) and, if it waits, transfers piece by piece (`Takes`,
`Puts`), so other threads get in between its pieces; that is where another
thread's change of the mode bites.

| Code | Actions |
|---|---|
| `server_cmd_recv`: arguments and mode, one receive, the answer, `reset_socket` | `Setup`, `RecvCall Takes TakesNothing`, `Deliver`, `Reset` |
| `server_cmd_nms_recv`, `nms_recv` | `Setup`, the same receives, `NmsHeadReceived NmsBodyReceived` |
| `server_cmd_send`, `server_cmd_nms_send` | `GetPacket`, `SendCall Puts PutsNothing`, `Sent` |
| the peer on the network | `Peer` |

### 2.3 Session

`client` and `handler` are the two program counters with their locals, `conn`
the two streams of the IPC connection (one element for one `send`: a word, a
code, the head or the body of a packet) with the open ends, `sock` the network
socket.  `Kill` ends the client and `ServerExits` the server (another client's
`exit`) at any point, so every read must cope with an ended stream; a reset
(`ECONNRESET`) is told apart from an orderly end.  A send that the other end cut
short returns how much it sent, and the code asks only whether that is -1: on the
connection `SendPacket` and `PutPacket` then go on as after a whole one, and on the
network `Forward` acknowledges a buffer the peer does not have.  The bytes the peer
sends are numbered, so loss, duplication and disorder are visible.  `recv_count` is an
unsigned integer with `MaxUInt + 1` values, because the code's loop lets it wrap.

### 2.4 Launch

`Parse` is `parse_args` one word after the other, with the union that
`thread_count` and `command_argc` share; `Meaning` is what a line means read as
a whole, with a thread count after the colon (`-t:3`) or, as the syntax that ptnio
prints has it, in the next word (`-t 3`).  The start-up is one action per system
call: `Fork`, `Unlink`, `Bind`, `Listen`, `CreateThread`, `PipeSend` in the child
and `ParentReads` in the parent.  Those whose failure the code meets can fail: the
fork (`Fork`), the IPC socket and its name (`BindFails`) and a thread
(`ThreadFails`).  The results of `unlink`, `listen` and the pipe's calls the code does
not look at, and the model takes them to succeed.  `path` maps each ID to the launch whose socket
is bound there; `unlink` removes whatever is.

### 2.5 Console, Darkbox and Figures

`in` is the stream on stdin and `at` the position of the next `getchar`.  A
character is an atom and an integer of the stream is one element (its digits are
not spelled out); after the last element `getchar` returns EOF for ever, which
the code, reading into a `char`, treats as a character.  `ReadString`, `ReadInt`
and their limits are the loops of `read_string` and `read_int`.

| Code | Definition |
|---|---|
| `parse_cmd`: a command, an error, or a word and line to print | `ParseCommand`, `Echo` |
| `execute_cmd`: the loops over the count and the letters | `NextLetter` |
| letter `d`; letters `a c g j h n s o r w` and unknown ones; `q` | `Display`; `Simple` with `Arity` and `Effect`; `Quit` |
| letters `l b i`: arguments, then one step for each turn of the drawing loop | `StartFigure`, `Plot` with `Cell`, `AtEnd`, `Advance` |
| `darkbox -e` | `Encode` |
| `core_gotoxy`, `core_change_color_dos`, `core_reset_color` and the terminal | `Goto`, `GotoRelative`, `Put`, `Cleared`, `Colored`, `ColorReset` |

`console` is what the terminal shows: the cursor, the colour and the cells
written, and `out`, everything written in order.  `drawn` is a history variable:
the cells of the last figure, before clipping.  `MCDarkbox` adds `goal`, what
the stream was generated from, so that a property can say what it should show.

### 2.6 TcsO, CbatboxCore and Cbatbox

Three older programs with the same letters, each with a parser of its own.
tcs_o reads stdin as darkbox does, but stops at EOF wherever it meets it:
`ReadLoop` is `read_str_loop_`, `ReadStr` the entry to it (whose first character
is stored before the loop looks at it), `ReadNumbers` `read_number_`, and one
action stands for one turn of the main loop (`Skip Display Simple Exit`).  The
cbatboxes read their command line, so `in` is a sequence of words: `Execute` is
a command whose arguments are there, `Key` is `-k`, `Missing` (on lib/core) what
happens when they are not: the program's own test `argc - i < n` counts the
command too, so that a single missing argument is a read of NULL.  On the
Windows console the arguments are taken one by one (`Finish` when there is none
left), a new line is a goto below the `last` one, a colour has four bits, and
`-a` prints the bytes of an `int`.

`MCDarkbox` runs all four programs on the inputs that each can read, and
compares them with one meaning, `Apply`, in which the places where cbatbox
differs from darkbox are named.

### 2.7 InputPrograms, VtKeys and ChoiceArgs

The user (`Type`, `HangUp`) makes events; the terminal puts an event's bytes in
`tty`; the program takes them one `getchar` at a time (`Getchar`), through
stdio's `buffer` unless `kbhit` turned that off.  What `-k`, `-k_` and choice
answer is an exit status, of which a script gets eight bits (`ExitStatus`); `-i`
writes a code as it is.  `strcasechr` compares a `char`, which is signed, with the
code of a key (`Signed`).  `key` is `core_getkey` as an
automaton fed with one byte (`Feed`), which stops in any of its `getch` calls.
What is done with a key is an action for each place that asks for one:

| Code | Actions |
|---|---|
| `input_server`, `core_input_get_event`, `core_get_mouse` | `MouseBegins MouseButton MouseColumn MouseRow KeyRead` |
| `darkbox -k`, `-k_` (and `darkbox_i`) | `Peek KeyReturned Again` |
| `run_choice`, `check_key` | `Ask Turn TimeOut CheckKey` |
| `parse_args`, `get_value` of choice | `parse_args` and its operators |

`typed` is a history variable.  The codes the properties expect of the keys are
those of the Windows build (255 plus the scan code, `win_core_i.c`), the
sequences those of xterm; both are written in `MCInput`, not read off the table
in `vt_core_i.c`.

`InputAssumption` says what the user may do: a key (`IsKey`) is a sequence of
bytes that `core_getkey` takes as a whole for the key's code, and not before its
last byte; a mouse event (`IsMouse`) is one whose place fits the byte it is
reported in; anything else is `"partial"`.  TLC evaluates it on the keys of
`MCInput`, and that is where the table of `vt_core_i.c` is compared with the
codes; the theorems take the assumption and hold for any keys, tables aside.

### 2.8 FlList

`heap` is the nodes allocated, `next` their links (a freed node keeps what it
had), `head` the caller's list.  A call begins with any arguments (`Begin`); one
turn of a loop is one step, so that `CallsReturn` is about the loops; `calloc`
may fail.

| Code | Actions |
|---|---|
| `list_insert` and its macros for both ends | `InsertFails Insert InsertWalk InsertLink` |
| `list_remove`, `list_remove_at` | `RemoveNode RemoveWalk RemoveEnd`, the latter after `GetNode GetWalk GetEnd` |
| `list_get_node`, `list_get_count` | `GetNode GetWalk GetEnd`, `Count CountWalk CountEnd` |
| `queue_pop`, `stack_pop` | `Pop` |

`nodes` is a history variable: the sequence that the calls describe.

## 3. Runs

| Run | Instance | States | Shows |
|---|---|---|---|
| `PairTwoThreads` | 2 threads, 2 names, 2 cells, 2 descriptors, all commands, 4 clients | 230 k | type, `ListSound`, `LockedIndexValid`, `ListingStable`; `MutexReleased`, `CommandsAnswered` |
| `PairOneThread` | 1 thread, 2 names, 3 cells and descriptors, one failing `realloc` (`MaxJunk = 1`) | 384 k | `SocketsMatchList`, `NewRemovesOldPair`, `UsesNamedSocket`, and that the registry implements `SocketNames` |
| `SharedSocket` | 2 threads, each with any of 6 commands, 4 bytes from the peer, 2 packets to send | 544 k | `BlockingAtRest`, `SentWhole`, `ReceivedOnce`, `NonBlockingReturns` |
| `Session` | every command, chunks of 2 bytes, counts 0 and 1, 3 bytes from the peer, 2 bytes of input, streams of 3 elements | 400 k | eight properties of one dialogue |
| `Launch` | two servers and two clients started in any order, 2 IDs, lines of up to 4 words | 125 k | `ParseAgrees` and the start-up properties |
| `Darkbox` | all streams of up to 4 of 8 characters; all texts of up to 5 of 6 characters in pieces of 2; 331 figures; programs of up to 3 calls; for darkbox, tcs_o and both cbatboxes | 199 k | `FigureComplete`, `ProgramMeans`, `TextRoundTrip`, `AllTerminate` |
| `FlList` | every sequence of calls on up to 3 nodes, indices 0 to 4 | 143 k | `ListAsSequence`, `CallsReturn` |
| `Input` | 8 ways to start darkbox, each acceptable line of choice (with keys beyond ASCII too) on a console and on a file, 2 to 4 events | 370 k | `EventsArrive`, `AnswerIsMeant`, `EndsWithInput`, `TimesOut` |
| `LaunchHang`, `UseAfterFree`, `NoAnswer`, `RecvCount` | the smallest instance with the behaviour | | a disagreement each, see section 5 |

**Bounds and why they are enough.**  Threads in `PairList` interact only through
the list, the mutex, the heap and the descriptors: two threads are enough for
one to invalidate what the other holds, and the theorems of section 4 lift the
safety properties to any number.  Two names give a pair to keep and one to
remove, and with one thread the theorems cover any number of everything else; two cells make a freed cell be reused at once, and a third one (in the
runs where it matters) lets it be a different one.  Descriptors are reused in the same way
(`MaxFd`).  `MaxJunk` is the number of slots that a failed `realloc` leaves
counted and unwritten; the server reads the first of them, so one is enough.
`PairListClients` counts clients because a mutex is not fair: with an endless
stream of clients a thread may never get it.  Four commands are two for each
thread, or four of one during one of the other.

`SharedSocket` has two handlers, since every hazard of a shared mode or stream is
between one that changes it and one that relies on it; the theorems lift the
safety properties to any number.  `Chunk = 3` and `Count = 2` make both full and
partial receives; `Room = 2` is less than what one sender has to send, so that
sends wait, or are cut short by a non-blocking mode.

`Session` has chunks of two bytes where the code has 65535, so that a transfer
of three bytes has a full chunk, a partial one and an end; `MaxUInt = 7` keeps
the width of `recv_count` finite so that its wrap happens; a stream of three
elements still fills up, so senders wait, and it holds all that a client of
`send` writes unanswered (with two it would always be stopped before it ends,
and the send without an answer of section 5 would not show).  The counts in the passing run are
below `Chunk`, where `TakesCount` holds; `RecvCount` has the count above it.
Every packet boundary is at the same arithmetic place, and the two length bytes,
which the small `Chunk` cannot exercise, are proved for all lengths, and the
safety properties for all sizes (`SessionProofs`).

`Launch` has two servers because a race needs two; `MCCommandLines`
gives them a takeover of an ID, different IDs, a thread count the system cannot
provide and `-c` after `-n`, and `ParseAgrees` is about all lines of up to four
words of `MCWords`, so every option comes before and after every other.  `Darkbox` has buffers of 2 and 6 characters instead of 1024 and
128, so texts are cut into pieces and words fill the buffer; integers of the
figures go from -2 to 7, which gives every octant and both parities of every
slope.  tcs_o and the cbatboxes get the same
families, as far as they have the letters.  `FlList` has three nodes, the fewest
with a first, a middle and a last one, and indices up to past the end by two;
`FlListProofs` is about any number.  In `Input`, 4 mouse events are enough for a third click after a double
one and for anything between two clicks; key sequences of every length follow
each other; an event's bytes are sent at once, and later events before or after
they are read.  `WaitsPerSecond` is 2
instead of 10, so a choice reads wrong keys in all, some or none of its turns.
`MaxParam` caps a key's parameter above every value the table has.
`InputProofs` is about any number of events, any keys and any parameters.

**Fairness and why the code justifies it.**

* `PairListClients`: weak fairness of each thread's own steps (`Progress`), for the
  operating system runs every thread.  Not of `AcceptReturns` and `UseReturns`:
  a peer may never connect or send.  Clients read their answers (a client that
  stops reading would block `list` under the mutex, see hazards).
* `SharedSocket`: weak fairness of each thread.  The peer need not send, read or
  close.
* `Session`: weak fairness of the client's and of the server's steps.  Not of
  `ReadStdin` (the user), `Peer` and `ServerWaits` (the network), `Kill` and
  `ServerExits`.  The liveness properties are conditional accordingly.
* `Launch`: weak fairness of each child, each parent and each serving thread.
  Nobody is forced to start a program.
* `Darkbox`: weak fairness of the program's one thread, whose input is all there.
* `FlList`: a call that has begun goes on.  Nobody need call.
* `Input`: weak fairness of the program.  The user need not type, hang up, or
  start the program again.

`CHECK_DEADLOCK FALSE` is only in `Launch`, `LaunchHang` and `Input`, whose
programs end and leave nothing to do; the others have an explicit last step that
only a completed system can take, so TLC looks for deadlocks too.

**What the properties say** is written above each of them.  In short:

* `ListSound`: no pair is listed twice, every listed pair and every pair a
  thread is building is allocated, and pairs under construction are private.
  `LockedIndexValid`: the index `accept` keeps over a graceful close is still
  that of the pair it looked up.  `ListingStable`: a listing is of one moment.
* `SocketsMatchList`, `NewRemovesOldPair`, `UsesNamedSocket`: with one thread the
  open sockets are those of the list, `new` replaces the pair it found, and a
  command acts on the socket that has the name it was given.
  `ImplementsSocketNames`: seen as a set of names, every command does atomically
  what it is for, and a name has one socket.
* `MutexReleased`, `CommandsAnswered`: no thread keeps the mutex, every client
  is answered unless its command waits for the network.
* `BlockingAtRest`: however `recv` commands overlap, the last one leaves the
  socket blocking.  `SentWhole`: what a client was told is sent was accepted by
  the kernel, and a single sender's bytes are the whole stream.  `ReceivedOnce`:
  what arrives goes to one client only, in order.  `NonBlockingReturns`: a `recv`
  that must not wait ends although the peer is silent.
* `InSteps`: both ends of a dialogue agree on what comes next; `ExitCodeIsAnswer`,
  `RecvDelivers`, `TakesCount`, `InputDelivered`: answers and
  data arrive, the latter for a `send` that a handler answered (one that no
  handler answers is `SuccessIsAnswered`) and unless the peer resets the
  connection (section 5); `ClientEnds`, `ThreadFreed`: nobody is left waiting for
  the other.
* `ParseAgrees`: the parser that goes word by word, and the meaning of the whole
  line, agree, but for a thread count in a word of its own, which is an error
  (section 5).  `ReadyWhenReturned`, `NoRefusalWhenReady`, `ReadyIsReported`: a
  `ptnio -n` that returned with success left a server that accepts clients.
* `TextRoundTrip`: the interpreter shows exactly the text given to `-e`.
  `ProgramMeans`: each call of a program gets its own arguments however letters,
  counts and commands are grouped.  `FigureComplete`: what was drawn is the line
  (each cell within half a cell of it), the box or the circle, without gaps.
  `AllTerminate`: darkbox, tcs_o and the cbatboxes end when their input does.
* `ListAsSequence`: the nodes on the heap are those of the sequence the calls
  describe, linked in its order, and every answer is right for it.
  `CallsReturn`: every loop ends.
* `EventsArrive`: each event is reported once, in order, with its own code (from
  `-k` and `-k_` with what an exit status keeps of it), and double clicks are the
  even ones of a series.  `AnswerIsMeant`: choice answers with the first of its keys
  pressed in time, else with the default; for up to 255 keys, and for keys of ASCII
  unless the case matters (section 5).
  `EndsWithInput`, `TimesOut`: they end.

## 4. Proofs

Every theorem holds for all values of the constants that satisfy the named
assumptions of the module it is about; each of them is about a property that a
run checks on a small instance, except the two about the head of a packet.

**`PairListProofs`**: any set of threads, names and cells, any number of
descriptors, from `ConstantsAssumption` of `PairList` alone (the special values
are not members of the sets, and the bounds are numbers).  `ListSound` is not
inductive by itself: a thread that is about to write the list or to use an index
must be known to hold the mutex and to have read the list since.  The inductive
invariant is

    IInv == TypeOK /\ ListSound /\ PairRead /\ MutexHolder /\ LockedIndexValid

where `MutexHolder` says at which program counters the mutex is the thread's and
`PairRead` what a thread that looked a name up knows of the pair it found.  The
proof that a step preserves it goes conjunct by conjunct (`TypeStep`,
`SoundStep`, `MutexHolderStep`, `PairReadStep`, `LockedIndexStep`), each with a
case per action; what the list operations do (`RemoveAt`, `Append`, the lookup)
is in lemmas that the cases cite.  The theorems are `TypeCorrect`, `ListIsSound`,
`LockedIndexIsValid` and, as an action property from the same invariant,
`ListingIsStable`.

Its second part is about one thread (`OneThread`, the only assumption added), any names,
cells, descriptors and failing allocations.  The invariant adds to `IInv`

    AllAlone == \A t \in Thread : Control(t) /\ Ids /\ Lookups(t) /\ Sockets(t) /\ NoLeak(t)

`Control`: which command the thread serves at each step; `Ids`: no two listed pairs
have one name; `Lookups`: what was looked up is still listed, with its index and name,
and what was not found is still missing, which is exactly what a second
thread breaks; `Sockets`: each listed pair and the pair under construction own
an open socket, except while one is being replaced; `NoLeak`: every open socket is
one of those.  It gives `SocketsAreListed` (`SocketsMatchList`), `NewRemovesItsPair`
(`NewRemovesOldPair`), `UsesItsSocket` (`UsesNamedSocket`), and `RegistryIsNames`:
`Spec => ImplementsSocketNames`.  The refinement goes step by step (`StepMaps`): the
removal of a pair from the list is `Drop` (of `exit`: `Shut`), the growth of the
list is `Create`, an answer is the answer, and everything else is a stutter.

**`SharedSocketProofs`**: any number of threads on one socket, any commands, any
bytes.  `ModeRestored` (`BlockingAtRest`) needs `Fits`, that what a thread holds
belongs to the command it runs, so that a thread at rest is no `recv`.
`NothingSentIsLost` (`SentWhole`) adds `Sends`: what a sender counted as sent is
what the kernel took from it, which holds as long as nobody makes the socket
non-blocking; that is why the property says so.  `SharedSocketTyped` is the type
invariant.  `BytesReceivedOnce` (`ReceivedOnce`) has an invariant of its own,

    Received == Ordered /\ Apart /\ Covered /\ FailsEmpty /\ FirstPacket

`Ordered`: what a client was given, followed by what its handler has in hand, is
in the stream's order; `Apart`: no byte is with two threads; `Covered`: while
nobody has left, every byte taken is with somebody; `FailsEmpty`: a receive that
failed has taken nothing; `FirstPacket`: how far an `nms_recv` that has the socket
to itself is in the first packet.  Each step is first reduced to what it does to
these (a quiet step, a byte taken, bytes given or dropped: `StepKinds`).

**`FlListProofs`** (with the lemmas about `Append`, `RemoveAt` and `InsertAt` in
`ListLemmas`): lists of any length, any index, any node, in any order of calls.

    IInv == FieldsOK /\ Represents /\ Loops /\ AnswersRight

`Represents` relates the nodes on the heap to the sequence of `ListAsSequence`;
`Loops` says where in that sequence each pointer of a running loop is, which is
what makes an insertion or a removal in the middle of a call go through;
`AnswersRight` that a call that ended answered what the sequence says.
`ListIsSequence` is `Spec => []ListAsSequence`.

**`LaunchProofs`**: any launches, IDs and command lines of any length.  Two
arguments meet.  The first is about `parse_args` alone: `ParseIsMeaning` says
that going word by word gives what the line means as a whole.  It is an induction
along the words; since the induction theorems of the library cannot be
used, `NatMin` of `ListLemmas` (a set of naturals that is not empty has a least
element: the intervals 1..n are well-founded by inclusion) takes their place: the
least position at which parser and meaning disagree has a predecessor at which
they agree.  The second is about the processes: `IInv == TypeOK /\ InOrder /\
Named`, where `InOrder` says what a launch has done at each of its steps (bound
before it is ready, threads before the notice in the pipe, notice before the
parent returns) and `Named` who owns the IPC path.  A thread count in a word of its
own, where `ParseAgrees` makes its exception, is carried to the parser by
`AsWritten`: a line with one is an error (`ParseIsAsWritten`).  The theorems are
`LaunchTyped`, `LinesParsed` (`ParseAgrees`), `StartReturnsReady`
(`ReadyWhenReturned`) and `ReadyServerFound` (`NoRefusalWhenReady`, an action
property).

**`SessionProofs`**: one dialogue, with any command, buffers of any size up to
65535 (the head of a packet has 16 bits), streams of any capacity, any input,
any counts, and the client killed or the server ended anywhere.  First the head
itself: its two bytes give back every length up to 65535 (`LengthRoundTrip`), and
two lengths are never announced by the same bytes (`LengthInjective`).  Then an
invariant in layers, each proved from those below it, action by action:

* `Typed`: `TypeOK`, and what is held fits a buffer (`SessionTyped`).
* `Party`: which ends are open, that the handler runs the client's command, and
  at which steps an answer has been given.
* `Framing`, for `DialogueInSteps` (`InSteps`).  A statement about the first
  element of a stream is not inductive: reading it uncovers the next.  So the
  kinds of all its elements form a `Chain`, from what the reader wants to what
  the writer is about to write; `Lengths` adds that every body has the length of
  the head before it, and `Words` that the words of the message are used up
  before the dialogue begins.
* `CodeArrives`, for `ExitCode` (`ExitCodeIsAnswer`): the answer is on the stream
  until the client has it.
* `Sent`, for `SendsInput` (`InputDelivered`): one buffer is on its way at most,
  at each step of the client and of the handler it is said where, and unless it
  reset the connection the peer has all those before it (`AtPeer`).
* `Flow`, for `RecvInOrder` (`RecvDelivers`): a stream `Carries` bytes if there is
  a position for each of its elements that grows by the length of each body,
  starts where the client's output ends and leads up to what the handler still
  holds.
* `Counted`, for `RecvTakesCount` (`TakesCount`).  This theorem alone has a
  hypothesis, `CountsFit`: the counts are below the size of the buffer.  It is
  not a convenience: with any greater count the property is false (run
  `RecvCount`).

**`DarkboxProofs`**: any stream of characters, so any command and any arguments
of any sign and size (the model's integers are unbounded: arguments near the
limits of C's `int` are not covered).  `FiguresComplete` is `Spec =>
[]FigureComplete`.  Its invariant says that between two figures the last one is
whole, and within one that the loop is where it should be:

    IInv == in \in Seq(Chars) /\ at \in Position /\ LastFigure

`LastFigure` needs a statement of its own for each loop.

* Lines, `LineSoFar`: after k steps along the longer axis and l along the shorter
  one the error term is `n \div 2 - (k*m - l*n)`, n and m being the lengths of
  the axes, and it stays between 0 and n (`On`).  So the distance from the ideal
  line is at most half a cell, l is determined by k (`OnOnce`), and after n steps
  along the one axis there are m along the other (`OnEnd`): the loop meets the
  end, which it tests for in both coordinates at once.  `Turned` and `Cross`
  carry this to all eight directions.
* Boxes, `BoxSoFar`: the cells drawn are those of the box that come before the
  next one.
* Circles, `CircleSoFar`: the error term is `m*m + n*n + 2*n - r*r` at the point
  (m, n) of the arc and stays between -2m and 2n + 1 (`ArcPoint`), from which
  `ArcRound` derives both bounds on the distance from the centre; after a turn
  inwards it is not positive, so the next turn goes up and leaves no gap (`Arc`);
  and the eight plots of a point are the cells that mirror it (`Octants`).

It rests on what reading returns: for every position from which they start the
loops of `read_string` and `read_int` end behind it, and as many integers are
read as the letter asks for (`ReadStringIs`, `ReadIntsIs`, by induction on the
room left in the buffer with `UpTo` of `ListLemmas`).

`TextsAreShown` is `MCSpec => []TextRoundTrip`: texts of any length (`TextSize`)
over six characters, of which `x` stands for all that quoting treats alike, and a
text buffer of any size (`MaxText`), read by darkbox and by tcs_o.  The module's
assumptions are that a command of two characters fits its buffer and that no
number is spelled as a letter (`TextAssumption`).  The argument is that `-e` and
the readers agree on where everything is:

* `Encode` makes its result from blocks, one for a character with the marks
  between pieces, and so the position of each character in it, and of each piece
  of the text, is that of its block (`Grows`, `EncodeGrows`, `EncodePieces`).  A
  piece is broken off so that it fits the buffer of the reader; that the break
  after it is where the encoder's counter says is `BreakAgain`.
* A loop that starts at the block of a character, with room for what is left of
  the piece, reads just that and stops behind the closing quote (`ReadsPiece`, by
  induction from the end of the piece).  This is stated for any function that treats
  escapes, quotes and other characters as `Quoted` says, and then shown of both
  loops: darkbox's `Scan` (`ScanQuoted`) and tcs_o's `ReadLoop` (`LoopQuoted`).
* The inductive invariant `TextInv` says that the input is such a series of
  pieces `a` and that the program is at one of four places (`Progress(a)`): in
  front of a piece, or in the `-d` of a piece, with the text before it shown;
  behind the last piece with all of it shown; or exited, with the text printed
  and, by darkbox alone, what the end of the input adds.

`AllTyped` is `MCSpec => []AllTypeOK`: streams of any length (`RawSize`), texts,
figures and programs, any size of the two buffers, and integers up to nine at
least, those that the programs are written with (`CharsAssumption`).  Its invariant
is one of each program:

    AllInv == goal.by \in {"darkbox", "tcs_o", "cbatbox_core", "cbatbox"} /\ ...
              /\ (goal.by = "cbatbox_core" => CoreInv) /\ (goal.by = "cbatbox" => WinInv)

* `DarkboxInv` adds to `IInv` what `TypeOK` says of the command and of the figure, and
  `ConIs(console)`: the cursor and the cells written to are on the screen, whatever is
  printed, plotted or moved to.  It is proved for any stream of characters.
* `TcsInv` needs how many numbers are read: as many as the letter takes, unless the
  input ends before (`ReadNumbersIs`; `Tcs!Effect` reads no number that is missing).
* `CoreInv` says for a whole program that the position is that of a call, with
  its arguments, or the end (`AtCall`).  This is why cbatbox on lib/core crashes on raw
  words only: its test of the arguments is too weak, and no call of a whole program
  comes to it (`CallIsWhole`).
* `WinInv` keeps the place of the last goto a pair of integers, also off the screen.

The initial states are typed because what the inputs are made from (`Spaced`,
`Separate`, `AllArguments`, `FlattenSeq`, `Encode`) are concatenations of typed blocks
(`Concatenation`, `StreamInputs`, `WordInputs`).  The proof found a set in `MCDarkbox`
that TLC and the prover read differently, for lack of parentheses.

**`InputProofs`**: any programs, keys and uses of the mouse that satisfy
`InputAssumption`, any number of events, typed before, between or during reads,
and any end of the input.  `InputTyped` is the type invariant.  The two others
rest on one statement, that the program is somewhere in what was typed:

    Track(c, r) == At(c, r) /\ ReportIs(c, r, report) /\ LatestIs(Seen(c, r), latest)
                   /\ (feof => c = Len(typed))

`At`: `c` events and `r` bytes of the next one are read, the rest is in `buffer` and
`tty`, and `core_getkey` is where those `r` bytes lead.  `ReportIs`: which part of
a mouse event is read.  `LatestIs`: `latest` is what the last press, movement or
scroll left there, and a press left a double click exactly when it is an even
one of its series, which is how `ButtonOf` counts in the history.
The invariants are

    Kept /\ (~Is("choice") /\ AllMeant => \E c, r : Track(c, r) /\ Spoken(c))
    Kept /\ (Is("choice") /\ Distinct => \E c, r : Track(c, r) /\ Chosen(c))

`Spoken`: what was told is what the first `c` events mean, and a program that
tells one event has stopped after it.  `Chosen`: no event before decided, or the
last one did and the answer is its; `Distinct` is the hypothesis of `AnswerIsMeant`.
That an exit status tells the keys apart is in `KeyCode` and `KeyStatus` (no code of
a key has low bits 0, which is the answer for no key) and `PlaceStatus` (at most
255 choices).
They give `TheEventsArrive` (`EventsArrive`) and `TheAnswerIsMeant` (`AnswerIsMeant`).
`Meanings`, `Told` and `SentUpTo` are recursive functions along the events; that
they obey their equations is `Recursion` and `Recursive` of `ListLemmas`, again by
induction on an interval.  The proof of `LatestIs` found two branches of the model's
`tomouse_b` that overlapped, so that its value was the prover's choice; they now
follow the order of the code's tests.

Only model-checked: what a program of several calls does (`ProgramMeans`), and with
it all that the cbatboxes, and tcs_o but for encoded texts, draw.  Out of the prover's reach altogether: the liveness properties (fairness
and `ENABLED`).

## 5. Where the code disagrees with what is said of it

Each of these is a run that TLC finds violated, and a finding in `PROJECT.json`:

* `UseAfterFree`: commands use a pair after the mutex was released.
* `NoAnswer`: a client whose server ended reports success; a client of `send`
  takes the missing code for leave to send its input.
* `RecvCount`: `recv` with a count of 65535 or more takes more than it asked for.
* `LaunchHang`: `ptnio -n` never returns if its server fails early.

Seen while modelling, in the models as the code has them, without a run of
their own:

* Registry: `new` removes by an index that another thread may have made stale, and
  then frees another name's pair; two threads can give one name to two sockets;
  after a failed `realloc` the list counts a slot that was never written; when
  `accept` runs out of memory it closes the wrong socket.
* One socket, one command: a blocking send that the peer's reset cuts short returns
  how much it sent, and `server_cmd_tcp.c:155`, `server_cmd_nms.c:109` and `nms.c:38`
  look for -1 only: the client is told SUCCESS.  `send` notices at its next packet; a
  client of `nms_send` whose last packet it was ends with 0, for the empty packet
  behind it is not sent on (`server_cmd_nms.c:121`).
* One socket, two commands: a non-blocking `recv` makes another thread's `send`
  write short while its client is told SUCCESS (`server_cmd_tcp.c:162` says
  "Data sent"); the mode that one `recv` restores is the one another `recv`
  is draining in, which then blocks; the heads and bodies of two `nms_send` clients
  interleave on the stream.
* `ptnio -id:ID -n -t 3`: the README (`ptnio/README:9`) and the help text
  (`ptnio.c:59`) write the thread count in a word of its own, the parser takes it
  after a colon only (`args_parser.c:64`) and says that 't' is without value.
* `exit` takes a return value for a descriptor and closes descriptor 0.
* `send` without an ID reads past its arguments; a client of `accept` that meets
  an `OVERWRITTEN` code exits before the packet that follows; `nms_recv` frees
  an unset pointer after an empty packet, and takes one byte of a head that came
  short for a length; `recv` in drain mode ends without the empty packet its
  client waits for, which then exits with 12; the length of a listed name is
  truncated to 16 bits.
* darkbox: a word that is no command is printed with the rest of the *next* line
  if it was alone on its own, because the line feed was consumed with the word
  (`darkbox.c:190`); at the end of the input it prints EOF bytes; the
  terminating NUL is written one past the end of a full buffer (`:497`, `:532`,
  and `ctcs_o_core.c:85` of tcs_o);
  `core_gotoxy` ignores negative positions and the figure's cell is then painted
  where the cursor was; circles stay up to 1.4 cells inside their radius.
* core: `core_reset_color` leaves bold on, though `darkbox.c:323` says "Reset
  foreground and background colors"; a bright background makes the text bold; the
  comments of the two cursor sequences in `ansi.c` (from `:78`) are swapped.
* cbatbox_core reads past its arguments when the last command lacks its own.
* fllist: `list_get_node` and `list_remove_at` past the end answer, or remove,
  the last node.
* core_i: at the end of the input inside a sequence `core_getkey` never returns,
  and neither does `core_get_mouse` at any end; a lone Escape key makes choice
  wait past its time-out; the code of Insert is that of Home (`vt_core_i.c:55`,
  326 where the Windows build has 337).
* darkbox `-k` and `-k_` return the code of a key as their exit status
  (`darkbox.c:96`), of which POSIX keeps eight bits: Up, 327, is 71, the code of G;
  End, 334, is 78, that of N; the end of the input is 255.  `darkbox_i/README:23`
  says so of darkbox_i and refers to darkbox, where it holds as well but for `-i`.
* choice: without `-CS` a key beyond ASCII is never taken, nor accepted as the
  default, since `strcasechr.c:22` compares a signed `char` with it;
  the default is accepted without regard to case and then looked for with
  it (`choice.c:68`); with `-CS` a special key is taken for the character that
  is its code's low byte, and ^@ answers one more than there are keys; an
  unknown key looks like the end of the input and answers 0; each wrong key
  shortens the time-out; on a quiet pipe the time-out never comes.

## 6. Not modelled

* The Windows, DOS and TCP-IPC variants (`win_*.c`, `djgpp_mouse.c`,
  `winapi.c`, `ipc_tcp.c`) and `ctcs_o.c`, the Windows twin of tcs_o: other
  builds of the same interfaces.
* The options of cbatbox that its build leaves out (sprites, `.bb` files).
* The kernel's state of a socket (bound, listening, connected) and what `poll`
  and `info` report of it: `PairList` and `Session` let such a call return any
  of its codes.
* The memory layout of buffers: sequences have no layout.  The bytes written past the
  end are described in section 5 and listed as a hazard.
* Terminal modes set by `getch` and `kbhit`, the visibility of the cursor and of
  the window, sleeping (`-w`), help texts, wording and prompts.
* The off-line tools and the vendored Lua.

## 7. Plan

1. Proofs: `ProgramMeans`, at least for darkbox, over programs of any length.
2. The index into `text_buffer` and `command_buffer`, so that the overrun is a
   property; `parse_args` of choice against the meaning of a whole line.
3. The Windows variants of the console and of the IPC, against the same
   properties.
