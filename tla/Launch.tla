------------------------------- MODULE Launch -------------------------------
(***************************************************************************)
(* Starting ptnio: the command line, the fork of a server, the notice it   *)
(* gives its parent, and the name under which clients reach it.            *)
(*                                                                         *)
(* A launch is one invocation of the program.  Its command line is a       *)
(* sequence of words; main parses it and then runs a client, or forks a    *)
(* child that becomes the server while the parent waits on a pipe.  The    *)
(* IPC socket of a server lives in the file system under a path built      *)
(* from its ID, which any number of launches may claim.  What a connected  *)
(* client and a server thread say to each other is module Session.         *)
(***************************************************************************)
EXTENDS Naturals, Sequences, SequencesExt, FiniteSets

CONSTANTS
  Launches,      \* the invocations of ptnio
  Id,            \* the IDs
  None,          \* a missing option value, an unbound path
  CommandLines,  \* the command lines each launch may be given
  Words,         \* the words of which every short line is parsed (ParseAgrees)
  MaxWords,      \* bound on the length of those lines
  MaxUInt,       \* largest unsigned int
  MaxThreads     \* threads a process can create (bound of the system)

(***************************************************************************)
(* Words.  The first letter after '-' selects the option; what follows the *)
(* first ':' is its value.  "number" and "x" stand for the words           *)
(* parse_args skips: a number without '-', and everything else that is not *)
(* an option it knows.                                                     *)
(***************************************************************************)
LineWord ==
  [opt : {"i"}, val : Id \cup {None}] \cup [opt : {"t"}, val : 0..MaxUInt \cup {None}]
  \cup [opt : {"n", "c"}, val : {None}] \cup [opt : {"number"}, val : 0..MaxUInt]
  \cup [opt : {"x"}, val : STRING]

ThreadCount == 2

\* argc, an int, is less than MaxUInt.
ASSUME LaunchAssumption ==
  /\ MaxUInt \in Nat /\ MaxThreads \in Nat
  /\ MaxThreads < MaxUInt /\ ThreadCount < MaxUInt
  /\ None \notin Id \cup Launches \cup Nat
  /\ MaxWords \in Nat
  /\ \A l \in Launches : \A line \in CommandLines[l] :
       line \in Seq(LineWord) /\ Len(line) < MaxUInt

Word(opt, val) == [opt |-> opt, val |-> val]
OptId(v) == Word("i", v)
OptNew == Word("n", None)
OptThreads(v) == Word("t", v)
OptCommand == Word("c", None)
Number(k) == Word("number", k)
Plain(text) == Word("x", text)

(***************************************************************************)
(* parse_args, one word after the other.  thread_count and command_argc    *)
(* are the two members of a union: "data" is the cell they share.          *)
(***************************************************************************)
NoArgs == [status |-> "options", id |-> None, new |-> FALSE,
           context |-> FALSE, data |-> 0, command |-> <<>>]

Bad(a) == [a EXCEPT !.status = "error"]

ParseId(a, w) ==
  IF w.val = None THEN Bad(a) ELSE [a EXCEPT !.id = w.val]

ParseNew(a) ==
  [a EXCEPT !.context = TRUE, !.new = TRUE, !.data = ThreadCount]

\* Mutant: -t is accepted before -n (line 59 dropped).
ParseThreadsAnywhere(a, w) ==
  IF w.val # None THEN [a EXCEPT !.data = w.val] ELSE Bad(a)

ParseThreads(a, w) ==
  IF a.new /\ w.val # None THEN [a EXCEPT !.data = w.val] ELSE Bad(a)

ParseCommand(a) ==
  [a EXCEPT !.status = "command", !.context = TRUE, !.data = 0]

ParseWord(a, w) ==
  CASE a.status = "error" -> a
    [] a.status = "command" -> [a EXCEPT !.command = Append(@, w),
                                            !.data = @ + 1]
    [] OTHER -> CASE w.opt = "i" -> ParseId(a, w)
                  [] w.opt = "n" -> ParseNew(a)
                  [] w.opt = "t" -> ParseThreads(a, w)
                  [] w.opt = "c" -> ParseCommand(a)
                  [] OTHER -> a

Help == [kind |-> "help"]

CommandWords ==
  UNION {Range(line) : line \in UNION {CommandLines[l] : l \in Launches}}

Arguments ==
  {Help} \cup [kind : {"server"}, id : Id, count : 0..MaxUInt]
         \cup [kind : {"client"}, id : Id, command : Seq(CommandWords)]

\* What parse_args knows after each word.
Parsed(line) ==
  LET after[n \in 0..Len(line)] ==
        IF n = 0 THEN NoArgs ELSE ParseWord(after[n - 1], line[n])
  IN  after

\* What main does with a command line.
Parse(line) ==
  LET a == Parsed(line)[Len(line)]
  IN  IF \/ a.status = "error"
         \/ a.status = "command" /\ a.command = <<>>
         \/ a.id = None
         \/ ~a.context
      THEN Help
      ELSE IF a.new
           THEN [kind |-> "server", id |-> a.id, count |-> a.data]
           ELSE [kind |-> "client", id |-> a.id, command |-> a.command]

(***************************************************************************)
(* The reference: what the same line means, read as a whole.  Options end  *)
(* at the first -c; the command is all that follows it.  A thread count is *)
(* written after the colon, as every other value, or, as the syntax that   *)
(* ptnio prints has it ("-n [-t thread_count]", README:9, ptnio.c:59), in  *)
(* the word after -t.                                                      *)
(***************************************************************************)
At(line, opt) == {i \in DOMAIN line : line[i].opt = opt}

Cut(line) == IF At(line, "c") = {} THEN Len(line) + 1 ELSE Min(At(line, "c"))

\* -t at place i has its count in the next word.
SeparateAt(opts, i) ==
  opts[i].val = None /\ i < Len(opts) /\ opts[i + 1].opt = "number"

CountAt(opts, i) == IF SeparateAt(opts, i) THEN opts[i + 1].val ELSE opts[i].val

SeparateCount(line) ==
  LET opts == SubSeq(line, 1, Cut(line) - 1)
  IN  \E i \in At(opts, "t") : SeparateAt(opts, i)

Meaning(line) ==
  LET opts == SubSeq(line, 1, Cut(line) - 1)
      command == SubSeq(line, Cut(line) + 1, Len(line))
      ids == At(opts, "i")
      news == At(opts, "n")
      counts == {i \in At(opts, "t") : \A j \in news : j < i}
      wrong == \/ \E i \in ids : opts[i].val = None
               \/ \E i \in At(opts, "t") : CountAt(opts, i) = None
               \/ \E i \in At(opts, "t") : \A j \in news : i < j
               \/ ids = {}
               \/ Cut(line) <= Len(line) /\ command = <<>>
               \/ news = {} /\ Cut(line) > Len(line)
  IN  IF wrong THEN Help
      ELSE IF news = {}
           THEN [kind |-> "client", id |-> opts[Max(ids)].val,
                 command |-> command]
           ELSE [kind |-> "server", id |-> opts[Max(ids)].val,
                 count |-> IF command # <<>> THEN Len(command)
                           ELSE IF counts = {} THEN ThreadCount
                           ELSE CountAt(opts, Max(counts))]

-----------------------------------------------------------------------------
VARIABLES
  args,     \* args[l]: what launch l parsed from its command line
  pc,       \* pc[l]: where the process the user started is
  child,    \* child[l]: where the forked server process is
  threads,  \* threads[l]: threads the server created
  pipe,     \* pipe[l]: bytes in the pipe between child and parent
  path,     \* path[id]: the launch whose socket is bound to the path of id
  peer      \* peer[l]: the server a client launch is connected to

vars == <<args, pc, child, threads, pipe, path, peer>>

PcStates == {"start", "help", "waiting", "returned",
             "client", "connected", "served", "refused"}
ChildStates == {"none", "unlink", "bind", "listen", "create", "serving",
                "failed", "stopped"}

IsServer(l) == args[l].kind = "server"
IdOf(l) == args[l].id

\* thread_count - 1, an unsigned subtraction.
Wanted(l) == (args[l].count + MaxUInt) % (MaxUInt + 1)

\* The socket accepts connections (listen returned, the process runs).
Listens(l) == child[l] \in {"create", "serving"}

\* Some thread of the server is in its accept loop.
Accepts(l) == child[l] = "serving" \/ (child[l] = "create" /\ threads[l] > 0)

Init ==
  /\ args = [l \in Launches |-> Help]
  /\ pc = [l \in Launches |-> "start"]
  /\ child = [l \in Launches |-> "none"]
  /\ threads = [l \in Launches |-> 0]
  /\ pipe = [l \in Launches |-> 0]
  /\ path = [i \in Id |-> None]
  /\ peer = [l \in Launches |-> None]

(***************************************************************************)
(* main                                                                    *)
(***************************************************************************)
Main(l, line, to) ==
  /\ pc[l] = "start"
  /\ line \in CommandLines[l]
  /\ args' = [args EXCEPT ![l] = Parse(line)]
  /\ pc' = [pc EXCEPT ![l] = to]

\* A line that does not parse, or the copy of the command fails (calloc).
ShowHelp(l) ==
  \E line \in CommandLines[l] :
    /\ Main(l, line, "help")
    /\ Parse(line) = Help \/ At(line, "c") # {}
    /\ UNCHANGED <<child, threads, pipe, path, peer>>

StartClient(l) ==
  \E line \in CommandLines[l] :
    /\ Main(l, line, "client")
    /\ Parse(line).kind = "client"
    /\ UNCHANGED <<child, threads, pipe, path, peer>>

\* fork(): the parent waits; the child becomes the server, or there is none
\* (fork() returned -1, which is != 0 too).
Fork(l) ==
  \E line \in CommandLines[l] :
    /\ Main(l, line, "waiting")
    /\ Parse(line).kind = "server"
    /\ \E c \in {"unlink", "failed"} : child' = [child EXCEPT ![l] = c]
    /\ UNCHANGED <<threads, pipe, path, peer>>

\* read() in the parent.  It has the write end open itself, so it never
\* sees an end of file: only a byte lets it go on, to exit(0).
ParentReads(l) ==
  /\ pc[l] = "waiting"
  /\ pipe[l] > 0
  /\ pipe' = [pipe EXCEPT ![l] = @ - 1]
  /\ pc' = [pc EXCEPT ![l] = "returned"]
  /\ UNCHANGED <<args, child, threads, path, peer>>

-----------------------------------------------------------------------------
(***************************************************************************)
(* The child: server().                                                    *)
(***************************************************************************)
Child(l, from, to) ==
  /\ child[l] = from
  /\ child' = [child EXCEPT ![l] = to]

\* unlink() the path, whoever bound it.
Unlink(l) ==
  /\ Child(l, "unlink", "bind")
  /\ path' = [path EXCEPT ![IdOf(l)] = None]
  /\ UNCHANGED <<args, pc, threads, pipe, peer>>

\* Mutant: the notice goes out with the bind, before listen().
BindAndSend(l) ==
  /\ Child(l, "bind", "listen")
  /\ path[IdOf(l)] = None
  /\ path' = [path EXCEPT ![IdOf(l)] = l]
  /\ pipe' = [pipe EXCEPT ![l] = @ + 1]
  /\ UNCHANGED <<args, pc, threads, peer>>

Bind(l) ==
  /\ Child(l, "bind", "listen")
  /\ path[IdOf(l)] = None
  /\ path' = [path EXCEPT ![IdOf(l)] = l]
  /\ UNCHANGED <<args, pc, threads, pipe, peer>>

\* bind() fails: another launch bound the path since unlink(), no socket,
\* no permission...  server() returns true and the child exits with 1.
BindFails(l) ==
  /\ Child(l, "bind", "failed")
  /\ UNCHANGED <<args, pc, threads, pipe, path, peer>>

Listen(l) ==
  /\ Child(l, "listen", "create")
  /\ UNCHANGED <<args, pc, threads, pipe, path, peer>>

\* Mutant: every thread tells the parent.
CreateThreadAndSend(l) ==
  /\ child[l] = "create"
  /\ threads[l] < Wanted(l)
  /\ threads[l] < MaxThreads
  /\ threads' = [threads EXCEPT ![l] = @ + 1]
  /\ pipe' = [pipe EXCEPT ![l] = @ + 1]
  /\ UNCHANGED <<args, pc, child, path, peer>>

CreateThread(l) ==
  /\ child[l] = "create"
  /\ threads[l] < Wanted(l)
  /\ threads[l] < MaxThreads
  /\ threads' = [threads EXCEPT ![l] = @ + 1]
  /\ UNCHANGED <<args, pc, child, pipe, path, peer>>

\* sthread_new() fails, tiny_assert ends the process.
ThreadFails(l) ==
  /\ Child(l, "create", "failed")
  /\ threads[l] < Wanted(l)
  /\ UNCHANGED <<args, pc, threads, pipe, path, peer>>

\* Mutant: the parent is told before the threads exist.
PipeSendEarly(l) ==
  /\ Child(l, "create", "serving")
  /\ pipe' = [pipe EXCEPT ![l] = @ + 1]
  /\ UNCHANGED <<args, pc, threads, path, peer>>

\* Mutant: the server never tells its parent.
PipeSendDropped(l) ==
  /\ Child(l, "create", "serving")
  /\ threads[l] = Wanted(l)
  /\ UNCHANGED <<args, pc, threads, pipe, path, peer>>

\* pipe_send(), then the main thread enters its accept loop.
PipeSend(l) ==
  /\ Child(l, "create", "serving")
  /\ threads[l] = Wanted(l)
  /\ pipe' = [pipe EXCEPT ![l] = @ + 1]
  /\ UNCHANGED <<args, pc, threads, path, peer>>

-----------------------------------------------------------------------------
(***************************************************************************)
(* Clients.                                                                *)
(***************************************************************************)
Reachable(id) == path[id] # None /\ Listens(path[id])

Connect(l) ==
  /\ pc[l] = "client"
  /\ Reachable(IdOf(l))
  /\ peer' = [peer EXCEPT ![l] = path[IdOf(l)]]
  /\ pc' = [pc EXCEPT ![l] = "connected"]
  /\ UNCHANGED <<args, child, threads, pipe, path>>

\* connect() fails: client() returns true, the process exits with 1.
Refused(l) ==
  /\ pc[l] = "client"
  /\ ~Reachable(IdOf(l))
  /\ pc' = [pc EXCEPT ![l] = "refused"]
  /\ UNCHANGED <<args, child, threads, pipe, path, peer>>

IsExit(l) == args[l].command[1].val = "exit"

\* A server thread runs the command, or the server is gone and its end of
\* the connection is closed.
Serve(l) ==
  /\ pc[l] = "connected"
  /\ \/ Accepts(peer[l]) /\ ~IsExit(l)
     \/ child[peer[l]] \in {"failed", "stopped"}
  /\ pc' = [pc EXCEPT ![l] = "served"]
  /\ UNCHANGED <<args, child, threads, pipe, path, peer>>

\* The command "exit" ends the server process whatever its main thread is
\* doing; the path stays in the file system.
ServeExit(l) ==
  /\ pc[l] = "connected"
  /\ Accepts(peer[l])
  /\ IsExit(l)
  /\ child' = [child EXCEPT ![peer[l]] = "stopped"]
  /\ pc' = [pc EXCEPT ![l] = "served"]
  /\ UNCHANGED <<args, threads, pipe, path, peer>>

-----------------------------------------------------------------------------
\* Every step a process takes when the system calls it makes succeed.
Progress(l) ==
  \/ Fork(l) \/ StartClient(l) \/ ParentReads(l)
  \/ Unlink(l) \/ Bind(l) \/ Listen(l) \/ CreateThread(l) \/ PipeSend(l)
  \/ Connect(l) \/ Refused(l) \/ Serve(l) \/ ServeExit(l)

Next ==
  \E l \in Launches :
    Progress(l) \/ ShowHelp(l) \/ BindFails(l) \/ ThreadFails(l)

Spec == Init /\ [][Next]_vars

(***************************************************************************)
(* Every process, once started, keeps running: the system schedules parent *)
(* and child, and a step whose only outcome is a failure is taken as well. *)
(* Nobody is forced to start the program.                                  *)
(***************************************************************************)
ChildRuns(l) ==
  \/ Unlink(l) \/ Bind(l) \/ BindFails(l) \/ Listen(l)
  \/ CreateThread(l) \/ ThreadFails(l) \/ PipeSend(l)
ParentRuns(l) ==
  ParentReads(l) \/ Connect(l) \/ Refused(l)

FairSpec ==
  /\ Spec
  /\ \A l \in Launches : WF_vars(ChildRuns(l)) /\ WF_vars(ParentRuns(l))
                         /\ WF_vars(Serve(l) \/ ServeExit(l))

-----------------------------------------------------------------------------
(***************************************************************************)
(* Properties                                                              *)
(***************************************************************************)
\* Every variable has its type; at most one notice is ever in a pipe.
TypeOK ==
  /\ args \in [Launches -> Arguments]
  /\ pc \in [Launches -> PcStates]
  /\ child \in [Launches -> ChildStates]
  /\ threads \in [Launches -> 0..MaxThreads]
  /\ pipe \in [Launches -> 0..1]
  /\ path \in [Id -> Launches \cup {None}]
  /\ peer \in [Launches -> Launches \cup {None}]

\* parse_args, which reads one word at a time and keeps thread_count and the
\* command's length in one cell, gives every line the meaning it has as a
\* whole: last ID, last thread count after the last -n, all words after the
\* first -c (args_parser.c:26-116).  The one exception is a count in a word of
\* its own: the documented "-n -t 3" starts no server, it is an error
\* (args_parser.c:64-69).  Checked once, before any launch.
ParseAgrees ==
  (\A l \in Launches : pc[l] = "start") =>
  \A n \in 0..MaxWords : \A line \in [1..n -> Words] :
    Parse(line) = IF SeparateCount(line) THEN Help ELSE Meaning(line)

Claims(k, id) == /\ IsServer(k) /\ IdOf(k) = id
                 /\ child[k] \notin {"none", "unlink"}

\* "ptnio -n" returns to the shell only when its server is ready: listening,
\* with every thread asked for, and under its ID unless another launch has
\* claimed that ID (server.c:57-68, pipe_fork.c:39-50).
ReadyWhenReturned ==
  \A l \in Launches :
    pc[l] = "returned" =>
      /\ child[l] \in {"serving", "stopped"}
      /\ child[l] = "serving" => threads[l] = Wanted(l)
      /\ \/ path[IdOf(l)] = l
         \/ \E k \in Launches \ {l} : Claims(k, IdOf(l))

\* A client started once "ptnio -n" returned is never refused while nobody
\* stopped that server and no other launch has claimed its ID.
NoRefusalWhenReady ==
  [][\A l \in Launches :
       pc[l] = "client" /\ pc'[l] = "refused" =>
         ~ \E k \in Launches :
             /\ pc[k] = "returned" /\ child[k] # "stopped"
             /\ IdOf(k) = IdOf(l)
             /\ \A j \in Launches \ {k} : ~Claims(j, IdOf(l))]_vars

\* A server that enters its accept loop lets the waiting parent go, even
\* when a client stops it at once.
ReadyIsReported ==
  \A l \in Launches : child[l] = "serving" ~> pc[l] = "returned"

\* The command that starts a server comes back, with a server or without:
\* "ptnio -id:bin_test -n || goto :error" (tests/network/binary_test.bat:10).
\* Only launches whose child exists are held to it.
LaunchReturns ==
  \A l \in Launches : child[l] = "unlink" ~> pc[l] = "returned"
=============================================================================
