# A formal model of the Yod runtime

Yod is a programming language with Hebrew keywords, implemented in Go under
`src/yod`.  A program can be interpreted (`internal/evaluator`) or compiled to
bytecode and run on a stack machine (`internal/vm`).  Around both stands a runtime
that runs several goroutines: the main program, background tasks (`משימה`), timers,
handlers of the native window, of sockets and of an HTTP server.  All of them share
one interpreter state.  What keeps them apart is one global run lock.

This directory holds TLA+ modules of that runtime, the TLC configurations that check
them on small instances, and proofs, checked by TLAPS, that hold for all instances.

## 1. Inventory

| Component | State | Operations | What is hard |
|---|---|---|---|
| run lock, `object/yodlock.go` | owner, depth, condition variable | `LockYod`, `UnlockYod`, `WithoutYodLock` (`fullyRelease`, `reacquire`) | re-entrance, barging, one `Signal` for two kinds of waiter, nested release |
| background tasks, `object/task.go` | per task a channel, `Done`, `Val` | `SpawnTask`, `AwaitTask`, `ParallelTasks` | a flag tested before a wait and set after it, workers without the lock, a list read without the lock |
| virtual machine, `vm/vm.go` | frames, value stack, handlers, cells, `runBase` | `Run`, `CallCallable`, the instructions | nested loops on one stack, errors that unwind through them, several goroutines, slots that are not cleared |
| compiler, `compiler/*.go` | scopes, symbol tables, loops, constants | `Compile` per syntax node | jumps out of `try`, loops and switches; a value for every pop |
| evaluator, `evaluator/*.go` | environments, current class, source files | `Eval` per syntax node | the reference the compiler has to agree with |
| object model, `object/*.go` | lists, maps, objects, cells | the methods of lists, maps, texts, numbers | slices that share a buffer, methods that call Yod code while they walk a list |
| lexer, parser, formatter, checker | none that survives a call | text in, tree or text out | precedence, blocks in three styles, brackets that may be left out, lost line breaks |
| timers, `stdlib/timers.go` | table, flags of each timer, UI hook | start, stop, stop all, pause, resume | stop against a tick on its way, callbacks posted to a window that closes |
| window, `stdlib/windows.go` | native window, UI queue, `closed` | show, message loop, close, cleanup | the loop runs without the lock, handlers take it |
| asynchronous sessions, `stdlib/net_http_async.go`, `email_async.go`, `record_async.go`, `net_ftp_connect_async.go`, `net_*_upload_async.go` | tables of sessions, result, done, cancel, counters | start, status, cancel | cancel against completion, a dial that outlives its guard, who owns a connection, fields read one by one |
| FTP and SFTP, `stdlib/net_ftp.go`, `net_sftp.go` | connection mutex, directory cache | upload, make, remove, rename, disconnect | a cache that outlives what it remembers, QUIT that is no longer waited for |
| HTTP server, `stdlib/net_server.go` | `srv`, `running` | route, start (blocking or not), stop | restart while the old `Serve` is ending, handlers on goroutines of their own |
| WebSocket, `stdlib/net_ws.go` | connections, callbacks, the server's clients | connect, close, callbacks, start, stop | goroutines of sockets, the UI thread, close from both sides |
| packing and files, `cmd/yod/pack.go`, `pack`, `vfs`, `project` | a disk, a bundle behind an executable | pack as one file or as a folder, run, list | what a program includes, paths that mean something else after packing, half-written files, what an old distribution is |
| translations, `stdlib/i18n*.go` | catalogs, language, gender, hooks | load, register, switch, translate | hooks run under the caller's lock; a catalog merged into another; a directory that is found on the disk one way and in a packed program another |
| drawing, GPU, media, widgets, system wrappers | native handles | calls into the system | outside the program |

How they meet: `cmd/yod/main.go` takes the lock, parses, and runs the program: on the
machine, or in the evaluator, or on the machine first and in the evaluator when that
gives up.  A goroutine that wants to run Yod code calls `LockYod` (directly in `task.go`,
through `invokeYod` of `stdlib/invoke.go` for timers, windows and sockets) and then
`CallCallable` of the machine or the evaluator.  A builtin that waits calls
`WithoutYodLock`; this happens in three places: the receive of
`AwaitTask`/`ParallelTasks`, the request of `doHTTP`, and the message loop `mw.Run`.
Handlers of the HTTP server take no lock at all.

Correctness, per component: the lock is exclusive, re-entrant and loses no wake-up; a
task's result reaches who waits for it and nobody else; both engines run a program alike;
the machine gives every call its own result and every error its own handler; what is
written is what is parsed, and formatting changes nothing of it; a timer fires as often
as it should and not after it was stopped; a session tells its outcome, and truly, and
its connection has an owner and carries one command at a time; a server that is stopped
can be started again; a socket's story is told in order; a packed program does what the
program did, and packing takes nothing of the user's.

## 2. Modules

| Module | Models | Extends or instantiates |
|---|---|---|
| `RunLock` | what the lock promises (abstract) | |
| `YodLock` | `object/yodlock.go` | `RunLock` (refinement) |
| `YodLock_proofs` | theorems about `YodLock` | `YodLock`, TLAPS |
| `Tasks` | `object/task.go` | `RunLock` |
| `Tasks_proofs` | theorems about `Tasks` | `Tasks`, TLAPS |
| `VmCalls` | frames, value stack and handlers of `vm/vm.go` under several goroutines; `CallCallable` | `RunLock` |
| `VmCalls_proofs` | theorems about `VmCalls` | `VmCalls`, TLAPS |
| `Timers` | `stdlib/timers.go` and the window loop | `RunLock` |
| `Timers_proofs` | theorems about `Timers` | `Timers`, TLAPS |
| `Sessions` | HTTP, mail, recording and FTP connect sessions of `stdlib/*_async.go` | |
| `Transfers` | `net_ftp.go`, `net_sftp.go` and their uploads | `Sessions` |
| `Transfers_proofs` | theorems about `Sessions` and `Transfers` | `Transfers`, TLAPS |
| `HttpServer` | `stdlib/net_server.go` | |
| `HttpServer_proofs` | theorems about `HttpServer` | `HttpServer`, TLAPS |
| `WebSocket` | `stdlib/net_ws.go` | `RunLock` |
| `Servers` | a program with the one or the other | `HttpServer`, `WebSocket` |
| `WebSocket_proofs` | theorems about `WebSocket` and about sockets in `Servers` | `Servers`, TLAPS |
| `Objects` | `object/*.go`: the heap, values and what they have in common | |
| `Methods` | `object/methods.go`: the methods of strings, numbers, booleans and null | `Objects` |
| `Libraries` | `stdlib/math.go`, `numbers.go`, `result.go`, `json.go`: four built-in libraries | `Methods` |
| `Collections` | `object/collections.go`: the methods of lists and dictionaries, callbacks included | `Methods` |
| `Evaluator` | `evaluator/*.go` | `Libraries`, `Collections` (as an instance) |
| `Compiler` | `compiler/*.go`, `code/code.go` | `Evaluator`, for its helpers |
| `Vm` | `vm/vm.go`: one instruction after the other | `Compiler`, `Collections` (as an instance) |
| `Language` | `cmd/yod/main.go`: running a program with either engine or both | `Vm` |
| `Lexer` | `token`, `lexer` | |
| `Parser` | `parser/parser.go`, `ast` | `Lexer` |
| `Format` | `format/format.go` | `Lexer` |
| `Lint` | `lint/lint.go` | `Parser` |
| `Syntax` | a file that is typed, checked, formatted | `Lint`, `Format` |
| `Vfs` | `vfs/vfs.go` and the file calls that look into it | |
| `Files` | `files.go`, `files_copy_progress.go`: the calls that change the disk, copies in steps | `Vfs` |
| `Catalogs` | `i18n.go`, `i18n_po.go`, `i18n_mo.go`: catalogs of messages and how a text is found | `Vfs` |
| `Packer` | `project`, the helpers of `pack/collect.go` and `project_dist.go`, what is behind an engine; the steps a program takes | `Files`, `Catalogs` |
| `Programs` | the walk of `CollectBundle` over modules (`pack/collect.go`); a run of a program from the disk or from a bundle (`main.go`) | `Packer` |
| `Packing` | `cmd/yod/pack.go`, `pack/embed.go`, `pack.go`, `icon.go`: the command step by step | `Packer` |
| `Packing_proofs` | theorems about `Packing` | `Packing`, TLAPS |
| `MC*` | instances for TLC | |

`Tasks`, `VmCalls`, `Timers` and `WebSocket` use `RunLock`, which `YodLock` is shown to
implement: `Grant` is the moment a goroutine gets the lock, `Yield` the moment it lets go.
They leave `pending` empty, because who is waiting does not matter to them.

`Language`, `Syntax` and `Packing` take what their components compute (compiling,
executing one instruction, evaluating; parsing, formatting, checking; collecting and
running) as constant operators, which the .cfg gives the operators of `Vm`, `Evaluator`,
`Parser`, `Format`, `Lint` and `Programs` as values.  These are recursive functions of the code,
translated as such; the state machines around them are what may happen in which order.

### YodLock

`owner` and `depth` are the fields of `reentrantLock`.  `parked` is the notify list of
the condition variable; `Signal` moves its head to `woken`.  Each critical section under
`l.mu` is one step, except that a goroutine that waits gives the mutex up: it parks, is
woken, and tests the loop condition again (`Wakeup`), possibly to find that somebody
barged in.  `open` and `nest` are what the goroutine's own code remembers: the brackets
it has open in each `WithoutYodLock` layer; `saved` is the local `d` of each such call.

### Tasks

`ch`, `done`, `val` are the fields of `Task`.  A task is an executor; so is the main
program.  `ParallelTasks` makes its result list under the lock (`Parallel`), reads the
list without it (`Fork`) and waits for its workers (`Join`); a worker runs `AwaitTask`
without ever holding the lock, so what it stores it stores without the lock.  `Deposit`
crashes the process when the index is out of range.  Because workers read and write the
fields of a task beside the goroutine that has the lock, the test of `Done` (`Await`,
`WorkerCheck`), the reading of `Val` (`Read`, `WorkerRead`), the writing of `Val`
(`Store`) and the writing of `Done` (`Mark`, `WorkerMark`) are four steps.  Values are
named by the task that produced them, so that a mix-up shows.  A program may do anything;
two history variables name those to whom something happens: `crowded`, the tasks two
goroutines waited for at once, and `resized`, whose list changed while `ParallelTasks` was
between its two readings of it.

### VmCalls

Of the machine's instructions those are modelled that move frames, values or handlers;
the others move one value and fail or not, which `OpPop`, `OpCallBuiltin` and `OpThrow`
stand for.  The program is arbitrary: a goroutine in the loop chooses its next
instruction among those the compiler could have emitted in the top frame.  Frames and
values carry marks the machine does not have (whose call, whose goroutine, how deep the
compiler reckons the stack), in which the properties are stated.  `Allowed` says what
else the program does: let go of the lock in a callback, return from a try block, throw
from a callback to a try block of its caller, throw out of a callback with no try open.
A `CallCallable` that gives up before it has entered its function (`EnterFails`,
`CallbackFails`) leaves what it pushed on the value stack (`Left`), under whatever the
frame that was on top pushes next.

### Timers

One goroutine per timer (`pc`), the flags `paused`, `stopped`, `canceled`, the table,
and the closing of `stopCh`.  `ReadSync`, `Send`, `Check`, `Enter`, `Leave` are the steps
of `fireTimer`; other goroutines run between any two.  `Send` posts to the queue of the
UI thread if a window is open and calls directly otherwise.  Intervals are left out: a
timer that waits may tick at any moment, so every schedule of real intervals is among
the modelled ones.  `asked`, `starts` and `late` are history.

### Sessions

A session is in a table from its start until a status call has read it as done (or a
cancel has removed it).  Requests, mails and recordings are alike (`Plain`): `LookUp`
takes the table's mutex, `ReadPlain` the session's, `DropPlain` the table's again, and
the session's goroutine (`Finish`) may run between any two.  Each kind has a status call
of its own in the code; they differ in what they check and show (`RequestStatus`,
`MailStatus`, `BurnStatus`) and share `PlainStatus`.  What a plain session
produced is written in the critical section that sets `done`, so `done` stands for it.
A connect has two goroutines: `Dial` opens the link, `TakeDial` and `GiveUp` are the two
branches of the `select`, `Settle` is the critical section at its end.  Its status
(`ReadConnect`) holds the session's mutex while it removes the session.  `answered`,
`delivered`, `gaveUp`, `late` are history.  The pollers interleave, because handlers of
the HTTP server run Yod code without the run lock.

### HttpServer

Every start makes an http.Server, an instance with a `phase`; `open` are the instances
whose listener is open.  `Start` is the critical section that tests `running`, `Listen`
and `ListenFails` the two outcomes of `net.Listen`, `MarkStopped` the critical section
after `Serve` has returned.  `Stop` reads `srv`, `Shutdown` is the call, `StopReturns`
its end.  The behaviour of `Serve` and `Shutdown` is net/http's and taken from how this
code relies on it: a server that was shut down before it served returns at once and
closes its listener; `Shutdown` closes the listeners of one that serves, and returns at
its deadline or when no request is left.

### Transfers

`known` is the set of directories a connection remembers, `there` what the server has,
`mutex` the lock of an FTP connection, and `up` the atomic fields of an upload with its
place in the goroutine (making directories, opening, sending, deleting what came half).
`look` is a status call with what it has read so far: it reads the fields one after the
other.  An upload whose first try fails for a missing directory counts anew and tries
again.  A disconnect waits for the mutex, sends QUIT and waits for it two seconds
(`quit`).  `CallFtp` and `CallSftp` are the calls that make, delete, remove and
rename, one operator for each builtin.  An FTP call holds the mutex and is one step.  SFTP
has no mutex: a call or an upload that has asked the server (`MkdirAll`, `RemoveAll`)
keeps in `errand` what it does next, remembering the directory, storing, forgetting or
closing, and anything may come between.  The server is external: it may refuse or break
off anything, and changes only by what this program asks of it.  `told`, `landed`, `gone`
are history.  Bounds, each an operator or a constant of its name: uploads and connects of
the same behaviour use
different kinds of session (`Apart`, `ConnectsQuiet`), one poller uses connections
(`Clerks`), one call besides uploads changes the server (`MaxCalls`), uploads have
different targets, and a rename goes outside the directories of the model.

### Language: Objects, Methods, Libraries, Collections, Evaluator, Compiler, Vm

A value is a record with its type; lists, maps, objects, classes, functions and cells are
places in a heap of the state, so that two names may mean one list.  A list has a buffer
and a length, and an append writes into the buffer as long as there is room, as Go's
slices do.  A number is an integer or one of a few others that division makes; a text is
a sequence of characters.  The evaluator is a function from a node and a state to a value
and a state; the compiler yields instructions with whole operands; `Step` executes one
instruction on frames, the value stack, handlers and iterators.  `Language` runs a
program: `CompileProgram`, `Execute` (one instruction a step) and `EvaluateProgram`, as
`runSmart`, `runFile` and `runVM` do.  Go's maps have no order; a program is run with two
of them.  One object stands for every null.  A built-in library is a table of functions,
which the engines look up and call in the same way for each, so four libraries without
effects outside the heap stand for all.  JSON is taken as the tree `encoding/json` makes of
a text (`Documents`), and what is written is such a tree again.

### Syntax: Lexer, Parser, Format, Lint

A source is a sequence of items, each a word, digits, a mark, a blank or a line break;
tokens carry the line they begin on.  Nodes have the shape the evaluator uses, except
that literals keep their token and text and functions their name, so that a formatter
that changes a literal is noticed.  The parser is the code's: it looks two tokens ahead,
binds by the table of precedences, and counts its errors.  `Format` has the scanner
(which drops line breaks), the passes that turn mirrored braces round and put brackets
around bare conditions, and the printer with its rules for lines, blanks and indents.
`Syntax` types a file item by item or takes one written in one of five styles (braces,
words, colons, mirrored braces, semicolons), and formats it up to `MaxRounds` times.
The loops of the lexer, the scanner, the passes and the printer are one operator,
`Through` of `Lexer`, which takes the places of a source in order: it halves the range, so
that TLC's recursion is as deep as the logarithm of a text and not as the text is long.

### WebSocket and Servers

`reader` is where the goroutine of a socket is: taking the connection, receiving, telling
Yod code (`ReadSync` and `Look` are the two readings of whether there is a window, then
`Post` or `Enter`), ending (`End` marks it closed, `Tidy` closes the connection and takes
it off the server's list).  `call` is a close or stop in progress, which other goroutines
meet between its steps, although no other Yod code runs meanwhile.  `told`, `byProgram`,
`hurried`, `dismissed` are history.  `Servers` puts both kinds of server beside each
other; they share nothing but the program, so a behaviour has one of them.

### Vfs, Files, Catalogs, Packer, Programs, Packing

A path is a sequence of names, a disk a function from paths to files, a source the
sequence of what it does with files (include, read, ask whether there is one or what a
directory holds, write, remove, copy, move) and with translations (load, switch, ask).
Reading looks into what is packed first, and every other call of `Files` sees the disk
only; a call that fails may have done a part, so it gives the disk it leaves.  `Catalogs`
is a state (language, gender, catalogs, hooks) and the functions that change it, with
texts as sequences of words and places for variables.  `Packer` has what needs no recursion (which files belong to a
project, how a path is looked for, one step of a program), `Programs` what does:
`CollectModules` follows includes as the packer does, `RunText` runs a program as the
evaluator does and notes what it saw.  `Packing`, which takes these two as constants, is the
command:
`packApp` decides on the target and clears an old distribution, then each file is written
by a step that may fail (`WriteEngine`, `ApplyIcon`, `WriteBundle`, `WriteBeside`,
`TidyDist`, or `App` and `CopySources` for a folder).  Between, the user edits sources,
adds packages, runs or carries what was packed.  `verdict` is what the last run of a
packed program saw beside what the program saw where it was written; `mine` follows the
user's files through edits and through what the user's programs do to them, and `Places`
are the directories an order may make a packing write to or clear.  A removal of many
files, and the copy of a package, may fail after a part of them (`Parts` bounds which
parts); `kept` remembers what such a removal left, `halves` the engines a packing left
without their program.  `App` and `CopySources` fail as a whole, and no file is cut off in
the middle of a copy but the engine.

## 3. Runs

| Run | Instance | Shows |
|---|---|---|
| `lock` | 3 goroutines, 2 brackets per layer, 2 nested layers | `OneRunner`, `DepthCountsBrackets`, `NoLostWakeup`; `NotIdleForever`; `ImplementsRunLock` |
| `tasks` | main, 2 tasks, list of at most 2, one call of `ParallelTasks` at a time | results reach the one who waits, in order, with the lock let go of and the fields of a task written and read without it; `AwaitAnswered` |
| `vm_nested` | 3 goroutines, 4 frames, 3 calls, 2 values left by calls that were not entered | own code and live handlers (`LoopsApart`), own results, the message in the catch variable |
| `timers` | a one-shot, a repeating timer, a window, queue of 2 | `CallsCounted`, `LiveTimersStoppable`, `StoppedGoroutineEnds` |
| `sessions` | one session of each kind, one SFTP connection, 2 uploads, 2 pollers | `NothingLostUnread`, `OpenLinkOwned`, `ToldAsItEnded`, `AloneOnTheWire`, `CacheTrue`, `ConnectSettles` |
| `language` | programs of each statement in each place, each method | `SameOnBothEngines`, `StacksSound`, `ListsApart` |
| `language_cells` | two functions and a closure | violation of `SameOnBothEngines` |
| `syntax` | programs in five styles, files of up to four typed items | `ParsesBack`, `NoHoles`, `FormatKeepsTree`, `FormatSettles`, `FormattedPassesCheck` |
| `syntax_format` | range loops | violation of `FormatKeepsTree` |
| `servers` | main program, 2 handlers, 3 starts; or 2 sockets of a server; or one of the program | `PortFree`, `ServedIsStoppable`, `StopTakesEffect`, `StopAnswered`; `StoryInOrder`, `ClientsTrue` |
| `pack` | 66 disks, 4 orders, 3 commands of which 2 pack | `SourcesKept`, `RunsAlike`, `WholeExe`, `CleanDist` |
| `pack_target` | a target beside the sources | violation of `SourcesKept` |

Bounds.  Three goroutines are the least for which one can barge in between a signal and
the wake-up of another while a third waits; two nested layers are the least in which an
inner release meets an outer saved depth.  Two tasks and a list of two give a worker for
each, an element that is no task, every order of the two results, and with the third
executor somebody else who waits for the same task or changes the list meanwhile.  Four frames give
a callback that calls a function and throws past it into a handler of its own, with
another goroutine in between.  Two timers of different kinds and a queue of two let a
one-shot and a repeating timer post, be stopped, and meet a window that closes.

Sessions of different ids share nothing but the table, so one of each kind is enough; two
pollers let one act between two steps of the other; two uploads let one wait for the
connection of the other or make a directory the other relies on.  Files of one piece
(`Size`) have a beginning and an end.  Three starts let a stop that read the first
instance meet the second and a failed third; two handlers let one stop the server while
the other is being served or starts it again.  A socket sends one message, so its story
has up to four parts (connected, message, message to the server, closed), each told
through the queue or directly; two sockets at once (`Few`) only where no window opens and
nothing is told of messages, to meet a stop.

The programs of `language` are each pair of statements of a stock in each of eight places
(the file, a function, a branch, two loops, a try, a switch, a method), one statement in
any place in another, the same inside a function, and a program for every larger feature
(closures, classes, inheritance, modules, includes, callbacks), every library method with
arguments that fit and some that do not, and the methods that call back with a callback
that changes the list they walk.  `StackSize` 40 and `MaxFrames` 8 are more
than these need and few enough for one that overflows.  Left out of them are the shapes
for which the engines are known to differ (section 4).  The files of `syntax` are every
statement in every style, pairs of statements, pairs of operators, nested blocks, and all
files of up to four of twelve items, most of which do not parse, and files with a minus
that has no blank beside it, in the code, in a text and in a comment; two rounds show
whether formatting settles.  In `pack` most programs do one thing or two, so what goes wrong is not
hidden behind something else; six do a row of calls on the disk, and six load catalogs of
both formats and ask for texts in three languages.  One project has a hidden source that its
program includes.  Two packings let one meet what another left, and a removal that fails
takes none of its files, all of them, or one: one is enough for something to stay beside
something that went.

Deadlock is not checked where a system may rest: a program may end, and every goroutine
may wait for a task that has not been given anything to do.

Fairness.  `YodLock`: a goroutine that `Signal` made runnable is run (weak fairness of
`Wakeup`), which is what the Go scheduler guarantees; nothing is assumed of goroutines
that hold the lock, nor of the ones that could ask for it.  `Tasks`: a receive or a send
that can go on does.  `Timers`: the goroutine that a closed channel has made runnable is
run, and its deferred function too.  `Sessions`: the guard timer of a connect fires and
its goroutine is run; nothing is assumed of the dial or of the pollers.  `HttpServer`: a
goroutine inside net/http that can go on does, `net.Listen` returns, and the deadline of
a shutdown comes.  No run assumes that Yod code ends.

## 4. What goes wrong, and what the passing runs leave out

Three runs violate a property; each contradicts a line of the guide or a comment of the
code, quoted in `PROJECT.json`.

* `language_cells`: a new frame does not clear its slots, and a store writes through a
  cell an earlier function left there (`vm.go:245`, `:731`): a variable of one function
  becomes a variable a closure of another one captured.
* `syntax_format`: the formatter puts brackets around the range of a range loop
  (`format.go:113`), and the file no longer parses.
* `pack_target`: with a target beside the sources, tidying the distribution deletes the
  sources (`project_dist.go:113`).

The passing runs leave out the following, each by a constant, an operator or an instance
named for it.

* `tasks`: the run meets both things that go wrong, and the properties name those to
  whom they happen.  `crowded`: of two goroutines that wait for one task the second waits
  for ever, because `AwaitTask` sets `Done` only after it has taken the only value
  (`task.go:34`).  `resized`: a list that grows between the two readings of it makes a
  worker write beyond the results and crashes the process (`task.go:50`).  Stores are
  seen in the order they are made, as on amd64, for which releases are built
  (`tools/pack_windows_release.ps1:16`); Go itself promises this to nobody.  The list is
  read in one piece.
* `vm_nested`: values that a call which could not be entered left on the stack
  (`vm.go:586`) end up under those of an expression that was begun before it; an operator
  or a call of that expression takes them for its operands.  Which value an instruction
  takes is not modelled, so this breaks no property.  `Allowed`: a callback that waits lets another goroutine execute its frame;
  a return inside a try leaves the handler registered (`vm.go:348`); an error of a
  callback caught by a try of its caller gives the catch variable another value
  (`vm.go:616`).
* `timers`: a one-shot whose time comes while it is paused is gone (`timers.go:133`);
  `CallsCounted` says at most once, not at least.
* `sessions`: a connect given up by its guard or cancelled when done leaves its connection
  open (`gaveUp`, `late`); removing one directory, renaming, a removal that ends in an
  error and another connection leave the directory cache stale (`gone`, `net_ftp.go:407`,
  `:499`), and so does, on SFTP, a removal that takes a directory away between the
  `MkdirAll` of an upload and its mark and forgets before the mark (`net_sftp.go:239-242`,
  `:360-366`): `Unnoticed` counts that directory too, and without that `CacheTrue`
  would fail in the run; a QUIT that takes longer than two seconds overlaps what follows (`quit`).  The
  count a status call reports may be older than the "done" it reports.
* `servers`: a window that closes while something is posted (`hurried`); a client that
  registers while the server is stopping stays connected; messages that come before
  their callback is set are dropped (`net_ws.go:163`).
* `pack`, `Known`: what is not packed (data, tests, files outside the project), or has the
  name of what a distribution adds; in an executable packages, includes inside functions,
  what the program writes over or moves away from a packed file, which hides it, and a
  directory of catalogs with a language the code does not name or two files of one
  language (`stdlib/i18n.go:358`: without the directory on the disk a `.po` comes after an
  `.mo`, not instead of it); paths to the design directory from a sub-directory or beside
  a design directory of the project's own; a folder made of an entry in a sub-directory.
  A program that sees something else when it is run again has no `Promise`, and nothing
  is `Expected` of a folder an earlier removal left a part in, nor of an executable that
  finds a part of a directory beside itself.
* `pack`, `halves`: three ways a packing does leave an engine without its program, which
  opens the editor.  The write of the engine itself fails and returns its error without
  `os.Remove` (`embed.go:79-81`), so a piece of it may stay; an error after that removes
  the file but ignores a failing `os.Remove` (`embed.go:85` and on); the process ends in
  between, as it does when a collection panics on a switch without a default
  (`collect.go:295`).  `WholeExe` says that these are all, and that a packing that ends
  well there cures it.
* `pack`, `HiddenNames` and `kept`: `removePackagedSources` keeps every file whose name
  begins with a dot (`project_dist.go:135-137`) and passes over one it cannot remove
  (`:138`), and the command ends well.  A folder packed into a target and then an
  executable packed there leave such sources beside it; `CleanDist` names both kinds and
  excludes the rest.  Without either exemption it fails in the run.
* `pack`, as found while translating `Catalogs`: a plural without a translation whose
  singular has a place for the number gives the singular, because the code compares the
  text with the number in it to the one without (`stdlib/i18n.go:504`); a Hebrew catalog
  loaded while a language without a catalog is current changes what that language shows
  and tells no hook (`stdlib/i18n.go:340`).
* `language`: a branch or case that ends in an assignment, a loop or nothing (the pop
  behind it takes a variable, `compiler.go:166`); a try at the end of a branch (a jump
  lands inside another instruction, `compiler.go:1075`); return, break or continue inside
  try; a top-level return (the machine panics); a variable declared in a branch that is
  not taken; declaring a variable twice; a function that ends in an assignment or a loop
  (its value differs); a recursive global function used before its declaration ends (it
  falls to the evaluator); three levels of inheritance with `parent`; a missing key read
  with a dot; a list changed while a for-in walks it; an error whose text contains the
  words for "not supported" (the program is run twice, `main.go:325`); a comparator of one
  parameter; and what a catch variable holds.  The evaluator puts `שורה N: ` before the
  message (`evaluator.go:1033`, `:1369`) and leaves it there in the variable (`:1356`), the
  machine does not (`vm.go:455`), so a program that shows its catch variable prints other
  lines on the two engines; the guide shows the machine's
  (`src/מדריך שפת יוד/עמודים/נסה-תפוס.html:57`: `נתפס: משהו השתבש`).  No program of the run
  shows one, and what they print is compared to the letter.  The error a program ends with
  is compared without such prefixes and without the engines' own wordings (`Message`).
* `syntax`: files only parsed and not formatted are those with range loops, a bare
  condition that begins with `new` or with a bracket, bare parameters with types, mirrored
  blocks within each other, templates, and a colon call without arguments, each of which
which formatting changes or may change.  `FormatSettles` does not count empty lines.
  The checker asks its question about a minus of the raw lines of a file
  (`lint.go:92`), so a text or a comment that holds `a-1` is flagged whatever the formatter
  does; `FormattedPassesCheck` says that nothing else of a formatted file is.

## 5. Proofs

Eight modules hold proofs, each beside the module it is about.  They are proved from the
`ASSUME` of that module (which names are not each other's, which bounds are natural
numbers; `TransfersAssumption` adds that target directories are made of `Names` and that no two
uploads have the same one) and, where
it is said below, from what a program does.  None is inductive as the runs check it; each
rests on an invariant (`IInv`, `NetInv`, `WsInv`, `VmInv`, `PackingInv`) that TLC was first given on the
instance of the run (and on larger ones), that is proved to hold initially and to be kept
by every action, and that implies the property.

`YodLock_proofs`: for every set of goroutines and every bound, types are right, the
invariants of the `lock` run hold, and every step is a step of `RunLock` or a stutter
(`Refinement`).
The invariant adds three facts, none of which the others imply: layers above the current
one are empty (`LayersOK`), the notify list has no duplicates and holds exactly the blocked
goroutines that have not been signalled (`QueueOK`), and while the lock is free with
somebody parked somebody has been signalled (`SignalPending`).  Without `QueueOK` a signal
could go to a goroutine that is not waiting; without `SignalPending`, `NoLostWakeup` would
not survive a release.

`HttpServer_proofs`: for any number of handlers and of starts, a restart finds its port
free (`PortIsFree`) and whatever listens is what a stop would shut down (`Stoppable`).  A
failed `Listen` clears `srv`, which is harmless only because no other start can be between
its check and its `Listen` (`OneListen`), and that holds because every instance from its
start to its end keeps `running` true (`ActiveIsSrv`).  `StopIsFinal` is what a stop that
has returned means, an action property: no request of an instance is begun after its
`Shutdown`, and when the instance is over it stays so with its listener closed.  It needs
that an instance that was shut down and still listens has not begun to serve
(`ShutQuiet`): a listener that `Shutdown` did not know yet is closed by `Serve` itself.

`Tasks_proofs`: `OwnResult` needs no hypothesis on the program: a channel only ever has
the result of its task (`ChannelOK`), a waiter keeps what it is to wait for (`WaitOK`),
and what is stored in a task is its own (`ValueOK`), whoever stores it and however often.
It covers a worker between its two writes: a value is there before `Done` says so, and
nobody writes another (`ValueOK`).  `InOrder` rests on `CallOK`: a call to `ParallelTasks`
whose list was left alone has one worker for each slot of its result.  `NobodyStranded`
needs `AloneOK`: the result of a task nobody crowded is in the channel, is marked done, or
is with the one goroutine that waits for it.

`VmCalls_proofs`: for any number of goroutines and any depth of calls, and programs that
do none of the four things of `Allowed` (each of which breaks one of the properties,
section 4).  The invariant is what the shared stacks have to look like for nested loops to
work: who runs is in the innermost call and the main program, if it is not the runner, is
blocked in a builtin (`LockOK`); bases go up, each call remembers the one before, and the
frame above a base is that of the call (`RunsOK`); frames above the first base of a
goroutine are its own (`OwnersOK`); a frame begins where the temporaries of the one below
end, or above (`FramesOK`); the value stack has at least those of the top frame, and, when
a loop has come to its base, ends with the result of its call (`StackOK`).  These two are
inequalities because a call that could not be entered leaves values that no frame counts; handlers go up with the frames
and, in a frame, with the depth of its blocks (`HandlersOK`).  The last is why dropping one
handler is right at the end of a try, and why an error lands in the innermost open block:
of what is left, nothing can belong to a block that ended.  `Apart`, `Answered` and
`Caught` are the properties of the run `vm_nested`.  That `NextCall` is a free name needs
that the natural numbers are well-founded.

`Timers_proofs`: for any set of timers and any length of the queue, `Stoppable` and
`Counted`.  For a one-shot the invariant follows its one call through the goroutine, the
queue and the UI thread, in one of which it is until it starts (`OnceOK`).  For a repeating
timer it counts, besides the calls since the stop, those past their last test of the flag:
one at the lock on each of the two threads (`LateOK`), and these are at most two together.

`Transfers_proofs`: for any number of sessions, connections, uploads
and pollers, and any depth of directories: `LinksOwned`, `NothingLost`, `ToldTruly`,
`OneAtATime`, `MemoryTrue`.  The steps of sessions keep an invariant of their own
(`SessionsInv`); with uploads it takes more: that an upload under way, or a poller that waits
for a QUIT, holds the mutex of its connection (`HolderOK`), that a leaving upload's fields
are how it ended (`EndOK`), that a status call between its readings finds the error
where it will stay (`ToldOK`), and that what an SFTP call has still to remember is there
or known to have been taken away since (`OwedTrue`).  The two bounds of the run, `Apart` and `ConnectsQuiet`, are
only for TLC: the invariant is proved for `AnySpec`, which is `NetSpec` without them, and
`AllKindsAtOnce` states the five properties for it.

`WebSocket_proofs`: for any number of sockets and messages, `InOrder` and `ListTrue`, and
`BothServers`, that the composition with the HTTP server is a behaviour of the sockets
alone, so both hold in it.  What is told is a prefix of a story whose rest is in the queue
or with the socket's goroutine; the invariant puts told, posted and due parts in order, per
socket (`StoryOK`), and `ListOK` says who is in the list while a close, a stop or the end
of a reader is half done.

`Packing_proofs`: for any trees of files, names, orders and number of commands,
`PackingTyped`, `SourcesStay`, `ExesWhole` and `DistsClean`.  The invariant `PackingInv` has the types,
`SourcesKept` itself, that the user's files lie apart from the places (`MineApart`), and that
a packing under way is one of an order and writes into a place of it (`Aimed`); a step that
changes the disk only below a place (`OnlyBelow`) then keeps all of it, and most of the work
is to show that each step is such a step, through paths that are cut off at one directory
and joined to another (`Moved`, `MovedBack`).  `EngineInv` adds that an engine without a
program is Yod's own, or the target of the packing under way, or is one a packing is known
to have left (`halves`, which a packing that ends well there takes it out of);
copies of a design directory are why it needs that no place is in one.

`CleanDist` is not inductive: a bundle is written two steps before its directory is taken
for finished, and a folder is filled in two steps.  `DistInv` adds that every packed
executable, finished or not, has the name of one, lies in a place and has a clean bundle
(`ExesSound`), that the packing under way writes into no finished distribution, and that
the directory of a folder was empty, and has no directories yet, when sources come to it.
Its proof has three parts: what each step leaves below its own directory (`Shallow` for an
executable, `NoneOfData` for a folder, `BundleHasNoData` for a bundle); that nothing comes
to any other distribution (`Fewer`, from `OnlyBelow` and the fact that of two directories
above a file one is above the other, `Comparable`); and that no step makes an executable
but those that are meant to (`NoneNew`, stated for executables of any kind and used for
engines and for packed ones).  A removal that fails only takes files away, whatever part it
gets through, so all three parts hold for any `Parts`; `Tidied` says what is loose beside an
executable after one that passed over some.

The hypotheses of these theorems are `PlacesApart` (the user keeps nothing of his own where
distributions are written: without it `SourcesKept` is false, the run `pack_target`); for
`ExesWhole` also `EnginesApart`; and for `DistsClean` also `OldExesSound` (executables from
before were packed where packings put them).  `MCPacking` assumes these, so TLC evaluates
them on the instance of the run.  What programs and the user do is not Yod's, so the
theorems say what they need of it: `ProgramsLeaveFiles`, that a run leaves files at paths
where files can be (it may write, remove and rename whatever it wants, which is the user's
doing); `ProgramsMakeNoEngines`, that a program copies no engine to another name; and for
`DistsClean`, `ProgramsLeaveDists` (a program packs nothing, and puts files into no
distribution that is still taken for finished: its own is not, once it has run),
`ModulesAreSources` (what a program includes has the name of a source: any other file
would be bundled too, even one from a directory of data), and `DistsApart`, that the user
packs neither above nor below a finished distribution and carries no executable into one.
`DistsCleanApart` replaces the last by `PlacesNotNested`, a condition on the orders alone,
which `MCPacking` assumes too; it leaves out targets with names of executables, for such
a target may be packed as a file and then as a folder, which is in the file's directory.

What the proofs say about the programs: the theorems about the machine need all four
exclusions of `Allowed`, those about packing the hypotheses above.  The theorems about
tasks, timers, sessions, transfers, sockets and servers are about every program.

Only model-checked: liveness everywhere (`NotIdleForever`, the fairness part of
`ImplementsRunLock`, `AwaitAnswered`, `StoppedGoroutineEnds`, `ConnectSettles`,
`StopTakesEffect`, `StopAnswered`), because TLAPS has no rule for `WF` and `ENABLED`;
and everything about `Language` and `Syntax`, and `RunsAlike` of `Packing`, which depend on
what recursive functions on syntax trees, texts and includes compute and would need
induction over data.

## 6. Plan

Done: all modules of section 2, and the theorems of section 5: every safety invariant of
the runs `lock`, `tasks`, `vm_nested`, `timers`, `sessions` and `servers` is proved, and of
`pack` all but `RunsAlike`, which depends on how programs run.

Next, of what is within reach: that an answer, once given, does not change
(`AwaitAnswered`); that tasks, timers and sockets use the lock as `RunLock` promises it; and
native widgets, as far as their callbacks go through the queue that `Timers` models.

## 7. Not modelled

Of modelled components: archives and times of files; the language of the system and hooks
that change translations themselves; downloads, listings and speeds of
FTP; sends, broadcasts and a blocking start of a WebSocket server; the answers of HTTP
handlers; creating projects; columns and wording of errors; real numbers, trigonometry,
logarithms, rounding, case of letters, signs with a meaning in regular expressions, and
random numbers; the layout of JSON; whether two null values are one (`isTruthy` of both
engines compares pointers to a type without fields, which Go may make equal or not); empty directories, names of manifests, and
upper and lower case of Windows paths in packing; that HTTP handlers run Yod code beside
the program on the same interpreter state (`net_server.go:137`): what two goroutines do
to one Go map without a lock is not defined.

Of the rest: rendering, charts, tables, media and native widgets, whose state is in
native handles; thin wrappers around the operating system,
which keep no protocol state of their own.  Vendored code, the example programs and the
guide are not part of the runtime.
