# RemoteJVM in TLA+

RemoteJVM is a C program with two roles. `remoteJVM client <host> <port> <N> [<file>]`
connects to a server, sends the number of variables N as a 4-byte big-endian int and a
program of byte codes in chunks of 100 bytes, shuts its side of the connection down, reads N
ints and prints them. `remoteJVM server <port>` accepts one connection, creates the array of
variables, runs the byte codes chunk by chunk as they arrive, prints a trace and the
variables, sends the variables and exits. Neither role has threads: all concurrency is between
the two processes and the kernel that carries their bytes.

The repository also holds its style checker, `cpplint.py`, in Python 2: by lines it is most of
the code. It is a sequential program that reads each file once, from the first line to the last,
and keeps a dozen states from one line to the next, and several more, in globals, from one file
to the next. What can go wrong in it is a state that outlives its time or ends too early.

Paths below are relative to the repository; the sources are in `src/src/`.

## Inventory

| component | source | state | operations |
|---|---|---|---|
| send and receive loops | `socket.c` 126-206 | the locals of a call: `sent`, `is_the_socket_valid`; `received`, `s`, `finished`, `are_we_connected`, `result` | `socket_send`, `socket_recv`, `socket_send_int`, `socket_recv_int`, `socket_shutdown`, `socket_close` |
| connection set-up | `socket.c` 31-129 | the descriptor and the list of addresses | `socket_connect`, `socket_bind_and_address`, `socket_accept` |
| client session | `jvm_client.c` | socket, buffer, source `FILE`, its length, the loop index | `jvm_client_start`, `send_byte_codes`, `print_received_variables` |
| server session | `jvm_server.c` | two sockets, `int_vector`, `stack`, buffer | `jvm_server_start`, `receive_variables_quantity`, `receive_and_process_byte_codes`, `send_variables` |
| interpreter | `jvm_server.c` 25-60, `jvm_utils.c` | position in the chunk, `error` | `process_byte_codes_chunk`, `jvm_argument_detect`, the 13 `jvm_function_*` |
| operands stack | `stack.c` | a linked list on the heap | `stack_create`, `stack_push`, `stack_pop`, `stack_destroy` |
| variables array | `int_vector.c` | `_size`, `_data` | `int_vector_create`, `_get`, `_set`, `_size`, `_print_elements`, `_destroy` |
| command line | `main.c` | exit status | `parse_client_args`, `parse_server_args`, `main` |
| cpplint: driver | `cpplint.py` 480-556, 757-970, 1064-1125, 1651-1772, 5906-6323 | `_cpplint_state` (verbosity, filters and their backup, counts), `_error_suppressions`, `_line_length`, `_valid_extensions` | `ParseArguments`, `ProcessConfigOverrides`, `ProcessFile`, `ParseNolintSuppressions`, `Error`, `CheckForHeaderGuard` |
| cpplint: comments, strings, brackets | `cpplint.py` 1128-1619, 4679-4729 | the delimiter of a raw string that goes on; the stack of a search | `RemoveMultiLineComments`, `CleansedLines`, `CloseExpression`, `ReverseCloseExpression`, `_GetTextInside` |
| cpplint: states over lines | `cpplint.py` 592-966, 1997-2570, 2842-2996, 3812-3864, 4501-4675, 5522-5697 | `NestingState` (`stack`, `pp_stack`), `_IncludeState`, `_FunctionState` | `Update`, `UpdatePreprocessor`, `CheckForFunctionLengths`, `CheckIncludeLine`, `CheckAccess`, `CheckSectionSpacing`, `CheckForIncludeWhatYouUse` |
| cpplint: checks of a single line | the rest of `cpplint.py` | none | `CheckStyle`, `CheckSpacing`, `CheckBraces`, `CheckCasts`, ... |

How they interact: `main` calls `jvm_client_start` or `jvm_server_start`; both use `socket.c`
for everything that crosses the connection; the server hands each chunk to
`process_byte_codes_chunk`, whose instructions work on one stack and one array that live for
the whole session. The two processes share nothing but the two byte streams. In cpplint the
driver reads a file, blanks its comments and strings, and gives each line to the states over
lines and to the single-line checks; all of them report through `Error`, which asks the
filters, the verbosity and the NOLINT lines. It is run by hand or by `make`, never by the C
program.

What is hard, and what makes each component correct:

* **Send and receive loops.** `send()` and `recv()` move any number of bytes. A partial send
  must be resumed where it stopped; bytes must be handed out in order and once; the 0 that
  means "end of program" must mean just that. `socket_recv` stops when two answers of `recv()`
  in a row are equal (`socket.c:166`) and does not count the second, so what it returns
  depends on how the network cut the stream. Correctness: order, no repetition, bounded loss, a
  true end, and calls that wait for nothing but the other end.
* **Client and server sessions.** Every early return has different things open. The two ends
  must agree on the number of ints that cross back, the server may answer only when the program
  is over, and neither may wait for the other for ever, whatever is killed, reset or fails.
* **Connection set-up.** The descriptor and the address list freed on each failing call.
* **Interpreter.** A chunk may end inside an instruction. The result must not depend on the
  chunks, no byte may be skipped or run twice, the trace must be what was run. `malloc` may
  fail under any push.
* **Arithmetic.** Wrap-around, division that traps, sign of the remainder, order of operands.
* **Stack and array.** Last in, first out; every node freed; no access out of bounds. An empty
  stack answers `stack_pop` with an error code its callers take for an element.
* **Command line.** A number that does not fit 32 bits is cut, not refused.
* **cpplint: driver.** Filters, NOLINT lines and the line length are globals that each file
  changes and each way out of `ProcessFile` must put back. The walk from the file's directory to
  the root gathers configurations in one order and applies them in the other. Correctness: what
  is printed about a file depends on that file, its configurations and the flags alone; counts
  are those of what was printed.
* **cpplint: text.** Comments, strings, characters, digit separators and raw strings are removed
  in passes that do not know each other; a "<" is a bracket or a comparison, and only what
  follows tells. Correctness: what is left is the code; the other end of a bracket is the right
  one.
* **cpplint: states over lines.** Blocks opened or closed in one branch of a conditional, in
  inline assembly, or on one line with others; the section of a class when another class is
  nested in it; includes forgotten at the wrong `#else`; lines counted for the wrong function.

The full list, at the lines where it bites and with the properties on the watch, is
`hazards` in `PROJECT.json`.

## Modules

```
SocketCalls <- Transport                           ByteStream  (abstract; Transport implements it)
     ^
     +---- Session <- MCSession

IntArith <- Instructions <- Interpreter <- MCInterpreter    Machine (abstract; Interpreter implements it)
                       ^--- Machine
                       ^--- ArithCheck
                       ^--- Stack                           Lifo (abstract; Stack implements it)
                       ^--- Lifo

Linter <- MCLinter
Nesting  <--+
Includes <--+-- LintFile <- MCLintFile
Brackets <- LintText <- MCLintText

SocketCalls <--+
IntArith <-----+-- SharedLemmas <- TransportProofs    (with Transport)
                                <- SessionProofs      (with Session)
                                <- ArithCheckProofs   (with ArithCheck)
                                <- InterpreterProofs  (with Interpreter)
                                <- StackProofs        (with Stack)
                                <- LinterProofs       (with Linter)
                                <- LintFileProofs     (with LintFile)
```
(`A <- B`: B extends A.)

**SocketCalls.** The loops of `socket_send` and `socket_recv` as pure operators over a record
that holds the C locals: the record a call starts with (`SendCall`, `RecvCall`), the condition
of the `while` (`SendLooping`, `RecvLooping`), one turn given the answer of the system call
(`SendStep`, `RecvStep`) and the value returned (`SendResult`, `RecvResult`). Transport and
Session run these same loops.

**Transport.** One direction of a connection: a process in `socket_send`, the kernel, a process
in `socket_recv`. A byte is its position in what the sender writes, so lost, repeated or
reordered bytes show. One action per system call and its outcome: `SendAccept(k)`, `SendFails`,
`RecvTake(n)`, `RecvEof`, `RecvFails`; `SendStart`, `SendReturn`, `RecvStart`, `RecvReturn` are
the calls and returns of the C functions. `RecvTake` writes at `&buffer[received]`. `Reset` is
external: at any time the connection may break and lose any tail of what is in flight. The receiver
may stop calling between any two calls, as the server does at a cut instruction and the client
after its last int.

**ByteStream.** What a caller of `socket.c` may rely on: runs of the written bytes, in order,
none twice, perhaps with gaps, an end only after the writer closed and nothing after it.
`Transport!ImplementsStream` is the refinement.

**Session.** Both processes from `main` on, over two directions. `pc` is the place in
`jvm_client_start` or `jvm_server_start` and the static functions they call; the loops of
`socket.c` run inside the places that send or receive (`SendAccept`, `SendFails`, `RecvTurn`).
`socket_connect`, `socket_bind_and_address` and `socket_accept` are a ladder: one action per
system call (`getaddrinfo`, `socket`, `connect`; `setsockopt`, `bind`, `listen`; `accept`), each
of which may fail and then releases what the function has opened so far.
A direction is a number of bytes accepted and a number handed over: byte i of a direction is the
i-th byte written, which is enough to say what bytes are in a buffer. `held` is what a process
has opened or allocated and must release. The interpreter is abstracted to three kinds of bytes:
`plain`, `argument` (takes the next byte) and `trap` (may stop the process by a signal), and its stack
to one resource, with the nodes that `stack_push` loses when its second `malloc` fails (`Losses`,
`"node"` in `held`) as another, which nothing releases.
An input is what `ftell` says of its length and the bytes it holds: a file, a pipe (length -1), a
file that has shrunk since.
`Faults` says what else may happen: failing `malloc` ("memory"), failing system calls
("calls"), a reset at any time ("network"), a process killed ("crash").
A reset by an end that was closed with data unread happens whatever `Faults` says.

**IntArith.** The C `int` of W bits: the nine arithmetic functions of `jvm_utils.c` with
wrap-around, truncating division, bit operations by bits, and the divisions that trap.

**Instructions.** Recognition of a byte and the effect of the 13 instructions on the stack (a
sequence, top last) and on the array. Each has a *set* of outcomes: a push may fail silently
(`MemoryFails`), an `iload` past the end reads some int or kills the process, a division may
trap. An empty stack yields `OPERATION_FAILURE_NULL_POINTER` as an operand, as in the code.

**Interpreter.** `receive_and_process_byte_codes` and `process_byte_codes_chunk`: chunks of any
size, the index `i`, `error`, the printed trace. One action per branch of the loop.

**Machine.** The same instructions run on the whole program, without chunks; it may stop between
two instructions. `Interpreter!ImplementsMachine` is the refinement.

**Stack.** The list of nodes of `stack.c`, each with a block of its own for the int, on a heap
that hands out any free address, one just freed included, and may refuse. `stack_push` loses
the node when its second `malloc` is refused (`leaked`); `stack_destroy` pops one node at a time.

**Lifo.** The stack its callers see, stated with the `Push` and `Pop` of Instructions, so that
`Stack!ImplementsLifo` is what makes the sequence in Instructions a fair picture of `stack.c`.

**ArithCheck.** The arithmetic against its mathematical definition for every pair of ints.

**Linter.** One execution of cpplint: the options in turn, then for each file the walk for
CPPLINT.cfg files (`LookForConfig`: one directory; `ApplyConfig`: the filters, once the walk is
over; `BadPattern`: an `exclude_files` that is no regular expression, whose exception ends the
program), the three ways out of `ProcessFile` (`LeaveFile`, `SkipFile`, `FinishFile`), the header
guard, and each line (`ProcessLine`: NOLINT, nesting, the checks, the check of width). What the
checks find is data: a line carries the errors they raise on it and the file those raised at its
end. `Error` decides what is printed and counted. The actions take the state of the globals as
the file before left it. A filter is its sign and the set of the categories that start with its
text.

**Nesting.** `NestingState`: the stack of blocks, the stack of conditionals, the consumption of
the rest of a line token by token (`Consume`), inline assembly (`CountParentheses`), the
template lists, the ends of namespaces, and the sections of classes with the two checks that
read them. A line is its tokens: braces, parentheses, separators, the words `namespace`, `class`,
`struct`, `extern` (an `extern "C"` that begins the line or stands right after a separator), `asm`, the
labels, `DISALLOW` for the macro, and `word` for anything else.

**Includes.** `_IncludeState`: the kinds and order of includes, the lists of what was included in
each branch of a conditional, and at the end of a file what is used and not included, with the
module's own header read from disk. A path is the sequence of the pieces the code splits it into.

**LintFile.** One file, line by line, over Nesting and Includes, with the lengths of functions.
`errors` holds what is reported, with the line.

**Brackets.** The search for the other end of a bracket, forward, backward and in
`_GetTextInside`, over lines of characters.

**LintText.** `RemoveMultiLineComments` and `CleansedLines`: raw strings, comments and strings,
a line at a time, on sequences of characters. `Lex` is the reference: a lexer that reads the whole
text once.

**SharedLemmas.** What several proofs rest on: induction over a set, folds, lists put together or
turned round, the loops of SocketCalls; what the operators of IntArith compute. **TransportProofs,
SessionProofs, InterpreterProofs, ArithCheckProofs, StackProofs, LinterProofs, LintFileProofs.** The
theorems about the module each is named after; see Proofs.

Definitions that end in a phrase like `...Leaking` or `...FromStart` and are commented "Mutant"
are not part of any specification: each is a plausible bug, kept to show that the property named
beside it in `PROJECT.json` notices it.

## Runs

| run | states | what it shows |
|---|---|---|
| `transport` | 7 146 | every way to cut up to 5 bytes, two send sizes and two buffer sizes, with resets: order, bounded loss, true end, no byte sent twice, refinement of ByteStream, a `socket_send` that does not return waits for room that only the reader can make, a reader that goes on reading learns the end |
| `transport_quantity` | violation | two equal answers of `recv()` make `socket_recv` return less than it received |
| `session_faults` | 184 094 | a session of two variables and 3 byte codes in chunks of 2 with every fault, a program that the chunks may cut inside an instruction, a file, a pipe and a file that shrinks: nothing left behind but lost nodes of the stack, answer only after the end, every byte run once in order, agreement on the variables, termination |
| `session_deadlock` | violation | with less room in the kernel than the answer needs, server and client both wait in `send()` |
| `session_pipe` | violation | a client that reads a pipe sends no byte code and exits with success |
| `interpreter` | 369 022 | every program of up to 4 of 6 bytes and five longer ones, every cut into chunks, arrays of size -1, 0, 2, failing allocations: the chunked loop implements the unchunked machine, skips nothing, traces what it ran, ends |
| `arithmetic` | 65 536 | the nine functions on every pair of 8-bit ints, and which operand is the right one |
| `stack` | 18 937 | every order of pushes and pops with failing allocations and reused addresses: the heap is the stack and what was leaked, and the list implements the sequence |
| `linter` | 3 461 | twelve command lines over eight files and twenty-four configurations of two directories: nothing of one file reaches the next, exactly what the comments, configurations and flags let pass is printed and counted, NOLINTs that the check of the guard reads early included, guards are judged, the program ends |
| `linter_config` | violation | the line length is that of the outermost configuration |
| `lint_file` | 780 078 | every text over thirteen alphabets of lines: the stack is that of the open braces, checking resumes after assembly, order and repetition of includes, assembly between them included, lengths of functions, sections of classes, missing includes, with and without the file's own header |
| `lint_text` | 657 403 | every text of seven alphabets of pieces: what is left is the code; brackets match in both directions |

### Findings

Four runs end in a violation, and `findings` in `PROJECT.json` quotes the sentence each
contradicts. The deadlock and the lost bytes have one root each: the server stops reading at a
cut instruction (`jvm_server.c:91`), and `socket_recv` takes a repeated answer for "no new
bytes" (`socket.c:166`). A pipe has no length, so the loop of `send_byte_codes` is not entered
(`jvm_client.c:16`). `linelength` of a CPPLINT.cfg is assigned to a global as it is read, from the
inside out, so the outer directory wins (`cpplint.py:6103`); it stays for the next file, which the
trace of this run does not show.
Properties of the passing runs are stated around these: `AtMostHalfLost` bounds the loss, and
`RunsWhatWasSent` and `PrintsTheVariables` except the sessions where bytes were dropped or an
int was cut short (the history variables `dropped` and `short`). `Released` lets a server that ran byte
codes where `malloc` fails keep lost nodes, and `ClassesAreJudged` says of sections only what holds of
classes with the brace on the line of the head.

Two more disagreements have no run of their own; no property takes what the code does there for right:

* `stack_push` returns without freeing its node when there is no memory for the element (`stack.c:20`);
  it is in no list, so `stack_destroy` cannot free it, against `stack.h:45`: "the allocated memory is
  released". In Stack the set `leaked` grows; in Session `Released` names the node as the one thing that
  may be left behind.
* `_ClassInfo` searches the last line of a class from the line of its head on, where a class whose brace is
  further down has no brace open yet (`cpplint.py:2080-2085`): it counts as a class of one line, and
  `CheckSectionSpacing` returns at 3831. So the lines that follow are dead for just the classes that
  their comment names (3853-3856): "Try a bit harder to find the beginning of the class. This is to
  account for multi-line base-specifier lists, e.g.: class Derived / : public Base {". The model
  has the code's search (`EndOfClass`, the head in `CheckSectionSpacing`); `ClassesAreJudged` says of sections
  only what holds of classes whose brace is on the line of the head, and nothing of these.

Other facts about the code that came up, which the models include and whose properties are stated so
as to allow for them:

* The name of an instruction that was cut, and not run, is printed in the trace
  (`jvm_server.c:57`).
* `dup` of an empty stack pushes an error code twice (`jvm_utils.c:211`).
* The client prints an int of which it received fewer bytes than four and exits with success
  (`socket.c:191`).
* A filter without a sign in a CPPLINT.cfg, or in the flag, raises a `ValueError` that nothing
  catches (`cpplint.py:816`). Several `filter` lines in one CPPLINT.cfg are applied last to first,
  so the first is the strongest (`cpplint.py:6118`).
* Errors told before the lines are read (copyright, an unfinished comment) cannot be silenced by
  NOLINT, and that of the comment names the line after (`cpplint.py:6021`).
* A malformed NOLINT on the line of a guard is told twice.
* An error told on the line where a bracket closes, further down than the line being checked, cannot
  be silenced by a NOLINT on that line, which is parsed later (`cpplint.py:4139`, 4171, 4174), against
  `cpplint.py:69-71`: "add a 'NOLINT(category)' comment to the line". `CheckForHeaderGuard` parses
  the comment first (1735, 1741).
* Once a long function was told, every later brace in the first column tells it again, as `End`
  leaves its count (`cpplint.py:964`).
* Braces inside the parentheses of an `asm` leave it open; an `asm` outside of every block is not
  noticed.
* The lists of includes have one entry per conditional: an `#else` of an outer conditional forgets
  the wrong list after a nested one, a stray `#else` empties the last.
* A label on the line of a closing brace goes to the class that closed.
* An `exclude_files` pattern that is no regular expression raises a `re.error` that nothing catches
  (`cpplint.py:6093`).
* `lines`, which keeps the strings, loses what looks like a comment inside a string or a character;
  `elided` does not. LintText computes both; its properties are about `elided`, which braces, functions
  and most checks are read from.
* In the text: what looks like the beginning of a raw string in a comment or a string is one; so is
  the last of several on a line before the first; a quote or `//` in a one-line comment counts as
  such; `/*/` is complete; comments over lines are seen only at the start of a line. `Lex` lists
  these as the conventions under which `CodeIsWhatIsLeft` holds.
* A search for the end of a bracket that begins at the `<` of `operator<`, or at the `>` of `->`,
  finds the end of another bracket instead of none.

### Bounds, and why they are enough

* *Transport.* 5 bytes, room for 3, sends of 1 and 3, buffers of 2 and 4. A send of 3 can be
  partial, needs two turns and can block; a buffer of 4 can take 1+1 (repeated), 1+2+1, 2+2
  (repeated), 3+1; a buffer of 2 takes 1+1 and 2. The loops compare only neighbouring answers, so
  longer streams repeat these patterns. The proofs below have no bounds.
* *Session.* Ints of 3 bytes instead of 4 (the least where an int can be cut short by a
  repeated answer with a byte missing: 1+1), of 2 in `session_deadlock`; chunks of 2 instead of
  100, 2 variables (1 for the pipe), 3 or 5 byte codes: more than one chunk, and a last one that is
  not full. Room for 4 bytes is less than the answer of 6, so that the server waits for the client
  in the middle of it. `Garbage` is a negative and a larger quantity: an array without memory,
  and an answer the client does not expect.
* *Interpreter.* CHUNK_SIZE 3 with chunks of 1 to 3 bytes puts every cut in every position of a
  two-byte instruction. Six bytes stand for the classes of the code's branches: store, load,
  immediate, `dup`, a two-operand function, an unknown byte; the other functions occur in the
  long programs. W = 9, so that a byte and a sign extended byte both fit and products do not.
* *Arithmetic.* W = 8. No definition depends on W but through INT_MIN, INT_MAX and the modulus.
* *Stack.* Four addresses for nodes and three for elements, two ints. An operation looks at the two
  topmost nodes; the fourth node address is for one that is leaked under three that are used.
* *Linter.* Three files in a row: one that sets globals, one that must not see it, one that ends the
  list. Two directories: an inner and an outer configuration. The categories are eleven of the
  sixty-odd, two of them (`build/include`, `build/include_alpha`) such that one's name begins the
  other's, which is what filters match on. Configurations: none, unreadable, both signs, several
  filter lines, an exclusion, a stop of the walk, an unsigned filter, an unknown name.
* *Lint files.* Texts of 4 to 6 lines over alphabets of 5 to 11, some of which begin with one to three
  fixed lines (an open class, block or conditional, the head of a function, a header and the
  beginning of assembly). Each alphabet is for one state
  and holds what moves it: heads with and without brace, conditionals in all branches, assembly with
  list or block, classes nested with every label, functions with and without a body. `SmallClass` 3
  (24 in the code), `NamespaceLines` 2 (10) and the triggers 1 and 2 (250 and 400) are the limits,
  so that texts on both sides of each fit.
* *Lint text.* A line of 5 or 6 pieces, or 2 to 4 shorter lines. The passes look at neighbouring
  pieces and for the next end of what began, so a beginning, something inside, an end and something
  after, with one of another kind across, are at most five pieces.

### Fairness

* *Transport.* A process inside a call goes on when the kernel lets it. Nothing obliges the receiver
  to call again (the server stops at a cut instruction, `jvm_server.c:91`; the client reads nothing
  before it has sent everything, and nothing after its N ints), the sender to send or to shut down, or
  the network to break. So it is not said that `socket_send` returns: it may wait for ever, but
  only on a connection that is full, with no reader in a call (`SendWaitsForTheReaderOnly`). The other
  end of this is `session_deadlock`. `ReaderLearnsTheEnd` says that a call begun after the
  shutdown returns, and that a reader which goes on calling is told the end.
* *Session.* Weak fairness of each process, that is of the scheduler, and of the kernel's reset
  for data sent to a closed end, which TCP guarantees. No fault is ever obliged to happen.
  `Terminates` includes a server that no client reached and that waits in `accept`: this is what
  it is for.
* *Interpreter and Linter.* Weak fairness of the one process.
* *Stack, LintFile, LintText.* None: only safety is claimed.

Deadlock is checked in the Session runs except `session_deadlock`, with `Finished` as the one
state that may stay, and in `arithmetic`. The other runs stop on purpose (reader and sender stopped; the
stack destroyed; the interpreter, the linter and the texts at their end).

## Proofs

The theorems below hold for every value of the constants that the named assumptions of the modules
allow; the right column names the property that a run checks on a small instance.

| theorem | of module | property |
|---|---|---|
| `TypeCorrect` | Transport | `TypeOK` |
| `DeliveryInOrder` | Transport | `InOrder` |
| `LossIsBounded` | Transport | `AtMostHalfLost` |
| `EndIsGenuine` | Transport | `EofIsTheEnd` |
| `NothingSentTwice` | Transport | `SentOnce` |
| `TheLoopsAreAStream` | Transport | `ImplementsStream` (refinement of ByteStream) |
| `TypeInvariant` | Session | `TypeOK` |
| `OnlyLostNodesRemain` | Session | `Released` |
| `TheAnswerComesAfterTheEnd` | Session | `AnswersAfterTheEnd` |
| `TheProgramRunsWhole` | Session | `RunsWhatWasSent` |
| `TheVariablesArePrinted` | Session | `PrintsTheVariables` |
| `TheAnswerIsReadWhole` | Session | `NothingLeftUnread` |
| `EveryByteIsInterpreted` | Interpreter | `NothingSkipped` |
| `TheTraceIsTrue` | Interpreter | `TraceIsWhatRan` |
| `OperandsFitAnInt` | Interpreter | `TypeOK` |
| `TheChunksMakeNoDifference` | Interpreter | `ImplementsMachine` (refinement of Machine) |
| `DivisionIsC` | ArithCheck | `DivisionIsTruncated` |
| `ResultsWrap` | ArithCheck | `ArithmeticWraps` |
| `TheTopIsTheRightOperand` | ArithCheck | `TopIsTheLast` |
| `TheHeapIsTheStack` | Stack | `HeapIsTheStack` |
| `TheListIsASequence` | Stack | `ImplementsLifo` (refinement of Lifo) |
| `SettingsAreTyped` | Linter | `TypeOK` |
| `NoFilterIsLeftBehind` | Linter | `FiltersBetweenFiles` |
| `TheCountsAddUp` | Linter | `CountsAddUp` |
| `DeservedIsPrinted` | Linter | `PrintsTheDeserved` |
| `GuardsAreTold` | Linter | `GuardsAreJudged` |
| `TypeCorrect` | LintFile | the types of the states over lines |
| `LongFunctions` | LintFile | `LongFunctionsAreTold` |
| `IncludesInOrder` | LintFile | `OrderIsJudged` |
| `IncludedIsNotMissing` | LintFile | `MissingIsMissing` |
| `HeadersIncludedTwice` | LintFile | `DuplicatesAreReported` |

In each module the non-temporal work is in lemmas, one per action or per process, that join in "the
invariant is kept"; the theorem follows from the invariant by a state argument.

### What the proofs share

`SharedLemmas` has two ways to do induction without an operator as a parameter. `SetInduction`: a set
that holds 0 and with each number its successor holds every number; were
m missing, subtracting 1 would map the missing numbers up to m one to one into those other than m, fewer. `FoldExists` and `FoldKeeps`: the folds of the community modules are defined by a
`CHOOSE` of a recursive function; that function exists when the set is finite and each turn stays in
a type, and what one turn keeps holds of the whole fold. `FlattenElements` and the lemmas about
`Reverse` say what a list of lists holds when put together and when turned round. The rest of the
module is what one turn of `socket_send` and of `socket_recv` does to the locals of a call, and what the
operators on ints compute.

### Transport

From `TransportAssumption` (sizes and capacity positive, bound natural). None of the properties is
inductive. `IInv` is `TypeOK` and five parts:

* `SenderInv`: a `socket_send` has not sent more than its size; there is none after the shutdown.
* `WireInv`: byte number i in flight is `taken + i`, and unless the connection broke what was read
  and what is in flight make up what was accepted. This is where a wrong offset in
  `socket_send` would show.
* `BufferInv`: the buffer of the call in progress is the last `Len(buffer)` bytes read, and holds
  at most `s` bytes more than `received`, none while the loop goes on. This is the fact
  about the repeated answer that `AtMostHalfLost` needs: the dropped answer equals the one counted
  before it.
* `DeliveredInv`: what was returned in earlier calls is increasing and lies before the buffer, and
  is at least half of what was read then; a receiver that stopped, or is about to, has seen a
  broken connection.
* `EndInv`: a call that is about to return 0 has found the stream shut down and empty. It needs
  that wants are positive and that the first turn compares with `s = 0`.

There is one lemma per action (`SendStartStep` ... `ResetStep`), each with a step per part that the
action can disturb; two frame lemmas deal with the parts the other process owns. The refinement needs
one thing more, `AfterTheEnd`: a call begun after one that returned 0 receives nothing, so that its return
is no read of the stream. `StepsOfStream` maps each action: the sends that are accepted write,
a return of `socket_recv` reads a run, everything else stutters.

### Session

From `SessionAssumption` (at least one byte to an int, to a chunk and of room; any number of
variables, any input, any set of faults). `Typed` is `TypeOK` with the places of each process, and
what a call in progress has done: `SendInv` (no more sent than asked, failure only on a broken
connection) and `RecvInv` (the bytes in the buffer are at least those counted, and as many until the answer
that ends the loop). Without it `TypeOK` is not inductive: a chunk is a sequence only if
`socket_recv` counted right. On top of it, one invariant per question:

* `HeldInv`: what a process may hold at each place of its code (`Holds`), so that nothing is left at
  the last but what `LeftBehind` allows. A node lost in `stack_push` is carried through all later places of
  the server; it takes that memory fails and that a byte was run, both of which stay true. The client's
  source is released by any way to the end.
* `AnswerInv`: the client shuts down after its last byte; where the loop of the server is about to
  return 0 or less, the client has shut down and nothing is in flight, or the connection broke.
* `RanInv`: what was run is the program up to the mark where the chunk in hand begins, unless
  bytes were dropped or the quantity was cut short.
* `PrintInv`: the client has printed the first ints, in order, and read just their bytes.
* `AnsweredInv`: the quantity at the server is that of the client, and the server has sent just the
  bytes of the ints it has answered.

Each is kept by the code of the client, of the server, by the set-up and by the kernel, one lemma each
(`ClientHeldKept`, `ServerHeldKept`, ...). `NothingLeftUnread` follows from the last two together.

### Interpreter

From `WidthAssumption` (an int has at least 8 bits), `InstructionsAssumption` and
`InterpreterAssumption` (programs are sequences of bytes; chunks of one byte or more). `Place` says
that the chunk in hand is the end of what was received and that `done` counts the bytes before it and
those of it that were run, less the one whose argument is missing (`error`). `Traced` is
`TraceIsWhatRan` with the types of the two traces. Both are inductive; `NothingSkipped` is what
`Place` says when `pc` is "receive" or "stopped". For the refinement, `SameOutcomes` shows that the
instance of Machine has the same instructions, and `StepOfMachine` that a chunk received is a stutter
and an instruction at position `i` of the chunk is the one at `done` of the program: this is
where `Place` is needed. `OperandsFitAnInt` adds `Operands` and goes through all outcomes of all
instructions, so it rests on the arithmetic.

### Arithmetic

From `WidthAssumption`. `SharedLemmas` relates the operators on bits, which are sums over the bits in
the code's order, to arithmetic: each is a running sum (`AndIsASum` ...), `IntIsBits` and
`SharedBits` follow by induction over the bits, `ComplementProperties` gives the negation from
the complement, `QuotientProperties` the truncating division from `\div`, and `ResultsAreInts` says that
all nine functions stay in an int. With W unbounded this includes 32, which TLC cannot reach.

### Stack

From `StackAssumption`. The inductive invariant `HeapInv` names the list: there is a `c` such that
`c[0]` is `_top`, each `c[k]` is an allocated node whose `_lower` is `c[k + 1]`, and `c[_stack_size]`
is `NULL`; no two nodes share an element; the heap is the nodes of `c` and those that were lost. The
operators of Stack walk the list from the top; `HangingIsTheChain` shows that they find `c`. The
lemmas about the heap take heap, top and size as parameters, so that they speak of the state after a
step as well. `TheListIsASequence` has two hypotheses. `MemoryFails`, as Lifo knows nothing of blocks:
where malloc never fails but the finite set of addresses runs out, the code's push fails and Lifo's
does not. The C program has no such heap. And that there is an int to push.

### Linter

From `CategoriesAssumption`, `SourcesAssumption`, `CommandsAssumption` and `ConfigsAssumption`, which
say of what kind files, options and configurations are: finitely many categories, none of them named
like "all categories" or "an unknown category" of a NOLINT; default filters
with a sign; values of the type that the option's parser lets through; no lines in a CPPLINT.cfg that is
not there or cannot be read. `LintInv` is `TypeOK` and

* `PrintedInv`: everything printed is a report that was as sure as the verbosity asks for;
* `CountInv`: the count is the length of what was printed and, when counting by category, the total;
* `Placed`: the filters in force have signs (a filter without one ends the run before it is used);
  inside a file the backup is the default filters and those of the command line; between two files so
  are the filters themselves.

`FiltersBetweenFiles` is not inductive without the backup, nor that without the signs. No run checks it by
itself: filters left in force are seen in what `PrintsTheDeserved` says of the next file. Options, lines of
a configuration and lists of lists are folds, and so is the total over categories: `TotalAdds`
and `HitsTotal` say that adding the errors of one call of `Error` category by category adds their
number to the total.

`PrintsTheDeserved` and `GuardsAreJudged` compare what was printed for each file with a reading of its
lines alone. `JudgeInv`, inductive together with `LintInv`, follows the file in hand:

* `Walked` (during the walk for configurations): the directories looked at so far are among those that
  count, none excludes the file, and what the filters collected say of a category is what the
  innermost directory with an opinion says (`Said`).
* `Decided` (from then on): the filters in force, which are the default ones, those of the flags
  and those of the walk turned round, let through the categories that `Passes` says. `VerdictOfTwo` and
  `VerdictOfWalk` join verdicts of lists put together; `FilteredIs` is that `_ShouldPrintError` walks
  all the filters and keeps the last that matches.
* `InHand` (inside the lines): the suppressions are just those of the NOLINT comments of the lines read by
  now (`Silences`, `ReadLines`), those that `CheckForHeaderGuard` reads early included; the errors printed are
  those told by now (`ToldByNow`) that pass; a wrong guard has been told once it was looked at.
* `Judged`: each file before has what it deserves; nothing was printed for a file to come.

One lemma for each action says that the next file, or the same one a line further, is again described so.
The suppressions need their own part because an error is judged by the NOLINTs read at that moment: a
line is told with those up to itself and the early ones, not with those of the whole file. For
the references of the two properties to mean this, a definition of Linter has its parentheses: the
provers and TLC read `A \cup UNION B \cup C` in two ways.

### LintFile

The verbosity of LintFile is a natural number, though the flag takes any int: usage knows the levels 0 to 5,
and with a negative one `2**verbosity` is a fraction, which moves the limits of functions below
those of level 0 and nothing else. (Linter, where it decides what is printed, takes any int.)

From `FilesAssumption` (texts are made of lines; a line that includes is no other directive; of a conditional
the blocks see a word; the head of a function is not a single brace; a line uses finitely many headers) and `TriggersAssumption` (positive
limits). The length of a text and the number of texts are free. `TypeInv` types what is kept over lines.
It carries that there is always a list of includes to add to, so that an `#endif` or
`#else` without `#if` finds one, and that every entry of a list is the header of its line. A line is
consumed token by token in a fold, and the states over lines are typed by what one
token does. On top of it, one invariant per question:

* `LengthInv`: while nothing was left out, the function being counted is the one whose head came last, with as
  many lines as its body has before this line, in a function if no brace in the first column came since
  (`FunctionHolds`); what was told at closing braces is what is due. The two counts are one only because
  `End` keeps `lines_in_function`, the fact behind the repeated report under Findings.
* `OrderInv`: while no header comes twice, the `_section` reached is the latest kind among the headers of this
  section (`SectionHolds`). It needs both directions: a section that no header
  reached would tell too much, one that forgot a header too little.
* `BranchesInv`: there is a record for each conditional that is open, and going back to the stack kept in
  it puts the line in assembly just when the `#if` was left out as assembly (`Branching`). So an `#else` is
  left out exactly when its `#if` was, whatever was opened in between: no `#else` that is checked can empty
  a list that its own `#if` did not begin.
* `KeptInv`, on top of it: a header accepted outside of conditionals is in a list that no directive to come
  empties, which is not the last one while the `#if` of some open conditional began it (`PathSafe`,
  `Shut`); each header like it that followed was told; and every entry is of a header that was accepted.
  It holds for conditionals nested in any way, in and out of assembly, as long as each `#else` and
  `#endif` has its `#if`.
* `MissingInv`: no line tells that a header is missing, and after the last one exactly the set computed by
  `CheckForIncludeWhatYouUse` is told. With `KeptInv`, what is told is used and not included for
  certain; in a header, which waits for no other file, nothing used and included nowhere is passed over.
* `DuplicateInv`: while, besides, no conditional is in another and none is left out as assembly, the last
  list is that of the branch in hand, and the others hold what stood before its `#if` (`ListsHold`). It
  gives the other half of `DuplicatesAreReported`: what is told was included before, in no other branch.

`LengthInv`, `OrderInv` and `DuplicateInv` have the condition of their property as their own: outside
of it the code does something else, described under Findings.
`LinesOf` gives the errors of one category, and a lemma each says that the other checks of a step
tell none of them.

### What stays with TLC

* Liveness (`SendWaitsForTheReaderOnly`, `ReaderLearnsTheEnd`, `Terminates` of Session, Interpreter and Linter):
  fairness and ENABLED are out of the prover's reach.
* `StackIsTheOpenBraces`, `ChecksResume` and `ClassesAreJudged` of LintFile. Their references select from
  the tokens of all lines and count parentheses in what is left (`SelectSeq`, balances of
  subsequences), recursive definitions over data.
* `OwnHeaderIsRead` of LintFile, the part of the missing headers that depends on the disk: the code drops
  pieces of paths and compares what is left (`Flat`, a selection), the reference compares the names whole,
  and that the two agree is an induction over paths.
* LintText and Brackets (`CodeIsWhatIsLeft`, `BracketsMatch`): two recursive computations over the same
  text compared, an induction over data.

## Not modelled, and why

* The parsing of arguments in `main.c`: `strtol` and comparisons of strings, without a state. The
  exit status and the closing of the client's file are in Session.
* The big-endian conversion of ints: `htonl` and `ntohl` are inverse; in Session an int is the
  positions of its bytes, so a shifted or cut int is seen as such.
* Output to stdout other than the trace and the printed variables; the 2^31-byte limit of the loop
  index `i` in `send_byte_codes`, which no instance could reach.
* In cpplint, the checks of a single line or of one expression (spacing, braces, casts, references,
  `printf`, C++11, `CheckForNonStandardConstructs` and others): regular expressions about style, with
  no state and no order of events. Linter takes what they find as an input, in the order in which
  `ProcessLine` runs them. Also the layout of classes and namespaces (indentation, what a `DISALLOW`
  macro comes last after), messages, the output formats, and the statistics of `--counting`
  other than the counts.
* In LintText, numeric escapes, the prefixes of raw strings, and white space but where a pattern of
  the code asks for it.
* The Makefile and the sample programs.

## Plan

1. Done: the loops of `socket.c`; the session with its set-up; the interpreter; the stack on the heap;
   cpplint's driver, text and states over lines.
2. Done: proofs of the three refinements and of the safety of Transport, Session, Interpreter, Stack,
   the arithmetic and Linter; in LintFile, of the types, the lengths of functions and the includes.
3. Left: a reference for `StackIsTheOpenBraces` that follows the tokens one by one, so that it
   could be proved with the folds of LintFileProofs.
