# A verification of the table server

The program is an in-memory table server with transactions: `server_main.cpp`
starts a `Server`, which accepts connections and gives each a thread that runs
a `ClientConnection`. Clients push values on the operand stack of their session,
compute with them, and SET and GET entries of shared tables, alone or between
BEGIN and COMMIT. This directory models the server, its sessions and the client
programs in TLA+, checks them with TLC, and proves part of it with TLAPS.

## 1. Inventory

| component | state | operations | interacts with |
|---|---|---|---|
| `ClientConnection` (client_connection.cpp) | `m_client_fd`, `m_fdbuf`, `stack`, `in_transaction` (never initialised) | one handler per request, `read_message`, `send_message`, `handle_exception`, `close_connection`, the destructor | its client (one line in, one line out), `Server` (member calls), `Table` (calls, `lock`, `unlock`) |
| `Server` (server.cpp) | `tables`, `transaction_locks` and `in_transaction` keyed by descriptor, `mutex` | `create_table`, `find_table`, `begin_`, `commit_` and `rollback_transaction`, `lock_table`, `unlock_table`, `is_transaction_active`, `server_loop` | all sessions share it; a `Guard` on `mutex` in every member function |
| `Table` (table.cpp) | `m_data`, `m_temporary_changes`, `m_mutex` | `lock`, `trylock`, `unlock`, `set`, `get`, `commit_changes`, `rollback_changes` | shared by all sessions; takes no lock itself |
| `ValueStack` (value_stack.cpp) | a vector of strings | `push`, `pop`, `get_top`, `is_empty` | private to a session |
| `Message`, `MessageSerialization` | type and arguments of one message | `encode`, `decode`, `is_valid`, the getters | the sessions and the client programs |
| client programs, scripts | a list of requests, the descriptor, the result | connect, write a request, take one read for the reply, give up at FAILED or ERROR, exit code | one connection per run |
| csapp | the read buffer `rio_t` | `rio_readlineb`, `rio_writen`, `open_clientfd`, `open_listenfd`, `Accept`, `Close` | sockets: bytes arrive in parts |

What is hard in it:

* **Interleavings.** Table mutexes are taken by SET and by GET, in ways that
  depend on two flags: the session's `in_transaction`, which no code ever sets to
  true and no constructor initialises, and the server's map of the same name,
  which BEGIN and COMMIT change. A SET may unlock twice; a GET in a transaction
  does not lock; COMMIT does not lock either.
* **Deadlock and liveness.** The server's mutex is held over the whole loop of a
  commit; `table->lock()` waits inside a transaction; `rollback_transaction`
  waits for a mutex it holds.
* **Failure.** Clients vanish anywhere, writes fail, and either can leave a
  transaction behind. Transactions belong to a descriptor *number*, which the
  next connection gets.
* **Byte streams.** A line can come in several reads and several lines in one; the
  longest line the server reads is one byte shorter than the longest message; the
  programs, unlike the server, take one read for a whole reply.
* **Text.** A quote that is not closed swallows a newline; quotes do not survive
  `encode`; a reply can be too long to be sent.
* **Numbers.** `int` overflow, `INT_MIN / -1`, text that `std::stoi` rejects in
  two different ways.

What makes each part correct: types and arguments of the handlers (`TypeOK`); a
mutex released by the request that took it (`LocksEndWithRequest`); writers that
exclude each other (`WritersExclude`); commits that find and hold what they work
on (`CommitFindsTables`, `RecordedLocksAreHeld`, `MutexHeldByCommitOrRollback`);
a SET that stores its value once, visible from then on (`ImplementsVisibleStore`);
requests that end (`RequestCompletes`), waits that are no cycle (`WaitsAreShort`); locks
that only a session closed in the middle of a request can leave behind
(`OnlyClosedSessionsKeepLocks`); transactions of which no other client reads a part
(`TransactionsStayHidden`); arithmetic that is that of `int`
(`AnswerIsCongruent`, `QuotientLeavesRemainder`, `OperandsAreConsumed`); messages
that mean the same on both sides (`MessagesRoundTrip`, `ValuesSurvive`, `DataFits`);
lines that are read whole and in order (`ReadsTheStream`, `HandledAsSent`) within
their buffer (`LineInProgress`); and for whole programs, `GetsWhatWasSet`,
`CountIsEarned`, `ExitZeroMeansServed` and `BothEnd`.

## 2. Modules

`ValueStack`, `Table`, `Server` and `ClientConnection` each extend the one above;
`SessionProperties` and `Clients` extend `ClientConnection`. `MessageCodec` and
`Rio` stand on their own; `Wire` composes them: it extends the codec and
instantiates the reader. Each module of proofs extends what it is about.

| module | models | how |
|---|---|---|
| `ValueStack` | value_stack.cpp, `handle_arithmetic_request` | Operators. A stack is a sequence with its top first. A text is an integer if it is the text of an `int`, and otherwise a member of `Word`, of which `NonNumeric`, `OutOfRange` and `StoiOf` say what `std::stoi` does. `Wrap` is two's complement: the Makefile compiles without optimisation. |
| `Table` | table.cpp | `m_data` and `m_temporary_changes` as functions from keys to values, and the holder of each mutex. Mutexes are the default ones: a thread that holds one waits for itself, and unlocking asks no owner. |
| `Server` | server.cpp, guard.h | The shared maps. A member function that cannot wait is one step, enabled when `mutex` is free (`Guard`). |
| `ClientConnection` | client_connection.cpp, the loops of server.cpp | `pc[c]` is where the thread of `c` is. One action per step between two points where another thread can interfere; handlers on the session alone are one action. Every way a session ends goes through `delete_connection`, the destructor that closes what is still open. |
| `SessionProperties` | - | Everything claimed about the sessions, and the refinement. |
| `VisibleStore` | - | The abstract store: writers ask for a write, each is applied once, and a table holds what was last SET. |
| `Clients` | get_value.cpp, set_value.cpp, incr_value.cpp | Connections whose requests come from a list and stop at the first failure. Its steps are those of `ClientConnection` with the client's choices fixed. |
| `ArithmeticProperties` | - | Arithmetic against its definition on the integers, one request per behaviour. |
| `MessageCodec` | message.cpp, message_serialization.cpp, `is_valid_username` | Pure operators. A text is a sequence of pieces, each the name of a type or one character (letter, mark, blank, quote, other), so that lengths are those of the code. What the code does in a loop over a text is a recursive function. `encode` yields no text, and `decode` yields `Invalid`, where the code throws `InvalidMessage`. |
| `CodecProperties` | `read_message`, PUSH, TOP, the program's side of TOP | One value on its way: a line is decoded, pushed, encoded as DATA, decoded by the client. |
| `Algorithms` | - | `ArithmeticProperties` and `CodecProperties` side by side: a behaviour takes one input for one of the two. |
| `Rio` | `rio_readlineb`, `rio_read` | The bytes on their way, in the buffer and in the caller's buffer; one action per refill (of any length the kernel likes), per byte copied, per end and per error. `EndOfLine` is the byte that ends a line; in `Wire` it is the codec's `Newline`. |
| `LineStream` | - | The abstract reader: a stream without buffers that gives out one line at a time. |
| `Wire` | the programs' loops, `open_clientfd`, `open_listenfd`, `read_message`, `send_message` | One program and its session over two byte streams. Writes and reads are cut anywhere; what a handler answers is any reply that `ClientConnection` lets it give (`Replies`). |
| `MCSessions`, `MCClients`, `MCAlgorithms`, `MCWire` | - | Values of the constants for TLC. |
| `SessionProofs`, `StoreProofs`, `FlagProofs` | - | Theorems about `SessionProperties`, section 5. `FlagProofs` has those for some values of the uninitialised flag. |
| `ClientsProofs` | - | Theorems about `Clients`; it uses `StoreProofs`. |
| `RioProofs` | - | Theorems about `Rio`. |
| `MessageProofs` | - | Lemmas about `MessageCodec`, for texts of any length. |
| `AlgorithmProofs`, `WireProofs` | - | Theorems about `Algorithms` and `Wire`; both use `MessageProofs`. |

Three choices that the whole model rests on:

* **The uninitialised flag.** `ClientConnection::in_transaction` is read by SET,
  by a GET that misses and by `handle_exception`, and is assigned only to false,
  where it is never reached. `Accept` picks it from `HeapBytes`: `zero`, `one`, or
  `junk`, a byte for which both `if (in_transaction)` and `if (!in_transaction)` are
  taken. Fresh memory gives `zero`.
* **Data races.** Maps of a table are used without its mutex. When two threads
  are at such an access at once (`Race`), the write may be lost, the read may miss
  an entry that is there, or the process may die (`Segfault`); `raced` remembers
  it. Properties about contents are claimed until then. A race cannot be the only
  reason that a property holds: `WritersExclude` and
  `OnlyTransactionalReadsRace` say when there are none.
* **What a step is.** `find_table` and `is_transaction_active` at the start of a GET
  are one step: tables are never removed, and the entry of a descriptor changes
  only through its own session.

## 3. Runs

Two connections are enough for every pair of actors (lock and unlock, reader
and writer, holder and waiter, old and new session of a descriptor); each makes
up to `MaxRequests` requests, which leaves room for a PUSH, a transaction around
an access, and a later access by the same session. Sessions are not reborn, so a
descriptor is reused once at most.

| run | what it asks | bounds |
|---|---|---|
| `fresh` | flag `zero`: no mutex is left locked, nothing is left uncommitted, no waits in a cycle, every request ends, and the server never stops while clients vanish by closing their connection (failing writes and SIGPIPE are left to `any_heap` and `session`) | 2 clients, 2 tables, a key whose FAILED reply is too long, 3 requests |
| `armed` | flag `one`: writers exclude each other, recorded tables stay locked, only transactional GETs race, no other GET reads a table of another client's transaction; with entries pending in transactions, the sessions still refine `VisibleStore` | 2 clients, 1 table with an old value, 2 values to push, 4 requests. A client that leaves in a transaction leaves its table locked for good: the server may stop, deadlock is not checked |
| `any_heap` | flags `zero` and `junk`, failing writes, replies that are too long, tables created on the way: what commit looks up exists, the mutex is where it should be, only a closed session leaves a table locked (23 states to the first that does), the sessions refine `VisibleStore` | 2 clients, 1 table, 2 values to push, 3 requests. Every session ends by a write that fails, mid-request or not; clients that close their connection between requests are in `fresh`, and unsupported requests, which close a session like a failing write, in `session`; `one` is left to `armed`. Deadlock is not checked, because of `rollback_transaction` |
| `session` | every request and every fault in one session, buffered requests that are read after an ERROR closed the descriptor included | 1 client, 2 keys, ints -3..2 and one text of each kind, 5 requests |
| `programs` | two workers run incr_value twice each, all without or all with `-t`; set_value then get_value, twice, on one table that is being created | 4 runs, 1 and 2 entries, flag `zero`; a client that is refused hangs up (`GiveUp`), none vanishes earlier |
| `algorithms` | every line of a word and up to five characters, through decode, the stack and encode; every stack of up to 3 operands, every operator. Side by side with it (`SequentialSpec`), every stream of two kinds of bytes, cut, ended and failing anywhere, through three calls of `rio_readlineb`. A behaviour takes one input for one of the three and stops | letter, mark, blank, tab, quote; messages of at most 10 characters, so that limits are met; 4-bit ints and three texts; caller's buffer 5, read buffer 2, so a line takes several refills and a long one is cut, 4 bytes on their way |
| `wire` | each program once, incr_value with and without -t, with values of every kind (`SetTexts`), against a server that may not be there | caller's buffer 7, read buffer 3, messages up to 20 characters: the longest request fills the session's buffer |

The programs' own buffers of 1024 bytes are never exceeded by a request of `wire`:
what happens with longer arguments is undefined in C++ and left out.

The runs named `doc_*` show where the code does something else than a document,
a comment or a script of the repository says. TLC's counterexamples, in short:

| run | statement | what happens |
|---|---|---|
| `doc_two_writers` | README.txt:17, no two changes of a table at once | SET unlocks at line 230 and again at 242. In between the other session's SET has locked the table; line 242 frees that mutex, and the first session's next SET locks the table while the other is still about to store |
| `doc_exception_ends` | server.cpp:153, nothing to roll back | flag `one`: the thread waits for the mutex it holds (server.cpp:152), and so does everybody |
| `doc_closed_session` | client_connection.cpp:143, ERROR closes the session | the closed session reads from a descriptor that is another client's now |
| `doc_increments` | incr_value_concurrent.sh:74-75, exact count with transactions | both transactions read the same value and commit |
| `doc_reasonable_count` | incr_value_concurrent.sh:63, at least half of the attempts without transactions | three runs per worker, all succeed, the count is 2: one worker's first run has read 0 and overwrites with 1 what the other's two have counted; the other's third reads that 1, and its 2 overwrites the first worker's 3 |

Other disagreements, which follow from the same handlers, have no run of their own:

* table.h:37-38 asks for the lock of a table around `set`, `get` and `commit_changes`. A GET
  after BEGIN takes no lock (client_connection.cpp:249-252): it can read while the SET of
  another session is about to store. With flag `zero` or `junk` a SET in a transaction
  unlocks its table at line 230 and leaves it recorded, and COMMIT calls
  `commit_changes` on it without the lock (server.cpp:139) and then unlocks it, whoever holds it.
* README.txt:27-28 has transactions so that their operations are done atomically. With flag
  `zero` a SET after BEGIN is committed at client_connection.cpp:228-229, before COMMIT: half
  a transaction is visible, and stays if the client vanishes then. `NothingLeftUncommitted`
  is the other side of it. With flag `one` `TransactionsStayHidden` holds.
* README.txt:23 says that transactions do not block; a SET in a transaction waits
  in `table->lock()` at client_connection.cpp:220. README.txt:28-30 relies on a
  lock order that nothing enforces: two transactions with flag `one` that SET two
  tables in opposite orders wait for each other.
* server.cpp:125 allows one transaction per client; a client gets the descriptor,
  and with it the transaction, of one that left.
* client_connection.cpp:143 says that ERROR closes; a PUSH of an empty text is
  answered with ERROR and the session goes on.
* message.h:40-41 and unit_tests.cpp:191-195 allow a message of 1024 bytes with its newline;
  client_connection.cpp:63 passes the size of a 1024-byte buffer to
  `rio_readlineb`, which keeps one byte for its terminator (`LineInProgress`): a
  message of 1024 bytes is cut and answered with ERROR.
* FAILED and ERROR carry a quoted text that the unit tests decode; `encode` writes no quotes,
  so `get_quoted_text` at the other end is its first word (`MessagesRoundTrip`).
* message.h:8 keeps NONE for uninitialised messages; a line whose first word is
  no type decodes to a valid message of type NONE, which `handle_request` rejects.
* server.cpp:37 expects `Open_listenfd` to return a negative number; it has ended the
  process then, with exit code 0 (csapp.c:1068-1069, `unix_error`).
* server_concurrency_trans_multiple_tables.sh:29-31 expects money to be conserved;
  two transfers lose updates the way `doc_increments` shows.

With two runs per worker the bound of incr_value_concurrent.sh:63 is met; with three it
is not, and that is what `doc_reasonable_count` runs: 6 runs without transactions. Workers
that do the same can change places there (`Alike`, the permutations that keep the order
of runs, as a symmetry set). What holds for any number of runs is `CountIsEarned`.

`doc_two_writers` has no BEGIN and no COMMIT: with them, a COMMIT that writes a table its
session has unlocked (server.cpp:139, above) would be the shorter counterexample.

## 4. Fairness

`FairSpec` has weak fairness of `Handle(c)` for each thread: what it does without
waiting for its client. It is what the operating system gives a runnable thread;
nothing is assumed of clients, and a thread that waits for a mutex is not
promised it (a handler waits while others take the mutex, but these have a
bounded number of requests left). Under it `RequestCompletes` fails only by a
deadlock or by a mutex that is never given back.

`WireSpec` has weak fairness of the program's and of the server's steps: both
processes run, and bytes that were written arrive. A read that fails
(`ReadFails`) is not among the steps that fairness promises, because a read with
nothing to return waits; so `BothEnd` does not hold because reads fail sooner or
later, but because either end notices when the other has ended.

## 5. Proofs

`ValueStack` to `ClientConnection`, `MessageCodec` and `Rio` declare what their
constants may be (`ValueAssumption`, `TableAssumption`, `ServerAssumption`,
`ClientConnectionAssumption`, `CodecAssumption`, `RioAssumption`): any `int` width,
any sets of names, keys, connections and descriptors, any requests and faults, any
buffer sizes, any characters in each class and any length limit.
`OperandsAssumption` (operands are ints or texts) and `LinesAssumption` (lines are
texts) only give types. The theorems hold for all, and use nothing else unless
stated. `WireAssumption` says more; it is discussed with the wire below.

* `TypeCorrect` (SessionProofs): `Spec => []TypeOK`. `TypeOK` is inductive as it
  stands because `HandlersHaveArguments` is part of it: that a SET that reaches
  `stack.pop()` has a value there follows from the check two lock operations
  earlier. The proof has one lemma per action, and under it the four parts of
  `TypeOK`; lemmas about the arithmetic show that results are ints (`WrapIsInt`,
  `ComputeIsInt`, `ArithResultIsStack`), about `send_message`, `Leave` and `Within`
  what all handlers share.
* `CommitIsAtomic`, `CommitIsSafe` (SessionProofs): `MutexHeldByCommitOrRollback` and
  `CommitFindsTables`. Each is inductive together with `TypeOK`. The proof sums up every
  action once in `Footprint` - how the mutex, the recorded names and the descriptors
  move - and derives the two from the summary, and with them that no two open sessions
  have one descriptor (`DescriptorsAreDistinct`), which later proofs use. The untested
  iterator of server.cpp:141 is valid for the reason stated in `KeepsNames`: names
  are recorded after the table was found, and tables are never removed, so even
  names inherited with a descriptor are those of tables.
* `SessionsImplementStore` (StoreProofs): `Spec => ImplementsVisibleStore`, for any
  heap and any faults. The store's state is what a GET would see (`Visible`) and
  what each SET has asked for; the lemmas say that committing overlays entries
  that were visible already, so `commit_changes` is a stutter, that only `set_store`
  writes, and that a SET past its checks stores exactly the value on top of its
  stack. The invariant needed is `TypeOK` together with `CommitFindsTables`.
* `FreshLocksEnd`, `FreshCommits` (FlagProofs): `LocksEndWithRequest` and
  `NothingLeftUncommitted` of sessions whose flag is `zero` (`FreshSessions`).
  `LocksEndWithRequest` is not inductive: a SET unlocks twice, so one must know that
  nobody can take the mutex in between unless its own session sees no transaction;
  `LockInv` adds that flags are zero, that threads inside a handler still have
  their descriptor, and that a GET is in its unlocked part exactly if its session
  is in a transaction. It needs clients that wait for their replies and send no
  unsupported request (`PoliteClients`): otherwise a handler can run on a
  descriptor that is closed or another session's. `EntryInv` needs no such clients.
* `OpenSessionsUnlock` (FlagProofs): `OnlyClosedSessionsKeepLocks` of sessions whose flag reads
  false (`FalseSessions`: `zero` or `junk`), for any requests and any faults, so without
  `PoliteClients`. What is to show is that a GET unlocks exactly if it has locked,
  although it asks for the transaction anew each time: `TransactionsReadUnlocked`, part of
  `KeepInv`, says so of every session that is not closed, a transaction inherited with the
  descriptor included, because only a session's own BEGIN and COMMIT change the entry of
  an open descriptor. A closed one asks under -1, an entry that others change, and may
  not unlock; that is the exception in the statement, and `any_heap` reaches it.
* `FreshWaitsAreShort` (FlagProofs): `WaitsAreShort`, the absence of deadlock, as an
  invariant. `WaitsFor` says which mutex each label needs and who has it. The order of the
  mutexes is a fact about labels, not one that the code states: the loop of a commit
  holds the server's mutex and waits for nobody, as `commit_unlock` only releases; a
  thread that has a table locked can only wait for the server's mutex (its next
  lookup), so for a commit; and everybody else waits for one of the two. `LockInv` is
  what this needs: with it, who holds a table's mutex is inside the handler that locked it,
  and nobody reaches `rollback_transaction`, the one place that waits for itself. README.txt:28-30
  asks for an order in which tables are locked; with fresh memory none is needed,
  since no SET ends with its table locked. With flag `one` a transaction keeps its tables
  locked, and the statement is false: two of them can wait for each other (section 3).
* `ArmedWritersExclude`, `ArmedReads`, `ArmedRecords`, `ArmedHides` (FlagProofs):
  `WritersExclude`, `OnlyTransactionalReadsRace`, `RecordedLocksAreHeld` and
  `TransactionsStayHidden` of sessions whose flag is `one` (`ArmedSessions`), for any number of clients, tables
  and requests, again with `PoliteClients`. None is inductive: that two SETs do not
  write one table depends on why its mutex is taken, and the mutex does not say who
  took it. `ArmedInv` adds the missing owner: `LockedFor(client, t)` holds if a
  thread of the client is in a part of a handler that has `t` locked, or its
  transaction has recorded `t` and the loop of its commit has not unlocked it yet.
  `OneOwner` says that this is so for at most one client, and only while the mutex is
  taken; `AllInPlace` says which labels such sessions reach, and with what. Every
  action is summed up once (`ArmedEffect`): a session changes only what is locked
  for its own client, locks only what was free, and frees only what it owned. What
  `ArmedHides` needs besides is `LoopsApart`: a COMMIT unlocks one table after the other, so
  that a GET may have one of them locked while the transaction is still active; it does
  not come to its read then, because the lookup before it waits for the server's mutex.
* `ClientsAreSessions` (ClientsProofs): `ClientsSpec => Spec`. The client programs are
  sessions whose client's choices are fixed, so all of the above holds of them.
* `GetFindsWhatWasSet` (ClientsProofs): `GetsWhatWasSet`, for any programs, any number of
  runs, any heap and any faults. The invariant is `RunInv`. It follows a run through
  its list: `SetterInPlace` says that the value is on the stack when the SET is read, and
  is stored (`Stored`) from `set_store` on, or else the reply is a refusal or lost;
  `GetterInPlace` says that a run that starts later passes every check, reads the entry
  and keeps it on its stack. Between the two lies that the entry stays what it was:
  nobody else's list sets it (`RunsInPlace` relates a SET under way to the list), and
  commits change nothing that is visible, the summary `StoreEffect` of StoreProofs.
  It is claimed until two threads have raced, as everything about contents is.
* `IncrementsAreCounted` (ClientsProofs): `CountIsEarned`, for any number of runs up to
  `IntMax` (`FewRuns`; more would wrap the count), any mix of runs with and without `-t`, any
  heap and faults. `Attempted` is the set of runs whose SET has been read. The invariant
  `IncrementInPlace` bounds what a run has on its stack by the size of that set: a GET reads at
  most as many as have been attempted, ADD makes one more than that, and by the time
  the value can be stored the run itself is attempted, so that the bound holds again
  (`SetIsTry`, `TriesGrow`). So a stale value can lose increments but not invent them. That
  a count once there never goes back to 0 is the other half: every value a SET has in hand is
  at least 1.
* `LineStaysInProgress`, `RioTypes`, `ReaderReadsStream` (RioProofs): the buffered
  reader implements `LineStream`. The abstract input is the three places of a byte
  joined; copying and refilling move bytes between them and are stutters, and the
  byte that ends a line makes the abstract read. `LineInProgress` is what shows
  that the line returned ends at its first newline or at the limit.

* `ArithmeticWraps`, `DivisionRoundsToZero`, `ArithmeticConsumes` (AlgorithmProofs):
  `AnswerIsCongruent`, `QuotientLeavesRemainder` and `OperandsAreConsumed` for ints of
  any width and stacks of any depth. The invariant is `Answered`: the result is that
  of `ArithResult` for the request on the stack it found. What is to prove then is
  about numbers: that `Wrap` moves by one multiple of the number of ints (`WrapIsCongruent`),
  that the quotient of magnitudes, with its sign put back, leaves the remainder C++ asks
  for (`DivisionTruncates`), and, case by case, how far each outcome has popped.
* `PlainMessagesRoundTrip`, `OnlyPlainValuesSurvive`, `DataAlwaysFits`
  (AlgorithmProofs): `MessagesRoundTrip`, `ValuesSurvive` and `DataFits` for lines of any
  length and any characters. The invariant, `Converted`, says of each stage of a value
  which conversions produced it; it must also say that the line is a text, as the
  lemmas are about texts. These are in MessageProofs: what `operator>>` extracts
  (`WordsStep`, `WordsAreWords`, `WordsApart`), where the first word and the first quote
  end, what the arguments of a spelled message are (`ArgumentsComeBack`), and that a
  decoded argument is shorter than its line by more than `encode` adds for DATA
  (`ArgumentIsShorter`, `ValueFits`).
  Induction over a text is needed everywhere there. The library's induction theorems
  take a predicate as a parameter, which the provers cannot instantiate;
  `Induction` states it of a *set* of numbers instead (0 is in it, and the successor of
  each), which follows from `WFMin` on `<`. A proof by induction defines the set of
  lengths for which its statement holds. The conversions are recursive *functions*
  on the length of the prefix for the same reason: their defining equations
  (`LengthUpToDef`, `WordsUpToDef`, `JoinedUpToDef`) can be proved.
* `RequestsAreHandledAsSent` (WireProofs): `HandledAsSent`. The invariant is `WireInv`;
  its core, `Written`, says that the bytes in the caller's buffer, in the session's and on
  their way, put together, are cut by newlines into exactly the requests that were
  written and not yet read (`CutsInto`). Reads and refills only move bytes between the
  three places; `rio_readlineb` returns the first of these lines because no line fills its
  buffer. `OneAtATime` says that a line is handled before another is read, and that
  nothing is read after an end or an error.
* `ExitZeroIsServed` (WireProofs): `ExitZeroMeansServed`. A program takes whatever one
  `read` returns for the reply to the request it is at, so one must know what can be on
  its way to it. `RepliesInTurn` says: nothing, or the reply to the current request and to no
  other, except that a session whose read failed adds one ERROR, before which the
  program may already be one request further or not. A part of a reply is never taken
  for a success by mistake, since a text that decodes ends with a newline and a
  reply has none before its end; two replies taken as one are an OK followed by
  ERROR, and the request was served. The exception is DATA with the newline of an
  unclosed quote, of which a read can leave the second newline: the value is whole
  then, but BYE finds what is not the reply to it. For BYE it is enough that nothing
  that is on its way contains a DATA, which would change what is printed; TOP is the
  request before it.
  `WireAssumption` is what this rests on. Requests are shorter than the buffers: the
  programs `strcpy` them into 1024 bytes (set_value.cpp:31, get_value.cpp:40,
  incr_value.cpp:31), which is the size of the session's (client_connection.cpp:63), and what
  longer ones do is undefined. Their arguments contain no newline. TOP occurs only
  before BYE, as in get_value. A value that TOP finds contains no quote: with
  quotes, what is printed is not what was found (section 3, and `ValuesSurvive`).
  Its only newline can be the one that an unclosed quote took in.

Only model-checked:

* `BothEnd` and `RequestCompletes`: liveness, which the prover does not handle under
  fairness.
* the counterexamples of the `doc_*` runs.

## 6. Not modelled

* Requests that do not fit the programs' buffers, replies of exactly 1024 bytes
  (set_value.cpp:45), arguments that contain newlines, bytes 0 inside a line.
* The rest of `rollback_transaction` (server.cpp:157-165) and what follows it in
  `handle_exception` when the flag reads true: never reached, the thread waits at
  line 152. `rollback_changes` is called nowhere else, `has_key` nowhere.
* `catch (...)` of `handle_set_request` (lines 233-239): nothing in its block throws
  once the stack has a value and the table exists.
* Exhaustion of memory or descriptors, `exit` in the csapp wrappers other than that
  of `Open_listenfd`, signals other than SIGPIPE.
* The parts of csapp that the program does not call, and `ref_*` binaries.

## 7. Plan

What is done is described above. What is left, in order of worth:

1. The worker scripts with three tables, as lists of `Clients`.
2. What a GET *inside* a transaction with flag `one` can see of another transaction.
3. The general lower bound of the count: with two or more workers of two or more
   runs each, two, for which one would have to follow the last run of each worker.
