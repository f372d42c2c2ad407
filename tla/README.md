# WCNH: TLA+ models and proofs

WCNH is a MUSH game: a PennMUSH server in C, whose softcode calls game systems
written in Ruby through PennJSON, a remote procedure call protocol over a socket
pair. This directory holds TLA+ models of the code, TLC configurations that
check them on small instances, and TLAPS proofs of what holds for every value of
the constants. File names below are relative to the repository's root
(`PROJECT.json` gives the lines every definition stands for, with the prefix
`src/`).

## The system

| Component | Where | State | Operations |
|---|---|---|---|
| PennJSON client | `src/json/server.c`, `launch.c`, message level of `json.c` | `JSON_Server` (fd, protocol state, `in_buf`, encoder), `JSON_Server_Context` (current frame, depth, soliciting), and the C stack | `rpc()`, `@rpc START/STOP`, `json_server_setfd`, `json_server_issetfd`, dispatch of requests and answers |
| lexer, parser, pool | `src/json/json.c` | lexer offsets, parser state, seen parts, reference-counted receive buffers | `lexer_prescan`, the YAJL callbacks, `alloc_json_*`, `release_json_pool` |
| event loop | `src/bsd.c`, `shovechars()` | descriptor sets | `process_commands`, `select`, `do_top` |
| conversation server | `game/ruby/lib/pennmush-json*.rb` | `@@depth`, `@@soliciting`, `@context`, the wakeup pipe, the Ruby stack | `run`, `dispatch_method`, `remote_invoke`, `rpc.ack`, `invoke_later` |
| callback queue | `game/ruby/lib/pennmush-json-queue.rb` | ring buffer with head and tail | `queue`, `dequeue`, `empty?` |
| object registry | `game/ruby/lib/pennmush-json.rb` | registered objects, `@@expected_name` | `register_object`, `resolve_object` |
| game systems | `systems/lib`, called through `systems/remote` | MongoDB documents, attributes of game objects | economy, cargo jobs, contracts, ship races, comms, boards, calendar, items, XP, ... |
| command queue | `src/cque.c`, `src/timer.c` | the player, object, wait and semaphore queues, the process table, the QUEUE counters and the semaphores' attributes | `@wait`, `@notify`, `@drain`, `@halt`, `@restart`, `queue_event`, `do_second`, `do_top` |
| game server | the rest of `src/` | object database, mail, chat | softcode interpreter and commands (PennMUSH, upstream) |

How they interact. Softcode calls `rpc()`. PennMUSH sends a request and blocks in
`json_server_dispatch()`; Ruby runs the method, which may call functions of
PennMUSH in turn, which may call `rpc()` again: two stacks, one on each side, over one
pipe, with one global context frame in PennMUSH and one in Ruby. All transactions
start in PennMUSH. A Ruby thread that wants one queues a block (`invoke_later`)
and wakes the event loop through a pipe; the loop sends `rpc.req`; PennMUSH notes
it, wherever it happens to read it, and answers `rpc.ack` from its own event loop
when nothing else is in progress; `rpc.ack` runs one block.

What is hard here:

* `rpc.req` crosses requests on the wire and is read at any depth, from the
  socket or from what an earlier `read()` left in `in_buf`;
* the server may be stopped and launched again *under* unfinished calls;
* the Ruby process may die at any point, a launch may fail at any point;
* the descriptor set of `select()` is used after softcode ran;
* threads of the Ruby process queue callbacks while the loop decides to wait;
* a command of a game system saves several documents and attributes, one by one,
  without transactions; the functions it calls in between can run softcode, and so
  other commands, which read and save the same;
* the command queue keeps two counters beside its lists, and its functions call each
  other: an entry that is refused halts its executor.

The correctness of the parts: for the client and the conversation server, that the
two stacks, contexts and solicitation flags are two views of one thing, that
recursion is bounded, that every transaction ends and every callback runs; for the
queue, that it is a bounded FIFO; for the parser, that every object is accepted,
refused or ignored as `src/json/README.txt` says, wherever `read()` cuts it; for
the game systems, that money and cargo are conserved and a job is paid once; for the
command queue, that no entry is lost or stands in two queues, that its counters are
good for what they limit, and that what can run does run in the end.
`PROJECT.json` lists the hazards with their lines.

## The modules

| Module | Models |
|---|---|
| `JsonWire` | the socket pair, whole messages in each direction |
| `JsonClient` | PennMUSH's side inside its event loop |
| `Conversation` | the Ruby process |
| `PennJSON` | both joined, fairness, and all properties |
| `MCPennJSON` | TLC's instance of it |
| `PennJSON_proofs` | theorems about it: types, contexts and wakeups; turns, nesting and notifications |
| `CallbackQueue`, `BoundedFifo` | `PennJSON_Queue` and what it promises |
| `MCCallbackQueue` | the constructor's size and TLC's instance |
| `CallbackQueue_proofs` | theorems about it |
| `JsonParser` | the YAJL callbacks of `json.c` and the verdict on a message |
| `JsonParser_proofs` | theorems about it |
| `JsonReceive`, `MCJsonReceive` | the lexer and the buffer pool of `json.c`, and TLC's instance |
| `JsonReceive_proofs` | theorems about the pool and about the stream |
| `CommandQueue` | `cque.c` |
| `CommandQueue_proofs` | theorems about its queues, their order, and its counters |
| `Wallets`, `Accounts`, `CargoJobs`, `ShipRaces` | the parts of the economy |
| `Economy`, `MCEconomy` | all of them, with failures and the end of the process, and TLC's instance |
| `Economy_proofs` | theorems about its books and its money |
| `CargoJobs_proofs` | theorems about its jobs and holds |
| `FoldTheorems` | lemmas about folds and sums that the proofs of the economy, the command queue and the lexer share |

### JsonClient

`phase` is the position in `shovechars()`; on top of it `cstack` is the C stack of
unfinished calls: `rpc` and `ack` frames are blocked in `json_server_dispatch()`,
`penn` frames run a function in `json_server_penn_call()`. An `rpc` frame saves
`info->current` (the `old_frame` of `fun_json_rpc`). The other variables are the
fields of the C structures. Softcode is any sequence of `rpc()` calls: at the top
level in the phases of `CallPhases`, and under every `penn` frame.

| Action | Code |
|---|---|
| `Rpc`, `RpcStarts`, `RpcStartFails`, `RpcFails` | `fun_json_rpc` up to `json_server_dispatch`, by what `json_server_penn_start` and the sending do |
| `DispatchCall`, `DispatchRefused`, `DispatchSolicit`, `DispatchReply`, `DispatchEof`, `DispatchRefusedFails` | one round of the loop of `json_server_dispatch`, with what follows it in the caller when it returns |
| `PennReply`, `PennReplyFails`, `PennReplyCrash` | `json_server_penn_call` after the function |
| `SetFd*`, `IsSetFd*` | `json_server_setfd`, `json_server_execute_callback`, `json_server_issetfd` |
| `EndCommands`, `Select`, `EndQueue` | the event loop |
| `AdminStart`, `AdminStartFails`, `AdminStop` | `@rpc`; a shutdown or reboot stops too |

A failing call (`Unwind`) stops the server, pops the frame and restores the context
in one step, as the `failed:` label falls through to `success:`. `base` is a history
variable: how many frames are older than the process PennMUSH is connected to.

### Conversation

`pc` is the position in `run`, `rstack` the calls in progress, whose number is
`@@depth`. A method is any sequence of remote calls and `invoke_later` calls that
ends in a return or a raise; both unwind the same way and send one answer.
`StartTransaction` and `RecursiveCall` are `dispatch_method` called from the loop
and from `remote_invoke`. `ThreadQueues` and `ThreadWakes` are the two halves of
`invoke_later` in another thread.

### PennJSON

Either process moves at any time. `Follow` ties the Ruby process to the
descriptor: a new one is a fresh process, a closed one is forgotten (the old process
reads end of file and exits; nothing it still does reaches anybody). `Crash` ends
the Ruby process at any point.

### CallbackQueue

One action per method and outcome; every method holds the mutex throughout. The
refinement maps head, tail and slots to the sequence of queued blocks.

### JsonParser

One action per YAJL callback (`handle_boolean` and `handle_double`, which are the
same code, are `HandleOther`); its first conjunct, `Note`, `Open` or `Close`, is the
well-formed document that YAJL reads, its rest what the callback does. The end of
the root object is also the end of `json_server_receive()`, which passes `Verdict`.
`NextMessage` begins another message with what `json_server_message_clear()` and a
new connection reset, and with everything else as the last message left it. The
module stands beside `PennJSON` and not under it: there a message is whole and well
formed, here is what one object becomes.

### JsonReceive

The third view of `json_server_receive()`: bytes. `toPenn` is the socket, `in_buf`,
`in_off` and `lex` the fields of `JSON_Server`, and `msgs` the messages on the C
stack, each with the buffer that holds its strings. `Read` and `MoreOfBuffer` are one
round of the loop, with the whole of `lexer_prescan()` in `Prescan`; YAJL is told the
bytes up to `lex_off` and is ready exactly at the end of an object. `StoreString` and
`NoPool` are `alloc_json_alloc()` by what `malloc()` does, which may hand out any
address that is not in use, one that was freed included. `Call` is `rpc()`, at the
top level and under a request that is served, and starts a server when there is none;
what then is left in the old pool stays there until its messages are cleared. `due`
and `fed` are the reference: which objects were sent and how much of them was parsed.
`IsObject` says what an object is without a lexer: a byte is escaped if an odd number of
backslashes is right before it, quoted if an odd number of quotes that are not escaped is
before it, and the braces that are not quoted balance at the last byte and not before.

### CommandQueue

The functions of `cque.c` call each other (`insert_que` → `pay_queue` → `do_halt`), so
they are operators on one record, `q`, of all that the file keeps, and an action is a
command: `Effect` of such an operator. `cur` is the entry `do_top()` has taken off the
queue and executes; the commands it gives are those of `Command`, in any number and
order, which players can give as well. A due time is counted from `mudtime`: `NoTime`
is `wait_until` 0, 0 has come, 1 is a second off.

| Action | Code |
|---|---|
| `Queue`, `QueueEvent` | `new_queue_actionlist` with `insert_que`, `queue_event` |
| `Wait`, `WaitSemaphore`, `WaitSemaphoreNoTime`, `WaitUnpaid` | `do_wait` with `wait_que`, by the kind of wait |
| `WaitPid`, `HaltPid` | `do_waitpid`, `do_haltpid` |
| `Notify`, `NotifyWaiting`, `NotifyAll`, `Drain`, `DrainAll` | `dequeue_semaphores`, `execute_one_semaphore` |
| `Halt`, `HaltCommand`, `Restart` | `do_halt1`, `do_restart_com` |
| `OnEverySecond` | `on_every_second` with `do_second` |
| `DoTop`, `EndEntry` | `do_top` with `do_entry`, and the end of the action list |
| `Reboot` | `shutdown_queues`, and `init_queue` of the next process |

Behaviour is undefined in two places, and `q.ub` is set there and nothing follows:
`@halt/pid` of an entry that was woken from a semaphore frees it where it stands,
since `semaphore_attr` is still set (`src/cque.c:2189`); and `do_halt()` reads the owner
of `db[-1]` when an entry of the wait queue was halted by pid (line 2064), which may
happen to be the victim. The properties are about every state before.

### The economy

A command is one RPC. Ruby runs one at a time, but where a command calls a function
of PennMUSH that evaluates softcode (`R.u`, `R.nspemit`, `R.remit`, and `R.cemit` in
`Logs.log_syslog`), that softcode may call `rpc()` and run other commands within it.
`calls` is the stack of commands in progress. A frame is a command at one of those
points (`Softcode`) or between two saves, with what it has read and will use: `cash`
is the wallet's balance as the command knows it, and `Save` writes what it computes
from it; a balance that comes out as it was read is not written. A command is split into actions exactly at these points, and checks and
reads whatever the code reads between two of them in one action.

Some commands need a note. `Load` has the comparison of `cargojobs.rb:131`, which is an
assignment, as it is: any player passes it, and becomes the assignee when the job is
saved (`took`). `PutDown` is softcode (`systems/softcode/econ/mortal.mush:26-35`): it checks with one
RPC and takes the money with another, `grant` of a negative amount. `RunRace` reads
the wagers and the bank before it announces the race, and `LoadWinners` the tickets of the
victor after that, since the relation is loaded when it is first used (`lib-shiprace.rb:162`).
`ChangeOwner` writes the owner and the list of those with access each only if it differs from what
was read.

`Economy` joins the four modules over one stack, and adds `Abort` (an exception ends the
innermost command, and softcode goes on with an error) and `Crash` (the Ruby process
ends). Nothing is rolled back by either. History variables tell what the properties
must allow: `issued` is the money that was ever granted, or `Unknown` once some was
lost or made; `overdrawn` are the players who put down more than they had;
`disturbed` are the jobs of which a cargo command failed half-way or two overlapped,
`repeated` those of which a delivery was begun within another or failed after it had paid, and
`paid` counts payments of a job that is not repeated.

## The abstractions

* In `PennJSON` messages are whole objects. Results and errors are one kind, `reply`. Arguments
  and results are not kept; the context is a player, God (callbacks) or nobody.
* In `PennJSON` a `read()` returns one or more of the objects available; partial
  objects are the lexer's, in `JsonReceive`.
* Writes are atomic and fail exactly when the other end is closed (SIGPIPE is
  ignored, `src/bsd.c`; socket buffers are larger than what one side may have
  in flight, one request or answer and one `rpc.req`).
* `read()` is not interrupted (handlers are installed with SA_RESTART, `src/sig.c`)
  and the EINTR exit of `select()`, which skips the rest of the round, is left out.
* The REQ states of the generator are one: whichever was reached when a write
  failed, only `json_server_start` leaves it.
* Out-of-memory exits are left out, and so are the child's exits between `fork()`
  and `exec()`, which PennMUSH sees as a process that died (`Crash`).
* In `JsonParser` a value is its type and a key one of the tokens, any other key
  (`other`) or the empty key (`empty`, in one run). `find_token()` takes every proper
  prefix of a token for it, as "res" for "result"; the empty key stands for these. A string that cannot be stored is
  a choice of the run. What one message holds is remembered only as far as the
  grammar knows it. Members of `context` are ignored, as
  `json_server_context_callback()` does in this commit. Invalid JSON is YAJL's to
  refuse and is not generated.
* A launch that fails at `fork()` and one that fails at `socketpair()` leave the
  same state.
* `remote_invoke` beyond MAX_DEPTH, and `invoke_later` on a full queue, raise
  inside the method and change nothing: they are no step.
* In `JsonReceive` a byte is one of the five that the lexer tells apart, Ruby's
  encoder writes nothing between objects, and the input is JSON: what is not is YAJL's to
  refuse. How strings lie within a buffer, and its growth by `realloc()`, are left out.
* In `CommandQueue` there is one player with things, and one semaphore. Money is left
  out but for `WaitUnpaid`: a command that cannot be paid is as if it had not been
  given, except that a semaphore has counted it. Inplace entries never enter a queue. CPU limits,
  ports, `HugeQueue` and `@allrestart` (which runs `do_top()` within a command) are
  left out. Two moments in the past are one. A command is one step, although the
  entry that gives it may give many.
* In the economy permissions that depend on the game's world (rooms, crews, skills,
  factions) may go either way. All jobs have one size and price and a publicity (the
  path with more steps). A person has one ticket, odds are whole numbers and winners
  any of the bettors. The chips of `put down` are outside the ledger: picking one up
  is a `grant`. Of the list of a ship only how often it names a job is kept, not in which
  order. MongoDB saves the fields that changed, each with an absolute value. The least
  wager is any positive amount.
* The bounds of `Economy` (`Bounded`, and the depth) cut behaviours in a run, and are
  parameters of the theorems. A sum on board goes `MaxDeficit` below zero, which a delivery
  repeated or failed brings about, and the lists of all ships hold `MaxListed` jobs.
* The depth of a running method is odd and so is MAX_DEPTH (5), hence the check in
  `remote_invoke` is the one that refuses; the run `returns` uses 4, where the
  check in `dispatch_method` does.

## The runs

| Run | Instance | Shows |
|---|---|---|
| `safety` | 2 players, 4 `rpc()` calls, 3 remote calls, 2 callbacks, 3 launches that may fail, 1 death of Ruby, MAX_DEPTH 5 | the ten invariants below (940,000 states) |
| `liveness` | 1 player, 2 calls, 2 callbacks, 2 launches, 1 death; `rpc()` from `process_commands()` only | `SolicitationAcknowledged`, `CallbackRuns` |
| `returns` | 1 player, 3 calls, launches that may fail, 1 death; `rpc()` everywhere; MAX_DEPTH 4 | `RpcReturns` |
| `freeze` | as `liveness`, with `rpc()` from `do_top()` and without deaths | a violation, see Findings |
| `encoder` | as `safety` | a violation, see Findings |
| `callback_queue` | a size hint of 3, three blocks | type, occupancy, refinement of the FIFO |
| `parser` | all tokens and an unknown key, 4 levels, 3 known members in any order, memory that may run out | the six invariants below (2.3 million states) |
| `parser_keys` | four keys, among them the empty one | a violation, see Findings |
| `command_queue` | a player and a thing, 2 pids, a quota of 2, waits of a second, both settings of `owner_queues` | the six properties below (99,000 states) |
| `economy` | ten small worlds of players, wizards, an account, jobs, ships and the bank of the races; commands two deep; balances up to 2, two jobs on the lists, a sum one below zero | the four invariants below (1.7 million states) |
| `on_hand` | the world of two players with money | a violation, see Findings |
| `receive` | three objects with braces, quotes and backslashes in strings, a buffer of 7 bytes, 2 objects on the way, messages three deep, 3 pools, 3 buffers | the two invariants below (254,000 states) |

The invariants of `safety`:

* `TurnTaking`: exactly one of PennMUSH, Ruby and a message in flight holds the
  turn. This is why Ruby's parser never reports "Protocol violation." and why the
  sides never wait for each other within a transaction.
* `OneNotification`: Ruby waits for an acknowledgement exactly when its `rpc.req`
  is in flight, noted or buffered, or the `rpc.ack` is in flight or running.
* `NestingAgrees`: the stacks match frame by frame, and an answer in flight is the
  answer to the innermost call of its reader.
* `ContextRestored`, `ContextShown`: a function runs in the context of its call,
  and Ruby's context is PennMUSH's.
* `TopLevelBalanced`: nothing is left open between transactions and depth is 0.
* `RecursionBounded`: MAX_DEPTH bounds both stacks.
* `StrayOnlyAfterRestart`: an answer nobody asked for (Ruby panics on it) reaches
  Ruby only when the server was replaced under the call it answers.
* `NoLostWakeup`: Ruby never waits in `select()` on a callback nobody will announce.
* `TypeOK`.

The invariants of `parser`:

* `NestingTracked`: the parser is in the part of the message it believes to be in,
  and the key it looks at is that of the value it is given.
* `ConformingAccepted`: a request, result or error of the grammar is received as
  that, whatever unknown members stand among its own.
* `AcceptedConforms`: nothing else is received.
* `BodyStored`: the string handed on was stored by this message under the key of its
  type; the comments "must exist" in the code rely on it.
* `LocalErrorAnswered`: a local error has the type of a request, and so is answered,
  exactly if the message has a member of a request.
* `TypeOK`.

The properties of `command_queue`:

* `EntriesAccounted`: the process table holds exactly what is queued or executing, each
  in one queue once; a pid is never given out twice, and no queue holds a freed entry.
* `WaitersCounted`: while anyone waits on the semaphore, its attribute counts all of
  them, so that a new `@wait` never overtakes them by finding it free.
* `QuotaSound`: no counter exceeds QUEUE_QUOTA, and no counter falls behind the live
  entries it stands for, so the quota is one. (When objects count for themselves,
  `@halt` of the player debits his counter for all of them; theirs and the sum stay good.)
* `WaitSorted`: the wait queue is in the order of time, on which `do_second()` relies.
* `InSemaphoreOrder`: waiters without a timeout are woken in the order they came, by
  numbers, all at once and one by one, and queued in that order.
* `EntriesMoveOn`: nothing stays on a run queue for ever, the objects' queue included, and
  a wait for a time ends unless `@wait/pid` puts it off again and again.

The invariants of `economy`:

* `NoOverdraft`: no wallet and no account falls below zero, though commands save balances
  they read before others changed them. Exempt are wizards, whom the code lets spend
  what they do not have, the bank of the races, and who used `put down`, which can overdraw.
  It does not say that nobody spends a credit twice. That is `SpentIsOnHand`, what the help
  promises, and the code breaks it (`on_hand`).
* `MoneyConserved`: what was granted and not put down is the sum of wallets, accounts,
  wagers and what commands in progress hold, unless a balance was saved over one that
  had changed, a command ended between two saves, or a ticket was bought during the race.
  In these three ways the code does lose and make money, and the property shows that there is
  no fourth.
* `JobPaidOnce`: a job is paid once, whatever loads and transfers of it overlap or fail and when
  its time ends, unless its delivery failed after the payment or was begun again within itself.
* `HoldAccounted`: CUR never exceeds MAX, however commands overlap and fail. As long as no two
  cargo commands on one job overlapped and none failed half-way, what a ship lists fits into it
  at any time, and when no command is in progress the list on board, the sum on board and the jobs
  agree. After such a failure a ship can list more than fits: a delivery that fails before it
  saves the job is repeated, takes the size off CUR twice, and the room it leaves is not there.
  The instance reaches these states, and no document promises otherwise.

The invariants of `receive`:

* `ObjectsCut`: YAJL gets one object at a time up to its last byte, and what is in the
  buffer and in the socket is exactly the rest of what was sent.
* `BuffersHeld`: the buffer of a message is its own and allocated until the message is
  cleared; every reference count is right, nothing is freed twice and nothing is lost.

Bounds. Three remote calls and three `rpc()` calls reach MAX_DEPTH, the fourth
call begins a second transaction; three launches replace the server twice, also
within one transaction; two callbacks leave one in the queue while
the other is acknowledged, and in `returns`, with a capacity of 1, fill it. Counters that only bound a run (`calls`,
`starts`, `invokes`, `posts`, `crashes`) stand in guards of the actions of
softcode, methods and the environment, never of those of the protocol. Deadlock is
not checked in the PennJSON runs: when the bounds are used up Ruby waits, and after a
null dereference PennMUSH has stopped. For the queue 4 slots and 3 blocks take head and tail
around the end several times in every order. For the parser 4 levels are two
below a part of the message (one that is counted and one that is not), 3 members are
an error with its code and message, or a request with a parameter, and leave room
for a repeated, misplaced or foreign member; the number of messages and of unknown
members is not bounded. For the command queue two pids and a quota of 2 fill the
process table and meet the quota, in both settings of the option; counters may drift by
one (`MaxDrift`), which is one refused wait or one notify too many. For the economy, commands two deep are a
command and another that runs at any point within it; every pair of commands meets in
one of the worlds, each of which is as small as the pair needs; a hold of one job makes
room an issue, and two jobs on lists and a sum below zero are enough to overload a ship after a
delivery that failed. For the lexer 7 bytes of buffer hold an object and part of the next, and
`read()` returns any number of them; every start and stop happens under up to three messages,
and three addresses of pools are one more than can be in use before one must be freed.

Fairness (`FairSpec`). PennMUSH is one thread and runs whenever it is not blocked in
`read()`: its steps are weakly fair together, except those softcode chooses (`rpc()`,
`@rpc`). So is Ruby's dispatch thread, except for the calls a method chooses to
make: a method must return in the end. A thread that has queued a block writes to
the pipe in the end. Threads, launches and deaths are not fair.
`SolicitationAcknowledged` and `CallbackRuns` are checked with `rpc()` in
`process_commands()` only, because they fail otherwise. In `CommandQueue` the main loop of
`shovechars()` runs again and again: `do_top()` is weakly fair, a command in progress
ends, and the timer of a second runs infinitely often if it is due infinitely often
(strong, because it waits for the entry in progress; `SecondFair` is that condition with its
ENABLED written out). Players' and entries' commands are not fair.

## Findings

* `freeze`: `json_server_issetfd()` (`src/bsd.c:1187`) uses the descriptor set that
  `select()` filled at line 1133, but `do_top()` at line 1155 may have run softcode
  with `rpc()` since. That call reads the `rpc.req` `select()` had seen and notes it.
  Then `json_server_receive_solicit()` blocks in `read()` on an empty socket: the game
  stands still, and Ruby waits for an `rpc.ack` in `select()`.
  `src/json/README.txt:88-90` promises the acknowledgement after the transaction.
* `encoder`: `json_server_start()` sets the protocol state to READY before the steps
  that may fail and frees the encoder when they do (`src/json/launch.c:63-71`). In a
  function called by Ruby, an `rpc()` that breaks the connection and a second that
  cannot launch are enough: the function's result is generated with a NULL encoder
  (`src/json/json.c:1293`), which the comment at line 1132 calls "not needed; for
  safety".
* `parser_keys`: `find_token()` compares as many characters as the key has
  (`src/json/json.c:440`), so a key that is the beginning of a token is that token.
  `{"result": null, "": null}` is refused and the server stopped, where
  `src/json/README.txt:131` has unknown keys ignored.
* `on_hand`: `pay()` checks the balance, announces the payment, which evaluates softcode,
  and then saves the balance it read before, less the amount
  (`systems/lib/econ/wallets.rb:37`). What that softcode pays with an `rpc()` of its own is
  not seen: with one credit a player pays two. `game/txt/hlp/wcnh_econ.hlp:110` says that
  `pay` pays "with IC credits you have on-hand". `account_deposit` and `vendor_purchase` save
  a balance as old as that.

`JsonParser` also has as it is, and no run of its own, that a scalar under a known key is fatal
(`src/json/json.c:655`, as in `{"params": null}`), where `src/json/README.txt:133` calls an
unsupported type non-fatal. Such a message is none of the grammar.

## The proofs

All theorems are of the form `Spec => []Inv` or a refinement, for every value of the
constants that satisfies the assumptions (the bounds are naturals, MAX_DEPTH and
MAX_CALLBACKS positive; the queue has at least one slot and nil is no block).

`CallbackQueue_proofs`. The inductive invariant `Inv` is `TypeOK` with
`SlotsAccounted` restated without the set of occupied slots: a slot holds a block
exactly when it lies *between* head and tail around the end. `InvInductive` shows each method
keeps it. `TypeCorrect` and `SlotsAreAccounted` follow. `RingBufferIsFifo` is the
refinement: `EnqueueAppends` and `DequeueTakesHead` say what the two methods do to
the mapped sequence, and `QueuedIsSeq` that its emptiness and fullness are what the
comparisons of head and tail decide.

`PennJSON_proofs`. `TypeOK` is not inductive: a failing `penn` frame pops two
frames, and nothing in the types says there are two. `StackShape` adds that frames
alternate (a `penn` frame lies on a call that waits, an `ack` frame is the first)
and that the context a `penn` frame began in is the one saved by the call above it,
or the current one. `TypeStep` and `ShapeStep` prove the two together, by groups of
actions (`NextCases`); `TypeCorrect` and `ContextIsRestored` follow. `NoWakeupIsLost`
adds `ChecksFirst`, about where the loop is when it has dispatched a message.

Its second half takes the other six invariants of `safety`, which stand or fall together:
whose turn it is follows from where the calls are, where an answer belongs from whose
turn it is, and whether a call may be refused from the depth of both sides. `NestInv` has a
part that holds of each process alone, and one about the two while they are connected.

* `ClientInv` is about PennMUSH, and holds until it notices that Ruby died: `depth` is the
  number of its calls that wait on this server (`Ours`; -1 while a call waits that is older
  than the server), the last frame older than the server runs a function, and at
  most one object has to be dispatched. `EndInv`: no call is open without a server, and
  none in a process that is gone. `RubyShape` is `StackShape` for Ruby's stack.
* `LinkInv` is about the two connected: `SizeInv`, one side is ahead of the other by the
  call or the answer under way, which is for the innermost call of its reader; `Paired`, the
  frames match call by call, with the contexts they saved; `ShownInv`, so do the current
  contexts, or the call under way carries it; `TurnInv` and `NoteInv` are
  `TurnTaking` and `OneNotification` restated by counts of the two channels.

Why so much is needed: a match of the frames says nothing of a server that is replaced under a
call, whose answer finds no frame; that it is never taken for another's needs the
depth; and the depth of PennMUSH is Ruby's only because every failure unwinds to
the frame the connection began at. The stack lemmas (`PairedPush`, `PairedPop`,
`CallbackPush`, ...) and the turn lemmas (`PennsTurn`, `RubysTurn`, `ForRuby`, `ForPenn`)
are followed by one lemma for every action of the two sides; `NestStep` joins them.
`AckAccepted` is the one that shows an `rpc.ack` is never refused: it finds Ruby at
depth 0 and its queue not empty. Messages are counted by `Cardinality`, and `CountAppend` and
`CountTail` say how a count changes. `TurnsAreTaken`, `StacksAgree`, `NotifiesOnce`,
`ContextIsShown`, `TopLevelIsBalanced`, `RecursionIsBounded` and `StrayAnswers` follow, for
any number of calls, callbacks, launches and deaths, and any depth.

`JsonParser_proofs`. `NestingTracked` needs two more facts to be inductive: the root
is an object (`Rooted`; anything else was fatal), and the counter is zero whenever
nothing is ignored and when a message ends (`CounterAtRest`), since
`json_server_receive()` never resets it. Together they are `Nest`. `OpenFacts` and
`CloseFacts` say what a bracket does to the document, `EnterNesting`, `PartNesting`,
`ExitNesting` and `LeaveNesting` that the parser follows it in each of its four ways,
and `OpenedSection` that in the message only `params`, `context` and `error` lead to
a part. `TypeCorrect` and `ParserTracksNesting` follow, for every set of keys (the
empty one too) and every depth.

The other four invariants of `parser` are about a message that is over; what is inductive
is `Meaning`, which says what its first part amounts to while it is parsed. `Seen` is, by
name, the types of the values the grammar has met so far. `Answerable`, `Marked`
and `Placed` tie the mark, the parts and the place of the parser to it, `Typed` says that
every odd type or repeated name has become a local error, or was fatal, and
that a local error has such a cause (or memory ran out), `BodyKept` which string is
stored. `Seat` is where `Nest` is used: a value is taken under the name it has in
the document. `ResultMarked`, `RequestMarked`, `ErrorMarked` and `ItemMarked` are the
kinds of members, `RootUnfit` and `ErrorUnfit` say that a message that is fatal
could not have become one of the grammar, and `VerdictMeaning` that the verdict on the rest is the
grammar's. `ConformingIsAccepted` and `OnlyConformingIsAccepted` are proved for sets of keys
without the empty one, since with it they are false (`parser_keys`); `BodyIsStored` and
`LocalErrorIsAnswered` for all.

`Economy_proofs`. `NoOverdraft` is not inductive: what a command in progress has read
before another one spent it decides what it saves. `IInv` adds that every
frame is in `Frame(Exempt)`: the balance it will save, computed from what it read, is not
below zero, whatever the wallet holds by now. This is why stale balances lose and make
money but never overdraw. The lemmas go by modules (`WalletStepInv`, `AccountStepInv`,
`RaceStepInv`, `CargoStepInv`), with `BookInv` for a save of an account, `Transferred` for
the list of accessors and `PaidOut` for the winners of a race. `NoOneOverdraws` follows for
any number of people, accounts and ships, any amounts and any depth of commands.

`BooksAreWellTyped` is about the types of the books; that a frame holds values of the types of what it
will save is in `IInv` already, and `BooksInv` adds the cargo, whose sums only the commands on
top of the stack change.

`MoneyIsConserved` needs sums of four functions, which `SumFunction` of the community modules
folds in an order of its own (`FoldTheorems`). That the order does not matter is an induction over the subsets of
a finite set. It is done here by hand: a set of numbers has a least one (`Least`, from the
well-foundedness of the naturals), so a set of sets that contains the empty set and every set
whose smaller parts it contains has all subsets (`Subsets`); and `SumExists` shows that the
equation by which the fold is defined has a solution (`FoldExists` for any fold). `SumChanged`, `SumAdd`, `SumRenamed` and
`SumSame` are what the steps need: one value changes, a key is added, the frames move up by one.
This is why people and accounts are assumed to be finite sets. `MInv` adds that what is bought
is paid into an account that exists (`ShopInv`). `HandPush` and `HandPop` say what a
change of the stack does to the money in the hands of commands, `MoneySaved`, `MoneyAdded`
and `MoneyBooked` what a save does to it: either the sums change by what cancels, or the save
was of a stale balance and `issued` is `Unknown` from there on.

`CargoJobs_proofs` stands on `IInv`. `JobPaidOnce` says nothing of the deliveries in
progress, so `PInv` adds where they are: a command that has not paid finds its job not
completed, or its job counts as repeated (`FrameInv`); no two commands on the stack move
the cargo of one job, or the job counts as disturbed, and no two deliver it, or it counts
as repeated (`AloneInv`); and a job that was paid and is not repeated is completed, or the
delivery that paid it is on the stack and will complete it (`PaidInv`). `SameStack`,
`PushedOther`, `PushedMover`, `Replaced` and `Popped` say what a change of the stack does
to it, and every command is one of these (`OtherStep` for those that move no cargo,
`MoverBegins`, `MoverGoes`, `DeliverPays`, `MoverEnds`). `NoJobPaidTwice` follows, for any
number of jobs, ships and people and any depth.

`HoldsAreAccounted` needs to know how far a command in progress has got, as the list, the sum
and the job of a ship are saved one after the other. `HInv` says of a job whose command is at a
point between them which of the three have changed (`MoversInv`), of all others that they agree
(`RestInv`), and of every ship that its sum is the size of its list but for an offset that only
the command on top of the stack makes (`WeightInv`). `DeepInv` is why there is one such command: all
below are at a call that evaluates softcode, and none of those lies between the list and the
sum. `RoomInv` is the capacity: nothing comes between the comparison and the save of the sum; it
needs no history, so CUR is bounded after any failure too. That the list fits, in the middle of a
command as well, is `WeightInv` and `RoomInv` together: where the list is ahead of the sum, the
comparison has just been made.

`JsonReceive_proofs`. The allocators are argued about by themselves: `HeapInv` is over a
function H, the allocator each message on the stack holds, and says that those in use
differ and are allocated, free lists hold nothing in use, nothing is forgotten, and the
references of a pool are its allocators in use, the server, and the pool `owed`. The last
is for the middle of an operation: `json_server_message_clear()` and `json_server_stop()`
give something up first and release the pool after, and `alloc_json_alloc()` counts before it hands
out. `GiveBack`, `ReleaseInv`, `NewPoolInv` and `TakenInv` are these halves, `ClearedInv`,
`StoppedInv` and `AllocatedInv` the whole operations, and `IInv` applies them to the stack.
`StringsStay` follows for any objects, any depth of calls, and any number of pools.

`ObjectsAreCut` is about the same module and needs `CutInv`: what is left of the objects that are
due is in the buffer, from `in_off` on, and in the socket, and nothing else is (`Feed`); and the
lexer's context and depth are those that the bytes parsed so far determine (`Mode`, `Level`). That
they are is `ByteStep`, for one byte of an object, and `LexedState`, for as many as the buffer
holds, by induction over numbers; `EscapedStep`, `QuotedStep` and `LevelStep` say what a byte does to the
reference definition of an object, `ObjectEnds` that the lexer is at level zero in no string where one object ends and the
next begins, and `PrescanFeed` puts them together: `lexer_prescan()` stops at the end of an
object or of the buffer. The rest is about sequences (`Regrouped`, `FromJoined`, `FlattenHead`, ...): a
byte that `read()` moves, or YAJL consumes, is neither lost nor taken twice. The assumption
that all objects are well formed is the comment's of json.c:474-476; others are YAJL's to refuse.

`CommandQueue_proofs`. `QueuesAreGood` is the inductive invariant `IInv`, and the five
invariants of `command_queue` follow, and its action property. Most commands are several functions of `cque.c` after
one another, so what is proved is about the functions: `Good(k, W, D)` holds of a state k of the
queues in which D is executing and W was just taken off one queue and is not in another yet, and
there is a lemma for each function that says which W and D it starts and ends with
(`UnlinkedGood`, `WokenGood`, `EnqueuedGood`, `HaltGood`, `PayGood`, `InsertGood`,
`WaitsOverGood`, `DrainedGood`, ...). `CommandInv`, `SecondInv`, `DoTopInv` and `EndEntryInv` put
them together. The parts of `Good`, none of which is inductive without others:

* `Apart` and `Held`: no pid is in a queue twice, and `queue_map` holds what is in the
  queues, in W or in D. `SemInv` is needed for them: what waits on the semaphore has its attribute
  set, or `@halt/pid` would leave it, halted, where it is.
* `Ordered`: `@wait/pid` puts an entry where `SortedInto` finds a place, and `WaitsOver`
  moves the entries up to the first that is not due, which are all that are due only because the
  queue is sorted; `ElapsedGood` says that time keeps the order of what is due.
* `Counted`: the attribute of the semaphore counts at least what waits. Each function takes off
  as many as it unlinks, which is the size of a set because nothing is linked twice.
* `Paid`: the sum of the QUEUE attributes is at least the number of entries with an executor, and
  when things count for themselves each thing's attribute is at least its own. It is about sets of
  entries (`Alive`), so `HaltParts` says what `@halt` marks, frees and dequeues; `PaidLess` and
  `PaidMore` are what the functions need, and `SumParts` that `Drained`, which gives back to several
  at a time, takes as much off the sum as it frees.

`SemaphoreIsInOrder` is about steps, and stands on `IInv`. What a step wakes of the semaphore is
what it leaves on a run queue with the attribute set (`Wakened`); no function of a command but
`@notify` adds to it (`HaltWakes`, `PayWakes`, `InsertWakes`, `WaitQueWakes`, `DrainedWakes`, `HaltPidWakes`,
by which `CommandInTurn` has nothing to put in order), and `SecondWakes` says that `do_second()` wakes nothing without a
timeout. `@notify` takes the first n that wait (`OldestFirst`), and `Woken` appends to each run
queue those of them that belong there (`WokenFields`); that they stand there as they stood on the
semaphore is `FrontInOrder`, by `KeptBehind`: `Among` is the only sequence that lists a set as a
given sequence has it (`KeptOnce`), whatever stood in the run queue before.

After undefined behaviour (`q.ub`: an entry that was freed is read) nothing is claimed but the
types. `Among` and `Restart` are folds; `AmongFacts` and `RestartGood` get what they return from
`FoldExists`, by induction over the subsets of a finite set as for the sums. The assumptions
are those of the model: things are finitely many, the quota and the bounds are naturals, and there is a pid.

What only TLC checks: everything about liveness, which the prover does not reach, with its
fairness; and `Doubled`, the recursion of the queue's constructor, which is an induction
over data. Every invariant and every action property of the passing runs is proved.

## Not modelled

* The PennMUSH engine: the interpreter of softcode, its functions and commands, the
  object database, mail and chat. It is the greater part of the repository by far, a hundred thousand
  lines of single-threaded upstream C whose state changes are those of softcode; what
  it does to the modelled parts is that softcode may call `rpc()` and queue commands at
  any time. Of its own machinery the command queue, where order, counters and liveness
  are at stake, is modelled.
* Contracts, communication, boards, calendar, items but for the purchase, anatomy,
  combat, roleplay and projects: a command there reads a document, checks it and saves
  it once. What can go wrong in one is seen in its line; the one such line met is listed
  with the hazards.
* The registry of Ruby objects, which loads files by name; `systems/remote`, which
  passes arguments on.
* Of the economy, the views, `account_rename`, `cargojob_edit` and how jobs are priced.
* Help files, translations, build files and softcode that has no state of its own.

## Plan

What could be added, in this order:

1. `NestedCalls`: an abstract specification of one logical thread of nested calls,
   and `PennJSON` shown to implement it as long as no server is replaced under a
   call, on `NestInv`.
2. Contracts, with the jobs they can lead to; channels and handles.
3. Several semaphores in `CommandQueue`, which share one list.
