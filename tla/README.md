# A TLA+ verification of project-chat-app

project-chat-app is a chat program in C++: a server that keeps users and messages
in PostgreSQL, and a command line client; its documentation is a set of pages with
scripts of their own. This directory holds TLA+ models of it,
the TLC configurations that check them on small instances, and TLAPS proofs of
what holds for every instance. Paths below are relative to the root of the
repository; the code is under `src/`.

## 1. The system

| Component | State | Operations | Talks to |
|---|---|---|---|
| `AuthenticationManager` | none | `GenerateSalt`, `HashPassword`, `HashPasswordWithSalt`, `VerifyPassword` | OpenSSL |
| `ChatDatabase` (singleton) and `db/create_tables.sql` | tables `users`, `messages`, the sequence of `user_id`; ONE libpqxx connection | eight statements, all through `ExecuteQuery` | PostgreSQL; called by every handler thread, without a lock |
| `ClientHandler` | `m_ClientSocket`, `m_Stop`; the request being handled | `Start` (the loop), `HandleAction`, seven `Handle...` functions, `Stop` | `ChatDatabase`, `JsonHandler`, `AuthenticationManager` |
| `Server` | `m_ServerSocket`, `m_ClientHandlers`, `m_ClientThreads`, `m_ServerThread`, `m_Stop` | `Start` (spawns the acceptor), `Stop`, `Restart`, `Wait` | the sockets; owns the handlers, shares its vectors with the acceptor without a lock |
| `JsonHandler` | none; what is on its way is in the kernel | `SendJson`, `ReceiveJson` (one `recv` of at most 1024 bytes) | TCP |
| `Client` | its socket, the logged-in `User` | connect, `Stop`, the commands of `CommandsNotLoggedIn` and `CommandsLoggedIn` | the server, through `JsonHandler` |
| `CLI` | the strategy: the menu of users who are logged in, or of others | `Start` (the loop) | `Client`, standard input |
| programs and tests | none | `exe_server`: `Start`, `Wait`; `exe_client`; the life cycle and message tests | all of the above |
| search panel of `doc/html` (`search/search.js`, the box of `menu.js`, the data of `searchdata.js` and `all_*.js`) | text of the field, last search, section, what is displayed, where the focus is, two timers | handlers of keys, focus, mouse, timers, of a file that arrives, of a resize | the reader; `script` elements that load the files; a cookie |
| folding in `doc/html` (`dynsections.js`) | none of its own: what is displayed, and the icons | `toggleFolder`, `toggleLevel` | the rows of `files.html`, `hierarchy.html` |
| build and docker | none | `restart: always` of `docker-compose.yaml` matters below | |

How they interact: a client connects, sends one JSON request at a time and waits
for one JSON response. The acceptor thread makes a `ClientHandler` and a thread for
each connection. A handler serves a request with one to three `ExecuteQuery` calls,
each a transaction of its own on the connection that all handlers share.

What is hard about it, and what correctness means there:

* **One database connection, no lock.** libpqxx refuses a transaction while another
  is open on the connection, so the request of the second thread fails. Correct:
  transactions never overlap; a refused request fails without any effect and does
  not hang.
* **Requests made of several transactions.** `SEND_MESSAGE_TO_USER` looks up two ids
  and inserts in a third transaction; `VERIFY_USER` reads salt and hash in two.
  Meanwhile another handler may `TRUNCATE_TABLES` and register the same names again.
  Correct: every request still behaves as if it took place at one instant, no message
  reaches somebody it was not meant for, and no wrong password is accepted.
* **Failures.** `value()[0][0]` of a name that is not registered kills the process,
  docker restarts it, PostgreSQL keeps the tables; a broken database connection is
  never opened again by the process; `commit` may fail after it took effect; the
  response may not be deliverable. Correct: the tables stay consistent, ids are not
  used twice, a lost connection never looks like success.
* **Stopping.** `Server::Stop` stops the acceptor LAST, after it has iterated over and
  cleared the vectors the acceptor appends to; `ClientHandler::Stop` closes a
  descriptor another thread is blocked on, and forgets its number afterwards. Not
  correct for a connection that the acceptor takes in while `Stop` runs: its handler may
  be freed under its thread, its descriptor may be left, its client may get another's
  response, the process may die (and see the findings). Correct for all others, at
  whatever moment `Stop` is called: nothing is freed in use, nothing is left behind, no
  client sees another's response, `Start` works again unless the kernel still holds a
  connection, only the handlers' own descriptors are closed, and a server that has come
  through it is sound.
* **Descriptors.** The socket of a client that left is closed only by `Stop`. Correct:
  running out of them does not keep accepted clients from being served; who is not
  accepted by then waits for ever.
* **Framing.** One `recv` is taken for one message, and a response carries no number:
  the client takes what arrives for the response to its last request. A value that
  fills the buffer is read in pieces, what is left over is read as the next response,
  and the buffer has no terminator then. Correct: as long as no response fills the
  buffer, whatever the requests, every client reads the response to what it asked.
* **Who is logged in.** Only the client knows. `LogIn` logs the user in unless the
  response says Error, no response included, and the server believes the sender a
  request names. Correct all the same: messages are served under verified names only.
* **Connections that go.** A handler that fails ends without closing its socket, so
  that its client may wait for ever; `send` on a connection that was reset ends the
  process by SIGPIPE, the server's for all clients. Correct: clients that leave at any
  time do not bring the server down, waits end, threads leave.

* **A page of timers and late files.** Every search of the panel loads a file of its own,
  whose rows are displayed whenever they arrive; a key timer is stopped, replaced or
  forgotten in several handlers, and `focus()` and `blur()` run handlers in the middle of
  others. Correct: no edit is left without a search, the panel is never half open, the
  rows at rest are those for the text, who types and waits gets results.
* **A tree whose state is its picture.** `toggleFolder` decides from one child whether a
  folder is open; hidden folders keep their icons. Correct: the icons always say what is
  displayed.

The hazards at their lines, with the properties that cover them, are in
`PROJECT.json` under `hazards`.

## 2. Modules

| Module | Models |
|---|---|
| `AuthenticationManager` | `AuthenticationManager.cpp`, operators only |
| `ChatDatabase` | `ChatDatabase.cpp`, `create_tables.sql`; extends the above |
| `ClientHandler` | the request handling of `ClientHandler.cpp`, with crash and restart of the process; extends the above |
| `ChatService` | the abstract specification: what a client may expect of the server |
| `ClientHandlerProperties` | properties of `ClientHandler`, its inductive invariant, the refinement mapping to `ChatService`, fairness |
| `ClientHandlerProofs` | TLAPS proofs: the inductive invariant of `ClientHandler` and what follows from it |
| `ClientHandlerStepProofs` | TLAPS proofs: its action properties |
| `ClientHandlerRefinement` | TLAPS proof that `ClientHandler` implements `ChatService` |
| `Sockets` | descriptors, connections and clients as the server process sees them (Linux; external) |
| `Server` | `Server.cpp`, and the loop and `Stop` of `ClientHandler.cpp` |
| `ServerProperties` | properties of the server as a whole, fairness, the inductive invariant they rest on |
| `ServerRaced` | `Server` with a history variable, the connections `Stop` has raced with; properties of single connections, and their inductive invariant |
| `ServerProofs` | TLAPS proofs of the safety properties of `ServerProperties` |
| `ServerRacedProofs` | TLAPS proofs of those of `ServerRaced` |
| `JsonChannel` | `JsonHandler.cpp` and the TCP connections under it (Linux; external): the two ends of every connection |
| `ChatClient` | `Client`, its commands, `User` and `CLI`; extends the above |
| `ChatSystem` | all clients, their connections, a handler per connection, the server process; extends the above, with `ChatService` (instance `S`) for what happens between a request and its response |
| `ChatSystemProperties` | properties of `ChatSystem`, its inductive invariant, fairness |
| `ChatSystemProofs` | TLAPS proofs: that invariant, and what follows from it |
| `SearchBox` | `search.js`, and the box of `menu.js`: one action per event of the page |
| `SearchBoxProperties` | properties of `SearchBox`, fairness |
| `SearchBoxProofs` | TLAPS proofs about it |
| `DocTree` | `toggleFolder` and `toggleLevel` of `dynsections.js`, with its properties |
| `DocTreeProofs` | TLAPS proofs about it |
| `MCClientHandler`, `MCServer`, `MCServerRaced`, `MCChatSystem`, `MCSearchBox`, `MCDocTree` | the instances for TLC |

Definitions marked "Mutant" are the code with one plausible bug. They are used
nowhere: each is there to be put in the place of the definition after it, and some
property must then fail (`PROJECT.json`, `mutants`).

### Requests: `ClientHandler` over `ChatDatabase`

`users` and `messages` are the tables: a set of rows, and a sequence in the order of
`sent_at`. `nextUserId` is the sequence behind `SERIAL`; like PostgreSQL's, it is
drawn by a failing `INSERT` too, and `TRUNCATE` leaves it alone. `query[h]` is the
statement in the transaction thread `h` has open, `results[h]` what its
`ExecuteQuery` calls have returned so far.

A `Handle...` function is thread-local code around `ExecuteQuery` calls. It is
therefore an operator on the request and the results so far that yields the next
call, the response or a crash (`Move(h)`); its lines are those of the C++ function.
The steps of a thread are

| Action | Code |
|---|---|
| `Accept`, `ReceiveRequest`, `ReceiveFails` | a handler starts; `ReceiveJson` in `HandleAction` returns, or fails and the loop ends |
| `CallDatabase` | `pqxx::work` is constructed (`OpenTransaction`), or throws (`RefuseTransaction`: nullopt) |
| `DatabaseReturns` | `exec` and `commit` succeed (`Commit`), `exec` throws (`Reject`), or the connection breaks and the outcome is unknown (`InDoubt`) |
| `SendResponse`, `SendFails` | `SendJson` |
| `ServerCrashes`, `Restart` | `[0][0]` of an empty result; `restart: always` |
| `ConnectionLost` | PostgreSQL or the network goes away |

`contended[h]` is a history variable: another request was being handled at some
point of this one. `ChatService` uses it as the reason for an `Error` that is due to
the shared connection.

`ChatService` is what a client may believe: each request is served in one step on
accounts (name to password) and mail. `Error` needs a reason (a name that exists, a
wrong password, a text that cannot be stored, another request at the same time, or no
storage) and has no effect unless the storage was lost; the service goes down only
of a message that concerns somebody who was not registered at some instant of it. The mapping in
`ClientHandlerProperties` derives accounts from rows (dropping ids, salts and hashes),
mail from rows by resolving ids, and a reply from what the handler has decided.

### Life cycle: `Server` over `Sockets`

`Sockets` has the descriptor table of the server, the server's end of each
connection (with what the kernel keeps of it after `close`) and the client's end.
Three facts of Linux carry the model: a descriptor number is reused at once, lowest
first; `close` does not wake a thread blocked in `recv`, and that thread keeps the
connection up; `bind` without `SO_REUSEADDR` fails while a connection of the port is
left, which a side that closed first causes.

In `Server`, `pc[c]` walks the handler thread of connection `c` through the loop of
`ClientHandler::Start`, with a step between reading `m_ClientSocket` and passing it
to `recv` or `send`; `apc` walks the acceptor, with `emplace_back` of handler and of
thread as separate steps; `cpc` walks the thread that calls `Start`, `Stop` and
`Restart` (constant `Script`) through every statement of `Stop`. An `emplace_back`
while `Stop` is in a loop over the same vector, and `back()` of a vector that was
cleared in between, are undefined: the model lets the first work or kill the process,
and the second kill it.

A request in `Server` is one that can be read (`RecvRequest`) or, from a client in
`Garbling`, one that may not be (`RecvFails`): it does not parse, does not fit the buffer,
or names no action. Then `HandleAction` throws, the loop of the thread ends, nothing is
answered, and the descriptor stays with the handler until `Stop`; of a request that did not
fit, a rest stays unread.

`ServerRaced` adds `raced`, a history variable that no action of `Server` reads: the
connections that the acceptor had in hand, between `accept` and the `emplace_back` of their
thread, in some state of a `Stop`. Those are the ones `Stop` cannot answer for. With `raced`
the properties name them, and need no assumption about when the server is stopped.

### The whole: `ChatSystem` with clients and connections

A connection is named after the client process that opened it, so a client that is
started again is another element of `Clients`. `Client(c)` and `Server(c)` are its two
ends. `stream[e]` is what has reached end `e` and was not read, `socket[e]` what the
calls of `e` meet next. `at[c]` walks the client through menu and `ReceiveJson`;
`command[c]` is the request whose response it waits for. `handler[c]` is the thread of
the connection; `pending[c]` and `reply[c]`, of `ChatService`, are its request and
response. `asked`, `number` and `verified` are history: they number the requests, tell
which one the handler has, and which names the service has verified on the connection.
`oversize[e]` remembers that `e` has sent a value that does not fit the buffer with a
terminator.

| Action | Code |
|---|---|
| `ConnectToServer`, `Exit` | the constructor of `Client`; `q`, a signal, or the end of a process that failed: the kernel closes the socket |
| `Execute` | a menu entry is chosen and its request sent: `SendJson` returns true or false, or SIGPIPE ends the client |
| `Respond` | `ReceiveJson` returns and the command makes what it makes of the response, or of having none |
| `LogOut` | the menu entry of that name |
| `Accept`, `ReceiveRequest`, `ReceiveFails` | the acceptor starts a handler; `HandleAction` has its request, or throws and the thread ends |
| `Handle`, `Misses` | one step of `ChatService` |
| `SendResponse`, `ResponseFails` | `SendJson` in `HandleAction` |
| `DiesOfMessage`, `DiesOfPipe`, `Killed`, `Restart`, `LoseDatabase` | `[0][0]` of an empty result; SIGPIPE; any other end; `restart: always`; PostgreSQL goes away |

What the kernel does, in `JsonChannel`: `connect` returns when the connection is queued,
accepted or not. The end of a process, or `close`, lets the peer read what is on its way and
then the end of the stream (`fin`). If data was not read, or the connection was still
queued, the peer gets a reset: the next call reports it (`reset`), the ones after that
find nothing to report, and then `send` raises SIGPIPE (`broken`). A `send` after `fin`
succeeds and is answered by a reset.

`ChatSystem` uses `ChatService` in the place of `ClientHandler`, which the theorem `Refinement`
justifies: a handler does what `ChatService` allows, as far as clients can tell.

`Accept` succeeds while the server has a descriptor left, of the `Capacity` it has for
connections. None is given back while the process lives: the socket of a client that left, or
whose thread ended, stays open (`Accepted`). A `Full` server accepts nobody else: `accept`
returns -1 and the acceptor tries again, which changes nothing.

### The search panel: `SearchBox`

The scripts are those Doxygen ships, kept in the repository with the pages and working
on data generated for this project. A page has one thread: an action is one event with
everything its handlers do, the handlers that `focus()` and `blur()` call included. What
interleaves is the reader, the timers and the files.

`box` has the text of the field, `lastSearchValue`, `searchActive`, and whether the
results are displayed (the DOM is asked for that). `armed` is the key timer whose number
is in `keyTimeout`; `orphans` counts those that still fire although their number was
overwritten. `loads` is the bag of searches whose file is on its way, `answer` the search
whose rows are on display. `index` is `searchIndex`, `cookie` the section kept over page
loads. `window`, `hide` and `over` are the section window, its hide timer and the mouse;
`focus`, `item` and `held` the focus, the row it is on and the key that is down. `asked`
and `dropped` are history: the latest search, and that a timer was stopped before its text
was compared with the last search.

| Action | Code |
|---|---|
| `Type`, `KeyDown`, `KeyUp` | a key in the field (`OnSearchFieldChange` at its release), on the icon, in the section window (`OnSearchSelectKey`), on a row (`Nav`) |
| `MoveFocus`, `FocusRow`, `ClickSection`, `ClickClose` | focus and blur handlers, `OnSelectItem`, `CloseResultsWindow` |
| `MouseOver`, `MouseOut`, `HideTimer` | `OnSearchSelectShow`, `OnSearchSelectHide`, its timer |
| `KeyTimer`, `OrphanTimer` | `Search` from a timer |
| `Load`, `LoadFails` | `createResults` and `SearchResults.Search` of the file that arrives; or it does not, and nobody is told |
| `Resize`, `LoadPage` | `menu.js` replaces the box; `init_search` |

What the model shows beside what holds: a file that arrives after the results were closed
opens them again, in a panel that is active then without a text; files that arrive out of
order leave the rows of the older search (`answer # asked`); Shift and Down leave an edit
without a search (`dropped`); a file that arrives after the text was blanked leaves its rows under a field of
spaces; Down on the last section selects one that does not exist, and
searching there is a TypeError; after a resize the icon of the box no longer answers keys.
The properties say which of them they leave aside.

### The directory tree: `DocTree`

`displayed` is the set of rows displayed, `open` that of folders with an open icon. The
ids of rows give the tree (`Level`, `Under`), as the expressions of the script read
them. Both actions redo the stripes at their end, which are layout.

### Abstractions

* A digest is the pair of salt and password, free of collisions: SHA-256 is fed the
  32 digits of the salt and then the password. A generated salt is any member of
  `Salts`, one in use included, for the result of `RAND_bytes` is not looked at.
* A value with an apostrophe makes its statement a syntax error (`Apostrophe`); what
  else unescaped text could do to a statement is not modelled.
* libpqxx registers a transaction by checking and then setting a field of the
  connection, without synchronisation; the two are one step here (`OpenTransaction`). That
  transactions exclude each other is therefore an assumption of the model and no result; it is a
  conjunct of the invariant only because other parts rest on it. What two threads do
  that both pass the check is to write to one PostgreSQL session at once: what comes of that is
  decided by libpq's buffers and cannot be enumerated. What the model is about is the other
  side of it, the requests that are refused.
* The race of `emplace_back` with the loops of `Stop` (`EmplaceHandler`, `EmplaceThread`) works or
  kills the process. A vector that is torn and read all the same, or a heap that is corrupted and
  kills the process later, is not modelled: nothing could be said after it.
* Messages of one chat come in the order of their commits. Only one transaction is
  open at a time, so `CURRENT_TIMESTAMP` orders them so, if the clock does not step
  back. The length limits of the columns are left out.
* `Accept` of `ClientHandler` needs no listening server and `Restart` of that module
  is the restart of the container; starting and stopping in one process is `Server`.
  In `Server` handling a request is one step, `HandleRequest`.
* `m_Mtx` is not modelled: one thread calls `Start` and `Stop`, in the programs and in
  the tests, so nobody ever waits for it. `Wait` joins the acceptor, which nobody
  stops meanwhile: a waiting server is one whose `Script` is at its end.
* The tests run clients in the process of the server; in the model only the server
  takes descriptors from its table.
* Lengths count in half buffers. A value of one unit fits the buffer with its terminator
  and is sent in one segment, so it is read whole if it is read alone. A value of two
  fills the buffer: `Json::parse` then reads on past its end, and may find a zero there
  or not. Longer ones are read in pieces, wherever `recv` cuts them. A cut of JSON objects
  parses only if it is a whole object, or if it lies inside one value: there it may be a
  number, say, which is neither null nor an object (`JUNK`).
* Which requests and responses can be long follows from what they hold: those with a
  user's text, the list of users and a chat.
* In `SearchBox` a text is a sequence of lower case characters and spaces (the script
  folds case, and the names in the data are escaped). One key is down at a time, and the
  mouse and the Tab key are used with no key down. Text is edited with keys only, not pasted or
  dropped. What the browser does with the focus of an element that is hidden or removed, or
  with `focus()` on one, is part of the actions (external). Rows are represented by the search
  they answer: creating and filtering them is one step of the script. Rows with several
  results, whose children fold, do not occur in this project's data and are left out, as
  are position and size of the windows. The page is opened without a query in its URL.
  `MaxPending` bounds the timers and files under way when a key goes down.
* Text that is not UTF-8, on which `dump` throws, is not modelled. An unknown command and the
  end of standard input change no state.

## 3. Runs

| Run | Instance | Shows |
|---|---|---|
| `accounts` | 2 handlers, 1 name, 2 passwords, 2 salts, 4 requests, fair | `VerifyMatchesAccount`, `ServiceRefined`, `RequestsEnd` for register, verify, send, truncate; `RefinementInv`, what the proof of `ServiceRefined` adds to `IInv` |
| `messages` | 2 handlers, 2 names, 5 requests | `TablesConsistent`, `StaleIdsNeverRebound`, `ServiceRefined` for register, send, truncate; `IInv`, the inductive invariant |
| `responses` | 2 handlers, 2 names, a text with an apostrophe, 4 requests, all actions | `TypeOK`, `NoSuccessAfterLoss`, `ServiceRefined` |
| `create_error` | 2 handlers, 2 requests | VIOLATED: `CreateErrorMeansExists` |
| `lifecycle` | 2 clients that may send what cannot be read, 3 descriptors; Start, Start, Restart, Stop, each at any moment | `NothingFreedInUse`, `StopLeavesNothing`, `NoCrossTalk`, `StartThrowsOnlyWhenLingering`, `SoundBetweenStops`, `OnlyOwnSocketsClosed`, `OwnAnswersBetweenStops`; `IInv`, the inductive invariant, with `StopInv` and `TypeOK` in it |
| `serving` | 3 clients, one of which may send what cannot be read, 3 descriptors (one is the listener's); Start; fair | `RequestsAnswered` |
| `stopping` | 2 clients, one of which may send what cannot be read; Start, Stop at any moment; fair, clients leave | `StopReturns` |
| `socket_ids` | 2 clients; Start, Stop at any moment | VIOLATED: `UniqueSocketIds` |
| `framing` | 1 client, a descriptor for it, 2 names, values of 1 to 3 units, 5 requests | `TypeOK`, `InStep`, `LoginVerified`, `SendersVerified`, `NoBrokenPipe`; `IInv`, the inductive invariant |
| `waiting` | 2 clients, one descriptor, 1 name, values of 1 to 3 units; 4 requests of one client, none of the other; fair | `WaitEnds`, `HandlersLeave` |
| `searching` | 2 sections of a file each, with 3 names and 1; 3 texts; 2 timers or files under way; fair | `TypeOK`, `PanelConsistent`, `EditsSearched`, `AnswerCurrent`, `NeverHiddenUnderMouse`, `SearchAnswered` |
| `doc_tree` | 16 rows in 4 levels | `TypeOK`, `IconsTrue` |

**Bounds.** `MaxRequests` bounds the requests of a behaviour, over all handlers.
Register, (send or verify), truncate, register again, with one request spanning the
rest, takes five: that is the longest story the stale-id and the two-transaction
hazards need, and the mutants show each of them is reached. Two handlers are enough
for every conflict over the one connection (a third would be refused in the same
way). Four requests are enough for `accounts`: two registrations with different passwords
and salts, a truncation between them, and one verification around all three. One name is enough
for accounts, since rows of different names do not interact; messages need two.
`MaxFd = 3` is the listener and two connections: both clients are served at once in
`lifecycle`, and in `serving` the third finds no descriptor. The lists in `Script`
are those of the tests (`tests/main.cpp`) and of `exe_server`. Two clients are what a stale
number takes: one whose descriptor was closed and one that gets it; and what `Stop` races with
is one connection at a time. In `serving` and `stopping` the clients of `Garbling` are one, for what
it sends must not keep the others from their answers.
In the runs of `MCChatSystem` a client has a `MaxRequests` of its own. A client that is out
of step needs a long response first, and a login, a message and its service after that:
without the exceptions for `oversize` in the properties, TLC finds a response read for
another request after three requests, a login under a name that was not verified and the
server ended by SIGPIPE after four, and a message in service under such a name after five,
which is the bound of `framing`. Units 1, 2 and 3 are a value that fits, one that fills the
buffer, and one that is cut; a piece from the inside needs a unit that is neither the
first nor the last, hence 3. Connections share the server process, its descriptors and the service.
One client is enough for `framing`: what others do to it is that the server dies of their messages, is
killed or restarted, accounts appear and go, and storage is lost, and all of that can
happen at any time in the model with one (dying of another's message is `Killed`); that
the properties hold with more of them is proved, but for the two of `waiting`. There a second
client stands for all that can be in the way of the first: it takes the one descriptor and leaves,
or stays, or comes too late itself.
In `searching` the texts are the empty one, one that two names of the first section begin
with, and one for the second section that ends in a space, since a search loads a file, is
answered at once (each of the two in the section of the other), or is for nothing. With two
timers or files under way an orphan timer meets an armed one and two files change places. The
row between the two that match does not: the rows the focus moves among have a gap. Two
sections are needed to change them.
The tree of `doc_tree` has a level more than the one of `files.html`, so that a folder can
be hidden with a folder between it and the row that was clicked, and a leaf beside folders
on each level.
Deadlock is checked in the runs of `MCClientHandler`: when the requests are used up a
handler can still accept and drop connections. It is not in those of `MCServer`,
where the script ends and clients leave for good, and of `MCChatSystem`, where they do too.
It is checked in those of `MCSearchBox` and `MCDocTree`: a reader can always do something.

**Fairness.** Threads are scheduled: weak fairness of each handler thread, the
acceptor and the controlling thread in `Server` (no thread can be disabled again and
again by others in a step it needs: what it waits for, a message, a thread's end or
the closed socket, stays). In `ClientHandler`, weak fairness of calling
`ExecuteQuery`, of its return (PostgreSQL answers, or the connection breaks), of
sending the response, of the crash and of the container's restart. Weak fairness is
enough because `ExecuteQuery` never waits: refusing is always possible when opening
is not. Nothing is assumed of clients, but in `stopping`: there some client leaves as long as one
is left (`ClientsLeave`), so each does at some time, without which `Stop` would wait for a silent
client for ever (`close` does not wake a thread in `recv`: that is the code, and no fault of the
assumption). In `ChatSystem`: a client in `recv` and a handler thread run, the service
answers (`RequestsEnd`), a process that is about to die dies, the container restarts; the acceptor
accepts while it has a descriptor left, and `WaitEnds` excepts who was not accepted before the
server was full. In `Server`, `RequestsAnswered` excepts who sent what could not be read.
Users need not do anything, the server need not be killed, PostgreSQL need not fail.
In `SearchBox`: a key that is down is released, timers fire, a file that was asked for
arrives or fails to, as a browser does. `SearchAnswered` supposes a reader who rests at
last (`ReaderRests`); before, every key puts the search off again.

**Findings.** Two statements of the sources are not what the code does.

1. `CommandsNotLoggedIn.cpp:49` tells the user that the name exists already on every
   `Error`. The run `create_error` shows an `Error` for a free name, the database
   being there: two registrations at once, one inside its transaction.
2. `Client.cpp:32` says each connection has a unique identifier returned by `accept`,
   by which the server communicates with the client. The run `socket_ids` shows two
   live handlers with the same number: `Stop` has closed the descriptor of the first
   and not yet set it to -1 when the acceptor, still running, is given it again.

## 4. Proofs

`ClientHandlerProofs` and `ClientHandlerStepProofs` prove for all handlers, names, passwords, salts, texts and any
bound on requests, from `HandlerAssumption` alone (the bound is a number and `NULL` is
not a request):

| Theorem | States |
|---|---|
| `Invariance` | `Spec => []IInv` |
| `TypeCorrect` | `Spec => []TypeOK` |
| `TablesStayConsistent` | `Spec => []TablesConsistent` |
| `IdsNeverRebound` | `Spec => []StaleIdsNeverRebound` |
| `VerificationSound` | `Spec => VerifyMatchesAccount` |
| `LossIsNeverSuccess` | `Spec => NoSuccessAfterLoss` |

None of the three state properties is inductive as it stands. A commit preserves
`TablesConsistent` only because the new id is above every id in use (`TablesOK`).
It keeps `StaleIdsNeverRebound` only because every id some handler holds was drawn
too and is below `nextUserId` (`HandlerOK`): so a row registered after a truncation
never takes it. That a returned id belongs to the name it was looked up for needs that
the open statement is the one the handler's request makes next (`query[h] =
Move(h).query`), which types the results as well. `IInv` is the conjunction of these;
TLC checks it in `messages`.

The argument has one lemma per action. `TablesStep` says what any statement does to
the tables. `Undisturbed` then says that a thread's part of the invariant survives a
step of another thread, if ids in the tables are only added above `nextUserId` or
removed, and each lemma is left with the acting thread (`Answered`, `Idle`).
`InDoubt` needs no case of its own: it is a commit, a rejection or a rollback.

The action properties take a step from a state of `IInv`. `Deciding` says how a thread
comes to its response: by the request itself, by a refused call, or by what a call
returns. `NulloptIsNoSuccess` then gives `NoSuccessAfterLoss`, for a broken connection
returns nothing but nullopt; and in `VERIFY_USER` it leaves the return of the second
read, whose row is the account at that moment (`VerifiedByLastRead`). Note that the
salt read first plays no part in this argument: a stale salt can only make the
comparison fail.

`ClientHandlerRefinement` proves that the handlers implement the abstract service:

| Theorem | States |
|---|---|
| `LookupsLast` | `Spec => []RefinementInv` |
| `Refinement` | `Spec => ServiceRefined` |

The hypotheses of both are `HandlerAssumption`, `DataAssumption` (`NULL` is no password, no request
on the wire and no response; salts, hashes and ids hold no apostrophe) and `NullIsNoRows`
(`NULL` is no set of rows; TLC has no way to evaluate that, so it is a hypothesis of the
theorems and not an assumption of a module). The safety properties above say nothing of
answers that are wrong the other way, an `Error` without a reason or an effect behind one. For
those the proof needs `RefinementInv` beside `IInv`: a lookup that failed had a reason that
lasts, and one that found something would find the same now, unless another request was there
at the same time (`LookupsOK`); requests at the same time know of each other; a row's salt is
the one of its hash; no request outlives the process. Opening a transaction, and the first
read of `VERIFY_USER`, are nothing to the service. What a request does, it does when its last
call returns: `Succeeds`, `Fails` and `IsLost` are the three ways a call comes out, and the
lemmas `CreateUserStep` to `SendMessageStep` match each with an action of `ChatService`:
served; `Refuse` with its `Reason`; `RefuseAfterChange`. A lookup of `SEND_MESSAGE_TO_USER`
that finds nobody is `Miss`, which is what makes `CrashStep` a `GoDown`. `OneCall`, `TwoCalls`
and `ThreeCalls` say what the `Handle...` functions call and make of the results; `Registering`,
`Delivering` and `Clearing` what the statements do to accounts and mail.

`ChatSystemProofs` proves for all clients, names, passwords, texts, lengths of values and
bounds on requests, from `ClientAssumption` (the bounds are numbers, lengths are positive,
and some value fits the buffer) and `SystemAssumption` (`NULL` is neither a name nor a request, and `Capacity` is a number):

| Theorem | States |
|---|---|
| `InvariantHolds` | `Spec => []IInv` |
| `TypeCorrect` | `Spec => []TypeOK` |
| `ClientsInStep` | `Spec => []InStep` |
| `LoginsVerified` | `Spec => []LoginVerified` |
| `MessagesVerified` | `Spec => []SendersVerified` |
| `PipesHold` | `Spec => []NoBrokenPipe` |

`InStep` says something of responses on their way, but a response is what a handler makes
of a request, and a request what a client sends when the one before is over. The
invariant therefore follows a request around: as long as no response filled the buffer, a
client has at most one under way, and it is in one place only, on its way (`Asking`), in
service (`InService`) or answered (`Answered`), whole and with the number of the command
that waits. `Carried` and `Truthful` carry along what the login and the sender rest on: a
sender is a name verified on this connection, and a response to `VERIFY_USER` that is no
Error means that its name is. `SocketsOK` relates the two ends of the connection, without
which a reset or the end of a stream could not be told from silence; `NoBrokenPipe` follows
from it and from `InService`. There is a lemma per action on the connection it moves
(`StepExecute`, `StepRespond`, ...), `Undisturbed` leaves all other connections alone,
and `IdleConnection` serves the steps that begin or end with nothing under way. What
`recv` returns of a stream is in `ReceivedWhole` and `ReceivedShort`: of a value that fits the
buffer, all of it.

`ServerProofs` and `ServerRacedProofs` prove for any number of clients and descriptors and any
script of `Start`, `Stop` and `Restart`, whenever they are called and whatever the acceptor is doing,
from `SocketsAssumption` (there is a descriptor, and a connection is none of `"free"`, `"listen"`
and `"none"`) and `ServerAssumption`:

| Theorem | States |
|---|---|
| `StopInvariance` | `Spec => []StopInv` |
| `TypeCorrect` | `Spec => []TypeOK` |
| `SoundAfterStop` | `Spec => []SoundBetweenStops` |
| `ClosesOwnSockets` | `Spec => OnlyOwnSocketsClosed` |
| `OwnAnswersAfterStop` | `Spec => OwnAnswersBetweenStops` |
| `RacedInvariance` | `RacedSpec => []IInv` |
| `NothingUsedAfterFree` | `RacedSpec => []NothingFreedInUse` |
| `CleanStop` | `RacedSpec => []StopLeavesNothing` |
| `OwnAnswers` | `RacedSpec => []NoCrossTalk` |
| `ThrowsWhenLingering` | `RacedSpec => StartThrowsOnlyWhenLingering` |
| `RacedIsServer` | `RacedSpec => Spec`: the history variable adds no behaviour, so that the theorems about `Spec` hold of `RacedSpec` |

`StopInv` is for the server as a whole. While `Stop` runs there are threads without a handler,
handlers without a thread, two handlers with the same number, descriptors that nobody has.
`StopInv` says what is left, as a function of how far `Stop` has come. A number in
`m_ClientSocket` is that of the handler's own
connection, except in the one step between `close` and -1 (`StopDescriptors`): that is why the
destructors, which call `ClientHandler::Stop` once more, close nothing that accept has given to
somebody else meanwhile. What accept has returned, and what nobody has accepted, is known to no
handler and no thread (`Fresh`), so that what the acceptor adds behind `Stop`'s back is whole.
After `m_ClientHandlers.clear()` every handler is one that came later and has its descriptor, after
`m_ClientThreads.clear()` so is every thread, because destroying any other ends the process
(`StopThreads`). The steps of `Stop` therefore leave either a dead process or a sound server,
whose remaining threads are those of connections accepted at the last moment.

`RacedInv` is for single connections: it says that the race between `Stop` and the acceptor
reaches no connection but those in `raced`. A connection outside of `raced` whose thread has not been
made is not in the acceptor's hand while `Stop` runs (`RacedOK`); so its thread is among those
that are joined, and it is joined before its handler is destroyed (`JoinsOK`). A number that a
thread has read and that was closed since is free, or was given to a connection that was
accepted during that `Stop`, hence in `raced` (`HoldersOK`): hence the one exception of
`NoCrossTalk`. Every accepted connection is held by a descriptor or by a thread in `recv`, and
when `Stop` has returned, by none but those in `raced`: hence that of
`ThrowsWhenLingering`. The exceptions are real: TLC violates each of the four properties if `raced`
is left out of it. There is a lemma per action; `LowestIsFree` is by counting (a
set of descriptors without a least one would inject into itself less an element), and
`Closes` says what closing leaves of connections.

`SearchBoxProofs` proves for any index, any texts and any bound on what is under way, from
`IndexAssumption` (there is a section, sections are numbered from 0 and have a file, files
have names and names have characters, nothing can be typed):

| Theorem | States |
|---|---|
| `PanelStaysConsistent` | `Spec => []PanelConsistent` |
| `NoEditForgotten` | `Spec => []EditsSearched` |
| `TypeCorrect` | `Spec => []TypeOK` |
| `RowsAnswerTheField` | `Spec => []AnswerCurrent` |
| `WindowStaysUnderMouse` | `Spec => NeverHiddenUnderMouse` |

Two more parts make the first two inductive (`IInv`): a key that puts a character in the field is
down only while the field has the focus (else its release, with the focus elsewhere, would
leave the edit uncompared), and a blank text with no key down has been compared, which clears
the last search. The others need `FullInv`. Its part `RowsOK` says that what is on its way, and
what is on display, was searched for; `AskedIn` that the last search of the box is the latest
search, and in the section selected, unless its file was lost. `AnswerCurrent` follows from them
and `EditsSearched` by what texts are to each other: a text without a space inside displays the
same rows with its last spaces and without (`SameRows`), and a text of spaces alone is never
searched for (`NoLeadingBlank`). That exception is in `AnswerCurrent` because it is false without: a file on its way
when the text is blanked puts its rows under it.
The type of `item` needs of the rows that the places of those that match are numbers from 1,
so that `NavNext` and `NavPrev` find one of them or none (`RowPlaces`, `NavRow`): the smallest
above and the greatest below are there by the well-foundedness of `<` on the natural numbers
(`LeastOf`, `GreatestOf`). `WindowOK` adds to the types that no hide timer is set while the
mouse is over the window, which is `NeverHiddenUnderMouse` in terms of states. Each part has a
lemma for its step (`RowsStep`, `ItemStep`, `TimersStep`, ...).

`DocTreeProofs` proves for every tree

| Theorem | States |
|---|---|
| `TypeCorrect` | `Spec => []TypeOK` |
| `IconsStayTrue` | `Spec => []IconsTrue` |

from `RowsAssumption`, `FirstAssumption` and `TreeAssumption`, which say that rows under a
row are deeper, that what is under them is under it too, and that two rows with a row in common
under them are one above the other. `IconsTrue` is inductive, with the type of the two variables.

**Checked by TLC only:** that the orphans among the key timers are at most `MaxPending`, which takes
the cardinality of a bag, a recursive operator; and all liveness, which is out of this
prover's reach.

## 5. Not modelled, and the plan

Done, in this order: the database and the handlers (the core: it has the state that
lasts and most of the concurrency), the service they implement, the invariant, its proof
and the proof of the refinement; the server's life cycle, with
proofs; connections, clients and the whole of them, with proofs;
the scripts of the documentation that keep a state, with proofs; what is still safe when the
server is stopped while connections arrive, with proofs.

Not modelled:

* `JsonHandler`'s conversions of 2D arrays and their printing: data and layout only.
* `CLI` at the end of standard input: `getline` fails for ever, so the loop prints the menu
  for ever. Every round leaves the state as it was; there is nothing for a model to tell apart.
* The test of the OpenSSL version, which only prints.
* Of the pages: `toggleVisibility`, `toggleInherit` and `codefold` of `dynsections.js`, each
  of which flips elements that nothing else changes; the clipboard button, which has an icon
  and a timer; the menu of `menu.js`, whose state is a checkbox; jQuery, a library.
* Building, docker images and the database's creation scripts except for the schema (no
  state of their own), formatting of output, the wording of the menu, and the environment
  variables with host and port.
