# LuaGuardia (lua_sgx): a TLA+ model

LuaGuardia offloads calls of Lua functions from a client to a server, where the
function runs in a Lua VM, either inside an SGX enclave or on the host. The
client wraps the functions it wants to run remotely; calling a wrapped function
sends the call over TCP, encrypted with a key the client shares with the enclave
if it asked for that, and returns what the remote function printed.

## 1. Inventory

| Component | Source | State | Operations |
|---|---|---|---|
| Client library | `lua_client/lclient.lua`, `lua_client/utils.lua`, `lua_client/native_client/src/client.c` | the config (one connection per worker: socket, AES key), mode, module file | `connect_to_worker`, `lhandshake`, `send_modules`, `offload` (one call), `close_worker` |
| Server process | `App/App.cpp` | `welcome_socket`, `new_socket`, `encryption_mode`, `unique_eid`, `code_len`, timers | `main`'s accept loop, `receive_modules`, `spawn_lua_enclave`, `spawn_lua_og`, `send_timers` |
| Network code of the server | `App/nw.cpp` | the stream positions | `l_accept`, `recv_num`, `recv_data`, `recv_file`, `ocall_send_packet` |
| Enclave host glue | `App/funcs.cpp`, `App/ocalls.cpp` | enclave ids, file descriptors | `l_setup_enclave`, `l_setup_client_handshake`, `close_open_fds`, the ocalls |
| Enclave | `Enclave/Enclave.cpp`, `Enclave/lua.cpp` | key pair, client key, symmetric key, `enclave_bootstrap`, `L`, `server_response`, the `getc` buffer | `ecall_init`, `ecall_gen_pkeys`, `ecall_register_client`, `ecall_send_aes_key`, `ecall_execute`, the stdio shim |
| Host VM | `App/lua_lib/lua.c`, `App/lua_lib/lbaselib.c` | a Lua state per request, the file `output` | `lua_main`, `print` |
| Untrusted disk | - | `code.lua`, the uploaded module file, `output` | written by the server, read by the VM |
| Collector of the enclave's Lua VM | `Enclave/lgc.cpp`, `lgc.h`, `lfunc.cpp`, the barriers in `lapi.cpp`, `lvm.cpp`, `ltable.cpp` | colours, gray and weak lists, `allgc`, `finobj`, `tobefnz`, `sweepgc`, `gcstate`, upvalues, `twups` | `luaC_step`, `luaC_fullgc`, the barriers, `luaC_newobj`, `luaC_checkfinalizer`, `luaF_findupval`, `luaF_close`, `lua_upvaluejoin` |
| The rest of the Lua VM, TweetNaCl, benchmarks, macro programs | `Enclave/l*.cpp`, `App/lua_lib/`, `Enclave/dh/`, `macro/`, `libs/` | - | vendored or workloads |

How they interact: client and server exchange ints, raw keys and packets (an int
length and that many bytes) over one TCP connection per session; nothing on the
wire says what a unit *is*, so both ends must agree on the position in the
protocol. The server is one thread: it serves one session from accept to close
while others wait in the accept queue (`listen(fd, 1)`). It calls the enclave
synchronously (ecalls), the enclave calls back (ocalls) to write result packets.
Sessions share the process's globals, the disk and the file names on it one after
the other.

What is hard here: a peer that goes away at any byte; errors that are checked only
under `DEBUG`, so that the release build continues with stale or uninitialised
values; an enclave that aborts in the middle of a request; a garbage collector whose
steps come between any two operations of the running program; state that survives
from one request or one session to the next; a single-threaded server on which
every client waits; and several servers each client connects to in turn.

What must hold, by component:

* client: a call returns the output of that call; what it uploaded under a key no other
  session is handed, nor is it handed any other's; the two ends stay in step;
* server: it serves each session to its end, does not die or leak while clients
  behave, and what a misbehaving client can do to it is known exactly;
* enclave: one per session (mode 1) or request (mode 2), destroyed after it, never
  used after; its key is the session's; its state does not leak between requests;
* collector: nothing a request's program can still reach is freed, whatever it does
  between two steps of the collector; garbage is freed and finalizers are called;
* the composition implements an abstract remote-call service.

## 2. Plan

Order: what the whole service promises first, then what the modules of that model
take for granted, then what lies around it.

1. **Core** (done): `Wire`, `Client`, `Enclave`, `Server`, composed by `LuaGuardia`,
   refining `RemoteCalls`; instances in `MCLuaGuardia`; proofs in `LuaGuardiaProofs`; `Protocol`,
   the joint position of both ends of a connection, with the proofs about it and of the
   refinement in `ProtocolProofs`.
2. **Packets** (done): `Framing` refines `PacketChannel`; this is what allows `Wire` to
   treat a packet as one unit. Proved in `FramingProofs`.
3. **The server's descriptors** (done): `FdTable`, proved in `FdTableProofs`.
4. **The stdio shim** (done): `EnclaveStdio`, proved in `EnclaveStdioProofs`.
5. **Several servers** (done): `Workers`, instances in `MCWorkers`, proofs in
   `WorkersProofs`: clients that connect to several servers in the order of their config
   file (`utils.lines_from`), and when that cannot end in a circle of waiting.
6. **The collector** (done): `Tricolour`, what the incremental collector promises whenever
   program and collector take turns, with proofs in `TricolourProofs`; `Collector`, its lists,
   sweep pointer and work lists, which implements it, with proofs in `CollectorProofs`; instances
   in `MCTricolour` and `MCCollector`.
7. **Chunks** (to do): `decrypt_chunks` and `encrypt_chunk` as loops, with the partition
   of the text into chunks as the loop invariant, proved.
8. **Framing with split ints** (to do): an int as four elements of the stream.

The safety properties of the passing runs that need no fairness are proved, except where section 5 says otherwise.

## 3. Modules, state and actions

| Module | Models | State | Actions |
|---|---|---|---|
| `Wire` | the connections, the accept queue, units and packets | `c2s`, `s2c`, `fin`, `rst`, `up`, `backlog` | operators: `SendUp`, `TakeUp`, `EofUp`, `ResetUp`, ... |
| `Client` | `lclient.lua`, `client.c`, one record per session | `cli` | `Connect`, `SendPublicKey`, `RecvServerKey`, `RecvHalf`, `SendModules`, `Call`, `RecvResponse`, `RecvTimers`, `Close`, `Fail`, `Crash`, `CrashConnecting` |
| `Enclave` | the globals of `Enclave.cpp`, ecalls as functions on them | (kept by `Server`) | operators: `EcallInit`, `EcallSendAesKey`, `EcallExecuteStart`, `Main`, `EcallExecuteEnd`, ... |
| `Server` | `App.cpp`, `nw.cpp`, `funcs.cpp` | `pc`, `cur`, `encryption_mode`, `code_len`, `unique_eid`, `live`, `enclave`, `disk`, `fresh`, `ran` | `Accept`, `RecvMode`, `Handshake`, `RecvCount`, `RecvModule`, `RecvCode`, `Execute`, `ExecuteOnHost`, `SendTimers`, `EndSession` and their failures `UnknownMode`, `KeysLost`, `ModuleMissing`, `Spin`, `UnsetLength`, `ExecuteFails`, `HostError`, `ResultLost`, `TimersLost` |
| `LuaGuardia` | the composition | all of the above | `Step(s)`, `Kill(s)`, `ServerNext` |
| `Protocol` | an invariant of the composition | - | - (`UpFits`, `Shakes`, `Turn`, `EnclaveFits`, ...: what fits together) |
| `RemoteCalls` | abstract: calls executed at most once, in order, each answered with its own output | `calls`, `ran`, `returned`, `stopped` | `Call`, `Execute`, `Return`, `Stop` |
| `PacketChannel` | abstract: packets in order, whole, until the sender is gone | `sent`, `got`, `closed` | `Send`, `Receive`, `Close`, `ReceiveCut`, `ReceiveNothing` |
| `Framing` | the read and write loops of a packet | `packets`, `spc`, `sbytes`, `stream`, `waits`, `rpc`, `number`, `buffer`, `received` | `SendNumber`, `WriteBytes`, `Leave`, `RecvNumber`, `ReadBytes`, `EndAtLength`, `EndInPacket` |
| `FdTable` | the process's descriptors | `fds`, `mode`, `phase`, `conn`, `opens`, `crashed` | `Accept`, `RecvCode`, `LoadFile`, `OpenData`, `CloseData`, `EndRequest`, `AbortRequest`, `EndSession` |
| `EnclaveStdio` | `fread`, `getc`, `ungetc` of the enclave under `liolib.cpp` | `stream`, `counter`, `getc_buffer`, `reading`, `got`, ... | `ReadChar`, `TestEof`, `ReadChars`, `ReadAll`, `NextRequest` |
| `Tricolour` | the collector as a graph that is coloured, swept and changed by the program | `kind`, `key`, `val`, `up`, `at`, `cell` (the heap), `stack`, `color`, `gray`, `grayagain`, `touched`, `twups`, `gcstate`, `finobj`, `tobefnz` | the program's `NewObject`, `NewClosure`, `Load`, `Drop`, `StoreTable`, `StoreBox`, `StoreThread`, `SetUpval`, `UpvalueJoin`, `CloseUpval`, `SetFinalizer`; the collector's `Restart`, `Propagate`, `Atomic`, `Abandon`, `Sweep`, `SweepEnd`, `CycleEnd`, `CallFinalizer` |
| `Collector` | the same with the collector's own lists and loops | `Tricolour`'s heap and colours, and the lists `allgc`, `finobj`, `tobefnz`, `allweak`, the place `sweepgc`, `gcstate`, `full` (a full collection is under way) | `NewObject`, `CheckFinalizer`, `Access` (the rest of the program), `Restart`, `Propagate`, `Atomic`, `SweepStep`, `SweepEnd`, `CycleEnd`, `CallFinalizer`, `FullGC` |
| `Workers` | `lines_from`, `do_bench`, `close_worker` over several servers | `config`, `modes`, `round`, `at`, `pc`, `queue`, `serving`, `open` | `Connect`, `Handshake`, `Use`, `Close`, `Exit`, `Accept`, `EndSession` |

How the code became actions:

* An action of `Server` goes from one blocking read to the next: what the server does in
  between (creating an enclave, the ecalls, writing a file) nobody else can observe,
  except the packets, which leave in the order they are written. `Execute` and
  `SendTimers` are two actions because a client may act on the result before the
  timers come.
* An ecall is an operator from enclave state to enclave state, because the host calls
  them synchronously; `Server` composes those of one handler in their order.
* Every check that is under `DEBUG` is absent: the model is of the build without it.
  That is why an error has an action that goes on with what the variables hold
  (`RecvMode` at end of file, `UnsetLength`, `ExecuteFails`).
* `code_len` uninitialised is a choice: it may be positive (the read spins), zero, or
  negative.
* A read at end of file returns 0 for ever, a read after a reset fails once. Writes to
  a client that has closed are swallowed until the reset arrives, and may kill the
  server from the moment it has closed.
* Text is abstract: a request is the record of its session, its call number and whose module
  file it read; an encrypted text is the text and the number of the
  key; decrypting with another key gives nothing readable. A Diffie-Hellman box is
  opened by the matching pair only.
* `Main` prints what the request says and whose text it found in the module file
  (`Printed`); a function that opens no file shows less. The server never deletes that file, so a request of a session that
  uploaded nothing finds what an earlier session left; in the enclave of mode 1 it is
  decrypted with the session's key, so that another's is no text. Module files are modelled
  as one file, as if all clients used one name.
* A packet that its sender left unfinished: in `Framing` the client hands on as many
  characters as were announced, the missing ones zero (`EndInPacket`), or nothing if
  the number itself did not come; whoever called it cannot tell such a packet from a
  whole one.
* A Lua error is a choice of `Server` when `LuaErrors` is TRUE: any request may raise one.

Mutants: next to a definition stand variants of it with a plausible slip, marked
`Mutant`. No specification uses them; they show that the properties can fail.

## 4. Runs

| Run | Instance | Question |
|---|---|---|
| `luaguardia` | 2 sessions, modes 0-2, up to 2 calls each, 2 enclave ids, nobody fails, fairness; deadlock checked | Do the ends stay in step, do keys agree, does no request abort its VM, do both never wait for each other, is every session served to its end and every call answered? |
| `faults` | the same, clients die anywhere, ask for an unknown mode, and send code that raises Lua errors | Is every connection where the protocol can be, what does a call return then, does no enclave leak, is text uploaded under a key seen by no other session, is it still `RemoteCalls`, and does the server come back to `accept` unless it is dead, spins or waits with a client after an error? |
| `no_result` | Lua errors, nobody dies | violated: after a Lua error the timers are taken for the result |
| `framing` | either receiver (`waits`), packets of 0-3 bytes, 3 packets, room for 3 elements | The loops deliver packets whole and in order over any splitting; only the last one, if the sender left inside it, ends in zeros |
| `fds` | 17 descriptors, 5 files opened between two cleanups (those of the boot among them), unbounded sessions | Sockets are kept, what is missed does not add up |
| `fds_left` | the same | violated: a file stays open after the cleanup |
| `stdio` | texts of 0-6 characters, chunks of 2, buffer of 4 | Where does the shim read the text as the C library does? |
| `stdio_getc` | the same | violated: reading past the end starts again |
| `workers` | 2 clients, 2 servers, all configs of 1-2 lines, all programs of 1-2 `do_bench` calls in modes 0 and 1, fairness | When does every client end, and who holds a server waits only for later ones? |
| `tricolour` | 3 objects, 2 upvalues, one object with a finalizer at a time (`MaxFin`) | Is nothing that can be reached ever freed, and do the colours and lists keep the invariants that make it so? |
| `collector` | the same with `SweepMax` 1, fairness | Do the lists and loops implement `Tricolour`, is each object in one list, is garbage freed, are finalizers called, do emergency collections end? |
| `collector_live` | two tables and a userdata, 1 upvalue, 2 finalizers | violated: the program reads a value that is dead |

Why the bounds are enough. The server serves one session at a time: two sessions
are one before and one after, and, with a third place in the accept queue of no effect,
also one that waits. Two calls are the first, which finds the enclave new, and a
later one, which finds what the first left. Two enclave ids allow one that leaked to
be told from the live one. In `Framing` a packet of three bytes can be split at its
start, middle and end, and a stream with room for three elements blocks a writer
inside a packet and holds parts of two packets at once. In `FdTable` five files are
one more than the smallest number at which two are missed; `MaxFd` is above any
descriptor the run reaches. In `EnclaveStdio` six characters are three chunks and one
buffer and a half. In `Workers` two clients and two servers make every circle of two,
and a client that waits for itself; longer circles are excluded by the proof of
`WaitingAscends`. In `Tricolour` three objects are a root, what it
refers to and what that refers to: a barrier concerns an old and a new target of one holder; a
resurrection, an object and what only it reaches; an ephemeron, table, key and value; a
dead coroutine, itself, a closure and the value of the upvalue they share. Two upvalues allow
one to be joined to the other's cell. The kinds of the three objects (`MCKinds`) are chosen
so that each of these can happen; the theorems are for all kinds and any number. In `Collector` a
`SweepMax` of 1 lets the program come between any two objects of a sweep, where `GCSWEEPMAX` is 85
objects. Every bound is a constant of its module (`MaxFin`, `SweepMax`, `MaxCalls`, `MaxLen`,
`MaxPackets`, `Room`, `MaxFd`, `MaxOpens`, `MaxText`, `MaxReads`, `MaxBack`).

Symmetry is used in `no_result` (of `Sessions`) and in `tricolour`, which check safety only. Deadlock is not
checked where a system may stop: when the server has died or spins; in `Framing`,
whose sender need not send; and in `Workers`, where clients end, or wait for each other
when their configs allow it.

### Fairness

`LuaGuardia!FairSpec` is weak fairness of the server's next step and of each client's
next step: each is a process of its own that the operating system schedules, and a
step that is enabled (data has arrived, a place in the queue is free) stays enabled
until it is taken. `Step(s)` includes `Close(s)`: in the model a client with calls left
may close or call, with none left it closes, so that fairness makes every client
end, which a program that ends does. Nothing makes a client crash (`Kill` has no fairness). `Workers!FairSpec` is the same
for its clients and servers. `Framing!FairSpec`:
a `read` or `write` that can transfer something does; nothing makes the sender send.
`Collector!FairSpec` says that infinitely many steps are the collector's. Every allocation may
run one (`luaC_checkGC`), one is always possible, and a program that never ends allocates for
ever or does nothing that matters to the heap; which step it is the collector's state
decides, so that no more fairness is needed. An emergency collection waits for nothing.

### Findings

* `ResultsSentBack` (`no_result`): `execute_code_thread` ignores the status of
  `ecall_execute` (App.cpp:57), so a request that raises a Lua error sends no result
  although spawn_lua_enclave's comment says it "sends back the results"; the client
  takes the timers for the result, and then waits for timers that never come.
* `AllClosed` (`fds_left`): `close_open_fds` uses the number of open descriptors as
  the highest one (funcs.cpp:312), its comment says "Close all the open file
  descriptors".
* `GetcNextChar` (`stdio_getc`): `getc` returns to the second character after the
  end (Enclave.cpp:442), its comment says it returns "the next char from the buffer".
* `ValuesLive` (`collector_live`): `udata2finalize` takes an object off `tobefnz` (lgc.cpp:791) without
  moving `sweepgc` away from it, as `luaC_checkfinalizer` does; when it is called between two
  steps of the sweep of `tobefnz` for just that object, the sweep goes on in `allgc` and
  leaves the rest of `tobefnz` black. What is black is not marked, so the next cycle does not traverse it, and
  what only it refers to is dead, and freed, although the program can get at it: `checkliveness`
  (lobject.h:190) asserts that no value that is moved is dead. With the real `GCSWEEPMAX` this takes
  more pending finalizers than one sweep step handles. The run `collector` has one object with a finalizer
  at a time, so that the sweep never stops inside `tobefnz`; section 5 says of `Spec` itself when it does.

## 5. Proofs

`LuaGuardiaProofs` holds two theorems, for every set of sessions, modes, enclave ids,
number of calls and length of the accept queue, with `Crashes` and `LuaErrors` either
way. The assumptions are those on the constants: `NoSession \notin Sessions`, and the
types of `Backlog`, `Modes`, `MaxCalls`, `Crashes`, `LuaErrors`.

* `TypeCorrect`: `Spec => []TypeOK`. Inductive by itself. What it rests on are lemmas
  about the streams (`StreamTypes`, `HeadTypes`: what a reader that found the tag it
  expects takes has the type its code uses) and the ecalls (`EcallTypes`,
  `MainType`, `ResultType`).
* `EnclavesNeverLeak`: `Spec => []OneEnclave`, inductive together with `TypeOK`. The point is
  that `unique_eid` is one global, that `EndSession` and `SendTimers` are the only
  ways out of an enclave's life, and that every failure in between leads to one of
  them or ends the process. That is what `OneEnclave` says by control point.

`ProtocolProofs` holds, for the same constants:

* `ProtocolHolds`: `Spec => []Protocol`, the inductive invariant that ties the two ends of each
  connection together; and from it
* `ResponsesOwn` (`ResponseIsOwn`), `KeysHeld` (`KeysAgree`), `NeverAborted` (`NoSpuriousAbort`) and
  `ExecutedInOrder` (`RanInOrder`), with crashes and Lua errors allowed;
* `CallsAgree` (`CallsAccounted`) and `ImplementsRemoteCalls`: `Spec => RemoteCallsSpec`, the
  refinement of `RemoteCalls`;
* `KeyedTextIsPrivate` (`KeyedTextStaysOwn`): a result holds text of module files only of the session
  itself or, if the session is plain, of plain ones;
* `EndsInSync` (`InSync`) and `NoDeadlock` (`NoMutualWait`), assuming `~LuaErrors`: with Lua errors
  both are false, which is the finding below `no_result`. Clients may die in both.

Nothing on the wire says what it is, so each of these needs to know where both ends are. A client
writes its units in one order, so they have numbers (`Unit`); `Written` and `Reading` say how many it
has written and which the server reads next. `UpFits` says, also for a client that has died, that
the stream up are the units from `Reading` on, the last one possibly cut (`Line`), and that the code in it,
or in `code.lua` while it is executed, is that of the call after the ones executed: this is what
`RanInOrder` needs. `LiveFits` adds, for a client that is there, `Starts` (before the first request: the stream
ends where the client is), `Shakes` (the handshake: which end has which key, and the units down), `Turn` (the
places of both ends in a call and the stream down, with what a Lua error changes), `GotFits` (what the calls
have returned) and `EnclaveFits` (the enclave can execute the next request). Beside that `Protocol` needs
what relates sessions: the accept queue (`Queue`), keys (`Keys`: none is above `fresh`), why the server
may be down (`Excused`) and what clients read then (`Bereft`).

The proof is in two layers. The first lemmas, in `LuaGuardiaProofs`, are about values: if a record, two streams, a
place and an enclave fit, so do those after a move (`CodeSent`, `HandshakeDone`, `Executed`, ...). Those of
`ProtocolProofs` show that an action is such a move of one session: `ClientKeeps` for all of a client's,
one lemma per action of the server (`ServerKeeps`), `Unmoved` for the sessions that do not take the step.

The refinement maps what clients hold to the replies that are values, and needs that no call is executed or
answered twice. `CallsAccounted` says it: the numbers of a session's executed requests are the first
ones, each once, and a client has at most one call more than replies. A step of a client is then `Call` or `Return` or
changes nothing the service sees (`ClientImplements`); one of the server is `Execute`, `Stop` or nothing
(`ServerImplements`). The reply that is no value (the timers after an error) can only be the last one, which is why
`Replies` takes off the end of a sequence.

`KeyedTextIsPrivate` is about what clients were handed, and the file whose text that is may be an earlier
session's, long gone. The invariant `Private` follows the file instead: what is on its way up (`UploadSealed`)
and the one on the disk (`FileSealed`) is its owner's text under its owner's key, and under none only if
the owner is plain; a request is executed in the mode its session chose (`CodeMode`), so that an encrypted session
reads what its own key opens, and by `KeysAgree` no two sessions have one key; an enclave has no output from before
(`NoOutput`); what goes down (`DownReadable`) and what arrived (`GotReadable`) is then as the theorem says.
It needs `Protocol`, because only the places of the two ends tell a module from a request. A plain session does read the
module files of earlier plain sessions: the property says that this is all.

`WorkersProofs` holds, under the assumptions on the constants of `Workers`:

* `WorkersTypeCorrect`: `Spec => []TypeOK`.
* `WaitingAscends`: `Spec => []WaitsAscend`, where `WaitsAscend` is about encrypted clients
  with ordered configs. It looks at one state only, but needs to know how the state
  came about, which is the invariant `Order`: where a client is in its config
  (`Position`); that a served connection belongs to a line its client is past or
  shakes hands on (`Served`); that a queued one is queued once, not served, and its client waits in
  the handshake (`Queued`, `Once`), without which a server could end a session and
  find the same connection again; and that a client keeps what it has
  shaken hands on (`Held`). The order of the configs is used only in the last step,
  `WaitsForLater`. Both this and `AllEnd` say what is needed: with a mode 0 client
  among them even ordered configs can close a circle, because it holds a later
  server while it waits for its first one; and a second `do_bench` with two servers can
  wait for a server that still serves the connection of the first.

`FramingProofs` holds, for packets of any length, any number of them and any room:

* `FramingTypeCorrect`: `Spec => []TypeOK`, `SpinNeedsCut`: `Spec => []SpinsOnlyWhenCut` and
  `PacketsKeepTheirShape`: `Spec => ChannelSpec`, the refinement of `PacketChannel`.

Every element that crosses the socket has a place: packet `n`, element `i`. The invariant
says that the stream is a run of consecutive places, from the one the receiver reads next
to the one the sender writes next (`Lined`, `Run`), that the buffer holds the part of its packet
before the receiver's place, and that what was received are the packets before that
(`Faithful`). This is `InStep`. Once the sender is gone and the stream is empty, `Over` says what
`lrecv_response` may hand on: a packet of the announced length that begins with the characters that came and
has zeros for the rest, and nothing after it. A write adds one place at the end of the run
(`RunGrows`), a read takes those at its front (`RunShrinks`), and a read that completes a
packet is `PacketChannel`'s `Receive`, because the places before it are exactly one packet.

`FdTableProofs` holds `SocketsSpared`: `Spec /\ []Roomy => []SocketsKept`, and `LeftoversStayBounded`:
`Spec /\ []Roomy => []LeftoversBounded`, for any number of descriptors and files. `Roomy` says that three descriptors are free when the server opens one. It is a
hypothesis, because the code does not check for a full table: `accept` and `open` return -1 there and
the server goes on with it. In the run's instance it always holds. The
invariant says exactly which descriptors are the sockets', by phase; each action keeps
those (`SameSockets`), as a new descriptor is the lowest free one (`LowestIsFree`) and
`close_open_fds` passes over sockets.

That leftovers do not add up is less plain, because a cleanup may miss files of many sessions ago. If it misses k
files, which lie above the number c of open descriptors, then k + 1 descriptors up to c are free (`HolesHide`, by
counting). `Young` says of the files opened since the last cleanup that under each of them there are at most as
many holes as files were opened and closed meanwhile, since opening takes the lowest hole. So either all that
is missed was there before the last cleanup, where the bound held, or a young file is above k + 1 holes, of which
all but one (the connection, just closed) were files of this session; and `bootstrap.lua`, which is
under no such hole (`Anchored`), makes it one fewer (`FewMissed`). The bound is reached, in the
run as well.

`EnclaveStdioProofs` holds `TextIsRead`: `Spec => []ReadsText`, for a text, a chunk and a buffer of any length, as long
as a buffer holds whole chunks (`StdioAssumption`). The invariant `StdioInv` says that the code has read the first k
characters and that the host's stream is after them (`FileFits`), or `counter` is at the last of them
(`BufferFits`). An encrypted file that is not at its end is at the start of a chunk: this is why `fread`, which
starts the key stream anew at each call, decrypts what follows (`PlainFits`, with the arithmetic in `Multiple`), and
it is kept because only `read_all` reads there, whole buffers.

`TricolourProofs` holds, for any objects, upvalues and kinds, and any interleaving of
the program with the collector:

* `TypeCorrect`, `NeverDangling` (`NoDangling`), `TricolourInvariant` (`BlackToWhite`),
  `GrayIsListed`, `ThreadsListed` and `ColorsOfCycle`.

The inductive invariant `IInv` is `TypeOK`, `HeapInv` (nothing reachable is dead or free; threads with
open upvalues are listed; slots of one kind hold nothing of another; an open upvalue's thread
is allocated; what is free is empty) and `ColorInv` (black points to marked; gray is listed; colours
fit the phase; what is gray can be gray). That nothing reachable is dead cannot be kept up
by looking at reachability alone: at the atomic step it follows from the colours. What the
atomic step has marked is closed under every strong reference (`AtomicMarks`):
the black objects because they were traversed or their upvalues are touched and looked at again, the gray
ones because they are listed, threads because they are gray until the atomic step. The
closure is taken as the least closed set (`MarkAllClosed`, `MarkAllBound`), so no induction over
data is needed. From there sweeping frees only what is dead, and the program reaches
nothing dead, because it gets everything from what it reaches already.

`CollectorProofs` holds, for any objects, upvalues, kinds and number of objects swept in a step:

* `Implements`: `Spec /\ [][~Astray]_vars => MarksSpec`, the refinement of `Tricolour` by `Collector`, and
  `ListedOnce`: `Spec /\ [][~Astray]_vars => []OneList`.
* `ImplementsUnlessMany`: `Spec /\ []SweptAtOnce => MarksSpec /\ []OneList`. `SweptAtOnce` says when there is no such
  step: `tobefnz` holds at most `SweepMax` objects while it is swept. In the code that number is `GCSWEEPMAX`
  (lgc.cpp:42), 85 where a `TString` has 24 bytes: more finalizers than that have to be pending.

`Astray` is the step the code does not exclude: `udata2finalize` takes an object off `tobefnz` that `sweepgc`
points to. It needs two objects with finalizers. Then the sweep goes on in another list, and the next cycle can free what
the program still reaches (finding `ValuesLive`, run `collector_live`): without the hypothesis the refinement is false.
For `ImplementsUnlessMany` the additional invariant is `PassesBy`: the sweep of `tobefnz` begins at its head
and one step takes all of it, so `sweepgc` never rests at an object of it (`SweptInOne`), and only such
an object can be taken from under it (`NotAstray`). The instance of the run `collector` satisfies `SweptAtOnce`.

The invariant `CInv` is `Tricolour`'s `IInv` in terms of the lists and `ListInv`: every allocated object
is in one list, once (`Listed`), and what is before `sweepgc`'s place is white, as are the lists
swept before (`Progress`). Sweeping from a place replaces a part of a list by some of its members
(`SweepListIs`, `SweepToLiveIs`), which is `Tricolour`'s `Sweep` of those that are left out or turn white.

The atomic step is one step of `Tricolour`, which says what is marked as a least closed set (`MarkAll`); in `lgc.c` it is
a series of loops over work lists. They are functions on a record `h` of colours and lists, and keep
`Good(h, Q, c)`: everything that is marked and waits in no list is traversed (`Done`), that is, what it
refers to is marked (`Scanned`), or it is a table in the list for its kind (`Tables`); and nothing
is marked beyond what is to be marked in the end (`Bounds`). `c` says for each phase what was there before:
the first `propagateall` (`Propagating`), the remarking of upvalues and the second one (`Reaching`), and the
objects to be finalized (`Resurrecting`). A loop that has not ended has a smaller rank after each repetition:
`propagateall` has fewer objects to traverse or to mark (`Left`), `convergeephemerons` begins another pass only when
it marked something (`Rank`); so it ends within the number of repetitions the definition allows (`Repeats`). When
nothing waits, the marked objects are closed under references, and they are all in `MarkAll`, so they are `MarkAll`
(`PhaseEnds`). Two phases one after the other give `Reached` and `Resurrected`; what
`clearvalues` and `clearkeys` remove in between is what `Tricolour` clears (`FinishesIs`). The loops
are recursive functions over the naturals; what they do is proved by induction stated with a set for the predicate
(`Reaches`, `Iterates`), from the least element of its complement.

Only model-checked: the liveness properties (`AllEnd`, `PacketsArrive` and the others), because TLAPS proves
neither liveness under fairness nor facts about ENABLED.

## 6. Not modelled

* The rest of the Lua VM: compiler, interpreter loop, strings, tables as hash parts, libraries. For
  the server a request is one atomic execution that prints, or raises an error. A request
  that does not end is not modelled: the server would serve nobody else. The host's
  copy of the VM (`App/lua_lib`) has the same collector.
* Of the collector: strings and userdata that hold nothing; when a step is due (`gcdebt`,
  `gcpause`, `gcfinnum`: steps come at any time instead); the cache of closures in a prototype;
  metatables and the lookup of `__gc` (an object has a finalizer or not);
  `luaC_freeallobjects` when a state is closed; upvalues of the main thread, which
  are traversed with it; an emergency collection in the middle of an
  operation: any allocation may start one (lmem.cpp:90), also in `pushclosure` or `luaH_resize`, and in
  the model it starts between two operations; `luaC_fullgc` from `collectgarbage`, whose steps are those of
  the emergency kind up to `GCScallfin` and then call the finalizers; `upvaluejoin` of an unshared upvalue with itself.
* Third-party code and workloads that are offloaded or measured: TweetNaCl, `macro/` (darkhttpd, wrk2,
  snabb with LuaJIT and its assembler), benchmark scripts. They are most of the tree's lines and
  none of LuaGuardia's logic, so the model stands for a small part of the tree and
  for most of the program's own code.
* Ints are neither split nor read short. `recv_num` and `recv_number` make one `read` of
  four bytes; four bytes written at once arrive at once in practice.
* Values of the timers, wording of packets, names of modules, the wire format of
  an argument list.
* Writing from the enclave (`fwrite` is dropped in mode 1) and the ocalls that
  only pass on a call of the C library.
* A server that is restarted; a client of several servers that dies early (a session
  whose client dies is in `LuaGuardia`).
