# Formal models of ws-proxy and remote-access-server

TLA+ specifications of the two programs of this repository, model-checked with TLC
on small instances and, for every invariant and action property that holds, proved
with TLAPS for every value of the constants. Definitions are translated from the Go
source; `PROJECT.json` maps each one to the lines it stands for.

## The system

`ws-proxy` (internal/proxy) upgrades HTTP requests to WebSockets and bridges each
to a TCP target in the same pod. `remote-access-server` (internal/sshserver) is
that target: an SSH server on loopback that runs shells, commands, SFTP and port
forwards. They share no state; they meet only in a TCP connection.

| Part | State | Operations | What is hard about it |
|---|---|---|---|
| Proxy admission | `SessionManager.active`, metrics | acquire (CAS loop), upgrade, establish, release by defers | lost updates, leaked slots, order of the defers, int32 |
| Proxy session | context, two sockets, `writeMu`, `errChan`, `bridgeErr` | Run's select and defers, ping loop, max-duration and grace timers, bridge, two pumps | six goroutines, teardown order, peers that vanish or stall |
| Keepalive and proxy configuration | read deadline, ticker, settings | ping, pong, dial, validation | deadlines that run during the dial, dropped ticks, boundary values |
| Target prober | `proberStopped`, `proberDone`, context, health, gauge | start, stop, probe, record | start racing stop, a probe cancelled by the shutdown |
| Proxy HTTP server and main | listener, connections, `errCh`, signal | serve, upgrade, shut down, exit | a signal at any moment; hijacked connections are not waited for |
| SSH session limit | `sessions` | add-then-undo, release | refusals that count one another |
| SSH session | process, process group, pty master, watcher, resizer, exit status | start, copy, reap, hang up, kill, resize | a disconnect at any point, PID reuse, descendants |
| SSH server and main | listener, connections, channels, SFTP, `errCh`, signal | serve, drain, deadline, close, exit | a drain next to handshakes and new sessions |
| Reverse forwards | table of listeners, relays | open, cancel, watch, accept, relay | one table for all connections, keyed by address |
| Host key and start | file, temporary file, directory; environment, flags, mounts | configure, validate, load, generate, install, warn | crashes between the steps, storage that a restart wipes |
| Session command | environments, passwd entry | merge, fall back, look up the shell | what wins over what |

## Modules

Proxy:

* `ProxyAdmission` - `SessionManager` and every exit of `handleWebSocket`. A
  handler loads the counter and swaps it in two steps, so a CAS can fail. The
  counter has width `2 * Half`, for the code's 2^32. `SlotPool` is its abstract
  specification: a request is granted a slot, or refused, and gives it back.
* `ProxySession` - one session from `Session.Run` to the release of its slot: the
  goroutines are program counters, the channels sequences with their
  capacities, the mutex its holder. Time is left out: a timer fires at any moment
  after it was started. gorilla's rule that nothing can be written after a close
  frame or a failed write is `wsWriteErr`. Frames and chunks are numbers.
* `ProxyConfig` - `LoadConfig`: defaults, values that do not parse, validation.
* `Keepalive` - extends `ProxyConfig` with a clock for the part of a session where
  durations matter. The state holds the time left until each event, and time
  passes only while nothing is due. The ticker's channel holds one tick and drops
  the next; a ping waits for the write mutex, up to a deadline that was computed
  before; only a pong that the read pump handles extends the read deadline.
* `TargetProber` - start and stop callers, the probing goroutine, the recorded
  health and the gauge.
* `ProxyServer` - extends `TargetProber` to the whole process: main's select,
  `ListenAndServe` in its goroutine, connections that are in a request, idle or
  hijacked, `Shutdown` with its deadline, and the exit status.

SSH server:

* `SSHAdmission` - `acquireSession` and `releaseSession`; the addition and its
  undoing are two steps.
* `SSHServer` - extends `SSHAdmission` to the whole process: clients in a
  handshake or connected, their sessions and SFTP servers, the drain, its deadline,
  `Close` and the exit status. A client that finishes its handshake after the
  drain has begun is "late".
* `SSHSession` - the handler, `terminateOnDisconnect`'s watcher and
  `watchWindowSize`, with the command, one descendant and the number of their
  process group. `cmd.Wait` is two steps, as in os/exec: it reaps the process,
  then waits for the copies of the output. A number is free for reuse once the
  leader is reaped and the group is empty. `exitCode` turns the way the command
  ended, a code or minus a signal, into the status `told` to the client. The client
  may end its connection (`gone`) or only the session's channel (`closed`).
* `ForwardTable` - `loopbackForwardHandler`: requests of several connections,
  watchers and accept loops. Requests that have arrived are still handled when their
  connection is over. `closeForward` is two steps, because the listener is
  closed after the lock is released. `ForwardRelay` extends it with `relay`.
* `HostKey` - `loadOrCreateHostKey` for any number of servers on one path, with the
  death of a process (nothing of the file system is lost) and of the machine (only
  what reached the disk remains, and nothing on ephemeral storage). `abandoned` are
  the temporary files that a death or a failed `os.Remove` has left.
* `SSHConfig`, `ShellEnv` - the configuration, the loopback test, the test for
  ephemeral storage, and the lookup of shell, environment and directory, as
  operators. A path is the sequence of its components and the root's directory is
  the root; a variable that does not parse is `Junk`.
* `SSHStartup` - extends `HostKey` and `ShellEnv`: main and `New` under any
  environment, up to the sessions that would be served.

`MCKeepalive` and `MCStartup` give the environments of two runs. The theorems are
in `ProxyAdmissionProofs`, `ProxySessionProofs`, `KeepaliveProofs`,
`ProxyServerProofs`, `SSHServerProofs`, `SSHSessionProofs`, `ForwardTableProofs`
and `HostKeyProofs`.

In each module the section "Faulty variants" (in the configuration modules, the
operator before the one it varies) holds single steps changed the way a plausible
bug would change them. Each property is violated when the variant that
`PROJECT.json` pairs it with takes the place of the original.

## Runs

`tlc -config <run>.cfg <module>`, with the module that `PROJECT.json` names.

| Run | Instance | Shows |
|---|---|---|
| `admission` | 4 handlers, a configured limit of 10 that the width of 8 narrows to 2 | exact accounting, the narrowed limit, gauge within slots, each request counted once, refinement of `SlotPool` |
| `session` | 2 frames of any kind, 1 chunk | one writer at a time, order of both streams, a clean end loses nothing, complete teardown at release, no deadlock |
| `session_live` | 1 frame, 1 chunk | the session and all its goroutines end after the maximum duration, when the target is gone or the client has vanished; a target that does not read delays that at most to the maximum duration |
| `keepalive` | a unit of 5 s; settings around each other and the defaults; pings held up 0 to 2, answered after 0, 1 or 3 | a client that answers in time is never cut; a silent one is cut at the timeout |
| `proxy_server` | 3 connections | the process ends after a signal or a listener's failure; status 0 only after a signal and a complete shutdown, with no request unanswered; nothing probes after the stop; a shutdown is not an outage |
| `ssh_server` | 2 clients, 3 channels, limit 2 | exact accounting, the limit, a refusal needs contention, the drain spares connected clients, the process ends |
| `ssh_session` | pty and exec, 1 descendant, exit codes 0 and 3, one signal | no resize on a closed master, nothing left at release, faithful status, a disconnect frees the slot |
| `ssh_session_pid`, `ssh_session_group` | same | *violations*, see below |
| `forward` | 2 connections, 2 listeners, 2 ports, 1 relayed connection; requests also after the end of their connection | no open listener out of reach, the table holds open listeners only, a disconnect closes its forwards and relays |
| `forward_teardown` | 2 connections, 3 listeners, 1 port | *violation*, see below |
| `startup` | 2 servers, 3 keys, 2 crashes, 5 places for the key; some 430 other environments with one start | the path never holds a partial file, the key served is the one installed, an installed key is kept, temporary files are removed on every error path, a changed fingerprint was warned of, only loopback is served, sessions start at home |

Why the bounds are enough for the cases in question: more handlers or channels
than slots, so that several compete for the last slot and are refused at once; a
frame and a chunk suffice for a pump to be blocked in each of its calls, and a
second frame for order to matter; the settings of `keepalive` have every order of
interval, timeout, answer and hold, equality included, and silence is followed
beyond the longest timeout; three HTTP connections can be in a request, idle and
hijacked together; two listeners let a key be released and claimed again while the
first accept loop is still ending; two crashes allow one in an install and one in
the repeated install or in service. In `startup` the environments that decide
where the key is are explored with crashes and both servers, the others, on which
nothing else depends, with one undisturbed start (`Explored`). Its keys are
interchangeable, which is the symmetry used. Deadlock is checked except in
`forward`, `startup` and `keepalive`, where clients may stop asking, a server may
serve for ever and the clock is bounded.

### Where the code and its documentation disagree

* `ssh_session_pid`: `sessionCmd` is meant to make signalling a reaped PID
  impossible, but `reaped` is set after `cmd.Wait` returns, and `cmd.Wait` reaps
  first. The gap is long when an escaped descendant holds the output of an exec.
* `ssh_session_group`: AGENT.md says a disconnected client's processes must die.
  If SIGHUP ends the command, the watcher is stopped before its SIGKILL, and a
  member of the group that ignores SIGHUP and does not hold the output lives on.
* `forward_teardown`: the watcher of a cancelled forward stays until its connection
  ends and then closes, by key, whatever forward has that key by then.

Three more disagreements have no run of their own. The passing properties are stated
so that they say what the code does there:

* The repository's README.md:115 says that the server warns when the key would not
  survive. `hasEphemeralHostKeyPath` knows the root's device and a list of prefixes;
  a key on another file system that a restart empties, a tmpfs or an emptyDir mounted
  elsewhere, gets no warning, and its fingerprint changes silently. The run has
  such a host (`HomeWiped`), and without the disjunct `Unlisted` TLC finds
  `FingerprintStable` violated on it.
* internal/proxy/config.go:44-45 says that connections are rejected at
  `MaxConnections`. A value that does not fit int32 is narrowed, and requests are
  refused below it.
* The comment on `withPasswdFallback` says that the host key's path "falls back the
  same way". An empty `HOME` falls back to the passwd entry for the key's path and
  not for sessions, which then start where the server is; `SessionAtHome` states
  both.

### What the passing properties except

Each exception is a conjunct or a disjunct of the property, not a part left out of
the model.

* A target that does not read blocks the pump that also reads pongs, in a write
  without a deadline: a vanished client is then noticed only at the maximum
  duration (`HeldUp` in `SessionEnds`, `reader = "writing"` in `DeadPeerCut`).
* `HealthyKept` asks for an answer within timeout minus interval, less what the dial
  took, because the first deadline runs during the dial; and for a ping that does
  not wait as long as `writeWait` for the mutex, because its deadline is computed
  before. Data frames do not extend the deadline. A `PING_INTERVAL` that is not
  positive passes `LoadConfig` and makes `time.NewTicker` panic (`"panicked"`).
* ws-proxy exits without waiting for hijacked connections: `RequestsAnswered` is
  about requests, and a session may be cut (`"cutSession"`). When both containers
  of a pod are told to stop, that also ends what the SSH server would have drained.
* The drain does not know a client that is still in its handshake (`DrainSpares`),
  and main does not wait for the watchers: a command that ignores SIGHUP may outlive
  the process.
* A listener whose own `Accept` failed is left open and out of the table
  (`Abandoned`).
* A descendant that left the process group and holds the output keeps the slot
  (`EscapedHolder`). A client that closes only its session's channel does not end the
  context that `terminateOnDisconnect` waits for: nothing is signalled, and a silent
  command keeps its slot while the connection lasts (`DisconnectFreesSlot` is about
  `gone`, not `closed`). A command that closes its terminal and runs on is hung up by
  the close of the master, and the client is told that (`StatusFaithful`).
* A channel can be refused while a slot is free, because of another refusal that is
  not undone yet (`RefusalNeedsContention`).
* `LimitHolds` and `ImplementsPool` are about the narrowed limit. That this lets in
  no more than was configured is a theorem (`NarrowingNeverAdmitsMore`) for values
  of at least -2^31; a smaller one can become positive.
* Once a signal has come, main's `select` may take it although an error of the
  listener is waiting, which is then not reported: `UnaskedExitIsError` of both
  programs allows status 0 in that case.
* The gauge and the recorded health are two writes, and may differ between them
  (`GaugeAgrees`).
* Two first starts that overlap on one path both install a key, and the first then
  serves one that is no longer there (`overlapped`).
* A process that dies between the rename and the flush of the directory is followed
  by a start that serves the key without flushing, so that a crash of the machine
  can still lose it (`KeyKept` protects flushed keys, `FingerprintStable` excepts
  `unflushed`).
* Temporary files left by a crash, or because `os.Remove` failed on an error path
  (its result is dropped), are never removed later: `abandoned` in `NoLitter`.
* `SessionAtHome` says where sessions start if the home directory exists once `New`
  has made the key's directory (`Dirs`); a home that does not, with a key kept
  elsewhere, leaves them where the server is.

## Fairness

Safety is checked without fairness. For liveness: goroutines that can run are
scheduled (weak fairness); a `sync.Mutex` is handed to a waiter that keeps losing
(its starvation mode) and a `select` does not overlook for ever a channel that
stays ready, although it may pick another at any one time (strong fairness);
tickers, grace timers and deadlines do expire, those of a probe and of both
shutdowns included; an operation on a connection that is over fails. Not assumed:
any step of a client, a target, a user's command or its descendants; that a signal
comes; that the maximum duration passes; that a write to a closed channel is
attempted.

## Proofs

`tlapm <module>.tla` checks them. The assumptions are those the modules declare:
finite sets of handlers and channels, numbers for limits, durations and bounds,
`NoKey` and `None` distinct from what they stand beside, wildcard and loopback
addresses disjoint, a command's own signals other than the server's two, and the
roles of the two callers of the prober in `ProxyServer`. About the hosts on which a
server starts (`SSHStartup`, `SSHConfig`): every path is on some file system, the
root is mounted, mounts have absolute paths, the home directory and a valid key's
path are paths, and the key's is not a mount point (`InputsAssumption`; any of the
mounts may be one that a restart wipes); an environment gives `HOME`, `USER`,
`LOGNAME` and `SHELL` a value or `Unset`, which is not the empty value, the passwd
entry has a home, and what a client sends is a list of settings (`EnvsAssumption`);
and the prefixes are paths (`PrefixesAssumption`). TLC evaluates all of them on the
instances of the runs.

* `ProxyAdmissionProofs`, for any finite set of handlers, any limit and width. The
  inductive invariant joins the type invariant, the accounting (the counter is the
  number of holders), the limit, the gauge (the number of handlers between its two
  updates), what a request has been counted as at each location, and a bound on
  what a handler has loaded before its swap; the limit is kept because a swap
  succeeds only on the value that was tested. The same invariant gives the
  refinement of `SlotPool`. `NarrowingNeverAdmitsMore` follows from the limit and from
  the conversion, which never gives more than it was given from -2^31 on.
* `ProxySessionProofs`, for any number of frames and chunks. A goroutine that writes
  to the WebSocket holds the mutex; and for each location of `run`, what the defers
  before it have already done. The same invariant shows that a doomed session stays
  doomed, which is what lets `SessionEnds` be stated, and checked, as `[]<>`.
  `StreamsInOrder` and `CleanEndLosesNothing` speak of what was delivered and are not
  inductive: `FramesInv` and `ChunksInv` add what is between the peers, that what a
  pump has written, what it holds and what is unread are together 1 to n in order
  (`Pending`, for the client's side, where text and oversized frames are in between),
  and that a pump returns nil only when nothing of that is left. `ResultsInv` counts:
  the results in `errChan`, with the one the bridge took, are those of the pumps
  that have sent theirs. From it also follows that the capacities of both channels
  are enough for every send to find room (`SendsNeverBlock`).
* `KeepaliveProofs`, for any environments and durations. `HealthyKept` is not
  inductive: the invariant says when the next pong comes at the latest, from where
  the ticker, the tick in its channel and the ping loop are (`NextPong`), and that
  this is before the deadline (`Ahead`); for a silent client, that what is left of
  the deadline and the silence together are at most the timeout (`Silence`).
* `ProxyServerProofs`, for any number of connections, and for the prober of callers
  of start and stop. The channel `proberDone` tells whether a goroutine runs or is
  about to, at most one start is, and a stop that found one stays until it is
  closed. The process takes only steps of the prober's specification
  (`ServerDrivesProber`), so that its invariant carries over; on top of it, main
  drains only after a signal and with `inShutdown` set, which closes the listener, and
  nothing but a signal closes it without an error.
* `SSHServerProofs`, for any finite set of channels, any clients and `MaxSessions`,
  including no limit. The count is not the number of sessions served but of those
  and of the refusals still to be undone; with that, the limit and the condition
  of a refusal follow. The process implements that specification (`ServerAdmits`);
  its own invariant orders signal, drain, deadline and close.
* `SSHSessionProofs`, for any exit codes and signals. The properties depend on how
  far the handler has come; the invariant says what it has started, stopped and
  joined at each location, and, for `StatusFaithful`, how the command has ended and
  that a signal of the server was preceded by the client's disconnect or the close
  of the terminal; a client that has closed its channel is told nothing (`Unheard`).
  A lemma bounds what a signal can do to the processes.
* `ForwardTableProofs`, for any connections, addresses, ports and listeners. A step
  that closes a listener must know that it is no longer in the table, and a step
  that records one that it replaces nothing: the invariant follows each listener
  from the request that opens it to whoever closes it, and uses that two open
  listeners are not bound to one address. `RelaysLeaveTable` carries this over to
  `ForwardRelay`.
* `HostKeyProofs`, for any servers, keys and number of crashes. Whatever the path
  names, now or after the death of the machine, has its content on the disk, because
  the flush comes before the rename; and a start that renames found no key, so that
  unless first starts overlapped the disk never names another file than the kernel.
  `StartupHandlesKey` carries this over to `SSHStartup`, and `OnlyLoopbackServed` is
  proved there for every environment, since nothing listens under a configuration
  that was not validated. `FingerprintStable` needs that storage which loses the key
  is recognised (`EphemeralSeen`): if the key's own file system is emptied by a
  restart, then the nearest existing ancestor of its path is on the root's device or
  the path lies under a listed prefix, unless that file system is `Unlisted`. With
  it, `FingerprintInv` says that a server whose key a restart takes has warned
  before a client sees the key, and that on a volume the key clients have seen is
  still the one at the path, unless first starts overlapped or it was never flushed.
  `NoLitter` needs that the file of a start under way is its own and that a rename
  consumes it. `SessionAtHome` needs that `New` has made the home directory when the
  key is at its default path (`DefaultPathMakesHome`), and what `mergeEnv` computes
  for a client's list of any length: each name gets the last value the client gave
  it, else the server's (`MergeIs`). The fold is followed along the prefixes of the
  list; the first prefix where it would differ from the closed form cannot exist
  (`LeastNat`, from the library's theorem on least elements).

Only model-checked: the liveness properties (`SessionEnds`, both `ProcessEnds`,
`DisconnectFreesSlot`, `DisconnectClosesForwards`, `DisconnectEndsRelays`), because
fairness and `ENABLED` are out of the prover's reach. What can be proved is the part
of each that is safety, that nobody is left waiting for something that nobody will
do; it fails in any behaviour in which one of them hangs for want of a partner:

| Theorem | States, of every reachable state | Rests on |
|---|---|---|
| `NoWaitForgotten` (`SessionEnds`) | who waits for `writeMu` waits for a goroutine in its write; the bridge finds the result of a pump that has returned, and `Run` that of the bridge; the ping loop it joins is running, or over, and cancelled; once `Run` has left its select, a pump that is left has closed connections | `WaitsInv`: the mutex is never left locked, and both connections are closed before anyone stops listening to a pump |
| `StopNeverForgotten` (`ProcessEnds` of ws-proxy) | a stop that waits has cancelled, and the goroutine it waits for is over, running, or about to be started | `WaitInv`: a stop waits only on a channel it has seen, and a start that opened one starts the goroutine |
| `OnlyEscapedHolds` (`DisconnectFreesSlot`) | when the watcher is finished, the output is held by an escaped descendant or by nobody, and a command that was not collected can be | `KillInv`: the number stands for the session while it has members, so that SIGKILL reaches all of them |
| `TeardownFindsAll` (`DisconnectClosesForwards`) | an open listener of a connection that is over is in someone's hands, or its own watcher is waiting and finds it under its key; or it is `Abandoned` | `Watched`: every entry has its watcher, or is about to get it |

The other two need no such invariant: each wait of the SSH server's main has a
deadline, and a relay waits only for its own connection. These invariants, like
those above, were checked with TLC on the instances of the runs (`TeardownFindsAll`
with a third listener) before they were proved.

## Not modelled

* The metrics registry, which registers collectors and has no behaviour of its own;
  error counters by reason and the duration histogram; log output and message texts.
* The revalidator, a no-op that no code calls.
* The `--healthcheck` command of ws-proxy: one request, one exit status.
* The file protocol of SFTP and the handler of local forwards behind its loopback
  check: both are the library's.
* The copies of a session's input, which end nothing, and the data of a relayed
  connection.
* In `HostKey`, a freshly generated key that fails to parse after its install; in
  `SSHConfig`, symbolic links and paths with `..`.
* gorilla's own answers to pings bypass `writeMu`; the library serialises control
  frames itself, and `OneWriter` is about the bridge's writers.

`PROJECT.json` lists every part with its status.
