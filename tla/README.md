# A TLA+ model of wiresock-boringtun

wiresock-boringtun is a userspace WireGuard / AmneziaWG implementation in Rust.
These modules model the parts of it whose correctness depends on order:
overlapping threads, reordered packets, restarts, refused system calls, clocks and
counters at their limits. Source paths below are relative to `boringtun/src/`.

`PROJECT.json` lists the components, the runs, the hazards and, for every
definition that models code, the lines it stands for, and the theorems.

## The system and its parts

| Part | Source | State it owns | Modelled by |
| --- | --- | --- | --- |
| Session | `noise/session.rs` | replay window behind a mutex, atomic sending counter | `ReplayWindow`, `AntiReplay`, `SendingNonce`, `SessionLimits`, `Session` |
| Tunnel and handshake | `noise/mod.rs`, `noise/handshake.rs` | handshake in flight and the one before it, ring of sessions, packet queue | `Tunnel`, `TunnTimers` |
| Timers | `noise/timers.rs` | the tunnel's clock, stamps, latches, the pre-handshake burst | `TunnTimers` |
| AmneziaWG framing, output budgets | `noise/amnezia.rs`, `noise/budget.rs`, `noise/header_protection.rs` | none between calls | `Framing` |
| Rate limiter, readings of a datagram | `noise/rate_limiter.rs`, `noise/inbound.rs` | two count tables, the aggregate | `RateLimiter`, `Admission` |
| Cookies | `noise/rate_limiter.rs`, `noise/handshake.rs` | the changing secret; a tunnel's last mac1 and cookie | `Cookies` |
| Probe reply budget | `device/probe_budget.rs` | one packed atomic word | `ProbeBudget` |
| Camouflage hints | `device/imitation_auto.rs` | bounded table with expiry | `ImitationHints` |
| Peer endpoint, connected socket | `device/peer.rs`, `device/mod.rs` | address, socket, lifetime token, learned protocol | `PeerPath` |
| Device lock | `device/dev_lock.rs`, `device/mod.rs` | the lock, `wants_write`, two notifications | `DevLock` |
| Workers and handlers | `device/mod.rs` | the gated start, what each handler has in hand | `Dispatch`, `Serving` |
| Event queue | `device/epoll.rs`, `device/kqueue.rs` | handlers by descriptor, what the kernel holds of them | `EventQueue`, `Kqueue`, `Pollers` |
| Device peers, prefix table, settings | `device/mod.rs`, `device/api.rs`, `device/allowed_ips.rs` | three peer maps, keys, AmneziaWG settings, MTU | `DeviceConfig` |
| Listeners, firewall marks | `device/mod.rs`, `device/peer.rs` | sockets, port, mark | `Listeners` |
| UDP diagnostics | `device/udp_diagnostics.rs` | failure episodes, generations, cooldowns | `UdpDiagnostics` |
| UAPI transport | `device/api_transport.rs`, `device/api.rs` | connections, buffers, deadlines | `ApiTransport` |

How they interact: a worker of the event loop takes a fired handler from the event
queue (`EventQueue` on Linux, `Kqueue` on BSD and macOS) and runs it with a read lock on
the device (`DevLock`), a batch at a time (`Dispatch`). The listener's handler reads a datagram in every way its length and tag allow
(`Framing`), asks the limiter before any Noise work (`RateLimiter`) and answers a
sender under load with a cookie (`Cookies`). What is no AmneziaWG packet may be
answered as a probe within the budget (`ProbeBudget`), or be kept as evidence of a
camouflage (`ImitationHints`). An authentic message is committed to its peer under
that peer's mutex: it may move the endpoint and open a connected socket
(`PeerPath`), and it drives the tunnel (`Tunnel`, `TunnTimers`), whose sessions
filter received counters and hand out nonces (`Session`). A configuration client
(`ApiTransport`) upgrades the lock and changes peers and settings (`DeviceConfig`)
or sockets (`Listeners`), and every send is observed (`UdpDiagnostics`).

## The modules

**ReplayWindow** follows `ReceivingKeyCounterValidator` position by position. A
receiver checks under the mutex, opens the AEAD without it, and takes it again to
mark; each iteration of the three clearing loops is a step. **AntiReplay** says what
is promised: a counter is let through at most once, and only within the window.
**SendingNonce** has `fetch_update` as its load and its compare-and-swap.
**Session** puts the two at the ends of one network: only what was sealed opens.
`Session` in the code takes `&self` with a mutex and atomics inside, so callers
overlap here; `Tunn`, as built today, serialises them through `&mut self`.

**Tunnel** has two peers and a network that keeps every packet: loss is a packet
never received, duplication one received again. One call of `Tunn` is one step.
Cryptography is symbolic: a key is the initiation, the response and the preshared
key that made it. Which of the timers' demands fires at a tick is left open, so the
model has every order the exact conditions allow, and more.

**TunnTimers** has those conditions: every test of `update_timers` in its order, the
latches it sets and puts back when an output does not fit, the pre-handshake burst,
the packet queue, and live changes of the keepalive and the junk. Its peer may send
anything. Stamps are ages, cut off past the last age that matters. The field `unmet`
is a history: a persistent keepalive fell due and nothing authenticated was sent since,
which the code's own flag does not say, as it is lowered when the send is selected.

**Framing** makes and reads one datagram: the junk prefix, content padding, trailer
and header-protection mask of each kind of message, the budgets each is held to, the
redraw of a frame that an upstream receiver would take for a handshake message, and
the candidates a receiver tries. A length is a number of cells, a cell a set of bits,
a tag one cell, and XOR the symmetric difference. How a prefix is filled to imitate a
protocol is left out: its bytes are any bytes.

**RateLimiter** bumps one row of a table per step, with the window read from the
clock before. Around it runs the loop of `inbound::receive` over the readings of a
datagram; whether mac2 and the Noise trial of a reading hold is part of the datagram.
**Cookies** is the other half: cookies over the source under a secret that changes
with time and with a restart, replies that are late, repeated or out of order, and a
tunnel that takes one reply per message it sent. When the expiry timer clears a
cookie is left open.

**ProbeBudget** keeps the load of the packed word, the clock read and the
compare-and-swap apart. **ImitationHints** takes the table's mutex once per call, and
lets a worker be descheduled between detecting a prelude and entering it. **Ingress**
puts all these behind one initial choice, since none reads another's state:
`Admission` has the limiter, `IngressTables` adds the other shared structures, and
`Ingress` the framing.

**PeerPath** is one peer while handlers of sockets it has left still run: the handler
of a connected socket receives before it takes the peer's mutex, so a roam, an expiry
or another handler comes in between. **Dispatch** has all peers and all handlers:
the listener's, those of connected sockets, the TUN interface's and the timer's, each
with its batch limit, while peers are removed and added again as new objects; and the
gated start and the fatal TUN error that ends every worker. **Serving** puts the two
side by side: `PeerPath` has the address and window of a path where `Dispatch` has
only whether there is one.

**DevLock** splits `Lock::read` and `try_writeable` at every point where a lock is
given up, and lets either closure panic. **EventQueue** follows boxes: the table owns
them, epoll holds raw pointers, dropping a box closes its descriptor, and the number
is used again. **Kqueue** is the same registry where a stream has two filters, one of
them reserved disabled, and a filter that fires stays disabled until its guard is
dropped; **Pollers** is a build with one of the two. What they stand on (parking_lot,
epoll, kqueue) is external.

**DeviceConfig** reads a `set=1` transaction line by line, applies each section where
the code does, and may fail at any line; the MTU monitor runs between transactions.
Values of a peer's attributes are named after the peer they were sent for, so that
one reaching another peer would show. **Listeners** takes every system call of a
rebind or a change of mark as a step that may be refused. A connected socket is held
twice, by its peer and by its handler: shutting it down drops the first, and it stays
open (`retired`) until the event loop reclaims the handler. **UdpDiagnostics** is what
is said about sends. **Sockets** puts the last two behind one initial choice.

**ApiTransport** has the stream as bytes that are a line feed or not, reads of any
split, the request and response limits, both deadlines, the watchdog, and the
inherited stream whose end stops the device.

Operators whose comment describes a deviation from the code (`CommitKeepingMac1`,
`ReframedOver`, ...) stand before the definition they vary. They are no part of a
specification: each names a plausible mistake that a property detects.

## Runs

| Run | Instance | Shows |
| --- | --- | --- |
| `session` | 2 senders, 2 receivers, 3 words of 2 bits, limit 10 of 17 counters | `NoncesUsedOnce`: every nonce below the counter is sealed once, none above; `WindowExact`: the bitmap is the window; `ImplementsAntiReplay` |
| `tunnel` | 2 peers, 2 slots, 4 indices, three courses | `KeyAgreement`, `ConfirmedBeforeUse`, `NonceFresh`, `PresharedKeyInForce`, `SelectionMovesForward` |
| `timers` | deadlines of 1 to 3 ticks, bursts of several shapes, fixed and drawn keepalives, a queue of 1 | `QueuedHasDriver`: a queued packet always has something that will move it, also once there is a session; `BoundsMeasureTheCycle`: a cycle is ended by its own age; `RefusedTickSpendsNothing`: an output that does not fit costs no demand |
| `timers_liveness` | junk bursts, fixed keepalives | `DemandsAreServed`: the queue empties or the tunnel expires, and a keepalive that fell due is sent, itself or by what stands in for it, unless the tunnel expires first |
| `ingress` | 2 workers on two rows of slots, or 1 worker on ambiguous datagrams; 2 workers on the budget, across the wrap of its clock; 2 workers, 3 sources, room for 2 hints; a set of framing configurations; 3 messages, 2 replies, changing secrets and a restart | `SharesAreFair`, `AuthenticReadingWins`, `CookiesMoveForward`, `Ceiling`, `HintsAreLive`, `DatagramsArrive`: a datagram framed within its budgets is read back as what it was, and by an upstream receiver as transport, unless every redraw was spent |
| `peer_path` | 2 ports of a host, 1 protocol, 2 connected sockets; or 2 workers, 2 peer objects, batches of 2, four flows | no deadlock; `PathFollowsEndpoint`, `ConnectedIsServed`, `RetiredHandlersReclaimed`; `RemovedIsSilent`, `DispatchesEnd`, `ArrivalsAreTaken` |
| `devlock` | 3 workers and the owner, 3 upgrades | no deadlock; `NoChangeSincePrep`, `NobodyWaitsForever` |
| `event_queue` | 2 workers, 2 descriptors, 5 boxes, epoll or kqueue | `NoDanglingPointer`, `NothingStranded`, `HungUpReleased`; on kqueue `OneFilterArmed` |
| `uapi` | a stream of 6 bytes, or 2 clients with 2 bytes each and one connection served; requests of 4, responses of 2 | `FramesInOrder`, `BoundedConnections`, `TransactionsEnd` |
| `uapi_pipelined_deadline` | the inherited stream of `uapi` | violates `RequestHasItsOwnDeadline`, see Finding |
| `config` | 2 peers, 3 nested networks, 2 parameters of 3 values, 3 MTUs, 2 clients | no deadlock; `RoutesAsClaimed`, `PeersFollowDevice`, `SuccessMeansApplied` |
| `sockets` | 5 descriptors, 2 ports, 2 marks, 2 peers; three scenes | no deadlock; `RefusedLeavesListeners`, `SocketsAsReported`, `EpisodesAreTrue`, `LinesAreDue` |

Every property of a passing run has a mutant in `PROJECT.json`: a plausible mistake in
a modelled definition with which the same run finds the property violated.

### Why the bounds are enough

* `session`: ten messages on a window of six bits. Jumps have every residue modulo the
  word and go over several words and past the whole window; the bitmap wraps, old
  counters fall behind it, and sums come to the end of the counter's type. Two overlapping receivers are enough for one to mark
  what another has checked.
* `tunnel`: two slots and four indices make indices wrap and slots be reused with two
  handshakes from each side. The courses are crossing handshakes on a full ring,
  sessions past their lifetime, and one restart, expiry or new preshared key at any
  point. One sealed packet to a session runs out of nonces all the time.
* `timers`: every deadline lies before, at and after another, a tick may be late by
  one, and any output may be refused. `timers_liveness` has shorter deadlines, junk
  bursts and fixed keepalives only, since its graph is searched for cycles as well.
* `ingress`: the two sources share a slot in the first row and not in the second, so a
  row to oneself and a row of others both occur; four messages exceed the share, the
  proven share and the aggregate while another worker stands between its rows. The
  budget's second of 2 ms separates cap and rate, and its clock starts at 0 or just
  before its wrap. Three sources overflow room for two hints.
* `peer_path`: two ports of one host separate a changed address from a changed host; a
  peer removed and added again is two objects under one key.
* `event_queue`: five boxes on two descriptors reuse both numbers under the two
  workers. `devlock`: three workers put a second upgrade behind a first one.
* `uapi`: six bytes hold two commands and a rest, and a request of four may be full
  without a blank line.
* `config`, `sockets`: two peers compete for nested networks; five descriptors are two
  listeners, their replacements and a connected socket, or two listeners and three
  connected sockets, of the two peers and of what they shut before.

Symmetry is used of senders and receivers (`session`), peers and preshared keys
(`tunnel`), workers (`ingress`), keys (`config`), peers and ports (`sockets`), none of
which is compared but for equality and none under a liveness property. The view of
`sockets` leaves out what no step reads: the last line logged, and the port and mark of
a socket that was shut.

Deadlock is not checked where the inputs end: `session`, `tunnel`, `ingress`,
`event_queue` (no box is left to register) and both `uapi` runs (the client is done).

### Fairness

* `ApiTransport`: the watchdog comes round, a connection's handler goes on, a
  cancelled one is released, and a deadline elapses (weak). No client has to do
  anything.
* `DevLock`: threads run on and handlers return, which `DispatchesEnd` shows of the
  handlers (weak). The notifications are level triggered and epoll rotates its ready
  list, so one that stays triggered reaches every worker that keeps coming back
  (strong fairness of `YieldRead` and `Exit`). Nobody has to begin an upgrade.
* `EventQueue`: a worker inside a call goes on (weak), and an event that keeps firing
  is handed out (strong), for the same rotation. `Kqueue` assumes none.
* `PeerPath`: a handler of a retired socket ends its batch and its pass (weak).
* `Dispatch`: the start goes on and a worker in a handler goes on (weak); a source that
  keeps having something is handed to some worker (strong).
* `TunnTimers`: time passes and `update_timers` is called (weak), with the room in the
  buffers left as it is: a caller that never has room is served nothing.

## What is proved

TLAPS checks the theorems below for every value of the constants that the `ASSUME`s
admit: any number of workers, peers, sources, keys, windows and limits. Each argument
is an inductive invariant: it holds at first, every action keeps it, and the property
follows from it.

Every safety property a passing run checks is a theorem, but for `DatagramsArrive`.

* **NoiseProofs** (`Session`, `RateLimiter`). `NonceReuseImpossible`: a swap succeeds
  only on the value loaded and the counter stops at the limit (`NonceInv`).
  `AtMostOnce`, `QuickCheckExact`, `Refinement`, `TypeCorrect`, `LossEstimate`:
  delivering once is not inductive, since it depends on what the bitmap says.
  `ReplayInv` adds that at rest the bit of every counter of the window mirrors its
  history, and that within a clearing loop what lies between `next` and the index is
  clear while the rest of the old window still mirrors. `DeliveredSealed` joins the
  two ends: a session is its senders and receivers, each as they are alone.
  `SharesFair`: with overlapping calls a slot's count says little about one source.
  `ShareInv` keeps, for every source and window, a ledger in which each grant owns a
  row and a count of that row, different from those of any other grant and of any call
  still on its way. A row hands out each count of a window once, so there are no more
  grants than the share, once per row. For a row that no other source shares it says
  that a slot counts only its source's messages, and for a worker without company that
  every slot of a source counts at least its grants.
* **TunnelProofs** (`Tunnel`). `KeysAgree`, `SelectionConfirmed`, `NoncesFresh`,
  `KeyChangeComplete`, `SelectionForward`. `TunnelInv` says which handshake every
  packet in the network and every session came from, that indices in the ring are
  distinct, that an initiation is answered with its own numbers, and that counters are
  past every nonce sealed.
* **TunnTimersProofs** (`TunnTimers`). `QueuedDriven`, `BoundsMeasured`,
  `RefusalSpendsNothing`. `TimersInv` bounds the ages by that of the cycle, says that
  an expired tunnel has no session and owes its reset until the first output, and that
  a queued packet has a handshake or a flush to come.
* **WorkersProofs** (`DevLock`, `EventQueue`, `Kqueue`). `OneIntent`,
  `PrepStaysCurrent`, `EntryOpen`: a reader on its way in holds the mutex with
  `wants_write` lowered, and the write lock is held only inside `mut_func`
  (`LockInv`). `PointersLive`, `NoneStranded`: the table owns exactly the registered
  boxes, a guard holds what fired, a descriptor is its own box's (`QueueInv`).
  `OneArmed`: on kqueue the filters follow the box and the guards that borrow it
  (`BsdInv`).
* **ServingProofs** (`PeerPath`, `Dispatch`). `PathFollows`, `NoBlackhole`,
  `LearnedAllowed`: lifetimes only grow, and a socket is served while it is the
  endpoint's (`PathInv`). `RemovedSilent`: what a handler still knows of a removed
  peer is out of every map (`DispatchInv`).
* **UapiProofs** (`DeviceConfig`, `ApiTransport`). `DeviceFollowed`, `SuccessApplied`,
  `ClampCurrent`, `RoutesFollowClaims`: indices are never handed out twice, a claim and
  a route are one fact, a section holds its own peer's values, and a waiting MTU
  monitor holds the last reading (`ConfigInv`). `ConnectionsBounded`: at most one
  worker accepts and the room it found only grows. `CommandsInOrder`: what a scan has
  passed holds no blank line, and a reply is out exactly while one command more was
  taken than answered (`FramesKept`).
* **SocketsProofs** (`Listeners`, `UdpDiagnostics`). `RefusalLeavesAll`,
  `ReportedSockets`: every open socket has one owner, an operation under way accounts
  for those it has opened and not yet placed, and a connected socket that was shut is
  apart from both until it is reclaimed (`SocketInv`). `EpisodesTrue`,
  `LinesDue`: generations are apart, an error stays latched in its own
  (`ReportsInv`).
* **IngressProofs** (`ProbeBudget`, `RateLimiter`, `ImitationHints`, `Cookies`).
  `CeilingHolds`: what was granted and what is left come to no more than the allowance
  up to the balance's stamp (`BudgetInv`). `AuthenticWins`: every reading a call has
  passed over was kept out by the limiter's own verdict (`LimiterInv`). `HintsLive`:
  order and map agree, and the order is by age (`HintInv`). `CookiesForward`: a message
  carries a cookie under no later secret than the one in force, its reply is under no
  earlier one, and while a reply is still taken the cookie kept is the message's or
  none (`CookieInv`).

### What the proofs assume

The `ASSUME`s say that the limits and capacities are numbers of the code's types
(`LimitsAssumption`, `TransportAssumption`, `TunnelAssumption`, `TimersAssumption`,
`DiagnosticsAssumption`), that placeholders are not members of the sets they stand
outside of (`PathAssumption`, `DevLockAssumption`, `ListenersAssumption`,
`ServingAssumption`, `PollersAssumption`, `ConfigAssumption`), that the message limit
and the window fit the counter (`ReplayAssumption`), that boxes are numbered
(`EventQueueAssumption`), and that the limiter has at least one row and finitely many
callers (`AdmissionAssumption`). One restricts behaviours: `TablesAssumption` has the
budget's clock make no full turn (`ClockSize > MaxTime + 2`), see Observations. TLC
evaluates all of them on the instances above.

### What is only model-checked

* Liveness, which is out of the prover's reach: `DemandsAreServed`,
  `NobodyWaitsForever`, `HungUpReleased`, `TransactionsEnd`,
  `RetiredHandlersReclaimed`, `DispatchesEnd`, `ArrivalsAreTaken`.
* `DatagramsArrive`: it compares what framing computes from a message with what
  reading computes from the frame, redraws included. It is a fact about two
  computations on sequences of cells, for every length and content, not about steps,
  and is checked over the configurations of the run.

## Finding

`README.md:112-114` says "Requests and response delivery each have an absolute
five-second deadline". `process_frame` (`device/api_transport.rs:106`) clears the read
deadline only when no input is left, and the next read keeps one that is set. On an
inherited stream, a request whose first bytes arrive with the end of the one before is
therefore timed from the first byte of that one. `uapi_pipelined_deadline` shows a
request cut off before its own deadline.

## Observations

* With overlapping calls a source can be admitted more often than its share, as the
  comment on `SourceCounts` says. How much more is bounded: its share once per row.
* A worker delayed between its clock read and its swap spends what had accrued when it
  read. `Ceiling` therefore counts a grant at the clock read, not at the swap.
* The packed word of `ProbeBudget` repeats after a turn of its 32-bit millisecond
  clock. A worker suspended for exactly that long could swap against a word it did not
  load. Runs and theorem stay short of a full turn, but cross the wrap.
* A persistent keepalive selected while the packet queue is full is spent without being
  queued: only an output that does not fit is given back. `DemandsAreServed` shows that
  the initiation the queue waits for stands in for it, or the tunnel expires.
* A line of UAPI input that cannot be read ends the transaction with status 0: what
  was applied before it stays applied. `SuccessMeansApplied` is stated of transactions
  without such a line.

## Not modelled

* The C and Java bindings, argument conversion around one mutex per tunnel.
* The imitation generators, the bytes of probe replies and the reply policy: byte-level
  and pure, without state between calls.
* The operation report: it observes one call.
* TUN device, privileges, command line, release tooling: system calls and processes.
* Key parsing, validation and formatting of configuration values, the text of `get=1`.
* Cryptographic strength; `set_static_private` as a handshake of its own; byte counters.

The mapped lines are about an eighth of all lines under `src/`. The rest is what this
list names, the tests that stand in the same files, and, in the files that are
modelled, the detail the definitions abstract from.
