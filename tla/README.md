# A TLA+ development of asio-forwarder

asio-forwarder is a TCP relay: clients log in under a user name, send DATA
addressed to another user, and the server forwards it as DELIVER to that user's
connections. This directory models the server (`deliver/server/src/main.cpp`)
and the C++ client library (`deliver/client/src/forwarder_sdk.cpp`),
model-checks them with TLC and proves the safety results with TLAPS for every
value of the constants.

## 1. Inventory

| Part | State | Operations | What is hard about it |
|---|---|---|---|
| Session, write side (`TcpSession`) | `queue_`, `pending_bytes_`, `writing_`, `stopped_`, `kick_pending_`, the strand | `send_frame`, `kick_notify_and_close`, `stop`, `do_write` and its completion handler | every call only posts to a strand; completions fall between any two tasks; the read loop cancels and closes the socket without the strand |
| Read loop (`TcpSession::read_loop`) | position of the coroutine, `last_activity` | read a header and a body with a timer, hand the frame on, clean up | the timer cancels writes too; many ways out; three clocks with different resets (read timer, idle limit, heartbeat scan) |
| Registry (`RelayServer`) | `all_`, `by_id_`, `user_deque_`, `user_recv_mode_`, `rr_next_index_` under `mu_` | accept, login, eviction, deliver, kick, list, heartbeat scan, statistics, removal | several io threads; `is_open`, `logged_in_`, `last_hb_` are read and sockets closed without `mu_`; notifications follow after the unlock |
| Accounts | MySQL `users`; `name_to_uid_`, `uid_to_username_` | login with auto-insert, addressee lookup, `user_table_add/update/delete` | database statements and locked sections alternate; an update is up to three statements |
| IP allowlist | MySQL `ip_allowlist` | check at login, `allowlist_*` | checked once, long before the session is entered |
| Configuration | `Config` | parse, range checks | limits interact (idle/read/heartbeat, body/queue) |
| Admin HTTP, event ring, metrics | event ring, counters | read-only answers | one of them compacts `all_` |
| Client SDK | `in_order_`, `pre_delivers_`, sequence number, heartbeat thread | `sign_on`, `send`, `recv_deliver`, `control_*`, `heartbeat` | replies and deliveries are interleaved; a second thread writes and causes replies nobody waits for; one object may connect again |
| Wire format | - | header packing, framing | limits |
| Python client, web console | - | test client; edits the tables directly | bypasses the server's caches |

Interaction: the read loop of a connection calls `handle_client_frame`, which
changes the registry under `mu_`, asks the database outside it, and posts frames
or kicks to the strands of *other* sessions. A session's end reaches the
registry only through its own read loop (`remove_session`).

What makes each part correct:

- session: one write at a time, no stalled queue, exact byte accounting, order,
  KICK last, stop and kick close;
- registry: no ghost or unreachable session, the connection limit, one receive
  mode for all sessions of a user at a time, fair round robin, every closed
  session removed, every silent one kicked, login reply first;
- accounts: caches never name an account that never had the name, a session's
  name and role were its account's, agreement with the table between requests,
  deletion ends sessions;
- allowlist: only listed addresses get in, while the list changes;
- timers: a client that keeps sending accepted frames stays, one that falls silent
  goes;
- client: frames of the two threads do not mix, no delivery is lost or reordered
  while a reply is awaited, a call ends by its own reply and does end.

The hazards, each with its line and the properties that watch it, are listed in
`PROJECT.json`.

## 2. Modules

| Module | Models | Checked by |
|---|---|---|
| `Outbox` | what a session promises: a lossy FIFO that a kick or a stop ends | refined by `Session`, proved in `OutboxProofs` |
| `Session` | one session: strand, queue, write, kick, stop; the connection under `async_write` is external | `MCSession`, `SessionProofs`, `OutboxProofs` |
| `Registry` | all sessions in the server's tables; of a session's write side only "a posted KICK or stop closes the socket" | `MCRegistry`, `RegistryProofs` |
| `Accounts` | users table, caches, allowlist, the handlers' statements and locked sections | `MCAccounts`, `AccountsProofs` |
| `Keepalive` | one connection's read loop and its three clocks, in discrete time | `MCKeepalive`, `KeepaliveProofs` |
| `Client` | one `Client` object: application thread, heartbeat thread, the server as a client sees it | `MCClient`, `ClientProofs` |
| `Lists` | two loops over a list as recursive functions: the elements in a set (the loops over `user_deque_`), the sum | used by `Session` and `Registry`; `ListsProofs` |

How they fit: `Registry` uses of a session what `Session` shows (frames in order,
a kick closes if the peer reads). `Client` uses of the server what `Session` and
`Registry` show: frames in order, a KICK last, a prefix of what was queued when a
session ends, and that a DELIVER may come before the reply to LOGIN. `Keepalive`
takes the sending client from the heartbeat loop that `Client` models.

### Session

`strand` is the sequence of posted tasks; `send_frame`, `kick_notify_and_close`
and `stop` append to it. `SendIgnored`, `SendRefused` and `SendAccepted` are the
returns of the task `send_frame` posts; `RunKick`, `RunStop` are the other two
tasks; `WriteDone` and `WriteFailed` are the completion handler. A frame is a
number and a size; the KICK has number 0. `flight` is the list of writes begun
(a list, so that two at once can be seen), `wire` what the connection took: a
frame is taken in two parts so that it can be torn. The read loop appears as
what it does to the socket: the timer's cancel (`ReadTimeout`), leaving
(`ReadBreak`, `SeeClosed`) and closing the socket (`LoopEnd`).

`Outbox` abstracts this to the number of frames posted, the set waiting, the set
delivered and a status. The mapping: a frame waits while it is posted or queued
and not completely on the wire (`Waiting`); the frame a completion handler has yet
to pop is already delivered; from a kick on only the frame in flight waits; behind
a closed socket nothing does, although `queue_` is not cleared. `MCSession` checks
`ImplementsOutbox`, that is `Box!Spec`.

### Registry

One process per connection. `EnterTables` and `MarkLogin` are one locked section
in two steps, because the heartbeat scan reads what is written in between
without the lock; the same holds for `ListUsers`/`ListReply`. `mu` records who
is inside such a section. Evicted and kicked sessions are first put into `todo`
under the lock and notified one by one after it. `Traffic` selects the frames
and timers of an instance. `turns` is a history variable for fairness of round
robin.

### Accounts

Each handler is cut where it leaves the store's mutex or `mu_`. `UPDATE` of a
field to the value it has affects no row and counts as failure
(`mysql_stmt_affected_rows`, connection flags 0), after which the remaining
fields are not updated and the caches are not touched: `NameDone`, `PwDone`,
`RoleDone`. History variables: `held` is every name the row of an id had, with the
role it had at the time; `torn` the ids of which an update failed after it had
changed the name; `late` the sessions whose login overlapped the deletion of their
account; `overlap` that two requests did. Names are compared exactly (the collation
of the database is not part of the repository).

The allowlist is a set of addresses (rows are unique). `CheckIp` is the first step
of a LOGIN, `Authenticate` the next, and a refused LOGIN starts over. An
administrator's statements fall in between; `delisted` is the history of
connections whose address was taken off after they had passed.

### Keepalive

Clocks are times since their last reset. `Tick` passes time only when nothing is
due, so an expired timer, arrived bytes or a handler at its limit cannot be
overtaken by time, but happen in any order among themselves. `Arrive` is a frame
of a client; one that is `beating` sends only frames the server accepts and never
lets more than `Gap` pass between two, one that is `moody` may fall silent, `Stall`
inside a frame or send one the server ends the connection for (`BadFrame`).
`ReadHeader` and `ReadBody` reset the read timer and the idle clock, `ReadBody` also
the heartbeat time of a logged-in session (`touch_heartbeat`). `mark_login` is two
steps, `AcceptLogin` (`logged_in_`) and `MarkLogin` (`last_hb_`), as in `Registry`: a
scan in between finds a heartbeat time of zero. `HandlerEnds` goes to the top of the
loop, where the idle limit is looked at.

### Client

A frame of the client is written as two entries of `up`, header and body, under
`write_mu`. `Drain` takes one event off the connection for the call in progress;
`Verdict` is what the loop of that call does with it (`sign_on`,
`drain_server_ack` and `drain_control_full`, `expect_heartbeat_ok`,
`recv_deliver`). A write on a connection the server has closed may succeed into
the void or fail. `hb` is the heartbeat thread: none, asleep, between its two
writes, or ended and still joinable. The server's side is `Handle` (one whole
frame), `Greet` (the reply to LOGIN, after the session is in the tables),
`SendDeliver` and the faults of the instance: `refuse`, `drop` (a reply over the
high-water mark), `kick`, `lose`. `in_order_` holds at most one event and is empty
between two steps, so it is left out. `hist` records what excuses the library: a
request whose reply was not awaited (`loose`), a sign_on that threw away an early
DELIVER (`discarded`), a dropped reply.

## 3. Runs

| Run | Bounds | Shows |
|---|---|---|
| `session` | 3 frames of size 1 or 2, high water 3, hard limit 4, one outside kick or stop, `drop` | the safety properties of a session, and that it implements `Outbox`; a posted stop closes the socket even if the peer reads nothing; if it reads, queued frames move and kicks close |
| `registry_tables` | 3 connections, 2 users, limit 2, one admin, 4 round-robin turns of one of them | tables stay consistent, the heartbeat scan sees every open session, round robin is fair, locked sections exclude each other, a list reply never overruns its header |
| `registry_live` | 2 connections, limit 1 | closing sessions leave, silent ones are kicked |
| `accounts_overlap` | 2 connections, 2 names, 2 passwords, 2 rows, 2 addresses, 5 requests | names in caches, and the name and role of a session, are the account's or were; caches agree with the table while requests do not overlap, and a half-failed update spoils its own account's entries only; only a login overlapping a deletion survives it; only listed addresses get in |
| `client_calls` | 2 connections one after the other, 3 calls, 1 automatic heartbeat, 2 DELIVERs, sequence numbers below 5, all faults | the client's safety properties; calls and the destructor end |
| `keepalive` | read timer and idle limit 5, heartbeat timeout 4, scan every 2, gap 4, handlers up to 3, 2 frames buffered | sending clients stay unless a scan meets them inside `mark_login`, silent ones go in time, the idle limit never fires |

Why the bounds are enough to meet the interesting cases: three frames of two
sizes pass under, at and over both thresholds with a write in flight and one
frame behind it. One outside kick or stop is enough: a second of the same kind is
ignored by the first line of its task, and a kick meets the stops that a frame over
the hard limit and a failed write post, before it or after it. The policy
`disconnect` does over high water what the hard limit does.
Three connections with a limit of two make an eviction overlap a third login
and the victim's own end. Five requests hold two logins, a lookup, a rename,
deletion or change of the allowlist and one more. Three calls and a heartbeat wrap a sequence space of five;
two DELIVERs can be one set aside and one read; the second connection meets the
heartbeat thread of the first. The timing constants satisfy `KeepsUp` with no
slack in the heartbeat timeout (gap 4, timeout 4) and one unit in the read timer.
`CHECK_DEADLOCK FALSE` is set throughout: a closed session, a server without
clients and an application that stops calling really have nothing left to do.

Runs that exhibit a disagreement between the code and what the repository says
of it:

| Run | Property | What happens |
|---|---|---|
| `session_kick_told` | `KickedIsTold` | a kick during a write: the completion pops the KICK unsent and closes |
| `registry_login_first` | `LoginReplyFirst` | a DELIVER overtakes the LOGIN reply; `sign_on` throws |
| `registry_heartbeat` | `OnlySilentKicked` | the scan sees `logged_in_` before `last_hb_` |
| `registry_mode_fixed` | `ModeFixed` | the last session takes the receive mode with it and the next login sets another; the documents (protocol.md:35, delivery.md:162) say the first login fixes it for the life of the server process |
| `accounts_deleted` | `DeletedIsKicked` | a login overlaps `user_table_delete` and stays |
| `client_reconnect` | `BeatsAfterSignOn` | the heartbeat thread of a lost connection is never replaced |

`registry_tables` also checks `ModeIsFirstLogins`. It is what the code does: the mode
is that of the first login *since the user was last offline*, which is what the
notice to the client says (main.cpp:959) and less than the documents promise;
`registry_mode_fixed` shows the difference. `KeptAlive` of `keepalive` leaves out
exactly the window that `registry_heartbeat` exhibits.

`client_reconnect` uses one object for two connections. usage.md:10 describes an
object as one connection and one `sign_on`; the library does not enforce it, and
`open` on a used object connects it again.

Further disagreements are single branches or need no run of their own:

- A login under an unknown name inserts an account (`authenticate_or_register`;
  usage.md:12 says login only checks, protocol.md:40 describes the insertion).
- CONTROL is allowed by the `is_admin_` copied at login, so a demoted administrator
  keeps it until the session ends (delivery.md:138 says the table decides).
  `WasTheirs` bounds it: the role is one the account had together with that name.
- After an update that renamed the row and then failed, the caches keep the old name
  of that account (`torn`); `CachesAgree` shows that no other account is affected.
- A kicked session whose peer does not read, and keeps sending, is not closed: its
  write never completes (`KickCloses` needs `PeerReads`).
- A socket that closes between the two passes of list_users leaves fewer elements
  than the array header announced; `ListNeverOverruns` shows that there are never
  more.
- `idle_ms = 0` is documented as switching the idle limit off (delivery.md:94);
  `load_config_or_throw` rejects it, because it is below `read_ms`.
- With the built-in `read_ms` of 15 s (config.hpp:26) the client's heartbeat every
  20 s comes too late, and `KeepsUp` fails; the shipped configuration (120 s)
  satisfies it.
- A request sent without awaiting its reply makes a later call throw on that reply
  (`NoStrayReply` names this case), and a call whose reply the server dropped waits
  until the connection ends (`Answered`).

### Fairness

`Session`: handlers on the strand run (an `io_context` with threads runs what is
posted), a cancelled or closed operation completes, the read coroutine is
resumed. Progress of a write (`TakeSome`, `TakeRest`) is *not* among them; it is
the premise `PeerReads` of the properties that need a peer that reads. `Registry`:
handlers finish and the heartbeat timer fires; strong fairness where a step
needs `mu_`, which is taken and released by others in between. Its fairness on
`StrandCloses` rests on `KickCloses` and therefore on a peer that reads. `Client`:
both threads run and the server handles what it received and finishes a login; the
application need not call anything, and the faults are never forced. Weak fairness
is enough: nothing but the steps of a call in progress can keep `write_mu`.

## 4. Proofs

Every invariant and action property of the passing runs is proved for all values
of the constants, and so is the refinement of `Outbox`. Each proof finds an
inductive invariant, shows that it holds initially and that every action keeps
it, one step per action. The assumptions on the constants are those of the
modules (`ConfigAssumption`, `RegistryAssumption`, `AccountsAssumption`,
`ClientAssumption` and those of `Keepalive`), which TLC evaluates on the instances;
the one further hypothesis is `NoWrap` below.

### Session

`SessionProofs` proves, for all frame sizes, limits and call counts allowed by
`ConfigAssumption` (the range checks of `load_config_or_throw`):
`TypeCorrect`, `NeverTwoWrites`, `NeverStalls`, `PopsItsOwnFrame`,
`BoundedQueue`, `KickLeavesOnlyKick`. The inductive invariant `SessionInv` is
the conjunction of these properties. `TypeOK`, and `OneWrite`, `KickDrains` and
`WithinHighWater` above it, are each kept by every step on their own. The other
two need them: that the completion handler pops the frame it wrote
(`PopsWhatItWrote`) needs `OneWrite`, so that there is one completion to come,
and `KickDrains`, so that only a kick replaces the queue under a write; that the
queue does not stall (`NoStall`) needs that `writing_` tells exactly whether a
write is out, so that a call that finds it set relies on a completion that will
come.

`OutboxProofs` builds on it: `NothingAfterKick` (`KickIsLast`), `FramesInOrder`
(`InOrder`), `NoLiveStreamAfterTear` (`TornIsFatal`), `PendingIsQueued`
(`Accounted`), `NoFrameUnaccounted` (`Conserved`) and `SessionIsOutbox`
(`ImplementsOutbox`). None of the first three is inductive: that the next frame
written has a larger number than those on the wire depends on where the numbers
are. `WireInv` therefore says that they grow along the whole way, from the wire to
the flight to the queue to the strand. Posted numbers are increasing
(`StrandIds`), queued ones are increasing and below every posted one
(`QueueIds`, `Past`), so is the frame in flight, and the part of it that was taken is
the last on the wire (`FlightIds`), whole frames on the wire are below what is still
to be written (`WholeIds`), and once the KICK is on the wire no further write begins
(`KickOnWire`). A torn frame is the last on the
wire and in flight unless the session is ending (`Torn`), because every failed
write posts a stop. `Accounted` and `Conserved` are sums over lists and use the
lemmas of `ListsProofs`. In the refinement each action is matched with one step of
`Outbox` or with none: `TakeRest` delivers, a refused frame is lost, a closing socket
shuts, and a completion handler changes nothing the outbox shows, since the
frame it pops was delivered when the connection took its last byte. The fairness of
`Session` plays no part in it: `Box!Spec` is a safety specification.

`ListsProofs` states what the loops of `Lists` compute for lists of any length: which
elements `Keep` keeps, that it keeps none twice and not more than it was given; how
`Total` changes when an element is appended or removed. The induction goes through the
least element of a set of numbers (`Least`, `Induction`), since the library's
induction theorems with an operator parameter cannot be instantiated here.

### Registry

`RegistryProofs` proves all safety properties of the tables, for any number of
connections and users. `HandlerInv` (`Types`, `Lock`, `Wants`, `NotYet`, `IdleTodo`)
ties each handler's place to what it holds: who is inside a locked section has
`mu`, a session has a user only from `EnterTables` on, and only a handler that
notifies has sessions left to notify. From it follow `TypeCorrect`,
`NoGhostSessions` (`NoGhost` is inductive on top of it: `NotYet` excludes a second
entry into a deque), `LimitEnforced` (`Limit`, `Reachable`: an evicted session
moves from the deque into the handler's `todo`, and from there to `closing`, without
a gap), and `ScanMissesNone`. `ModeStays` needs `Forgotten`: a user without sessions
has no mode and index 0. `ListWithinHeader` needs `Listed`: between the two passes of
list_users the lock keeps the deque, and sockets only close, so the open ones only get
fewer. `RoundRobinIsFair` needs the order in which the index goes round: `TurnsInv`
says that of two sessions the one the index picks earlier has had as many
turns or one less (`Ahead`, `Fair`), which the step of the index past the last
session keeps; `FairTurns` alone would allow the index to serve the same session
twice.

### Accounts

`AccountsProofs` proves `NamesAndRolesAreTheirs` (`WasTheirs`) for any number of
connections, names, rows and requests, from `AccountsAssumption`. `WasTheirs`
is not inductive: a handler carries an id and a name from a database statement
to the locked section that caches them (`JobsHad`), rows have only names of
their history (`RowsHad`), and a fresh id has none (`FreshIds`), so that an
insert never changes the history of an id that is already cached. That a session's
name and role were its row's *together* is followed the same way: `Held` says it of
the rows (`RowsHeld`), of a LOGIN between `Authenticate` and `EnterTables`
(`JobsHeld`) and of the sessions (`SessionsHeld`). The history only grows
(`HeldGrows`), so a later rename or change of role takes nothing from it.

It also proves `ListGuardsTheDoor` (`OnlyListedEnter`). Its invariant adds that a
LOGIN is handled only on a connection that is not logged in (`LoginsOnce`): without
it a refused second LOGIN would clear the address of a session that stays.

`AccountsTypes` is the module's `TypeOK`, a statement about types only; the run does
not check it, and the proofs of the other theorems rest on `Types`, its inductive
part.

`OnlyLateLoginsSurvive` (`OnlyLateSurvive`) needs to know what holds while the deleting
handler is still at work: from the moment it has listed the sessions to kick, every
session of the account is kicked or late (`Settled`).

`SequentialCachesAgree` (`CachesAgree`) speaks of the moments between requests, and its
invariant of all the others: as long as nothing overlapped at most one handler is
under way (`Alone`), the caches agree with the table except for the entries of torn
accounts and those a rename is about to replace (`NamesAgree`, `UidsAgree`, by
`Fits`), and what the handler has read is still so at each of its places
(`JobAgrees`; together `Agreed`).

### Keepalive

`KeepaliveProofs` proves the four timing properties for every configuration that
`load_config_or_throw` admits, every gap and every handler time. `SinceInv`,
`ScanInv` and `IdleInv` bound each clock by the place of the loop: the time since
the last whole frame by the handler, the header's read and the body's read
together, the heartbeat time by the time since the last scan, the idle clock by
the read or the handler in progress. `KeptAlive` needs `BeatingInv`: a read that
waits is no older than the client's last frame, because a frame that has arrived
is read before time passes, and the only scan that ends such a connection met it
inside `mark_login`. That the interval fits the timeouts (`KeepsUp`) is a premise:
nothing in the code relates the settings of client and server.

### Client

`ClientProofs` proves `FramesStayWhole` and `DeliversStayInOrder` for any number of
calls, heartbeats, connections and DELIVERs. For the first, `WholeInv` says who holds
`write_mu` (`Held`: exactly the thread between its two writes) and that what is on its way
is whole frames and at most the header of that thread's frame (`Halves`). For the
second, `OrderInv` says that what was returned, set aside and still on the way is
increasing in this order, was sent (`Seen`), and that a recv_deliver reads from
the connection only when nothing is set aside (`NothingAside`): the reason why the
older DELIVERs come first.

`ClientTypes` is the module's `TypeOK`. `NoDeliverLost` (`NoneLost`) follows each DELIVER
of the current connection to one of three places. `NoStrayReplies` (`NoStrayReply`) rests
on `RepliesInv`: on a connection where every reply was awaited, there is at most one
request whose reply counts, it is in exactly one place (on its way up, at the
server, or answered on the way down), and it is the one the call in progress awaits
(`OneRequest`). Heartbeats do not count, since the loops skip their replies; `Roles`
says which thread writes what, and a KICK is the last event (`KickLast`).

`RepliesAreOwn` (`OwnReply`) has the hypothesis `NoWrap`: the calls and beats of the
client's life are fewer than the sequence numbers. `drain_server_ack` and `heartbeat`
know their reply by its number only, so with a space small enough for a number to
return while an old reply is on its way the property is false; in the code the numbers
have 31 bits. Below the wrap numbers grow (`SeqGrows`) and a number names one frame
(`SeqsTell`). The run `client_calls` also covers a wrap, of a space of five.

### Only model-checked

The liveness properties `StopCloses`, `QueueMoves`, `KickCloses` of `Session`,
`ClosingIsRemoved` and `SilentIsKicked` of `Registry`, `Answered` and `Joined` of
`Client`: they depend on fairness, which needs `ENABLED` and is out of the prover's
reach. The properties of the violation runs are false.

## 5. Not modelled

Decoding and formatting (msgpack, JSON, HTTP, logs), reading the configuration
file, the layout of the wire header, `sha256.hpp` (not called by the relay),
`LocalForwarder` (starts a server process for tests), `try_login` and typed
payloads of the client library, the Python tools. These are conversions without
state or code around the system. A refused request that changes nothing has no
action. A frame larger than `hard_limit_bytes` disconnects even an idle session;
this is one guard and needs no run. `RelayClient::recv` treats a frame of unknown
type as the end of the connection; the server sends none. A connect that fails
leaves a `Client` as it was before its first `open`.

## 6. Plan

1. `Relay`: registry and sessions composed, to bound what a kick loses and to replace
   the fairness of `StrandCloses` by what `Session` shows.
2. Proofs about pairs of modules: the view `Registry` has of a session (a posted KICK or
   stop closes it) as a refinement of `Session`.
