------------------------------ MODULE Keepalive ------------------------------
(***************************************************************************)
(* The three clocks that end a connection (main.cpp): the timer around     *)
(* every read of a header or a body, the idle limit at the top of          *)
(* read_loop, and the heartbeat scan; against a client that keeps sending  *)
(* frames the server accepts, as the heartbeat thread of forwarder_sdk.cpp *)
(* does, or one that may fall silent, perhaps in the middle of a frame, or *)
(* send a frame the server ends the connection for.                        *)
(*                                                                         *)
(* Time is discrete.  Tick lets one unit pass, and only when nothing is    *)
(* due: a timer that has expired fires, bytes that have arrived are read   *)
(* and a handler ends within HandlerMax, in any order.  Clocks are kept as *)
(* the time since they were last reset.                                    *)
(***************************************************************************)
EXTENDS Integers

CONSTANTS
  ReadMs,       \* timeouts.read_ms
  IdleMs,       \* timeouts.idle_ms
  HeartbeatMs,  \* session.heartbeat_timeout_ms
  ScanMs,       \* period of the heartbeat scan (1 s)
  Gap,          \* longest time between two frames of a client that keeps
                \* sending: its heartbeat interval and the network's delay
  HandlerMax,   \* longest time a frame's handler takes
  MaxUnread     \* whole frames the socket's buffers hold

(* What load_config_or_throw admits, in units of the shortest time. *)
Admits ==
  /\ ReadMs \in Nat \ {0}
  /\ IdleMs \in Nat
  /\ IdleMs >= ReadMs
  /\ HeartbeatMs \in Nat \ {0}

ASSUME ConfigAssumption ==
  /\ Admits
  /\ ScanMs \in Nat \ {0}
  /\ Gap \in Nat \ {0}
  /\ HandlerMax \in Nat
  /\ MaxUnread \in Nat \ {0}

VARIABLES
  client,    \* "beating": keeps sending frames the server accepts; or "moody"
  loop,      \* where read_loop is: in the read of a header or a body, or in
             \* the frame's handler
  status,    \* "open", or what ended the connection
  login,     \* "out", "marking": mark_login has set logged_in_ and last_hb_ is
             \* still zero, or "in"
  unread,    \* whole frames that have arrived and have not been read
  last,      \* the frame that arrived last: "whole", or "half" of one
  quiet,     \* time since the client's last whole frame arrived
  readFor,   \* time the read in progress has taken
  busyFor,   \* time the handler in progress has taken
  activity,  \* time since last_activity
  lastHb,    \* time since last_hb_, once it has been set
  scanned,   \* time since the last heartbeat scan
  since      \* history: time since the last whole frame was read

clocks == <<quiet, readFor, busyFor, activity, lastHb, scanned, since>>
vars == <<client, loop, status, login, unread, last, clocks>>

beating == client = "beating"
loggedIn == login = "in"
half == last = "half"

TypeOK ==
  /\ client \in {"beating", "moody"}
  /\ login \in {"out", "marking", "in"}
  /\ last \in {"whole", "half"}
  /\ loop \in {"header", "body", "handler"}
  /\ status \in {"open", "stopped", "read_timeout", "idle_timeout",
                 "heartbeat_timeout"}
  /\ unread \in 0..MaxUnread
  /\ quiet \in Nat /\ activity \in Nat /\ lastHb \in Nat /\ since \in Nat
  /\ readFor \in 0..ReadMs
  /\ busyFor \in 0..HandlerMax
  /\ scanned \in 0..ScanMs

Init ==
  /\ client \in {"beating", "moody"}
  /\ loop = "header"
  /\ status = "open"
  /\ login = "out"
  /\ unread = 0
  /\ last = "whole"
  /\ quiet = 0 /\ readFor = 0 /\ busyFor = 0 /\ activity = 0 /\ lastHb = 0
  /\ since = 0
  /\ scanned \in 0..ScanMs

-----------------------------------------------------------------------------
(* The client.                                                             *)

(* A whole frame arrives: a heartbeat or any other, as long as the buffers *)
(* have room.                                                              *)
Arrive ==
  /\ status = "open" /\ ~half
  /\ unread < MaxUnread
  /\ unread' = unread + 1
  /\ quiet' = 0
  /\ UNCHANGED <<client, loop, status, login, last, readFor, busyFor,
                 activity, lastHb, scanned, since>>

(* A client that does not keep sending stops inside a frame. *)
Stall ==
  /\ status = "open" /\ ~half
  /\ ~beating
  /\ last' = "half"
  /\ UNCHANGED <<client, loop, status, login, unread, clocks>>

(* The rest of the frame comes after all. *)
Resume ==
  /\ status = "open" /\ half
  /\ unread < MaxUnread
  /\ last' = "whole"
  /\ unread' = unread + 1
  /\ quiet' = 0
  /\ UNCHANGED <<client, loop, status, login, readFor, busyFor, activity,
                 lastHb, scanned, since>>

-----------------------------------------------------------------------------
(* read_loop.                                                              *)

MutLastActivity == activity

(* last_activity is set when a header and when a body has been read. *)
LastActivity == 0

HeaderReady == loop = "header" /\ (unread > 0 \/ half)

ReadHeader ==
  /\ status = "open"
  /\ HeaderReady
  /\ loop' = "body"
  /\ readFor' = 0
  /\ activity' = LastActivity
  /\ UNCHANGED <<client, status, login, unread, last, quiet, busyFor,
                 lastHb, scanned, since>>

BodyReady == loop = "body" /\ unread > 0

MutTouched == lastHb

(* touch_heartbeat, at the beginning of every handler of a logged-in       *)
(* session.                                                                *)
Touched == IF loggedIn THEN 0 ELSE lastHb

ReadBody ==
  /\ status = "open"
  /\ BodyReady
  /\ unread' = unread - 1
  /\ loop' = "handler"
  /\ readFor' = 0
  /\ busyFor' = 0
  /\ activity' = LastActivity
  /\ lastHb' = Touched
  /\ since' = 0
  /\ UNCHANGED <<client, status, login, last, quiet, scanned>>

(* The handler of an accepted LOGIN enters mark_login, which sets          *)
(* logged_in_ first ...                                                    *)
AcceptLogin ==
  /\ status = "open"
  /\ loop = "handler"
  /\ login = "out"
  /\ login' = "marking"
  /\ UNCHANGED <<client, loop, status, unread, last, clocks>>

(* ... and the heartbeat time last.  The scan does not wait for it: it     *)
(* reads both without the lock.                                            *)
MarkLogin ==
  /\ status = "open"
  /\ login = "marking"
  /\ login' = "in"
  /\ lastHb' = 0
  /\ UNCHANGED <<client, loop, status, unread, last, quiet, readFor, busyFor,
                 activity, scanned, since>>

(* The handler ends, and the idle limit is looked at before the next read  *)
(* begins.                                                                 *)
HandlerEnds ==
  /\ status = "open"
  /\ loop = "handler"
  /\ login # "marking"
  /\ loop' = "header"
  /\ busyFor' = 0
  /\ status' = IF activity > IdleMs THEN "idle_timeout" ELSE status
  /\ UNCHANGED <<client, login, unread, last, quiet, readFor, activity, lastHb,
                 scanned, since>>

(* A frame the server does not accept ends the connection: a header that   *)
(* is invalid or announces too long a body, a first frame that is no       *)
(* LOGIN, a body that is no msgpack map.                                   *)
BadFrame ==
  /\ status = "open"
  /\ ~beating
  /\ \/ loop = "body" /\ readFor = 0
     \/ loop = "handler" /\ login # "marking"
  /\ status' = "stopped"
  /\ UNCHANGED <<client, loop, login, unread, last, clocks>>

MutTimed == loop = "header"

(* read_exact_with_timeout guards the reads of headers and of bodies. *)
Timed == loop \in {"header", "body"}

ReadTimeout ==
  /\ status = "open"
  /\ Timed
  /\ readFor = ReadMs
  /\ status' = "read_timeout"
  /\ UNCHANGED <<client, loop, login, unread, last, clocks>>

-----------------------------------------------------------------------------
(* The heartbeat scan.                                                     *)

MutExpired ==
  \/ login = "marking"
  \/ loggedIn /\ lastHb > HeartbeatMs + ScanMs

(* logged_in_ is set and last_hb_ lies too far back; the zero it is made   *)
(* with lies further back than any timeout.                                *)
Expired ==
  \/ login = "marking"
  \/ loggedIn /\ lastHb > HeartbeatMs

check_heartbeats ==
  /\ status = "open"
  /\ scanned = ScanMs
  /\ scanned' = 0
  /\ status' = IF Expired THEN "heartbeat_timeout" ELSE status
  /\ UNCHANGED <<client, loop, login, unread, last, quiet, readFor, busyFor,
                 activity, lastHb, since>>

-----------------------------------------------------------------------------
(* Nothing that must happen now is left to do. *)
NothingDue ==
  /\ ~HeaderReady /\ ~BodyReady
  /\ Timed => readFor < ReadMs
  /\ loop = "handler" => busyFor < HandlerMax
  /\ scanned < ScanMs
  /\ beating => quiet < Gap \/ unread = MaxUnread

Tick ==
  /\ status = "open"
  /\ NothingDue
  /\ quiet' = quiet + 1
  /\ readFor' = IF Timed THEN readFor + 1 ELSE readFor
  /\ busyFor' = IF loop = "handler" THEN busyFor + 1 ELSE busyFor
  /\ activity' = activity + 1
  /\ lastHb' = IF loggedIn THEN lastHb + 1 ELSE lastHb
  /\ scanned' = scanned + 1
  /\ since' = since + 1
  /\ UNCHANGED <<client, loop, status, login, unread, last>>

Next ==
  \/ Arrive \/ Stall \/ Resume
  \/ ReadHeader \/ ReadBody \/ AcceptLogin \/ MarkLogin \/ HandlerEnds
  \/ BadFrame \/ ReadTimeout
  \/ check_heartbeats
  \/ Tick

Spec == Init /\ [][Next]_vars

-----------------------------------------------------------------------------
(* Properties.                                                             *)

(* The client's frames come often enough for the configuration. *)
KeepsUp ==
  /\ Gap < ReadMs
  /\ Gap <= HeartbeatMs
  /\ HandlerMax <= HeartbeatMs
  /\ HandlerMax <= IdleMs

(* No clock ends the connection of a client that sends a frame the server  *)
(* accepts within every read timeout and every heartbeat timeout, however  *)
(* the handlers delay the reading ("长连接仍保持、不断线"), with one       *)
(* exception: a scan that meets the session inside mark_login, after       *)
(* logged_in_ and before last_hb_, kicks it.  OnlySilentKicked of module   *)
(* Registry is violated by that same window.                               *)
KeptAlive ==
  KeepsUp /\ beating =>
    \/ status = "open"
    \/ status = "heartbeat_timeout" /\ login = "marking"

(* A connection on which no whole frame can be read is closed after at     *)
(* most one handler and two reads, also when it stalls inside a frame.     *)
MuteIsClosed == status = "open" => since <= HandlerMax + 2 * ReadMs

(* A logged-in session that the heartbeat time was not refreshed on is     *)
(* closed at the latest by the first scan after the timeout.               *)
SilentIsKicked == status = "open" => lastHb <= HeartbeatMs + ScanMs

(* The idle limit ends no connection whose handlers are faster than it: a  *)
(* quiet client is always closed by the read timer first, without a KICK.  *)
IdleNeverFires == HandlerMax <= IdleMs => status # "idle_timeout"

=============================================================================
