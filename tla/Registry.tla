------------------------------ MODULE Registry ------------------------------
(***************************************************************************)
(* The session tables of RelayServer (main.cpp): accept, login with the    *)
(* per-user connection limit, delivery by receive mode, kick_user,         *)
(* list_users, the heartbeat scan, the statistics' compaction of all_ and  *)
(* remove_session, as interleaved by the io threads.  Each connection is   *)
(* served by its own read_loop coroutine, which may be suspended or        *)
(* preempted wherever it does not hold mu_.                                *)
(*                                                                         *)
(* Of a session's write side (module Session) only its promises are used:  *)
(* frames go out in the order of posting, and a posted KICK or stop ends   *)
(* in the socket being closed.  Frames that touch none of the tables       *)
(* (refused logins, replies, acknowledgements) are not represented.        *)
(***************************************************************************)
EXTENDS Integers, Sequences, SequencesExt, Lists

CONSTANTS
  Conn,       \* connections that may be accepted, each once
  User,       \* user ids
  Admins,     \* users whose is_admin is set
  NoUser,     \* user_id of a session that is not logged in
  Free,       \* mu_ when nobody holds it
  MaxConn,    \* session.max_connections_per_user
  Cap,        \* session.broadcast_max_recipients
  Receivers,  \* bound: users that DATA is addressed to
  Traffic,    \* what happens besides logins: the kinds of frames clients send
              \* and of timers and admin requests that fire
  MaxData     \* bound: round-robin turns of a user with sessions

ASSUME RegistryAssumption ==
  /\ Admins \subseteq User
  /\ NoUser \notin User
  /\ Free \notin Conn
  /\ MaxConn \in Nat \ {0}
  /\ Cap \in Nat \ {0}
  /\ MaxData \in Nat
  /\ Traffic \subseteq {"bad", "data", "kick", "list", "heartbeat", "stats"}

VARIABLES
  mu,       \* holder of mu_, where holding it spans more than one step
  all,      \* all_
  by_id,    \* keys of by_id_
  deque,    \* user_deque_; empty where the map has no entry
  mode,     \* user_recv_mode_; "none" where the map has no entry
  rr,       \* rr_next_index_; 0 where the map has no entry
  reader,   \* where the read_loop of each connection is
  uid,      \* user_id_; NoUser until logged_in_
  want,     \* what the login being handled authenticated as
  todo,     \* sessions the handler still has to notify
  is_open,  \* socket_.is_open()
  closing,  \* whether a KICK or a stop has been posted to the session
  greeted,  \* whether the LOGIN reply has been posted to the session
  last_hb,  \* last_hb_: never set, within the heartbeat timeout, or older
  scan,     \* sessions the heartbeat scan has still to look at
  turns     \* history: per user the open sessions last offered to round
            \* robin, and how often each was picked since

tables == <<all, by_id, deque, mode, rr>>
vars == <<mu, tables, reader, uid, want, todo, is_open, closing, greeted,
          last_hb, scan, turns>>

Modes == {"broadcast", "round_robin"}

Places == {"none", "reading", "authenticated", "marking", "notifying", "kicking",
           "listing", "leaving", "removed", "done"}

NoTurns == [list |-> <<>>, count |-> [c \in Conn |-> 0]]

(* The types, and that exactly the handlers inside a locked section hold   *)
(* mu_.                                                                    *)
TypeOK ==
  /\ \A c \in Conn : reader[c] \in {"marking", "listing"} <=> mu = c
  /\ mu \in Conn \cup {Free}
  /\ all \subseteq Conn
  /\ by_id \subseteq Conn
  /\ deque \in [User -> Seq(Conn)]
  /\ mode \in [User -> Modes \cup {"none"}]
  /\ rr \in [User -> Nat]
  /\ reader \in [Conn -> Places]
  /\ uid \in [Conn -> User \cup {NoUser}]
  /\ want \in [Conn -> [user : User \cup {NoUser}, mode : Modes, n : Nat]]
  /\ todo \in [Conn -> SUBSET Conn]
  /\ is_open \in [Conn -> BOOLEAN]
  /\ closing \in [Conn -> BOOLEAN]
  /\ greeted \in [Conn -> BOOLEAN]
  /\ last_hb \in [Conn -> {"never", "recent", "old"}]
  /\ scan \subseteq Conn
  /\ turns \in [User -> [list : Seq(Conn), count : [Conn -> Nat]]]

NoWant == [user |-> NoUser, mode |-> "broadcast", n |-> 0]

Init ==
  /\ mu = Free
  /\ all = {}
  /\ by_id = {}
  /\ deque = [u \in User |-> <<>>]
  /\ mode = [u \in User |-> "none"]
  /\ rr = [u \in User |-> 0]
  /\ reader = [c \in Conn |-> "none"]
  /\ uid = [c \in Conn |-> NoUser]
  /\ want = [c \in Conn |-> NoWant]
  /\ todo = [c \in Conn |-> {}]
  /\ is_open = [c \in Conn |-> FALSE]
  /\ closing = [c \in Conn |-> FALSE]
  /\ greeted = [c \in Conn |-> FALSE]
  /\ last_hb = [c \in Conn |-> "never"]
  /\ scan = {}
  /\ turns = [u \in User |-> NoTurns]

-----------------------------------------------------------------------------
MutCanLock == TRUE

(* mu_ can be taken; where the locked section is one step it is released   *)
(* within the step.                                                        *)
CanLock == mu = Free

logged_in(c) == uid[c] # NoUser

Goto(c, place) == reader' = [reader EXCEPT ![c] = place]

(* touch_heartbeat *)
Touch(c) == last_hb' = [last_hb EXCEPT ![c] = "recent"]

(* notify_and_close(s, ...): a KICK is posted, or a stop before the login. *)
notify_and_close(s) == closing' = [closing EXCEPT ![s] = TRUE]

(* A frame arrives on connection c and its handler runs. *)
Handling(c) == reader[c] = "reading" /\ is_open[c]

accept_clients(c) ==
  /\ reader[c] = "none"
  /\ CanLock
  /\ by_id' = by_id \cup {c}
  /\ all' = all \cup {c}
  /\ is_open' = [is_open EXCEPT ![c] = TRUE]
  /\ Goto(c, "reading")
  /\ UNCHANGED <<mu, deque, mode, rr, uid, want, todo, closing, greeted,
                 last_hb, scan, turns>>

(* A frame that must not be: other than LOGIN before the login, or a body  *)
(* that is no msgpack map.  stop is posted and the loop reads on.          *)
BadFrame(c) ==
  /\ "bad" \in Traffic
  /\ Handling(c)
  /\ notify_and_close(c)
  /\ UNCHANGED <<mu, tables, reader, uid, want, todo, is_open, greeted,
                 last_hb, scan, turns>>

(* The session itself posts stop: a failed write or a full send queue. *)
SessionFails(c) ==
  /\ "bad" \in Traffic
  /\ reader[c] # "none" /\ is_open[c]
  /\ notify_and_close(c)
  /\ UNCHANGED <<mu, tables, reader, uid, want, todo, is_open, greeted,
                 last_hb, scan, turns>>

-----------------------------------------------------------------------------
(* LOGIN: the database accepts (outside mu_), the tables are changed under *)
(* mu_, evicted sessions are notified and the reply is posted after it.    *)

Authenticate(c, u, m) ==
  /\ Handling(c) /\ ~logged_in(c)
  /\ want' = [want EXCEPT ![c] = [user |-> u, mode |-> m, n |-> 0]]
  /\ Goto(c, "authenticated")
  /\ UNCHANGED <<mu, tables, uid, todo, is_open, closing, greeted, last_hb,
                 scan, turns>>

(* dq holds one session more than before, hence at most one too many. *)
Evicted(dq) == IF Len(dq) > MaxConn THEN {Head(dq)} ELSE {}

MutEffectiveMode(u, m) == m

EffectiveMode(u, m) == IF deque[u] = <<>> THEN m ELSE mode[u]

MutToNotify(c, out) == {}

ToNotify(c, out) == out \ {c}

EnterTables(c) ==
  LET u == want[c].user
      dq == Append(deque[u], c)
      out == Evicted(dq)
  IN
  /\ reader[c] = "authenticated"
  /\ CanLock
  /\ mu' = c
  /\ mode' = [mode EXCEPT ![u] = EffectiveMode(u, want[c].mode)]
  /\ deque' = [deque EXCEPT ![u] = IF out = {} THEN dq ELSE Tail(dq)]
  /\ todo' = [todo EXCEPT ![c] = ToNotify(c, out)]
  /\ uid' = [uid EXCEPT ![c] = u]
  /\ Goto(c, "marking")
  /\ UNCHANGED <<all, by_id, rr, want, is_open, closing, greeted, last_hb,
                 scan, turns>>

(* mark_login sets logged_in_ first and the heartbeat time last, and mu_   *)
(* is released; the heartbeat scan reads both without mu_.                 *)
MarkLogin(c) ==
  /\ reader[c] = "marking"
  /\ mu' = Free
  /\ Touch(c)
  /\ want' = [want EXCEPT ![c] = NoWant]
  /\ Goto(c, "notifying")
  /\ UNCHANGED <<tables, uid, todo, is_open, closing, greeted, scan, turns>>

(* One victim of the handler of c: an evicted session, or one of the       *)
(* sessions kick_user found.                                               *)
NotifyVictim(c, v) ==
  /\ reader[c] \in {"notifying", "kicking"}
  /\ v \in todo[c]
  /\ todo' = [todo EXCEPT ![c] = @ \ {v}]
  /\ notify_and_close(v)
  /\ UNCHANGED <<mu, tables, reader, uid, want, is_open, greeted, last_hb,
                 scan, turns>>

LoginReply(c) ==
  /\ reader[c] = "notifying"
  /\ todo[c] = {}
  /\ greeted' = [greeted EXCEPT ![c] = TRUE]
  /\ Goto(c, "reading")
  /\ UNCHANGED <<mu, tables, uid, want, todo, is_open, closing, last_hb, scan,
                 turns>>

-----------------------------------------------------------------------------
(* Frames of a logged-in session.                                          *)

(* HEARTBEAT, and every other frame whose only effect here is that the     *)
(* heartbeat time is refreshed.                                            *)
Heartbeat(c) ==
  /\ "heartbeat" \in Traffic
  /\ Handling(c) /\ logged_in(c)
  /\ Touch(c)
  /\ UNCHANGED <<mu, tables, reader, uid, want, todo, is_open, closing,
                 greeted, scan, turns>>

(* The sessions of user u whose socket is open, in the order of login. *)
OpenOf(u) == Keep(deque[u], {s \in Conn : is_open[s]})

(* A session the next DELIVER to user u is posted to by round robin. *)
MutPick(u) == OpenOf(u)[IF rr[u] < Len(OpenOf(u)) THEN rr[u] + 1 ELSE 1]

Pick(u) == OpenOf(u)[(rr[u] % Len(OpenOf(u))) + 1]

CountTurn(u) ==
  LET old == IF turns[u].list = OpenOf(u) THEN turns[u].count ELSE NoTurns.count
  IN [list |-> OpenOf(u), count |-> [old EXCEPT ![Pick(u)] = @ + 1]]

(* deliver_to_user_by_recv_mode under mu_: the sessions that are posted a  *)
(* DELIVER when user u is sent a payload.                                  *)
Recipients(u) ==
  CASE OpenOf(u) = <<>> -> {}
    [] OpenOf(u) # <<>> /\ mode[u] = "round_robin" -> {Pick(u)}
    [] OTHER -> ToSet(SubSeq(OpenOf(u), 1, IF Len(OpenOf(u)) < Cap THEN Len(OpenOf(u)) ELSE Cap))

Data(c, u) ==
  /\ "data" \in Traffic
  /\ Handling(c) /\ logged_in(c)
  /\ CanLock
  /\ u \in Receivers /\ rr[u] < MaxData
  /\ Touch(c)
  /\ IF OpenOf(u) # <<>> /\ mode[u] = "round_robin"
     THEN /\ rr' = [rr EXCEPT ![u] = @ + 1]
          /\ turns' = [turns EXCEPT ![u] = CountTurn(u)]
     ELSE UNCHANGED <<rr, turns>>
  /\ UNCHANGED <<mu, all, by_id, deque, mode, reader, uid, want, todo, is_open,
                 closing, greeted, scan>>

(* CONTROL kick_user: the victims are listed under mu_ and notified later. *)
KickUser(c, u) ==
  /\ "kick" \in Traffic
  /\ Handling(c) /\ uid[c] \in Admins
  /\ CanLock
  /\ Touch(c)
  /\ todo' = [todo EXCEPT ![c] = ToSet(deque[u])]
  /\ Goto(c, "kicking")
  /\ UNCHANGED <<mu, tables, uid, want, is_open, closing, greeted, scan, turns>>

KickReply(c) ==
  /\ reader[c] = "kicking"
  /\ todo[c] = {}
  /\ Goto(c, "reading")
  /\ UNCHANGED <<mu, tables, uid, want, todo, is_open, closing, greeted,
                 last_hb, scan, turns>>

(* CONTROL list_users, for one user: the open sessions are counted for the *)
(* array header, then written one by one, both under mu_.                  *)
ListUsers(c, u) ==
  /\ "list" \in Traffic
  /\ Handling(c) /\ uid[c] \in Admins
  /\ CanLock
  /\ mu' = c
  /\ Touch(c)
  /\ want' = [want EXCEPT ![c] = [user |-> u, mode |-> "broadcast", n |-> Len(OpenOf(u))]]
  /\ Goto(c, "listing")
  /\ UNCHANGED <<tables, uid, todo, is_open, closing, greeted, scan, turns>>

ListReply(c) ==
  /\ reader[c] = "listing"
  /\ mu' = Free
  /\ want' = [want EXCEPT ![c] = NoWant]
  /\ Goto(c, "reading")
  /\ UNCHANGED <<tables, uid, todo, is_open, closing, greeted, last_hb, scan,
                 turns>>

-----------------------------------------------------------------------------
(* The session's strand closes the socket after a posted KICK or stop. *)
StrandCloses(c) ==
  /\ closing[c] /\ is_open[c]
  /\ is_open' = [is_open EXCEPT ![c] = FALSE]
  /\ UNCHANGED <<mu, tables, reader, uid, want, todo, closing, greeted,
                 last_hb, scan, turns>>

(* The read loop leaves: end of file, error or time limit at any time. *)
ReadBreak(c) ==
  /\ reader[c] = "reading" /\ is_open[c]
  /\ Goto(c, "leaving")
  /\ UNCHANGED <<mu, tables, uid, want, todo, is_open, closing, greeted,
                 last_hb, scan, turns>>

(* ... with a notification when the idle limit is what ended it ... *)
IdleBreak(c) ==
  /\ "bad" \in Traffic
  /\ reader[c] = "reading" /\ is_open[c]
  /\ notify_and_close(c)
  /\ Goto(c, "leaving")
  /\ UNCHANGED <<mu, tables, uid, want, todo, is_open, greeted, last_hb, scan,
                 turns>>

(* ... and because the socket was closed. *)
SeeClosed(c) ==
  /\ reader[c] = "reading" /\ ~is_open[c]
  /\ Goto(c, "leaving")
  /\ UNCHANGED <<mu, tables, uid, want, todo, is_open, closing, greeted,
                 last_hb, scan, turns>>

(* The user's receive mode and round-robin index go with the last session. *)
ForgetUser(u, dq) == dq = <<>>

MutDequeWithout(u, c) == IF closing[c] THEN deque[u] ELSE Keep(deque[u], Conn \ {c})

DequeWithout(u, c) == Keep(deque[u], Conn \ {c})

remove_session(c) ==
  /\ reader[c] = "leaving"
  /\ CanLock
  /\ by_id' = by_id \ {c}
  /\ all' = all \ {c}
  /\ IF ~logged_in(c) \/ deque[uid[c]] = <<>>
     THEN UNCHANGED <<deque, mode, rr, turns>>
     ELSE LET u == uid[c]
              dq == DequeWithout(u, c)
          IN /\ deque' = [deque EXCEPT ![u] = dq]
             /\ mode' = [mode EXCEPT ![u] = IF ForgetUser(u, dq) THEN "none" ELSE @]
             /\ rr' = [rr EXCEPT ![u] = IF ForgetUser(u, dq) THEN 0 ELSE @]
             /\ turns' = [turns EXCEPT ![u] = IF ForgetUser(u, dq) THEN NoTurns ELSE @]
  /\ Goto(c, "removed")
  /\ UNCHANGED <<mu, uid, want, todo, is_open, closing, greeted, last_hb, scan>>

CloseSocket(c) ==
  /\ reader[c] = "removed"
  /\ is_open' = [is_open EXCEPT ![c] = FALSE]
  /\ Goto(c, "done")
  /\ UNCHANGED <<mu, tables, uid, want, todo, closing, greeted, last_hb, scan,
                 turns>>

-----------------------------------------------------------------------------
(* Background work.                                                        *)

(* The heartbeat timeout passes without a frame from c. *)
Silence(c) ==
  /\ "heartbeat" \in Traffic
  /\ last_hb[c] = "recent"
  /\ last_hb' = [last_hb EXCEPT ![c] = "old"]
  /\ UNCHANGED <<mu, tables, reader, uid, want, todo, is_open, closing,
                 greeted, scan, turns>>

(* check_heartbeats copies all_ under mu_ and looks at the copy without it.*)
ScanBegin ==
  /\ "heartbeat" \in Traffic
  /\ scan = {}
  /\ CanLock
  /\ scan' = all
  /\ UNCHANGED <<mu, tables, reader, uid, want, todo, is_open, closing,
                 greeted, last_hb, turns>>

TimedOut(c) == logged_in(c) /\ is_open[c] /\ last_hb[c] # "recent"

ScanOne(c) ==
  /\ c \in scan
  /\ scan' = scan \ {c}
  /\ IF TimedOut(c) THEN notify_and_close(c) ELSE UNCHANGED closing
  /\ UNCHANGED <<mu, tables, reader, uid, want, todo, is_open, greeted,
                 last_hb, turns>>

MutStillListed(c) == is_open[c] /\ logged_in(c)

StillListed(c) == is_open[c]

(* snapshot_stats drops closed sessions from all_. *)
snapshot_stats ==
  /\ "stats" \in Traffic
  /\ CanLock
  /\ all' = {c \in all : StillListed(c)}
  /\ UNCHANGED <<mu, by_id, deque, mode, rr, reader, uid, want, todo, is_open,
                 closing, greeted, last_hb, scan, turns>>

-----------------------------------------------------------------------------
Handler(c) ==
  \/ EnterTables(c) \/ MarkLogin(c) \/ LoginReply(c)
  \/ KickReply(c) \/ ListReply(c)
  \/ \E v \in Conn : NotifyVictim(c, v)

Frame(c) ==
  \/ BadFrame(c) \/ Heartbeat(c)
  \/ \E u \in User : \/ \E m \in Modes : Authenticate(c, u, m)
                     \/ Data(c, u) \/ KickUser(c, u) \/ ListUsers(c, u)

Ending(c) == StrandCloses(c) \/ SeeClosed(c) \/ remove_session(c) \/ CloseSocket(c)

Next ==
  \/ \E c \in Conn :
       \/ accept_clients(c) \/ Frame(c) \/ Handler(c) \/ Ending(c)
       \/ SessionFails(c) \/ ReadBreak(c) \/ IdleBreak(c)
       \/ Silence(c) \/ ScanOne(c)
  \/ ScanBegin
  \/ snapshot_stats

Spec == Init /\ [][Next]_vars

(* The io threads finish a handler once begun, resume a read loop whose    *)
(* socket is closed, and run the heartbeat timer; mu_ is always released,  *)
(* so a thread that keeps asking for it gets it.  That a session told to   *)
(* close is closed supposes a peer that reads (KickCloses of Session).     *)
Fairness ==
  /\ \A c \in Conn : /\ SF_vars(Handler(c))
                     /\ SF_vars(Ending(c))
                     /\ WF_vars(ScanOne(c))
  /\ SF_vars(ScanBegin)

FairSpec == Spec /\ Fairness

-----------------------------------------------------------------------------
(* Properties.                                                             *)

InTables(c) == c \in all \/ c \in by_id \/ \E u \in User : Contains(deque[u], c)

(* A session in a user's deque is logged in as that user, stands there     *)
(* once, and its read loop has not yet removed it; a removed session is    *)
(* in no table, whatever login, eviction, kick and scan did around it.     *)
NoGhost ==
  /\ \A u \in User : \A i \in 1..Len(deque[u]) :
       /\ uid[deque[u][i]] = u
       /\ \A j \in 1..Len(deque[u]) : deque[u][i] = deque[u][j] => i = j
  /\ \A c \in Conn : reader[c] \in {"none", "removed", "done"} => ~InTables(c)

(* No user has more than max_connections_per_user sessions in the tables,  *)
(* and a session that logged in and is in no deque (its user's DATA would  *)
(* never reach it) has been told to close or is about to be.               *)
LimitedAndReachable ==
  /\ \A u \in User : Len(deque[u]) <= MaxConn
  /\ \A c \in Conn :
       logged_in(c) /\ reader[c] \notin {"removed", "done"} =>
         \/ Contains(deque[uid[c]], c)
         \/ closing[c]
         \/ \E d \in Conn : c \in todo[d]

(* The receive mode is that of the first login among the sessions a user   *)
(* has: it stays as long as there is one, and is forgotten with the last,  *)
(* as try_authenticate tells a client whose mode was not taken             *)
(* ("若需更改，请关闭该用户全部连接后重新登录", main.cpp:959).             *)
ModeIsFirstLogins ==
  [][\A u \in User :
       /\ deque[u] # <<>> /\ deque'[u] # <<>> => mode'[u] = mode[u]
       /\ deque'[u] = <<>> => mode'[u] = "none" /\ rr'[u] = 0]_vars

(* The heartbeat scan can see every open session whose loop still runs:    *)
(* compaction by the statistics and removals never lose one from all_.     *)
ScanSeesOpen ==
  \A c \in Conn :
    is_open[c] /\ reader[c] \notin {"none", "removed", "done"} => c \in all

(* Round robin is fair: while the open sessions of a user stay the same,   *)
(* no two of them differ by more than one turn.                            *)
FairTurns ==
  \A u \in User : \A c, d \in ToSet(turns[u].list) :
    turns[u].count[c] <= turns[u].count[d] + 1

(* A session told to close leaves every table and its socket is closed.    *)
ClosingIsRemoved ==
  \A c \in Conn : closing[c] ~> (reader[c] = "done" /\ ~is_open[c] /\ ~InTables(c))

(* A logged-in session that stays silent is told to close, unless its loop *)
(* ends or it speaks again first.                                          *)
SilentIsKicked ==
  \A c \in Conn :
    last_hb[c] = "old" ~>
      (closing[c] \/ last_hb[c] = "recent" \/ reader[c] \in {"leaving", "removed", "done"})

(* No session gets a DELIVER before the reply to its LOGIN, on which       *)
(* Client::sign_on insists.                                                *)
LoginReplyFirst ==
  [][\A c \in Conn, u \in User : Data(c, u) => \A s \in Recipients(u) : greeted[s]]_vars

(* "同一用户名在本中继进程内第一次成功登录时选的策略会固定下来": the mode   *)
(* of a user's first login is fixed for the life of the process.           *)
ModeFixed ==
  \A u \in User : \A m, n \in Modes : m # n => [](mode[u] = m => [](mode[u] # n))

(* The heartbeat scan closes a session only after a silence. *)
OnlySilentKicked ==
  [][\A c \in Conn : ScanOne(c) /\ TimedOut(c) => last_hb[c] = "old"]_vars

(* list_users never writes more connections than its array header          *)
(* announced: the tables cannot grow between its two passes.  It may write *)
(* fewer, since a socket can close in between without mu_ (main.cpp:1284). *)
ListNeverOverruns ==
  [][\A c \in Conn : ListReply(c) => Len(OpenOf(want[c].user)) <= want[c].n]_vars

=============================================================================
