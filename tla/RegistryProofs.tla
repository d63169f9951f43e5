--------------------------- MODULE RegistryProofs ---------------------------
(* The session tables keep their invariants for any number of connections  *)
(* and users and every configuration.                                      *)
EXTENDS Registry, ListsProofs

LEMMA ModRange ==
  ASSUME NEW r \in Nat, NEW n \in Nat \ {0}
  PROVE  r % n \in 0..(n - 1) /\ r = n * (r \div n) + (r % n) /\ r \div n \in Nat
  BY Z3

LEMMA ModUnique ==
  ASSUME NEW r \in Nat, NEW n \in Nat \ {0}, NEW q \in Nat, NEW p \in 0..(n - 1), r = n * q + p
  PROVE  r % n = p
  BY Z3

(* The round-robin index moves to the next place, and from the last one to *)
(* the first.                                                              *)
LEMMA ModStep ==
  ASSUME NEW r \in Nat, NEW n \in Nat \ {0}
  PROVE  (r + 1) % n = IF r % n = n - 1 THEN 0 ELSE (r % n) + 1
<1> DEFINE p == r % n
           q == r \div n
<1>1. p \in 0..(n - 1) /\ r = n * q + p /\ q \in Nat
  BY ModRange
<1> HIDE DEF p, q
<1>2. CASE p = n - 1
  <2>1. r + 1 = n * (q + 1) + 0 /\ q + 1 \in Nat /\ 0 \in 0..(n - 1) /\ r + 1 \in Nat
    BY <1>1, <1>2, Z3
  <2>2. (r + 1) % n = 0
    BY <2>1, ModUnique
  <2> QED
    BY <1>2, <2>2 DEF p
<1>3. CASE p # n - 1
  <2>1. r + 1 = n * q + (p + 1) /\ p + 1 \in 0..(n - 1) /\ r + 1 \in Nat
    BY <1>1, <1>3
  <2>2. (r + 1) % n = p + 1
    BY <1>1, <2>1, ModUnique
  <2> QED
    BY <1>3, <2>2 DEF p
<1> QED
  BY <1>2, <1>3

LEMMA TailIs ==
  ASSUME NEW S, NEW s \in Seq(S), Len(s) >= 1
  PROVE  /\ Tail(s) \in Seq(S) /\ Len(Tail(s)) = Len(s) - 1
         /\ \A i \in 1..(Len(s) - 1) : Tail(s)[i] = s[i + 1]
         /\ Head(s) = s[1] /\ Head(s) \in S
  OBVIOUS

-----------------------------------------------------------------------------
(* The steps, grouped by what they touch.                                  *)

(* Steps that leave tables, handlers and sockets alone. *)
Still ==
  /\ UNCHANGED <<mu, all, by_id, deque, mode, rr, reader, uid, want, todo,
                 is_open, greeted, turns>>
  /\ scan' \subseteq scan \cup all
  /\ last_hb' = last_hb \/ \E c \in Conn, t \in {"recent", "old"} : last_hb' = [last_hb EXCEPT ![c] = t]
  /\ closing' = closing \/ \E c \in Conn : closing' = [closing EXCEPT ![c] = TRUE]

(* Steps of one handler that leave the tables and the sockets alone. *)
Moving(c) ==
  \/ \E u \in User, m \in Modes : Authenticate(c, u, m)
  \/ MarkLogin(c) \/ LoginReply(c) \/ KickReply(c) \/ ListReply(c)
  \/ \E u \in User : KickUser(c, u) \/ ListUsers(c, u)
  \/ ReadBreak(c) \/ IdleBreak(c) \/ SeeClosed(c)

LEMMA Cases ==
  ASSUME [Next]_vars
  PROVE  \/ Still
         \/ \E c \in Conn :
              \/ Moving(c)
              \/ \E v \in Conn : NotifyVictim(c, v)
              \/ accept_clients(c) \/ StrandCloses(c) \/ CloseSocket(c)
              \/ EnterTables(c) \/ remove_session(c)
              \/ \E u \in User : Data(c, u)
         \/ snapshot_stats
<1>1. CASE ScanBegin \/ UNCHANGED vars
  <2>1. Still
    BY <1>1 DEF ScanBegin, vars, tables, Still
  <2> QED
    BY <2>1
<1>2. ASSUME NEW c \in Conn, BadFrame(c) \/ SessionFails(c) \/ Heartbeat(c) \/ Silence(c) \/ ScanOne(c)
      PROVE  Still
  BY <1>2 DEF BadFrame, SessionFails, Heartbeat, Silence, ScanOne, Touch, notify_and_close, tables, Still
<1> QED
  BY <1>1, <1>2 DEF Next, Frame, Handler, Ending, Moving

(* The types without the lock. *)
Types ==
  /\ mu \in Conn \cup {Free}
  /\ all \subseteq Conn
  /\ by_id \subseteq Conn
  /\ deque \in [User -> Seq(Conn)]
  /\ mode \in [User -> Modes \cup {"none"}]
  /\ rr \in [User -> Nat]
  /\ reader \in [Conn -> Places]
  /\ uid \in [Conn -> User \cup {NoUser}]
  /\ want \in [Conn -> [user : User \cup {NoUser}, mode : Modes, n : Nat]]
  /\ todo \in [Conn -> SUBSET Conn]
  /\ is_open \in [Conn -> BOOLEAN]
  /\ closing \in [Conn -> BOOLEAN]
  /\ greeted \in [Conn -> BOOLEAN]
  /\ last_hb \in [Conn -> {"never", "recent", "old"}]
  /\ scan \subseteq Conn
  /\ turns \in [User -> [list : Seq(Conn), count : [Conn -> Nat]]]

Lock == \A c \in Conn : reader[c] \in {"marking", "listing"} <=> mu = c

LEMMA TypeParts == TypeOK <=> Types /\ Lock
  BY DEF TypeOK, Types, Lock

(* A handler has a user in hand where it uses one; a session is logged in  *)
(* only once its login entered the tables; only a handler that notifies    *)
(* has sessions left to notify.                                            *)
Wants == \A c \in Conn : reader[c] \in {"authenticated", "listing"} => want[c].user \in User
NotYet == \A c \in Conn : reader[c] \in {"none", "authenticated"} => uid[c] = NoUser
IdleTodo == \A c \in Conn : reader[c] \notin {"marking", "notifying", "kicking"} => todo[c] = {}

LEMMA OpenTypes ==
  ASSUME Types, NEW u \in User
  PROVE  OpenOf(u) \in Seq(Conn) /\ Len(OpenOf(u)) \in Nat /\ Len(OpenOf(u)) <= Len(deque[u])
<1>1. deque[u] \in Seq(Conn)
  BY DEF Types
<1>2. Keep(deque[u], {s \in Conn : is_open[s]}) \in Seq(Conn)
      /\ Len(Keep(deque[u], {s \in Conn : is_open[s]})) <= Len(deque[u])
  BY <1>1, KeepElements
<1> QED
  BY <1>2 DEF OpenOf

LEMMA PickIs ==
  ASSUME Types, NEW u \in User, OpenOf(u) # <<>>
  PROVE  /\ Len(OpenOf(u)) \in Nat \ {0}
         /\ rr[u] % Len(OpenOf(u)) \in 0..(Len(OpenOf(u)) - 1)
         /\ (rr[u] % Len(OpenOf(u))) + 1 \in 1..Len(OpenOf(u))
         /\ Pick(u) \in Conn
<1>1. OpenOf(u) \in Seq(Conn) /\ Len(OpenOf(u)) \in Nat \ {0} /\ rr[u] \in Nat
  BY OpenTypes DEF Types
<1>2. rr[u] % Len(OpenOf(u)) \in 0..(Len(OpenOf(u)) - 1)
  BY <1>1, ModRange
<1>3. (rr[u] % Len(OpenOf(u))) + 1 \in 1..Len(OpenOf(u))
  BY <1>1, <1>2
<1> QED
  BY <1>1, <1>2, <1>3 DEF Pick

LEMMA TypesStep ==
  ASSUME Types, Wants, [Next]_vars
  PROVE  Types'
<1>1. CASE Still
  <2>1. scan' \subseteq Conn
    BY <1>1 DEF Types, Still
  <2>2. last_hb' \in [Conn -> {"never", "recent", "old"}]
    BY <1>1 DEF Types, Still
  <2>3. closing' \in [Conn -> BOOLEAN]
    BY <1>1 DEF Types, Still
  <2> QED
    BY <1>1, <2>1, <2>2, <2>3 DEF Types, Still
<1>2. ASSUME NEW c \in Conn, Moving(c) PROVE Types'
  <2>1. ASSUME NEW u \in User, NEW m \in Modes, Authenticate(c, u, m) PROVE Types'
    BY <2>1 DEF Types, Authenticate, Goto, Places, tables
  <2>2. CASE MarkLogin(c)
    BY <2>2 DEF Types, MarkLogin, Touch, NoWant, Modes, Goto, Places, tables
  <2>3. CASE LoginReply(c)
    BY <2>3 DEF Types, LoginReply, Goto, Places, tables
  <2>4. CASE KickReply(c)
    BY <2>4 DEF Types, KickReply, Goto, Places, tables
  <2>5. CASE ListReply(c)
    BY <2>5 DEF Types, ListReply, NoWant, Modes, Goto, Places, tables
  <2>6. ASSUME NEW u \in User, KickUser(c, u) PROVE Types'
    <3>1. ToSet(deque[u]) \subseteq Conn
      BY DEF ToSet, Types
    <3> QED
      BY <2>6, <3>1 DEF Types, KickUser, Touch, Goto, Places, tables
  <2>7. ASSUME NEW u \in User, ListUsers(c, u) PROVE Types'
    <3>1. Len(OpenOf(u)) \in Nat
      BY OpenTypes
    <3> QED
      BY <2>7, <3>1 DEF Types, ListUsers, Touch, Modes, Goto, Places, tables
  <2>8. CASE ReadBreak(c) \/ SeeClosed(c)
    BY <2>8 DEF Types, ReadBreak, SeeClosed, Goto, Places, tables
  <2>9. CASE IdleBreak(c)
    BY <2>9 DEF Types, IdleBreak, notify_and_close, Goto, Places, tables
  <2> QED
    BY <1>2, <2>1, <2>2, <2>3, <2>4, <2>5, <2>6, <2>7, <2>8, <2>9 DEF Moving
<1>3. ASSUME NEW c \in Conn, NEW v \in Conn, NotifyVictim(c, v) PROVE Types'
  BY <1>3 DEF Types, NotifyVictim, notify_and_close, tables
<1>4. ASSUME NEW c \in Conn, accept_clients(c) PROVE Types'
  BY <1>4 DEF Types, accept_clients, Goto, Places
<1>5. ASSUME NEW c \in Conn, StrandCloses(c) \/ CloseSocket(c) PROVE Types'
  <2>1. CASE StrandCloses(c)
    BY <2>1 DEF Types, StrandCloses, tables
  <2>2. CASE CloseSocket(c)
    BY <2>2 DEF Types, CloseSocket, Goto, Places, tables
  <2> QED
    BY <1>5, <2>1, <2>2
<1>6. ASSUME NEW c \in Conn, EnterTables(c) PROVE Types'
  <2> DEFINE u == want[c].user
             dq == Append(deque[u], c)
             next == IF Evicted(dq) = {} THEN dq ELSE Tail(dq)
  <2>1. u \in User /\ deque[u] \in Seq(Conn) /\ want[c].mode \in Modes
    BY <1>6 DEF Wants, EnterTables, Types
  <2>2. dq \in Seq(Conn) /\ dq # <<>> /\ Tail(dq) \in Seq(Conn) /\ Head(dq) \in Conn
    <3>1. Len(dq) = Len(deque[u]) + 1 /\ Len(deque[u]) \in Nat /\ dq \in Seq(Conn)
      BY <2>1
    <3> QED
      BY <3>1
  <2>3. EffectiveMode(u, want[c].mode) \in Modes \cup {"none"}
    BY <2>1 DEF EffectiveMode, Types
  <2>4. ToNotify(c, Evicted(dq)) \subseteq Conn /\ next \in Seq(Conn)
    BY <2>2 DEF ToNotify, Evicted
  <2>5. /\ mode' = [mode EXCEPT ![u] = EffectiveMode(u, want[c].mode)]
        /\ deque' = [deque EXCEPT ![u] = next]
        /\ todo' = [todo EXCEPT ![c] = ToNotify(c, Evicted(dq))]
        /\ uid' = [uid EXCEPT ![c] = u]
        /\ reader' = [reader EXCEPT ![c] = "marking"]
        /\ mu' = c
        /\ UNCHANGED <<all, by_id, rr, want, is_open, closing, greeted, last_hb, scan, turns>>
    BY <1>6 DEF EnterTables, Goto
  <2> HIDE DEF u, dq, next
  <2> QED
    BY <2>1, <2>3, <2>4, <2>5 DEF Types, Places
<1>7. ASSUME NEW c \in Conn, remove_session(c) PROVE Types'
  <2>1. CASE ~logged_in(c) \/ deque[uid[c]] = <<>>
    BY <1>7, <2>1 DEF Types, remove_session, Goto, Places
  <2>2. CASE ~(~logged_in(c) \/ deque[uid[c]] = <<>>)
    <3> DEFINE u == uid[c]
               dq == DequeWithout(u, c)
    <3>1. u \in User /\ deque[u] \in Seq(Conn)
      BY <2>2 DEF logged_in, Types
    <3>2. dq \in Seq(Conn)
      BY <3>1, KeepElements DEF DequeWithout
    <3>3. NoTurns \in [list : Seq(Conn), count : [Conn -> Nat]]
      BY DEF NoTurns
    <3>4. /\ deque' = [deque EXCEPT ![u] = dq]
          /\ mode' = [mode EXCEPT ![u] = IF ForgetUser(u, dq) THEN "none" ELSE mode[u]]
          /\ rr' = [rr EXCEPT ![u] = IF ForgetUser(u, dq) THEN 0 ELSE rr[u]]
          /\ turns' = [turns EXCEPT ![u] = IF ForgetUser(u, dq) THEN NoTurns ELSE turns[u]]
          /\ by_id' = by_id \ {c} /\ all' = all \ {c}
          /\ reader' = [reader EXCEPT ![c] = "removed"]
          /\ UNCHANGED <<mu, uid, want, todo, is_open, closing, greeted, last_hb, scan>>
      BY <1>7, <2>2 DEF remove_session, Goto
    <3> HIDE DEF u, dq
    <3> QED
      BY <3>1, <3>2, <3>3, <3>4 DEF Types, Places
  <2> QED
    BY <2>1, <2>2
<1>8. ASSUME NEW c \in Conn, NEW u \in User, Data(c, u) PROVE Types'
  <2>1. CASE OpenOf(u) # <<>> /\ mode[u] = "round_robin"
    <3>1. CountTurn(u) \in [list : Seq(Conn), count : [Conn -> Nat]]
      <4> DEFINE old == IF turns[u].list = OpenOf(u) THEN turns[u].count ELSE NoTurns.count
      <4>1. old \in [Conn -> Nat]
        BY DEF Types, NoTurns
      <4>2. Pick(u) \in Conn /\ OpenOf(u) \in Seq(Conn)
        BY <2>1, PickIs, OpenTypes
      <4>3. CountTurn(u) = [list |-> OpenOf(u), count |-> [old EXCEPT ![Pick(u)] = old[Pick(u)] + 1]]
        BY DEF CountTurn
      <4> HIDE DEF old
      <4> QED
        BY <4>1, <4>2, <4>3
    <3>2. rr' = [rr EXCEPT ![u] = rr[u] + 1] /\ turns' = [turns EXCEPT ![u] = CountTurn(u)]
          /\ last_hb' = [last_hb EXCEPT ![c] = "recent"]
          /\ UNCHANGED <<mu, all, by_id, deque, mode, reader, uid, want, todo, is_open,
                 closing, greeted, scan>>
      BY <1>8, <2>1 DEF Data, Touch
    <3>3. rr' \in [User -> Nat] /\ last_hb' \in [Conn -> {"never", "recent", "old"}]
      BY <3>2 DEF Types
    <3>4. turns' \in [User -> [list : Seq(Conn), count : [Conn -> Nat]]]
      BY <3>1, <3>2 DEF Types
    <3> QED
      BY <3>2, <3>3, <3>4 DEF Types
  <2>2. CASE ~(OpenOf(u) # <<>> /\ mode[u] = "round_robin")
    BY <1>8, <2>2 DEF Types, Data, Touch
  <2> QED
    BY <2>1, <2>2
<1>9. CASE snapshot_stats
  BY <1>9 DEF Types, snapshot_stats
<1> QED
  BY <1>1, <1>2, <1>3, <1>4, <1>5, <1>6, <1>7, <1>8, <1>9, Cases

HandlerInv == Types /\ Lock /\ Wants /\ NotYet /\ IdleTodo

LEMMA HandlerInit == Init => HandlerInv
<1> SUFFICES ASSUME Init PROVE HandlerInv
  OBVIOUS
<1>1. Types
  <2>1. NoWant \in [user : User \cup {NoUser}, mode : Modes, n : Nat]
    BY DEF NoWant, Modes
  <2>2. NoTurns \in [list : Seq(Conn), count : [Conn -> Nat]]
    BY DEF NoTurns
  <2> QED
    BY <2>1, <2>2 DEF Init, Types, Places
<1>2. Lock /\ Wants /\ NotYet /\ IdleTodo
  BY RegistryAssumption DEF Init, Lock, Wants, NotYet, IdleTodo
<1> QED
  BY <1>1, <1>2 DEF HandlerInv

LEMMA IdleKept ==
  ASSUME Types, IdleTodo, NEW c \in Conn, NEW p, UNCHANGED todo,
         reader' = [reader EXCEPT ![c] = p], todo[c] = {}
  PROVE  IdleTodo'
<1>1. ASSUME NEW d \in Conn, reader'[d] \notin {"marking", "notifying", "kicking"} PROVE todo'[d] = {}
  <2>1. CASE d = c
    BY <2>1
  <2>2. CASE d # c
    <3>1. reader'[d] = reader[d]
      BY <2>2 DEF Types
    <3> QED
      BY <1>1, <3>1 DEF IdleTodo
  <2> QED
    BY <2>1, <2>2
<1> QED
  BY <1>1 DEF IdleTodo

LEMMA HandlerStep == HandlerInv /\ [Next]_vars => HandlerInv'
<1> SUFFICES ASSUME HandlerInv, [Next]_vars PROVE HandlerInv'
  OBVIOUS
<1> DEFINE I == Lock /\ Wants /\ NotYet /\ IdleTodo
<1>0. Types /\ Types' /\ Lock /\ Wants /\ NotYet /\ IdleTodo
  BY TypesStep DEF HandlerInv
<1> USE <1>0 DEF Lock, Wants, NotYet, IdleTodo
<1>1. ASSUME Still PROVE I'
  BY <1>1 DEF Still
<1>2. ASSUME NEW c \in Conn, Moving(c) PROVE I'
  <2> USE RegistryAssumption DEF Types, Goto
  <2>1. ASSUME NEW u \in User, NEW m \in Modes, Authenticate(c, u, m) PROVE I'
    BY <2>1 DEF Authenticate, Handling, logged_in
  <2>2. CASE MarkLogin(c)
    BY <2>2 DEF MarkLogin
  <2>3. CASE LoginReply(c)
    BY <2>3 DEF LoginReply
  <2>4. CASE KickReply(c)
    BY <2>4 DEF KickReply
  <2>5. CASE ListReply(c)
    <3>1. Lock' /\ NotYet'
      BY <2>5 DEF ListReply
    <3>2. Wants'
      BY <2>5 DEF ListReply
    <3>3. IdleTodo'
      <4>1. todo[c] = {} /\ UNCHANGED todo /\ reader' = [reader EXCEPT ![c] = "reading"]
        BY <2>5 DEF ListReply
      <4> QED
        BY <4>1, IdleKept
    <3> QED
      BY <3>1, <3>2, <3>3
  <2>6. ASSUME NEW u \in User, KickUser(c, u) PROVE I'
    BY <2>6 DEF KickUser, Handling
  <2>7. ASSUME NEW u \in User, ListUsers(c, u) PROVE I'
    <3>1. Lock' /\ NotYet'
      BY <2>7 DEF ListUsers, Handling, CanLock
    <3>2. Wants'
      BY <2>7 DEF ListUsers
    <3>3. IdleTodo'
      <4>1. todo[c] = {} /\ UNCHANGED todo /\ reader' = [reader EXCEPT ![c] = "listing"]
        BY <2>7 DEF ListUsers, Handling
      <4> QED
        BY <4>1, IdleKept
    <3> QED
      BY <3>1, <3>2, <3>3
  <2>8. CASE ReadBreak(c) \/ SeeClosed(c) \/ IdleBreak(c)
    <3>1. reader[c] = "reading" /\ reader' = [reader EXCEPT ![c] = "leaving"]
          /\ UNCHANGED <<mu, uid, want, todo>>
      BY <2>8 DEF ReadBreak, SeeClosed, IdleBreak
    <3> QED
      BY <3>1
  <2> QED
    BY <1>2, <2>1, <2>2, <2>3, <2>4, <2>5, <2>6, <2>7, <2>8 DEF Moving
<1>3. ASSUME NEW c \in Conn, NEW v \in Conn, NotifyVictim(c, v) PROVE I'
  BY <1>3 DEF NotifyVictim, Types
<1>4. ASSUME NEW c \in Conn, accept_clients(c) PROVE I'
  BY <1>4 DEF accept_clients, Goto, Types
<1>5. ASSUME NEW c \in Conn, StrandCloses(c) \/ CloseSocket(c) PROVE I'
  <2>1. CASE StrandCloses(c)
    BY <2>1 DEF StrandCloses
  <2>2. CASE CloseSocket(c)
    <3>1. reader[c] = "removed" /\ reader' = [reader EXCEPT ![c] = "done"]
          /\ UNCHANGED <<mu, uid, want, todo>>
      BY <2>2 DEF CloseSocket, Goto
    <3>2. Lock' /\ Wants' /\ NotYet'
      BY <3>1 DEF Types
    <3>3. IdleTodo'
      <4>1. todo[c] = {}
        BY <3>1
      <4> QED
        BY <3>1, <4>1, IdleKept
    <3> QED
      BY <3>2, <3>3
  <2> QED
    BY <1>5, <2>1, <2>2
<1>6. ASSUME NEW c \in Conn, EnterTables(c) PROVE I'
  BY <1>6, RegistryAssumption DEF EnterTables, Goto, CanLock, Types
<1>7. ASSUME NEW c \in Conn, remove_session(c) PROVE I'
  BY <1>7 DEF remove_session, Goto, Types
<1>8. ASSUME NEW c \in Conn, NEW u \in User, Data(c, u) PROVE I'
  BY <1>8 DEF Data
<1>9. ASSUME snapshot_stats PROVE I'
  BY <1>9 DEF snapshot_stats
<1> QED
  BY <1>1, <1>2, <1>3, <1>4, <1>5, <1>6, <1>7, <1>8, <1>9, Cases DEF HandlerInv

(* The tables keep their types, and exactly the handlers inside a locked   *)
(* section of more than one step hold mu_.                                 *)
THEOREM TypeCorrect == Spec => []TypeOK
<1>1. Spec => []HandlerInv
  BY HandlerInit, HandlerStep, PTL DEF Spec
<1>2. HandlerInv => TypeOK
  BY TypeParts DEF HandlerInv
<1> QED
  BY <1>1, <1>2, PTL

-----------------------------------------------------------------------------
(* What login and removal do to a user's deque.                            *)

(* A login appends its session; when that makes one too many, the first is *)
(* dropped and handed to the handler to notify.                            *)
LEMMA EnterShape ==
  ASSUME HandlerInv, NEW c \in Conn, EnterTables(c)
  PROVE  LET u == want[c].user
             n == Len(deque[u])
             D == deque'[u]
         IN /\ u \in User /\ n \in Nat /\ uid[c] = NoUser /\ todo[c] = {}
            /\ deque' = [deque EXCEPT ![u] = D]
            /\ uid' = [uid EXCEPT ![c] = u]
            /\ D \in Seq(Conn) /\ D # <<>>
            /\ \E k \in {0, 1} :
                 /\ Len(D) = n + 1 - k
                 /\ \A i \in 1..(n - k) : D[i] = deque[u][i + k]
                 /\ D[n + 1 - k] = c
                 /\ k = 1 => n >= 1 /\ deque[u][1] \in todo'[c] \cup {c}
                 /\ k = 0 => n < MaxConn
<1> DEFINE u == want[c].user
           n == Len(deque[u])
           D == deque'[u]
           dq == Append(deque[u], c)
<1>1. u \in User /\ uid[c] = NoUser /\ todo[c] = {}
  BY DEF EnterTables, HandlerInv, Wants, NotYet, IdleTodo
<1>2. deque[u] \in Seq(Conn) /\ n \in Nat /\ deque \in [User -> Seq(Conn)]
  BY <1>1 DEF HandlerInv, Types
<1>3. /\ dq \in Seq(Conn) /\ Len(dq) = n + 1 /\ dq[n + 1] = c
      /\ \A i \in 1..n : dq[i] = deque[u][i]
  BY <1>2
<1>4. /\ deque' = [deque EXCEPT ![u] = IF Evicted(dq) = {} THEN dq ELSE Tail(dq)]
      /\ todo' = [todo EXCEPT ![c] = Evicted(dq) \ {c}]
      /\ uid' = [uid EXCEPT ![c] = u]
  BY DEF EnterTables, ToNotify
<1>5. D = IF Evicted(dq) = {} THEN dq ELSE Tail(dq)
  BY <1>1, <1>2, <1>4
<1>6. deque' = [deque EXCEPT ![u] = D]
  BY <1>4, <1>5
<1>7. todo'[c] = Evicted(dq) \ {c}
  BY <1>4 DEF HandlerInv, Types
<1> HIDE DEF dq, D, u, n
<1>8. CASE n + 1 > MaxConn
  <2>1. Evicted(dq) = {Head(dq)} /\ n >= 1
    BY <1>2, <1>3, <1>8, RegistryAssumption DEF Evicted
  <2>t. /\ Tail(dq) \in Seq(Conn) /\ Len(Tail(dq)) = Len(dq) - 1 /\ Head(dq) = dq[1]
        /\ \A i \in 1..(Len(dq) - 1) : Tail(dq)[i] = dq[i + 1]
    BY <1>2, <1>3, <2>1, TailIs
  <2>2. D = Tail(dq) /\ Head(dq) = deque[u][1]
    <3>1. D = Tail(dq)
      BY <1>5, <2>1
    <3>2. 1 \in 1..n
      BY <1>2, <2>1
    <3> QED
      BY <1>3, <2>t, <3>1, <3>2
  <2>3. D \in Seq(Conn) /\ Len(D) = n /\ \A i \in 1..n : D[i] = dq[i + 1]
    <3>1. Len(dq) - 1 = n
      BY <1>2, <1>3
    <3> QED
      BY <2>t, <2>2, <3>1
  <2>4. \A i \in 1..(n - 1) : D[i] = deque[u][i + 1]
    BY <1>2, <1>3, <2>3
  <2>5. D[n] = c /\ D # <<>>
    BY <1>2, <1>3, <2>1, <2>3
  <2>6. deque[u][1] \in todo'[c] \cup {c}
    BY <1>7, <2>1, <2>2
  <2>7. \E k \in {0, 1} :
          /\ Len(D) = n + 1 - k
          /\ \A i \in 1..(n - k) : D[i] = deque[u][i + k]
          /\ D[n + 1 - k] = c
          /\ k = 1 => n >= 1 /\ deque[u][1] \in todo'[c] \cup {c}
          /\ k = 0 => n < MaxConn
    <3>1. n + 1 - 1 = n
      BY <1>2
    <3> WITNESS 1 \in {0, 1}
    <3> QED
      BY <2>1, <2>3, <2>4, <2>5, <2>6, <3>1
  <2> QED
    BY <1>1, <1>2, <1>4, <1>6, <2>3, <2>5, <2>7 DEF D, u, n
<1>9. CASE ~(n + 1 > MaxConn)
  <2>1. D = dq /\ n < MaxConn
    BY <1>2, <1>3, <1>5, <1>9, RegistryAssumption DEF Evicted
  <2>2. D # <<>>
    BY <1>2, <1>3, <2>1
  <2>3. \E k \in {0, 1} :
          /\ Len(D) = n + 1 - k
          /\ \A i \in 1..(n - k) : D[i] = deque[u][i + k]
          /\ D[n + 1 - k] = c
          /\ k = 1 => n >= 1 /\ deque[u][1] \in todo'[c] \cup {c}
          /\ k = 0 => n < MaxConn
    <3>1. n + 1 - 0 = n + 1 /\ n - 0 = n /\ \A i \in 1..n : i + 0 = i
      BY <1>2
    <3> WITNESS 0 \in {0, 1}
    <3> QED
      BY <1>3, <2>1, <3>1
  <2> QED
    BY <1>1, <1>2, <1>3, <1>4, <1>6, <2>1, <2>2, <2>3 DEF D, u, n
<1> QED
  BY <1>8, <1>9

(* D is the list q without c. *)
Without(D, q, c) ==
  /\ D \in Seq(Conn) /\ Len(D) <= Len(q)
  /\ \A i \in 1..Len(D) : D[i] \in Conn \ {c} /\ \E j \in 1..Len(q) : q[j] = D[i]
  /\ \A j \in 1..Len(q) : q[j] \in Conn \ {c} => \E i \in 1..Len(D) : D[i] = q[j]

LEMMA KeepOthers ==
  ASSUME NEW q \in Seq(Conn), NEW c
  PROVE  Without(Keep(q, Conn \ {c}), q, c)
<1> DEFINE S == Conn \ {c}
           D == Keep(q, S)
<1> HIDE DEF S
<1>1. D \in Seq(Conn) /\ Len(D) <= Len(q)
  BY KeepElements
<1>2. \A i \in 1..Len(D) : D[i] \in S /\ \E j \in 1..Len(q) : q[j] = D[i]
  BY KeepElements
<1>3. \A j \in 1..Len(q) : q[j] \in S => \E i \in 1..Len(D) : D[i] = q[j]
  BY KeepElements
<1> QED
  BY <1>1, <1>2, <1>3 DEF S, Without

(* A removal takes the session out of its user's deque and forgets the     *)
(* user with the last one.                                                 *)
LEMMA RemoveShape ==
  ASSUME HandlerInv, NEW c \in Conn, remove_session(c)
  PROVE  \/ /\ UNCHANGED <<deque, mode, rr, turns>>
            /\ uid[c] = NoUser \/ (uid[c] \in User /\ deque[uid[c]] = <<>>)
         \/ LET u == uid[c]
                D == deque'[u]
            IN /\ u \in User
               /\ D = Keep(deque[u], Conn \ {c})
               /\ deque' = [deque EXCEPT ![u] = D]
               /\ mode' = [mode EXCEPT ![u] = IF D = <<>> THEN "none" ELSE mode[u]]
               /\ rr' = [rr EXCEPT ![u] = IF D = <<>> THEN 0 ELSE rr[u]]
               /\ turns' = [turns EXCEPT ![u] = IF D = <<>> THEN NoTurns ELSE turns[u]]
               /\ D \in Seq(Conn) /\ Len(D) <= Len(deque[u])
               /\ \A i \in 1..Len(D) : D[i] # c /\ \E j \in 1..Len(deque[u]) : deque[u][j] = D[i]
               /\ \A j \in 1..Len(deque[u]) : deque[u][j] # c => \E i \in 1..Len(D) : D[i] = deque[u][j]
<1>0. uid[c] \in User \cup {NoUser} /\ deque \in [User -> Seq(Conn)]
  BY DEF HandlerInv, Types
<1>1. CASE ~logged_in(c) \/ deque[uid[c]] = <<>>
  BY <1>0, <1>1 DEF remove_session, logged_in
<1>2. CASE ~(~logged_in(c) \/ deque[uid[c]] = <<>>)
  <2> DEFINE u == uid[c]
             D == Keep(deque[u], Conn \ {c})
  <2>1. u \in User /\ deque[u] \in Seq(Conn)
    BY <1>0, <1>2 DEF logged_in
  <2>2. /\ D \in Seq(Conn) /\ Len(D) <= Len(deque[u])
        /\ \A i \in 1..Len(D) : D[i] \in Conn \ {c} /\ \E j \in 1..Len(deque[u]) : deque[u][j] = D[i]
        /\ \A j \in 1..Len(deque[u]) : deque[u][j] \in Conn \ {c} => \E i \in 1..Len(D) : D[i] = deque[u][j]
    <3>1. Without(D, deque[u], c)
      BY <2>1, KeepOthers
    <3> HIDE DEF u, D
    <3> QED
      BY <3>1 DEF Without
  <2>3. \A j \in 1..Len(deque[u]) : deque[u][j] \in Conn
    BY <2>1
  <2>4. /\ deque' = [deque EXCEPT ![u] = D]
        /\ mode' = [mode EXCEPT ![u] = IF D = <<>> THEN "none" ELSE mode[u]]
        /\ rr' = [rr EXCEPT ![u] = IF D = <<>> THEN 0 ELSE rr[u]]
        /\ turns' = [turns EXCEPT ![u] = IF D = <<>> THEN NoTurns ELSE turns[u]]
    BY <1>2 DEF remove_session, DequeWithout, ForgetUser
  <2> HIDE DEF u, D
  <2>5. deque'[u] = D
    BY <1>0, <2>1, <2>4
  <2>6. /\ uid[c] \in User
        /\ deque'[uid[c]] = Keep(deque[uid[c]], Conn \ {c})
        /\ deque' = [deque EXCEPT ![uid[c]] = deque'[uid[c]]]
    BY <2>1, <2>4, <2>5 DEF u, D
  <2>7. /\ mode' = [mode EXCEPT ![u] = IF deque'[u] = <<>> THEN "none" ELSE mode[u]]
        /\ rr' = [rr EXCEPT ![u] = IF deque'[u] = <<>> THEN 0 ELSE rr[u]]
        /\ turns' = [turns EXCEPT ![u] = IF deque'[u] = <<>> THEN NoTurns ELSE turns[u]]
    BY <2>4, <2>5
  <2>8. /\ D \in Seq(Conn) /\ Len(D) <= Len(deque[u])
        /\ \A i \in 1..Len(D) : D[i] # c /\ \E j \in 1..Len(deque[u]) : deque[u][j] = D[i]
        /\ \A j \in 1..Len(deque[u]) : deque[u][j] # c => \E i \in 1..Len(D) : D[i] = deque[u][j]
    BY <2>2, <2>3
  <2>9. /\ deque'[u] \in Seq(Conn) /\ Len(deque'[u]) <= Len(deque[u])
        /\ \A i \in 1..Len(deque'[u]) :
             deque'[u][i] # c /\ \E j \in 1..Len(deque[u]) : deque[u][j] = deque'[u][i]
        /\ \A j \in 1..Len(deque[u]) :
             deque[u][j] # c => \E i \in 1..Len(deque'[u]) : deque'[u][i] = deque[u][j]
    BY <2>5, <2>8
  <2> QED
    BY <2>6, <2>7, <2>9, Zenon DEF u
<1> QED
  BY <1>1, <1>2

-----------------------------------------------------------------------------
(* Every table entry is a live session of that user.                       *)

Gone == {"none", "removed", "done"}

Members == \A u \in User : \A i \in 1..Len(deque[u]) : uid[deque[u][i]] = u
Once == \A u \in User : \A i, j \in 1..Len(deque[u]) : deque[u][i] = deque[u][j] => i = j
GoneFromTables ==
  \A c \in Conn : reader[c] \in Gone =>
    c \notin all /\ c \notin by_id /\ \A u \in User : \A i \in 1..Len(deque[u]) : deque[u][i] # c

LEMMA NoGhostParts == NoGhost <=> Members /\ Once /\ GoneFromTables
<1>1. (\A c \in Conn : reader[c] \in {"none", "removed", "done"} => ~InTables(c)) <=> GoneFromTables
  BY DEF InTables, Contains, GoneFromTables, Gone
<1> QED
  BY <1>1 DEF NoGhost, Members, Once

(* A handler's step keeps its session alive. *)
LEMMA MovingAlive ==
  ASSUME Types, NEW c \in Conn, Moving(c)
  PROVE  /\ UNCHANGED <<all, by_id, deque, mode, rr, uid, is_open, turns>>
         /\ reader[c] \notin Gone
         /\ \E p \in Places \ Gone : reader' = [reader EXCEPT ![c] = p]
<1> USE DEF Gone, Places, Goto, tables
<1>1. ASSUME NEW p \in Places \ Gone, reader' = [reader EXCEPT ![c] = p]
      PROVE  \E q \in Places \ Gone : reader' = [reader EXCEPT ![c] = q]
  BY <1>1
<1> HIDE DEF Gone, Places
<1>p. /\ {"authenticated", "notifying", "reading", "kicking", "listing", "leaving"} \subseteq Places \ Gone
      /\ "marking" \notin Gone /\ "reading" \notin Gone
      /\ {"marking", "notifying", "kicking", "listing"} \subseteq Places \ Gone
  BY DEF Places, Gone
<1>2. ASSUME NEW u \in User, NEW m \in Modes, Authenticate(c, u, m)
      PROVE  UNCHANGED <<all, by_id, deque, mode, rr, uid, is_open, turns>> /\ reader[c] = "reading"
             /\ reader' = [reader EXCEPT ![c] = "authenticated"]
  BY <1>2 DEF Authenticate, Handling
<1>3. ASSUME MarkLogin(c) \/ LoginReply(c) \/ KickReply(c) \/ ListReply(c)
      PROVE  UNCHANGED <<all, by_id, deque, mode, rr, uid, is_open, turns>>
             /\ reader[c] \in {"marking", "notifying", "kicking", "listing"}
             /\ reader' \in {[reader EXCEPT ![c] = "notifying"], [reader EXCEPT ![c] = "reading"]}
  BY <1>3 DEF MarkLogin, LoginReply, KickReply, ListReply
<1>4. ASSUME NEW u \in User, KickUser(c, u) \/ ListUsers(c, u)
      PROVE  UNCHANGED <<all, by_id, deque, mode, rr, uid, is_open, turns>> /\ reader[c] = "reading"
             /\ reader' \in {[reader EXCEPT ![c] = "kicking"], [reader EXCEPT ![c] = "listing"]}
  BY <1>4 DEF KickUser, ListUsers, Handling
<1>5. ASSUME ReadBreak(c) \/ IdleBreak(c) \/ SeeClosed(c)
      PROVE  UNCHANGED <<all, by_id, deque, mode, rr, uid, is_open, turns>> /\ reader[c] = "reading"
             /\ reader' = [reader EXCEPT ![c] = "leaving"]
  BY <1>5 DEF ReadBreak, IdleBreak, SeeClosed
<1> QED
  BY <1>1, <1>p, <1>2, <1>3, <1>4, <1>5 DEF Moving

LEMMA NoGhostStep ==
  ASSUME HandlerInv, NoGhost, [Next]_vars
  PROVE  NoGhost'
<1>0. Types /\ Members /\ Once /\ GoneFromTables
  BY NoGhostParts DEF HandlerInv
<1> DEFINE I == Members /\ Once /\ GoneFromTables
<1>s. I' => NoGhost'
  BY NoGhostParts DEF InTables, Contains, NoGhost, Members, Once, GoneFromTables, Gone
<1>1. ASSUME UNCHANGED <<deque, uid, all, by_id, reader>> PROVE I'
  BY <1>0, <1>1 DEF Members, Once, GoneFromTables
<1>2. ASSUME NEW c \in Conn, Moving(c) PROVE I'
  <2>1. UNCHANGED <<all, by_id, deque, uid>> /\ reader[c] \notin Gone
        /\ \E p \in Places \ Gone : reader' = [reader EXCEPT ![c] = p]
    BY <1>0, <1>2, MovingAlive
  <2>2. \A d \in Conn : reader'[d] \in Gone => reader[d] \in Gone
    BY <1>0, <2>1 DEF Types
  <2> QED
    BY <1>0, <2>1, <2>2 DEF Members, Once, GoneFromTables
<1>3. ASSUME NEW c \in Conn, accept_clients(c) PROVE I'
  <2>1. UNCHANGED <<deque, uid>> /\ reader' = [reader EXCEPT ![c] = "reading"]
        /\ all' = all \cup {c} /\ by_id' = by_id \cup {c}
    BY <1>3 DEF accept_clients, Goto
  <2>2. \A d \in Conn : reader'[d] \in Gone => d # c /\ reader[d] \in Gone
    BY <1>0, <2>1 DEF Types, Gone
  <2> QED
    BY <1>0, <2>1, <2>2 DEF Members, Once, GoneFromTables
<1>4. ASSUME NEW c \in Conn, StrandCloses(c) \/ CloseSocket(c) PROVE I'
  <2>1. CASE StrandCloses(c)
    BY <1>1, <2>1 DEF StrandCloses, tables
  <2>2. CASE CloseSocket(c)
    <3>1. UNCHANGED <<deque, uid, all, by_id>> /\ reader[c] = "removed" /\ reader' = [reader EXCEPT ![c] = "done"]
      BY <2>2 DEF CloseSocket, Goto, tables
    <3>2. \A d \in Conn : reader'[d] \in Gone => reader[d] \in Gone
      BY <1>0, <3>1 DEF Types, Gone
    <3> QED
      BY <1>0, <3>1, <3>2 DEF Members, Once, GoneFromTables
  <2> QED
    BY <1>4, <2>1, <2>2
<1>5. ASSUME NEW c \in Conn, EnterTables(c) PROVE I'
  <2> DEFINE u == want[c].user
             n == Len(deque[u])
             D == deque'[u]
  <2>1. /\ u \in User /\ n \in Nat /\ uid[c] = NoUser
        /\ deque' = [deque EXCEPT ![u] = D]
        /\ uid' = [uid EXCEPT ![c] = u]
        /\ D \in Seq(Conn)
    BY <1>5, EnterShape
  <2>2. PICK k \in {0, 1} :
          /\ Len(D) = n + 1 - k
          /\ \A i \in 1..(n - k) : D[i] = deque[u][i + k]
          /\ D[n + 1 - k] = c
    BY <1>5, EnterShape
  <2>3. UNCHANGED <<all, by_id>> /\ reader' = [reader EXCEPT ![c] = "marking"]
    BY <1>5 DEF EnterTables, Goto
  <2> HIDE DEF u, D
  <2>4. ASSUME NEW w \in User, NEW i \in 1..Len(deque[w]) PROVE deque[w][i] # c /\ deque[w][i] \in Conn
    <3>1. deque[w] \in Seq(Conn)
      BY <1>0 DEF Types
    <3>2. uid[deque[w][i]] = w
      BY <1>0 DEF Members
    <3> QED
      BY <2>1, <3>1, <3>2, RegistryAssumption
  <2>5. \A w \in User : w # u => deque'[w] = deque[w]
    BY <1>0, <2>1 DEF Types
  <2>6. \A d \in Conn : d # c => uid'[d] = uid[d]
    BY <1>0, <2>1 DEF Types
  <2>7. uid'[c] = u
    BY <1>0, <2>1 DEF Types
  <2>8. ASSUME NEW i \in 1..Len(D)
        PROVE  \/ i = n + 1 - k
               \/ i \in 1..(n - k) /\ i + k \in 1..n /\ D[i] = deque[u][i + k]
    BY <2>1, <2>2
  <2>9. ASSUME NEW w \in User, NEW i \in 1..Len(deque'[w]) PROVE uid'[deque'[w][i]] = w
    <3>1. CASE w # u
      BY <1>0, <2>4, <2>5, <2>6, <3>1 DEF Members
    <3>2. CASE w = u
      <4>1. i \in 1..Len(D) /\ deque'[w] = D
        BY <3>2 DEF D
      <4>2. CASE i = n + 1 - k
        BY <2>2, <2>7, <3>2, <4>1, <4>2
      <4>3. CASE i \in 1..(n - k) /\ i + k \in 1..n /\ D[i] = deque[u][i + k]
        BY <1>0, <2>1, <2>4, <2>6, <3>2, <4>1, <4>3 DEF Members
      <4> QED
        BY <2>8, <4>1, <4>2, <4>3
    <3> QED
      BY <3>1, <3>2
  <2>10. ASSUME NEW w \in User, NEW i \in 1..Len(deque'[w]), NEW j \in 1..Len(deque'[w]),
                deque'[w][i] = deque'[w][j]
         PROVE  i = j
    <3>1. CASE w # u
      BY <1>0, <2>5, <2>10, <3>1 DEF Once
    <3>2. CASE w = u
      <4>1. i \in 1..Len(D) /\ j \in 1..Len(D) /\ D[i] = D[j]
        BY <2>10, <3>2 DEF D
      <4>2. CASE i = n + 1 - k \/ j = n + 1 - k
        BY <2>1, <2>2, <2>4, <2>8, <4>1, <4>2
      <4>3. CASE i # n + 1 - k /\ j # n + 1 - k
        <5>1. i + k \in 1..n /\ j + k \in 1..n /\ deque[u][i + k] = deque[u][j + k]
          BY <2>8, <4>1, <4>3
        <5>2. i + k = j + k
          BY <1>0, <2>1, <5>1 DEF Once
        <5> QED
          BY <5>2
      <4> QED
        BY <4>2, <4>3
    <3> QED
      BY <3>1, <3>2
  <2>11. ASSUME NEW d \in Conn, reader'[d] \in Gone
         PROVE  d \notin all' /\ d \notin by_id' /\ \A w \in User : \A i \in 1..Len(deque'[w]) : deque'[w][i] # d
    <3>1. d # c /\ reader[d] \in Gone
      BY <1>0, <2>3, <2>11 DEF Types, Gone
    <3>2. ASSUME NEW w \in User, NEW i \in 1..Len(deque'[w]) PROVE deque'[w][i] # d
      <4>1. CASE w # u
        BY <1>0, <2>5, <3>1, <4>1 DEF GoneFromTables
      <4>2. CASE w = u
        <5>1. i \in 1..Len(D) /\ deque'[w] = D
          BY <4>2 DEF D
        <5> QED
          BY <1>0, <2>1, <2>2, <2>8, <3>1, <5>1 DEF GoneFromTables
      <4> QED
        BY <4>1, <4>2
    <3> QED
      BY <1>0, <2>3, <3>1, <3>2 DEF GoneFromTables
  <2> QED
    BY <2>9, <2>10, <2>11 DEF Members, Once, GoneFromTables
<1>6. ASSUME NEW c \in Conn, remove_session(c) PROVE I'
  <2>1. UNCHANGED uid /\ reader' = [reader EXCEPT ![c] = "removed"]
        /\ all' = all \ {c} /\ by_id' = by_id \ {c}
    BY <1>6 DEF remove_session, Goto
  <2>2. \A d \in Conn : reader'[d] \in Gone => d = c \/ reader[d] \in Gone
    BY <1>0, <2>1 DEF Types
  <2>3. CASE UNCHANGED deque /\ (uid[c] = NoUser \/ (uid[c] \in User /\ deque[uid[c]] = <<>>))
    <3>1. ASSUME NEW w \in User, NEW i \in 1..Len(deque[w]) PROVE deque[w][i] # c
      <4>1. uid[deque[w][i]] = w
        BY <1>0 DEF Members
      <4>2. deque[w] # <<>>
        OBVIOUS
      <4> QED
        BY <2>3, <4>1, <4>2, RegistryAssumption
    <3> QED
      BY <1>0, <2>1, <2>2, <2>3, <3>1 DEF Members, Once, GoneFromTables
  <2>4. ASSUME ~(UNCHANGED deque /\ (uid[c] = NoUser \/ (uid[c] \in User /\ deque[uid[c]] = <<>>)))
        PROVE  I'
    <3> DEFINE u == uid[c]
               D == deque'[u]
    <3>1. /\ u \in User
          /\ D = Keep(deque[u], Conn \ {c})
          /\ deque' = [deque EXCEPT ![u] = D]
          /\ D \in Seq(Conn)
          /\ \A i \in 1..Len(D) : D[i] # c /\ \E j \in 1..Len(deque[u]) : deque[u][j] = D[i]
      BY <1>6, <2>4, RemoveShape
    <3> HIDE DEF u, D
    <3>2. \A w \in User : w # u => deque'[w] = deque[w]
      BY <1>0, <3>1 DEF Types
    <3>3. deque'[u] = D
      BY DEF D
    <3>4. \A w \in User : w # u => \A i \in 1..Len(deque[w]) : deque[w][i] # c
      BY <1>0 DEF Members, u
    <3>5. \A i, j \in 1..Len(D) : D[i] = D[j] => i = j
      <4>1. deque[u] \in Seq(Conn) /\ \A i, j \in 1..Len(deque[u]) : deque[u][i] = deque[u][j] => i = j
        BY <1>0, <3>1 DEF Once, Types
      <4> QED
        BY <3>1, <4>1, KeepOnce
    <3>6. Members'
      <4>1. ASSUME NEW w \in User, NEW i \in 1..Len(deque'[w]) PROVE uid'[deque'[w][i]] = w
        <5>1. CASE w # u
          BY <1>0, <2>1, <3>2, <5>1 DEF Members
        <5>2. CASE w = u
          <6>1. PICK j \in 1..Len(deque[u]) : deque[u][j] = D[i]
            BY <3>1, <3>3, <5>2
          <6>2. uid[deque[u][j]] = u
            BY <1>0, <3>1 DEF Members
          <6> QED
            BY <2>1, <3>3, <5>2, <6>1, <6>2
        <5> QED
          BY <5>1, <5>2
      <4> QED
        BY <4>1 DEF Members
    <3>7. Once'
      BY <1>0, <3>2, <3>3, <3>5 DEF Once
    <3>8. GoneFromTables'
      <4>1. ASSUME NEW d \in Conn, reader'[d] \in Gone, NEW w \in User, NEW i \in 1..Len(deque'[w])
            PROVE  deque'[w][i] # d
        <5>1. CASE w # u
          BY <1>0, <2>2, <3>2, <3>4, <4>1, <5>1 DEF GoneFromTables
        <5>2. CASE w = u
          <6>1. D[i] # c /\ \E j \in 1..Len(deque[u]) : deque[u][j] = D[i]
            BY <3>1, <3>3, <5>2
          <6>2. PICK j \in 1..Len(deque[u]) : deque[u][j] = D[i]
            BY <6>1
          <6>3. d = c \/ deque[u][j] # d
            BY <1>0, <2>2, <3>1, <4>1 DEF GoneFromTables
          <6> QED
            BY <3>3, <5>2, <6>1, <6>2, <6>3
        <5> QED
          BY <5>1, <5>2
      <4> QED
        BY <1>0, <2>1, <2>2, <4>1 DEF GoneFromTables
    <3> QED
      BY <3>6, <3>7, <3>8
  <2> QED
    BY <2>3, <2>4
<1>7. ASSUME snapshot_stats PROVE I'
  BY <1>0, <1>7 DEF snapshot_stats, Members, Once, GoneFromTables
<1>8. ASSUME NEW c \in Conn, NEW v \in Conn, NotifyVictim(c, v) PROVE I'
  BY <1>1, <1>8 DEF NotifyVictim, tables
<1>9. ASSUME NEW c \in Conn, NEW u \in User, Data(c, u) PROVE I'
  BY <1>1, <1>9 DEF Data
<1>10. ASSUME Still PROVE I'
  BY <1>1, <1>10 DEF Still
<1> HIDE DEF I
<1> QED
  BY <1>s, <1>2, <1>3, <1>4, <1>5, <1>6, <1>7, <1>8, <1>9, <1>10, Cases

LEMMA NoGhostInit == Init => NoGhost
  BY DEF Init, NoGhost, InTables, Contains

(* Whatever login, eviction, kick, statistics and removal do around each   *)
(* other, no session is left in a table after its read loop removed it,    *)
(* none stands twice in a deque and none in another user's.                *)
THEOREM NoGhostSessions == Spec => []NoGhost
<1>1. Init => HandlerInv /\ NoGhost
  BY HandlerInit, NoGhostInit
<1>2. HandlerInv /\ NoGhost /\ [Next]_vars => (HandlerInv /\ NoGhost)'
  BY HandlerStep, NoGhostStep
<1> QED
  BY <1>1, <1>2, PTL DEF Spec

-----------------------------------------------------------------------------
(* The connection limit, and how a session out of its deque is accounted   *)
(* for.                                                                    *)

Limit == \A u \in User : Len(deque[u]) <= MaxConn

Found(c) ==
  \/ \E i \in 1..Len(deque[uid[c]]) : deque[uid[c]][i] = c
  \/ closing[c]
  \/ \E d \in Conn : c \in todo[d]

Reachable == \A c \in Conn : uid[c] # NoUser /\ reader[c] \notin {"removed", "done"} => Found(c)

LEMMA LimitParts == LimitedAndReachable <=> Limit /\ Reachable
  BY DEF LimitedAndReachable, Limit, Reachable, Found, logged_in, Contains

LEMMA LimitPrimed == Limit' /\ Reachable' => LimitedAndReachable'
  BY DEF LimitedAndReachable, Limit, Reachable, Found, logged_in, Contains

LEMMA LimitStep ==
  ASSUME HandlerInv, Limit, [Next]_vars
  PROVE  Limit'
<1>0. Types
  BY DEF HandlerInv
<1>1. ASSUME UNCHANGED deque PROVE Limit'
  BY <1>1 DEF Limit
<1>2. ASSUME NEW c \in Conn, EnterTables(c) PROVE Limit'
  <2> DEFINE u == want[c].user
             n == Len(deque[u])
             D == deque'[u]
  <2>1. u \in User /\ n \in Nat /\ deque' = [deque EXCEPT ![u] = D]
    BY <1>2, EnterShape
  <2>2. PICK k \in {0, 1} : Len(D) = n + 1 - k /\ (k = 0 => n < MaxConn)
    BY <1>2, EnterShape
  <2> HIDE DEF D
  <2>3. Len(D) <= MaxConn
    BY <2>1, <2>2, RegistryAssumption DEF Limit
  <2> HIDE DEF u
  <2> QED
    BY <1>0, <2>1, <2>3 DEF Limit, Types
<1>3. ASSUME NEW c \in Conn, remove_session(c) PROVE Limit'
  <2>1. CASE UNCHANGED deque
    BY <1>1, <2>1
  <2>2. CASE ~ UNCHANGED deque
    <3> DEFINE u == uid[c]
               D == deque'[u]
    <3>1. u \in User /\ deque' = [deque EXCEPT ![u] = D] /\ D \in Seq(Conn) /\ Len(D) <= Len(deque[u])
      BY <1>3, <2>2, RemoveShape
    <3> HIDE DEF D, u
    <3>2. Len(D) <= MaxConn
      <4>1. Len(deque[u]) <= MaxConn /\ deque[u] \in Seq(Conn)
        BY <1>0, <3>1 DEF Limit, Types
      <4>2. Len(deque[u]) \in Nat /\ Len(D) \in Nat /\ MaxConn \in Nat
        BY <3>1, <4>1, RegistryAssumption
      <4> QED
        BY <3>1, <4>1, <4>2
    <3> QED
      BY <1>0, <3>1, <3>2 DEF Limit, Types
  <2> QED
    BY <2>1, <2>2
<1>4. ASSUME NEW c \in Conn, Moving(c) PROVE UNCHANGED deque
  BY <1>0, <1>4, MovingAlive
<1> QED
  BY <1>1, <1>2, <1>3, <1>4, Cases
     DEF Still, NotifyVictim, accept_clients, StrandCloses, CloseSocket, Data, snapshot_stats, tables

(* A handler that moves on forgets nobody it has to notify. *)
LEMMA MovingTodo ==
  ASSUME HandlerInv, NEW c \in Conn, Moving(c)
  PROVE  \A d \in Conn : todo[d] \subseteq todo'[d] /\ (closing[d] => closing'[d])
<1>0. Types /\ IdleTodo
  BY DEF HandlerInv
<1>1. ASSUME NEW u \in User, KickUser(c, u) PROVE \A d \in Conn : todo[d] \subseteq todo'[d] /\ closing'[d] = closing[d]
  <2>1. todo[c] = {}
    BY <1>0, <1>1 DEF IdleTodo, KickUser, Handling
  <2> QED
    BY <1>0, <1>1, <2>1 DEF Types, KickUser
<1>2. ASSUME IdleBreak(c) PROVE \A d \in Conn : todo[d] \subseteq todo'[d] /\ (closing[d] => closing'[d])
  BY <1>0, <1>2 DEF IdleBreak, notify_and_close, Types
<1>3. ASSUME ~ IdleBreak(c), \A u \in User : ~ KickUser(c, u)
      PROVE  UNCHANGED <<todo, closing>>
  BY <1>3 DEF Moving, Authenticate, MarkLogin, LoginReply, KickReply, ListReply, ListUsers, ReadBreak, SeeClosed
<1> QED
  BY <1>1, <1>2, <1>3

LEMMA ReachableStep ==
  ASSUME HandlerInv, Reachable, [Next]_vars
  PROVE  Reachable'
<1>0. Types /\ NotYet /\ IdleTodo
  BY DEF HandlerInv
<1> DEFINE Live(d) == uid[d] # NoUser /\ reader[d] \notin {"removed", "done"}
<1>1. ASSUME \A d \in Conn : Live(d)' => Live(d),
             UNCHANGED <<deque, uid>>,
             \A d \in Conn : todo[d] \subseteq todo'[d] /\ (closing[d] => closing'[d])
      PROVE  Reachable'
  BY <1>1 DEF Reachable, Found
<1>2. ASSUME Still PROVE Reachable'
  <2>1. \A d \in Conn : closing[d] => closing'[d]
    BY <1>0, <1>2 DEF Still, Types
  <2> QED
    BY <1>1, <1>2, <2>1 DEF Still
<1>3. ASSUME NEW c \in Conn, Moving(c) PROVE Reachable'
  <2>1. UNCHANGED <<deque, uid>> /\ reader[c] \notin Gone
        /\ \E p \in Places \ Gone : reader' = [reader EXCEPT ![c] = p]
    BY <1>0, <1>3, MovingAlive
  <2>2. \A d \in Conn : Live(d)' => Live(d)
    BY <1>0, <2>1 DEF Types, Gone
  <2>3. \A d \in Conn : todo[d] \subseteq todo'[d] /\ (closing[d] => closing'[d])
    BY <1>3, MovingTodo
  <2> HIDE DEF Live
  <2> QED
    BY <1>1, <2>1, <2>2, <2>3
<1>4. ASSUME NEW c \in Conn, NEW v \in Conn, NotifyVictim(c, v) PROVE Reachable'
  <2>1. /\ UNCHANGED <<deque, uid, reader>>
        /\ todo' = [todo EXCEPT ![c] = todo[c] \ {v}]
        /\ closing' = [closing EXCEPT ![v] = TRUE]
    BY <1>4 DEF NotifyVictim, notify_and_close, tables
  <2>2. closing'[v] /\ \A d \in Conn : (closing[d] => closing'[d]) /\ todo[d] \ {v} \subseteq todo'[d]
    BY <1>0, <2>1 DEF Types
  <2> QED
    BY <2>1, <2>2 DEF Reachable, Found
<1>5. ASSUME NEW c \in Conn, accept_clients(c) PROVE Reachable'
  <2>1. UNCHANGED <<deque, uid, todo, closing>> /\ reader[c] = "none" /\ reader' = [reader EXCEPT ![c] = "reading"]
    BY <1>5 DEF accept_clients, Goto
  <2>2. uid[c] = NoUser
    BY <1>0, <2>1 DEF NotYet
  <2>3. \A d \in Conn : Live(d)' => Live(d)
    BY <1>0, <2>1, <2>2 DEF Types
  <2> HIDE DEF Live
  <2> QED
    BY <1>1, <2>1, <2>3
<1>6. ASSUME NEW c \in Conn, StrandCloses(c) \/ CloseSocket(c) PROVE Reachable'
  <2>1. UNCHANGED <<deque, uid, todo, closing>> /\ (UNCHANGED reader \/ reader' = [reader EXCEPT ![c] = "done"])
    BY <1>6 DEF StrandCloses, CloseSocket, Goto, tables
  <2>2. \A d \in Conn : Live(d)' => Live(d)
    BY <1>0, <2>1 DEF Types
  <2> HIDE DEF Live
  <2> QED
    BY <1>1, <2>1, <2>2
<1>7. ASSUME NEW c \in Conn, EnterTables(c) PROVE Reachable'
  <2> DEFINE u == want[c].user
             n == Len(deque[u])
             D == deque'[u]
  <2>1. /\ u \in User /\ n \in Nat /\ todo[c] = {} /\ uid[c] = NoUser
        /\ deque' = [deque EXCEPT ![u] = D]
        /\ uid' = [uid EXCEPT ![c] = u]
        /\ D \in Seq(Conn) /\ D # <<>>
    BY <1>7, EnterShape
  <2>2. PICK k \in {0, 1} :
          /\ Len(D) = n + 1 - k
          /\ \A i \in 1..(n - k) : D[i] = deque[u][i + k]
          /\ D[n + 1 - k] = c
          /\ k = 1 => n >= 1 /\ deque[u][1] \in todo'[c] \cup {c}
    BY <1>7, EnterShape
  <2>3. UNCHANGED closing /\ reader' = [reader EXCEPT ![c] = "marking"]
        /\ \E S : todo' = [todo EXCEPT ![c] = S]
    BY <1>7 DEF EnterTables, Goto
  <2>4. D = deque'[u] /\ n = Len(deque[u])
    OBVIOUS
  <2> HIDE DEF D, n, u
  <2>5. \A w \in User : w # u => deque'[w] = deque[w]
    BY <1>0, <2>1 DEF Types
  <2>6. ASSUME NEW d \in Conn, Live(d)' PROVE Found(d)'
    <3>1. CASE d = c
      <4>1. uid'[c] = u
        BY <1>0, <2>1 DEF Types
      <4>2. n + 1 - k \in 1..Len(D) /\ D[n + 1 - k] = c
        BY <2>1, <2>2
      <4> QED
        BY <2>4, <3>1, <4>1, <4>2 DEF Found
    <3>2. CASE d # c
      <4>1. uid'[d] = uid[d] /\ reader'[d] = reader[d] /\ uid[d] \in User
        BY <1>0, <2>1, <2>3, <2>6, <3>2 DEF Types
      <4>2. Found(d)
        BY <2>6, <4>1 DEF Reachable
      <4>3. CASE closing[d]
        BY <2>3, <4>3 DEF Found
      <4>4. ASSUME NEW e \in Conn, d \in todo[e] PROVE Found(d)'
        <5>1. todo'[e] = todo[e]
          BY <1>0, <2>1, <2>3, <4>4 DEF Types
        <5> QED
          BY <4>4, <5>1 DEF Found
      <4>5. ASSUME NEW j \in 1..Len(deque[uid[d]]), deque[uid[d]][j] = d PROVE Found(d)'
        <5>1. CASE uid[d] # u
          BY <2>5, <4>1, <4>5, <5>1 DEF Found
        <5>2. CASE uid[d] = u
          <6>1. j \in 1..n /\ deque[u][j] = d
            BY <2>4, <4>5, <5>2
          <6>2. CASE k = 1 /\ j = 1
            BY <2>2, <3>2, <6>1, <6>2 DEF Found
          <6>3. CASE ~(k = 1 /\ j = 1)
            <7>1. j - k \in 1..(n - k) /\ j - k + k = j /\ j - k \in 1..Len(D)
              BY <2>1, <2>2, <6>1, <6>3
            <7>2. D[j - k] = d
              BY <2>2, <6>1, <7>1
            <7> QED
              BY <2>4, <4>1, <5>2, <7>1, <7>2 DEF Found
          <6> QED
            BY <6>2, <6>3
        <5> QED
          BY <5>1, <5>2
      <4> QED
        BY <4>2, <4>3, <4>4, <4>5 DEF Found
    <3> QED
      BY <3>1, <3>2
  <2> QED
    BY <2>6 DEF Reachable
<1>8. ASSUME NEW c \in Conn, remove_session(c) PROVE Reachable'
  <2>1. UNCHANGED <<uid, todo, closing>> /\ reader' = [reader EXCEPT ![c] = "removed"]
    BY <1>8 DEF remove_session, Goto
  <2>2. \A d \in Conn : Live(d)' => d # c /\ Live(d)
    BY <1>0, <2>1 DEF Types
  <2>3. CASE UNCHANGED deque
    BY <1>1, <2>1, <2>2, <2>3
  <2>4. CASE ~ UNCHANGED deque
    <3> DEFINE u == uid[c]
               D == deque'[u]
    <3>1. /\ u \in User
          /\ deque' = [deque EXCEPT ![u] = D]
          /\ \A j \in 1..Len(deque[u]) : deque[u][j] # c => \E i \in 1..Len(D) : D[i] = deque[u][j]
      BY <1>8, <2>4, RemoveShape
    <3>2. D = deque'[u]
      OBVIOUS
    <3> HIDE DEF u, D
    <3>3. \A w \in User : w # u => deque'[w] = deque[w]
      BY <1>0, <3>1 DEF Types
    <3>4. ASSUME NEW d \in Conn, Live(d)' PROVE Found(d)'
      <4>1. d # c /\ Live(d) /\ uid[d] \in User /\ uid'[d] = uid[d]
        BY <1>0, <2>1, <2>2, <3>4 DEF Types
      <4>2. Found(d)
        BY <4>1 DEF Reachable
      <4>3. ASSUME NEW j \in 1..Len(deque[uid[d]]), deque[uid[d]][j] = d PROVE Found(d)'
        <5>1. CASE uid[d] # u
          BY <3>3, <4>1, <4>3, <5>1 DEF Found
        <5>2. CASE uid[d] = u
          BY <3>1, <3>2, <4>1, <4>3, <5>2 DEF Found
        <5> QED
          BY <5>1, <5>2
      <4> QED
        BY <2>1, <4>2, <4>3 DEF Found
    <3> QED
      BY <3>4 DEF Reachable
  <2> QED
    BY <2>3, <2>4
<1>9. ASSUME NEW c \in Conn, NEW u \in User, Data(c, u) PROVE Reachable'
  BY <1>1, <1>9 DEF Data
<1>10. ASSUME snapshot_stats PROVE Reachable'
  BY <1>1, <1>10 DEF snapshot_stats
<1> HIDE DEF Live
<1> QED
  BY <1>2, <1>3, <1>4, <1>5, <1>6, <1>7, <1>8, <1>9, <1>10, Cases

(* The limit holds, and an eviction never leaves behind a logged-in        *)
(* session that no DATA reaches and nobody is going to close.              *)
THEOREM LimitEnforced == Spec => []LimitedAndReachable
<1>1. Init => HandlerInv /\ Limit /\ Reachable
  <2>1. Init => Limit /\ Reachable
    BY RegistryAssumption DEF Init, Limit, Reachable
  <2> QED
    BY <2>1, HandlerInit
<1>2. HandlerInv /\ Limit /\ Reachable /\ [Next]_vars => (HandlerInv /\ Limit /\ Reachable)'
  BY HandlerStep, LimitStep, ReachableStep
<1>3. HandlerInv /\ Limit /\ Reachable => LimitedAndReachable
  BY LimitParts
<1> QED
  BY <1>1, <1>2, <1>3, PTL DEF Spec

-----------------------------------------------------------------------------
(* The heartbeat scan.                                                     *)

LEMMA ScanStep ==
  ASSUME HandlerInv, ScanSeesOpen, [Next]_vars
  PROVE  ScanSeesOpen'
<1>0. Types
  BY DEF HandlerInv
<1> USE DEF ScanSeesOpen
<1>1. ASSUME NEW c \in Conn, Moving(c) PROVE ScanSeesOpen'
  <2>1. UNCHANGED <<all, is_open>> /\ reader[c] \notin Gone
        /\ \E p \in Places \ Gone : reader' = [reader EXCEPT ![c] = p]
    BY <1>0, <1>1, MovingAlive
  <2> QED
    BY <1>0, <2>1 DEF Types, Gone
<1>2. ASSUME NEW c \in Conn, accept_clients(c) PROVE ScanSeesOpen'
  BY <1>0, <1>2 DEF accept_clients, Goto, Types
<1>3. ASSUME NEW c \in Conn, EnterTables(c) PROVE ScanSeesOpen'
  BY <1>0, <1>3 DEF EnterTables, Goto, Types
<1>4. ASSUME NEW c \in Conn, remove_session(c) PROVE ScanSeesOpen'
  BY <1>0, <1>4 DEF remove_session, Goto, Types
<1>5. ASSUME NEW c \in Conn, StrandCloses(c) \/ CloseSocket(c) PROVE ScanSeesOpen'
  BY <1>0, <1>5 DEF StrandCloses, CloseSocket, Goto, Types, tables
<1>6. ASSUME snapshot_stats PROVE ScanSeesOpen'
  BY <1>6 DEF snapshot_stats, StillListed
<1>7. ASSUME UNCHANGED <<all, is_open, reader>> PROVE ScanSeesOpen'
  BY <1>7
<1> HIDE DEF ScanSeesOpen
<1> QED
  BY <1>1, <1>2, <1>3, <1>4, <1>5, <1>6, <1>7, Cases DEF Still, NotifyVictim, Data, tables

(* check_heartbeats never misses an open session because the statistics    *)
(* compacted all_ or another session was removed.                          *)
THEOREM ScanMissesNone == Spec => []ScanSeesOpen
<1>1. Init => HandlerInv /\ ScanSeesOpen
  <2>1. Init => ScanSeesOpen
    BY DEF Init, ScanSeesOpen
  <2> QED
    BY <2>1, HandlerInit
<1>2. HandlerInv /\ ScanSeesOpen /\ [Next]_vars => (HandlerInv /\ ScanSeesOpen)'
  BY HandlerStep, ScanStep
<1> QED
  BY <1>1, <1>2, PTL DEF Spec

-----------------------------------------------------------------------------
(* The receive mode.                                                       *)

Forgotten == \A u \in User : deque[u] = <<>> => mode[u] = "none" /\ rr[u] = 0

(* What ModeIsFirstLogins says of one step. *)
KeepsMode ==
  \A u \in User :
    /\ deque[u] # <<>> /\ deque'[u] # <<>> => mode'[u] = mode[u]
    /\ deque'[u] = <<>> => mode'[u] = "none" /\ rr'[u] = 0

LEMMA ModeStep ==
  ASSUME HandlerInv, Forgotten, [Next]_vars
  PROVE  Forgotten' /\ KeepsMode
<1>0. Types
  BY DEF HandlerInv
<1>s. KeepsMode => Forgotten'
  BY DEF KeepsMode, Forgotten
<1>1. ASSUME UNCHANGED <<deque, mode, rr>> PROVE KeepsMode
  BY <1>1 DEF Forgotten, KeepsMode
<1>2. ASSUME NEW c \in Conn, EnterTables(c) PROVE KeepsMode
  <2> DEFINE u == want[c].user
             D == deque'[u]
  <2>1. u \in User /\ deque' = [deque EXCEPT ![u] = D] /\ D # <<>>
    BY <1>2, EnterShape
  <2>2. mode' = [mode EXCEPT ![u] = EffectiveMode(u, want[c].mode)] /\ UNCHANGED rr
    BY <1>2 DEF EnterTables
  <2>3. deque[u] # <<>> => EffectiveMode(u, want[c].mode) = mode[u]
    BY DEF EffectiveMode
  <2>4. D = deque'[u]
    OBVIOUS
  <2> HIDE DEF D, u
  <2> QED
    BY <1>0, <2>1, <2>2, <2>3, <2>4 DEF Types, Forgotten, KeepsMode
<1>3. ASSUME NEW c \in Conn, remove_session(c) PROVE KeepsMode
  <2>1. CASE UNCHANGED <<deque, mode, rr, turns>>
    BY <1>1, <2>1
  <2>2. CASE ~ UNCHANGED <<deque, mode, rr, turns>>
    <3> DEFINE u == uid[c]
               D == deque'[u]
    <3>1. /\ u \in User /\ deque' = [deque EXCEPT ![u] = D]
          /\ mode' = [mode EXCEPT ![u] = IF D = <<>> THEN "none" ELSE mode[u]]
          /\ rr' = [rr EXCEPT ![u] = IF D = <<>> THEN 0 ELSE rr[u]]
      BY <1>3, <2>2, RemoveShape
    <3>2. D = deque'[u]
      OBVIOUS
    <3> HIDE DEF D, u
    <3> QED
      BY <1>0, <3>1, <3>2 DEF Types, Forgotten, KeepsMode
  <2> QED
    BY <2>1, <2>2
<1>4. ASSUME NEW c \in Conn, NEW u \in User, Data(c, u) PROVE KeepsMode
  <2>1. UNCHANGED <<deque, mode>>
    BY <1>4 DEF Data
  <2>2. CASE OpenOf(u) # <<>> /\ mode[u] = "round_robin"
    <3>1. rr' = [rr EXCEPT ![u] = rr[u] + 1]
      BY <1>4, <2>2 DEF Data
    <3>2. deque[u] # <<>>
      <4>1. OpenOf(u) \in Seq(Conn) /\ Len(OpenOf(u)) \in Nat \ {0} /\ Len(OpenOf(u)) <= Len(deque[u])
        BY <1>0, <2>2, OpenTypes, PickIs
      <4> QED
        BY <4>1
    <3> QED
      BY <1>0, <2>1, <3>1, <3>2 DEF Types, Forgotten, KeepsMode
  <2>3. CASE ~(OpenOf(u) # <<>> /\ mode[u] = "round_robin")
    BY <1>1, <1>4, <2>1, <2>3 DEF Data
  <2> QED
    BY <2>2, <2>3
<1>5. ASSUME NEW c \in Conn, Moving(c) PROVE UNCHANGED <<deque, mode, rr>>
  BY <1>0, <1>5, MovingAlive
<1>6. KeepsMode
  BY <1>1, <1>2, <1>3, <1>4, <1>5, Cases
     DEF Still, NotifyVictim, accept_clients, StrandCloses, CloseSocket, snapshot_stats, tables
<1> QED
  BY <1>s, <1>6

(* A later login never changes the receive mode of a user with sessions,   *)
(* and mode and round-robin index go with the user's last session, also    *)
(* when eviction, removal and a new login race for the same deque.         *)
THEOREM ModeStays == Spec => ModeIsFirstLogins
<1>1. Init => HandlerInv /\ Forgotten
  <2>1. Init => Forgotten
    BY DEF Init, Forgotten
  <2> QED
    BY <2>1, HandlerInit
<1>2. HandlerInv /\ Forgotten /\ [Next]_vars => (HandlerInv /\ Forgotten)'
  BY HandlerStep, ModeStep
<1>3. HandlerInv /\ Forgotten /\ [Next]_vars => [KeepsMode]_vars
  BY ModeStep
<1> QED
  BY <1>1, <1>2, <1>3, PTL DEF Spec, ModeIsFirstLogins, KeepsMode

-----------------------------------------------------------------------------
(* The two passes of list_users.                                           *)

(* OpenOf, with the deque and the sockets as arguments. *)
Open(q, o) == Keep(q, {s \in Conn : o[s]})

Listed == \A c \in Conn : reader[c] = "listing" => Len(Open(deque[want[c].user], is_open)) <= want[c].n

(* Sockets that close leave fewer sessions to list. *)
LEMMA FewerOpen ==
  ASSUME NEW q \in Seq(Conn), NEW o, NEW p, \A s \in Conn : p[s] => o[s]
  PROVE  Len(Open(q, p)) <= Len(Open(q, o)) /\ Len(Open(q, p)) \in Nat /\ Len(Open(q, o)) \in Nat
<1> DEFINE S == {s \in Conn : p[s]}
           T == {s \in Conn : o[s]}
<1>1. S \subseteq T
  OBVIOUS
<1>3. Open(q, p) = Keep(q, S) /\ Open(q, o) = Keep(q, T)
  BY DEF Open
<1> HIDE DEF S, T
<1>4. Keep(q, S) \in Seq(Conn) /\ Keep(q, T) \in Seq(Conn)
  BY KeepElements
<1>5. Len(Keep(q, S)) <= Len(Keep(q, T))
  BY <1>1, KeepFewer
<1> QED
  BY <1>3, <1>4, <1>5

LEMMA ListedStep ==
  ASSUME HandlerInv, HandlerInv', Listed, [Next]_vars
  PROVE  Listed'
<1>0. Types /\ Types' /\ Lock /\ Wants
  BY DEF HandlerInv
<1>1. ASSUME CanLock, NEW d \in Conn PROVE reader[d] # "listing"
  BY <1>0, <1>1, RegistryAssumption DEF CanLock, Lock
<1>2. ASSUME NEW d \in Conn, reader[d] = "listing", UNCHANGED deque, want'[d] = want[d],
             \A s \in Conn : is_open'[s] => is_open[s]
      PROVE  Len(Open(deque'[want'[d].user], is_open')) <= want'[d].n
  <2> DEFINE q == deque[want[d].user]
  <2>1. q \in Seq(Conn) /\ want[d].n \in Nat /\ Len(Open(q, is_open)) <= want[d].n
    BY <1>0, <1>2 DEF Wants, Types, Listed
  <2>2. deque'[want'[d].user] = q /\ want'[d].n = want[d].n
    BY <1>2
  <2> HIDE DEF q
  <2>3. Len(Open(q, is_open')) <= Len(Open(q, is_open)) /\ Len(Open(q, is_open')) \in Nat
        /\ Len(Open(q, is_open)) \in Nat
    BY <1>2, <2>1, FewerOpen
  <2> QED
    BY <2>1, <2>2, <2>3
<1>3. ASSUME UNCHANGED <<deque, reader, want>>, \A s \in Conn : is_open'[s] => is_open[s] PROVE Listed'
  BY <1>2, <1>3 DEF Listed
<1>4. ASSUME NEW c \in Conn, Moving(c) PROVE Listed'
  <2>1. UNCHANGED <<deque, is_open>>
    BY <1>0, <1>4, MovingAlive
  <2>2. ASSUME NEW u \in User, ListUsers(c, u) PROVE Listed'
    <3>1. CanLock /\ reader' = [reader EXCEPT ![c] = "listing"]
          /\ want' = [want EXCEPT ![c] = [user |-> u, mode |-> "broadcast", n |-> Len(OpenOf(u))]]
      BY <2>2 DEF ListUsers, Goto
    <3>2. ASSUME NEW d \in Conn, reader'[d] = "listing"
          PROVE  Len(Open(deque'[want'[d].user], is_open')) <= want'[d].n
      <4>1. d = c
        BY <1>0, <1>1, <3>1, <3>2 DEF Types
      <4>2. want'[d].user = u /\ want'[d].n = Len(OpenOf(u))
        BY <1>0, <3>1, <4>1 DEF Types
      <4>3. Open(deque'[want'[d].user], is_open') = OpenOf(u)
        BY <2>1, <4>2 DEF Open, OpenOf
      <4>4. Len(OpenOf(u)) \in Nat
        BY <1>0, OpenTypes
      <4> QED
        BY <4>2, <4>3, <4>4
    <3> QED
      BY <3>2 DEF Listed
  <2>3. ASSUME \A u \in User : ~ ListUsers(c, u) PROVE Listed'
    <3>1. /\ \E p \in Places \ {"listing"} : reader' = [reader EXCEPT ![c] = p]
          /\ want' = want \/ \E w : want' = [want EXCEPT ![c] = w]
      <4> USE DEF Goto, Places
      <4>1. ASSUME NEW u \in User, NEW m \in Modes, Authenticate(c, u, m)
            PROVE reader' = [reader EXCEPT ![c] = "authenticated"] /\ \E w : want' = [want EXCEPT ![c] = w]
        BY <4>1 DEF Authenticate
      <4>2. ASSUME MarkLogin(c) \/ ListReply(c)
            PROVE reader' \in {[reader EXCEPT ![c] = "notifying"], [reader EXCEPT ![c] = "reading"]}
                  /\ \E w : want' = [want EXCEPT ![c] = w]
        BY <4>2 DEF MarkLogin, ListReply
      <4>3. ASSUME LoginReply(c) \/ KickReply(c) \/ \E u \in User : KickUser(c, u)
            PROVE reader' \in {[reader EXCEPT ![c] = "kicking"], [reader EXCEPT ![c] = "reading"]}
                  /\ want' = want
        BY <4>3 DEF LoginReply, KickReply, KickUser
      <4>4. ASSUME ReadBreak(c) \/ IdleBreak(c) \/ SeeClosed(c)
            PROVE reader' = [reader EXCEPT ![c] = "leaving"] /\ want' = want
        BY <4>4 DEF ReadBreak, IdleBreak, SeeClosed
      <4> QED
        BY <1>4, <2>3, <4>1, <4>2, <4>3, <4>4 DEF Moving
    <3>2. ASSUME NEW d \in Conn, reader'[d] = "listing" PROVE reader[d] = "listing" /\ want'[d] = want[d]
      <4>1. d # c
        BY <1>0, <3>1, <3>2 DEF Types
      <4> QED
        BY <1>0, <3>1, <3>2, <4>1 DEF Types
    <3> QED
      BY <1>2, <2>1, <3>2 DEF Listed
  <2> QED
    BY <2>2, <2>3
<1>5. ASSUME NEW c \in Conn, accept_clients(c) \/ EnterTables(c) \/ remove_session(c) PROVE Listed'
  <2>1. CanLock /\ \E p \in {"reading", "marking", "removed"} : reader' = [reader EXCEPT ![c] = p]
    BY <1>5 DEF accept_clients, EnterTables, remove_session, Goto
  <2>2. \A d \in Conn : reader'[d] # "listing"
    BY <1>0, <1>1, <2>1 DEF Types
  <2> QED
    BY <2>2 DEF Listed
<1>6. ASSUME NEW c \in Conn, StrandCloses(c) \/ CloseSocket(c) PROVE Listed'
  <2>1. /\ UNCHANGED <<deque, want>> /\ is_open' = [is_open EXCEPT ![c] = FALSE]
        /\ UNCHANGED reader \/ reader' = [reader EXCEPT ![c] = "done"]
    BY <1>6 DEF StrandCloses, CloseSocket, Goto, tables
  <2>2. \A s \in Conn : is_open'[s] => is_open[s]
    BY <1>0, <2>1 DEF Types
  <2>3. \A d \in Conn : reader'[d] = "listing" => reader[d] = "listing"
    BY <1>0, <2>1 DEF Types
  <2> QED
    BY <1>2, <2>1, <2>2, <2>3 DEF Listed
<1> QED
  BY <1>3, <1>4, <1>5, <1>6, Cases DEF Still, NotifyVictim, Data, snapshot_stats, tables

(* What ListNeverOverruns says of one step. *)
WithinHeader == \A c \in Conn : ListReply(c) => Len(OpenOf(want[c].user)) <= want[c].n

(* The second pass of list_users never writes more entries than the array  *)
(* header of the first pass announced.                                     *)
THEOREM ListWithinHeader == Spec => ListNeverOverruns
<1>1. Init => HandlerInv /\ Listed
  <2>1. Init => Listed
    BY DEF Init, Listed
  <2> QED
    BY <2>1, HandlerInit
<1>2. HandlerInv /\ Listed /\ [Next]_vars => (HandlerInv /\ Listed)'
  BY HandlerStep, ListedStep
<1>3. HandlerInv /\ Listed /\ [Next]_vars => [WithinHeader]_vars
  BY DEF Listed, WithinHeader, ListReply, Open, OpenOf
<1> QED
  BY <1>1, <1>2, <1>3, PTL DEF Spec, ListNeverOverruns, WithinHeader

-----------------------------------------------------------------------------
(* Round robin.                                                            *)

(* Place i comes before place j in the order in which an index p picks:    *)
(* p + 1, p + 2, ... to the last place, then from the first to p.          *)
Ahead(p, i, j) == IF (i > p) = (j > p) THEN i < j ELSE i > p

(* Whoever comes earlier has had as many turns or one less. *)
Fair(L, count, p) ==
  \A i, j \in 1..Len(L) :
    /\ L[i] = L[j] => i = j
    /\ Ahead(p, i, j) => count[L[i]] <= count[L[j]] /\ count[L[j]] <= count[L[i]] + 1

TurnsInv == \A u \in User : Fair(turns[u].list, turns[u].count, rr[u] % Len(turns[u].list))

(* The place that is picked goes to the end of the order, and the order of *)
(* the others stays.                                                       *)
LEMMA AheadNext ==
  ASSUME NEW n \in Nat \ {0}, NEW p \in 0..(n - 1), NEW i \in 1..n, NEW j \in 1..n,
         Ahead(IF p = n - 1 THEN 0 ELSE p + 1, i, j)
  PROVE  /\ i # p + 1
         /\ j = p + 1 => Ahead(p, j, i)
         /\ j # p + 1 => Ahead(p, i, j)
<1>1. CASE p = n - 1
  BY <1>1 DEF Ahead
<1>2. CASE p # n - 1
  BY <1>2 DEF Ahead
<1> QED
  BY <1>1, <1>2

LEMMA FairNext ==
  ASSUME NEW L \in Seq(Conn), NEW count \in [Conn -> Nat], NEW r \in Nat, Len(L) \in Nat \ {0},
         Fair(L, count, r % Len(L))
  PROVE  Fair(L, [count EXCEPT ![L[(r % Len(L)) + 1]] = count[L[(r % Len(L)) + 1]] + 1], (r + 1) % Len(L))
<1> DEFINE n == Len(L)
           p == r % n
           q == (r + 1) % n
           x == L[p + 1]
           next == [count EXCEPT ![x] = count[x] + 1]
<1>1. p \in 0..(n - 1) /\ p + 1 \in 1..n /\ q = (IF p = n - 1 THEN 0 ELSE p + 1) /\ n \in Nat \ {0}
  <2>1. p \in 0..(n - 1)
    BY ModRange
  <2>2. q = (IF p = n - 1 THEN 0 ELSE p + 1)
    BY ModStep
  <2> HIDE DEF p, q
  <2> QED
    BY <2>1, <2>2
<1>2. Fair(L, count, p) /\ n = Len(L)
  OBVIOUS
<1>g. SUFFICES Fair(L, next, q)
  OBVIOUS
<1>3. x = L[p + 1] /\ next = [count EXCEPT ![x] = count[x] + 1]
  OBVIOUS
<1> HIDE DEF n, p, q, x, next
<1>4. \A i \in 1..n : L[i] \in Conn /\ count[L[i]] \in Nat
  BY <1>2
<1>5. x \in Conn /\ next[x] = count[x] + 1 /\ \A c \in Conn : c # x => next[c] = count[c]
  BY <1>1, <1>3, <1>4
<1>6. ASSUME NEW i \in 1..n, NEW j \in 1..n, Ahead(q, i, j)
      PROVE  next[L[i]] <= next[L[j]] /\ next[L[j]] <= next[L[i]] + 1
  <2>1. i # p + 1 /\ (j = p + 1 => Ahead(p, j, i)) /\ (j # p + 1 => Ahead(p, i, j))
    BY <1>1, <1>6, AheadNext
  <2>2. L[i] # x
    BY <1>1, <1>2, <1>3, <2>1 DEF Fair
  <2>3. next[L[i]] = count[L[i]]
    BY <1>4, <1>5, <2>2
  <2>4. CASE j = p + 1
    <3>1. L[j] = x /\ next[L[j]] = count[L[j]] + 1
      BY <1>3, <1>5, <2>4
    <3>2. count[L[j]] <= count[L[i]] /\ count[L[i]] <= count[L[j]] + 1
      BY <1>2, <2>1, <2>4 DEF Fair
    <3>3. count[L[i]] \in Nat /\ count[L[j]] \in Nat
      BY <1>4
    <3> QED
      BY <2>3, <3>1, <3>2, <3>3
  <2>5. CASE j # p + 1
    <3>1. L[j] # x
      BY <1>1, <1>2, <1>3, <2>5 DEF Fair
    <3>2. next[L[j]] = count[L[j]]
      BY <1>4, <1>5, <3>1
    <3>3. count[L[i]] <= count[L[j]] /\ count[L[j]] <= count[L[i]] + 1
      BY <1>2, <2>1, <2>5 DEF Fair
    <3> QED
      BY <2>3, <3>2, <3>3
  <2> QED
    BY <2>4, <2>5
<1> QED
  BY <1>2, <1>6 DEF Fair

(* No turns have been taken on a list that was not offered before. *)
LEMMA FairNew ==
  ASSUME NEW L \in Seq(Conn), \A i, j \in 1..Len(L) : L[i] = L[j] => i = j, NEW p
  PROVE  Fair(L, NoTurns.count, p)
<1>1. \A i \in 1..Len(L) : L[i] \in Conn
  OBVIOUS
<1>2. \A c \in Conn : NoTurns.count[c] = 0
  BY DEF NoTurns
<1>3. \A i \in 1..Len(L) : NoTurns.count[L[i]] = 0
  BY <1>1, <1>2
<1> QED
  BY <1>3 DEF Fair

LEMMA TurnsStep ==
  ASSUME HandlerInv, NoGhost, TurnsInv, [Next]_vars
  PROVE  TurnsInv'
<1>0. Types /\ Once
  BY NoGhostParts DEF HandlerInv
<1>1. ASSUME UNCHANGED <<rr, turns>> PROVE TurnsInv'
  BY <1>1 DEF TurnsInv
<1>2. ASSUME NEW c \in Conn, NEW u \in User, Data(c, u) PROVE TurnsInv'
  <2>1. CASE OpenOf(u) # <<>> /\ mode[u] = "round_robin"
    <3> DEFINE L == OpenOf(u)
               old == IF turns[u].list = L THEN turns[u].count ELSE NoTurns.count
               x == L[(rr[u] % Len(L)) + 1]
               next == [old EXCEPT ![x] = old[x] + 1]
    <3>1. L \in Seq(Conn) /\ Len(L) \in Nat \ {0} /\ rr[u] \in Nat
      BY <1>0, <2>1, OpenTypes, PickIs DEF Types
    <3>2. \A i, j \in 1..Len(L) : L[i] = L[j] => i = j
      <4>1. deque[u] \in Seq(Conn) /\ \A i, j \in 1..Len(deque[u]) : deque[u][i] = deque[u][j] => i = j
        BY <1>0 DEF Once, Types
      <4> QED
        BY <4>1, KeepOnce DEF OpenOf
    <3>3. old \in [Conn -> Nat] /\ Fair(L, old, rr[u] % Len(L))
      <4>1. CASE turns[u].list = L
        BY <1>0, <4>1 DEF Types, TurnsInv
      <4>2. CASE turns[u].list # L
        <5>1. old = NoTurns.count /\ NoTurns.count \in [Conn -> Nat]
          BY <4>2 DEF NoTurns
        <5>2. Fair(L, NoTurns.count, rr[u] % Len(L))
          <6> HIDE DEF L
          <6> QED
            BY <3>1, <3>2, FairNew
        <5> QED
          BY <5>1, <5>2
      <4> QED
        BY <4>1, <4>2
    <3>4. Fair(L, next, (rr[u] + 1) % Len(L))
      <4> HIDE DEF L, old
      <4> QED
        BY <3>1, <3>3, FairNext
    <3>5. /\ rr' = [rr EXCEPT ![u] = rr[u] + 1]
          /\ turns' = [turns EXCEPT ![u] = [list |-> L, count |-> next]]
      BY <1>2, <2>1 DEF Data, CountTurn, Pick
    <3> HIDE DEF L, next
    <3>6. rr'[u] = rr[u] + 1 /\ turns'[u].list = L /\ turns'[u].count = next
      BY <1>0, <3>5 DEF Types
    <3>7. \A w \in User : w # u => rr'[w] = rr[w] /\ turns'[w] = turns[w]
      BY <1>0, <3>5 DEF Types
    <3>8. ASSUME NEW w \in User PROVE Fair(turns'[w].list, turns'[w].count, rr'[w] % Len(turns'[w].list))
      <4>1. CASE w = u
        BY <3>4, <3>6, <4>1
      <4>2. CASE w # u
        BY <3>7, <4>2 DEF TurnsInv
      <4> QED
        BY <4>1, <4>2
    <3> QED
      BY <3>8 DEF TurnsInv
  <2>2. CASE ~(OpenOf(u) # <<>> /\ mode[u] = "round_robin")
    BY <1>1, <1>2, <2>2 DEF Data
  <2> QED
    BY <2>1, <2>2
<1>3. ASSUME NEW c \in Conn, remove_session(c) PROVE TurnsInv'
  <2>1. CASE UNCHANGED <<deque, mode, rr, turns>>
    BY <1>1, <2>1
  <2>2. CASE ~ UNCHANGED <<deque, mode, rr, turns>>
    <3> DEFINE u == uid[c]
               D == deque'[u]
    <3>1. /\ u \in User
          /\ rr' = [rr EXCEPT ![u] = IF D = <<>> THEN 0 ELSE rr[u]]
          /\ turns' = [turns EXCEPT ![u] = IF D = <<>> THEN NoTurns ELSE turns[u]]
      BY <1>3, <2>2, RemoveShape
    <3> HIDE DEF D, u
    <3>2. ASSUME NEW w \in User PROVE Fair(turns'[w].list, turns'[w].count, rr'[w] % Len(turns'[w].list))
      <4>1. CASE w = u /\ D = <<>>
        <5>1. turns'[w] = NoTurns /\ NoTurns.list = <<>>
          BY <1>0, <3>1, <4>1 DEF Types, NoTurns
        <5>2. turns'[w].list = <<>>
          BY <5>1
        <5>3. \A L, k, p : L = <<>> => Fair(L, k, p)
          BY DEF Fair
        <5> QED
          BY <5>2, <5>3
      <4>2. CASE ~(w = u /\ D = <<>>)
        <5>1. rr'[w] = rr[w] /\ turns'[w] = turns[w]
          BY <1>0, <3>1, <4>2 DEF Types
        <5> QED
          BY <5>1 DEF TurnsInv
      <4> QED
        BY <4>1, <4>2
    <3> QED
      BY <3>2 DEF TurnsInv
  <2> QED
    BY <2>1, <2>2
<1>4. ASSUME NEW c \in Conn, Moving(c) PROVE UNCHANGED <<rr, turns>>
  BY <1>0, <1>4, MovingAlive
<1> QED
  BY <1>1, <1>2, <1>3, <1>4, Cases
     DEF Still, NotifyVictim, accept_clients, EnterTables, StrandCloses, CloseSocket, snapshot_stats, tables

LEMMA TurnsAreFair == ASSUME Types, TurnsInv PROVE FairTurns
<1>1. ASSUME NEW u \in User, NEW c \in ToSet(turns[u].list), NEW d \in ToSet(turns[u].list)
      PROVE  turns[u].count[c] <= turns[u].count[d] + 1
  <2> DEFINE L == turns[u].list
             k == turns[u].count
             p == rr[u] % Len(L)
  <2>1. L \in Seq(Conn) /\ k \in [Conn -> Nat] /\ Len(L) \in Nat /\ rr[u] \in Nat
    BY DEF Types
  <2>2. Fair(L, k, p)
    BY DEF TurnsInv
  <2>3. PICK i \in 1..Len(L) : c = L[i]
    BY <2>1 DEF ToSet
  <2>4. PICK j \in 1..Len(L) : d = L[j]
    BY <2>1 DEF ToSet
  <2>5. p \in 0..(Len(L) - 1)
    <3>1. Len(L) \in Nat \ {0}
      BY <2>1, <2>3
    <3> HIDE DEF L
    <3> QED
      BY <2>1, <3>1, ModRange
  <2> HIDE DEF L, k, p
  <2>6. L[i] \in Conn /\ L[j] \in Conn /\ k[L[i]] \in Nat /\ k[L[j]] \in Nat
    BY <2>1
  <2>7. i = j \/ Ahead(p, i, j) \/ Ahead(p, j, i)
    BY <2>1, <2>5 DEF Ahead
  <2>8. i = j \/ (k[L[i]] <= k[L[j]]) \/ (k[L[i]] <= k[L[j]] + 1)
    <3>1. Ahead(p, i, j) => k[L[i]] <= k[L[j]]
      BY <2>2 DEF Fair
    <3>2. Ahead(p, j, i) => k[L[i]] <= k[L[j]] + 1
      BY <2>2 DEF Fair
    <3> QED
      BY <2>7, <3>1, <3>2
  <2>9. k[L[i]] <= k[L[j]] + 1
    BY <2>6, <2>8
  <2> QED
    BY <2>3, <2>4, <2>9 DEF k
<1> QED
  BY <1>1 DEF FairTurns

(* Round robin is fair whatever the number of sessions and of deliveries:  *)
(* as long as the open sessions of a user stay the same, no two of them    *)
(* are more than one DELIVER apart, across the wrap of the index and after *)
(* every change of the list.                                               *)
THEOREM RoundRobinIsFair == Spec => []FairTurns
<1>1. Init => HandlerInv /\ NoGhost /\ TurnsInv
  <2> SUFFICES ASSUME Init PROVE HandlerInv /\ NoGhost /\ TurnsInv
    OBVIOUS
  <2>1. ASSUME NEW u \in User PROVE Fair(turns[u].list, turns[u].count, rr[u] % Len(turns[u].list))
    <3>1. turns[u].list = <<>>
      BY DEF Init, NoTurns
    <3>2. \A L, k, p : L = <<>> => Fair(L, k, p)
      BY DEF Fair
    <3> QED
      BY <3>1, <3>2
  <2> QED
    BY <2>1, HandlerInit, NoGhostInit DEF TurnsInv
<1>2. HandlerInv /\ NoGhost /\ TurnsInv /\ [Next]_vars => (HandlerInv /\ NoGhost /\ TurnsInv)'
  BY HandlerStep, NoGhostStep, TurnsStep
<1>3. HandlerInv /\ NoGhost /\ TurnsInv => FairTurns
  BY TurnsAreFair DEF HandlerInv
<1> QED
  BY <1>1, <1>2, <1>3, PTL DEF Spec

=============================================================================
