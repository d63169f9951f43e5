--------------------------- MODULE KeepaliveProofs ---------------------------
(***************************************************************************)
(* The properties of module Keepalive for every configuration, every       *)
(* heartbeat interval and every bound on the handlers' time.               *)
(***************************************************************************)
EXTENDS Keepalive, TLAPS

(* How long ago the last whole frame can have been read, by where the loop *)
(* is.                                                                     *)
SinceInv ==
  status = "open" =>
    /\ loop = "handler" => since <= busyFor
    /\ loop = "header" => since <= HandlerMax + readFor
    /\ loop = "body" => since <= HandlerMax + ReadMs + readFor

(* The scan leaves no open session behind that is over the timeout, and    *)
(* both clocks run on together until the next one.                         *)
ScanInv ==
  /\ status = "open" => lastHb <= HeartbeatMs + scanned
  /\ ~loggedIn => lastHb = 0
  /\ login = "marking" => loop = "handler"

(* The only time that counts against the idle limit is the handler's. *)
IdleInv ==
  /\ loop = "handler" => activity <= busyFor
  /\ IdleNeverFires

(* What keeps a client that keeps sending connected: with no frame waiting *)
(* neither the read in progress nor the heartbeat time is older than its   *)
(* last frame, and with one waiting the time is the handler's.             *)
BeatingInv ==
  KeepsUp /\ beating =>
    /\ KeptAlive
    /\ ~half
    /\ loop = "header" => readFor <= Gap /\ (unread = 0 => readFor <= quiet)
    /\ loop = "body" => unread > 0 /\ readFor = 0
    /\ loop = "handler" => readFor = 0 /\ (loggedIn => lastHb <= busyFor)
    /\ lastHb <= HeartbeatMs
    /\ unread = 0 => lastHb <= quiet

Inv == TypeOK /\ SinceInv /\ ScanInv /\ IdleInv /\ BeatingInv

LEMMA InitInv == Init => Inv
  BY ConfigAssumption DEF Init, Inv, TypeOK, SinceInv, ScanInv, IdleInv, BeatingInv,
     IdleNeverFires, KeptAlive, KeepsUp, Admits, beating, loggedIn, half

LEMMA TypeStep == TypeOK /\ [Next]_vars => TypeOK'
<1> SUFFICES ASSUME TypeOK, [Next]_vars PROVE TypeOK'
  OBVIOUS
<1> USE ConfigAssumption DEF TypeOK, Admits, beating, loggedIn, half
<1>1. CASE Arrive BY <1>1 DEF Arrive
<1>2. CASE Stall BY <1>2 DEF Stall, clocks
<1>3. CASE Resume BY <1>3 DEF Resume
<1>4. CASE ReadHeader BY <1>4 DEF ReadHeader, LastActivity
<1>5. CASE ReadBody BY <1>5 DEF ReadBody, BodyReady, LastActivity, Touched
<1>6. CASE HandlerEnds BY <1>6 DEF HandlerEnds
<1>7. CASE ReadTimeout BY <1>7 DEF ReadTimeout, clocks
<1>8. CASE check_heartbeats BY <1>8 DEF check_heartbeats
<1>9. CASE Tick BY <1>9 DEF Tick, NothingDue, Timed
<1>10. CASE UNCHANGED vars BY <1>10 DEF vars, clocks
<1>11. CASE AcceptLogin BY <1>11 DEF AcceptLogin, clocks
<1>12. CASE MarkLogin BY <1>12 DEF MarkLogin
<1>13. CASE BadFrame BY <1>13 DEF BadFrame, clocks
<1>14. QED
  BY <1>1, <1>2, <1>3, <1>4, <1>5, <1>6, <1>7, <1>8, <1>9, <1>10, <1>11, <1>12, <1>13
  DEF Next

LEMMA SinceStep == TypeOK /\ SinceInv /\ [Next]_vars => SinceInv'
<1> SUFFICES ASSUME TypeOK, SinceInv, [Next]_vars PROVE SinceInv'
  OBVIOUS
<1> USE ConfigAssumption DEF TypeOK, SinceInv, Admits, beating, loggedIn, half
<1>1. CASE Arrive BY <1>1 DEF Arrive
<1>2. CASE Stall BY <1>2 DEF Stall, clocks
<1>3. CASE Resume BY <1>3 DEF Resume
<1>4. CASE ReadHeader BY <1>4 DEF ReadHeader, HeaderReady
<1>5. CASE ReadBody BY <1>5 DEF ReadBody
<1>6. CASE HandlerEnds BY <1>6 DEF HandlerEnds
<1>7. CASE ReadTimeout BY <1>7 DEF ReadTimeout, clocks
<1>8. CASE check_heartbeats BY <1>8 DEF check_heartbeats
<1>9. CASE Tick BY <1>9 DEF Tick, NothingDue, Timed
<1>10. CASE UNCHANGED vars BY <1>10 DEF vars, clocks
<1>11. CASE AcceptLogin BY <1>11 DEF AcceptLogin, clocks
<1>12. CASE MarkLogin BY <1>12 DEF MarkLogin
<1>13. CASE BadFrame BY <1>13 DEF BadFrame, clocks
<1>14. QED
  BY <1>1, <1>2, <1>3, <1>4, <1>5, <1>6, <1>7, <1>8, <1>9, <1>10, <1>11, <1>12, <1>13
  DEF Next

LEMMA ScanStep == TypeOK /\ ScanInv /\ [Next]_vars => ScanInv'
<1> SUFFICES ASSUME TypeOK, ScanInv, [Next]_vars PROVE ScanInv'
  OBVIOUS
<1> USE ConfigAssumption DEF TypeOK, ScanInv, Admits, beating, loggedIn, half
<1>1. CASE Arrive BY <1>1 DEF Arrive
<1>2. CASE Stall BY <1>2 DEF Stall, clocks
<1>3. CASE Resume BY <1>3 DEF Resume
<1>4. CASE ReadHeader BY <1>4 DEF ReadHeader, HeaderReady
<1>5. CASE ReadBody BY <1>5 DEF ReadBody, BodyReady, Touched
<1>6. CASE HandlerEnds BY <1>6 DEF HandlerEnds
<1>7. CASE ReadTimeout BY <1>7 DEF ReadTimeout, clocks
<1>8. CASE check_heartbeats BY <1>8 DEF check_heartbeats, Expired
<1>9. CASE Tick BY <1>9 DEF Tick, NothingDue
<1>10. CASE UNCHANGED vars BY <1>10 DEF vars, clocks
<1>11. CASE AcceptLogin BY <1>11 DEF AcceptLogin, clocks
<1>12. CASE MarkLogin BY <1>12 DEF MarkLogin
<1>13. CASE BadFrame BY <1>13 DEF BadFrame, clocks
<1>14. QED
  BY <1>1, <1>2, <1>3, <1>4, <1>5, <1>6, <1>7, <1>8, <1>9, <1>10, <1>11, <1>12, <1>13
  DEF Next

LEMMA IdleStep == TypeOK /\ IdleInv /\ [Next]_vars => IdleInv'
<1> SUFFICES ASSUME TypeOK, IdleInv, [Next]_vars PROVE IdleInv'
  OBVIOUS
<1> USE ConfigAssumption DEF TypeOK, IdleInv, IdleNeverFires, Admits, beating, loggedIn, half
<1>1. CASE Arrive BY <1>1 DEF Arrive
<1>2. CASE Stall BY <1>2 DEF Stall, clocks
<1>3. CASE Resume BY <1>3 DEF Resume
<1>4. CASE ReadHeader BY <1>4 DEF ReadHeader
<1>5. CASE ReadBody BY <1>5 DEF ReadBody, LastActivity
<1>6. CASE HandlerEnds BY <1>6 DEF HandlerEnds
<1>7. CASE ReadTimeout BY <1>7 DEF ReadTimeout, clocks
<1>8. CASE check_heartbeats BY <1>8 DEF check_heartbeats
<1>9. CASE Tick BY <1>9 DEF Tick
<1>10. CASE UNCHANGED vars BY <1>10 DEF vars, clocks
<1>11. CASE AcceptLogin BY <1>11 DEF AcceptLogin, clocks
<1>12. CASE MarkLogin BY <1>12 DEF MarkLogin
<1>13. CASE BadFrame BY <1>13 DEF BadFrame, clocks
<1>14. QED
  BY <1>1, <1>2, <1>3, <1>4, <1>5, <1>6, <1>7, <1>8, <1>9, <1>10, <1>11, <1>12, <1>13
  DEF Next

LEMMA BeatingStep == Inv /\ [Next]_vars => BeatingInv'
<1> SUFFICES ASSUME Inv, [Next]_vars, KeepsUp, beating' PROVE BeatingInv'
  BY DEF BeatingInv, Inv, TypeOK, Next, vars, clocks, Arrive, Stall, Resume, ReadHeader,
     ReadBody, AcceptLogin, MarkLogin, HandlerEnds, BadFrame, ReadTimeout,
     check_heartbeats, Tick, beating
<1>0. beating
  BY DEF Inv, TypeOK, Next, vars, Arrive, Stall, Resume, ReadHeader, ReadBody,
     AcceptLogin, MarkLogin, HandlerEnds, BadFrame, ReadTimeout, check_heartbeats,
     Tick, clocks, beating
<1> USE ConfigAssumption, <1>0
    DEF TypeOK, Inv, BeatingInv, KeptAlive, KeepsUp, Admits, beating, loggedIn, half
<1>1. CASE Arrive BY <1>1 DEF Arrive
<1>2. CASE Stall BY <1>2 DEF Stall
<1>3. CASE Resume BY <1>3 DEF Resume
<1>4. CASE ReadHeader BY <1>4 DEF ReadHeader, HeaderReady
<1>5. CASE ReadBody BY <1>5 DEF ReadBody, Touched, ScanInv, BodyReady
<1>6. CASE HandlerEnds BY <1>6 DEF HandlerEnds, IdleInv
<1>7. CASE ReadTimeout BY <1>7 DEF ReadTimeout, Timed
<1>8. CASE check_heartbeats BY <1>8 DEF check_heartbeats, Expired
<1>9. CASE Tick BY <1>9 DEF Tick, NothingDue, Timed, HeaderReady, BodyReady, ScanInv
<1>10. CASE UNCHANGED vars BY <1>10 DEF vars, clocks
<1>11. CASE AcceptLogin BY <1>11 DEF AcceptLogin, clocks
<1>12. CASE MarkLogin BY <1>12 DEF MarkLogin
<1>13. CASE BadFrame BY <1>13 DEF BadFrame, clocks
<1>14. QED
  BY <1>1, <1>2, <1>3, <1>4, <1>5, <1>6, <1>7, <1>8, <1>9, <1>10, <1>11, <1>12, <1>13
  DEF Next

(* The inductive invariant of the three clocks. *)
THEOREM ClocksInvariant == Spec => []Inv
<1>1. Inv /\ [Next]_vars => Inv'
  BY TypeStep, SinceStep, ScanStep, IdleStep, BeatingStep DEF Inv
<1>2. QED
  BY InitInv, <1>1, PTL DEF Spec

(* A client whose frames are accepted and come within every read timeout   *)
(* and every heartbeat timeout loses its connection to no clock, except to *)
(* a scan that meets it inside mark_login (read_loop, check_heartbeats).   *)
THEOREM KeptAliveTheorem == Spec => []KeptAlive
<1>1. Inv => KeptAlive
  BY DEF Inv, BeatingInv, KeptAlive
<1>2. QED
  BY ClocksInvariant, <1>1, PTL

(* A connection that yields no whole frame is closed within one handler    *)
(* and two read timeouts, whatever the client sends of a frame.            *)
THEOREM MuteIsClosedTheorem == Spec => []MuteIsClosed
<1>1. Inv => MuteIsClosed
  BY ConfigAssumption DEF Inv, TypeOK, SinceInv, MuteIsClosed, Admits
<1>2. QED
  BY ClocksInvariant, <1>1, PTL

(* A silent logged-in session is closed within the heartbeat timeout and   *)
(* one period of the scan (check_heartbeats).                              *)
THEOREM SilentIsKickedTheorem == Spec => []SilentIsKicked
<1>1. Inv => SilentIsKicked
  BY ConfigAssumption DEF Inv, TypeOK, ScanInv, SilentIsKicked, Admits
<1>2. QED
  BY ClocksInvariant, <1>1, PTL

(* The idle limit never acts on a session whose handlers are faster. *)
THEOREM IdleNeverFiresTheorem == Spec => []IdleNeverFires
<1>1. Inv => IdleNeverFires
  BY DEF Inv, IdleInv
<1>2. QED
  BY ClocksInvariant, <1>1, PTL
=============================================================================
