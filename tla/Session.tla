------------------------------- MODULE Session -------------------------------
(***************************************************************************)
(* The write side of one TcpSession of the relay server (main.cpp): the    *)
(* strand that serialises send_frame, kick_notify_and_close and stop, the  *)
(* bounded send queue, the single outstanding async_write, and the read    *)
(* loop as far as it cancels or closes the socket behind the strand's back.*)
(*                                                                         *)
(* A frame is its number in the order of posting and its size in bytes.    *)
(* Callers post to the strand from any thread; the strand runs its tasks   *)
(* in the order they were posted.  The completion handler of async_write   *)
(* also runs on the strand, at a moment the kernel chooses, so it may fall *)
(* between any two tasks.                                                  *)
(***************************************************************************)
EXTENDS Integers, Sequences, Lists

CONSTANTS
  Sizes,        \* sizes a posted frame may have
  KickSize,     \* size of the KICK frame
  HighWater,    \* flow.send_queue.high_water_bytes
  HardLimit,    \* flow.send_queue.hard_limit_bytes
  OnHighWater,  \* flow.send_queue.on_high_water
  MaxSends,     \* bound: send_frame calls
  MaxCtls       \* bound: calls of kick_notify_and_close and stop from outside

ASSUME ConfigAssumption ==
  /\ Sizes \subseteq Nat \ {0}
  /\ KickSize \in Nat \ {0}
  /\ HighWater \in Nat \ {0}
  /\ HardLimit \in Nat
  /\ HardLimit >= HighWater
  /\ OnHighWater \in {"drop", "disconnect"}
  /\ MaxSends \in Nat
  /\ MaxCtls \in Nat

VARIABLES
  strand,       \* tasks posted to strand_ and not yet run
  queue,        \* queue_
  pending,      \* pending_bytes_
  writing,      \* writing_
  stopped,      \* stopped_
  kickPending,  \* kick_pending_
  sock,         \* whether socket_.is_open()
  peer,         \* whether the peer has reset the connection
  flight,       \* async_write operations begun and not yet completed
  wire,         \* what has been handed to the connection, frame by frame
  reader,       \* where read_loop is
  drops,        \* metrics_.drops
  sends,        \* send_frame calls so far
  ctls          \* outside calls of kick_notify_and_close and stop so far

vars == <<strand, queue, pending, writing, stopped, kickPending, sock, peer,
          flight, wire, reader, drops, sends, ctls>>

Frame == [id : Nat, size : Nat \ {0}]
KickFrame == [id |-> 0, size |-> KickSize]

Task == [op : {"send", "kick", "stop"}, frame : Frame]
Send(f) == [op |-> "send", frame |-> f]
Kick == [op |-> "kick", frame |-> KickFrame]
Stop == [op |-> "stop", frame |-> KickFrame]

(* One async_write: "begun" before the connection took a byte, "partial"   *)
(* while it has taken some, then "done" or "failed" until the completion   *)
(* handler runs.                                                           *)
Write == [frame : Frame, st : {"begun", "partial", "done", "failed"},
          cancelled : BOOLEAN]
Begun(f) == [frame |-> f, st |-> "begun", cancelled |-> FALSE]

(* What the connection took of a frame. *)
Chunk == [id : Nat, st : {"partial", "whole"}]

FlagTypes == writing \in BOOLEAN /\ stopped \in BOOLEAN /\ kickPending \in BOOLEAN

DataTypes ==
  /\ strand \in Seq(Task)
  /\ queue \in Seq(Frame)
  /\ pending \in Nat
  /\ sock \in {"open", "closed"}
  /\ peer \in {"up", "reset"}
  /\ flight \in Seq(Write)
  /\ wire \in Seq(Chunk)
  /\ reader \in {"reading", "leaving", "done"}
  /\ drops \in Nat
  /\ sends \in Nat
  /\ ctls \in Nat

TypeOK == FlagTypes /\ DataTypes

Init ==
  /\ strand = <<>>
  /\ queue = <<>>
  /\ pending = 0
  /\ writing = FALSE
  /\ stopped = FALSE
  /\ kickPending = FALSE
  /\ sock = "open"
  /\ peer = "up"
  /\ flight = <<>>
  /\ wire = <<>>
  /\ reader = "reading"
  /\ drops = 0
  /\ sends = 0
  /\ ctls = 0

-----------------------------------------------------------------------------
(* Callers.  Each of the three calls only posts to the strand.             *)

send_frame(sz) ==
  /\ sends < MaxSends
  /\ sends' = sends + 1
  /\ strand' = Append(strand, Send([id |-> sends + 1, size |-> sz]))
  /\ UNCHANGED <<queue, pending, writing, stopped, kickPending, sock, peer,
                 flight, wire, reader, drops, ctls>>

kick_notify_and_close ==
  /\ ctls < MaxCtls
  /\ ctls' = ctls + 1
  /\ strand' = Append(strand, Kick)
  /\ UNCHANGED <<queue, pending, writing, stopped, kickPending, sock, peer,
                 flight, wire, reader, drops, sends>>

stop ==
  /\ ctls < MaxCtls
  /\ ctls' = ctls + 1
  /\ strand' = Append(strand, Stop)
  /\ UNCHANGED <<queue, pending, writing, stopped, kickPending, sock, peer,
                 flight, wire, reader, drops, sends>>

-----------------------------------------------------------------------------
(* The strand.  The Mut operators are mutated forms of the definition that *)
(* follows them, plausible slips that the properties must catch; the       *)
(* specification does not use them.                                        *)

(* do_write with queue_ = q, and w, fl the values writing_ and flight have *)
(* when it is called.                                                      *)
do_write(q, w, fl) ==
  IF q = <<>> \/ stopped
  THEN writing' = w /\ flight' = fl
  ELSE writing' = TRUE /\ flight' = Append(fl, Begun(Head(q)))

MutAlwaysWrite(q) == do_write(q, writing, flight)
MutNeverWrite(q) == UNCHANGED <<writing, flight>>

WriteIfIdle(q) ==
  IF writing THEN UNCHANGED <<writing, flight>>
             ELSE do_write(q, writing, flight)

IsNext(op) == strand # <<>> /\ Head(strand).op = op

(* The task send_frame posts, by its early returns. *)

MutAcceptsWhenKicked == ~stopped

Accepts == ~stopped /\ ~kickPending

SendIgnored ==
  /\ IsNext("send")
  /\ ~Accepts
  /\ strand' = Tail(strand)
  /\ UNCHANGED <<queue, pending, writing, stopped, kickPending, sock, peer,
                 flight, wire, reader, drops, sends, ctls>>

NewTotal == pending + Head(strand).frame.size

MutOverHighWater == pending > HighWater /\ NewTotal <= HardLimit

OverHighWater == NewTotal > HighWater /\ NewTotal <= HardLimit

MutDrops == IF OverHighWater THEN drops ELSE drops + 1

Drops == drops + 1

SendRefused ==
  /\ IsNext("send")
  /\ Accepts
  /\ OverHighWater \/ NewTotal > HardLimit
  /\ drops' = Drops
  /\ strand' = IF OverHighWater /\ OnHighWater = "drop"
               THEN Tail(strand)
               ELSE Append(Tail(strand), Stop)
  /\ UNCHANGED <<queue, pending, writing, stopped, kickPending, sock, peer,
                 flight, wire, reader, sends, ctls>>

SendAccepted ==
  /\ IsNext("send")
  /\ Accepts
  /\ ~OverHighWater /\ NewTotal <= HardLimit
  /\ strand' = Tail(strand)
  /\ queue' = Append(queue, Head(strand).frame)
  /\ pending' = NewTotal
  /\ WriteIfIdle(queue')
  /\ UNCHANGED <<stopped, kickPending, sock, peer, wire, reader, drops, sends,
                 ctls>>

(* The task kick_notify_and_close posts. *)

MutKickBytes == pending + KickSize

KickBytes == KickSize

RunKick ==
  /\ IsNext("kick")
  /\ strand' = Tail(strand)
  /\ IF stopped \/ kickPending
     THEN UNCHANGED <<queue, pending, writing, kickPending, flight>>
     ELSE /\ kickPending' = TRUE
          /\ queue' = <<KickFrame>>
          /\ pending' = KickBytes
          /\ WriteIfIdle(queue')
  /\ UNCHANGED <<stopped, sock, peer, wire, reader, drops, sends, ctls>>

(* The task stop posts. *)

MutStopIgnored == stopped \/ kickPending

StopIgnored == stopped

RunStop ==
  /\ IsNext("stop")
  /\ strand' = Tail(strand)
  /\ IF StopIgnored
     THEN UNCHANGED <<stopped, sock>>
     ELSE stopped' = TRUE /\ sock' = "closed"
  /\ UNCHANGED <<queue, pending, writing, kickPending, peer, flight, wire,
                 reader, drops, sends, ctls>>

(* The completion handler do_write binds to the strand. *)

MutAfterFailure == strand

AfterFailure == Append(strand, Stop)

WriteFailed ==
  /\ flight # <<>> /\ Head(flight).st = "failed"
  /\ writing' = FALSE
  /\ flight' = Tail(flight)
  /\ strand' = AfterFailure
  /\ UNCHANGED <<queue, pending, stopped, kickPending, sock, peer, wire, reader,
                 drops, sends, ctls>>

MutPopFront(q) == q

PopFront(q) == IF q = <<>> THEN q ELSE Tail(q)

MutReleased(f) == pending - f.size

Released(f) == IF pending >= f.size THEN pending - f.size ELSE 0

MutWriteNext(q) == writing' = FALSE /\ flight' = Tail(flight)

WriteNext(q) == do_write(q, FALSE, Tail(flight))

WriteDone ==
  /\ flight # <<>> /\ Head(flight).st = "done"
  /\ queue' = PopFront(queue)
  /\ pending' = Released(Head(flight).frame)
  /\ IF kickPending /\ queue' = <<>>
     THEN /\ kickPending' = FALSE
          /\ stopped' = TRUE
          /\ sock' = "closed"
          /\ writing' = FALSE
          /\ flight' = Tail(flight)
     ELSE /\ WriteNext(queue')
          /\ UNCHANGED <<kickPending, stopped, sock>>
  /\ UNCHANGED <<strand, peer, wire, reader, drops, sends, ctls>>

Strand == SendIgnored \/ SendRefused \/ SendAccepted \/ RunKick \/ RunStop
          \/ WriteFailed \/ WriteDone

-----------------------------------------------------------------------------
(* The connection under async_write (external).  A frame is taken in at    *)
(* least two parts, so that it can be cut short in between.                *)

OnWire(id, st) == [id |-> id, st |-> st]

TakeSome ==
  /\ flight # <<>> /\ Head(flight).st = "begun"
  /\ sock = "open" /\ peer = "up"
  /\ flight' = [flight EXCEPT ![1].st = "partial"]
  /\ wire' = Append(wire, OnWire(Head(flight).frame.id, "partial"))
  /\ UNCHANGED <<strand, queue, pending, writing, stopped, kickPending, sock,
                 peer, reader, drops, sends, ctls>>

TakeRest ==
  /\ flight # <<>> /\ Head(flight).st = "partial"
  /\ sock = "open" /\ peer = "up"
  /\ flight' = [flight EXCEPT ![1].st = "done"]
  /\ wire' = [wire EXCEPT ![Len(wire)].st = "whole"]
  /\ UNCHANGED <<strand, queue, pending, writing, stopped, kickPending, sock,
                 peer, reader, drops, sends, ctls>>

(* A write fails once the socket is closed, its operations were cancelled  *)
(* or the peer reset the connection.                                       *)
Abort ==
  /\ flight # <<>> /\ Head(flight).st \in {"begun", "partial"}
  /\ sock = "closed" \/ peer = "reset" \/ Head(flight).cancelled
  /\ flight' = [flight EXCEPT ![1].st = "failed"]
  /\ UNCHANGED <<strand, queue, pending, writing, stopped, kickPending, sock,
                 peer, wire, reader, drops, sends, ctls>>

PeerReset ==
  /\ peer = "up"
  /\ peer' = "reset"
  /\ UNCHANGED <<strand, queue, pending, writing, stopped, kickPending, sock,
                 flight, wire, reader, drops, sends, ctls>>

-----------------------------------------------------------------------------
(* The read loop, off the strand.                                          *)

(* The read timer cancels every operation of the socket, the write in      *)
(* flight included.  The loop leaves, unless the read completed between    *)
(* the timer's check of done and its cancel.                               *)
ReadTimeout ==
  /\ reader = "reading"
  /\ reader' \in {"reading", "leaving"}
  /\ flight' = [i \in 1..Len(flight) |-> [flight[i] EXCEPT !.cancelled = TRUE]]
  /\ UNCHANGED <<strand, queue, pending, writing, stopped, kickPending, sock,
                 peer, wire, drops, sends, ctls>>

(* The loop leaves on end of file or a read error (nothing posted), on a   *)
(* bad header or an oversized body (stop) or on the idle limit (KICK).     *)
ReadBreak ==
  /\ reader = "reading"
  /\ reader' = "leaving"
  /\ \/ strand' = strand
     \/ strand' = Append(strand, Stop)
     \/ strand' = Append(strand, Kick)
  /\ UNCHANGED <<queue, pending, writing, stopped, kickPending, sock, peer,
                 flight, wire, drops, sends, ctls>>

(* It also leaves when it sees stopped_ or its read finds the socket       *)
(* closed or the connection reset.                                         *)
SeeClosed ==
  /\ reader = "reading"
  /\ stopped \/ sock = "closed" \/ peer = "reset"
  /\ reader' = "leaving"
  /\ UNCHANGED <<strand, queue, pending, writing, stopped, kickPending, sock,
                 peer, flight, wire, drops, sends, ctls>>

(* After the loop: the socket is closed directly; stopped_ is not set. *)
LoopEnd ==
  /\ reader = "leaving"
  /\ reader' = "done"
  /\ sock' = "closed"
  /\ UNCHANGED <<strand, queue, pending, writing, stopped, kickPending, peer,
                 flight, wire, drops, sends, ctls>>

Callers == (\E sz \in Sizes : send_frame(sz)) \/ kick_notify_and_close \/ stop
Connection == TakeSome \/ TakeRest \/ Abort \/ PeerReset
ReadLoop == ReadTimeout \/ ReadBreak \/ SeeClosed \/ LoopEnd

Next == Callers \/ Strand \/ Connection \/ ReadLoop

Spec == Init /\ [][Next]_vars

(* The io threads run every posted handler, a closed or cancelled          *)
(* operation completes, and a coroutine whose read returned is resumed.    *)
ServerFairness ==
  /\ WF_vars(Strand)
  /\ WF_vars(Abort)
  /\ WF_vars(SeeClosed)
  /\ WF_vars(LoopEnd)

ServerFairSpec == Spec /\ ServerFairness

(* The peer reads what it is sent, so a write makes progress; a condition  *)
(* of the properties that need it, not of the server.                      *)
PeerReads == WF_vars(TakeSome) /\ WF_vars(TakeRest)

-----------------------------------------------------------------------------
(* Properties.                                                             *)

StopPosted == \E i \in 1..Len(strand) : strand[i].op = "stop"

(* async_write forbids a second write on a stream before the first one's   *)
(* handler ran: do_write is only ever called with none outstanding, and    *)
(* writing_ says exactly whether one is.                                   *)
OneWrite == Len(flight) <= 1 /\ (writing <=> flight # <<>>)

(* The frame a completion handler pops (main.cpp:278, unconditionally) is  *)
(* the frame it wrote, unless a kick replaced the queue under the write.   *)
PopsWhatItWrote ==
  flight # <<>> /\ ~kickPending =>
    queue # <<>> /\ Head(queue) = Head(flight).frame

(* No lost wake-up: frames wait in queue_ only behind a write in flight or *)
(* a stop that is already posted, also after a failed write, which leaves  *)
(* its frame at the front of the queue.                                    *)
NoStall == queue # <<>> /\ ~stopped => writing \/ StopPosted

Bytes(q) == Total([i \in 1..Len(q) |-> q[i].size])

(* pending_bytes_, which decides whether a frame is dropped, is the number *)
(* of bytes in queue_ for as long as the session lives, through clears,    *)
(* pops under a replaced queue and failed writes.                          *)
Accounted == ~stopped => pending = Bytes(queue)

(* The queue never holds more than high_water_bytes (the hard limit only   *)
(* decides what is done with the frame in hand) until a kick replaces it.  *)
WithinHighWater == ~kickPending /\ ~stopped => pending <= HighWater

(* From the moment a kick runs, nothing but the KICK waits to be written,  *)
(* whatever is posted after it.                                            *)
KickDrains == kickPending => queue = <<KickFrame>>

(* The KICK is the last frame of a connection. *)
KickIsLast == \A i \in 1..Len(wire) : wire[i].id = 0 => i = Len(wire)

(* Complete frames reach the peer in the order of the send_frame calls,    *)
(* none twice (Test 6 of test_user), also when a failed write leaves its   *)
(* frame in the queue and a later task writes it again.                    *)
InOrder ==
  \A i, j \in 1..Len(wire) :
    i < j /\ wire[i].st = "whole" /\ wire[j].id # 0 => wire[i].id < wire[j].id

(* A frame cut short on the wire is the frame being written now, or the    *)
(* session is ending: the bytes after a torn frame are never a live stream.*)
TornIsFatal ==
  \A i \in 1..Len(wire) :
    wire[i].st = "partial" =>
      \/ i = Len(wire) /\ flight # <<>> /\ Head(flight).frame.id = wire[i].id
      \/ stopped \/ StopPosted

SendsIn(st) == Total([i \in 1..Len(st) |-> IF st[i].op = "send" THEN 1 ELSE 0])
WholesIn(w) == Total([i \in 1..Len(w) |-> IF w[i].st = "whole" THEN 1 ELSE 0])

(* On a session neither kicked nor stopped every send_frame call is        *)
(* accounted for: still posted, queued, completely written, or counted in  *)
(* the drops metric.                                                       *)
Conserved ==
  ~stopped /\ ~kickPending =>
    sends = SendsIn(strand) + Len(queue) + drops + WholesIn(wire)
            - (IF flight # <<>> /\ Head(flight).st = "done" THEN 1 ELSE 0)

(* The outbox a session implements: frames wait while they are posted or   *)
(* queued and not yet completely written; a kick keeps only the frame in   *)
(* flight; nothing waits behind a closed socket.                           *)
Unwritten == flight # <<>> /\ Head(flight).st \in {"begun", "partial"}

Queued ==
  {queue[i].id : i \in IF flight # <<>> /\ Head(flight).st = "done"
                       THEN 2..Len(queue) ELSE 1..Len(queue)}
Posted == {strand[i].frame.id : i \in {j \in 1..Len(strand) : strand[j].op = "send"}}
InFlight == IF Unwritten THEN {Head(flight).frame.id} \ {0} ELSE {}

Waiting ==
  IF sock = "closed" THEN {}
  ELSE IF kickPending THEN InFlight
  ELSE Queued \cup Posted

Delivered == {wire[i].id : i \in {j \in 1..Len(wire) : wire[j].st = "whole"}}

Status ==
  IF sock = "closed" THEN "closed" ELSE IF kickPending THEN "kicked" ELSE "open"

Box == INSTANCE Outbox WITH posted <- sends, waiting <- Waiting,
                            delivered <- Delivered, status <- Status

(* The session implements the outbox: through failed writes, retries,      *)
(* refusals, kicks under a write and closes behind the strand's back no    *)
(* frame overtakes another, none is written twice, and nothing follows the *)
(* KICK.                                                                   *)
ImplementsOutbox == Box!Spec

(* A posted stop closes the socket, even when the peer reads nothing and a *)
(* write is in flight.                                                     *)
StopCloses == StopPosted ~> sock = "closed"

(* A queued frame is written or given up with the session: the completion  *)
(* handlers keep the queue moving as long as the peer reads.               *)
QueueMoves == PeerReads => (queue # <<>> ~> (queue = <<>> \/ stopped))

(* A kicked session whose peer reads is closed (sections 9 and 10 of       *)
(* test_admin.cpp kick a user and expect its connection to be dead).       *)
KickCloses == PeerReads => (kickPending ~> sock = "closed")

(* "服务端发 KICK 再关": the path that closes a kicked session after the   *)
(* last write has sent it the KICK.                                        *)
KickedIsTold ==
  [][kickPending /\ ~kickPending' =>
       wire # <<>> /\ wire[Len(wire)] = OnWire(0, "whole")]_vars

=============================================================================
