---------------------------- MODULE SessionProofs ----------------------------
(* The write side of a session keeps its invariants for every              *)
(* configuration, every frame size and every number of calls.              *)
EXTENDS Session, TLAPS

-----------------------------------------------------------------------------
(* Types of the parts of the state the steps take apart.                   *)

LEMMA TaskTypes == KickFrame \in Frame /\ Stop \in Task /\ Kick \in Task
  BY ConfigAssumption DEF KickFrame, Frame, Stop, Kick, Task

LEMMA StrandHead ==
  ASSUME DataTypes, strand # <<>>
  PROVE  /\ Tail(strand) \in Seq(Task)
         /\ Head(strand).frame \in Frame
         /\ Head(strand).frame.size \in Nat
<1>1. Head(strand) \in Task /\ Tail(strand) \in Seq(Task)
  BY DEF DataTypes
<1> QED
  BY <1>1 DEF Task, Frame

LEMMA FlightHead ==
  ASSUME DataTypes, flight # <<>>
  PROVE  /\ Tail(flight) \in Seq(Write)
         /\ Head(flight).frame.id \in Nat
         /\ Head(flight).frame.size \in Nat
<1>1. Head(flight) \in Write /\ Tail(flight) \in Seq(Write)
  BY DEF DataTypes
<1> QED
  BY <1>1 DEF Write, Frame

LEMMA FlightStep ==
  ASSUME DataTypes, flight # <<>>, NEW st \in {"begun", "partial", "done", "failed"}
  PROVE  [flight EXCEPT ![1].st = st] \in Seq(Write)
<1>1. flight[1] \in Write
  BY DEF DataTypes
<1>2. [flight[1] EXCEPT !.st = st] \in Write
  BY <1>1 DEF Write
<1> QED
  BY <1>2 DEF DataTypes

LEMMA WireStep ==
  ASSUME DataTypes, TakeRest
  PROVE  wire' \in Seq(Chunk)
<1>1. CASE wire = <<>>
  <2>1. wire' = <<>>
    BY <1>1 DEF TakeRest
  <2> QED
    BY <2>1
<1>2. CASE wire # <<>>
  <2> DEFINE n == Len(wire)
             whole == [wire[n] EXCEPT !.st = "whole"]
  <2>1. n \in 1..n /\ wire[n] \in Chunk
    BY <1>2 DEF DataTypes
  <2>2. whole \in Chunk
    BY <2>1 DEF Chunk
  <2>3. wire' = [wire EXCEPT ![n] = whole]
    BY DEF TakeRest
  <2> HIDE DEF whole
  <2> QED
    BY <2>1, <2>2, <2>3 DEF DataTypes
<1> QED
  BY <1>1, <1>2

LEMMA DoWriteTypes ==
  ASSUME NEW q \in Seq(Frame), NEW w, NEW fl \in Seq(Write), do_write(q, w, fl)
  PROVE  flight' \in Seq(Write)
<1>1. ASSUME q # <<>> PROVE Begun(Head(q)) \in Write
  <2>1. Head(q) \in Frame
    BY <1>1
  <2> QED
    BY <2>1 DEF Begun, Write
<1> QED
  BY <1>1 DEF do_write

-----------------------------------------------------------------------------
(* Type correctness.                                                       *)

LEMMA FlagTypesStep == TypeOK /\ [Next]_vars => FlagTypes'
<1> SUFFICES ASSUME TypeOK, [Next]_vars PROVE FlagTypes'
  OBVIOUS
<1> USE DEF TypeOK, FlagTypes
<1>1. CASE Callers
  BY <1>1 DEF Callers, send_frame, kick_notify_and_close, stop
<1>2. CASE SendIgnored \/ SendRefused \/ SendAccepted
  BY <1>2 DEF SendIgnored, SendRefused, SendAccepted, WriteIfIdle, do_write
<1>3. CASE RunKick
  BY <1>3 DEF RunKick, WriteIfIdle, do_write
<1>4. CASE RunStop
  BY <1>4 DEF RunStop, StopIgnored
<1>5. CASE WriteFailed \/ WriteDone
  BY <1>5 DEF WriteFailed, WriteDone, WriteNext, do_write
<1>6. CASE Connection
  BY <1>6 DEF Connection, TakeSome, TakeRest, Abort, PeerReset
<1>7. CASE ReadLoop
  BY <1>7 DEF ReadLoop, ReadTimeout, ReadBreak, SeeClosed, LoopEnd
<1>8. CASE UNCHANGED vars
  BY <1>8 DEF vars
<1> QED
  BY <1>1, <1>2, <1>3, <1>4, <1>5, <1>6, <1>7, <1>8 DEF Next, Strand

LEMMA DataTypesStep == TypeOK /\ [Next]_vars => DataTypes'
<1> SUFFICES ASSUME DataTypes, [Next]_vars PROVE DataTypes'
  BY DEF TypeOK
<1>1. ASSUME NEW sz \in Sizes, send_frame(sz) PROVE DataTypes'
  BY <1>1, ConfigAssumption DEF DataTypes, send_frame, Send, Task, Frame
<1>2. CASE kick_notify_and_close
  BY <1>2, TaskTypes DEF DataTypes, kick_notify_and_close
<1>3. CASE stop
  BY <1>3, TaskTypes DEF DataTypes, stop
<1>4. CASE SendIgnored
  BY <1>4, StrandHead DEF DataTypes, SendIgnored, IsNext
<1>5. CASE SendRefused
  BY <1>5, StrandHead, TaskTypes DEF DataTypes, SendRefused, IsNext, Drops
<1>6. CASE SendAccepted
  <2>1. queue' \in Seq(Frame) /\ pending' \in Nat /\ strand' \in Seq(Task)
    BY <1>6, StrandHead DEF DataTypes, SendAccepted, IsNext, NewTotal
  <2>2. flight' \in Seq(Write)
    BY <1>6, <2>1, DoWriteTypes DEF DataTypes, SendAccepted, WriteIfIdle
  <2> QED
    BY <1>6, <2>1, <2>2 DEF DataTypes, SendAccepted
<1>7. CASE RunKick
  <2>1. CASE stopped \/ kickPending
    BY <1>7, <2>1, StrandHead DEF DataTypes, RunKick, IsNext
  <2>2. CASE ~(stopped \/ kickPending)
    <3>1. <<KickFrame>> \in Seq(Frame)
      BY TaskTypes
    <3>2. queue' \in Seq(Frame) /\ pending' \in Nat
      BY <1>7, <2>2, <3>1, ConfigAssumption DEF RunKick, KickBytes
    <3>3. flight' \in Seq(Write)
      BY <1>7, <2>2, <3>2, DoWriteTypes DEF DataTypes, RunKick, WriteIfIdle
    <3> QED
      BY <1>7, <3>2, <3>3, StrandHead DEF DataTypes, RunKick, IsNext
  <2> QED
    BY <2>1, <2>2
<1>8. CASE RunStop
  BY <1>8, StrandHead DEF DataTypes, RunStop, IsNext
<1>9. CASE WriteFailed
  BY <1>9, FlightHead, TaskTypes DEF DataTypes, WriteFailed, AfterFailure
<1>10. CASE WriteDone
  <2>1. queue' \in Seq(Frame) /\ pending' \in Nat
    BY <1>10, FlightHead DEF DataTypes, WriteDone, PopFront, Released
  <2>2. flight' \in Seq(Write)
    BY <1>10, <2>1, DoWriteTypes, FlightHead DEF DataTypes, WriteDone, WriteNext
  <2> QED
    BY <1>10, <2>1, <2>2 DEF DataTypes, WriteDone
<1>11. CASE TakeSome
  <2>1. OnWire(Head(flight).frame.id, "partial") \in Chunk
    BY <1>11, FlightHead DEF TakeSome, OnWire, Chunk
  <2> QED
    BY <1>11, <2>1, FlightStep DEF DataTypes, TakeSome
<1>12. CASE TakeRest
  BY <1>12, WireStep, FlightStep DEF DataTypes, TakeRest
<1>13. CASE Abort
  BY <1>13, FlightStep DEF DataTypes, Abort
<1>14. CASE PeerReset
  BY <1>14 DEF DataTypes, PeerReset
<1>15. CASE ReadTimeout
  <2>1. ASSUME NEW i \in 1..Len(flight) PROVE [flight[i] EXCEPT !.cancelled = TRUE] \in Write
    <3>1. flight[i] \in Write
      BY DEF DataTypes
    <3> QED
      BY <3>1 DEF Write
  <2>2. flight' \in Seq(Write)
    BY <1>15, <2>1 DEF DataTypes, ReadTimeout
  <2> QED
    BY <1>15, <2>2 DEF DataTypes, ReadTimeout
<1>16. CASE ReadBreak
  <2>1. strand \in Seq(Task) /\ Append(strand, Stop) \in Seq(Task) /\ Append(strand, Kick) \in Seq(Task)
    BY TaskTypes DEF DataTypes
  <2> QED
    BY <1>16, <2>1 DEF DataTypes, ReadBreak
<1>17. CASE SeeClosed
  BY <1>17 DEF DataTypes, SeeClosed
<1>18. CASE LoopEnd
  BY <1>18 DEF DataTypes, LoopEnd
<1>19. CASE UNCHANGED vars
  BY <1>19 DEF DataTypes, vars
<1> QED
  BY <1>1, <1>2, <1>3, <1>4, <1>5, <1>6, <1>7, <1>8, <1>9, <1>10, <1>11,
     <1>12, <1>13, <1>14, <1>15, <1>16, <1>17, <1>18, <1>19
     DEF Next, Callers, Strand, Connection, ReadLoop

(* The fields of a session keep their types in every step; in particular   *)
(* pending_bytes_ never goes below zero, which the guarded subtraction of  *)
(* main.cpp:279 ensures when a kick has replaced the queue under a write.  *)
THEOREM TypeCorrect == Spec => []TypeOK
<1>1. Init => TypeOK
  <2>1. Init => FlagTypes
    BY DEF Init, FlagTypes
  <2>2. Init => DataTypes
    BY DEF Init, DataTypes
  <2> QED
    BY <2>1, <2>2 DEF TypeOK
<1>2. TypeOK /\ [Next]_vars => TypeOK'
  BY FlagTypesStep, DataTypesStep DEF TypeOK
<1> QED
  BY <1>1, <1>2, PTL DEF Spec


-----------------------------------------------------------------------------
(* The write discipline.                                                   *)

(* With at most one write in flight, its handler leaves none. *)
LEMMA LastWrite ==
  ASSUME DataTypes, OneWrite, flight # <<>>
  PROVE  Tail(flight) = <<>>
  BY DEF DataTypes, OneWrite

(* do_write, called when no write is in flight, begins at most one, of the *)
(* frame at the front, and begins one unless it must not.                  *)
LEMMA DoWriteFromIdle ==
  ASSUME NEW q \in Seq(Frame), do_write(q, FALSE, <<>>)
  PROVE  /\ Len(flight') <= 1
         /\ writing' <=> flight' # <<>>
         /\ flight' # <<>> => q # <<>> /\ Head(flight').frame = Head(q)
         /\ q # <<>> /\ ~stopped => writing'
<1>1. CASE q = <<>> \/ stopped
  BY <1>1 DEF do_write
<1>2. CASE ~(q = <<>> \/ stopped)
  <2>1. flight' = <<Begun(Head(q))>> /\ writing' = TRUE
    BY <1>2 DEF do_write
  <2> QED
    BY <1>2, <2>1 DEF Begun
<1> QED
  BY <1>1, <1>2

LEMMA OneWriteStep == TypeOK /\ OneWrite /\ [Next]_vars => OneWrite'
<1> SUFFICES ASSUME TypeOK, OneWrite, [Next]_vars PROVE OneWrite'
  OBVIOUS
<1>0. DataTypes /\ FlagTypes /\ DataTypes'
  BY DataTypesStep DEF TypeOK
<1>1. CASE UNCHANGED <<writing, flight>>
  BY <1>1 DEF OneWrite
<1>2. ASSUME ~writing, WriteIfIdle(queue') PROVE OneWrite'
  <2>1. flight = <<>> /\ writing = FALSE
    BY <1>0, <1>2 DEF OneWrite, FlagTypes
  <2>2. do_write(queue', FALSE, <<>>)
    BY <1>2, <2>1 DEF WriteIfIdle
  <2> QED
    BY <1>0, <2>2, DoWriteFromIdle DEF OneWrite, DataTypes
<1>3. CASE SendAccepted \/ RunKick
  BY <1>1, <1>2, <1>3 DEF SendAccepted, RunKick, WriteIfIdle
<1>4. CASE WriteFailed
  <2>1. flight' = <<>> /\ writing' = FALSE
    BY <1>0, <1>4, LastWrite DEF WriteFailed
  <2> QED
    BY <2>1 DEF OneWrite
<1>5. CASE WriteDone
  <2>1. Tail(flight) = <<>>
    BY <1>0, <1>5, LastWrite DEF WriteDone
  <2>2. CASE kickPending /\ queue' = <<>>
    <3>1. flight' = <<>> /\ writing' = FALSE
      BY <1>5, <2>1, <2>2 DEF WriteDone
    <3> QED
      BY <3>1 DEF OneWrite
  <2>3. CASE ~(kickPending /\ queue' = <<>>)
    <3>1. do_write(queue', FALSE, <<>>)
      BY <1>5, <2>1, <2>3 DEF WriteDone, WriteNext
    <3> QED
      BY <1>0, <3>1, DoWriteFromIdle DEF OneWrite, DataTypes
  <2> QED
    BY <2>2, <2>3
<1>6. ASSUME Len(flight') = Len(flight), flight # <<>>, UNCHANGED writing PROVE OneWrite'
  BY <1>0, <1>6 DEF OneWrite, DataTypes
<1>7. CASE TakeSome \/ TakeRest \/ Abort
  BY <1>0, <1>6, <1>7 DEF DataTypes, TakeSome, TakeRest, Abort
<1>8. CASE ReadTimeout
  <2>1. Len(flight') = Len(flight) /\ UNCHANGED writing
    BY <1>0, <1>8 DEF DataTypes, ReadTimeout
  <2> QED
    BY <1>0, <2>1 DEF OneWrite, DataTypes
<1> QED
  BY <1>1, <1>3, <1>4, <1>5, <1>7, <1>8
     DEF Next, Callers, Strand, Connection, ReadLoop, send_frame,
         kick_notify_and_close, stop, SendIgnored, SendRefused, RunStop,
         PeerReset, ReadBreak, SeeClosed, LoopEnd, vars


LEMMA KickDrainsStep == TypeOK /\ KickDrains /\ [Next]_vars => KickDrains'
<1> SUFFICES ASSUME TypeOK, KickDrains, [Next]_vars PROVE KickDrains'
  OBVIOUS
<1>1. CASE UNCHANGED <<queue, kickPending>>
  BY <1>1 DEF KickDrains
<1>2. CASE SendAccepted
  BY <1>2 DEF KickDrains, SendAccepted, Accepts
<1>3. CASE RunKick
  BY <1>3 DEF KickDrains, RunKick
<1>4. CASE WriteDone
  <2>1. CASE kickPending
    <3>1. Tail(<<KickFrame>>) = <<>>
      OBVIOUS
    <3>2. queue = <<KickFrame>>
      BY <2>1 DEF KickDrains
    <3>3. queue' = Tail(queue)
      BY <1>4, <3>2 DEF WriteDone, PopFront
    <3> QED
      BY <1>4, <2>1, <3>1, <3>2, <3>3 DEF KickDrains, WriteDone
  <2>2. CASE ~kickPending
    BY <1>4, <2>2 DEF KickDrains, WriteDone
  <2> QED
    BY <2>1, <2>2
<1> QED
  BY <1>1, <1>2, <1>3, <1>4
     DEF Next, Callers, Strand, Connection, ReadLoop, send_frame,
         kick_notify_and_close, stop, SendIgnored, SendRefused, RunStop,
         WriteFailed, TakeSome, TakeRest, Abort, PeerReset, ReadTimeout,
         ReadBreak, SeeClosed, LoopEnd, vars

LEMMA HighWaterStep == TypeOK /\ WithinHighWater /\ [Next]_vars => WithinHighWater'
<1> SUFFICES ASSUME TypeOK, WithinHighWater, [Next]_vars PROVE WithinHighWater'
  OBVIOUS
<1>0. DataTypes
  BY DEF TypeOK
<1>1. CASE UNCHANGED <<pending, kickPending, stopped>>
  BY <1>1 DEF WithinHighWater
<1>2. CASE SendAccepted
  <2>1. pending' <= HighWater
    BY <1>0, <1>2, StrandHead, ConfigAssumption
       DEF DataTypes, SendAccepted, IsNext, OverHighWater, NewTotal
  <2> QED
    BY <2>1 DEF WithinHighWater
<1>3. CASE RunKick
  BY <1>1, <1>3 DEF WithinHighWater, RunKick
<1>4. CASE RunStop
  BY <1>1, <1>4 DEF WithinHighWater, RunStop, StopIgnored
<1>5. CASE WriteDone
  <2>1. pending' <= pending
    BY <1>0, <1>5, FlightHead DEF DataTypes, WriteDone, Released
  <2>2. CASE kickPending /\ queue' = <<>>
    BY <1>5, <2>2 DEF WithinHighWater, WriteDone
  <2>3. CASE ~(kickPending /\ queue' = <<>>)
    <3>1. UNCHANGED <<kickPending, stopped>>
      BY <1>5, <2>3 DEF WriteDone
    <3>2. pending' \in Nat
      BY DataTypesStep DEF TypeOK, DataTypes
    <3> QED
      BY <1>0, <2>1, <3>1, <3>2, ConfigAssumption DEF WithinHighWater, DataTypes
  <2> QED
    BY <2>2, <2>3
<1> QED
  BY <1>1, <1>2, <1>3, <1>4, <1>5
     DEF Next, Callers, Strand, Connection, ReadLoop, send_frame,
         kick_notify_and_close, stop, SendIgnored, SendRefused,
         WriteFailed, TakeSome, TakeRest, Abort, PeerReset, ReadTimeout,
         ReadBreak, SeeClosed, LoopEnd, vars

(* Every step of the connection and of the read loop keeps the frame of    *)
(* the write in flight.                                                    *)
LEMMA SameFrameInFlight ==
  ASSUME DataTypes, flight # <<>>, TakeSome \/ TakeRest \/ Abort \/ ReadTimeout
  PROVE  flight' # <<>> /\ Head(flight').frame = Head(flight).frame
<1>1. flight \in Seq(Write) /\ Len(flight) >= 1 /\ flight[1] \in Write
  BY DEF DataTypes
<1>2. ASSUME NEW st \in {"partial", "done", "failed"},
             flight' = [flight EXCEPT ![1].st = st]
      PROVE  flight' # <<>> /\ Head(flight').frame = Head(flight).frame
  <2>1. Len(flight') = Len(flight) /\ flight'[1] = [flight[1] EXCEPT !.st = st]
    BY <1>1, <1>2
  <2>2. flight'[1].frame = flight[1].frame
    BY <1>1, <2>1 DEF Write
  <2>3. flight' \in Seq(Write)
    BY <1>2, FlightStep
  <2>4. Head(flight') = flight'[1] /\ Head(flight) = flight[1] /\ flight' # <<>>
    BY <1>1, <2>1, <2>3
  <2> QED
    BY <2>2, <2>4
<1>3. CASE TakeSome \/ TakeRest \/ Abort
  BY <1>2, <1>3 DEF TakeSome, TakeRest, Abort
<1>4. CASE ReadTimeout
  <2>1. Len(flight') = Len(flight) /\ flight'[1] = [flight[1] EXCEPT !.cancelled = TRUE]
    BY <1>1, <1>4 DEF ReadTimeout
  <2>2. flight'[1].frame = flight[1].frame
    BY <1>1, <2>1 DEF Write
  <2> QED
    BY <1>1, <1>4, <2>1, <2>2 DEF ReadTimeout
<1> QED
  BY <1>3, <1>4

LEMMA PopsStep ==
  TypeOK /\ OneWrite /\ PopsWhatItWrote /\ KickDrains /\ [Next]_vars => PopsWhatItWrote'
<1> SUFFICES ASSUME TypeOK, OneWrite, PopsWhatItWrote, KickDrains, [Next]_vars
             PROVE  PopsWhatItWrote'
  OBVIOUS
<1>0. DataTypes /\ FlagTypes /\ DataTypes'
  BY DataTypesStep DEF TypeOK
<1>1. CASE UNCHANGED <<queue, flight, kickPending>>
  BY <1>1 DEF PopsWhatItWrote
<1>2. CASE SendAccepted
  <2>1. CASE writing
    <3>1. UNCHANGED <<flight, kickPending>> /\ queue' = Append(queue, Head(strand).frame)
      BY <1>2, <2>1 DEF SendAccepted, WriteIfIdle
    <3> QED
      BY <1>0, <3>1 DEF PopsWhatItWrote, DataTypes
  <2>2. CASE ~writing
    <3>1. flight = <<>> /\ writing = FALSE
      BY <1>0, <2>2 DEF OneWrite, FlagTypes
    <3>2. do_write(queue', FALSE, <<>>)
      BY <1>2, <2>2, <3>1 DEF SendAccepted, WriteIfIdle
    <3> QED
      BY <1>0, <3>2, DoWriteFromIdle DEF PopsWhatItWrote, DataTypes
  <2> QED
    BY <2>1, <2>2
<1>3. CASE RunKick
  <2>1. CASE stopped \/ kickPending
    BY <1>1, <1>3, <2>1 DEF RunKick
  <2>2. CASE ~(stopped \/ kickPending)
    BY <1>3, <2>2 DEF RunKick, PopsWhatItWrote
  <2> QED
    BY <2>1, <2>2
<1>4. CASE WriteFailed
  <2>1. flight' = <<>>
    BY <1>0, <1>4, LastWrite DEF WriteFailed
  <2> QED
    BY <2>1 DEF PopsWhatItWrote
<1>5. CASE WriteDone
  <2>1. Tail(flight) = <<>>
    BY <1>0, <1>5, LastWrite DEF WriteDone
  <2>2. CASE kickPending /\ queue' = <<>>
    BY <1>5, <2>1, <2>2 DEF WriteDone, PopsWhatItWrote
  <2>3. CASE ~(kickPending /\ queue' = <<>>)
    <3>1. do_write(queue', FALSE, <<>>)
      BY <1>5, <2>1, <2>3 DEF WriteDone, WriteNext
    <3> QED
      BY <1>0, <3>1, DoWriteFromIdle DEF PopsWhatItWrote, DataTypes
  <2> QED
    BY <2>2, <2>3
<1>6. CASE TakeSome \/ TakeRest \/ Abort \/ ReadTimeout
  <2>1. UNCHANGED <<queue, kickPending>>
    BY <1>6 DEF TakeSome, TakeRest, Abort, ReadTimeout
  <2>2. CASE flight = <<>>
    <3>1. flight' = <<>>
      BY <1>0, <1>6, <2>2 DEF TakeSome, TakeRest, Abort, ReadTimeout, DataTypes
    <3> QED
      BY <3>1 DEF PopsWhatItWrote
  <2>3. CASE flight # <<>>
    BY <1>0, <1>6, <2>1, <2>3, SameFrameInFlight DEF PopsWhatItWrote
  <2> QED
    BY <2>2, <2>3
<1> QED
  BY <1>1, <1>2, <1>3, <1>4, <1>5, <1>6
     DEF Next, Callers, Strand, Connection, ReadLoop, send_frame,
         kick_notify_and_close, stop, SendIgnored, SendRefused, RunStop,
         PeerReset, ReadBreak, SeeClosed, LoopEnd, vars

LEMMA NoStallStep == TypeOK /\ OneWrite /\ NoStall /\ [Next]_vars => NoStall'
<1> SUFFICES ASSUME TypeOK, OneWrite, NoStall, [Next]_vars PROVE NoStall'
  OBVIOUS
<1>0. DataTypes /\ FlagTypes /\ DataTypes'
  BY DataTypesStep DEF TypeOK
(* A posted stop stays posted until it is at the front and runs. *)
<1>1. ASSUME NEW t, strand' = Append(strand, t), StopPosted PROVE StopPosted'
  BY <1>0, <1>1 DEF StopPosted, DataTypes
<1>2. ASSUME strand # <<>>, Head(strand).op # "stop", strand' = Tail(strand), StopPosted
      PROVE  StopPosted'
  <2>1. PICK i \in 1..Len(strand) : strand[i].op = "stop"
    BY <1>2 DEF StopPosted
  <2>2. i # 1
    BY <1>0, <1>2, <2>1 DEF DataTypes
  <2>3. i - 1 \in 1..Len(Tail(strand)) /\ Tail(strand)[i - 1] = strand[i]
    BY <1>0, <1>2, <2>1, <2>2 DEF DataTypes
  <2> QED
    BY <1>2, <2>1, <2>3 DEF StopPosted
<1>3. ASSUME NEW s \in Seq(Task), strand' = Append(s, Stop) PROVE StopPosted'
  <2>1. Len(strand') \in 1..Len(strand') /\ strand'[Len(strand')] = Stop
    BY <1>3, TaskTypes
  <2> QED
    BY <2>1 DEF StopPosted, Stop
<1>4. CASE UNCHANGED <<strand, queue, stopped, writing>>
  BY <1>4 DEF NoStall, StopPosted
<1>5. ASSUME NEW t, strand' = Append(strand, t), UNCHANGED <<queue, stopped, writing>>
      PROVE  NoStall'
  BY <1>1, <1>5 DEF NoStall
<1>6. CASE Callers
  BY <1>5, <1>6 DEF Callers, send_frame, kick_notify_and_close, stop
<1>7. CASE SendIgnored
  <2>1. strand # <<>> /\ Head(strand).op # "stop" /\ strand' = Tail(strand)
        /\ UNCHANGED <<queue, stopped, writing>>
    BY <1>7 DEF SendIgnored, IsNext
  <2> QED
    BY <1>2, <2>1 DEF NoStall
<1>8. CASE SendRefused
  <2>1. strand # <<>> /\ Head(strand).op # "stop" /\ UNCHANGED <<queue, stopped, writing>>
    BY <1>8 DEF SendRefused, IsNext
  <2>2. CASE strand' = Tail(strand)
    BY <1>2, <2>1, <2>2 DEF NoStall
  <2>3. CASE strand' = Append(Tail(strand), Stop)
    BY <1>0, <1>3, <2>1, <2>3, StrandHead DEF NoStall
  <2> QED
    BY <1>8, <2>2, <2>3 DEF SendRefused
(* Where a frame is queued a write is in flight, or one begins. *)
<1>9. ASSUME WriteIfIdle(queue'), UNCHANGED stopped PROVE NoStall'
  <2>1. CASE writing
    BY <1>9, <2>1 DEF WriteIfIdle, NoStall
  <2>2. CASE ~writing
    <3>1. flight = <<>> /\ writing = FALSE
      BY <1>0, <2>2 DEF OneWrite, FlagTypes
    <3>2. do_write(queue', FALSE, <<>>)
      BY <1>9, <2>2, <3>1 DEF WriteIfIdle
    <3> QED
      BY <1>0, <1>9, <3>2, DoWriteFromIdle DEF NoStall, DataTypes
  <2> QED
    BY <2>1, <2>2
<1>10. CASE SendAccepted
  BY <1>9, <1>10 DEF SendAccepted
<1>11. CASE RunKick
  <2>1. CASE stopped \/ kickPending
    <3>1. strand # <<>> /\ Head(strand).op # "stop" /\ strand' = Tail(strand)
          /\ UNCHANGED <<queue, stopped, writing>>
      BY <1>11, <2>1 DEF RunKick, IsNext
    <3> QED
      BY <1>2, <3>1 DEF NoStall
  <2>2. CASE ~(stopped \/ kickPending)
    BY <1>9, <1>11, <2>2 DEF RunKick
  <2> QED
    BY <2>1, <2>2
<1>12. CASE RunStop
  <2>1. stopped'
    BY <1>12 DEF RunStop, StopIgnored
  <2> QED
    BY <2>1 DEF NoStall
<1>13. CASE WriteFailed
  <2>1. StopPosted'
    BY <1>0, <1>3, <1>13 DEF WriteFailed, AfterFailure, DataTypes
  <2> QED
    BY <2>1 DEF NoStall
<1>14. CASE WriteDone
  <2>1. CASE kickPending /\ queue' = <<>>
    BY <1>14, <2>1 DEF WriteDone, NoStall
  <2>2. CASE ~(kickPending /\ queue' = <<>>)
    <3>1. Tail(flight) = <<>>
      BY <1>0, <1>14, LastWrite DEF WriteDone
    <3>2. do_write(queue', FALSE, <<>>) /\ UNCHANGED stopped
      BY <1>14, <2>2, <3>1 DEF WriteDone, WriteNext
    <3> QED
      BY <1>0, <3>2, DoWriteFromIdle DEF NoStall, DataTypes
  <2> QED
    BY <2>1, <2>2
<1>15. CASE Connection
  BY <1>4, <1>15 DEF Connection, TakeSome, TakeRest, Abort, PeerReset
<1>16. CASE ReadLoop
  BY <1>4, <1>5, <1>16 DEF ReadLoop, ReadTimeout, ReadBreak, SeeClosed, LoopEnd
<1> QED
  BY <1>4, <1>6, <1>7, <1>8, <1>10, <1>11, <1>12, <1>13, <1>14, <1>15, <1>16
     DEF Next, Strand, vars

-----------------------------------------------------------------------------

(* The inductive invariant: each part needs the types, and the parts about *)
(* the queue need that at most one write is in flight.                     *)
SessionInv ==
  TypeOK /\ OneWrite /\ KickDrains /\ WithinHighWater /\ PopsWhatItWrote /\ NoStall

LEMMA SessionInit == Init => SessionInv
<1>1. Init => TypeOK
  <2>1. Init => FlagTypes
    BY DEF Init, FlagTypes
  <2>2. Init => DataTypes
    BY DEF Init, DataTypes
  <2> QED
    BY <2>1, <2>2 DEF TypeOK
<1>2. Init => OneWrite /\ KickDrains /\ WithinHighWater /\ PopsWhatItWrote /\ NoStall
  BY ConfigAssumption DEF Init, OneWrite, KickDrains, WithinHighWater, PopsWhatItWrote, NoStall
<1> QED
  BY <1>1, <1>2 DEF SessionInv

LEMMA SessionStep == SessionInv /\ [Next]_vars => SessionInv'
<1>1. TypeOK /\ [Next]_vars => TypeOK'
  BY FlagTypesStep, DataTypesStep DEF TypeOK
<1> QED
  BY <1>1, OneWriteStep, KickDrainsStep, HighWaterStep, PopsStep, NoStallStep DEF SessionInv

LEMMA SessionInvariant == Spec => []SessionInv
  BY SessionInit, SessionStep, PTL DEF Spec

(* A session never has two async_write calls outstanding on its socket,    *)
(* and writing_ tells whether it has one, however sends, kicks, stops,     *)
(* failed writes and read timeouts interleave.                             *)
THEOREM NeverTwoWrites == Spec => []OneWrite
  BY SessionInvariant, PTL DEF SessionInv

(* queue_ is never left waiting with nobody to write it: while it holds a  *)
(* frame and the session lives, a write is in flight or a stop is posted.  *)
THEOREM NeverStalls == Spec => []NoStall
  BY SessionInvariant, PTL DEF SessionInv

(* The completion handler pops the frame it wrote unless a kick replaced   *)
(* the queue.                                                              *)
THEOREM PopsItsOwnFrame == Spec => []PopsWhatItWrote
  BY SessionInvariant, PTL DEF SessionInv

(* pending_bytes_ of a live session stays within high_water_bytes for      *)
(* every frame size and every high_water_bytes <= hard_limit_bytes.        *)
THEOREM BoundedQueue == Spec => []WithinHighWater
  BY SessionInvariant, PTL DEF SessionInv

(* After a kick only the KICK is left to write. *)
THEOREM KickLeavesOnlyKick == Spec => []KickDrains
  BY SessionInvariant, PTL DEF SessionInv
=============================================================================
