---------------------------- MODULE ClientProofs ----------------------------
(***************************************************************************)
(* Proofs about module Client, for every number of calls, connections,     *)
(* heartbeats and DELIVERs and every range of sequence numbers.            *)
(***************************************************************************)
EXTENDS Client, TLAPS

(* The types the first argument needs. *)
AppTypes == app \in [at : {"idle", "body", "drain", "shut", "joining", "gone"},
                     op : Ops \cup {"DELIVER"}, frame : Frame, wait : BOOLEAN]
HbTypes == hb \in [at : {"none", "asleep", "body", "ended"}, frame : Frame]
Counts == used \in [opens : Nat, calls : Nat, frames : Nat, beats : Nat, delivers : Nat]
SeqType == seq \in Nat
UpTypes == up \in Seq([part : Parts, frame : Frame])

WriteTypes == AppTypes /\ HbTypes /\ Counts /\ SeqType /\ UpTypes

(* write_mu is held exactly by the thread between its two writes, and the  *)
(* socket is not closed under it.                                          *)
Held ==
  /\ mu = "app" <=> app.at = "body"
  /\ mu = "hb" <=> hb.at = "body"
  /\ mu \in {"free", "app", "hb"}
  /\ mu # "free" => isOpen

(* What has been written and not yet handled is whole frames, and the      *)
(* header of the frame of the thread that holds write_mu.                  *)
Halves ==
  /\ server.st = "closed" => up = <<>>
  /\ server.st # "closed" =>
       /\ mu = "free" <=> Len(up) % 2 = 0
       /\ mu = "app" => up[Len(up)] = Part("header", app.frame)
       /\ mu = "hb" => up[Len(up)] = Part("header", hb.frame)

WholeInv == WriteTypes /\ Held /\ Halves /\ FramesWhole

-----------------------------------------------------------------------------
LEMMA NextSeqType == ASSUME NEW s \in Nat PROVE next_seq(s) \in Nat
  BY ClientAssumption DEF next_seq

LEMMA NewFrameType ==
  ASSUME SeqType, Counts, NEW op \in Ops PROVE NewFrame(op) \in Frame
  BY NextSeqType DEF SeqType, Counts, NewFrame, Frame

(* A whole number of frames grows by a header, *)
LEMMA HeaderAdded ==
  ASSUME UpTypes, FramesWhole, Len(up) % 2 = 0, NEW f \in Frame,
         up' = Append(up, Part("header", f))
  PROVE UpTypes' /\ FramesWhole' /\ Len(up') % 2 = 1 /\ up'[Len(up')] = Part("header", f)
<1>1. Part("header", f) \in [part : Parts, frame : Frame]
  BY DEF Part, Parts
<1>2. UpTypes' /\ Len(up') = Len(up) + 1 /\ Len(up) \in Nat
  BY <1>1 DEF UpTypes
<1>3. up'[Len(up')] = Part("header", f) /\ \A i \in 1..Len(up) : up'[i] = up[i]
  BY <1>1, <1>2 DEF UpTypes
<1>4. Len(up') % 2 = 1
  BY <1>2
<1>5. FramesWhole'
  <2> SUFFICES ASSUME NEW i \in 1..Len(up')
               PROVE IF i % 2 = 1 THEN up'[i].part = "header"
                     ELSE up'[i].part = "body" /\ up'[i].frame = up'[i - 1].frame
    BY DEF FramesWhole
  <2>1. CASE i = Len(up')
    BY <1>3, <1>4, <2>1 DEF Part
  <2>2. CASE i # Len(up')
    <3>1. i \in 1..Len(up)
      BY <1>2, <2>2
    <3>2. CASE i % 2 = 1
      BY <1>3, <3>1, <3>2 DEF FramesWhole
    <3>3. CASE i % 2 # 1
      <4>1. i - 1 \in 1..Len(up)
        BY <1>2, <3>1, <3>3
      <4> QED
        BY <1>3, <3>1, <3>3, <4>1 DEF FramesWhole
    <3> QED
      BY <3>2, <3>3
  <2> QED
    BY <2>1, <2>2
<1> QED
  BY <1>2, <1>3, <1>4, <1>5

(* then by the body of the same frame, *)
LEMMA BodyAdded ==
  ASSUME UpTypes, FramesWhole, Len(up) % 2 # 0, NEW f \in Frame,
         up[Len(up)] = Part("header", f), up' = Append(up, Part("body", f))
  PROVE UpTypes' /\ FramesWhole' /\ Len(up') % 2 = 0
<1>1. Part("body", f) \in [part : Parts, frame : Frame]
  BY DEF Part, Parts
<1>2. UpTypes' /\ Len(up') = Len(up) + 1 /\ Len(up) \in Nat
  BY <1>1 DEF UpTypes
<1>3. up'[Len(up')] = Part("body", f) /\ \A i \in 1..Len(up) : up'[i] = up[i]
  BY <1>1, <1>2 DEF UpTypes
<1>4. Len(up') % 2 = 0
  BY <1>2
<1>5. FramesWhole'
  <2> SUFFICES ASSUME NEW i \in 1..Len(up')
               PROVE IF i % 2 = 1 THEN up'[i].part = "header"
                     ELSE up'[i].part = "body" /\ up'[i].frame = up'[i - 1].frame
    BY DEF FramesWhole
  <2>1. CASE i = Len(up')
    <3>1. i - 1 = Len(up) /\ i - 1 \in 1..Len(up)
      BY <1>2, <2>1
    <3> QED
      BY <1>3, <1>4, <2>1, <3>1 DEF Part
  <2>2. CASE i # Len(up')
    <3>1. i \in 1..Len(up)
      BY <1>2, <2>2
    <3>2. CASE i % 2 = 1
      BY <1>3, <3>1, <3>2 DEF FramesWhole
    <3>3. CASE i % 2 # 1
      <4>1. i - 1 \in 1..Len(up)
        BY <1>2, <3>1, <3>3
      <4> QED
        BY <1>3, <3>1, <3>3, <4>1 DEF FramesWhole
    <3> QED
      BY <3>2, <3>3
  <2> QED
    BY <2>1, <2>2
<1> QED
  BY <1>2, <1>4, <1>5

(* and shrinks by the frame the server handled. *)
LEMMA FrameHandled ==
  ASSUME UpTypes, FramesWhole, Len(up) >= 2, up' = Tail(Tail(up))
  PROVE /\ UpTypes' /\ FramesWhole' /\ Len(up') % 2 = Len(up) % 2
        /\ Len(up') = Len(up) - 2
        /\ Len(up) > 2 => up'[Len(up')] = up[Len(up)]
<1> DEFINE t == Tail(up)
<1>0. /\ t \in Seq([part : Parts, frame : Frame]) /\ Len(t) = Len(up) - 1
      /\ \A i \in 1..Len(t) : t[i] = up[i + 1]
  BY DEF UpTypes
<1>b. up' = Tail(t) /\ Len(up) \in Nat
  BY DEF UpTypes
<1> HIDE DEF t
<1>a. t # <<>>
  <2>1. Len(t) >= 1
    BY <1>0, <1>b
  <2> QED
    BY <2>1
<1>1. UpTypes' /\ Len(up') = Len(up) - 2 /\ Len(up) \in Nat
  BY <1>0, <1>a, <1>b DEF UpTypes
<1>2. \A i \in 1..Len(up') : up'[i] = up[i + 2]
  <2>1. \A i \in 1..Len(up') : up'[i] = t[i + 1] /\ i + 1 \in 1..Len(t)
    BY <1>0, <1>a, <1>b, <1>1
  <2> QED
    BY <1>0, <1>1, <2>1
<1>3. Len(up') % 2 = Len(up) % 2
  <2>1. \A n \in Nat : n >= 2 => (n - 2) % 2 = n % 2
    OBVIOUS
  <2> QED
    BY <1>1, <2>1
<1>4. FramesWhole'
  <2> SUFFICES ASSUME NEW i \in 1..Len(up')
               PROVE IF i % 2 = 1 THEN up'[i].part = "header"
                     ELSE up'[i].part = "body" /\ up'[i].frame = up'[i - 1].frame
    BY DEF FramesWhole
  <2>1. i + 2 \in 1..Len(up) /\ (i + 2) % 2 = i % 2
    BY <1>1
  <2>2. CASE i % 2 = 1
    BY <1>2, <2>1, <2>2 DEF FramesWhole
  <2>3. CASE i % 2 # 1
    <3>1. i - 1 \in 1..Len(up') /\ (i - 1) + 2 = (i + 2) - 1
      BY <1>1, <2>3
    <3> QED
      BY <1>2, <2>1, <2>3, <3>1 DEF FramesWhole
  <2> QED
    BY <2>2, <2>3
<1>5. Len(up) > 2 => up'[Len(up')] = up[Len(up)]
  <2>1. ASSUME Len(up) > 2 PROVE Len(up') \in 1..Len(up') /\ Len(up') + 2 = Len(up)
    <3>1. \A n \in Nat : n > 2 => n - 2 \in 1..(n - 2) /\ (n - 2) + 2 = n
      OBVIOUS
    <3> QED
      BY <1>1, <2>1, <3>1
  <2> QED
    BY <1>2, <2>1
<1> QED
  BY <1>1, <1>3, <1>4, <1>5

-----------------------------------------------------------------------------
(* A thread takes write_mu and writes a header, *)
LEMMA HeaderKeeps ==
  ASSUME WholeInv, NEW t \in {"app", "hb"}, NEW f \in Frame, WriteHeader(t, f),
         UNCHANGED <<isOpen, server>>,
         t = "app" => app.at # "body" /\ app'.at = "body" /\ app'.frame = f /\ hb' = hb,
         t = "hb" => hb.at # "body" /\ hb'.at = "body" /\ hb'.frame = f /\ app' = app
  PROVE UpTypes' /\ Held' /\ Halves' /\ FramesWhole'
<1>1. mu = "free" /\ mu' = t /\ isOpen'
  BY DEF WriteHeader, CanLock, CanWrite
<1>2. Held'
  BY <1>1 DEF WholeInv, Held
<1>3. CASE server.st = "closed"
  <2>1. up' = up /\ up = <<>>
    BY <1>3 DEF WriteHeader, OnUplink, WholeInv, Halves
  <2> QED
    BY <1>2, <1>3, <2>1 DEF WholeInv, WriteTypes, UpTypes, Halves, FramesWhole
<1>4. CASE server.st # "closed"
  <2>1. up' = Append(up, Part("header", f)) /\ Len(up) % 2 = 0
    BY <1>1, <1>4 DEF WriteHeader, OnUplink, WholeInv, Halves
  <2>2. UpTypes' /\ FramesWhole' /\ Len(up') % 2 = 1 /\ up'[Len(up')] = Part("header", f)
    BY <2>1, HeaderAdded DEF WholeInv, WriteTypes
  <2>3. Halves'
    BY <1>1, <1>4, <2>2 DEF Halves
  <2> QED
    BY <1>2, <2>2, <2>3
<1> QED
  BY <1>3, <1>4

(* and the body, and lets write_mu go. *)
LEMMA BodyKeeps ==
  ASSUME WholeInv, NEW t \in {"app", "hb"}, mu = t, NEW f \in Frame, WriteBody(f),
         UNCHANGED server,
         t = "app" => f = app.frame /\ app'.at # "body" /\ hb' = hb,
         t = "hb" => f = hb.frame /\ hb'.at # "body" /\ app' = app
  PROVE UpTypes' /\ Held' /\ Halves' /\ FramesWhole'
<1>1. mu' = "free"
  BY DEF WriteBody
<1>2. Held'
  BY <1>1 DEF WholeInv, Held
<1>3. CASE server.st = "closed"
  <2>1. up' = up /\ up = <<>>
    BY <1>3 DEF WriteBody, OnUplink, WholeInv, Halves
  <2> QED
    BY <1>2, <1>3, <2>1 DEF WholeInv, WriteTypes, UpTypes, Halves, FramesWhole
<1>4. CASE server.st # "closed"
  <2>1. /\ up' = Append(up, Part("body", f)) /\ Len(up) % 2 # 0
        /\ up[Len(up)] = Part("header", f)
    BY <1>4 DEF WriteBody, OnUplink, WholeInv, Halves
  <2>2. UpTypes' /\ FramesWhole' /\ Len(up') % 2 = 0
    BY <2>1, BodyAdded DEF WholeInv, WriteTypes
  <2>3. Halves'
    BY <1>1, <1>4, <2>2 DEF Halves
  <2> QED
    BY <1>2, <2>2, <2>3
<1> QED
  BY <1>3, <1>4

(* A write fails under write_mu: the server has closed, nothing is left    *)
(* half written.                                                           *)
LEMMA FailKeeps ==
  ASSUME WholeInv, CanFail, NEW t \in {"app", "hb"}, mu = t, mu' = "free",
         UNCHANGED <<up, server>>,
         t = "app" => app'.at # "body" /\ hb' = hb,
         t = "hb" => hb'.at # "body" /\ app' = app
  PROVE UpTypes' /\ Held' /\ Halves' /\ FramesWhole'
<1>1. server.st = "closed"
  BY DEF CanFail, WholeInv, Held
<1>2. Held'
  BY DEF WholeInv, Held
<1>3. up = <<>>
  BY <1>1 DEF WholeInv, Halves
<1> QED
  BY <1>1, <1>2, <1>3 DEF WholeInv, WriteTypes, UpTypes, Halves, FramesWhole

(* Steps that neither write nor take write_mu. *)
LEMMA IdleKeeps ==
  ASSUME WholeInv, UNCHANGED <<mu, up, server>>,
         mu # "free" => UNCHANGED isOpen,
         app'.at = "body" <=> app.at = "body", app.at = "body" => app'.frame = app.frame,
         hb'.at = "body" <=> hb.at = "body", hb.at = "body" => hb'.frame = hb.frame
  PROVE UpTypes' /\ Held' /\ Halves' /\ FramesWhole'
<1>1. Held'
  BY DEF WholeInv, Held
<1>2. Halves'
  BY DEF WholeInv, Held, Halves
<1> QED
  BY <1>1, <1>2 DEF WholeInv, WriteTypes, UpTypes, FramesWhole

(* The server closes, and what was written goes nowhere. *)
LEMMA CloseKeeps ==
  ASSUME WholeInv, NEW last, Closes(last), UNCHANGED <<mu, isOpen, app, hb>>
  PROVE UpTypes' /\ Held' /\ Halves' /\ FramesWhole'
<1>1. up' = <<>> /\ server'.st = "closed"
  BY DEF Closes, Server
<1> QED
  BY <1>1 DEF WholeInv, Held, Halves, UpTypes, FramesWhole

-----------------------------------------------------------------------------
(* What a step does to the threads' states and the counters. *)
ThreadTypes == AppTypes /\ HbTypes /\ Counts /\ SeqType

LEMMA FrameTypes == NoFrame \in Frame /\ NoFrame.seq = 0
  BY DEF NoFrame, Frame, Ops

LEMMA TwoCounts ==
  ASSUME Counts
  PROVE /\ [used EXCEPT !.calls = @ + 1, !.frames = @ + 1]
             \in [opens : Nat, calls : Nat, frames : Nat, beats : Nat, delivers : Nat]
        /\ [used EXCEPT !.beats = @ + 1, !.frames = @ + 1]
             \in [opens : Nat, calls : Nat, frames : Nat, beats : Nat, delivers : Nat]
<1>1. used.calls + 1 \in Nat /\ used.frames + 1 \in Nat /\ used.beats + 1 \in Nat
  BY DEF Counts
<1>2. \A m, n \in Nat : [used EXCEPT !.calls = m, !.frames = n]
             \in [opens : Nat, calls : Nat, frames : Nat, beats : Nat, delivers : Nat]
  BY DEF Counts
<1>3. \A m, n \in Nat : [used EXCEPT !.beats = m, !.frames = n]
             \in [opens : Nat, calls : Nat, frames : Nat, beats : Nat, delivers : Nat]
  BY DEF Counts
<1> QED
  BY <1>1, <1>2, <1>3

LEMMA CallTypes ==
  ASSUME ThreadTypes, NEW op \in Ops, NEW wait \in BOOLEAN, Call(op, wait)
  PROVE ThreadTypes' /\ NewFrame(op) \in Frame
<1>1. NewFrame(op) \in Frame /\ NewFrame(op).seq = next_seq(seq)
  BY NewFrameType DEF ThreadTypes, NewFrame
<1>2. AppTypes' /\ HbTypes' /\ Counts'
  <2>1. AppTypes'
    BY <1>1 DEF Call, AppTypes
  <2>2. HbTypes'
    BY DEF Call, ThreadTypes, HbTypes
  <2>3. Counts'
    BY TwoCounts DEF Call, ThreadTypes, Counts
  <2> QED
    BY <2>1, <2>2, <2>3
<1>3. SeqType'
  BY <1>1, NextSeqType DEF Call, WriteHeader, ThreadTypes, SeqType
<1> QED
  BY <1>1, <1>2, <1>3 DEF ThreadTypes

LEMMA BeatTypes ==
  ASSUME ThreadTypes, Beat PROVE ThreadTypes' /\ NewFrame("HEARTBEAT") \in Frame
<1>1. NewFrame("HEARTBEAT") \in Frame /\ NewFrame("HEARTBEAT").seq = next_seq(seq)
  BY NewFrameType DEF ThreadTypes, NewFrame, Ops
<1>2. AppTypes' /\ HbTypes' /\ Counts'
  <2>1. AppTypes'
    BY DEF Beat, ThreadTypes, AppTypes
  <2>2. HbTypes'
    BY <1>1 DEF Beat, HbTypes
  <2>3. Counts'
    BY TwoCounts DEF Beat, ThreadTypes, Counts
  <2> QED
    BY <2>1, <2>2, <2>3
<1>3. SeqType'
  BY <1>1, NextSeqType DEF Beat, WriteHeader, ThreadTypes, SeqType
<1> QED
  BY <1>1, <1>2, <1>3 DEF ThreadTypes

LEMMA OtherTypes ==
  ASSUME ThreadTypes,
         \/ Open \/ recv_deliver \/ Destroy \/ InCall \/ Heart \/ Relay
         \/ BeatFails \/ SendDeliver \/ Kicked \/ Lost
  PROVE ThreadTypes'
<1> DEFINE AppStays ==
      \/ app' = app \/ app' = Idle
      \/ \E at \in {"drain", "shut", "joining", "gone"} : app' = [app EXCEPT !.at = at]
      \/ app' = [Idle EXCEPT !.at = "drain", !.op = "DELIVER"]
      \/ app' = [Idle EXCEPT !.at = "joining"]
      HbStays ==
      hb' = hb \/ \E at \in {"none", "asleep", "ended"} : hb' = NoBeat(at)
<1>1. AppStays
  <2>1. CASE Open \/ InCall \/ Heart \/ Relay \/ BeatFails \/ SendDeliver \/ Kicked \/ Lost
    BY <2>1 DEF Open, InCall, CallBody, CallFails, Drain, EndOfFile, close, Join, Heart,
                BeatBody, BeatStops, Relay, Handle, Greet, BeatFails, SendDeliver, Kicked,
                Lost, Close
  <2>2. CASE recv_deliver
    BY <2>2 DEF recv_deliver
  <2>3. CASE Destroy
    BY <2>3 DEF Destroy
  <2> QED
    BY <2>1, <2>2, <2>3
<1>2. HbStays
  BY DEF Open, recv_deliver, Destroy, InCall, CallBody, CallFails, Drain, Started,
         EndOfFile, close, Join, Heart, BeatBody, AfterBeat, BeatStops, Relay, Handle,
         Greet, BeatFails, SendDeliver, Kicked, Lost, Close
<1>3. AppTypes'
  <2>1. /\ Idle \in [at : {"idle"}, op : Ops, frame : Frame, wait : BOOLEAN]
        /\ [Idle EXCEPT !.at = "drain", !.op = "DELIVER"]
             \in [at : {"drain"}, op : {"DELIVER"}, frame : Frame, wait : BOOLEAN]
        /\ [Idle EXCEPT !.at = "joining"]
             \in [at : {"joining"}, op : Ops, frame : Frame, wait : BOOLEAN]
    BY FrameTypes DEF Idle, Ops
  <2>2. CASE \E at \in {"drain", "shut", "joining", "gone"} : app' = [app EXCEPT !.at = at]
    BY <2>2 DEF ThreadTypes, AppTypes
  <2>3. CASE app' = app \/ app' = Idle
    BY <2>1, <2>3 DEF ThreadTypes, AppTypes
  <2>4. CASE \/ app' = [Idle EXCEPT !.at = "drain", !.op = "DELIVER"]
             \/ app' = [Idle EXCEPT !.at = "joining"]
    BY <2>1, <2>4 DEF AppTypes
  <2> QED
    BY <1>1, <2>2, <2>3, <2>4
<1>4. HbTypes'
  BY <1>2, FrameTypes DEF ThreadTypes, HbTypes, NoBeat
<1>5. SeqType'
  <2>1. seq' = seq \/ seq' = next_seq(seq)
    BY DEF Open, recv_deliver, Destroy, InCall, CallBody, CallFails, Drain,
           EndOfFile, close, Join, Heart, BeatBody, BeatStops, Relay, Handle,
           Greet, BeatFails, SendDeliver, Kicked, Lost, Close
  <2> QED
    BY <2>1, NextSeqType DEF ThreadTypes, SeqType
<1>6. Counts'
  <2>1. \/ used' = used \/ used' = [used EXCEPT !.opens = @ + 1]
        \/ used' = [used EXCEPT !.calls = @ + 1]
        \/ used' = [used EXCEPT !.delivers = @ + 1]
    BY DEF Open, recv_deliver, Destroy, InCall, CallBody, CallFails, Drain,
           EndOfFile, close, Join, Heart, BeatBody, BeatStops, Relay, Handle,
           Greet, BeatFails, SendDeliver, Kicked, Lost, Close
  <2> QED
    BY <2>1 DEF ThreadTypes, Counts
<1> QED
  BY <1>3, <1>4, <1>5, <1>6 DEF ThreadTypes

-----------------------------------------------------------------------------
LEMMA WholeStep == WholeInv /\ [Next]_vars => WholeInv'
<1> SUFFICES ASSUME WholeInv, [Next]_vars PROVE WholeInv'
  OBVIOUS
<1>0. ThreadTypes
  BY DEF WholeInv, WriteTypes, ThreadTypes
<1>1. CASE UNCHANGED vars
  BY <1>1 DEF WholeInv, WriteTypes, AppTypes, HbTypes, Counts, SeqType, UpTypes, Held,
              Halves, FramesWhole, vars
<1> SUFFICES ASSUME Next PROVE WholeInv'
  BY <1>1
<1>a. ThreadTypes'
  BY <1>0, OtherTypes, CallTypes, BeatTypes, ClientAssumption DEF Next, Application
<1> SUFFICES UpTypes' /\ Held' /\ Halves' /\ FramesWhole'
  BY <1>a DEF WholeInv, WriteTypes, ThreadTypes
<1>2. ASSUME NEW op \in Ops, NEW wait \in BOOLEAN, Call(op, wait)
      PROVE UpTypes' /\ Held' /\ Halves' /\ FramesWhole'
  <2>1. ThreadTypes' /\ NewFrame(op) \in Frame
    BY <1>0, <1>2, CallTypes
  <2>2. WriteHeader("app", NewFrame(op)) /\ UNCHANGED <<isOpen, server>>
        /\ app.at # "body" /\ app'.at = "body" /\ app'.frame = NewFrame(op) /\ hb' = hb
    BY <1>2 DEF Call
  <2> QED
    BY <2>1, <2>2, HeaderKeeps
<1>3. CASE Beat
  <2>1. ThreadTypes' /\ NewFrame("HEARTBEAT") \in Frame
    BY <1>0, <1>3, BeatTypes
  <2>2. WriteHeader("hb", NewFrame("HEARTBEAT")) /\ UNCHANGED <<isOpen, server>>
        /\ hb.at # "body" /\ hb'.at = "body" /\ hb'.frame = NewFrame("HEARTBEAT")
        /\ app' = app
    BY <1>3 DEF Beat
  <2> QED
    BY <2>1, <2>2, HeaderKeeps
<1>4. CASE CallBody
  <2>1. mu = "app" /\ app.frame \in Frame
    BY <1>4 DEF CallBody, WholeInv, Held, WriteTypes, AppTypes
  <2>2. app'.at # "body"
    <3>1. app' = [app EXCEPT !.at = "drain"] \/ app' = Idle
      BY <1>4 DEF CallBody
    <3> QED
      BY <1>0, <3>1 DEF ThreadTypes, AppTypes, Idle
  <2>3. WriteBody(app.frame) /\ UNCHANGED server /\ hb' = hb
    BY <1>4 DEF CallBody
  <2> QED
    BY <2>1, <2>2, <2>3, BodyKeeps
<1>5. CASE BeatBody
  <2>1. mu = "hb" /\ hb.frame \in Frame
    BY <1>5 DEF BeatBody, WholeInv, Held, WriteTypes, HbTypes
  <2>2. hb'.at # "body"
    BY <1>5 DEF BeatBody, NoBeat, AfterBeat
  <2>3. WriteBody(hb.frame) /\ UNCHANGED server /\ app' = app
    BY <1>5 DEF BeatBody
  <2> QED
    BY <2>1, <2>2, <2>3, BodyKeeps
<1>6. CASE CallFails
  <2>1. CanFail /\ app' = Idle /\ UNCHANGED <<isOpen, hb, up, server>>
    BY <1>6 DEF CallFails
  <2>2. CASE app.at = "body" /\ mu' = "free"
    <3>1. mu = "app" /\ app'.at # "body"
      BY <2>1, <2>2 DEF WholeInv, Held, Idle
    <3> QED
      BY <2>1, <2>2, <3>1, FailKeeps
  <2>3. CASE app.at = "idle" /\ UNCHANGED mu
    BY <2>1, <2>3, IdleKeeps DEF Idle
  <2> QED
    BY <1>6, <2>2, <2>3 DEF CallFails
<1>7. CASE BeatFails
  <2>1. CanFail /\ hb' = NoBeat("ended") /\ UNCHANGED <<isOpen, app, up, server>>
    BY <1>7 DEF BeatFails
  <2>2. CASE hb.at = "body" /\ mu' = "free"
    <3>1. mu = "hb" /\ hb'.at # "body"
      BY <2>1, <2>2 DEF WholeInv, Held, NoBeat
    <3> QED
      BY <2>1, <2>2, <3>1, FailKeeps
  <2>3. CASE hb.at = "asleep" /\ UNCHANGED mu
    BY <2>1, <2>3, IdleKeeps DEF NoBeat
  <2> QED
    BY <1>7, <2>2, <2>3 DEF BeatFails
<1>8. CASE Open
  <2>1. mu = "free" /\ UNCHANGED <<mu, app, hb>> /\ up' = <<>> /\ server'.st # "closed"
    BY <1>8 DEF Open, CanLock, Server
  <2> QED
    BY <2>1 DEF WholeInv, Held, Halves, UpTypes, FramesWhole
<1>9. CASE recv_deliver \/ Destroy \/ EndOfFile \/ close \/ Join \/ BeatStops
  <2>1. UNCHANGED <<mu, up, server, hb>> \/ (UNCHANGED <<mu, up, server, app>> /\ BeatStops)
    BY <1>9 DEF recv_deliver, Destroy, EndOfFile, close, Join, BeatStops
  <2>2. mu # "free" => UNCHANGED isOpen
    <3>1. CASE close
      BY <3>1 DEF close, CanLock
    <3>2. CASE Join
      BY <3>2 DEF Join, WholeInv, Held
    <3>3. CASE recv_deliver \/ Destroy \/ EndOfFile \/ BeatStops
      BY <3>3 DEF recv_deliver, Destroy, EndOfFile, BeatStops
    <3> QED
      BY <1>9, <3>1, <3>2, <3>3
  <2>3. (app.at # "body" /\ app'.at # "body") \/ app' = app
    <3>1. CASE recv_deliver \/ Destroy
      BY <3>1 DEF recv_deliver, Destroy, Idle
    <3>2. CASE EndOfFile
      <4>1. app.at = "drain" /\ (app' = [app EXCEPT !.at = "shut"] \/ app' = Idle)
        BY <3>2 DEF EndOfFile
      <4> QED
        BY <1>0, <4>1 DEF Idle, ThreadTypes, AppTypes
    <3>3. CASE close \/ BeatStops
      <4>1. app' = app \/ (app.at = "shut" /\ app' = Idle)
        BY <3>3 DEF close, BeatStops
      <4> QED
        BY <4>1 DEF Idle
    <3>4. CASE Join
      BY <1>0, <3>4 DEF Join, ThreadTypes, AppTypes
    <3> QED
      BY <1>9, <3>1, <3>2, <3>3, <3>4
  <2>4. (hb.at # "body" /\ hb'.at # "body") \/ hb' = hb
    <3>1. CASE BeatStops
      BY <3>1 DEF BeatStops, NoBeat
    <3>2. CASE recv_deliver \/ Destroy \/ EndOfFile \/ close \/ Join
      BY <3>2 DEF recv_deliver, Destroy, EndOfFile, close, Join
    <3> QED
      BY <1>9, <3>1, <3>2
  <2>5. UNCHANGED <<mu, up, server>>
    BY <2>1
  <2> QED
    BY <2>2, <2>3, <2>4, <2>5, IdleKeeps
<1>10. CASE Drain
  <2>1. UNCHANGED <<mu, isOpen, up, server>>
    BY <1>10 DEF Drain
  <2>2. (app.at # "body" /\ app'.at # "body") \/ app' = app
    BY <1>10 DEF Drain, Idle
  <2>3. (hb.at # "body" /\ hb'.at # "body") \/ hb' = hb
    BY <1>10 DEF Drain, Started, NoBeat
  <2> QED
    BY <2>1, <2>2, <2>3, IdleKeeps
<1>11. CASE Greet \/ SendDeliver
  <2>1. UNCHANGED <<mu, isOpen, app, hb, up>> /\ server.st # "closed" /\ server'.st # "closed"
    BY <1>11 DEF Greet, SendDeliver, Server
  <2> QED
    BY <2>1 DEF WholeInv, WriteTypes, UpTypes, Held, Halves, FramesWhole
<1>12. CASE Kicked \/ Lost
  BY <1>12, CloseKeeps DEF Kicked, Lost, Close
<1>13. CASE Handle
  <2>1. UNCHANGED <<mu, isOpen, app, hb>> /\ Len(up) >= 2
    BY <1>13 DEF Handle
  <2>2. CASE Closes(<<>>)
    BY <2>1, <2>2, CloseKeeps
  <2>3. CASE up' = Tail(Tail(up)) /\ server.st # "closed" /\ server'.st # "closed"
    <3>1. /\ UpTypes' /\ FramesWhole' /\ Len(up') % 2 = Len(up) % 2
          /\ Len(up') = Len(up) - 2
          /\ Len(up) > 2 => up'[Len(up')] = up[Len(up)]
      BY <2>1, <2>3, FrameHandled DEF WholeInv, WriteTypes
    <3>2. mu # "free" => Len(up) > 2
      <4>1. mu # "free" => Len(up) % 2 # 0
        BY <2>3 DEF WholeInv, Halves
      <4>2. Len(up) \in Nat
        BY DEF WholeInv, WriteTypes, UpTypes
      <4> QED
        BY <2>1, <4>1, <4>2
    <3>3. Halves'
      BY <2>1, <2>3, <3>1, <3>2 DEF WholeInv, Halves, Held
    <3> QED
      BY <2>1, <3>1, <3>3 DEF WholeInv, Held
  <2> QED
    BY <1>13, <2>2, <2>3 DEF Handle
<1> QED
  BY <1>2, <1>3, <1>4, <1>5, <1>6, <1>7, <1>8, <1>9, <1>10, <1>11, <1>12, <1>13,
     ClientAssumption DEF Next, Application, InCall, Heart, Relay

LEMMA InitWhole == Init => WholeInv
<1> SUFFICES ASSUME Init PROVE WholeInv
  OBVIOUS
<1>1. WriteTypes
  BY FrameTypes DEF Init, WriteTypes, AppTypes, HbTypes, Counts, SeqType, UpTypes, Idle,
                    NoBeat, Ops
<1>2. Held /\ Halves /\ FramesWhole
  BY DEF Init, Held, Halves, FramesWhole, Idle, NoBeat, Server
<1> QED
  BY <1>1, <1>2 DEF WholeInv

(* The bytes of a frame are never mixed with those of another, however the *)
(* application's calls, the heartbeat thread, failed writes and new        *)
(* connections interleave (write_mu in RelayClient).                       *)
THEOREM FramesStayWhole == Spec => []FramesWhole
<1>1. WholeInv => FramesWhole
  BY DEF WholeInv
<1> QED
  BY <1>1, InitWhole, WholeStep, PTL DEF Spec

-----------------------------------------------------------------------------
(* The order of DELIVERs.                                                  *)

IsDeliver(i) == down[i].kind = "deliver"

DownTypes == down \in Seq(Event)
KeptTypes == pre \in Seq(Nat) /\ got \in Seq(Nat)
ServerTypes == server \in [st : {"none", "accepted", "entered", "in", "closed"},
                           login : Frame]

(* DeliversInOrder in two parts: what the client holds, *)
KeptInOrder ==
  /\ \A i, j \in 1..Len(got) : i < j => got[i] < got[j]
  /\ \A i, j \in 1..Len(pre) : i < j => pre[i] < pre[j]
  /\ \A i \in 1..Len(got), j \in 1..Len(pre) : got[i] < pre[j]

(* and what is on its way to it. *)
DownInOrder ==
  \A j \in 1..Len(down) : IsDeliver(j) =>
    /\ \A i \in 1..(j - 1) : IsDeliver(i) => down[i].id < down[j].id
    /\ \A i \in 1..Len(got) : got[i] < down[j].id
    /\ \A i \in 1..Len(pre) : pre[i] < down[j].id

(* Every DELIVER seen was sent. *)
Seen ==
  /\ \A i \in 1..Len(got) : got[i] <= used.delivers
  /\ \A i \in 1..Len(pre) : pre[i] <= used.delivers
  /\ \A i \in 1..Len(down) : IsDeliver(i) => down[i].id <= used.delivers

(* recv_deliver reads from the connection only when nothing is set aside,  *)
(* and sets nothing aside itself.                                          *)
NothingAside == app.at \in {"body", "drain"} /\ app.op = "DELIVER" => pre = <<>>

OrderInv ==
  /\ WholeInv /\ DownTypes /\ KeptTypes /\ ServerTypes
  /\ KeptInOrder /\ DownInOrder /\ Seen /\ NothingAside

-----------------------------------------------------------------------------
(* A reply or a KICK joins the frames on their way. *)
LEMMA OtherSent ==
  ASSUME OrderInv, NEW e \in Event, e.kind # "deliver", down' = Append(down, e),
         UNCHANGED <<got, pre, used>>
  PROVE DownTypes' /\ DownInOrder' /\ Seen'
<1>1. DownTypes' /\ Len(down') = Len(down) + 1 /\ Len(down) \in Nat
  BY DEF OrderInv, DownTypes
<1>2. /\ down'[Len(down')] = e
      /\ \A i \in 1..Len(down) : down'[i] = down[i]
  BY <1>1 DEF OrderInv, DownTypes
<1>3. \A i \in 1..Len(down') : down'[i].kind = "deliver" => i \in 1..Len(down)
  BY <1>1, <1>2
<1>4. DownInOrder'
  <2> SUFFICES ASSUME NEW j \in 1..Len(down'), down'[j].kind = "deliver"
               PROVE /\ \A i \in 1..(j - 1) : down'[i].kind = "deliver" => down'[i].id < down'[j].id
                     /\ \A i \in 1..Len(got) : got[i] < down'[j].id
                     /\ \A i \in 1..Len(pre) : pre[i] < down'[j].id
    BY DEF DownInOrder, IsDeliver
  <2>1. j \in 1..Len(down) /\ down'[j] = down[j]
    BY <1>2, <1>3
  <2>2. \A i \in 1..(j - 1) : i \in 1..Len(down) /\ down'[i] = down[i]
    BY <1>1, <1>2, <2>1
  <2> QED
    BY <2>1, <2>2 DEF OrderInv, DownInOrder, IsDeliver
<1>5. Seen'
  BY <1>2, <1>3 DEF OrderInv, Seen, IsDeliver
<1> QED
  BY <1>1, <1>4, <1>5

(* A DELIVER is sent, with the next number. *)
LEMMA DeliverSent ==
  ASSUME OrderInv, used' = [used EXCEPT !.delivers = @ + 1],
         down' = Append(down, Deliver(used.delivers + 1)), UNCHANGED <<got, pre>>
  PROVE DownTypes' /\ DownInOrder' /\ Seen'
<1> DEFINE n == used.delivers + 1
           e == Deliver(n)
<1>0. used.delivers \in Nat /\ used'.delivers = n /\ n \in Nat /\ n > used.delivers
  BY DEF OrderInv, WholeInv, WriteTypes, Counts
<1>1. e \in Event /\ e.id = n /\ e.kind = "deliver"
  BY <1>0 DEF Deliver, Event
<1>2. DownTypes' /\ Len(down') = Len(down) + 1 /\ Len(down) \in Nat
  BY <1>1 DEF OrderInv, DownTypes
<1>3. /\ down'[Len(down')] = e
      /\ \A i \in 1..Len(down) : down'[i] = down[i]
  BY <1>1, <1>2 DEF OrderInv, DownTypes
<1> HIDE DEF n, e
<1>4. /\ \A i \in 1..Len(got) : got[i] \in Nat
      /\ \A i \in 1..Len(pre) : pre[i] \in Nat
      /\ \A i \in 1..Len(down) : down[i].id \in Nat
  <2>1. \A i \in 1..Len(down) : down[i] \in Event
    BY DEF OrderInv, DownTypes
  <2>2. \A i \in 1..Len(down) : down[i].id \in Nat
    BY <2>1 DEF Event
  <2> QED
    BY <2>2 DEF OrderInv, KeptTypes
<1>5. DownInOrder'
  <2> SUFFICES ASSUME NEW j \in 1..Len(down'), down'[j].kind = "deliver"
               PROVE /\ \A i \in 1..(j - 1) : down'[i].kind = "deliver" => down'[i].id < down'[j].id
                     /\ \A i \in 1..Len(got) : got[i] < down'[j].id
                     /\ \A i \in 1..Len(pre) : pre[i] < down'[j].id
    BY DEF DownInOrder, IsDeliver
  <2>1. \A i \in 1..(j - 1) : i \in 1..Len(down) /\ down'[i] = down[i]
    BY <1>2, <1>3
  <2>2. CASE j \in 1..Len(down)
    BY <1>3, <2>1, <2>2 DEF OrderInv, DownInOrder, IsDeliver
  <2>3. CASE j = Len(down')
    BY <1>0, <1>1, <1>3, <1>4, <2>1, <2>3 DEF OrderInv, Seen, IsDeliver
  <2> QED
    BY <1>2, <2>2, <2>3
<1>6. Seen'
  <2>1. \A i \in 1..Len(down') : down'[i].kind = "deliver" => down'[i].id <= n
    <3> SUFFICES ASSUME NEW i \in 1..Len(down'), down'[i].kind = "deliver"
                 PROVE down'[i].id <= n
      OBVIOUS
    <3>1. CASE i \in 1..Len(down)
      BY <1>0, <1>3, <1>4, <3>1 DEF OrderInv, Seen, IsDeliver
    <3>2. CASE i = Len(down')
      BY <1>0, <1>1, <1>3, <3>2
    <3> QED
      BY <1>2, <3>1, <3>2
  <2>2. /\ \A i \in 1..Len(got) : got[i] <= n
        /\ \A i \in 1..Len(pre) : pre[i] <= n
    BY <1>0, <1>4 DEF OrderInv, Seen
  <2> QED
    BY <1>0, <2>1, <2>2 DEF Seen, IsDeliver
<1> QED
  BY <1>2, <1>5, <1>6

(* A part of what is on its way is lost, perhaps with a KICK in its place. *)
LEMMA SomeLost ==
  ASSUME OrderInv, NEW last \in {<<>>, <<KickEvent>>}, Closes(last),
         UNCHANGED <<got, pre, used>>
  PROVE DownTypes' /\ DownInOrder' /\ Seen'
<1>1. PICK n \in 0..Len(down) : down' = SubSeq(down, 1, n) \o last
  BY DEF Closes
<1> DEFINE h == SubSeq(down, 1, n)
<1>2. KickEvent \in Event /\ KickEvent.kind = "kick"
  BY DEF KickEvent, Event, Ops
<1>3. h \in Seq(Event) /\ Len(h) = n /\ n \in Nat /\ \A i \in 1..n : h[i] = down[i]
  BY DEF OrderInv, DownTypes
<1> HIDE DEF h
<1>4. DownTypes' /\ \A i \in 1..Len(down') :
        \/ i \in 1..n /\ down'[i] = down[i]
        \/ i > n /\ down'[i].kind = "kick"
  <2>1. CASE last = <<>>
    <3>1. down' = h
      BY <1>1, <1>3, <2>1 DEF h
    <3> QED
      BY <1>3, <3>1 DEF DownTypes
  <2>2. CASE last = <<KickEvent>>
    <3>1. down' = h \o <<KickEvent>>
      BY <1>1, <2>2 DEF h
    <3>2. down' = Append(h, KickEvent)
      BY <1>2, <1>3, <3>1
    <3>3. down' \in Seq(Event) /\ Len(down') = n + 1
      BY <1>2, <1>3, <3>2
    <3>4. down'[n + 1] = KickEvent /\ \A i \in 1..n : down'[i] = h[i]
      BY <1>2, <1>3, <3>2
    <3> QED
      BY <1>2, <1>3, <3>3, <3>4 DEF DownTypes
  <2> QED
    BY <2>1, <2>2
<1>5. DownInOrder'
  <2> SUFFICES ASSUME NEW j \in 1..Len(down'), down'[j].kind = "deliver"
               PROVE /\ \A i \in 1..(j - 1) : down'[i].kind = "deliver" => down'[i].id < down'[j].id
                     /\ \A i \in 1..Len(got) : got[i] < down'[j].id
                     /\ \A i \in 1..Len(pre) : pre[i] < down'[j].id
    BY DEF DownInOrder, IsDeliver
  <2>1. j \in 1..n /\ j \in 1..Len(down) /\ down'[j] = down[j]
    BY <1>3, <1>4
  <2>2. \A i \in 1..(j - 1) : i \in 1..Len(down') /\ i \in 1..Len(down) /\ i <= n
    BY <1>3, <2>1
  <2>3. \A i \in 1..(j - 1) : down'[i] = down[i]
    BY <1>3, <1>4, <2>2
  <2> QED
    BY <2>1, <2>2, <2>3 DEF OrderInv, DownInOrder, IsDeliver
<1>6. Seen'
  BY <1>3, <1>4 DEF OrderInv, Seen, IsDeliver
<1> QED
  BY <1>4, <1>5, <1>6

(* The first frame on its way is read: a DELIVER goes where it keeps its   *)
(* place, anything else goes.                                              *)
LEMMA HeadRead ==
  ASSUME OrderInv, down # <<>>, down' = Tail(down), UNCHANGED used,
         \/ UNCHANGED <<got, pre>>
         \/ Head(down).kind = "deliver" /\ got' = got /\ pre' = Append(pre, Head(down).id)
         \/ /\ Head(down).kind = "deliver" /\ pre = <<>>
            /\ pre' = pre /\ got' = Append(got, Head(down).id)
  PROVE DownTypes' /\ KeptTypes' /\ KeptInOrder' /\ DownInOrder' /\ Seen'
<1> DEFINE e == Head(down)
<1>1. e \in Event /\ e = down[1] /\ Len(down) \in Nat /\ 1 \in 1..Len(down)
  BY DEF OrderInv, DownTypes
<1>2. DownTypes' /\ Len(down') = Len(down) - 1 /\ \A i \in 1..Len(down') : down'[i] = down[i + 1]
  BY DEF OrderInv, DownTypes
<1>3. \A j \in 1..Len(down') : j + 1 \in 1..Len(down)
  BY <1>1, <1>2
<1>4. e.id \in Nat /\ used.delivers \in Nat
  BY <1>1 DEF Event, OrderInv, WholeInv, WriteTypes, Counts
<1> HIDE DEF e
(* What is left keeps its order among itself and to what was held before, *)
<1>5. ASSUME NEW j \in 1..Len(down'), down'[j].kind = "deliver"
      PROVE /\ \A i \in 1..(j - 1) : down'[i].kind = "deliver" => down'[i].id < down'[j].id
            /\ \A i \in 1..Len(got) : got[i] < down'[j].id
            /\ \A i \in 1..Len(pre) : pre[i] < down'[j].id
            /\ e.kind = "deliver" => e.id < down'[j].id
            /\ down'[j].id <= used.delivers
  <2>1. j + 1 \in 1..Len(down) /\ down'[j] = down[j + 1] /\ IsDeliver(j + 1)
    BY <1>2, <1>3, <1>5 DEF IsDeliver
  <2>2. \A i \in 1..(j - 1) : i + 1 \in 1..((j + 1) - 1) /\ down'[i] = down[i + 1]
    BY <1>2
  <2>3. 1 \in 1..((j + 1) - 1)
    BY <1>2
  <2>4. e.kind = "deliver" => IsDeliver(1)
    BY <1>1 DEF IsDeliver
  <2> QED
    BY <1>1, <2>1, <2>2, <2>3, <2>4 DEF OrderInv, DownInOrder, Seen, IsDeliver
(* and what was held is older than the DELIVER read. *)
<1>6. ASSUME e.kind = "deliver"
      PROVE /\ \A i \in 1..Len(got) : got[i] < e.id
            /\ \A i \in 1..Len(pre) : pre[i] < e.id
            /\ e.id <= used.delivers
  <2>1. IsDeliver(1)
    BY <1>1, <1>6 DEF IsDeliver
  <2> QED
    BY <1>1, <2>1 DEF OrderInv, DownInOrder, Seen
<1>7. CASE UNCHANGED <<got, pre>>
  BY <1>2, <1>5, <1>7 DEF OrderInv, KeptTypes, KeptInOrder, DownInOrder, Seen, IsDeliver
<1>8. CASE e.kind = "deliver" /\ got' = got /\ pre' = Append(pre, e.id)
  <2>1. pre' \in Seq(Nat) /\ Len(pre') = Len(pre) + 1 /\ Len(pre) \in Nat
    BY <1>4, <1>8 DEF OrderInv, KeptTypes
  <2>2. pre'[Len(pre')] = e.id /\ \A i \in 1..Len(pre) : pre'[i] = pre[i]
    BY <1>4, <1>8, <2>1 DEF OrderInv, KeptTypes
  <2>3. \A i \in 1..Len(pre') : i \in 1..Len(pre) \/ i = Len(pre')
    BY <2>1
  <2>4. KeptInOrder'
    <3>1. \A i, j \in 1..Len(pre') : i < j => pre'[i] < pre'[j]
      <4> SUFFICES ASSUME NEW i \in 1..Len(pre'), NEW j \in 1..Len(pre'), i < j
                   PROVE pre'[i] < pre'[j]
        OBVIOUS
      <4>1. i \in 1..Len(pre)
        BY <2>1, <2>3
      <4>2. CASE j \in 1..Len(pre)
        BY <2>2, <4>1, <4>2 DEF OrderInv, KeptInOrder
      <4>3. CASE j = Len(pre')
        BY <1>6, <1>8, <2>2, <4>1, <4>3
      <4> QED
        BY <2>3, <4>2, <4>3
    <3>2. \A i \in 1..Len(got), j \in 1..Len(pre') : got[i] < pre'[j]
      BY <1>6, <1>8, <2>2, <2>3 DEF OrderInv, KeptInOrder
    <3> QED
      BY <1>8, <3>1, <3>2 DEF OrderInv, KeptInOrder
  <2>5. DownInOrder'
    BY <1>5, <1>8, <2>2, <2>3 DEF DownInOrder, IsDeliver
  <2>6. Seen'
    BY <1>5, <1>6, <1>8, <2>2, <2>3 DEF OrderInv, Seen, IsDeliver
  <2> QED
    BY <1>2, <1>8, <2>1, <2>4, <2>5, <2>6 DEF OrderInv, KeptTypes
<1>9. CASE e.kind = "deliver" /\ pre = <<>> /\ pre' = pre /\ got' = Append(got, e.id)
  <2>1. got' \in Seq(Nat) /\ Len(got') = Len(got) + 1 /\ Len(got) \in Nat
    BY <1>4, <1>9 DEF OrderInv, KeptTypes
  <2>2. got'[Len(got')] = e.id /\ \A i \in 1..Len(got) : got'[i] = got[i]
    BY <1>4, <1>9, <2>1 DEF OrderInv, KeptTypes
  <2>3. \A i \in 1..Len(got') : i \in 1..Len(got) \/ i = Len(got')
    BY <2>1
  <2>4. KeptInOrder'
    <3>1. \A i, j \in 1..Len(got') : i < j => got'[i] < got'[j]
      <4> SUFFICES ASSUME NEW i \in 1..Len(got'), NEW j \in 1..Len(got'), i < j
                   PROVE got'[i] < got'[j]
        OBVIOUS
      <4>1. i \in 1..Len(got)
        BY <2>1, <2>3
      <4>2. CASE j \in 1..Len(got)
        BY <2>2, <4>1, <4>2 DEF OrderInv, KeptInOrder
      <4>3. CASE j = Len(got')
        BY <1>6, <1>9, <2>2, <4>1, <4>3
      <4> QED
        BY <2>3, <4>2, <4>3
    <3> QED
      BY <1>9, <3>1 DEF KeptInOrder
  <2>5. DownInOrder'
    BY <1>5, <1>9, <2>2, <2>3 DEF DownInOrder, IsDeliver
  <2>6. Seen'
    BY <1>5, <1>6, <1>9, <2>2, <2>3 DEF OrderInv, Seen, IsDeliver
  <2> QED
    BY <1>2, <1>9, <2>1, <2>4, <2>5, <2>6 DEF OrderInv, KeptTypes
<1> QED
  BY <1>7, <1>8, <1>9 DEF e

(* The oldest DELIVER set aside is returned. *)
LEMMA AsideReturned ==
  ASSUME OrderInv, pre # <<>>, got' = Append(got, Head(pre)), pre' = Tail(pre),
         UNCHANGED <<down, used>>
  PROVE KeptTypes' /\ KeptInOrder' /\ DownInOrder' /\ Seen'
<1>1. /\ Head(pre) = pre[1] /\ pre[1] \in Nat /\ Len(pre) \in Nat /\ 1 \in 1..Len(pre)
      /\ \A i \in 1..Len(pre) : pre[i] \in Nat
  BY DEF OrderInv, KeptTypes
<1>2. /\ pre' \in Seq(Nat) /\ Len(pre') = Len(pre) - 1
      /\ \A i \in 1..Len(pre') : pre'[i] = pre[i + 1]
  BY DEF OrderInv, KeptTypes
<1>3. got' \in Seq(Nat) /\ Len(got') = Len(got) + 1 /\ Len(got) \in Nat
  BY <1>1 DEF OrderInv, KeptTypes
<1>4. got'[Len(got')] = pre[1] /\ \A i \in 1..Len(got) : got'[i] = got[i]
  BY <1>1, <1>3 DEF OrderInv, KeptTypes
<1>5. /\ \A i \in 1..Len(got') : i \in 1..Len(got) \/ i = Len(got')
      /\ \A i \in 1..Len(pre') : i + 1 \in 1..Len(pre) /\ 1 < i + 1
  BY <1>1, <1>2, <1>3
<1>6. KeptInOrder'
  <2>1. \A i, j \in 1..Len(got') : i < j => got'[i] < got'[j]
    <3> SUFFICES ASSUME NEW i \in 1..Len(got'), NEW j \in 1..Len(got'), i < j
                 PROVE got'[i] < got'[j]
      OBVIOUS
    <3>1. i \in 1..Len(got)
      BY <1>3, <1>5
    <3>2. CASE j \in 1..Len(got)
      BY <1>4, <3>1, <3>2 DEF OrderInv, KeptInOrder
    <3>3. CASE j = Len(got')
      BY <1>1, <1>4, <3>1, <3>3 DEF OrderInv, KeptInOrder
    <3> QED
      BY <1>5, <3>2, <3>3
  <2>2. \A i, j \in 1..Len(pre') : i < j => pre'[i] < pre'[j]
    <3> SUFFICES ASSUME NEW i \in 1..Len(pre'), NEW j \in 1..Len(pre'), i < j
                 PROVE pre'[i] < pre'[j]
      OBVIOUS
    <3>1. i + 1 \in 1..Len(pre) /\ j + 1 \in 1..Len(pre) /\ i + 1 < j + 1
      BY <1>5
    <3> QED
      BY <1>2, <3>1 DEF OrderInv, KeptInOrder
  <2>3. \A i \in 1..Len(got'), j \in 1..Len(pre') : got'[i] < pre'[j]
    <3> SUFFICES ASSUME NEW i \in 1..Len(got'), NEW j \in 1..Len(pre')
                 PROVE got'[i] < pre'[j]
      OBVIOUS
    <3>1. j + 1 \in 1..Len(pre) /\ 1 < j + 1 /\ pre'[j] = pre[j + 1]
      BY <1>2, <1>5
    <3>2. CASE i \in 1..Len(got)
      BY <1>4, <3>1, <3>2 DEF OrderInv, KeptInOrder
    <3>3. CASE i = Len(got')
      BY <1>1, <1>4, <3>1, <3>3 DEF OrderInv, KeptInOrder
    <3> QED
      BY <1>5, <3>2, <3>3
  <2> QED
    BY <2>1, <2>2, <2>3 DEF KeptInOrder
<1>7. DownInOrder'
  BY <1>1, <1>2, <1>4, <1>5 DEF OrderInv, DownInOrder, IsDeliver
<1>8. Seen'
  BY <1>1, <1>2, <1>4, <1>5 DEF OrderInv, Seen, IsDeliver
<1> QED
  BY <1>2, <1>3, <1>6, <1>7, <1>8 DEF KeptTypes

-----------------------------------------------------------------------------
(* Steps that touch no DELIVER. *)
LEMMA NothingMoves ==
  ASSUME OrderInv, UNCHANGED <<got, pre, down>>, used'.delivers = used.delivers
  PROVE DownTypes' /\ KeptTypes' /\ KeptInOrder' /\ DownInOrder' /\ Seen'
BY DEF OrderInv, DownTypes, KeptTypes, KeptInOrder, DownInOrder, Seen, IsDeliver

LEMMA KeptStands ==
  ASSUME OrderInv, UNCHANGED <<got, pre>> PROVE KeptTypes' /\ KeptInOrder'
BY DEF OrderInv, KeptTypes, KeptInOrder

LEMMA ReplyType ==
  ASSUME NEW f \in Frame, NEW res \in {"ok", "error"}
  PROVE Reply(f, res) \in Event /\ Reply(f, res).kind # "deliver"
<1>1. f.id \in Nat /\ f.seq \in Nat /\ f.op \in Ops
  BY DEF Frame
<1> QED
  BY <1>1 DEF Reply, Event

(* A request is answered. *)
LEMMA AnswerSent ==
  ASSUME OrderInv, NEW f \in Frame, NEW res \in {"ok", "error"}, Answer(f, res),
         UNCHANGED <<got, pre, used>>
  PROVE DownTypes' /\ KeptTypes' /\ KeptInOrder' /\ DownInOrder' /\ Seen'
<1>1. CASE down' = Append(down, Reply(f, res))
  BY <1>1, ReplyType, OtherSent, KeptStands
<1>2. CASE UNCHANGED down
  BY <1>2, NothingMoves
<1> QED
  BY <1>1, <1>2 DEF Answer

LEMMA DrainOrder ==
  ASSUME OrderInv, Drain
  PROVE DownTypes' /\ KeptTypes' /\ KeptInOrder' /\ DownInOrder' /\ Seen' /\ NothingAside'
<1> DEFINE e == Head(down)
<1>1. app.at = "drain" /\ down # <<>> /\ down' = Tail(down) /\ UNCHANGED used
  BY DEF Drain
<1>2. pre' = SetAside(e)
      /\ got' = (IF e.kind = "deliver" /\ Verdict(e) = "returned" THEN Append(got, e.id) ELSE got)
  BY DEF Drain
<1>3. Verdict(e) = "skip" => app' = app
  BY DEF Drain
<1>4. app' = app \/ app' = Idle
  BY DEF Drain
<1>5. CASE e.kind # "deliver"
  <2>1. UNCHANGED <<got, pre>>
    BY <1>2, <1>5 DEF SetAside
  <2> QED
    BY <1>1, <1>4, <2>1, HeadRead DEF OrderInv, NothingAside, Idle
<1>6. CASE e.kind = "deliver" /\ app.op = "DELIVER"
  <2>1. Verdict(e) = "returned"
    BY <1>6 DEF Verdict
  <2>2. pre = <<>> /\ pre' = pre /\ got' = Append(got, e.id)
    BY <1>1, <1>2, <1>6, <2>1 DEF SetAside, OrderInv, NothingAside
  <2> QED
    BY <1>1, <1>6, <2>2, HeadRead DEF NothingAside
<1>7. CASE e.kind = "deliver" /\ app.op = "LOGIN"
  <2>1. Verdict(e) = "early"
    BY <1>7 DEF Verdict
  <2>2. UNCHANGED <<got, pre>>
    BY <1>2, <2>1 DEF SetAside
  <2> QED
    BY <1>1, <1>4, <2>2, HeadRead DEF OrderInv, NothingAside, Idle
<1>8. CASE e.kind = "deliver" /\ app.op \notin {"LOGIN", "DELIVER"}
  <2>1. Verdict(e) = "skip"
    BY <1>8 DEF Verdict
  <2>2. got' = got /\ pre' = Append(pre, e.id)
    BY <1>2, <1>8, <2>1 DEF SetAside
  <2> QED
    BY <1>1, <1>3, <1>8, <2>1, <2>2, HeadRead DEF NothingAside
<1> QED
  BY <1>5, <1>6, <1>7, <1>8

(* The server's steps. *)
LEMMA ServerOrder ==
  ASSUME OrderInv, Relay \/ SendDeliver \/ Kicked \/ Lost
  PROVE /\ DownTypes' /\ KeptTypes' /\ KeptInOrder' /\ DownInOrder' /\ Seen'
        /\ ServerTypes' /\ UNCHANGED <<app, pre>>
<1> DEFINE Goal == /\ DownTypes' /\ KeptTypes' /\ KeptInOrder' /\ DownInOrder' /\ Seen'
                   /\ ServerTypes'
<1>1. UNCHANGED <<app, pre, got>>
  BY DEF Relay, Handle, Greet, SendDeliver, Kicked, Lost, Close
<1>2. ASSUME NEW last \in {<<>>, <<KickEvent>>}, Closes(last), UNCHANGED used PROVE Goal
  <2>1. ServerTypes'
    BY <1>2, FrameTypes DEF Closes, Server, ServerTypes
  <2> QED
    BY <1>1, <1>2, <2>1, SomeLost, KeptStands
<1>3. ASSUME Handle PROVE Goal
  <2> DEFINE f == up[1].frame
  <2>1. f \in Frame
    <3>1. up[1] \in [part : Parts, frame : Frame]
      <4> DEFINE Half == [part : Parts, frame : Frame]
      <4>1. Len(up) >= 2 /\ up \in Seq(Half)
        BY <1>3 DEF Handle, OrderInv, WholeInv, WriteTypes, UpTypes
      <4> HIDE DEF Half
      <4>2. up[1] \in Half
        BY <4>1
      <4> QED
        BY <4>2 DEF Half
    <3> QED
      BY <3>1
  <2>2. UNCHANGED used
    BY <1>3 DEF Handle
  <2>3. CASE Closes(<<>>)
    BY <1>2, <2>2, <2>3
  <2>4. CASE Answer(f, "error") /\ UNCHANGED server
    BY <1>1, <2>1, <2>2, <2>4, AnswerSent DEF OrderInv, ServerTypes
  <2>5. CASE server' = [st |-> "entered", login |-> f] /\ UNCHANGED down
    BY <1>1, <2>1, <2>2, <2>5, NothingMoves DEF ServerTypes
  <2>6. CASE (\E res \in Verdicts(f) : Answer(f, res)) /\ UNCHANGED server
    <3>1. \A res \in Verdicts(f) : res \in {"ok", "error"}
      BY DEF Verdicts
    <3> QED
      BY <1>1, <2>1, <2>2, <2>6, <3>1, AnswerSent DEF OrderInv, ServerTypes
  <2> QED
    BY <1>3, <2>3, <2>4, <2>5, <2>6 DEF Handle
<1>4. ASSUME Greet PROVE Goal
  <2>1. server.login \in Frame
    BY DEF OrderInv, ServerTypes
  <2>2. ServerTypes'
    BY <1>4, FrameTypes DEF Greet, Server, ServerTypes
  <2> QED
    BY <1>1, <1>4, <2>1, <2>2, AnswerSent DEF Greet
<1>5. ASSUME SendDeliver PROVE Goal
  BY <1>1, <1>5, DeliverSent, KeptStands DEF SendDeliver, OrderInv, ServerTypes
<1>6. ASSUME Kicked \/ Lost PROVE Goal
  BY <1>2, <1>6 DEF Kicked, Lost, Close
<1> QED
  BY <1>1, <1>3, <1>4, <1>5, <1>6 DEF Relay

LEMMA OrderStep == OrderInv /\ [Next]_vars => OrderInv'
<1> SUFFICES ASSUME OrderInv, [Next]_vars PROVE OrderInv'
  OBVIOUS
<1>0. WholeInv'
  BY WholeStep DEF OrderInv
<1>1. ASSUME UNCHANGED vars PROVE OrderInv'
  BY <1>0, <1>1, NothingMoves DEF OrderInv, ServerTypes, NothingAside, vars
<1>2. ASSUME Relay \/ SendDeliver \/ Kicked \/ Lost PROVE OrderInv'
  BY <1>0, <1>2, ServerOrder DEF OrderInv, NothingAside
<1>3. ASSUME Drain PROVE OrderInv'
  BY <1>0, <1>3, DrainOrder DEF OrderInv, Drain, ServerTypes
<1>4. ASSUME UNCHANGED <<got, pre, down, server>>, used'.delivers = used.delivers, NothingAside'
      PROVE OrderInv'
  BY <1>0, <1>4, NothingMoves DEF OrderInv, ServerTypes
<1>5. ASSUME Open PROVE OrderInv'
  <2>1. /\ down' = <<>> /\ UNCHANGED <<got, pre, app>> /\ used'.delivers = used.delivers
        /\ server' = Server("accepted")
    BY <1>5 DEF Open, OrderInv, WholeInv, WriteTypes, Counts
  <2>2. ServerTypes'
    BY <2>1, FrameTypes DEF ServerTypes, Server
  <2>3. DownTypes' /\ DownInOrder' /\ Seen' /\ NothingAside'
    BY <2>1 DEF OrderInv, DownTypes, DownInOrder, Seen, NothingAside
  <2> QED
    BY <1>0, <2>1, <2>2, <2>3, KeptStands DEF OrderInv
<1>6. ASSUME recv_deliver PROVE OrderInv'
  <2>1. CASE SetAsideFirst
    <3>1. /\ pre # <<>> /\ got' = Append(got, Head(pre)) /\ pre' = Tail(pre)
          /\ UNCHANGED <<down, used, app, server>> /\ app.at = "idle"
      BY <1>6, <2>1 DEF recv_deliver, SetAsideFirst
    <3> QED
      BY <1>0, <3>1, AsideReturned DEF OrderInv, DownTypes, ServerTypes, NothingAside
  <2>2. CASE ~SetAsideFirst
    <3>1. pre = <<>> /\ UNCHANGED <<got, pre, down, server, used>>
      BY <1>6, <2>2 DEF recv_deliver, SetAsideFirst
    <3> QED
      BY <1>4, <3>1 DEF NothingAside
  <2> QED
    BY <2>1, <2>2
<1>7. ASSUME NEW op \in Ops, NEW wait, Call(op, wait) PROVE OrderInv'
  <2>1. UNCHANGED <<got, pre, down, server>> /\ app'.op # "DELIVER"
    BY <1>7 DEF Call, Ops
  <2>2. used'.delivers = used.delivers
    BY <1>7 DEF Call, OrderInv, WholeInv, WriteTypes, Counts
  <2> QED
    BY <1>4, <2>1, <2>2 DEF NothingAside
<1>8. ASSUME Destroy \/ CallBody \/ CallFails \/ EndOfFile \/ close \/ Join \/ Heart
             \/ Beat \/ BeatFails
      PROVE OrderInv'
  <2>1. UNCHANGED <<got, pre, down, server>>
    BY <1>8 DEF Destroy, CallBody, CallFails, EndOfFile, close, Join, Heart, BeatBody,
                BeatStops, Beat, BeatFails
  <2>2. used'.delivers = used.delivers
    BY <1>8 DEF Destroy, CallBody, CallFails, EndOfFile, close, Join, Heart, BeatBody,
                BeatStops, Beat, BeatFails, OrderInv, WholeInv, WriteTypes, Counts
  <2>3. \/ app' = app \/ app' = Idle \/ app' = [Idle EXCEPT !.at = "joining"]
        \/ app' = [app EXCEPT !.at = "shut"] \/ app' = [app EXCEPT !.at = "gone"]
        \/ app' = [app EXCEPT !.at = "drain"] /\ app.at = "body"
    BY <1>8 DEF Destroy, CallBody, CallFails, EndOfFile, close, Join, Heart, BeatBody,
                BeatStops, Beat, BeatFails
  <2>4. app'.at \in {"body", "drain"} => app.at \in {"body", "drain"} /\ app'.op = app.op
    BY <2>3 DEF Idle, OrderInv, WholeInv, WriteTypes, AppTypes
  <2>5. NothingAside'
    BY <2>1, <2>4 DEF OrderInv, NothingAside
  <2> QED
    BY <1>4, <2>1, <2>2, <2>5
<1> QED
  BY <1>1, <1>2, <1>3, <1>5, <1>6, <1>7, <1>8 DEF Next, Application, InCall

LEMMA OrderInit == Init => OrderInv
<1> SUFFICES ASSUME Init PROVE OrderInv
  OBVIOUS
<1>1. WholeInv
  BY InitWhole
<1>2. DownTypes /\ KeptTypes /\ ServerTypes
  BY FrameTypes DEF Init, DownTypes, KeptTypes, ServerTypes, Server
<1>3. KeptInOrder /\ DownInOrder /\ Seen /\ NothingAside
  BY DEF Init, KeptInOrder, DownInOrder, Seen, NothingAside
<1> QED
  BY <1>1, <1>2, <1>3 DEF OrderInv

(* recv_deliver returns DELIVERs in the order the server sent them and     *)
(* none twice, whatever calls set some of them aside, whatever the server  *)
(* loses when it closes and however often the object connects again.       *)
THEOREM DeliversStayInOrder == Spec => []DeliversInOrder
<1>1. OrderInv => DeliversInOrder
  BY DEF OrderInv, KeptInOrder, DownInOrder, DeliversInOrder, IsDeliver
<1> QED
  BY <1>1, OrderInit, OrderStep, PTL DEF Spec

-----------------------------------------------------------------------------
(* The remaining types.                                                    *)

SeqRange == seq \in 1..(SeqSpace - 1)
Flags == isOpen \in BOOLEAN /\ signed \in BOOLEAN /\ hbStop \in BOOLEAN
OutType == out \in [op : Ops \cup {"DELIVER"}, how : Hows, own : BOOLEAN]
HistType == hist \in [base : Nat, loose : BOOLEAN, discarded : BOOLEAN, dropped : BOOLEAN]

TypesInv == OrderInv /\ SeqRange /\ Flags /\ OutType /\ HistType

LEMMA NextSeqRange == ASSUME NEW s \in Nat PROVE next_seq(s) \in 1..(SeqSpace - 1)
<1> DEFINE m == (s + 1) % SeqSpace
<1>1. m \in 0..(SeqSpace - 1) /\ SeqSpace \in Nat /\ SeqSpace > 1
  BY ClientAssumption, Z3
<1>2. next_seq(s) = IF m = 0 THEN 1 ELSE m
  BY DEF next_seq
<1> HIDE DEF m
<1> QED
  BY <1>1, <1>2

LEMMA SeqStep == ASSUME TypesInv, [Next]_vars PROVE SeqRange'
<1>0. seq \in Nat
  BY DEF TypesInv, OrderInv, WholeInv, WriteTypes, SeqType
<1>1. seq' = seq \/ seq' = next_seq(seq)
  BY DEF Next, vars, Application, InCall, Heart, Relay, Open, recv_deliver, Destroy, Call, CallBody,
         CallFails, Drain, EndOfFile, close, Join, BeatBody, BeatStops, Handle, Greet, Beat, BeatFails,
         SendDeliver, Kicked, Lost, Close, WriteHeader, NewFrame
<1> QED
  BY <1>0, <1>1, NextSeqRange DEF TypesInv, SeqRange

LEMMA VerdictType == ASSUME NEW e \in Event PROVE Verdict(e) \in Hows \cup {"skip"}
<1>1. OnReply(e) \in Hows \cup {"skip"}
  <2>1. sign_on(e) \in Hows
    BY DEF sign_on, Hows
  <2>2. e.res \in {"ok", "error"}
    BY DEF Event
  <2>3. drain_server_ack(e) \in Hows
    BY <2>2 DEF drain_server_ack, Hows
  <2>4. expect_heartbeat_ok(e) \in Hows
    BY DEF expect_heartbeat_ok, Hows
  <2>5. "mismatch" \in Hows
    BY DEF Hows
  <2> QED
    BY <2>1, <2>3, <2>4, <2>5 DEF OnReply
<1>2. e.kind \in {"deliver", "kick", "reply"}
  BY DEF Event
<1>3. {"early", "returned", "kicked"} \subseteq Hows
  BY DEF Hows
<1> QED
  BY <1>1, <1>2, <1>3 DEF Verdict

LEMMA HeadType == ASSUME DownTypes, down # <<>> PROVE Head(down) \in Event
<1> DEFINE E == Event
<1>1. down \in Seq(E)
  BY DEF DownTypes
<1> HIDE DEF E
<1>2. Head(down) \in E
  BY <1>1
<1> QED
  BY <1>2 DEF E

LEMMA FlagsStep == ASSUME TypesInv, [Next]_vars PROVE Flags'
<1>0. isOpen \in BOOLEAN /\ signed \in BOOLEAN /\ hbStop \in BOOLEAN
  BY DEF TypesInv, Flags
<1>1. ASSUME Drain PROVE Flags'
  <2>1. isOpen' = isOpen /\ signed' \in BOOLEAN /\ hbStop' \in {FALSE, hbStop}
    BY <1>1 DEF Drain
  <2> QED
    BY <1>0, <2>1 DEF Flags
<1>2. ASSUME ~ Drain PROVE isOpen' \in {isOpen, TRUE, FALSE} /\ signed' \in {signed, FALSE} /\ hbStop' \in {hbStop, TRUE}
  BY <1>2 DEF Next, vars, Application, InCall, Heart, Relay, Open, recv_deliver, Destroy, Call, CallBody,
         CallFails, EndOfFile, close, Join, BeatBody, BeatStops, Handle, Greet, Beat, BeatFails,
         SendDeliver, Kicked, Lost, Close, SignalStop
<1> QED
  BY <1>0, <1>1, <1>2 DEF Flags

LEMMA OutStep == ASSUME TypesInv, [Next]_vars PROVE OutType'
<1> DEFINE T == [op : Ops \cup {"DELIVER"}, how : Hows, own : BOOLEAN]
<1>0. out \in T /\ app.op \in Ops \cup {"DELIVER"}
  BY DEF TypesInv, OutType, OrderInv, WholeInv, WriteTypes, AppTypes
<1>1. ASSUME NEW op \in Ops \cup {"DELIVER"}, NEW how \in Hows, NEW own \in BOOLEAN, Ended(op, how, own)
      PROVE  out' \in T
  BY <1>0, <1>1 DEF Ended
<1>h. {"returned", "unwritten", "eof", "none"} \subseteq Hows
  BY DEF Hows
<1>2. ASSUME Drain PROVE out' \in T
  <2> DEFINE e == Head(down)
             own == e.kind # "reply" \/ e.id = app.frame.id
  <2>1. Verdict(e) \in Hows \cup {"skip"}
    <3>1. e \in Event
      BY <1>2, HeadType DEF Drain, TypesInv, OrderInv
    <3> QED
      BY <3>1, VerdictType
  <2>2. CASE Verdict(e) = "skip"
    BY <1>0, <1>2, <2>2 DEF Drain
  <2>3. CASE Verdict(e) # "skip"
    <3>1. own \in BOOLEAN
      OBVIOUS
    <3>2. Ended(app.op, Verdict(e), own) /\ Verdict(e) \in Hows
      BY <1>2, <2>1, <2>3 DEF Drain
    <3> HIDE DEF own, e, T
    <3> QED
      BY <1>0, <1>1, <3>1, <3>2
  <2> QED
    BY <2>2, <2>3
<1>3. ASSUME recv_deliver PROVE out' \in T
  <2>1. out' = out \/ Ended("DELIVER", "returned", TRUE)
    BY <1>3 DEF recv_deliver
  <2>2. "returned" \in Hows
    BY <1>h
  <2> HIDE DEF T
  <2> QED
    BY <1>0, <1>1, <2>1, <2>2
<1>4. ASSUME Open PROVE out' \in T
  BY <1>4, <1>h DEF Open, NoOutcome, Ops
<1>5. ASSUME CallBody \/ CallFails \/ EndOfFile \/ close PROVE out' \in T
  <2>1. out' = out \/ \E how \in {"returned", "unwritten", "eof"} : Ended(app.op, how, TRUE)
    BY <1>5 DEF CallBody, CallFails, EndOfFile, close
  <2> QED
    BY <1>0, <1>1, <1>h, <2>1
<1>6. ASSUME ~ Drain, ~ recv_deliver, ~ Open, ~ (CallBody \/ CallFails \/ EndOfFile \/ close) PROVE out' = out
  BY <1>6 DEF Next, vars, Application, InCall, Heart, Relay, Destroy, Call, Join, BeatBody, BeatStops,
         Handle, Greet, Beat, BeatFails, SendDeliver, Kicked, Lost, Close
<1> QED
  BY <1>0, <1>2, <1>3, <1>4, <1>5, <1>6 DEF OutType

(* What a step does to the history of excuses. *)
LEMMA HistMoves ==
  ASSUME [Next]_vars
  PROVE  \/ UNCHANGED hist
         \/ Open
         \/ hist' = [hist EXCEPT !.loose = TRUE] /\ CallBody
         \/ hist' = [hist EXCEPT !.discarded = @ \/ Verdict(Head(down)) = "early"] /\ Drain
         \/ hist' = [hist EXCEPT !.dropped = TRUE] /\ Relay
  BY DEF Next, vars, Application, InCall, Heart, Relay, recv_deliver, Destroy, Call, CallBody,
         CallFails, Drain, EndOfFile, close, Join, BeatBody, BeatStops, Handle, Greet, Answer, Beat, BeatFails,
         SendDeliver, Kicked, Lost, Close

LEMMA HistStep == ASSUME TypesInv, [Next]_vars PROVE HistType'
<1>0. HistType /\ used.delivers \in Nat
  BY DEF TypesInv, OrderInv, WholeInv, WriteTypes, Counts
<1>1. CASE Open
  BY <1>0, <1>1 DEF Open, HistType
<1>2. CASE hist' = [hist EXCEPT !.discarded = @ \/ Verdict(Head(down)) = "early"]
  <2> DEFINE b == hist.discarded \/ Verdict(Head(down)) = "early"
  <2>1. b \in BOOLEAN /\ hist' = [hist EXCEPT !.discarded = b]
    BY <1>2
  <2> HIDE DEF b
  <2> QED
    BY <1>0, <2>1 DEF HistType
<1>3. CASE UNCHANGED hist \/ hist' = [hist EXCEPT !.loose = TRUE] \/ hist' = [hist EXCEPT !.dropped = TRUE]
  BY <1>0, <1>3 DEF HistType
<1> QED
  BY <1>1, <1>2, <1>3, HistMoves

LEMMA TypesInit == Init => TypesInv
<1> SUFFICES ASSUME Init PROVE TypesInv
  OBVIOUS
<1>1. OrderInv
  BY OrderInit
<1>2. SeqRange
  BY ClientAssumption DEF Init, SeqRange
<1>4. Flags
  BY DEF Init, Flags
<1>3. OutType /\ HistType
  BY DEF Init, OutType, HistType, NoOutcome, Ops, Hows
<1> QED
  BY <1>1, <1>2, <1>3, <1>4 DEF TypesInv

LEMMA TypesStep == TypesInv /\ [Next]_vars => TypesInv'
  BY OrderStep, SeqStep, FlagsStep, OutStep, HistStep DEF TypesInv

(* The client's state stays within its types; above all the sequence       *)
(* number stays within 1 .. SeqSpace - 1 across its wrap.                  *)
THEOREM ClientTypes == Spec => []TypeOK
<1>1. TypesInv => TypeOK
  BY DEF TypesInv, OrderInv, WholeInv, WriteTypes, AppTypes, HbTypes, Counts, UpTypes, Held, DownTypes,
         KeptTypes, ServerTypes, SeqRange, Flags, OutType, HistType, TypeOK
<1> QED
  BY <1>1, TypesInit, TypesStep, PTL DEF Spec

-----------------------------------------------------------------------------
(* No DELIVER is lost while the connection lives.                          *)

(* DELIVER n is in one of the lists. *)
Holds(n, g, p, d) ==
  \/ \E i \in 1..Len(g) : g[i] = n
  \/ \E i \in 1..Len(p) : p[i] = n
  \/ \E i \in 1..Len(d) : d[i] = Deliver(n)

Excused == server.st = "closed" \/ hist.discarded

AllLocated == \A n \in (hist.base + 1)..used.delivers : Holds(n, got, pre, down)

LEMMA NoneLostParts == NoneLost <=> (~Excused => AllLocated)
  BY DEF NoneLost, Excused, AllLocated, Holds

LEMMA NoneLostPrimed == (~Excused' => AllLocated') => NoneLost'
  BY DEF NoneLost, Excused, AllLocated, Holds

(* A list that grows at its end keeps what it has. *)
LEMMA AppendKeeps ==
  ASSUME NEW S, NEW s \in Seq(S), NEW x \in S
  PROVE  /\ Len(Append(s, x)) = Len(s) + 1 /\ Len(s) \in Nat
         /\ \A i \in 1..Len(s) : i \in 1..Len(Append(s, x)) /\ Append(s, x)[i] = s[i]
         /\ Len(s) + 1 \in 1..Len(Append(s, x)) /\ Append(s, x)[Len(s) + 1] = x
  OBVIOUS

(* A list that loses its head keeps the rest. *)
LEMMA TailKeeps ==
  ASSUME NEW S, NEW s \in Seq(S), s # <<>>
  PROVE  /\ Tail(s) \in Seq(S) /\ Len(Tail(s)) = Len(s) - 1 /\ Len(s) \in Nat \ {0}
         /\ Head(s) = s[1]
         /\ \A i \in 1..Len(s) : i = 1 \/ (i - 1 \in 1..Len(Tail(s)) /\ Tail(s)[i - 1] = s[i])
         /\ \A i \in 1..Len(Tail(s)) : i + 1 \in 1..Len(s) /\ Tail(s)[i] = s[i + 1]
  OBVIOUS

LEMMA EventAdded ==
  ASSUME DownTypes, NEW e \in Event, down' = Append(down, e)
  PROVE  /\ Len(down') = Len(down) + 1 /\ Len(down) \in Nat
         /\ \A i \in 1..Len(down) : i \in 1..Len(down') /\ down'[i] = down[i]
         /\ Len(down) + 1 \in 1..Len(down') /\ down'[Len(down) + 1] = e
<1> DEFINE E == Event
<1>1. down \in Seq(E) /\ e \in E
  BY DEF DownTypes
<1> HIDE DEF E
<1> QED
  BY <1>1, AppendKeeps

LEMMA EventRead ==
  ASSUME DownTypes, down # <<>>, down' = Tail(down)
  PROVE  /\ Len(down') = Len(down) - 1 /\ Len(down) \in Nat \ {0} /\ Head(down) = down[1]
         /\ \A i \in 1..Len(down) : i = 1 \/ (i - 1 \in 1..Len(down') /\ down'[i - 1] = down[i])
         /\ \A i \in 1..Len(down') : i + 1 \in 1..Len(down) /\ down'[i] = down[i + 1]
<1> DEFINE E == Event
<1>1. down \in Seq(E)
  BY DEF DownTypes
<1> HIDE DEF E
<1> QED
  BY <1>1, TailKeeps

LEMMA FirstFrame == ASSUME UpTypes, Len(up) >= 2 PROVE up[1].frame \in Frame
<1> DEFINE Half == [part : Parts, frame : Frame]
<1>1. up \in Seq(Half)
  BY DEF UpTypes
<1> HIDE DEF Half
<1>2. up[1] \in Half
  BY <1>1
<1> QED
  BY <1>2 DEF Half

LEMMA ServerLocates ==
  ASSUME TypesInv, Relay \/ SendDeliver \/ Kicked \/ Lost, NEW n \in Nat, Holds(n, got, pre, down),
         server'.st # "closed"
  PROVE  Holds(n, got', pre', down')
<1>0. DownTypes
  BY DEF TypesInv, OrderInv
<1>1. UNCHANGED <<got, pre>>
  BY DEF Relay, Handle, Greet, SendDeliver, Kicked, Lost, Close
<1>2. down' = down \/ \E e \in Event : down' = Append(down, e)
  <2>1. ASSUME NEW f \in Frame, NEW res \in {"ok", "error"}, Answer(f, res)
        PROVE  down' = down \/ \E e \in Event : down' = Append(down, e)
    BY <2>1, ReplyType DEF Answer
  <2>2. CASE Handle
    <3>1. up[1].frame \in Frame
      BY <2>2, FirstFrame DEF Handle, TypesInv, OrderInv, WholeInv, WriteTypes
    <3>2. ~ Closes(<<>>)
      BY DEF Closes, Server
    <3>3. \/ Answer(up[1].frame, "error") \/ UNCHANGED down
          \/ \E res \in Verdicts(up[1].frame) : Answer(up[1].frame, res)
      BY <2>2, <3>2 DEF Handle
    <3>4. \A res \in Verdicts(up[1].frame) : res \in {"ok", "error"}
      BY DEF Verdicts
    <3> QED
      BY <2>1, <3>1, <3>3, <3>4
  <2>3. CASE Greet
    <3>1. server.login \in Frame
      BY DEF TypesInv, OrderInv, ServerTypes
    <3> QED
      BY <2>1, <2>3, <3>1 DEF Greet
  <2>4. CASE SendDeliver
    <3>1. Deliver(used.delivers + 1) \in Event
      BY DEF Deliver, Event, TypesInv, OrderInv, WholeInv, WriteTypes, Counts
    <3> QED
      BY <2>4, <3>1 DEF SendDeliver
  <2>5. CASE Kicked \/ Lost
    BY <2>5 DEF Kicked, Lost, Close, Closes, Server
  <2> QED
    BY <2>2, <2>3, <2>4, <2>5 DEF Relay
<1>3. CASE down' = down
  BY <1>1, <1>3 DEF Holds
<1>4. ASSUME NEW e \in Event, down' = Append(down, e) PROVE Holds(n, got', pre', down')
  <2>1. \A i \in 1..Len(down) : i \in 1..Len(down') /\ down'[i] = down[i]
    BY <1>0, <1>4, EventAdded
  <2> QED
    BY <1>1, <2>1 DEF Holds
<1> QED
  BY <1>2, <1>3, <1>4

LEMMA DrainLocates ==
  ASSUME TypesInv, Drain, NEW n \in Nat, Holds(n, got, pre, down), ~hist'.discarded
  PROVE  Holds(n, got', pre', down')
<1> DEFINE e == Head(down)
<1>0. DownTypes /\ pre \in Seq(Nat) /\ got \in Seq(Nat) /\ app.op \in Ops \cup {"DELIVER"} /\ HistType
  BY DEF TypesInv, OrderInv, KeptTypes, WholeInv, WriteTypes, AppTypes
<1>1. down # <<>> /\ down' = Tail(down) /\ pre' = SetAside(e)
      /\ got' = (IF e.kind = "deliver" /\ Verdict(e) = "returned" THEN Append(got, e.id) ELSE got)
      /\ hist' = [hist EXCEPT !.discarded = @ \/ Verdict(e) = "early"]
  BY DEF Drain
<1>2. /\ e = down[1]
      /\ \A i \in 1..Len(down) : i = 1 \/ (i - 1 \in 1..Len(down') /\ down'[i - 1] = down[i])
  BY <1>0, <1>1, EventRead
<1>3. e \in Event
  BY <1>0, <1>1, HeadType
<1>4. e.id \in Nat
  BY <1>3 DEF Event
<1>5. Verdict(e) # "early"
  BY <1>0, <1>1 DEF HistType
<1> HIDE DEF e
<1>6. \A i \in 1..Len(got) : i \in 1..Len(got') /\ got'[i] = got[i]
  BY <1>0, <1>1, <1>4, AppendKeeps
<1>7. \A i \in 1..Len(pre) : i \in 1..Len(pre') /\ pre'[i] = pre[i]
  BY <1>0, <1>1, <1>4, AppendKeeps DEF SetAside
<1>8. CASE \E i \in 1..Len(got) : got[i] = n
  BY <1>6, <1>8 DEF Holds
<1>9. CASE \E i \in 1..Len(pre) : pre[i] = n
  BY <1>7, <1>9 DEF Holds
<1>10. CASE e = Deliver(n)
  <2>1. e.kind = "deliver" /\ e.id = n
    BY <1>10 DEF Deliver
  <2>2. CASE Verdict(e) = "returned"
    <3>1. got' = Append(got, n)
      BY <1>1, <2>1, <2>2
    <3>2. Len(got) + 1 \in 1..Len(got') /\ got'[Len(got) + 1] = n
      BY <1>0, <3>1, AppendKeeps
    <3> QED
      BY <3>2 DEF Holds
  <2>3. CASE Verdict(e) = "skip"
    <3>1. pre' = Append(pre, n)
      BY <1>1, <2>1, <2>3 DEF SetAside
    <3>2. Len(pre) + 1 \in 1..Len(pre') /\ pre'[Len(pre) + 1] = n
      BY <1>0, <3>1, AppendKeeps
    <3> QED
      BY <3>2 DEF Holds
  <2>4. Verdict(e) \in {"early", "returned", "skip"}
    BY <2>1 DEF Verdict
  <2> QED
    BY <1>5, <2>2, <2>3, <2>4
<1>11. ASSUME NEW i \in 1..Len(down), i # 1, down[i] = Deliver(n) PROVE Holds(n, got', pre', down')
  BY <1>2, <1>11 DEF Holds
<1> QED
  BY <1>2, <1>8, <1>9, <1>10, <1>11 DEF Holds

LEMMA NoneLostStep == ASSUME TypesInv, NoneLost, [Next]_vars PROVE NoneLost'
<1>0. HistType /\ used.delivers \in Nat /\ pre \in Seq(Nat) /\ got \in Seq(Nat) /\ hist.base \in Nat
  BY DEF TypesInv, OrderInv, KeptTypes, WholeInv, WriteTypes, Counts, HistType
<1> SUFFICES ASSUME ~Excused' PROVE AllLocated'
  BY NoneLostPrimed
<1>1. CASE Open
  <2>1. hist'.base = used.delivers /\ used'.delivers = used.delivers
    BY <1>0, <1>1 DEF Open, HistType, TypesInv, OrderInv, WholeInv, WriteTypes, Counts
  <2>2. \A n \in (hist'.base + 1)..used'.delivers : FALSE
    BY <1>0, <2>1
  <2> QED
    BY <2>2 DEF AllLocated
<1>2. ASSUME ~Open PROVE hist'.base = hist.base /\ ~hist.discarded
  BY <1>0, <1>2, HistMoves DEF HistType, Excused
<1>3. ASSUME ~Excused, hist'.base = hist.base, used'.delivers = used.delivers,
             \A n \in Nat : Holds(n, got, pre, down) => Holds(n, got', pre', down')
      PROVE  AllLocated'
  <2>1. ASSUME NEW n \in (hist'.base + 1)..used'.delivers PROVE Holds(n, got', pre', down')
    <3>1. n \in Nat /\ n \in (hist.base + 1)..used.delivers
      BY <1>0, <1>3, <2>1
    <3> QED
      BY <1>3, <3>1, NoneLostParts DEF AllLocated
  <2> QED
    BY <2>1 DEF AllLocated
<1>4. CASE SendDeliver
  <2>1. used'.delivers = used.delivers + 1 /\ server' = server /\ hist' = hist
        /\ down' = Append(down, Deliver(used.delivers + 1))
    BY <1>4 DEF SendDeliver, TypesInv, OrderInv, WholeInv, WriteTypes, Counts
  <2>2. AllLocated
    BY <2>1, NoneLostParts DEF Excused
  <2>3. Deliver(used.delivers + 1) \in Event
    BY <1>0 DEF Deliver, Event
  <2>4. \E i \in 1..Len(down') : down'[i] = Deliver(used.delivers + 1)
    <3>1. DownTypes
      BY DEF TypesInv, OrderInv
    <3> QED
      BY <2>1, <2>3, <3>1, EventAdded
  <2>5. ASSUME NEW n \in (hist'.base + 1)..used'.delivers PROVE Holds(n, got', pre', down')
    <3>1. CASE n = used.delivers + 1
      BY <2>4, <3>1 DEF Holds
    <3>2. CASE n # used.delivers + 1
      <4>1. n \in Nat /\ n \in (hist.base + 1)..used.delivers
        BY <1>0, <2>1, <2>5, <3>2
      <4>2. Holds(n, got, pre, down)
        BY <2>2, <4>1 DEF AllLocated
      <4>3. server'.st # "closed"
        BY DEF Excused
      <4> QED
        BY <1>4, <4>1, <4>2, <4>3, ServerLocates
    <3> QED
      BY <3>1, <3>2
  <2> QED
    BY <2>5 DEF AllLocated
<1>5. CASE Relay \/ Kicked \/ Lost
  <2>1. server'.st # "closed"
    BY DEF Excused
  <2>2. server.st # "closed" /\ used' = used
    BY <1>5 DEF Relay, Handle, Greet, Kicked, Lost, Close
  <2>3. \A n \in Nat : Holds(n, got, pre, down) => Holds(n, got', pre', down')
    BY <1>5, <2>1, ServerLocates
  <2>4. ~Open
    BY <1>5 DEF Relay, Handle, Greet, Kicked, Lost, Close, Open, Counts, TypesInv, OrderInv, WholeInv, WriteTypes
  <2> QED
    BY <1>2, <1>3, <2>2, <2>3, <2>4 DEF Excused
<1>6. CASE Drain
  <2>1. server' = server /\ used' = used /\ ~hist'.discarded
    BY <1>6 DEF Drain, Excused
  <2>2. \A n \in Nat : Holds(n, got, pre, down) => Holds(n, got', pre', down')
    BY <1>6, <2>1, DrainLocates
  <2>3. hist'.base = hist.base /\ ~hist.discarded
    BY <1>0, <1>6, <2>1 DEF Drain, HistType
  <2> QED
    BY <1>3, <2>1, <2>2, <2>3 DEF Excused
<1>7. CASE recv_deliver /\ SetAsideFirst
  <2>1. /\ pre # <<>> /\ got' = Append(got, Head(pre)) /\ pre' = Tail(pre)
        /\ UNCHANGED <<down, used, hist, server>>
    BY <1>7 DEF recv_deliver, SetAsideFirst
  <2>2. /\ Head(pre) = pre[1] /\ pre[1] \in Nat
        /\ \A i \in 1..Len(pre) : i = 1 \/ (i - 1 \in 1..Len(pre') /\ pre'[i - 1] = pre[i])
    BY <1>0, <2>1, TailKeeps
  <2>3. /\ \A i \in 1..Len(got) : i \in 1..Len(got') /\ got'[i] = got[i]
        /\ Len(got) + 1 \in 1..Len(got') /\ got'[Len(got) + 1] = pre[1]
    BY <1>0, <2>1, <2>2, AppendKeeps
  <2>4. ASSUME NEW n \in Nat, Holds(n, got, pre, down) PROVE Holds(n, got', pre', down')
    <3>1. CASE \E i \in 1..Len(pre) : pre[i] = n
      BY <2>2, <2>3, <3>1 DEF Holds
    <3>2. CASE ~ \E i \in 1..Len(pre) : pre[i] = n
      BY <2>1, <2>3, <2>4, <3>2 DEF Holds
    <3> QED
      BY <3>1, <3>2
  <2> QED
    BY <1>3, <2>1, <2>4 DEF Excused
<1>8. CASE UNCHANGED <<got, pre, down, server>> /\ used'.delivers = used.delivers /\ ~Open
  BY <1>2, <1>3, <1>8 DEF Excused, Holds
<1>9. CASE recv_deliver /\ ~SetAsideFirst
  <2>1. UNCHANGED <<got, pre, down, server, used, hist>>
    BY <1>9 DEF recv_deliver
  <2> QED
    BY <1>3, <2>1 DEF Excused, Holds
<1>10. CASE Destroy \/ (\E op \in Ops, wait \in Waits \cup {TRUE} : Call(op, wait))
            \/ CallBody \/ CallFails \/ EndOfFile \/ close \/ Join \/ Heart \/ Beat \/ BeatFails \/ UNCHANGED vars
  <2>1. UNCHANGED <<got, pre, down, server>>
    BY <1>10 DEF Destroy, Call, CallBody, CallFails, EndOfFile, close, Join, Heart, BeatBody,
                BeatStops, Beat, BeatFails, vars
  <2>2. used'.delivers = used.delivers
    BY <1>10 DEF Destroy, Call, CallBody, CallFails, EndOfFile, close, Join, Heart, BeatBody,
                BeatStops, Beat, BeatFails, vars, TypesInv, OrderInv, WholeInv, WriteTypes, Counts
  <2> QED
    BY <1>1, <1>8, <2>1, <2>2
<1> QED
  BY <1>1, <1>4, <1>5, <1>6, <1>7, <1>9, <1>10 DEF Next, Application, InCall

(* While a connection lives no DELIVER sent on it is lost, whatever call   *)
(* meets it and however many are set aside, except the one that a sign_on  *)
(* finds before its own reply.                                             *)
THEOREM NoDeliverLost == Spec => []NoneLost
<1>1. Init => TypesInv /\ NoneLost
  <2>1. Init => NoneLost
    <3> SUFFICES ASSUME Init PROVE AllLocated
      BY NoneLostParts
    <3>1. hist.base = 0 /\ used.delivers = 0
      BY DEF Init
    <3>2. \A n \in (hist.base + 1)..used.delivers : FALSE
      BY <3>1
    <3> QED
      BY <3>2 DEF AllLocated
  <2> QED
    BY <2>1, TypesInit
<1>2. TypesInv /\ NoneLost /\ [Next]_vars => (TypesInv /\ NoneLost)'
  BY TypesStep, NoneLostStep
<1> QED
  BY <1>1, <1>2, PTL DEF Spec

-----------------------------------------------------------------------------
(* Whose reply is whose.                                                   *)

(* The calls that only their own reply may end. *)
Requests == {"LOGIN", "DATA", "CONTROL"}

(* The application awaits the reply to its request. *)
Asked == app.at = "drain" /\ app.op \in Requests

(* A reply that no loop skips. *)
Telling(e) == e.kind = "reply" /\ ~HeartbeatOk(e)

Plain == ~hist.loose /\ ~hist.discarded

Writing == app.at \in {"body", "drain"} /\ app.op # "DELIVER"

Roles ==
  /\ app.at = "body" => app.op # "DELIVER"
  /\ Writing => app.frame.op = app.op
  /\ hb.at = "body" => hb.frame.op = "HEARTBEAT"
  /\ app.at = "drain" /\ ~isOpen => app.op = "DELIVER"

KickLast == \A i \in 1..Len(down) : down[i].kind = "kick" => i = Len(down) /\ server.st = "closed"

Request(i) == up[i].frame.op # "HEARTBEAT"

UpMine ==
  /\ \A i \in 1..Len(up) : Request(i) => up[i].frame = app.frame /\ Writing
  /\ \A i, j \in 1..Len(up) : Request(i) /\ Request(j) /\ up[i].part = "header" /\ up[j].part = "header" => i = j
  /\ app.at = "body" => \A i \in 1..Len(up) : Request(i) => i = Len(up)

LoginMine == server.st = "entered" => server.login = app.frame /\ app.at = "drain" /\ app.op = "LOGIN"

Answers(e, f) == e.id = f.id /\ e.seq = f.seq /\ (e.res = "ok" => e.op = f.op)

DownMine ==
  /\ \A i \in 1..Len(down) : Telling(down[i]) => Answers(down[i], app.frame) /\ Asked
  /\ \A i, j \in 1..Len(down) : Telling(down[i]) /\ Telling(down[j]) => i = j

InUp == \E i \in 1..Len(up) : Request(i)
InServer == server.st = "entered"
InDown == \E i \in 1..Len(down) : Telling(down[i])
OnePlace == ~(InUp /\ InServer) /\ ~(InUp /\ InDown) /\ ~(InServer /\ InDown)

One == UpMine /\ LoginMine /\ DownMine /\ OnePlace

(* Where every reply was awaited, everything on the way except heartbeats  *)
(* belongs to the call in progress, and is in one place only.              *)
OneRequest == Plain => One

LEMMA Threads ==
  ASSUME TypesInv
  PROVE  /\ app \in [at : {"idle", "body", "drain", "shut", "joining", "gone"},
                     op : Ops \cup {"DELIVER"}, frame : Frame, wait : BOOLEAN]
         /\ hb \in [at : {"none", "asleep", "body", "ended"}, frame : Frame]
         /\ Held
  BY DEF TypesInv, OrderInv, WholeInv, WriteTypes, AppTypes, HbTypes

LEMMA RolesStep == ASSUME TypesInv, Roles, [Next]_vars PROVE Roles'
<1> USE DEF Roles, Writing
<1>0. /\ app \in [at : {"idle", "body", "drain", "shut", "joining", "gone"},
                  op : Ops \cup {"DELIVER"}, frame : Frame, wait : BOOLEAN]
      /\ hb \in [at : {"none", "asleep", "body", "ended"}, frame : Frame]
      /\ Held
  BY Threads
<1>1. ASSUME UNCHANGED <<app, hb, isOpen>> PROVE Roles'
  BY <1>1
<1>2. CASE Relay \/ SendDeliver \/ Kicked \/ Lost \/ UNCHANGED vars
  BY <1>1, <1>2 DEF Relay, Handle, Greet, SendDeliver, Kicked, Lost, Close, vars
<1>3. CASE Beat \/ BeatBody \/ BeatFails \/ BeatStops
  <2>1. app' = app /\ isOpen' = isOpen
    BY <1>3 DEF Beat, BeatBody, BeatFails, BeatStops
  <2>2. \/ hb' = [at |-> "body", frame |-> NewFrame("HEARTBEAT")]
        \/ \E at \in {"asleep", "ended"} : hb' = NoBeat(at)
    BY <1>3 DEF Beat, BeatBody, BeatFails, BeatStops, AfterBeat
  <2>3. hb'.at = "body" => hb'.frame.op = "HEARTBEAT"
    BY <2>2 DEF NoBeat, NewFrame
  <2> QED
    BY <2>1, <2>3
<1>4. CASE Drain
  <2>1. isOpen' = isOpen /\ (app' = app \/ app' = Idle) /\ (hb' = hb \/ hb' = Started)
    BY <1>4 DEF Drain
  <2> QED
    BY <2>1 DEF Started, NoBeat, Idle
<1>5. ASSUME NEW op \in Ops, NEW wait, Call(op, wait) PROVE Roles'
  <2>1. app' = [at |-> "body", op |-> op, frame |-> NewFrame(op), wait |-> wait] /\ UNCHANGED <<hb, isOpen>>
    BY <1>5 DEF Call
  <2> QED
    BY <2>1 DEF NewFrame, Ops
<1>6. CASE CallBody
  <2>1. isOpen /\ UNCHANGED <<hb, isOpen>> /\ app.at = "body"
        /\ (app' = Idle \/ app' = [app EXCEPT !.at = "drain"])
    BY <1>6 DEF CallBody, WriteBody, CanWrite
  <2> QED
    BY <1>0, <2>1 DEF Idle
<1>7. CASE Open
  BY <1>7 DEF Open
<1>8. CASE recv_deliver
  <2>1. UNCHANGED <<hb, isOpen>> /\ (app' = app \/ app' = [Idle EXCEPT !.at = "drain", !.op = "DELIVER"])
    BY <1>8 DEF recv_deliver
  <2> QED
    BY <2>1 DEF Idle
<1>9. CASE Destroy \/ CallFails \/ EndOfFile \/ close \/ Join
  <2>1. UNCHANGED hb
    BY <1>9 DEF Destroy, CallFails, EndOfFile, close, Join
  <2>2. \/ app' = Idle \/ app' = [Idle EXCEPT !.at = "joining"]
        \/ app' = [app EXCEPT !.at = "shut"] \/ app' = [app EXCEPT !.at = "gone"]
    BY <1>9 DEF Destroy, CallFails, EndOfFile, close, Join
  <2>3. app'.at \notin {"body", "drain"}
    BY <1>0, <2>2 DEF Idle
  <2> QED
    BY <2>1, <2>3
<1> QED
  BY <1>2, <1>3, <1>4, <1>5, <1>6, <1>7, <1>8, <1>9 DEF Next, Application, InCall, Heart

(* What a closing server leaves on the way: the first frames it queued,    *)
(* and then at most a KICK.                                                *)
LEMMA LostShape ==
  ASSUME DownTypes, NEW last \in {<<>>, <<KickEvent>>}, Closes(last)
  PROVE  /\ Len(down') \in Nat
         /\ \A i \in 1..Len(down') : \/ i \in 1..Len(down) /\ down'[i] = down[i]
                                     \/ i = Len(down') /\ down'[i] = KickEvent
<1> DEFINE E == Event
<1>1. PICK n \in 0..Len(down) : down' = SubSeq(down, 1, n) \o last
  BY DEF Closes
<1>2. down \in Seq(E) /\ KickEvent \in E /\ Len(down) \in Nat
  BY DEF DownTypes, KickEvent, Event
<1> DEFINE s == SubSeq(down, 1, n)
<1> HIDE DEF E
<1>3. s \in Seq(E) /\ Len(s) = n /\ \A i \in 1..n : i \in 1..Len(down) /\ s[i] = down[i]
  BY <1>2
<1>4. CASE last = <<>>
  <2>1. down' = s
    BY <1>1, <1>3, <1>4
  <2> QED
    BY <1>3, <2>1
<1>5. CASE last = <<KickEvent>>
  <2>1. down' = Append(s, KickEvent)
    BY <1>1, <1>2, <1>3, <1>5
  <2> HIDE DEF s
  <2>2. Len(down') = n + 1 /\ down'[n + 1] = KickEvent /\ \A i \in 1..n : down'[i] = s[i]
    BY <1>2, <1>3, <2>1
  <2> QED
    BY <1>2, <1>3, <2>2
<1> QED
  BY <1>4, <1>5

LEMMA KickLastStep == ASSUME TypesInv, KickLast, [Next]_vars PROVE KickLast'
<1>0. DownTypes /\ UpTypes
  BY DEF TypesInv, OrderInv, WholeInv, WriteTypes
<1>1. ASSUME UNCHANGED <<down, server>> PROVE KickLast'
  BY <1>1 DEF KickLast
<1>2. CASE Open
  BY <1>2 DEF Open, KickLast
<1>3. CASE Drain
  <2>1. down # <<>> /\ down' = Tail(down) /\ server' = server
    BY <1>3 DEF Drain
  <2>2. /\ Len(down') = Len(down) - 1 /\ Len(down) \in Nat \ {0}
        /\ \A i \in 1..Len(down') : i + 1 \in 1..Len(down) /\ down'[i] = down[i + 1]
    BY <1>0, <2>1, EventRead
  <2>3. ASSUME NEW i \in 1..Len(down'), down'[i].kind = "kick" PROVE i = Len(down') /\ server'.st = "closed"
    <3>1. i + 1 \in 1..Len(down) /\ down[i + 1].kind = "kick"
      BY <2>2, <2>3
    <3>2. i + 1 = Len(down) /\ server.st = "closed"
      BY <3>1 DEF KickLast
    <3>3. i = Len(down')
      BY <2>2, <3>2
    <3> QED
      BY <2>1, <3>2, <3>3
  <2> QED
    BY <2>3 DEF KickLast
<1>4. ASSUME NEW e \in Event, e.kind # "kick", down' = Append(down, e), server.st # "closed" PROVE KickLast'
  <2>1. /\ \A i \in 1..Len(down) : i \in 1..Len(down') /\ down'[i] = down[i]
        /\ down'[Len(down) + 1] = e /\ Len(down') = Len(down) + 1 /\ Len(down) \in Nat
    BY <1>0, <1>4, EventAdded
  <2>2. ASSUME NEW i \in 1..Len(down') PROVE down'[i].kind # "kick"
    <3>1. CASE i = Len(down) + 1
      BY <1>4, <2>1, <3>1
    <3>2. CASE i # Len(down) + 1
      <4>1. i \in 1..Len(down)
        BY <2>1, <3>2
      <4> QED
        BY <1>4, <2>1, <4>1 DEF KickLast
    <3> QED
      BY <3>1, <3>2
  <2> QED
    BY <2>2 DEF KickLast
<1>5. ASSUME server.st # "closed", UNCHANGED down PROVE KickLast'
  BY <1>5 DEF KickLast
<1>6. ASSUME NEW last \in {<<>>, <<KickEvent>>}, Closes(last), server.st # "closed" PROVE KickLast'
  <2>1. server'.st = "closed"
    BY <1>6 DEF Closes, Server
  <2>2. \A i \in 1..Len(down) : down[i].kind # "kick"
    BY <1>6 DEF KickLast
  <2> QED
    BY <1>0, <1>6, <2>1, <2>2, LostShape DEF KickLast
<1>7. ASSUME NEW f \in Frame, NEW res \in {"ok", "error"}, Answer(f, res), server.st # "closed" PROVE KickLast'
  <2>1. Reply(f, res) \in Event /\ Reply(f, res).kind # "kick"
    BY ReplyType DEF Reply
  <2> QED
    BY <1>4, <1>5, <1>7, <2>1 DEF Answer
<1>8. CASE Handle
  <2>1. up[1].frame \in Frame /\ server.st # "closed"
    BY <1>0, <1>8, FirstFrame DEF Handle
  <2>2. \A res \in Verdicts(up[1].frame) : res \in {"ok", "error"}
    BY DEF Verdicts
  <2> QED
    BY <1>5, <1>6, <1>7, <1>8, <2>1, <2>2 DEF Handle
<1>9. CASE Greet
  <2>1. server.login \in Frame
    BY DEF TypesInv, OrderInv, ServerTypes
  <2> QED
    BY <1>7, <1>9, <2>1 DEF Greet
<1>10. CASE SendDeliver
  <2>1. Deliver(used.delivers + 1) \in Event /\ Deliver(used.delivers + 1).kind # "kick"
    BY DEF Deliver, Event, TypesInv, OrderInv, WholeInv, WriteTypes, Counts
  <2> QED
    BY <1>4, <1>10, <2>1 DEF SendDeliver
<1>11. CASE Kicked \/ Lost
  BY <1>6, <1>11 DEF Kicked, Lost, Close
<1>12. CASE recv_deliver \/ Destroy \/ (\E op \in Ops, wait \in Waits \cup {TRUE} : Call(op, wait))
            \/ CallBody \/ CallFails \/ EndOfFile \/ close \/ Join \/ Heart \/ Beat \/ BeatFails \/ UNCHANGED vars
  BY <1>1, <1>12 DEF recv_deliver, Destroy, Call, CallBody, CallFails, EndOfFile, close, Join, Heart, BeatBody,
                BeatStops, Beat, BeatFails, vars
<1> QED
  BY <1>2, <1>3, <1>8, <1>9, <1>10, <1>11, <1>12 DEF Next, Application, InCall, Relay

-----------------------------------------------------------------------------
Quiet == ~InUp /\ ~InServer /\ ~InDown

LEMMA QuietIsOne == ASSUME Quiet' PROVE One'
  BY DEF Quiet, One, UpMine, LoginMine, DownMine, OnePlace, InUp, InServer, InDown

(* A thread that awaits nothing has nothing on the way. *)
LEMMA NobodyAsks == ASSUME One, ~Writing PROVE Quiet
  BY DEF Quiet, One, UpMine, LoginMine, DownMine, InUp, InServer, InDown, Writing, Asked, Requests

LEMMA QuietStays == ASSUME Quiet, UNCHANGED <<up, down, server>> PROVE Quiet'
  BY DEF Quiet, InUp, InServer, InDown, Request, Telling, HeartbeatOk

(* The second half of a frame names the frame of the first. *)
LEMMA HeaderOf ==
  ASSUME UpTypes, FramesWhole, NEW i \in 1..Len(up)
  PROVE  \/ up[i].part = "header"
         \/ i - 1 \in 1..Len(up) /\ up[i - 1].part = "header" /\ up[i].frame = up[i - 1].frame
                                 /\ i % 2 = 0
<1>1. Len(up) \in Nat
  BY DEF UpTypes
<1>2. CASE i % 2 = 1
  BY <1>2 DEF FramesWhole
<1>3. CASE i % 2 # 1
  <2>1. i - 1 \in 1..Len(up) /\ (i - 1) % 2 = 1 /\ i % 2 = 0
    BY <1>1, <1>3
  <2> QED
    BY <1>3, <2>1 DEF FramesWhole
<1> QED
  BY <1>2, <1>3

(* A write joins the bytes on the way. *)
LEMMA HalfAdded ==
  ASSUME UpTypes, NEW p \in Parts, NEW g \in Frame, up' = Append(up, Part(p, g))
  PROVE  /\ Len(up') = Len(up) + 1 /\ Len(up) \in Nat
         /\ \A i \in 1..Len(up) : i \in 1..Len(up') /\ up'[i] = up[i]
         /\ Len(up) + 1 \in 1..Len(up') /\ up'[Len(up) + 1].frame = g /\ up'[Len(up) + 1].part = p
<1> DEFINE H == [part : Parts, frame : Frame]
           x == Part(p, g)
<1>1. x \in H /\ up \in Seq(H) /\ x.frame = g /\ x.part = p
  BY DEF Part, UpTypes
<1> HIDE DEF H, x
<1>2. up' = Append(up, x)
  BY DEF x
<1> QED
  BY <1>1, <1>2, AppendKeeps

(* Heartbeats disturb nothing. *)
LEMMA BeatIsOne ==
  ASSUME TypesInv, Roles, One, NEW p \in Parts, NEW g \in Frame, g.op = "HEARTBEAT",
         up' = OnUplink(Part(p, g)), app.at # "body", UNCHANGED <<app, down, server>>
  PROVE  One'
<1>0. UpTypes
  BY DEF TypesInv, OrderInv, WholeInv, WriteTypes
<1>d. LoginMine' /\ DownMine' /\ (InServer' <=> InServer) /\ (InDown' <=> InDown) /\ (Writing' <=> Writing)
  BY DEF One, LoginMine, DownMine, InServer, InDown, Telling, HeartbeatOk, Writing, Asked
<1>1. CASE up' = up
  BY <1>1, <1>d DEF One, UpMine, OnePlace, InUp, Request
<1>2. CASE up' = Append(up, Part(p, g))
  <2>1. /\ Len(up') = Len(up) + 1 /\ Len(up) \in Nat
        /\ \A i \in 1..Len(up) : i \in 1..Len(up') /\ up'[i] = up[i]
        /\ up'[Len(up) + 1].frame = g
    BY <1>0, <1>2, HalfAdded
  <2>2. ASSUME NEW i \in 1..Len(up'), Request(i)' PROVE i \in 1..Len(up) /\ Request(i) /\ up'[i] = up[i]
    <3>1. i # Len(up) + 1
      BY <2>1, <2>2 DEF Request
    <3>2. i \in 1..Len(up)
      BY <2>1, <3>1
    <3> QED
      BY <2>1, <2>2, <3>2 DEF Request
  <2>3. InUp' => InUp
    BY <2>2 DEF InUp
  <2>4. UpMine'
    BY <1>d, <2>2 DEF One, UpMine
  <2> QED
    BY <1>d, <2>3, <2>4 DEF One, OnePlace
<1> QED
  BY <1>1, <1>2 DEF OnUplink

(* A new request finds nothing else on the way. *)
LEMMA CallIsOne ==
  ASSUME TypesInv, Quiet, NEW op \in Ops, NEW wait, Call(op, wait)
  PROVE  One'
<1> DEFINE g == NewFrame(op)
<1>0. UpTypes /\ SeqType /\ Counts
  BY DEF TypesInv, OrderInv, WholeInv, WriteTypes
<1>1. g \in Frame
  BY <1>0, NewFrameType
<1>2. /\ up' = OnUplink(Part("header", g)) /\ UNCHANGED <<down, server>>
      /\ app' = [at |-> "body", op |-> op, frame |-> g, wait |-> wait]
  BY DEF Call, WriteHeader
<1> HIDE DEF g
<1>3. app'.frame = g /\ Writing'
  BY <1>2 DEF Writing, Ops
<1>4. ~InServer' /\ ~InDown'
  BY <1>2 DEF Quiet, InServer, InDown, Telling, HeartbeatOk
<1>5. LoginMine' /\ DownMine' /\ OnePlace'
  BY <1>4 DEF LoginMine, DownMine, OnePlace, InServer, InDown
<1>6. CASE up' = up
  <2>1. ~InUp'
    BY <1>6 DEF Quiet, InUp, Request
  <2> QED
    BY <1>4, <2>1, QuietIsOne DEF Quiet
<1>7. CASE up' = Append(up, Part("header", g))
  <2>1. /\ Len(up') = Len(up) + 1 /\ Len(up) \in Nat
        /\ \A i \in 1..Len(up) : i \in 1..Len(up') /\ up'[i] = up[i]
        /\ up'[Len(up) + 1].frame = g
    <3>1. "header" \in Parts
      BY DEF Parts
    <3> QED
      BY <1>0, <1>1, <1>7, <3>1, HalfAdded
  <2>2. ASSUME NEW i \in 1..Len(up'), Request(i)' PROVE i = Len(up')
    <3>1. CASE i \in 1..Len(up)
      BY <2>1, <2>2, <3>1 DEF Quiet, InUp, Request
    <3> QED
      BY <2>1, <3>1
  <2>3. UpMine'
    BY <1>3, <2>1, <2>2 DEF UpMine
  <2> QED
    BY <1>5, <2>3 DEF One
<1> QED
  BY <1>2, <1>6, <1>7 DEF OnUplink

(* Its body follows. *)
LEMMA BodyIsOne ==
  ASSUME TypesInv, Roles, One, app.at = "body", up' = OnUplink(Part("body", app.frame)),
         app' = [app EXCEPT !.at = "drain"], UNCHANGED <<down, server>>
  PROVE  One'
<1>0. UpTypes /\ app.frame \in Frame /\ app.op # "DELIVER"
  BY Threads DEF TypesInv, OrderInv, WholeInv, WriteTypes, Roles
<1>1. app'.frame = app.frame /\ app'.op = app.op /\ app'.at = "drain"
  BY Threads
<1>2. Writing /\ Writing' /\ ~Asked
  BY <1>0, <1>1 DEF Writing, Asked
<1>3. ~InServer' /\ ~InDown'
  BY <1>2 DEF One, LoginMine, DownMine, InServer, InDown, Telling, HeartbeatOk
<1>4. LoginMine' /\ DownMine' /\ OnePlace'
  BY <1>3 DEF LoginMine, DownMine, OnePlace, InServer, InDown
<1>5. CASE up' = up
  <2>1. UpMine'
    BY <1>1, <1>2, <1>5 DEF One, UpMine, Request
  <2> QED
    BY <1>4, <2>1 DEF One
<1>6. CASE up' = Append(up, Part("body", app.frame))
  <2>1. /\ Len(up') = Len(up) + 1 /\ Len(up) \in Nat
        /\ \A i \in 1..Len(up) : i \in 1..Len(up') /\ up'[i] = up[i]
        /\ up'[Len(up) + 1].frame = app.frame /\ up'[Len(up) + 1].part = "body"
    <3>1. "body" \in Parts
      BY DEF Parts
    <3> QED
      BY <1>0, <1>6, <3>1, HalfAdded
  <2>2. \A i \in 1..Len(up') : i = Len(up) + 1 \/ i \in 1..Len(up)
    BY <2>1
  <2>3. \A i \in 1..Len(up') : Request(i)' => up'[i].frame = app'.frame /\ Writing'
    BY <1>1, <1>2, <2>1, <2>2 DEF One, UpMine, Request
  <2>4. ASSUME NEW i \in 1..Len(up'), NEW j \in 1..Len(up'), Request(i)', Request(j)',
               up'[i].part = "header", up'[j].part = "header"
        PROVE  i = j
    <3>1. i \in 1..Len(up) /\ j \in 1..Len(up)
      BY <2>1, <2>2, <2>4
    <3>2. Request(i) /\ Request(j) /\ up[i].part = "header" /\ up[j].part = "header"
      BY <2>1, <2>4, <3>1 DEF Request
    <3> QED
      BY <3>1, <3>2 DEF One, UpMine
  <2>5. UpMine'
    BY <1>1, <2>3, <2>4 DEF UpMine
  <2> QED
    BY <1>4, <2>5 DEF One
<1> QED
  BY <1>5, <1>6 DEF OnUplink

(* The replies on the way are the same or fewer. *)
LEMMA DownKept ==
  ASSUME DownMine, UNCHANGED app,
         \A i \in 1..Len(down') : Telling(down'[i]) => i \in 1..Len(down) /\ down'[i] = down[i]
  PROVE  DownMine' /\ (InDown' => InDown)
  BY DEF DownMine, InDown, Asked, Telling, HeartbeatOk

(* The server has taken the first frame. *)
LEMMA HandledShape ==
  ASSUME UpTypes, Len(up) >= 2, up' = Tail(Tail(up))
  PROVE  /\ Len(up') = Len(up) - 2 /\ Len(up) \in Nat
         /\ \A i \in 1..Len(up') : i + 2 \in 1..Len(up) /\ i + 1 \in 1..Len(up) /\ up'[i] = up[i + 2]
<1> DEFINE H == [part : Parts, frame : Frame]
           t == Tail(up)
<1>1. up \in Seq(H) /\ Len(up) \in Nat
  BY DEF UpTypes
<1> HIDE DEF H
<1>2. t \in Seq(H) /\ Len(t) = Len(up) - 1 /\ \A i \in 1..Len(t) : i + 1 \in 1..Len(up) /\ t[i] = up[i + 1]
  BY <1>1, TailKeeps
<1>3. up' = Tail(t)
  OBVIOUS
<1> HIDE DEF t
<1>4. t # <<>>
  <2>1. Len(t) >= 1
    BY <1>1, <1>2
  <2> QED
    BY <2>1
<1>5. Len(up') = Len(t) - 1 /\ \A i \in 1..Len(up') : i + 1 \in 1..Len(t) /\ up'[i] = t[i + 1]
  BY <1>2, <1>3, <1>4, TailKeeps
<1>6. ASSUME NEW i \in 1..Len(up')
      PROVE  i + 2 \in 1..Len(up) /\ i + 1 \in 1..Len(up) /\ up'[i] = up[i + 2]
  <2>1. i + 1 \in 1..Len(t) /\ up'[i] = t[i + 1] /\ i \in 1..Len(t)
    BY <1>1, <1>2, <1>5
  <2>2. (i + 1) + 1 \in 1..Len(up) /\ t[i + 1] = up[(i + 1) + 1] /\ (i + 1) + 1 = i + 2
    BY <1>2, <2>1
  <2>3. i + 1 \in 1..Len(up)
    BY <1>2, <2>1
  <2> QED
    BY <2>1, <2>2, <2>3
<1> QED
  BY <1>1, <1>2, <1>5, <1>6

(* If it was a heartbeat, the request is where it was; *)
LEMMA UpShifted ==
  ASSUME UpTypes, UpMine, Len(up) >= 2, up' = Tail(Tail(up)), UNCHANGED app
  PROVE  UpMine' /\ (InUp' => InUp)
<1>1. /\ Len(up') = Len(up) - 2 /\ Len(up) \in Nat
      /\ \A i \in 1..Len(up') : i + 2 \in 1..Len(up) /\ up'[i] = up[i + 2]
  BY HandledShape
<1>2. \A i \in 1..Len(up') : Request(i)' => Request(i + 2) /\ up'[i] = up[i + 2] /\ i + 2 \in 1..Len(up)
  BY <1>1 DEF Request
<1>3. InUp' => InUp
  BY <1>2 DEF InUp
<1>4. \A i \in 1..Len(up') : Request(i)' => up'[i].frame = app'.frame /\ Writing'
  BY <1>2 DEF UpMine, Writing
<1>5. ASSUME NEW i \in 1..Len(up'), NEW j \in 1..Len(up'), Request(i)', Request(j)',
             up'[i].part = "header", up'[j].part = "header"
      PROVE  i = j
  <2>1. i + 2 = j + 2
    BY <1>2, <1>5 DEF UpMine
  <2> QED
    BY <2>1
<1>6. ASSUME app'.at = "body", NEW i \in 1..Len(up'), Request(i)' PROVE i = Len(up')
  <2>1. i + 2 = Len(up)
    BY <1>2, <1>6 DEF UpMine
  <2> QED
    BY <1>1, <2>1
<1> QED
  BY <1>3, <1>4, <1>5, <1>6 DEF UpMine

(* if it was the request, nothing of it is left and nothing else is there. *)
LEMMA RequestTaken ==
  ASSUME TypesInv, Roles, One, Len(up) >= 2, up[1].frame.op # "HEARTBEAT"
  PROVE  /\ up[1].frame = app.frame /\ Asked /\ app.frame.op = app.op /\ ~InServer /\ ~InDown
         /\ up' = Tail(Tail(up)) => ~InUp'
<1>0. UpTypes /\ FramesWhole /\ Len(up) \in Nat
  BY DEF TypesInv, OrderInv, WholeInv, WriteTypes, UpTypes
<1>1. 1 \in 1..Len(up) /\ Request(1)
  BY <1>0 DEF Request
<1>2. up[1].frame = app.frame /\ Writing /\ ~InServer /\ ~InDown
  BY <1>1 DEF One, UpMine, OnePlace, InUp
<1>3. app.at # "body"
  <2>1. app.at = "body" => 1 = Len(up)
    BY <1>1 DEF One, UpMine
  <2> QED
    BY <1>0, <2>1
<1>4. app.frame.op = app.op /\ Asked
  <2>1. app.frame.op = app.op
    BY <1>2 DEF Roles
  <2>2. app.op \in Ops \ {"HEARTBEAT"}
    BY <1>2, <2>1, Threads DEF Writing
  <2> QED
    BY <1>2, <1>3, <2>1, <2>2 DEF Writing, Asked, Requests, Ops
<1>5. up[1].part = "header"
  BY <1>0, <1>1 DEF FramesWhole
<1>6. ASSUME up' = Tail(Tail(up)), NEW i \in 1..Len(up'), Request(i)' PROVE FALSE
  <2>1. i + 2 \in 1..Len(up) /\ i + 1 \in 1..Len(up) /\ up'[i] = up[i + 2]
    BY <1>0, <1>6, HandledShape
  <2>2. Request(i + 2)
    BY <1>6, <2>1 DEF Request
  <2>3. CASE up[i + 2].part = "header"
    <3>1. i + 2 = 1
      BY <1>1, <1>5, <2>1, <2>2, <2>3 DEF One, UpMine
    <3> QED
      BY <3>1
  <2>4. CASE up[i + 2].part # "header"
    <3>1. (i + 2) - 1 = i + 1
      OBVIOUS
    <3>2. up[(i + 2) - 1].part = "header" /\ up[i + 2].frame = up[(i + 2) - 1].frame
      BY <1>0, <2>1, <2>4, HeaderOf
    <3>3. up[i + 1].part = "header" /\ Request(i + 1)
      BY <2>2, <3>1, <3>2 DEF Request
    <3>4. i + 1 = 1
      BY <1>1, <1>5, <2>1, <3>3 DEF One, UpMine
    <3> QED
      BY <3>4
  <2> QED
    BY <2>3, <2>4
<1> QED
  BY <1>2, <1>4, <1>6 DEF InUp

(* The request is answered. *)
LEMMA ReplyIsOne ==
  ASSUME TypesInv, Asked, app.frame.op = app.op, ~InDown, ~InUp', ~InServer', UNCHANGED app,
         NEW res \in {"ok", "error"}, Answer(app.frame, res)
  PROVE  One'
<1>0. DownTypes /\ app.frame \in Frame
  BY Threads DEF TypesInv, OrderInv
<1>1. CASE down' = down
  <2>1. ~InDown'
    BY <1>1 DEF InDown
  <2> QED
    BY <2>1, QuietIsOne DEF Quiet
<1>2. CASE down' = Append(down, Reply(app.frame, res))
  <2> DEFINE e == Reply(app.frame, res)
  <2>1. e \in Event
    BY <1>0, ReplyType
  <2>2. Answers(e, app.frame)
    BY DEF Reply, Answers
  <2> HIDE DEF e
  <2>3. /\ Len(down') = Len(down) + 1 /\ Len(down) \in Nat
        /\ \A i \in 1..Len(down) : i \in 1..Len(down') /\ down'[i] = down[i]
        /\ down'[Len(down) + 1] = e
    BY <1>0, <1>2, <2>1, EventAdded DEF e
  <2>4. ASSUME NEW i \in 1..Len(down'), Telling(down'[i]) PROVE i = Len(down) + 1
    <3>1. CASE i \in 1..Len(down)
      BY <2>3, <2>4, <3>1 DEF InDown
    <3> QED
      BY <2>3, <3>1
  <2>5. DownMine'
    <3>1. Asked'
      BY DEF Asked
    <3>2. \A i \in 1..Len(down') : Telling(down'[i]) => Answers(down'[i], app'.frame)
      BY <2>2, <2>3, <2>4
    <3> QED
      BY <2>4, <3>1, <3>2 DEF DownMine
  <2> QED
    BY <2>5 DEF One, UpMine, LoginMine, OnePlace, InUp, InServer
<1> QED
  BY <1>1, <1>2 DEF Answer

LEMMA ServerIsOne ==
  ASSUME TypesInv, Roles, One, Relay \/ SendDeliver \/ Kicked \/ Lost
  PROVE  One'
<1>0. UpTypes /\ DownTypes /\ UpMine /\ LoginMine /\ DownMine /\ OnePlace
  BY DEF TypesInv, OrderInv, WholeInv, WriteTypes, One
<1>a. UNCHANGED app
  BY DEF Relay, Handle, Greet, SendDeliver, Kicked, Lost, Close
<1>1. ASSUME NEW last \in {<<>>, <<KickEvent>>}, Closes(last) PROVE One'
  <2>1. up' = <<>> /\ server'.st = "closed"
    BY <1>1 DEF Closes, Server
  <2>2. ~Telling(KickEvent)
    BY DEF Telling, KickEvent
  <2>3. \A i \in 1..Len(down') : Telling(down'[i]) => i \in 1..Len(down) /\ down'[i] = down[i]
    BY <1>0, <1>1, <2>2, LostShape
  <2>4. DownMine'
    BY <1>0, <1>a, <2>3, DownKept
  <2> QED
    BY <2>1, <2>4 DEF One, UpMine, LoginMine, OnePlace, InUp, InServer
<1>2. ASSUME NEW e \in Event, ~Telling(e), down' = Append(down, e) PROVE DownMine' /\ (InDown' => InDown)
  <2>1. /\ Len(down') = Len(down) + 1 /\ Len(down) \in Nat
        /\ \A i \in 1..Len(down) : down'[i] = down[i]
        /\ down'[Len(down) + 1] = e
    BY <1>0, <1>2, EventAdded
  <2>2. \A i \in 1..Len(down') : i = Len(down) + 1 \/ i \in 1..Len(down)
    BY <2>1
  <2> QED
    BY <1>0, <1>2, <1>a, <2>1, <2>2, DownKept
<1>3. CASE Handle
  <2> DEFINE g == up[1].frame
  <2>1. Len(up) >= 2 /\ g \in Frame
    BY <1>0, <1>3, FirstFrame DEF Handle
  <2>2. \A res \in Verdicts(g) : res \in {"ok", "error"}
    BY DEF Verdicts
  <2>3. CASE Closes(<<>>)
    BY <1>1, <2>3
  <2>4. CASE g.op # "HEARTBEAT" /\ ~Closes(<<>>)
    <3>1. g = app.frame /\ Asked /\ app.frame.op = app.op /\ ~InServer /\ ~InDown /\ ~InUp'
      <4>1. up' = Tail(Tail(up))
        BY <1>3, <2>4 DEF Handle
      <4> QED
        BY <2>1, <2>4, <4>1, RequestTaken
    <3>2. CASE server' = [st |-> "entered", login |-> g] /\ UNCHANGED down /\ g.op = "LOGIN"
      <4>1. ~InDown'
        BY <3>1, <3>2 DEF InDown
      <4>2. LoginMine'
        BY <1>a, <3>1, <3>2 DEF LoginMine, Asked
      <4> QED
        BY <3>1, <4>1, <4>2 DEF One, UpMine, DownMine, OnePlace, InUp, InDown
    <3>3. ASSUME NEW res \in {"ok", "error"}, Answer(g, res), UNCHANGED server PROVE One'
      <4>1. ~InServer'
        BY <3>1, <3>3 DEF InServer
      <4> HIDE DEF g
      <4>2. Answer(app.frame, res)
        BY <3>1, <3>3
      <4> QED
        BY <1>a, <3>1, <4>1, <4>2, ReplyIsOne
    <3> QED
      BY <1>3, <2>2, <2>4, <3>2, <3>3 DEF Handle
  <2>5. CASE g.op = "HEARTBEAT" /\ ~Closes(<<>>)
    <3>1. up' = Tail(Tail(up)) /\ UNCHANGED server /\ Answer(g, "ok")
      BY <1>3, <2>5 DEF Handle, Verdicts
    <3>2. UpMine' /\ (InUp' => InUp)
      BY <1>0, <1>a, <2>1, <3>1, UpShifted
    <3>3. Reply(g, "ok") \in Event /\ ~Telling(Reply(g, "ok"))
      BY <2>1, <2>5, ReplyType DEF Telling, Reply, HeartbeatOk
    <3>4. DownMine' /\ (InDown' => InDown)
      <4>1. CASE UNCHANGED down
        BY <1>0, <1>a, <4>1, DownKept
      <4> QED
        BY <1>2, <3>1, <3>3, <4>1 DEF Answer
    <3>5. LoginMine' /\ (InServer' <=> InServer)
      BY <1>0, <1>a, <3>1 DEF LoginMine, InServer
    <3> QED
      BY <1>0, <3>2, <3>4, <3>5 DEF One, OnePlace
  <2> QED
    BY <2>3, <2>4, <2>5
<1>4. CASE Greet
  <2>1. server.st = "entered" /\ Answer(server.login, "ok") /\ server' = Server("in") /\ UNCHANGED up
    BY <1>4 DEF Greet
  <2>2. server.login = app.frame /\ app.at = "drain" /\ app.op = "LOGIN" /\ ~InUp /\ ~InDown
    BY <1>0, <2>1 DEF LoginMine, OnePlace, InServer
  <2>3. Asked /\ app.frame.op = app.op
    BY <2>2 DEF Asked, Requests, Roles, Writing
  <2>4. ~InUp' /\ ~InServer'
    BY <2>1, <2>2 DEF InUp, Request, InServer, Server
  <2>5. Answer(app.frame, "ok")
    BY <2>1, <2>2
  <2> QED
    BY <1>a, <2>2, <2>3, <2>4, <2>5, ReplyIsOne
<1>5. CASE SendDeliver
  <2>1. Deliver(used.delivers + 1) \in Event /\ ~Telling(Deliver(used.delivers + 1))
    BY DEF Deliver, Event, TypesInv, OrderInv, WholeInv, WriteTypes, Counts, Telling
  <2>2. down' = Append(down, Deliver(used.delivers + 1)) /\ UNCHANGED <<up, server>>
    BY <1>5 DEF SendDeliver
  <2>3. DownMine' /\ (InDown' => InDown)
    BY <1>2, <2>1, <2>2
  <2>4. UpMine' /\ LoginMine' /\ (InUp' <=> InUp) /\ (InServer' <=> InServer)
    BY <1>0, <1>a, <2>2 DEF UpMine, LoginMine, InUp, InServer, Request, Writing
  <2> QED
    BY <1>0, <2>3, <2>4 DEF One, OnePlace
<1>6. CASE Kicked \/ Lost
  BY <1>1, <1>6 DEF Kicked, Lost, Close
<1> QED
  BY <1>3, <1>4, <1>5, <1>6 DEF Relay

-----------------------------------------------------------------------------
(* A reply that counts ends the call it belongs to. *)
LEMMA TellingVerdict ==
  ASSUME TypesInv, Roles, One, app.at = "drain", NEW i \in 1..Len(down), Telling(down[i]), down[i] \in Event
  PROVE  Asked /\ Answers(down[i], app.frame) /\ Verdict(down[i]) \in {"returned", "refused"}
<1> DEFINE e == down[i]
<1>1. Asked /\ Answers(e, app.frame)
  BY DEF One, DownMine
<1>2. app.op = app.frame.op /\ app.op \in Requests
  BY <1>1 DEF Asked, Roles, Writing, Requests
<1>3. e.kind = "reply" /\ ~HeartbeatOk(e) /\ e.res \in {"ok", "error"}
  BY DEF Telling, Event
<1> HIDE DEF e
<1>4. OnReply(e) = IF app.op = "LOGIN" THEN sign_on(e) ELSE drain_server_ack(e)
  BY <1>2, <1>3 DEF OnReply, Requests
<1>5. sign_on(e) \in {"returned", "refused"} \/ app.op # "LOGIN"
  BY <1>1, <1>2, <1>3 DEF sign_on, Answers
<1>6. drain_server_ack(e) \in {"returned", "refused"}
  BY <1>1, <1>2, <1>3 DEF drain_server_ack, IsMine, Answers
<1>7. Verdict(e) = OnReply(e)
  BY <1>3 DEF Verdict
<1> QED
  BY <1>1, <1>4, <1>5, <1>6, <1>7 DEF e

LEMMA DrainIsOne ==
  ASSUME TypesInv, Roles, KickLast, One, Drain, Verdict(Head(down)) # "early"
  PROVE  One'
<1> DEFINE e == Head(down)
<1>0. DownTypes /\ UpMine /\ LoginMine /\ DownMine /\ OnePlace
  BY DEF TypesInv, OrderInv, One
<1>1. app.at = "drain" /\ down # <<>> /\ down' = Tail(down) /\ UNCHANGED <<up, server>>
      /\ IF Verdict(e) = "skip" THEN app' = app ELSE app' = Idle
  BY DEF Drain
<1>2. /\ Len(down') = Len(down) - 1 /\ Len(down) \in Nat \ {0} /\ e = down[1] /\ 1 \in 1..Len(down)
      /\ \A i \in 1..Len(down') : i + 1 \in 1..Len(down) /\ down'[i] = down[i + 1]
  BY <1>0, <1>1, EventRead
<1>3. e \in Event /\ e.kind \in {"deliver", "kick", "reply"}
  BY <1>0, <1>1, HeadType DEF Event
<1>4. Telling(e) => Asked /\ Verdict(e) \in {"returned", "refused"}
  BY <1>1, <1>2, <1>3, TellingVerdict
<1>u. (InUp' <=> InUp) /\ (InServer' <=> InServer)
  BY <1>1 DEF InUp, Request, InServer
<1>d. InDown' => InDown
  BY <1>2 DEF InDown
<1> HIDE DEF e
<1>5. CASE Verdict(e) = "skip"
  <2>1. app' = app /\ ~Telling(e)
    BY <1>1, <1>4, <1>5
  <2>2. UpMine' /\ LoginMine'
    BY <1>0, <1>1, <2>1 DEF UpMine, LoginMine, Request, Writing
  <2>3. \A i \in 1..Len(down') : Telling(down'[i]) => Answers(down'[i], app'.frame) /\ Asked'
    BY <1>0, <1>2, <2>1 DEF DownMine, Asked
  <2>4. ASSUME NEW i \in 1..Len(down'), NEW j \in 1..Len(down'), Telling(down'[i]), Telling(down'[j])
        PROVE  i = j
    <3>1. i + 1 = j + 1
      BY <1>0, <1>2, <2>4 DEF DownMine
    <3> QED
      BY <3>1
  <2>5. DownMine'
    BY <2>3, <2>4 DEF DownMine
  <2> QED
    BY <1>0, <1>u, <1>d, <2>2, <2>5 DEF One, OnePlace
<1>6. ASSUME Quiet PROVE One'
  BY <1>6, <1>u, <1>d, QuietIsOne DEF Quiet
<1>7. CASE e.kind = "kick"
  <2>1. Len(down) = 1 /\ server.st = "closed"
    BY <1>2, <1>7 DEF KickLast
  <2>2. up = <<>>
    BY <2>1 DEF TypesInv, OrderInv, WholeInv, Halves
  <2>3. ~InUp' /\ ~InServer' /\ ~InDown'
    BY <1>1, <1>2, <2>1, <2>2 DEF InUp, InServer, InDown
  <2> QED
    BY <2>3, QuietIsOne DEF Quiet
<1>8. CASE e.kind = "deliver" /\ Verdict(e) # "skip"
  <2>1. app.op = "DELIVER"
    BY <1>8 DEF Verdict, e
  <2>2. ~Writing
    BY <2>1 DEF Writing
  <2> QED
    BY <1>6, <2>2, NobodyAsks
<1>9. CASE Telling(e)
  <2>1. InDown
    BY <1>2, <1>9 DEF InDown
  <2>2. ~InUp /\ ~InServer
    BY <1>0, <2>1 DEF OnePlace
  <2>3. ASSUME NEW i \in 1..Len(down'), Telling(down'[i]) PROVE FALSE
    <3>1. i + 1 = 1
      BY <1>0, <1>2, <1>9, <2>3 DEF DownMine
    <3> QED
      BY <3>1
  <2> QED
    BY <1>u, <2>2, <2>3, QuietIsOne DEF Quiet, InDown
<1>10. CASE e.kind = "reply" /\ ~Telling(e) /\ Verdict(e) # "skip"
  <2>1. app.op = "HEARTBEAT"
    BY <1>10 DEF Telling, Verdict, OnReply
  <2>2. app.frame.op = "HEARTBEAT" /\ ~Asked
    BY <1>1, <2>1 DEF Roles, Writing, Asked, Requests
  <2>3. ~InUp
    BY <1>0, <2>2 DEF InUp, UpMine, Request
  <2>4. ~InServer /\ ~InDown
    BY <1>0, <2>1, <2>2 DEF InServer, LoginMine, InDown, DownMine
  <2> QED
    BY <1>6, <2>3, <2>4 DEF Quiet
<1> QED
  BY <1>3, <1>5, <1>7, <1>8, <1>9, <1>10

LEMMA OneRequestStep ==
  ASSUME TypesInv, Roles, KickLast, OneRequest, [Next]_vars
  PROVE  OneRequest'
<1>0. HistType /\ Held /\ Halves
  BY DEF TypesInv, OrderInv, WholeInv
<1> SUFFICES ASSUME Plain' PROVE One'
  BY DEF OneRequest, Plain
<1>1. CASE Open
  <2>1. up' = <<>> /\ down' = <<>> /\ server'.st = "accepted"
    BY <1>1 DEF Open, Server
  <2>2. Quiet'
    BY <2>1 DEF Quiet, InUp, InServer, InDown
  <2> QED
    BY <2>2, QuietIsOne
<1>2. ASSUME ~Open PROVE One
  <2>1. Plain
    BY <1>0, <1>2, HistMoves DEF Plain, HistType
  <2> QED
    BY <2>1 DEF OneRequest
<1>3. CASE ~Open /\ Drain
  <2>1. Verdict(Head(down)) # "early"
    BY <1>0, <1>3 DEF Drain, Plain, HistType
  <2> QED
    BY <1>2, <1>3, <2>1, DrainIsOne
<1>4. CASE ~Open /\ (Relay \/ SendDeliver \/ Kicked \/ Lost)
  BY <1>2, <1>4, ServerIsOne
<1>5. ASSUME ~Open, ~Writing, UNCHANGED <<up, down, server>> PROVE One'
  BY <1>2, <1>5, NobodyAsks, QuietStays, QuietIsOne
<1>6. ASSUME Quiet, UNCHANGED <<up, down, server>> PROVE One'
  BY <1>6, QuietStays, QuietIsOne
<1>7. CASE ~Open /\ (recv_deliver \/ close \/ Destroy \/ Join)
  <2>1. app.at \in {"idle", "shut", "joining"} /\ UNCHANGED <<up, down, server>>
    BY <1>7 DEF recv_deliver, close, Destroy, Join
  <2>2. ~Writing
    BY <2>1 DEF Writing
  <2> QED
    BY <1>5, <1>7, <2>1, <2>2
<1>8. ASSUME NEW op \in Ops, NEW wait, Call(op, wait), ~Open PROVE One'
  <2>1. ~Writing
    BY <1>8 DEF Call, Writing
  <2> QED
    BY <1>2, <1>8, <2>1, NobodyAsks, CallIsOne
<1>9. CASE ~Open /\ CallBody
  <2>1. app.at = "body" /\ up' = OnUplink(Part("body", app.frame)) /\ UNCHANGED <<down, server>>
        /\ (app' = [app EXCEPT !.at = "drain"] \/ hist' = [hist EXCEPT !.loose = TRUE])
    BY <1>9 DEF CallBody, WriteBody
  <2>2. app' = [app EXCEPT !.at = "drain"]
    BY <1>0, <2>1 DEF Plain, HistType
  <2> QED
    BY <1>2, <1>9, <2>1, <2>2, BodyIsOne
<1>10. CASE ~Open /\ CallFails
  <2>1. UNCHANGED <<up, down, server>> /\ CanFail /\ app.at \in {"idle", "body"}
    BY <1>10 DEF CallFails
  <2>2. CASE app.at = "idle"
    BY <1>5, <1>10, <2>1, <2>2 DEF Writing
  <2>3. CASE app.at = "body"
    <3>1. server.st = "closed" /\ up = <<>>
      BY <1>0, <2>1, <2>3 DEF Held, CanFail, Halves
    <3>2. ~InDown
      BY <1>2, <1>10, <2>3 DEF One, DownMine, InDown, Asked
    <3> QED
      BY <1>6, <2>1, <3>1, <3>2 DEF Quiet, InUp, InServer
  <2> QED
    BY <2>1, <2>2, <2>3
<1>11. CASE ~Open /\ EndOfFile
  <2>1. app.at = "drain" /\ UNCHANGED <<up, down, server>> /\ (isOpen => down = <<>> /\ server.st = "closed")
    BY <1>11 DEF EndOfFile
  <2>2. CASE isOpen
    <3>1. down = <<>> /\ server.st = "closed" /\ up = <<>>
      BY <1>0, <2>1, <2>2 DEF Halves
    <3> QED
      BY <1>6, <2>1, <3>1 DEF Quiet, InUp, InServer, InDown
  <2>3. CASE ~isOpen
    BY <1>5, <1>11, <2>1, <2>3 DEF Roles, Writing
  <2> QED
    BY <2>2, <2>3
<1>12. CASE ~Open /\ (Beat \/ BeatBody)
  <2>1. UNCHANGED <<app, down, server>>
    BY <1>12 DEF Beat, BeatBody
  <2>2. app.at # "body"
    <3>1. mu = "free" \/ hb.at = "body"
      BY <1>12 DEF Beat, BeatBody, WriteHeader, CanLock
    <3> QED
      BY <1>0, <3>1 DEF Held
  <2>3. \E p \in Parts, g \in Frame : g.op = "HEARTBEAT" /\ up' = OnUplink(Part(p, g))
    <3>1. CASE Beat
      <4>1. NewFrame("HEARTBEAT") \in Frame /\ NewFrame("HEARTBEAT").op = "HEARTBEAT"
        <5>1. SeqType /\ Counts /\ "HEARTBEAT" \in Ops
          BY DEF TypesInv, OrderInv, WholeInv, WriteTypes, Ops
        <5> QED
          BY <5>1, NewFrameType DEF NewFrame
      <4>2. "header" \in Parts /\ up' = OnUplink(Part("header", NewFrame("HEARTBEAT")))
        BY <3>1 DEF Beat, WriteHeader, Parts
      <4> QED
        BY <4>1, <4>2
    <3>2. CASE BeatBody
      <4>1. hb.frame \in Frame /\ hb.frame.op = "HEARTBEAT"
        BY <3>2, Threads DEF BeatBody, Roles
      <4>2. "body" \in Parts /\ up' = OnUplink(Part("body", hb.frame))
        BY <3>2 DEF BeatBody, WriteBody, Parts
      <4> QED
        BY <4>1, <4>2
    <3> QED
      BY <1>12, <3>1, <3>2
  <2> QED
    BY <1>2, <1>12, <2>1, <2>2, <2>3, BeatIsOne
<1>13. CASE ~Open /\ (BeatFails \/ BeatStops \/ UNCHANGED vars)
  <2>1. UNCHANGED <<app, up, down, server>>
    BY <1>13 DEF BeatFails, BeatStops, vars
  <2> QED
    BY <1>2, <1>13, <2>1 DEF One, UpMine, LoginMine, DownMine, OnePlace, InUp, InServer, InDown, Request,
                             Telling, HeartbeatOk, Writing, Asked
<1> QED
  BY <1>1, <1>3, <1>4, <1>7, <1>8, <1>9, <1>10, <1>11, <1>12, <1>13 DEF Next, Application, InCall, Heart

RepliesInv == TypesInv /\ Roles /\ KickLast /\ OneRequest

LEMMA RepliesInit == Init => RepliesInv
<1> SUFFICES ASSUME Init PROVE RepliesInv
  OBVIOUS
<1>1. Roles
  BY DEF Init, Roles, Writing, Idle, NoBeat
<1>2. KickLast /\ OneRequest
  BY DEF Init, KickLast, OneRequest, One, UpMine, LoginMine, DownMine, OnePlace, InUp, InServer, InDown,
         Server, Idle
<1> QED
  BY <1>1, <1>2, TypesInit DEF RepliesInv

LEMMA RepliesStep == RepliesInv /\ [Next]_vars => RepliesInv'
  BY TypesStep, RolesStep, KickLastStep, OneRequestStep DEF RepliesInv

(* How a call can end, and with what excuse. *)
LEMMA OutMoves ==
  ASSUME TypesInv, [Next]_vars, ~Drain
  PROVE  \/ out' = out /\ (hist.loose => hist'.loose) /\ (hist.discarded => hist'.discarded)
         \/ out' = NoOutcome
         \/ \E op \in Ops \cup {"DELIVER"}, how \in {"returned", "unwritten", "eof"} : Ended(op, how, TRUE)
<1>0. HistType /\ app.op \in Ops \cup {"DELIVER"}
  BY Threads DEF TypesInv
<1>1. CASE Open
  BY <1>1 DEF Open
<1>2. CASE CallBody \/ CallFails \/ EndOfFile \/ close
  <2>1. (out' = out /\ hist' = hist) \/ \E how \in {"returned", "unwritten", "eof"} : Ended(app.op, how, TRUE)
    BY <1>2 DEF CallBody, CallFails, EndOfFile, close
  <2> QED
    BY <1>0, <2>1
<1>3. CASE recv_deliver
  <2>1. (out' = out /\ hist' = hist) \/ Ended("DELIVER", "returned", TRUE)
    BY <1>3 DEF recv_deliver
  <2> QED
    BY <2>1
<1>4. CASE ~(Open \/ CallBody \/ CallFails \/ EndOfFile \/ close \/ recv_deliver)
  <2>1. out' = out
    BY <1>4 DEF Next, vars, Application, InCall, Heart, Relay, Destroy, Call, Join, BeatBody, BeatStops,
         Handle, Greet, Beat, BeatFails, SendDeliver, Kicked, Lost, Close
  <2>2. (hist.loose => hist'.loose) /\ (hist.discarded => hist'.discarded)
    BY <1>0, <1>4, HistMoves DEF HistType
  <2> QED
    BY <2>1, <2>2
<1> QED
  BY <1>1, <1>2, <1>3, <1>4

LEMMA NoStrayStep ==
  ASSUME RepliesInv, NoStrayReply, [Next]_vars
  PROVE  NoStrayReply'
<1>0. TypesInv /\ Roles /\ HistType /\ DownTypes
  BY DEF RepliesInv, TypesInv, OrderInv
<1>1. CASE ~Drain
  <2>1. CASE out' = out /\ (hist.loose => hist'.loose) /\ (hist.discarded => hist'.discarded)
    BY <2>1 DEF NoStrayReply
  <2>2. CASE out' = NoOutcome
    BY <2>2 DEF NoStrayReply, NoOutcome
  <2>3. ASSUME NEW op \in Ops \cup {"DELIVER"}, NEW how \in {"returned", "unwritten", "eof"}, Ended(op, how, TRUE)
        PROVE  out'.how # "mismatch"
    BY <2>3 DEF Ended
  <2> QED
    BY <1>0, <1>1, <2>1, <2>2, <2>3, OutMoves DEF NoStrayReply
<1>2. CASE Drain
  <2> DEFINE e == Head(down)
  <2>1. /\ down # <<>> /\ down' = Tail(down) /\ app.at = "drain"
        /\ hist' = [hist EXCEPT !.discarded = @ \/ Verdict(e) = "early"]
        /\ IF Verdict(e) = "skip" THEN out' = out
           ELSE out' = [op |-> app.op, how |-> Verdict(e), own |-> e.kind # "reply" \/ e.id = app.frame.id]
    BY <1>2 DEF Drain, Ended
  <2>2. (hist.loose => hist'.loose) /\ (hist.discarded => hist'.discarded)
    BY <1>0, <2>1 DEF HistType
  <2>3. e \in Event /\ e = down[1] /\ 1 \in 1..Len(down) /\ e.kind \in {"deliver", "kick", "reply"}
    <3>1. e \in Event
      BY <1>0, <2>1, HeadType
    <3>2. Len(down) \in Nat \ {0} /\ e = down[1]
      BY <1>0, <2>1, EventRead
    <3> QED
      BY <3>1, <3>2 DEF Event
  <2> HIDE DEF e
  <2>4. CASE Verdict(e) = "skip"
    BY <2>1, <2>2, <2>4 DEF NoStrayReply
  <2>5. ASSUME Verdict(e) = "mismatch" PROVE hist.loose \/ hist.discarded
    <3>1. SUFFICES ASSUME Plain PROVE FALSE
      BY DEF Plain
    <3>2. One
      BY <3>1 DEF RepliesInv, OneRequest
    <3>3. e.kind = "reply"
      BY <2>3, <2>5 DEF Verdict
    <3>4. Telling(e)
      BY <2>5, <3>3 DEF Telling, Verdict, OnReply, expect_heartbeat_ok
    <3>5. Verdict(e) \in {"returned", "refused"}
      BY <1>0, <2>1, <2>3, <3>2, <3>4, TellingVerdict
    <3> QED
      BY <2>5, <3>5
  <2>6. CASE Verdict(e) # "skip"
    <3>1. out'.how = Verdict(e)
      BY <2>1, <2>6
    <3> QED
      BY <2>2, <2>5, <3>1 DEF NoStrayReply
  <2> QED
    BY <2>4, <2>6
<1> QED
  BY <1>1, <1>2

(* An application that awaits every reply is never thrown an unexpected    *)
(* one, whatever the heartbeat thread has on the way, whatever the server  *)
(* refuses, drops or loses, and although sequence numbers wrap.            *)
THEOREM NoStrayReplies == Spec => []NoStrayReply
<1>1. Init => RepliesInv /\ NoStrayReply
  <2>1. Init => NoStrayReply
    BY DEF Init, NoStrayReply, NoOutcome
  <2> QED
    BY <2>1, RepliesInit
<1>2. RepliesInv /\ NoStrayReply /\ [Next]_vars => (RepliesInv /\ NoStrayReply)'
  BY RepliesStep, NoStrayStep
<1> QED
  BY <1>1, <1>2, PTL DEF Spec

-----------------------------------------------------------------------------
(* OwnReply.  drain_server_ack and heartbeat know their reply by its       *)
(* sequence number.  Below the wrap of the numbers every frame has a       *)
(* number of its own, so that the number tells the reply.                  *)

NoWrap == MaxCalls + MaxBeats + 2 < SeqSpace

(* Every number is taken by a call or a beat, or by the write that ended   *)
(* the heartbeat thread.                                                   *)
SeqGrows ==
  /\ used.calls <= MaxCalls /\ used.beats <= MaxBeats
  /\ seq <= 1 + used.calls + used.beats + (IF hb.at = "ended" THEN 1 ELSE 0)

(* x was sent by number s, and is the frame f that is awaited if it has    *)
(* its number.                                                             *)
Tells(x, s, on, f) == x.seq <= s /\ (on /\ x.seq = f.seq => x.id = f.id)

SeqsTell ==
  /\ app.frame.seq <= seq
  /\ hb.at = "body" => Tells(hb.frame, seq, Writing, app.frame)
  /\ server.st = "entered" => Tells(server.login, seq, Writing, app.frame)
  /\ \A i \in 1..Len(up) : Tells(up[i].frame, seq, Writing, app.frame)
  /\ \A i \in 1..Len(down) : down[i].kind = "reply" => Tells(down[i], seq, Writing, app.frame)

LEMMA NextSeqNew ==
  ASSUME NEW s \in Nat, s + 1 < SeqSpace
  PROVE  next_seq(s) = s + 1
<1>1. (s + 1) % SeqSpace = s + 1
  BY ClientAssumption, Z3
<1> QED
  BY <1>1 DEF next_seq

(* A number is taken by a call, *)
LEMMA CallNumber ==
  ASSUME NoWrap, TypesInv, SeqGrows, used.calls < MaxCalls
  PROVE  next_seq(seq) = seq + 1 /\ seq + 1 <= 1 + (used.calls + 1) + used.beats
                                              + (IF hb.at = "ended" THEN 1 ELSE 0)
<1>1. seq \in Nat /\ used.calls \in Nat /\ used.beats \in Nat
  BY DEF TypesInv, OrderInv, WholeInv, WriteTypes, SeqType, Counts
<1>2. seq + 1 < SeqSpace
  BY <1>1, ClientAssumption DEF NoWrap, SeqGrows
<1> QED
  BY <1>1, <1>2, NextSeqNew DEF SeqGrows

(* or by a beat. *)
LEMMA BeatNumber ==
  ASSUME NoWrap, TypesInv, SeqGrows, hb.at = "asleep"
  PROVE  next_seq(seq) = seq + 1 /\ seq + 1 <= 1 + used.calls + used.beats + 1
<1>1. seq \in Nat /\ used.calls \in Nat /\ used.beats \in Nat
  BY DEF TypesInv, OrderInv, WholeInv, WriteTypes, SeqType, Counts
<1>2. seq + 1 < SeqSpace
  BY <1>1, ClientAssumption DEF NoWrap, SeqGrows
<1> QED
  BY <1>1, <1>2, NextSeqNew DEF SeqGrows

LEMMA SeqGrowsStep == ASSUME NoWrap, TypesInv, SeqGrows, [Next]_vars PROVE SeqGrows'
<1>0. /\ seq \in Nat /\ used \in [opens : Nat, calls : Nat, frames : Nat, beats : Nat, delivers : Nat]
      /\ hb \in [at : {"none", "asleep", "body", "ended"}, frame : Frame]
  BY Threads DEF TypesInv, OrderInv, WholeInv, WriteTypes, SeqType, Counts
<1>m. MaxCalls \in Nat /\ MaxBeats \in Nat
  BY ClientAssumption
<1>1. ASSUME seq' = seq, used'.calls = used.calls, used'.beats = used.beats, hb.at = "ended" => hb'.at = "ended"
      PROVE  SeqGrows'
  BY <1>0, <1>1 DEF SeqGrows
<1>2. ASSUME NEW op, NEW wait, Call(op, wait) PROVE SeqGrows'
  <2>1. /\ used.calls < MaxCalls /\ seq' = next_seq(seq) /\ hb' = hb
        /\ used' = [used EXCEPT !.calls = @ + 1, !.frames = @ + 1]
    BY <1>2 DEF Call, WriteHeader, NewFrame
  <2>2. used'.calls = used.calls + 1 /\ used'.beats = used.beats
    BY <1>0, <2>1
  <2> QED
    BY <1>0, <1>m, <2>1, <2>2, CallNumber DEF SeqGrows
<1>3. CASE CallFails
  <2>1. CASE app.at = "idle" /\ used.calls < MaxCalls /\ used' = [used EXCEPT !.calls = @ + 1] /\ seq' = next_seq(seq)
    <3>1. used'.calls = used.calls + 1 /\ used'.beats = used.beats /\ hb' = hb
      BY <1>0, <1>3, <2>1 DEF CallFails
    <3> QED
      BY <1>0, <1>m, <2>1, <3>1, CallNumber DEF SeqGrows
  <2>2. CASE UNCHANGED <<seq, used>>
    BY <1>1, <1>3, <2>2 DEF CallFails
  <2> QED
    BY <1>3, <2>1, <2>2 DEF CallFails
<1>4. CASE Beat
  <2>1. /\ hb.at = "asleep" /\ used.beats < MaxBeats /\ seq' = next_seq(seq) /\ hb'.at = "body"
        /\ used' = [used EXCEPT !.beats = @ + 1, !.frames = @ + 1]
    BY <1>4 DEF Beat, WriteHeader, NewFrame
  <2>2. used'.calls = used.calls /\ used'.beats = used.beats + 1
    BY <1>0, <2>1
  <2> QED
    BY <1>0, <1>m, <2>1, <2>2, BeatNumber DEF SeqGrows
<1>5. CASE BeatFails
  <2>1. hb'.at = "ended" /\ used' = used /\ ((hb.at = "asleep" /\ seq' = next_seq(seq)) \/ seq' = seq)
    BY <1>5 DEF BeatFails, NoBeat
  <2>2. CASE hb.at = "asleep" /\ seq' = next_seq(seq)
    BY <1>0, <2>1, <2>2, BeatNumber DEF SeqGrows
  <2>3. CASE seq' = seq
    BY <1>0, <1>1, <2>1, <2>3
  <2> QED
    BY <2>1, <2>2, <2>3
<1>6. CASE Open \/ SendDeliver
  <2>1. UNCHANGED <<seq, hb>> /\ used'.calls = used.calls /\ used'.beats = used.beats
    BY <1>0, <1>6 DEF Open, SendDeliver
  <2> QED
    BY <1>1, <2>1
<1>7. CASE Drain \/ BeatBody \/ BeatStops
  <2>1. UNCHANGED <<seq, used>> /\ (hb.at = "ended" => hb'.at = "ended")
    BY <1>7 DEF Drain, BeatBody, BeatStops, Started, NoBeat
  <2> QED
    BY <1>1, <2>1
<1>8. CASE recv_deliver \/ Destroy \/ CallBody \/ EndOfFile \/ close \/ Join \/ Relay \/ Kicked \/ Lost \/ UNCHANGED vars
  BY <1>1, <1>8 DEF recv_deliver, Destroy, CallBody, EndOfFile, close, Join, Relay, Handle, Greet, Kicked,
                    Lost, Close, vars
<1> QED
  BY <1>2, <1>3, <1>4, <1>5, <1>6, <1>7, <1>8 DEF Next, Application, InCall, Heart

(* A step leaves the awaited frame alone, or awaits one with a new number. *)
Moved ==
  /\ seq \in Nat /\ seq' \in Nat
  /\ \/ seq' >= seq /\ (Writing' => Writing /\ app'.frame = app.frame)
     \/ seq' > seq /\ app'.frame.seq = seq'

LEMMA StillTells ==
  ASSUME Moved, NEW x, x.seq \in Nat, Tells(x, seq, Writing, app.frame)
  PROVE  Tells(x, seq', Writing', app'.frame)
<1>1. CASE seq' >= seq /\ (Writing' => Writing /\ app'.frame = app.frame)
  BY <1>1 DEF Moved, Tells
<1>2. CASE seq' > seq /\ app'.frame.seq = seq'
  BY <1>2 DEF Moved, Tells
<1> QED
  BY <1>1, <1>2 DEF Moved

LEMMA SeqMoves ==
  ASSUME NoWrap, TypesInv, SeqGrows, SeqsTell, [Next]_vars
  PROVE  Moved /\ app'.frame.seq <= seq'
<1>0. /\ app \in [at : {"idle", "body", "drain", "shut", "joining", "gone"},
                  op : Ops \cup {"DELIVER"}, frame : Frame, wait : BOOLEAN]
      /\ seq \in Nat /\ app.frame.seq \in Nat /\ app.frame.seq <= seq
  BY Threads DEF TypesInv, OrderInv, WholeInv, WriteTypes, SeqType, SeqsTell, Frame
<1>1. Idle.frame.seq = 0 /\ Idle.at = "idle"
  BY DEF Idle, NoFrame
<1> DEFINE Ends == app'.frame.seq = 0 /\ ~Writing'
           GoesOn == app' = [app EXCEPT !.at = "drain"] /\ app.at = "body"
           Leaves == app' = [app EXCEPT !.at = "shut"] \/ app' = [app EXCEPT !.at = "gone"]
<1>2. ASSUME seq' \in {seq, seq + 1}, app' = app \/ GoesOn \/ Ends \/ Leaves
      PROVE  Moved /\ app'.frame.seq <= seq'
  <2>1. CASE app' = app
    BY <1>0, <1>2, <2>1 DEF Moved, Writing
  <2>2. CASE GoesOn
    <3>1. app'.frame = app.frame /\ app'.op = app.op
      BY <1>0, <2>2
    <3> QED
      BY <1>0, <1>2, <2>2, <3>1 DEF Moved, Writing
  <2>3. CASE Ends
    BY <1>0, <1>2, <2>3 DEF Moved
  <2>4. CASE Leaves
    <3>1. app'.frame = app.frame /\ app'.at \in {"shut", "gone"}
      BY <1>0, <2>4
    <3> QED
      BY <1>0, <1>2, <3>1 DEF Moved, Writing
  <2> QED
    BY <1>2, <2>1, <2>2, <2>3, <2>4
<1> HIDE DEF Ends, GoesOn, Leaves
<1>i. app' = Idle => Ends
  BY <1>1 DEF Ends, Writing
<1>3. ASSUME NEW op, NEW wait, Call(op, wait) PROVE Moved /\ app'.frame.seq <= seq'
  <2>1. used.calls < MaxCalls /\ seq' = next_seq(seq) /\ app'.frame.seq = next_seq(seq)
    BY <1>3 DEF Call, WriteHeader, NewFrame
  <2>2. seq' = seq + 1 /\ app'.frame.seq = seq'
    BY <2>1, CallNumber
  <2> QED
    BY <1>0, <2>2 DEF Moved
<1>4. CASE CallFails
  <2>1. app' = Idle /\ ((used.calls < MaxCalls /\ seq' = next_seq(seq)) \/ seq' = seq)
    BY <1>4 DEF CallFails
  <2>2. seq' \in {seq, seq + 1} /\ Ends
    BY <1>i, <2>1, CallNumber
  <2> QED
    BY <1>2, <2>2
<1>5. CASE Beat \/ BeatFails
  <2>1. app' = app /\ ((hb.at = "asleep" /\ seq' = next_seq(seq)) \/ seq' = seq)
    BY <1>5 DEF Beat, BeatFails, WriteHeader, NewFrame
  <2>2. seq' \in {seq, seq + 1}
    BY <2>1, BeatNumber
  <2> QED
    BY <1>2, <2>1, <2>2
<1>6. CASE Drain \/ CallBody \/ EndOfFile \/ close \/ Join
  <2>1. CASE Drain \/ close
    BY <1>2, <1>i, <2>1 DEF Drain, close
  <2>2. CASE CallBody
    <3>1. seq' = seq /\ app.at = "body" /\ (app' = Idle \/ app' = [app EXCEPT !.at = "drain"])
      BY <2>2 DEF CallBody
    <3> QED
      BY <1>2, <1>i, <3>1 DEF GoesOn
  <2>3. CASE EndOfFile \/ Join
    <3>1. seq' = seq /\ (app' = Idle \/ Leaves)
      BY <2>3 DEF EndOfFile, Join, Leaves
    <3> QED
      BY <1>2, <1>i, <3>1
  <2> QED
    BY <1>6, <2>1, <2>2, <2>3
<1>7. CASE Open \/ BeatBody \/ BeatStops \/ Relay \/ SendDeliver \/ Kicked \/ Lost \/ UNCHANGED vars
  <2>1. seq' = seq /\ app' = app
    BY <1>7 DEF Open, BeatBody, BeatStops, Relay, Handle, Greet, SendDeliver, Kicked, Lost, Close, vars
  <2> QED
    BY <1>2, <2>1
<1>8. CASE recv_deliver \/ Destroy
  <2>1. seq' = seq
    BY <1>8 DEF recv_deliver, Destroy
  <2>2. CASE app' = app
    BY <1>2, <2>1, <2>2
  <2>3. CASE app' = [Idle EXCEPT !.at = "drain", !.op = "DELIVER"]
    <3>1. app'.frame = NoFrame /\ app'.op = "DELIVER"
      BY <2>3 DEF Idle
    <3> QED
      BY <1>2, <2>1, <3>1 DEF Ends, Writing, NoFrame
  <2>4. CASE app' = [Idle EXCEPT !.at = "joining"]
    <3>1. app'.frame = NoFrame /\ app'.at = "joining"
      BY <2>4 DEF Idle
    <3> QED
      BY <1>2, <2>1, <3>1 DEF Ends, Writing, NoFrame
  <2> QED
    BY <1>8, <2>2, <2>3, <2>4 DEF recv_deliver, Destroy
<1> QED
  BY <1>3, <1>4, <1>5, <1>6, <1>7, <1>8 DEF Next, Application, InCall, Heart

(* What was on the way still tells. *)
LEMMA HalvesTell ==
  ASSUME UpTypes, Moved, \A i \in 1..Len(up) : Tells(up[i].frame, seq, Writing, app.frame)
  PROVE  \A i \in 1..Len(up) : Tells(up[i].frame, seq', Writing', app'.frame)
<1>1. ASSUME NEW i \in 1..Len(up) PROVE up[i].frame.seq \in Nat
  <2> DEFINE H == [part : Parts, frame : Frame]
  <2>1. up \in Seq(H)
    BY DEF UpTypes
  <2> HIDE DEF H
  <2>2. up[i] \in H
    BY <2>1
  <2>3. up[i].frame \in Frame
    BY <2>2 DEF H
  <2> QED
    BY <2>3 DEF Frame
<1> QED
  BY <1>1, StillTells

LEMMA EventsTell ==
  ASSUME DownTypes, Moved,
         \A i \in 1..Len(down) : down[i].kind = "reply" => Tells(down[i], seq, Writing, app.frame)
  PROVE  \A i \in 1..Len(down) : down[i].kind = "reply" => Tells(down[i], seq', Writing', app'.frame)
<1>1. ASSUME NEW i \in 1..Len(down) PROVE down[i].seq \in Nat
  <2>1. down[i] \in Event
    BY DEF DownTypes
  <2> QED
    BY <2>1 DEF Event
<1> QED
  BY <1>1, StillTells

(* So do the frames that join it. *)
LEMMA UpTells ==
  ASSUME UpTypes, Moved, \A i \in 1..Len(up) : Tells(up[i].frame, seq, Writing, app.frame),
         \/ up' = up \/ up' = <<>> \/ (Len(up) >= 2 /\ up' = Tail(Tail(up)))
         \/ \E p \in Parts, g \in Frame : up' = Append(up, Part(p, g)) /\ Tells(g, seq', Writing', app'.frame)
  PROVE  \A i \in 1..Len(up') : Tells(up'[i].frame, seq', Writing', app'.frame)
<1>2. \A i \in 1..Len(up) : Tells(up[i].frame, seq', Writing', app'.frame)
  BY HalvesTell
<1>3. CASE up' = up \/ up' = <<>>
  BY <1>2, <1>3
<1>4. CASE Len(up) >= 2 /\ up' = Tail(Tail(up))
  BY <1>2, <1>4, HandledShape
<1>5. ASSUME NEW p \in Parts, NEW g \in Frame, up' = Append(up, Part(p, g)), Tells(g, seq', Writing', app'.frame)
      PROVE  \A i \in 1..Len(up') : Tells(up'[i].frame, seq', Writing', app'.frame)
  <2>1. /\ Len(up') = Len(up) + 1 /\ Len(up) \in Nat
        /\ \A i \in 1..Len(up) : up'[i] = up[i]
        /\ up'[Len(up) + 1].frame = g
    BY <1>5, HalfAdded
  <2>2. \A i \in 1..Len(up') : i = Len(up) + 1 \/ i \in 1..Len(up)
    BY <2>1
  <2> QED
    BY <1>2, <1>5, <2>1, <2>2
<1> QED
  BY <1>3, <1>4, <1>5

LEMMA DownTells ==
  ASSUME DownTypes, Moved,
         \A i \in 1..Len(down) : down[i].kind = "reply" => Tells(down[i], seq, Writing, app.frame),
         \/ down' = down \/ down' = <<>> \/ (down # <<>> /\ down' = Tail(down))
         \/ \E last \in {<<>>, <<KickEvent>>} : Closes(last)
         \/ \E e \in Event : /\ down' = Append(down, e)
                             /\ e.kind = "reply" => Tells(e, seq', Writing', app'.frame)
  PROVE  \A i \in 1..Len(down') : down'[i].kind = "reply" => Tells(down'[i], seq', Writing', app'.frame)
<1>2. \A i \in 1..Len(down) : down[i].kind = "reply" => Tells(down[i], seq', Writing', app'.frame)
  BY EventsTell
<1>3. CASE down' = down \/ down' = <<>>
  BY <1>2, <1>3
<1>4. CASE down # <<>> /\ down' = Tail(down)
  BY <1>2, <1>4, EventRead
<1>5. ASSUME NEW last \in {<<>>, <<KickEvent>>}, Closes(last)
      PROVE  \A i \in 1..Len(down') : down'[i].kind = "reply" => Tells(down'[i], seq', Writing', app'.frame)
  <2>1. KickEvent.kind # "reply"
    BY DEF KickEvent
  <2>2. \A i \in 1..Len(down') : down'[i].kind = "reply" => i \in 1..Len(down) /\ down'[i] = down[i]
    BY <1>5, <2>1, LostShape
  <2> QED
    BY <1>2, <2>2
<1>6. ASSUME NEW e \in Event, down' = Append(down, e), e.kind = "reply" => Tells(e, seq', Writing', app'.frame)
      PROVE  \A i \in 1..Len(down') : down'[i].kind = "reply" => Tells(down'[i], seq', Writing', app'.frame)
  <2>1. /\ Len(down') = Len(down) + 1 /\ Len(down) \in Nat
        /\ \A i \in 1..Len(down) : down'[i] = down[i]
        /\ down'[Len(down) + 1] = e
    BY <1>6, EventAdded
  <2>2. \A i \in 1..Len(down') : i = Len(down) + 1 \/ i \in 1..Len(down)
    BY <2>1
  <2> QED
    BY <1>2, <1>6, <2>1, <2>2
<1> QED
  BY <1>3, <1>4, <1>5, <1>6

LEMMA SeqsTellStep == ASSUME NoWrap, TypesInv, Roles, SeqGrows, SeqsTell, [Next]_vars PROVE SeqsTell'
<1> DEFINE T(x) == Tells(x, seq', Writing', app'.frame)
           UpT == \A i \in 1..Len(up') : T(up'[i].frame)
           DownT == \A i \in 1..Len(down') : down'[i].kind = "reply" => T(down'[i])
           HbT == hb'.at = "body" => T(hb'.frame)
           LoginT == server'.st = "entered" => T(server'.login)
<1>0. /\ Moved /\ app'.frame.seq <= seq' /\ UpTypes /\ DownTypes /\ seq \in Nat
      /\ app.frame \in Frame /\ hb.frame \in Frame /\ server.login \in Frame
      /\ app.frame.seq \in Nat /\ hb.frame.seq \in Nat /\ server.login.seq \in Nat
  <2>1. server.login \in Frame
    BY DEF TypesInv, OrderInv, ServerTypes
  <2>2. Moved /\ app'.frame.seq <= seq'
    BY SeqMoves
  <2>3. UpTypes /\ DownTypes /\ seq \in Nat
    BY DEF TypesInv, OrderInv, WholeInv, WriteTypes, SeqType
  <2>4. app.frame \in Frame /\ hb.frame \in Frame
    BY Threads
  <2> QED
    BY <2>1, <2>2, <2>3, <2>4 DEF Frame
<1>u. \A i \in 1..Len(up) : Tells(up[i].frame, seq, Writing, app.frame)
  BY DEF SeqsTell
<1>d. \A i \in 1..Len(down) : down[i].kind = "reply" => Tells(down[i], seq, Writing, app.frame)
  BY DEF SeqsTell
<1>g. SUFFICES UpT /\ DownT /\ HbT /\ LoginT
  BY <1>0 DEF SeqsTell
<1>e. /\ \A i \in 1..Len(up) : T(up[i].frame)
      /\ \A i \in 1..Len(down) : down[i].kind = "reply" => T(down[i])
  BY <1>0, <1>u, <1>d, HalvesTell, EventsTell
<1>1. hb.at = "body" => T(hb.frame)
  BY <1>0, StillTells DEF SeqsTell
<1>2. server.st = "entered" => T(server.login)
  BY <1>0, StillTells DEF SeqsTell
<1>3. T(app.frame)
  <2>1. Tells(app.frame, seq, Writing, app.frame)
    BY DEF SeqsTell, Tells
  <2> QED
    BY <1>0, <2>1, StillTells
<1>p. "header" \in Parts /\ "body" \in Parts
  BY DEF Parts
<1> HIDE DEF T
<1>a. ASSUME up' = up PROVE UpT
  BY <1>a, <1>e
<1>b. ASSUME NEW p \in Parts, NEW g \in Frame, T(g), up' = OnUplink(Part(p, g)) PROVE UpT
  <2>1. CASE up' = up
    BY <1>a, <2>1
  <2>2. CASE up' = Append(up, Part(p, g))
    BY <1>0, <1>u, <1>b, <2>2, UpTells DEF T
  <2> QED
    BY <1>b, <2>1, <2>2 DEF OnUplink
<1>c. ASSUME down' = down, server' = server PROVE DownT /\ LoginT
  <2>1. DownT
    BY <1>c, <1>e
  <2> QED
    BY <1>2, <1>c, <2>1
<1>h. ASSUME UNCHANGED hb PROVE HbT
  BY <1>1, <1>h
<1>n. ASSUME NEW at \in {"asleep", "ended"}, hb' = NoBeat(at) PROVE HbT
  BY <1>n DEF NoBeat
<1>o. NewFrame("HEARTBEAT") \in Frame /\ \A op \in Ops : NewFrame(op) \in Frame
  <2>1. SeqType /\ Counts /\ "HEARTBEAT" \in Ops
    BY DEF TypesInv, OrderInv, WholeInv, WriteTypes, Ops
  <2> QED
    BY <2>1, NewFrameType
<1>4. CASE Open
  <2>1. up' = <<>> /\ down' = <<>> /\ hb' = hb /\ server'.st = "accepted"
    BY <1>4 DEF Open, Server
  <2> QED
    BY <1>h, <2>1
<1>5. ASSUME NEW op \in Ops, NEW wait, Call(op, wait) PROVE UpT /\ DownT /\ HbT /\ LoginT
  <2>1. /\ app'.frame = NewFrame(op) /\ seq' = NewFrame(op).seq /\ UNCHANGED <<hb, down, server>>
        /\ up' = OnUplink(Part("header", NewFrame(op)))
    BY <1>5 DEF Call, WriteHeader
  <2>2. T(NewFrame(op))
    BY <1>0, <2>1 DEF T, Tells
  <2> QED
    BY <1>b, <1>c, <1>h, <1>o, <1>p, <2>1, <2>2
<1>6. CASE CallBody
  <2>1. up' = OnUplink(Part("body", app.frame)) /\ UNCHANGED <<hb, down, server>>
    BY <1>6 DEF CallBody, WriteBody
  <2> QED
    BY <1>0, <1>3, <1>b, <1>c, <1>h, <1>p, <2>1
<1>7. CASE Beat
  <2>1. /\ hb.at = "asleep" /\ seq' = NewFrame("HEARTBEAT").seq /\ UNCHANGED <<app, down, server>>
        /\ hb'.frame = NewFrame("HEARTBEAT") /\ up' = OnUplink(Part("header", NewFrame("HEARTBEAT")))
    BY <1>7 DEF Beat, WriteHeader
  <2>2. NewFrame("HEARTBEAT").seq = seq + 1
    BY <2>1, BeatNumber DEF NewFrame
  <2>3. T(NewFrame("HEARTBEAT"))
    BY <1>0, <2>1, <2>2 DEF T, Tells, SeqsTell
  <2> QED
    BY <1>b, <1>c, <1>o, <1>p, <2>1, <2>3
<1>8. CASE BeatBody
  <2>1. hb.at = "body" /\ up' = OnUplink(Part("body", hb.frame)) /\ UNCHANGED <<down, server>>
        /\ \E at \in {"asleep", "ended"} : hb' = NoBeat(at)
    BY <1>8 DEF BeatBody, WriteBody, AfterBeat
  <2> QED
    BY <1>0, <1>1, <1>b, <1>c, <1>n, <1>p, <2>1
<1>9. CASE BeatFails \/ BeatStops
  <2>1. hb' = NoBeat("ended") /\ UNCHANGED <<up, down, server>>
    BY <1>9 DEF BeatFails, BeatStops
  <2> QED
    BY <1>a, <1>c, <1>n, <2>1
<1>10. CASE Drain
  <2>1. down # <<>> /\ down' = Tail(down) /\ UNCHANGED <<up, server>> /\ (hb' = hb \/ hb' = NoBeat("asleep"))
    BY <1>10 DEF Drain, Started
  <2>2. DownT
    BY <1>0, <1>d, <2>1, DownTells DEF T
  <2>3. LoginT
    BY <1>2, <2>1
  <2>4. HbT
    BY <1>h, <1>n, <2>1
  <2> QED
    BY <1>a, <2>1, <2>2, <2>3, <2>4
<1>11. ASSUME NEW last \in {<<>>, <<KickEvent>>}, Closes(last), UNCHANGED hb PROVE UpT /\ DownT /\ HbT /\ LoginT
  <2>1. up' = <<>> /\ server'.st = "closed"
    BY <1>11 DEF Closes, Server
  <2>2. DownT
    BY <1>0, <1>d, <1>11, DownTells DEF T
  <2> QED
    BY <1>h, <1>11, <2>1, <2>2
<1>12. ASSUME NEW f \in Frame, NEW res \in {"ok", "error"}, T(f), Answer(f, res) PROVE DownT
  <2>1. Reply(f, res) \in Event
    BY ReplyType
  <2>2. T(Reply(f, res))
    BY <1>12 DEF T, Tells, Reply
  <2>3. CASE down' = down
    BY <1>e, <2>3
  <2>4. CASE down' = Append(down, Reply(f, res))
    BY <1>0, <1>d, <2>1, <2>2, <2>4, DownTells DEF T
  <2> QED
    BY <1>12, <2>3, <2>4 DEF Answer
<1>13. CASE Handle
  <2> DEFINE f == up[1].frame
  <2>1. Len(up) >= 2 /\ UNCHANGED hb
    BY <1>13 DEF Handle
  <2>2. f \in Frame
    BY <1>0, <2>1, FirstFrame
  <2>3. T(f)
    <3>1. Tells(f, seq, Writing, app.frame) /\ f.seq \in Nat
      <4>1. Len(up) \in Nat /\ 1 \in 1..Len(up)
        BY <1>0, <2>1 DEF UpTypes
      <4> QED
        BY <1>u, <2>2, <4>1 DEF Frame
    <3> QED
      BY <1>0, <3>1, StillTells DEF T
  <2>4. ASSUME up' = Tail(Tail(up)) PROVE UpT
    BY <1>0, <1>u, <2>1, <2>4, UpTells DEF T
  <2>5. CASE Closes(<<>>)
    BY <1>11, <2>1, <2>5
  <2>6. CASE (\E res \in {"ok", "error"} : Answer(f, res)) /\ up' = Tail(Tail(up)) /\ UNCHANGED server
    BY <1>2, <1>12, <1>h, <2>1, <2>2, <2>3, <2>4, <2>6
  <2>7. CASE server' = [st |-> "entered", login |-> f] /\ up' = Tail(Tail(up)) /\ down' = down
    <3>1. DownT
      BY <1>e, <2>7
    <3>2. LoginT
      BY <2>3, <2>7
    <3> QED
      BY <1>h, <2>1, <2>4, <2>7, <3>1, <3>2
  <2>8. \A res \in Verdicts(f) : res \in {"ok", "error"}
    BY <2>2 DEF Verdicts, Frame
  <2> QED
    BY <1>13, <2>5, <2>6, <2>7, <2>8 DEF Handle
<1>14. CASE Greet
  <2>1. server.st = "entered" /\ Answer(server.login, "ok") /\ server'.st = "in" /\ UNCHANGED <<up, hb>>
    BY <1>14 DEF Greet, Server
  <2>2. DownT
    BY <1>0, <1>2, <1>12, <2>1
  <2> QED
    BY <1>a, <1>h, <2>1, <2>2
<1>15. CASE SendDeliver
  <2>1. Deliver(used.delivers + 1) \in Event /\ Deliver(used.delivers + 1).kind # "reply"
    BY DEF Deliver, Event, TypesInv, OrderInv, WholeInv, WriteTypes, Counts
  <2>2. down' = Append(down, Deliver(used.delivers + 1)) /\ UNCHANGED <<up, hb, server>>
    BY <1>15 DEF SendDeliver
  <2>3. DownT
    BY <1>0, <1>d, <2>1, <2>2, DownTells DEF T
  <2>4. LoginT
    BY <1>2, <2>2
  <2> QED
    BY <1>a, <1>h, <2>2, <2>3, <2>4
<1>16. CASE Kicked \/ Lost
  BY <1>11, <1>16 DEF Kicked, Lost, Close
<1>17. CASE recv_deliver \/ Destroy \/ CallFails \/ EndOfFile \/ close \/ Join \/ UNCHANGED vars
  <2>1. UNCHANGED <<hb, up, down, server>>
    BY <1>17 DEF recv_deliver, Destroy, CallFails, EndOfFile, close, Join, vars
  <2> QED
    BY <1>a, <1>c, <1>h, <2>1
<1> HIDE DEF UpT, DownT, HbT, LoginT
<1> QED
  BY <1>4, <1>5, <1>6, <1>7, <1>8, <1>9, <1>10, <1>13, <1>14, <1>15, <1>16, <1>17
     DEF Next, Application, InCall, Heart, Relay

NumbersInv == RepliesInv /\ SeqGrows /\ SeqsTell

LEMMA OwnReplyStep ==
  ASSUME NumbersInv, OwnReply, [Next]_vars
  PROVE  OwnReply'
<1>0. TypesInv /\ Roles /\ HistType /\ DownTypes
  BY DEF NumbersInv, RepliesInv, TypesInv, OrderInv
<1>1. CASE ~Drain
  <2>1. CASE out' = out /\ (hist.loose => hist'.loose) /\ (hist.discarded => hist'.discarded)
    BY <2>1 DEF OwnReply
  <2>2. CASE out' = NoOutcome
    BY <2>2 DEF OwnReply, NoOutcome
  <2>3. ASSUME NEW op \in Ops \cup {"DELIVER"}, NEW how \in {"returned", "unwritten", "eof"}, Ended(op, how, TRUE)
        PROVE  out'.own
    BY <2>3 DEF Ended
  <2> QED
    BY <1>0, <1>1, <2>1, <2>2, <2>3, OutMoves DEF OwnReply
<1>2. CASE Drain
  <2> DEFINE e == Head(down)
             mine == e.kind # "reply" \/ e.id = app.frame.id
  <2>1. /\ down # <<>> /\ down' = Tail(down) /\ app.at = "drain"
        /\ hist' = [hist EXCEPT !.discarded = @ \/ Verdict(e) = "early"]
        /\ IF Verdict(e) = "skip" THEN out' = out
           ELSE out' = [op |-> app.op, how |-> Verdict(e), own |-> mine]
    BY <1>2 DEF Drain, Ended
  <2>2. (hist.loose => hist'.loose) /\ (hist.discarded => hist'.discarded)
    BY <1>0, <2>1 DEF HistType
  <2>3. e \in Event /\ e = down[1] /\ 1 \in 1..Len(down) /\ e.kind \in {"deliver", "kick", "reply"}
    <3>1. e \in Event
      BY <1>0, <2>1, HeadType
    <3>2. Len(down) \in Nat \ {0} /\ e = down[1]
      BY <1>0, <2>1, EventRead
    <3> QED
      BY <3>1, <3>2 DEF Event
  <2>4. app.op \in Ops \cup {"DELIVER"} /\ (app.op # "DELIVER" => Writing)
    BY <1>0, <2>1, Threads DEF Writing
  <2>t. e.kind = "reply" => Tells(e, seq, Writing, app.frame)
    BY <2>3 DEF NumbersInv, SeqsTell
  <2> HIDE DEF e
  <2>5. CASE Verdict(e) = "skip"
    BY <2>1, <2>2, <2>5 DEF OwnReply
  <2>6. ASSUME Verdict(e) \in {"returned", "refused"}, e.kind = "reply"
        PROVE  e.id = app.frame.id \/ (app.op = "LOGIN" /\ (hist.discarded \/ hist.loose))
    <3>1. Verdict(e) = OnReply(e)
      BY <2>6 DEF Verdict
    <3>2. CASE app.op = "LOGIN"
      <4>1. SUFFICES ASSUME Plain PROVE e.id = app.frame.id
        BY <3>2 DEF Plain
      <4>2. Telling(e)
        BY <2>6, <3>1, <3>2 DEF Telling, OnReply
      <4>3. One
        BY <4>1 DEF NumbersInv, RepliesInv, OneRequest
      <4> QED
        BY <1>0, <2>1, <2>3, <4>2, <4>3, TellingVerdict DEF Answers
    <3>3. ASSUME IsMine(e), app.op # "DELIVER" PROVE e.id = app.frame.id
      BY <2>4, <2>6, <2>t, <3>3 DEF IsMine, Tells
    <3>4. CASE app.op = "HEARTBEAT"
      <4>1. IsMine(e)
        BY <2>6, <3>1, <3>4 DEF OnReply, expect_heartbeat_ok
      <4> QED
        BY <3>3, <3>4, <4>1
    <3>5. CASE app.op \in {"DATA", "CONTROL"}
      <4>1. OnReply(e) = IF HeartbeatOk(e) THEN "skip" ELSE drain_server_ack(e)
        BY <3>5 DEF OnReply
      <4>2. IsMine(e)
        BY <2>6, <3>1, <4>1 DEF drain_server_ack
      <4> QED
        BY <3>3, <3>5, <4>2
    <3>6. app.op # "DELIVER"
      BY <2>6, <3>1 DEF OnReply
    <3> QED
      BY <2>4, <3>2, <3>4, <3>5, <3>6 DEF Ops
  <2>7. CASE Verdict(e) # "skip"
    <3>1. out'.how = Verdict(e) /\ out'.op = app.op /\ out'.own = mine
      BY <2>1, <2>7
    <3>2. out'.how \in {"returned", "refused"} => mine \/ (app.op = "LOGIN" /\ (hist.discarded \/ hist.loose))
      BY <2>6, <3>1
    <3> HIDE DEF mine
    <3> QED
      BY <2>2, <3>1, <3>2 DEF OwnReply
  <2> QED
    BY <2>5, <2>7
<1> QED
  BY <1>1, <1>2

(* A call that awaits a reply returns, or throws a refusal, on the reply   *)
(* to its own request: as long as the sequence numbers do not wrap the     *)
(* comparison in drain_server_ack and heartbeat cannot take the reply to   *)
(* another request, and sign_on, which compares nothing, meets no other on *)
(* a connection where every request was awaited.                           *)
THEOREM RepliesAreOwn ==
  ASSUME NoWrap
  PROVE  Spec => []OwnReply
<1>1. Init => NumbersInv /\ OwnReply
  <2>1. Init => OwnReply
    BY DEF Init, OwnReply, NoOutcome
  <2>2. Init => SeqGrows /\ SeqsTell
    BY ClientAssumption DEF Init, SeqGrows, SeqsTell, Idle, NoFrame, NoBeat, Server
  <2> QED
    BY <2>1, <2>2, RepliesInit DEF NumbersInv
<1>2. NumbersInv /\ OwnReply /\ [Next]_vars => (NumbersInv /\ OwnReply)'
  <2>1. NumbersInv /\ [Next]_vars => NumbersInv'
    BY RepliesStep, SeqGrowsStep, SeqsTellStep DEF NumbersInv, RepliesInv
  <2> QED
    BY <2>1, OwnReplyStep
<1> QED
  BY <1>1, <1>2, PTL DEF Spec

=============================================================================
