---------------------------- MODULE OutboxProofs ----------------------------
(* What reaches the wire of a session, and in which order, for every       *)
(* configuration, every frame size and every number of calls; and that a   *)
(* session implements the outbox of module Outbox.                         *)
EXTENDS SessionProofs, ListsProofs

LEMMA AppendGrows ==
  ASSUME NEW S, NEW s \in Seq(S), NEW x \in S
  PROVE  /\ Append(s, x) \in Seq(S)
         /\ Len(Append(s, x)) = Len(s) + 1
         /\ Append(s, x) # <<>>
         /\ \A i \in 1..Len(s) : Append(s, x)[i] = s[i]
         /\ Append(s, x)[Len(s) + 1] = x
<1>1. Len(Append(s, x)) = Len(s) + 1 /\ Len(s) \in Nat /\ Len(<<>>) = 0
  OBVIOUS
<1>2. Append(s, x) # <<>>
  BY <1>1
<1> QED
  BY <1>1, <1>2

LEMMA SameLists ==
  ASSUME NEW S, NEW s \in Seq(S), NEW t \in Seq(S), Len(s) = Len(t),
         \A i \in 1..Len(s) : s[i] = t[i]
  PROVE  s = t
<1>1. s \in [1..Len(s) -> S] /\ t \in [1..Len(s) -> S]
  OBVIOUS
<1> QED
  BY <1>1

-----------------------------------------------------------------------------
(* The frames posted to the strand and not yet looked at are numbered in   *)
(* the order of posting.                                                   *)

Ids(s) == {s[i].frame.id : i \in {j \in 1..Len(s) : s[j].op = "send"}}

Numbered(s, n) ==
  \A i \in 1..Len(s) : s[i].op = "send" =>
    /\ s[i].frame.id \in 1..n
    /\ \A j \in 1..(i - 1) : s[j].op = "send" => s[j].frame.id < s[i].frame.id

StrandIds == Numbered(strand, sends)

LEMMA PostedIds == Posted = Ids(strand) /\ Posted' = Ids(strand')
  BY DEF Posted, Ids

LEMMA IdTypes ==
  ASSUME NEW s \in Seq(Task), NEW n \in Nat, Numbered(s, n)
  PROVE  Ids(s) \subseteq 1..n
  BY DEF Ids, Numbered

LEMMA IdsAppend ==
  ASSUME NEW s \in Seq(Task), NEW t \in Task, NEW n \in Nat, Numbered(s, n)
  PROVE  /\ t.op # "send" => Ids(Append(s, t)) = Ids(s) /\ Numbered(Append(s, t), n)
         /\ t.op = "send" /\ t.frame.id = n + 1 =>
              /\ Ids(Append(s, t)) = Ids(s) \cup {n + 1}
              /\ Numbered(Append(s, t), n + 1)
<1> DEFINE u == Append(s, t)
<1>1. /\ Len(u) = Len(s) + 1
      /\ \A i \in 1..Len(s) : u[i] = s[i]
      /\ u[Len(s) + 1] = t
      /\ Len(s) \in Nat
  OBVIOUS
<1> HIDE DEF u
<1>2. CASE t.op # "send"
  <2>1. Ids(u) = Ids(s)
    BY <1>1, <1>2 DEF Ids
  <2>2. Numbered(u, n)
    BY <1>1, <1>2 DEF Numbered
  <2> QED
    BY <1>2, <2>1, <2>2 DEF u
<1>3. CASE t.op = "send" /\ t.frame.id = n + 1
  <2>1. Ids(u) = Ids(s) \cup {n + 1}
    <3>1. ASSUME NEW x \in Ids(u) PROVE x \in Ids(s) \cup {n + 1}
      BY <1>1, <1>3 DEF Ids
    <3>2. ASSUME NEW x \in Ids(s) PROVE x \in Ids(u)
      BY <1>1, <1>3 DEF Ids
    <3>3. n + 1 \in Ids(u)
      <4>1. Len(u) \in 1..Len(u) /\ u[Len(u)] = t
        BY <1>1
      <4> QED
        BY <4>1, <1>3 DEF Ids
    <3> QED
      BY <3>1, <3>2, <3>3
  <2>2. ASSUME NEW i \in 1..Len(u), u[i].op = "send"
        PROVE  /\ u[i].frame.id \in 1..(n + 1)
               /\ \A j \in 1..(i - 1) : u[j].op = "send" => u[j].frame.id < u[i].frame.id
    <3>1. CASE i \in 1..Len(s)
      BY <1>1, <2>2, <3>1 DEF Numbered
    <3>2. CASE i = Len(s) + 1
      BY <1>1, <1>3, <3>2 DEF Numbered
    <3> QED
      BY <1>1, <3>1, <3>2
  <2> QED
    BY <1>3, <2>1, <2>2 DEF u, Numbered
<1> QED
  BY <1>2, <1>3 DEF u

(* The task at the front carries the least of the posted numbers. *)
LEMMA IdsTail ==
  ASSUME NEW s \in Seq(Task), s # <<>>, NEW n \in Nat, Numbered(s, n)
  PROVE  /\ Numbered(Tail(s), n)
         /\ Head(s).op # "send" => Ids(Tail(s)) = Ids(s)
         /\ Head(s).op = "send" =>
              /\ Head(s).frame.id \in 1..n
              /\ Ids(s) = Ids(Tail(s)) \cup {Head(s).frame.id}
              /\ \A p \in Ids(Tail(s)) : Head(s).frame.id < p
<1> DEFINE u == Tail(s)
<1>1. /\ Len(s) = Len(u) + 1
      /\ Len(u) \in Nat
      /\ \A i \in 1..Len(u) : u[i] = s[i + 1]
      /\ Head(s) = s[1]
  OBVIOUS
<1> HIDE DEF u
<1>2. ASSUME NEW i \in 1..Len(u), u[i].op = "send"
      PROVE  /\ u[i].frame.id \in 1..n
             /\ \A j \in 1..(i - 1) : u[j].op = "send" => u[j].frame.id < u[i].frame.id
             /\ s[1].op = "send" => s[1].frame.id < u[i].frame.id
  <2>1. i + 1 \in 1..Len(s) /\ s[i + 1].op = "send" /\ u[i] = s[i + 1] /\ 1 \in 1..i
    BY <1>1, <1>2
  <2>2. /\ s[i + 1].frame.id \in 1..n
        /\ \A k \in 1..i : s[k].op = "send" => s[k].frame.id < s[i + 1].frame.id
    <3>1. (i + 1) - 1 = i
      OBVIOUS
    <3> QED
      BY <2>1, <3>1 DEF Numbered
  <2>3. ASSUME NEW j \in 1..(i - 1) PROVE u[j] = s[j + 1] /\ j + 1 \in 1..i
    BY <1>1
  <2> QED
    BY <2>1, <2>2, <2>3
<1>3. Numbered(u, n)
  BY <1>2 DEF Numbered
<1>4. \A p \in Ids(u) : s[1].op = "send" => s[1].frame.id < p
  BY <1>2 DEF Ids
<1>5. ASSUME NEW p \in Ids(u) PROVE p \in Ids(s)
  <2>1. PICK i \in 1..Len(u) : u[i].op = "send" /\ p = u[i].frame.id
    BY DEF Ids
  <2>2. i + 1 \in 1..Len(s) /\ s[i + 1] = u[i]
    BY <1>1
  <2> QED
    BY <2>1, <2>2 DEF Ids
<1>6. ASSUME NEW p \in Ids(s) PROVE p \in Ids(u) \/ (s[1].op = "send" /\ p = s[1].frame.id)
  <2>1. PICK i \in 1..Len(s) : s[i].op = "send" /\ p = s[i].frame.id
    BY DEF Ids
  <2>2. CASE i = 1
    BY <2>1, <2>2
  <2>3. CASE i # 1
    <3>1. i - 1 \in 1..Len(u) /\ u[i - 1] = s[i]
      BY <1>1, <2>3
    <3> QED
      BY <2>1, <3>1 DEF Ids
  <2> QED
    BY <2>2, <2>3
<1>7. 1 \in 1..Len(s)
  BY <1>1
<1>8. s[1].op = "send" => s[1].frame.id \in 1..n /\ s[1].frame.id \in Ids(s)
  BY <1>7 DEF Numbered, Ids
<1> QED
  BY <1>1, <1>3, <1>4, <1>5, <1>6, <1>8 DEF u

(* How a step moves the posted frames: one is added with the next number,  *)
(* the first is taken, or none changes.                                    *)
AddsNext == sends' = sends + 1 /\ Posted' = Posted \cup {sends + 1}

TakesFirst ==
  /\ UNCHANGED sends
  /\ strand # <<>> /\ Head(strand).op = "send"
  /\ Head(strand).frame.id \in 1..sends
  /\ Posted = Posted' \cup {Head(strand).frame.id}
  /\ \A p \in Posted' : Head(strand).frame.id < p

SameIds == UNCHANGED sends /\ Posted' = Posted

Takes == SendIgnored \/ SendRefused \/ SendAccepted

PostsNone ==
  \/ kick_notify_and_close \/ stop \/ RunKick \/ RunStop \/ WriteFailed
  \/ WriteDone \/ Connection \/ ReadLoop \/ UNCHANGED vars

LEMMA StepKinds ==
  ASSUME [Next]_vars
  PROVE  (\E sz \in Sizes : send_frame(sz)) \/ Takes \/ PostsNone
  BY DEF Next, Callers, Strand, Takes, PostsNone

LEMMA PostIds ==
  ASSUME TypeOK, StrandIds, NEW sz \in Sizes, send_frame(sz)
  PROVE  StrandIds' /\ AddsNext
<1>1. strand \in Seq(Task) /\ sends \in Nat
  BY DEF TypeOK, DataTypes
<1> DEFINE t == Send([id |-> sends + 1, size |-> sz])
<1>2. t \in Task /\ t.op = "send" /\ t.frame.id = sends + 1
  BY <1>1, ConfigAssumption DEF Send, Task, Frame
<1>3. strand' = Append(strand, t) /\ sends' = sends + 1
  BY DEF send_frame
<1> HIDE DEF t
<1>4. Ids(Append(strand, t)) = Ids(strand) \cup {sends + 1} /\ Numbered(Append(strand, t), sends + 1)
  BY <1>1, <1>2, IdsAppend DEF StrandIds
<1> QED
  BY <1>3, <1>4, PostedIds DEF StrandIds, AddsNext

LEMMA TakeIds ==
  ASSUME TypeOK, StrandIds, Takes
  PROVE  StrandIds' /\ TakesFirst
<1>1. strand \in Seq(Task) /\ sends \in Nat
  BY DEF TypeOK, DataTypes
<1>2. strand # <<>> /\ Head(strand).op = "send" /\ UNCHANGED sends
      /\ (strand' = Tail(strand) \/ strand' = Append(Tail(strand), Stop))
  BY DEF Takes, SendIgnored, SendRefused, SendAccepted, IsNext
<1>3. /\ Numbered(Tail(strand), sends)
      /\ Head(strand).frame.id \in 1..sends
      /\ Ids(strand) = Ids(Tail(strand)) \cup {Head(strand).frame.id}
      /\ \A p \in Ids(Tail(strand)) : Head(strand).frame.id < p
  BY <1>1, <1>2, IdsTail DEF StrandIds
<1>4. Tail(strand) \in Seq(Task) /\ Stop \in Task /\ Stop.op # "send"
  BY <1>1, <1>2, TaskTypes DEF Stop
<1> DEFINE rest == Tail(strand)
<1>5. Ids(Append(rest, Stop)) = Ids(rest) /\ Numbered(Append(rest, Stop), sends)
  <2> HIDE DEF rest
  <2> QED
    BY <1>1, <1>3, <1>4, IdsAppend DEF rest
<1>6. Ids(strand') = Ids(rest) /\ Numbered(strand', sends)
  <2>1. CASE strand' = rest
    BY <1>3, <2>1
  <2>2. CASE strand' = Append(rest, Stop)
    BY <1>5, <2>2
  <2> QED
    BY <1>2, <2>1, <2>2
<1> QED
  BY <1>2, <1>3, <1>6, PostedIds DEF StrandIds, TakesFirst

LEMMA OtherIds ==
  ASSUME TypeOK, StrandIds, PostsNone
  PROVE  StrandIds' /\ SameIds
<1>1. strand \in Seq(Task) /\ sends \in Nat
  BY DEF TypeOK, DataTypes
<1>2. \/ UNCHANGED <<strand, sends>>
      \/ UNCHANGED sends /\ (strand' = Append(strand, Stop) \/ strand' = Append(strand, Kick))
      \/ UNCHANGED sends /\ strand # <<>> /\ Head(strand).op # "send" /\ strand' = Tail(strand)
  BY DEF PostsNone, kick_notify_and_close, stop, RunKick, RunStop, WriteFailed,
         AfterFailure, WriteDone, Connection, TakeSome, TakeRest, Abort, PeerReset,
         ReadLoop, ReadTimeout, ReadBreak, SeeClosed, LoopEnd, vars, IsNext
<1>3. Stop \in Task /\ Kick \in Task /\ Stop.op # "send" /\ Kick.op # "send"
  BY TaskTypes DEF Stop, Kick
<1>4. Ids(strand') = Ids(strand) /\ Numbered(strand', sends)
  <2>1. CASE UNCHANGED strand
    BY <2>1 DEF StrandIds
  <2>2. ASSUME NEW t \in {Stop, Kick}, strand' = Append(strand, t)
        PROVE  Ids(strand') = Ids(strand) /\ Numbered(strand', sends)
    <3>1. t \in Task /\ t.op # "send"
      BY <1>3
    <3>2. Ids(Append(strand, t)) = Ids(strand) /\ Numbered(Append(strand, t), sends)
      BY <1>1, <3>1, IdsAppend DEF StrandIds
    <3> QED
      BY <2>2, <3>2
  <2>3. CASE strand # <<>> /\ Head(strand).op # "send" /\ strand' = Tail(strand)
    <3>1. Ids(Tail(strand)) = Ids(strand) /\ Numbered(Tail(strand), sends)
      BY <1>1, <2>3, IdsTail DEF StrandIds
    <3> QED
      BY <2>3, <3>1
  <2> QED
    BY <1>2, <2>1, <2>2, <2>3
<1> QED
  BY <1>2, <1>4, PostedIds DEF StrandIds, SameIds

LEMMA StrandIdsStep == ASSUME TypeOK, StrandIds, [Next]_vars PROVE StrandIds'
  BY StepKinds, PostIds, TakeIds, OtherIds

(* The numbers that every posted frame exceeds, and every future one: a    *)
(* number once past stays past.                                            *)
Past == {x \in 0..sends : \A p \in Posted : x < p}

LEMMA PastStays ==
  ASSUME TypeOK, StrandIds, [Next]_vars
  PROVE  /\ Past \subseteq Past'
         /\ Past \subseteq Nat
         /\ 0 \in Past'
         /\ Takes => Head(strand).frame.id \in Past' /\ \A x \in Past : x < Head(strand).frame.id
<1>1. sends \in Nat /\ strand \in Seq(Task) /\ StrandIds' /\ sends' \in Nat /\ strand' \in Seq(Task)
  BY StrandIdsStep, DataTypesStep DEF TypeOK, DataTypes
<1>2. Posted' \subseteq 1..sends'
  BY <1>1, IdTypes, PostedIds DEF StrandIds
<1>3. ASSUME NEW x \in Past PROVE x \in Past'
  <2>1. CASE \E sz \in Sizes : send_frame(sz)
    <3>1. AddsNext
      BY <2>1, PostIds
    <3> QED
      BY <1>1, <3>1 DEF Past, AddsNext
  <2>2. CASE Takes
    <3>1. TakesFirst
      BY <2>2, TakeIds
    <3>2. sends' = sends /\ Posted' \subseteq Posted
      BY <3>1 DEF TakesFirst
    <3> QED
      BY <3>2 DEF Past
  <2>3. CASE PostsNone
    BY <2>3, OtherIds DEF SameIds, Past
  <2> QED
    BY <2>1, <2>2, <2>3, StepKinds
<1>4. 0 \in Past'
  BY <1>1, <1>2 DEF Past
<1>5. ASSUME Takes PROVE Head(strand).frame.id \in Past' /\ \A x \in Past : x < Head(strand).frame.id
  <2>1. TakesFirst
    BY <1>5, TakeIds
  <2> QED
    BY <1>1, <2>1 DEF TakesFirst, Past
<1> QED
  BY <1>1, <1>3, <1>4, <1>5 DEF Past

-----------------------------------------------------------------------------
(* What a step does to the write in flight.                                *)

Ending == kickPending \/ stopped

LEMMA EndingStays == ASSUME [Next]_vars, Ending PROVE Ending'
<1>1. CASE UNCHANGED <<kickPending, stopped>>
  BY <1>1 DEF Ending
<1>2. CASE RunKick
  BY <1>1, <1>2 DEF RunKick, Ending
<1>3. CASE RunStop
  BY <1>1, <1>3 DEF RunStop, Ending
<1>4. CASE WriteDone
  BY <1>1, <1>4 DEF WriteDone, Ending
<1> QED
  BY <1>1, <1>2, <1>3, <1>4
     DEF Next, Callers, Strand, Connection, ReadLoop, send_frame,
         kick_notify_and_close, stop, SendIgnored, SendRefused, SendAccepted,
         WriteFailed, TakeSome, TakeRest, Abort, PeerReset, ReadTimeout,
         ReadBreak, SeeClosed, LoopEnd, vars

SameWrite ==
  /\ UNCHANGED wire
  /\ flight' = <<>> <=> flight = <<>>
  /\ flight # <<>> => /\ Head(flight').frame = Head(flight).frame
                      /\ Head(flight').st = Head(flight).st

Ends ==
  /\ UNCHANGED wire
  /\ flight # <<>> /\ Head(flight).st \in {"done", "failed"}
  /\ flight' = <<>>

Begins ==
  /\ UNCHANGED wire
  /\ flight # <<>> => Head(flight).st = "done"
  /\ ~Ending
  /\ queue' # <<>>
  /\ flight' # <<>> /\ Head(flight') = Begun(Head(queue'))

Moves(st) ==
  /\ flight # <<>> /\ flight' # <<>>
  /\ Head(flight').frame = Head(flight).frame
  /\ Head(flight').st = st

(* A task that queues a frame leaves the write in flight alone, or begins  *)
(* one of the frame at the front.                                          *)
LEMMA QueueAndWrite ==
  ASSUME SessionInv, WriteIfIdle(queue'), UNCHANGED wire, ~Ending,
         queue' \in Seq(Frame), queue' # <<>>
  PROVE  SameWrite \/ (Begins /\ flight = <<>>)
<1>1. CASE writing
  <2>1. UNCHANGED flight
    BY <1>1 DEF WriteIfIdle
  <2> QED
    BY <2>1 DEF SameWrite
<1>2. CASE ~writing
  <2>1. flight = <<>>
    BY <1>2 DEF SessionInv, OneWrite
  <2>2. flight' = <<Begun(Head(queue'))>>
    BY <1>2, <2>1 DEF WriteIfIdle, do_write, Ending
  <2> QED
    BY <2>1, <2>2 DEF Begins
<1> QED
  BY <1>1, <1>2

(* The completion handler of a kicked session ends it; that of any other   *)
(* pops the frame it wrote and begins the next one.                        *)
EndsKicked ==
  /\ kickPending /\ stopped' /\ ~kickPending'
  /\ queue' = <<>> /\ sock' = "closed"
  /\ Ends

PopsAndGoesOn ==
  /\ ~kickPending
  /\ queue # <<>> /\ queue' = Tail(queue)
  /\ Head(queue) = Head(flight).frame
  /\ pending' = Released(Head(queue))
  /\ UNCHANGED <<kickPending, stopped, sock>>
  /\ Ends \/ Begins

LEMMA Completion ==
  ASSUME SessionInv, WriteDone
  PROVE  /\ EndsKicked \/ PopsAndGoesOn
         /\ flight # <<>> /\ Head(flight).st = "done"
<1>1. DataTypes /\ flight # <<>> /\ Head(flight).st = "done" /\ UNCHANGED wire
  BY DEF SessionInv, TypeOK, WriteDone
<1>2. Tail(flight) = <<>>
  BY <1>1, LastWrite DEF SessionInv
<1>3. CASE kickPending
  <2>1. queue = <<KickFrame>>
    BY <1>3 DEF SessionInv, KickDrains
  <2>2. Tail(<<KickFrame>>) = <<>> /\ <<KickFrame>> # <<>>
    OBVIOUS
  <2>3. queue' = <<>>
    BY <2>1, <2>2 DEF WriteDone, PopFront
  <2>4. EndsKicked
    BY <1>1, <1>2, <1>3, <2>3 DEF WriteDone, EndsKicked, Ends
  <2> QED
    BY <1>1, <2>4
<1>4. CASE ~kickPending
  <2>1. queue # <<>> /\ Head(queue) = Head(flight).frame
    BY <1>1, <1>4 DEF SessionInv, PopsWhatItWrote
  <2>2. queue' = Tail(queue) /\ pending' = Released(Head(queue))
    BY <2>1 DEF WriteDone, PopFront
  <2>3. do_write(queue', FALSE, <<>>) /\ UNCHANGED <<kickPending, stopped, sock>>
    BY <1>2, <1>4 DEF WriteDone, WriteNext
  <2>4. CASE queue' = <<>> \/ stopped
    <3>1. Ends
      BY <1>1, <2>3, <2>4 DEF do_write, Ends
    <3> QED
      BY <1>1, <1>4, <2>1, <2>2, <2>3, <3>1 DEF PopsAndGoesOn
  <2>5. CASE ~(queue' = <<>> \/ stopped)
    <3>1. flight' = <<Begun(Head(queue'))>>
      BY <2>3, <2>5 DEF do_write
    <3>2. Begins
      BY <1>1, <1>4, <2>5, <3>1 DEF Begins, Ending
    <3> QED
      BY <1>1, <1>4, <2>1, <2>2, <2>3, <3>2 DEF PopsAndGoesOn
  <2> QED
    BY <2>4, <2>5
<1> QED
  BY <1>3, <1>4

LEMMA ConnectionMoves ==
  ASSUME SessionInv
  PROVE  /\ TakeSome => Moves("partial")
         /\ TakeRest => Moves("done")
         /\ Abort => Moves("failed")
         /\ ReadTimeout => SameWrite
<1>1. DataTypes
  BY DEF SessionInv, TypeOK
<1>2. ASSUME NEW st \in {"partial", "done", "failed"}, flight # <<>>,
             TakeSome \/ TakeRest \/ Abort,
             flight' = [flight EXCEPT ![1].st = st]
      PROVE  Moves(st)
  <2>1. flight \in Seq(Write) /\ Len(flight) >= 1 /\ flight[1] \in Write
    BY <1>1, <1>2 DEF DataTypes
  <2>2. flight' # <<>> /\ Head(flight').frame = Head(flight).frame
    BY <1>1, <1>2, SameFrameInFlight
  <2>3. flight' \in Seq(Write) /\ flight'[1] = [flight[1] EXCEPT !.st = st]
    <3>1. flight' \in Seq(Write)
      BY <1>1, <1>2, FlightStep
    <3> QED
      BY <1>2, <2>1, <3>1
  <2>4. flight'[1].st = st
    BY <2>1, <2>3 DEF Write
  <2>5. Head(flight') = flight'[1]
    BY <2>2, <2>3
  <2> QED
    BY <1>2, <2>2, <2>4, <2>5 DEF Moves
<1>3. ASSUME ReadTimeout PROVE SameWrite
  <2>1. CASE flight = <<>>
    <3>1. flight' = <<>>
      BY <1>3, <2>1 DEF ReadTimeout
    <3> QED
      BY <1>3, <2>1, <3>1 DEF SameWrite, ReadTimeout
  <2>2. CASE flight # <<>>
    <3>1. flight \in Seq(Write) /\ Len(flight) >= 1 /\ flight[1] \in Write
      BY <1>1, <2>2 DEF DataTypes
    <3>2. flight' # <<>> /\ Head(flight').frame = Head(flight).frame
      BY <1>1, <1>3, <2>2, SameFrameInFlight
    <3>3. Head(flight') = [flight[1] EXCEPT !.cancelled = TRUE]
      BY <1>3, <3>1, <3>2 DEF ReadTimeout
    <3>4. Head(flight').st = Head(flight).st
      BY <3>1, <3>3 DEF Write
    <3> QED
      BY <1>3, <2>2, <3>2, <3>4 DEF SameWrite, ReadTimeout
  <2> QED
    BY <2>1, <2>2
<1> QED
  BY <1>2, <1>3 DEF TakeSome, TakeRest, Abort

LEMMA FlightCases ==
  ASSUME SessionInv, [Next]_vars
  PROVE  \/ SameWrite \/ Ends \/ Begins
         \/ TakeSome /\ Moves("partial")
         \/ TakeRest /\ Moves("done")
         \/ (Abort /\ Moves("failed") /\ UNCHANGED wire)
<1>0. DataTypes /\ DataTypes'
  BY DataTypesStep DEF SessionInv, TypeOK
<1>1. CASE UNCHANGED <<flight, wire>>
  BY <1>1 DEF SameWrite
<1>2. CASE SendAccepted
  <2>1. queue' \in Seq(Frame) /\ queue' # <<>>
    <3>1. queue \in Seq(Frame) /\ Head(strand).frame \in Frame
      BY <1>0, <1>2, StrandHead DEF SendAccepted, IsNext, DataTypes
    <3>2. Append(queue, Head(strand).frame) # <<>>
      BY <3>1, AppendGrows
    <3> QED
      BY <1>0, <1>2, <3>2 DEF SendAccepted, DataTypes
  <2> QED
    BY <1>2, <2>1, QueueAndWrite DEF SendAccepted, Accepts, Ending
<1>3. CASE RunKick
  <2>1. CASE stopped \/ kickPending
    BY <1>1, <1>3, <2>1 DEF RunKick
  <2>2. CASE ~(stopped \/ kickPending)
    <3>1. queue' \in Seq(Frame) /\ queue' # <<>>
      <4>1. <<KickFrame>> # <<>>
        OBVIOUS
      <4> QED
        BY <1>0, <1>3, <2>2, <4>1 DEF RunKick, DataTypes
    <3> QED
      BY <1>3, <2>2, <3>1, QueueAndWrite DEF RunKick, Ending
  <2> QED
    BY <2>1, <2>2
<1>4. CASE WriteFailed
  <2>1. flight' = <<>>
    BY <1>0, <1>4, LastWrite DEF WriteFailed, SessionInv
  <2> QED
    BY <1>4, <2>1 DEF WriteFailed, Ends
<1>5. CASE WriteDone
  BY <1>5, Completion DEF EndsKicked, PopsAndGoesOn
<1>6. CASE TakeSome \/ TakeRest \/ Abort \/ ReadTimeout
  BY <1>6, ConnectionMoves DEF Abort
<1> QED
  BY <1>1, <1>2, <1>3, <1>4, <1>5, <1>6
     DEF Next, Callers, Strand, Connection, ReadLoop, send_frame,
         kick_notify_and_close, stop, SendIgnored, SendRefused, RunStop,
         PeerReset, ReadBreak, SeeClosed, LoopEnd, vars

-----------------------------------------------------------------------------
(* The order of the frames in the queue, in flight and on the wire.        *)

Done == flight # <<>> /\ Head(flight).st = "done"

(* Queued frames are in the order of posting and precede what is posted;   *)
(* the KICK is queued only on a session that is ending.                    *)
QueueIds ==
  \A j \in 1..Len(queue) :
    /\ queue[j].id \in Past
    /\ \A i \in 1..(j - 1) : queue[i].id < queue[j].id
    /\ queue[j].id = 0 => Ending

(* So does the frame in flight; once the connection has taken a part of it *)
(* that part is the last on the wire.                                      *)
FlightIds ==
  flight # <<>> =>
    /\ Head(flight).frame.id \in Past
    /\ Head(flight).frame.id = 0 => Ending
    /\ Head(flight).st = "partial" =>
         wire # <<>> /\ wire[Len(wire)] = OnWire(Head(flight).frame.id, "partial")

(* Once a part of the KICK is on the wire no further write begins. *)
KickOnWire ==
  \A i \in 1..Len(wire) : wire[i].id = 0 =>
    /\ i = Len(wire)
    /\ Ending
    /\ flight # <<>> => Head(flight).st # "begun"

(* A frame on the wire as a whole precedes whatever is still to be written.*)
(* The front of the queue is not, while the handler that pops it is due.   *)
WholeIds ==
  \A i \in 1..Len(wire) : wire[i].st = "whole" =>
    /\ wire[i].id \in Past
    /\ \A j \in 1..Len(queue) :
         queue[j].id # 0 /\ ~(j = 1 /\ Done) => wire[i].id < queue[j].id
    /\ flight # <<>> /\ ~Done /\ Head(flight).frame.id # 0 =>
         wire[i].id < Head(flight).frame.id

LEMMA Lengths ==
  ASSUME DataTypes
  PROVE  Len(queue) \in Nat /\ Len(wire) \in Nat /\ Len(strand) \in Nat /\ Len(flight) \in Nat
  BY DEF DataTypes

LEMMA QueueIdTypes ==
  ASSUME DataTypes
  PROVE  /\ \A j \in 1..Len(queue) : queue[j] \in Frame /\ queue[j].id \in Nat /\ queue[j].size \in Nat
         /\ \A i \in 1..Len(wire) : wire[i] \in Chunk /\ wire[i].id \in Nat /\ wire[i].st \in {"partial", "whole"}
<1>1. ASSUME NEW j \in 1..Len(queue) PROVE queue[j] \in Frame /\ queue[j].id \in Nat /\ queue[j].size \in Nat
  <2>1. queue[j] \in Frame
    BY DEF DataTypes
  <2> QED
    BY <2>1 DEF Frame
<1>2. ASSUME NEW i \in 1..Len(wire) PROVE wire[i] \in Chunk /\ wire[i].id \in Nat /\ wire[i].st \in {"partial", "whole"}
  <2>1. wire[i] \in Chunk
    BY DEF DataTypes
  <2> QED
    BY <2>1 DEF Chunk
<1> QED
  BY <1>1, <1>2

LEMMA QueueIdsStep ==
  ASSUME SessionInv, StrandIds, QueueIds, [Next]_vars
  PROVE  QueueIds'
<1>0. DataTypes /\ DataTypes' /\ TypeOK
  BY DataTypesStep DEF SessionInv, TypeOK
<1>p. Past \subseteq Past' /\ Past \subseteq Nat /\ 0 \in Past' /\ (Ending => Ending')
  BY <1>0, PastStays, EndingStays
<1>1. CASE UNCHANGED queue
  BY <1>1, <1>p DEF QueueIds
<1>2. CASE SendAccepted
  <2> DEFINE h == Head(strand).frame
  <2>1. queue \in Seq(Frame) /\ h \in Frame /\ queue' = Append(queue, h)
    BY <1>0, <1>2, StrandHead DEF SendAccepted, IsNext, DataTypes
  <2>2. h.id \in Past' /\ \A x \in Past : x < h.id
    BY <1>0, <1>2, PastStays DEF Takes
  <2>3. h.id # 0
    BY <1>0, <1>2, TakeIds DEF Takes, TakesFirst
  <2> HIDE DEF h
  <2>4. /\ Len(queue') = Len(queue) + 1 /\ Len(queue) \in Nat
        /\ \A i \in 1..Len(queue) : queue'[i] = queue[i]
        /\ queue'[Len(queue) + 1] = h
    BY <2>1, AppendGrows
  <2>5. ASSUME NEW j \in 1..Len(queue')
        PROVE  /\ queue'[j].id \in Past'
               /\ \A i \in 1..(j - 1) : queue'[i].id < queue'[j].id
               /\ queue'[j].id = 0 => Ending'
    <3>1. CASE j \in 1..Len(queue)
      <4>1. queue'[j] = queue[j] /\ \A i \in 1..(j - 1) : queue'[i] = queue[i]
        BY <2>4, <3>1
      <4> QED
        BY <1>p, <3>1, <4>1 DEF QueueIds
    <3>2. CASE j = Len(queue) + 1
      BY <2>2, <2>3, <2>4, <3>2 DEF QueueIds
    <3> QED
      BY <2>4, <3>1, <3>2
  <2> QED
    BY <2>5 DEF QueueIds
<1>3. CASE RunKick
  <2>1. CASE stopped \/ kickPending
    BY <1>1, <1>3, <2>1 DEF RunKick
  <2>2. CASE ~(stopped \/ kickPending)
    <3>1. queue' = <<KickFrame>> /\ Ending'
      BY <1>3, <2>2 DEF RunKick, Ending
    <3>2. Len(queue') = 1 /\ queue'[1].id = 0
      BY <3>1 DEF KickFrame
    <3> QED
      BY <1>p, <3>1, <3>2 DEF QueueIds
  <2> QED
    BY <2>1, <2>2
<1>4. CASE WriteDone
  <2>1. EndsKicked \/ PopsAndGoesOn
    BY <1>4, Completion
  <2>2. CASE EndsKicked
    <3>1. Len(queue') = 0
      BY <2>2 DEF EndsKicked
    <3> QED
      BY <3>1 DEF QueueIds
  <2>3. CASE PopsAndGoesOn
    <3>1. queue \in Seq(Frame) /\ queue # <<>> /\ queue' = Tail(queue)
      BY <1>0, <2>3 DEF PopsAndGoesOn, DataTypes
    <3>2. /\ Len(queue) = Len(queue') + 1 /\ Len(queue') \in Nat
          /\ \A i \in 1..Len(queue') : queue'[i] = queue[i + 1]
      BY <3>1
    <3>3. ASSUME NEW j \in 1..Len(queue')
          PROVE  /\ queue'[j].id \in Past'
                 /\ \A i \in 1..(j - 1) : queue'[i].id < queue'[j].id
                 /\ queue'[j].id = 0 => Ending'
      <4>1. j + 1 \in 1..Len(queue) /\ queue'[j] = queue[j + 1] /\ (j + 1) - 1 = j
        BY <3>2
      <4>2. ASSUME NEW i \in 1..(j - 1) PROVE queue'[i] = queue[i + 1] /\ i + 1 \in 1..j
        BY <3>2
      <4>3. /\ queue[j + 1].id \in Past
            /\ \A i \in 1..j : queue[i].id < queue[j + 1].id
            /\ queue[j + 1].id = 0 => Ending
        BY <4>1 DEF QueueIds
      <4> QED
        BY <1>p, <4>1, <4>2, <4>3
    <3> QED
      BY <3>3 DEF QueueIds
  <2> QED
    BY <2>1, <2>2, <2>3
<1> QED
  BY <1>1, <1>2, <1>3, <1>4
     DEF Next, Callers, Strand, Connection, ReadLoop, send_frame,
         kick_notify_and_close, stop, SendIgnored, SendRefused, RunStop,
         WriteFailed, TakeSome, TakeRest, Abort, PeerReset, ReadTimeout,
         ReadBreak, SeeClosed, LoopEnd, vars

(* The connection takes a frame in two parts: a new last entry of the wire,*)
(* then the same entry completed.                                          *)
LEMMA WireGrows ==
  ASSUME DataTypes, TakeSome
  PROVE  /\ Len(wire') = Len(wire) + 1 /\ wire' # <<>>
         /\ \A i \in 1..Len(wire) : wire'[i] = wire[i]
         /\ wire'[Len(wire) + 1] = OnWire(Head(flight).frame.id, "partial")
<1>1. wire' = Append(wire, OnWire(Head(flight).frame.id, "partial")) /\ flight # <<>>
  BY DEF TakeSome
<1>2. OnWire(Head(flight).frame.id, "partial") \in Chunk /\ wire \in Seq(Chunk)
  BY <1>1, FlightHead DEF OnWire, Chunk, DataTypes
<1> QED
  BY <1>1, <1>2, AppendGrows

LEMMA WireFills ==
  ASSUME DataTypes, FlightIds, TakeRest
  PROVE  /\ Len(wire') = Len(wire) /\ Len(wire) \in 1..Len(wire)
         /\ \A i \in 1..Len(wire) : i # Len(wire) => wire'[i] = wire[i]
         /\ wire[Len(wire)] = OnWire(Head(flight).frame.id, "partial")
         /\ wire'[Len(wire)] = OnWire(Head(flight).frame.id, "whole")
<1> DEFINE n == Len(wire)
           whole == [wire[n] EXCEPT !.st = "whole"]
<1>1. wire # <<>> /\ wire[n] = OnWire(Head(flight).frame.id, "partial")
  BY DEF FlightIds, TakeRest
<1>2. n \in 1..n /\ wire[n] \in Chunk /\ wire \in Seq(Chunk)
  BY <1>1 DEF DataTypes
<1>3. whole = OnWire(Head(flight).frame.id, "whole")
  BY <1>1 DEF OnWire
<1>4. wire' = [wire EXCEPT ![n] = whole]
  BY DEF TakeRest
<1> HIDE DEF whole
<1>5. Len(wire') = n /\ wire'[n] = whole /\ \A i \in 1..n : i # n => wire'[i] = wire[i]
  BY <1>2, <1>4
<1> QED
  BY <1>1, <1>2, <1>3, <1>5

(* The frame a new write takes is the first of the queue. *)
LEMMA BegunFrame ==
  ASSUME DataTypes', Begins
  PROVE  /\ 1 \in 1..Len(queue') /\ Head(flight').frame = queue'[1]
         /\ Head(flight').st = "begun"
<1>1. queue' \in Seq(Frame) /\ queue' # <<>> /\ Head(flight') = Begun(Head(queue'))
  BY DEF DataTypes, Begins
<1>2. 1 \in 1..Len(queue') /\ Head(queue') = queue'[1]
  BY <1>1
<1> QED
  BY <1>1, <1>2 DEF Begun

LEMMA FlightIdsStep ==
  ASSUME SessionInv, StrandIds, QueueIds, FlightIds, [Next]_vars
  PROVE  FlightIds'
<1>0. DataTypes /\ DataTypes' /\ TypeOK
  BY DataTypesStep DEF SessionInv, TypeOK
<1>p. Past \subseteq Past' /\ (Ending => Ending')
  BY <1>0, PastStays, EndingStays
<1>1. CASE SameWrite
  BY <1>1, <1>p DEF SameWrite, FlightIds
<1>2. CASE Ends
  BY <1>2 DEF Ends, FlightIds
<1>3. CASE Begins
  <2>1. 1 \in 1..Len(queue') /\ Head(flight').frame = queue'[1] /\ Head(flight').st = "begun"
    BY <1>0, <1>3, BegunFrame
  <2>2. queue'[1].id \in Past' /\ (queue'[1].id = 0 => Ending')
    BY <2>1, QueueIdsStep DEF QueueIds
  <2> QED
    BY <2>1, <2>2 DEF FlightIds
<1>4. CASE TakeSome /\ Moves("partial")
  <2>1. Len(wire') = Len(wire) + 1 /\ wire' # <<>> /\ wire'[Len(wire')] = OnWire(Head(flight).frame.id, "partial")
    BY <1>0, <1>4, WireGrows
  <2> QED
    BY <1>4, <1>p, <2>1 DEF Moves, FlightIds
<1>5. CASE TakeRest /\ Moves("done")
  BY <1>5, <1>p DEF Moves, FlightIds
<1>6. CASE Abort /\ Moves("failed")
  BY <1>6, <1>p DEF Moves, FlightIds
<1> QED
  BY <1>1, <1>2, <1>3, <1>4, <1>5, <1>6, FlightCases

LEMMA KickOnWireStep ==
  ASSUME SessionInv, FlightIds, KickOnWire, [Next]_vars
  PROVE  KickOnWire'
<1>0. DataTypes /\ Len(wire) \in Nat /\ (Ending => Ending')
  BY Lengths, EndingStays DEF SessionInv, TypeOK
<1>1. CASE SameWrite
  BY <1>0, <1>1 DEF SameWrite, KickOnWire
<1>2. CASE Ends
  BY <1>0, <1>2 DEF Ends, KickOnWire
<1>3. CASE Begins
  BY <1>3 DEF Begins, KickOnWire
<1>4. CASE TakeSome /\ Moves("partial")
  <2>1. /\ Len(wire') = Len(wire) + 1
        /\ \A i \in 1..Len(wire) : wire'[i] = wire[i]
        /\ wire'[Len(wire) + 1] = OnWire(Head(flight).frame.id, "partial")
    BY <1>0, <1>4, WireGrows
  <2>2. flight # <<>> /\ Head(flight).st = "begun" /\ Head(flight').st # "begun"
    BY <1>4 DEF TakeSome, Moves
  <2>3. ASSUME NEW i \in 1..Len(wire'), wire'[i].id = 0
        PROVE  i = Len(wire') /\ Ending'
    <3>1. CASE i \in 1..Len(wire)
      BY <2>1, <2>2, <2>3, <3>1 DEF KickOnWire
    <3>2. CASE i = Len(wire) + 1
      BY <1>0, <2>1, <2>2, <2>3, <3>2 DEF FlightIds, OnWire
    <3> QED
      BY <1>0, <2>1, <3>1, <3>2
  <2> QED
    BY <2>2, <2>3 DEF KickOnWire
<1>5. CASE TakeRest /\ Moves("done")
  <2>1. /\ Len(wire') = Len(wire) /\ Len(wire) \in 1..Len(wire)
        /\ \A i \in 1..Len(wire) : wire'[i].id = wire[i].id
    <3>1. /\ Len(wire') = Len(wire) /\ Len(wire) \in 1..Len(wire)
          /\ \A i \in 1..Len(wire) : i # Len(wire) => wire'[i] = wire[i]
          /\ wire[Len(wire)] = OnWire(Head(flight).frame.id, "partial")
          /\ wire'[Len(wire)] = OnWire(Head(flight).frame.id, "whole")
      BY <1>0, <1>5, WireFills
    <3> QED
      BY <3>1 DEF OnWire
  <2>2. Head(flight').st # "begun"
    BY <1>5 DEF Moves
  <2> QED
    BY <1>0, <2>1, <2>2 DEF KickOnWire
<1>6. CASE Abort /\ Moves("failed") /\ UNCHANGED wire
  BY <1>0, <1>6 DEF Moves, KickOnWire
<1> QED
  BY <1>1, <1>2, <1>3, <1>4, <1>5, <1>6, FlightCases

LEMMA WholeIdsStep ==
  ASSUME SessionInv, StrandIds, QueueIds, FlightIds, WholeIds, [Next]_vars
  PROVE  WholeIds'
<1>0. DataTypes /\ DataTypes' /\ TypeOK
  BY DataTypesStep DEF SessionInv, TypeOK
<1>l. Len(wire) \in Nat /\ Len(queue) \in Nat
  BY <1>0, Lengths
<1>p. Past \subseteq Past' /\ Past \subseteq Nat
  BY <1>0, PastStays
<1> DEFINE Clear(i) ==
      /\ \A j \in 1..Len(queue') :
           queue'[j].id # 0 /\ ~(j = 1 /\ Done') => wire'[i].id < queue'[j].id
      /\ flight' # <<>> /\ ~Done' /\ Head(flight').frame.id # 0 =>
           wire'[i].id < Head(flight').frame.id
(* Where the wire stays as it is, only the later frames need a look. *)
<1>u. ASSUME UNCHANGED wire, \A i \in 1..Len(wire) : wire[i].st = "whole" => Clear(i)
      PROVE  WholeIds'
  BY <1>p, <1>u DEF WholeIds
<1> HIDE DEF Clear
<1>1. CASE SameWrite /\ UNCHANGED queue
  <2>1. Done' <=> Done
    BY <1>1 DEF SameWrite, Done
  <2>2. ASSUME NEW i \in 1..Len(wire), wire[i].st = "whole" PROVE Clear(i)
    BY <1>1, <2>1, <2>2 DEF SameWrite, WholeIds, Clear
  <2> QED
    BY <1>1, <1>u, <2>2 DEF SameWrite
<1>2. CASE WriteFailed
  <2>1. ~Done /\ flight' = <<>> /\ ~Done' /\ UNCHANGED <<queue, wire>>
    BY <1>0, <1>2, LastWrite DEF WriteFailed, Done, SessionInv
  <2>2. ASSUME NEW i \in 1..Len(wire), wire[i].st = "whole" PROVE Clear(i)
    BY <2>1, <2>2 DEF WholeIds, Clear
  <2> QED
    BY <1>u, <2>1, <2>2
<1>3. CASE Abort
  <2>1. ~Done /\ ~Done' /\ UNCHANGED <<queue, wire>> /\ flight # <<>>
        /\ Head(flight').frame = Head(flight).frame
    BY <1>3, ConnectionMoves DEF Abort, Moves, Done
  <2>2. ASSUME NEW i \in 1..Len(wire), wire[i].st = "whole" PROVE Clear(i)
    BY <2>1, <2>2 DEF WholeIds, Clear
  <2> QED
    BY <1>u, <2>1, <2>2
<1>4. CASE SendAccepted
  <2> DEFINE h == Head(strand).frame
  <2>1. queue \in Seq(Frame) /\ h \in Frame /\ queue' = Append(queue, h) /\ UNCHANGED wire
    BY <1>0, <1>4, StrandHead DEF SendAccepted, IsNext, DataTypes
  <2>2. \A x \in Past : x < h.id
    BY <1>0, <1>4, PastStays DEF Takes
  <2> HIDE DEF h
  <2>3. /\ Len(queue') = Len(queue) + 1 /\ queue' # <<>>
        /\ \A i \in 1..Len(queue) : queue'[i] = queue[i]
        /\ queue'[Len(queue) + 1] = h
    BY <2>1, AppendGrows
  <2>4. SameWrite \/ (Begins /\ flight = <<>>)
    BY <1>0, <1>4, <2>3, QueueAndWrite DEF SendAccepted, Accepts, Ending, DataTypes
  <2>5. Done' <=> Done
    <3>1. CASE SameWrite
      BY <3>1 DEF SameWrite, Done
    <3>2. CASE Begins /\ flight = <<>>
      BY <1>0, <3>2, BegunFrame DEF Done
    <3> QED
      BY <2>4, <3>1, <3>2
  <2>6. ASSUME NEW i \in 1..Len(wire), wire[i].st = "whole" PROVE Clear(i)
    <3>1. ASSUME NEW j \in 1..Len(queue'), queue'[j].id # 0, ~(j = 1 /\ Done')
          PROVE  wire'[i].id < queue'[j].id
      <4>1. CASE j \in 1..Len(queue)
        BY <2>1, <2>3, <2>5, <2>6, <3>1, <4>1 DEF WholeIds
      <4>2. CASE j = Len(queue) + 1
        BY <2>1, <2>2, <2>3, <2>6, <4>2 DEF WholeIds
      <4> QED
        BY <1>l, <2>3, <4>1, <4>2
    <3>2. ASSUME flight' # <<>>, ~Done', Head(flight').frame.id # 0
          PROVE  wire'[i].id < Head(flight').frame.id
      <4>1. CASE SameWrite
        BY <2>1, <2>5, <2>6, <3>2, <4>1 DEF WholeIds, SameWrite
      <4>2. CASE Begins
        BY <1>0, <3>1, <3>2, <4>2, BegunFrame
      <4> QED
        BY <2>4, <4>1, <4>2
    <3> QED
      BY <3>1, <3>2 DEF Clear
  <2> QED
    BY <1>u, <2>1, <2>6
<1>5. CASE RunKick
  <2>1. CASE stopped \/ kickPending
    <3>1. UNCHANGED <<flight, wire, queue>>
      BY <1>5, <2>1 DEF RunKick
    <3> QED
      BY <1>1, <3>1 DEF SameWrite
  <2>2. CASE ~(stopped \/ kickPending)
    <3>1. queue' = <<KickFrame>> /\ UNCHANGED wire /\ <<KickFrame>> # <<>>
      BY <1>5, <2>2 DEF RunKick
    <3>2. Len(queue') = 1 /\ queue'[1].id = 0
      BY <3>1 DEF KickFrame
    <3>3. SameWrite \/ (Begins /\ flight = <<>>)
      BY <1>0, <1>5, <2>2, <3>1, QueueAndWrite DEF RunKick, Ending, DataTypes
    <3>4. ASSUME NEW i \in 1..Len(wire), wire[i].st = "whole" PROVE Clear(i)
      <4>1. CASE SameWrite
        <5>1. Done' <=> Done
          BY <4>1 DEF SameWrite, Done
        <5> QED
          BY <3>1, <3>2, <3>4, <4>1, <5>1 DEF SameWrite, WholeIds, Clear
      <4>2. CASE Begins
        <5>1. Head(flight').frame.id = 0
          BY <1>0, <3>2, <4>2, BegunFrame
        <5> QED
          BY <3>2, <5>1 DEF Clear
      <4> QED
        BY <3>3, <4>1, <4>2
    <3> QED
      BY <1>u, <3>1, <3>4
  <2> QED
    BY <2>1, <2>2
<1>6. CASE WriteDone
  <2>1. (EndsKicked \/ PopsAndGoesOn) /\ Done /\ UNCHANGED wire
    BY <1>6, Completion DEF Done, WriteDone
  <2>2. CASE EndsKicked
    <3>1. Len(queue') = 0 /\ flight' = <<>>
      BY <2>2 DEF EndsKicked, Ends
    <3>2. ASSUME NEW i \in 1..Len(wire) PROVE Clear(i)
      BY <3>1 DEF Clear
    <3> QED
      BY <1>u, <2>1, <3>2
  <2>3. CASE PopsAndGoesOn
    <3>1. queue \in Seq(Frame) /\ queue # <<>> /\ queue' = Tail(queue) /\ (Ends \/ Begins)
      BY <1>0, <2>3 DEF PopsAndGoesOn, DataTypes
    <3>2. /\ Len(queue) = Len(queue') + 1 /\ Len(queue') \in Nat
          /\ \A j \in 1..Len(queue') : queue'[j] = queue[j + 1]
      BY <3>1
    <3>3. ASSUME NEW i \in 1..Len(wire), wire[i].st = "whole" PROVE Clear(i)
      <4>1. ASSUME NEW j \in 1..Len(queue'), queue'[j].id # 0
            PROVE  wire'[i].id < queue'[j].id
        <5>1. j + 1 \in 1..Len(queue) /\ j + 1 # 1 /\ queue'[j] = queue[j + 1]
          BY <3>2
        <5> QED
          BY <2>1, <3>3, <4>1, <5>1 DEF WholeIds
      <4>2. CASE Ends
        BY <4>1, <4>2 DEF Ends, Clear
      <4>3. CASE Begins
        BY <1>0, <4>1, <4>3, BegunFrame DEF Clear
      <4> QED
        BY <3>1, <4>2, <4>3
    <3> QED
      BY <1>u, <2>1, <3>3
  <2> QED
    BY <2>1, <2>2, <2>3
<1>7. CASE TakeSome
  <2>1. /\ Len(wire') = Len(wire) + 1
        /\ \A i \in 1..Len(wire) : wire'[i] = wire[i]
        /\ wire'[Len(wire) + 1] = OnWire(Head(flight).frame.id, "partial")
    BY <1>0, <1>7, WireGrows
  <2>2. ~Done /\ ~Done' /\ UNCHANGED queue /\ flight # <<>> /\ Head(flight').frame = Head(flight).frame
    BY <1>7, ConnectionMoves DEF TakeSome, Moves, Done
  <2>3. ASSUME NEW i \in 1..Len(wire'), wire'[i].st = "whole"
        PROVE  wire'[i].id \in Past' /\ Clear(i)
    <3>1. i \in 1..Len(wire)
      BY <1>l, <2>1, <2>3 DEF OnWire
    <3> QED
      BY <1>p, <2>1, <2>2, <2>3, <3>1 DEF WholeIds, Clear
  <2> QED
    BY <2>3 DEF WholeIds, Clear
<1>8. CASE TakeRest
  <2> DEFINE n == Len(wire)
             f == Head(flight).frame.id
  <2>1. /\ Len(wire') = n /\ n \in 1..n
        /\ \A i \in 1..n : i # n => wire'[i] = wire[i]
        /\ wire'[n] = OnWire(f, "whole")
    BY <1>0, <1>8, WireFills
  <2>2. ~Done /\ Done' /\ UNCHANGED queue /\ flight # <<>>
    BY <1>8, ConnectionMoves DEF TakeRest, Moves, Done
  <2>3. f \in Past
    BY <2>2 DEF FlightIds
  <2>4. ASSUME NEW j \in 1..Len(queue), queue[j].id # 0, j # 1 PROVE f < queue[j].id
    <3>1. CASE kickPending
      <4>1. queue = <<KickFrame>>
        BY <3>1 DEF SessionInv, KickDrains
      <4>2. Len(queue) = 1
        BY <4>1
      <4> QED
        BY <2>4, <4>2
    <3>2. CASE ~kickPending
      <4>1. queue # <<>> /\ Head(queue).id = f
        BY <2>2, <3>2 DEF SessionInv, PopsWhatItWrote
      <4>2. queue[1].id = f
        BY <1>0, <4>1 DEF DataTypes
      <4>3. 1 \in 1..(j - 1)
        BY <1>l, <2>4
      <4> QED
        BY <4>2, <4>3 DEF QueueIds
    <3> QED
      BY <3>1, <3>2
  <2> HIDE DEF f
  <2>5. ASSUME NEW i \in 1..n, wire'[i].st = "whole"
        PROVE  wire'[i].id \in Past' /\ Clear(i)
    <3>1. CASE i # n
      BY <1>p, <2>1, <2>2, <2>5, <3>1 DEF WholeIds, Clear
    <3>2. CASE i = n
      <4>1. wire'[i].id = f
        BY <2>1, <3>2 DEF OnWire
      <4> QED
        BY <1>p, <2>2, <2>3, <2>4, <4>1 DEF Clear
    <3> QED
      BY <3>1, <3>2
  <2> QED
    BY <2>1, <2>5 DEF WholeIds, Clear
<1>9. CASE UNCHANGED <<flight, wire, queue>>
  BY <1>1, <1>9 DEF SameWrite
<1>10. CASE ReadTimeout
  BY <1>1, <1>10, ConnectionMoves DEF ReadTimeout
<1> QED
  BY <1>2, <1>3, <1>4, <1>5, <1>6, <1>7, <1>8, <1>9, <1>10
     DEF Next, Callers, Strand, Connection, ReadLoop, send_frame,
         kick_notify_and_close, stop, SendIgnored, SendRefused, RunStop,
         PeerReset, ReadBreak, SeeClosed, LoopEnd, vars

LEMMA InOrderStep ==
  ASSUME SessionInv, FlightIds, WholeIds, InOrder, [Next]_vars
  PROVE  InOrder'
<1>0. DataTypes /\ Len(wire) \in Nat
  BY Lengths DEF SessionInv, TypeOK
<1>1. CASE UNCHANGED wire
  BY <1>1 DEF InOrder
<1>2. CASE TakeSome
  <2> DEFINE n == Len(wire)
             f == Head(flight).frame.id
  <2>1. /\ Len(wire') = n + 1
        /\ \A i \in 1..n : wire'[i] = wire[i]
        /\ wire'[n + 1] = OnWire(f, "partial")
    BY <1>0, <1>2, WireGrows
  <2>2. ~Done /\ flight # <<>>
    BY <1>2 DEF TakeSome, Done
  <2>3. \A i \in 1..n : wire[i].st = "whole" /\ f # 0 => wire[i].id < f
    BY <2>2 DEF WholeIds
  <2> HIDE DEF f
  <2>4. ASSUME NEW i \in 1..(n + 1), NEW j \in 1..(n + 1),
               i < j, wire'[i].st = "whole", wire'[j].id # 0
        PROVE  wire'[i].id < wire'[j].id
    <3>1. i \in 1..n /\ wire'[i] = wire[i]
      BY <1>0, <2>1, <2>4
    <3>2. CASE j = n + 1
      BY <2>1, <2>3, <2>4, <3>1, <3>2 DEF OnWire
    <3>3. CASE j \in 1..n
      BY <2>1, <2>4, <3>1, <3>3 DEF InOrder
    <3> QED
      BY <1>0, <3>2, <3>3
  <2> QED
    BY <2>1, <2>4 DEF InOrder
<1>3. CASE TakeRest
  <2> DEFINE n == Len(wire)
             f == Head(flight).frame.id
  <2>1. /\ Len(wire') = n /\ n \in 1..n
        /\ \A i \in 1..n : i # n => wire'[i] = wire[i]
        /\ wire[n] = OnWire(f, "partial") /\ wire'[n] = OnWire(f, "whole")
    BY <1>0, <1>3, WireFills
  <2>2. \A i \in 1..n : wire'[i].id = wire[i].id
    BY <2>1 DEF OnWire
  <2>3. ASSUME NEW i \in 1..n, NEW j \in 1..n, i < j, wire'[i].st = "whole", wire'[j].id # 0
        PROVE  wire'[i].id < wire'[j].id
    <3>1. i # n
      BY <2>1, <2>3
    <3>2. wire[i].st = "whole"
      BY <2>1, <2>3, <3>1
    <3> QED
      BY <2>2, <2>3, <3>2 DEF InOrder
  <2> QED
    BY <2>1, <2>3 DEF InOrder
<1> QED
  BY <1>1, <1>2, <1>3
     DEF Next, Callers, Strand, Connection, ReadLoop, send_frame,
         kick_notify_and_close, stop, SendIgnored, SendRefused, SendAccepted,
         RunKick, RunStop, WriteFailed, WriteDone, Abort, PeerReset, ReadTimeout,
         ReadBreak, SeeClosed, LoopEnd, vars

-----------------------------------------------------------------------------
(* A torn frame, the socket of a stopped session.                          *)

LEMMA StopStays ==
  ASSUME DataTypes, [Next]_vars, stopped \/ StopPosted
  PROVE  stopped' \/ StopPosted'
<1>0. strand \in Seq(Task) /\ Len(strand) \in Nat
  BY DEF DataTypes
<1>1. CASE stopped
  <2>1. stopped'
    BY <1>1 DEF Next, Callers, Strand, Connection, ReadLoop, send_frame,
         kick_notify_and_close, stop, SendIgnored, SendRefused, SendAccepted,
         RunKick, RunStop, WriteFailed, WriteDone, TakeSome, TakeRest, Abort,
         PeerReset, ReadTimeout, ReadBreak, SeeClosed, LoopEnd, vars
  <2> QED
    BY <2>1
<1>2. CASE StopPosted
  <2>1. PICK i \in 1..Len(strand) : strand[i].op = "stop"
    BY <1>2 DEF StopPosted
  <2>2. CASE UNCHANGED strand
    BY <2>1, <2>2 DEF StopPosted
  <2>3. ASSUME NEW t \in Task, strand' = Append(strand, t) PROVE StopPosted'
    <3>1. Len(strand') = Len(strand) + 1 /\ strand'[i] = strand[i]
      BY <1>0, <2>3, AppendGrows
    <3> QED
      BY <1>0, <2>1, <3>1 DEF StopPosted
  <2>4. ASSUME strand # <<>>, Head(strand).op # "stop", strand' = Tail(strand) PROVE StopPosted'
    <3>1. i # 1
      BY <1>0, <2>1, <2>4
    <3>2. i - 1 \in 1..Len(strand') /\ strand'[i - 1] = strand[i]
      BY <1>0, <2>4, <3>1
    <3> QED
      BY <2>1, <3>2 DEF StopPosted
  <2>5. ASSUME NEW u \in Seq(Task), strand' = Append(u, Stop) PROVE StopPosted'
    <3>1. Len(strand') = Len(u) + 1 /\ Len(u) \in Nat /\ strand'[Len(u) + 1].op = "stop"
      BY <2>5, TaskTypes, AppendGrows DEF Stop
    <3>2. Len(u) + 1 \in 1..Len(strand')
      BY <3>1
    <3> QED
      BY <3>1, <3>2 DEF StopPosted
  <2>6. CASE Callers
    <3>1. ASSUME NEW sz \in Sizes, send_frame(sz) PROVE StopPosted'
      <4>1. Send([id |-> sends + 1, size |-> sz]) \in Task
        BY ConfigAssumption DEF Send, Task, Frame, DataTypes
      <4> QED
        BY <2>3, <3>1, <4>1 DEF send_frame
    <3> QED
      BY <2>3, <2>6, <3>1, TaskTypes DEF Callers, kick_notify_and_close, stop
  <2>7. CASE SendIgnored \/ SendAccepted \/ RunKick
    BY <2>4, <2>7 DEF SendIgnored, SendAccepted, RunKick, IsNext
  <2>8. CASE SendRefused
    <3>1. strand # <<>> /\ Head(strand).op # "stop" /\ Tail(strand) \in Seq(Task)
      BY <1>0, <2>8 DEF SendRefused, IsNext
    <3> QED
      BY <2>4, <2>5, <2>8, <3>1 DEF SendRefused
  <2>9. CASE RunStop
    BY <2>9 DEF RunStop, StopIgnored
  <2>10. CASE WriteFailed
    BY <1>0, <2>5, <2>10 DEF WriteFailed, AfterFailure
  <2>11. CASE ReadBreak
    BY <2>2, <2>3, <2>11, TaskTypes DEF ReadBreak
  <2> QED
    BY <2>2, <2>6, <2>7, <2>8, <2>9, <2>10, <2>11
       DEF Next, Strand, Connection, ReadLoop, WriteDone, TakeSome, TakeRest,
           Abort, PeerReset, ReadTimeout, SeeClosed, LoopEnd, vars
<1> QED
  BY <1>1, <1>2

(* TornIsFatal, with the write that a frame cut short belongs to: the one  *)
(* that is taking it, or has failed and posts stop when its handler runs.  *)
Torn ==
  \A i \in 1..Len(wire) :
    wire[i].st = "partial" =>
      \/ /\ i = Len(wire) /\ flight # <<>> /\ Head(flight).frame.id = wire[i].id
         /\ Head(flight).st \in {"partial", "failed"}
      \/ stopped \/ StopPosted

LEMMA TornStep ==
  ASSUME SessionInv, FlightIds, Torn, [Next]_vars
  PROVE  Torn'
<1>0. DataTypes /\ Len(wire) \in Nat
  BY Lengths DEF SessionInv, TypeOK
<1>s. stopped \/ StopPosted => stopped' \/ StopPosted'
  BY <1>0, StopStays
<1>1. CASE SameWrite
  BY <1>s, <1>1 DEF SameWrite, Torn
<1>2. CASE WriteFailed
  <2>1. Len(strand') = Len(strand) + 1 /\ strand'[Len(strand) + 1] = Stop /\ Len(strand) \in Nat
    BY <1>0, <1>2, TaskTypes, AppendGrows DEF WriteFailed, AfterFailure, DataTypes
  <2>2. Len(strand) + 1 \in 1..Len(strand')
    BY <2>1
  <2>3. StopPosted'
    BY <2>1, <2>2 DEF StopPosted, Stop
  <2> QED
    BY <2>3 DEF Torn
<1>3. CASE WriteDone
  <2>1. Head(flight).st = "done" /\ UNCHANGED wire
    BY <1>3 DEF WriteDone
  <2> QED
    BY <1>s, <2>1 DEF Torn
<1>4. CASE Begins
  <2>1. UNCHANGED wire /\ (flight # <<>> => Head(flight).st = "done")
    BY <1>4 DEF Begins
  <2> QED
    BY <1>s, <2>1 DEF Torn
<1>5. CASE TakeSome /\ Moves("partial")
  <2>1. /\ Len(wire') = Len(wire) + 1
        /\ \A i \in 1..Len(wire) : wire'[i] = wire[i]
        /\ wire'[Len(wire) + 1] = OnWire(Head(flight).frame.id, "partial")
    BY <1>0, <1>5, WireGrows
  <2>2. flight # <<>> /\ Head(flight).st = "begun"
    BY <1>5 DEF TakeSome
  <2>3. ASSUME NEW i \in 1..Len(wire'), wire'[i].st = "partial"
        PROVE  \/ /\ i = Len(wire') /\ flight' # <<>> /\ Head(flight').frame.id = wire'[i].id
                  /\ Head(flight').st \in {"partial", "failed"}
               \/ stopped' \/ StopPosted'
    <3>1. CASE i \in 1..Len(wire)
      BY <1>s, <2>1, <2>2, <2>3, <3>1 DEF Torn
    <3>2. CASE i = Len(wire) + 1
      BY <1>5, <2>1, <3>2 DEF Moves, OnWire
    <3> QED
      BY <1>0, <2>1, <3>1, <3>2
  <2> QED
    BY <2>3 DEF Torn
<1>6. CASE TakeRest /\ Moves("done")
  <2>1. /\ Len(wire') = Len(wire) /\ Len(wire) \in 1..Len(wire)
        /\ \A i \in 1..Len(wire) : i # Len(wire) => wire'[i] = wire[i]
        /\ wire'[Len(wire)] = OnWire(Head(flight).frame.id, "whole")
    BY <1>0, <1>6, WireFills
  <2>2. ASSUME NEW i \in 1..Len(wire'), wire'[i].st = "partial" PROVE stopped' \/ StopPosted'
    <3>1. i # Len(wire)
      BY <2>1, <2>2 DEF OnWire
    <3> QED
      BY <1>s, <2>1, <2>2, <3>1 DEF Torn
  <2> QED
    BY <2>2 DEF Torn
<1>7. CASE Abort /\ Moves("failed") /\ UNCHANGED wire
  BY <1>s, <1>7 DEF Moves, Torn
<1>8. CASE Ends
  <2>1. CASE UNCHANGED flight
    BY <1>8, <2>1 DEF Ends
  <2>2. CASE SendAccepted \/ RunKick
    BY <1>8, <2>2 DEF Ends, SendAccepted, RunKick, WriteIfIdle, do_write, SessionInv, OneWrite
  <2>3. CASE TakeSome \/ TakeRest \/ Abort
    BY <1>8, <2>3, ConnectionMoves DEF Ends, Moves
  <2>4. CASE ReadTimeout
    BY <1>1, <2>4, ConnectionMoves
  <2> QED
    BY <1>2, <1>3, <2>1, <2>2, <2>3, <2>4
     DEF Next, Callers, Strand, Connection, ReadLoop, send_frame,
         kick_notify_and_close, stop, SendIgnored, SendRefused, RunStop,
         PeerReset, ReadBreak, SeeClosed, LoopEnd, vars
<1> QED
  BY <1>1, <1>4, <1>5, <1>6, <1>7, <1>8, FlightCases

StoppedIsClosed == stopped => sock = "closed"

LEMMA StoppedIsClosedStep ==
  ASSUME StoppedIsClosed, [Next]_vars
  PROVE  StoppedIsClosed'
<1>1. CASE UNCHANGED <<stopped, sock>>
  BY <1>1 DEF StoppedIsClosed
<1>2. CASE RunStop
  BY <1>1, <1>2 DEF RunStop, StoppedIsClosed
<1>3. CASE WriteDone
  BY <1>1, <1>3 DEF WriteDone, StoppedIsClosed
<1>4. CASE LoopEnd
  BY <1>4 DEF LoopEnd, StoppedIsClosed
<1> QED
  BY <1>1, <1>2, <1>3, <1>4
     DEF Next, Callers, Strand, Connection, ReadLoop, send_frame,
         kick_notify_and_close, stop, SendIgnored, SendRefused, SendAccepted,
         RunKick, WriteFailed, TakeSome, TakeRest, Abort, PeerReset, ReadTimeout,
         ReadBreak, SeeClosed, vars

-----------------------------------------------------------------------------
(* The byte count of the queue.                                            *)

SizesOf(q) == [i \in 1..Len(q) |-> q[i].size]

LEMMA SizeTypes ==
  ASSUME NEW q \in Seq(Frame)
  PROVE  SizesOf(q) \in Seq(Nat) /\ Len(SizesOf(q)) = Len(q) /\ Bytes(q) = Total(SizesOf(q))
<1>1. ASSUME NEW i \in 1..Len(q) PROVE q[i].size \in Nat
  <2>1. q[i] \in Frame
    OBVIOUS
  <2> QED
    BY <2>1 DEF Frame
<1> QED
  BY <1>1 DEF SizesOf, Bytes

LEMMA BytesAppend ==
  ASSUME NEW q \in Seq(Frame), NEW f \in Frame
  PROVE  Bytes(Append(q, f)) = Bytes(q) + f.size
<1> DEFINE r == Append(q, f)
<1>1. r \in Seq(Frame) /\ Len(r) = Len(q) + 1 /\ Len(q) \in Nat /\ r # <<>>
      /\ (\A i \in 1..Len(q) : r[i] = q[i]) /\ r[Len(q) + 1] = f
  BY AppendGrows
<1> HIDE DEF r
<1>2. /\ SizesOf(r) \in Seq(Nat) /\ Len(SizesOf(r)) = Len(SizesOf(q)) + 1
      /\ SizesOf(q) \in Seq(Nat) /\ Len(SizesOf(q)) = Len(q)
      /\ Bytes(r) = Total(SizesOf(r)) /\ Bytes(q) = Total(SizesOf(q))
  BY <1>1, SizeTypes
<1>3. \A i \in 1..Len(q) : SizesOf(r)[i] = SizesOf(q)[i]
  BY <1>1 DEF SizesOf
<1>4. SizesOf(r)[Len(q) + 1] = f.size /\ SizesOf(r) # <<>>
  BY <1>1, <1>2 DEF SizesOf
<1>5. Total(SizesOf(r)) = Total(SizesOf(q)) + SizesOf(r)[Len(q) + 1]
  BY <1>2, <1>3, <1>4, TotalLast
<1> QED
  BY <1>2, <1>4, <1>5 DEF r

LEMMA BytesTail ==
  ASSUME NEW q \in Seq(Frame), q # <<>>
  PROVE  /\ Bytes(q) = Head(q).size + Bytes(Tail(q))
         /\ Bytes(Tail(q)) \in Nat
<1>1. Tail(q) \in Seq(Frame) /\ Len(q) = Len(Tail(q)) + 1 /\ Len(Tail(q)) \in Nat
      /\ Head(q) = q[1] /\ \A i \in 1..Len(Tail(q)) : Tail(q)[i] = q[i + 1]
  OBVIOUS
<1>2. SizesOf(q) \in Seq(Nat) /\ Len(SizesOf(q)) = Len(q) /\ SizesOf(q)[1] = q[1].size /\ SizesOf(q) # <<>>
  <2>1. SizesOf(q) \in Seq(Nat) /\ Len(SizesOf(q)) = Len(q)
    BY SizeTypes
  <2>2. 1 \in 1..Len(q)
    BY <1>1
  <2>3. SizesOf(q)[1] = q[1].size
    BY <2>2 DEF SizesOf
  <2> QED
    BY <1>1, <2>1, <2>3
<1>3. SizesOf(Tail(q)) \in Seq(Nat) /\ Len(SizesOf(Tail(q))) = Len(Tail(q))
  BY <1>1, SizeTypes
<1>4. Tail(SizesOf(q)) = SizesOf(Tail(q))
  <2>1. Tail(SizesOf(q)) \in Seq(Nat) /\ Len(Tail(SizesOf(q))) = Len(Tail(q))
    BY <1>1, <1>2
  <2>2. ASSUME NEW i \in 1..Len(Tail(q)) PROVE Tail(SizesOf(q))[i] = SizesOf(Tail(q))[i]
    <3>1. Tail(SizesOf(q))[i] = SizesOf(q)[i + 1]
      BY <1>1, <1>2, <2>1
    <3>2. SizesOf(q)[i + 1] = q[i + 1].size /\ SizesOf(Tail(q))[i] = Tail(q)[i].size
      BY <1>1 DEF SizesOf
    <3> QED
      BY <1>1, <3>1, <3>2
  <2> QED
    BY <1>3, <2>1, <2>2, SameLists
<1>5. Total(SizesOf(q)) = SizesOf(q)[1] + Total(Tail(SizesOf(q)))
  BY <1>2, TotalTail
<1>6. Total(SizesOf(Tail(q))) \in Nat
  BY <1>3, TotalType
<1> QED
  BY <1>1, <1>2, <1>4, <1>5, <1>6, SizeTypes

LEMMA BytesOne == ASSUME NEW f \in Frame PROVE Bytes(<<f>>) = f.size /\ Bytes(<<>>) = 0
<1>1. <<>> \in Seq(Frame) /\ Append(<<>>, f) = <<f>>
  OBVIOUS
<1>2. Bytes(<<>>) = 0
  <2>1. SizesOf(<<>>) = <<>>
    BY DEF SizesOf
  <2> QED
    BY <1>1, <2>1, SizeTypes, TotalEmpty
<1>3. Bytes(Append(<<>>, f)) = 0 + f.size
  BY <1>1, <1>2, BytesAppend
<1>4. f.size \in Nat
  BY DEF Frame
<1> QED
  BY <1>1, <1>2, <1>3, <1>4

LEMMA AccountedStep ==
  ASSUME SessionInv, Accounted, [Next]_vars
  PROVE  Accounted'
<1>0. DataTypes
  BY DEF SessionInv, TypeOK
<1>1. CASE UNCHANGED <<stopped, pending, queue>>
  BY <1>1 DEF Accounted
<1>2. CASE SendAccepted
  <2>1. queue \in Seq(Frame) /\ Head(strand).frame \in Frame
    BY <1>0, <1>2, StrandHead DEF SendAccepted, IsNext, DataTypes
  <2>2. Bytes(Append(queue, Head(strand).frame)) = Bytes(queue) + Head(strand).frame.size
    BY <2>1, BytesAppend
  <2> QED
    BY <1>2, <2>2 DEF SendAccepted, Accounted, NewTotal
<1>3. CASE RunKick
  <2>1. CASE stopped \/ kickPending
    BY <1>1, <1>3, <2>1 DEF RunKick
  <2>2. CASE ~(stopped \/ kickPending)
    <3>1. Bytes(<<KickFrame>>) = KickSize
      BY TaskTypes, BytesOne DEF KickFrame
    <3> QED
      BY <1>3, <2>2, <3>1 DEF RunKick, KickBytes, Accounted
  <2> QED
    BY <2>1, <2>2
<1>4. CASE RunStop
  BY <1>1, <1>4 DEF RunStop, StopIgnored, Accounted
<1>5. CASE WriteDone
  <2>1. CASE EndsKicked
    BY <2>1 DEF EndsKicked, Accounted
  <2>2. CASE PopsAndGoesOn
    <3>1. queue \in Seq(Frame) /\ queue # <<>> /\ pending \in Nat
      BY <1>0, <2>2 DEF PopsAndGoesOn, DataTypes
    <3>2. Bytes(queue) = Head(queue).size + Bytes(Tail(queue)) /\ Bytes(Tail(queue)) \in Nat
          /\ Head(queue).size \in Nat
      <4>1. Head(queue) \in Frame
        BY <3>1
      <4> QED
        BY <3>1, <4>1, BytesTail DEF Frame
    <3>3. ASSUME ~stopped PROVE pending' = Bytes(queue')
      <4>1. pending = Bytes(queue)
        BY <3>3 DEF Accounted
      <4>2. pending >= Head(queue).size /\ pending - Head(queue).size = Bytes(Tail(queue))
        BY <3>1, <3>2, <4>1
      <4> QED
        BY <2>2, <4>2 DEF PopsAndGoesOn, Released
    <3> QED
      BY <2>2, <3>3 DEF PopsAndGoesOn, Accounted
  <2> QED
    BY <1>5, <2>1, <2>2, Completion
<1> QED
  BY <1>1, <1>2, <1>3, <1>4, <1>5
     DEF Next, Callers, Strand, Connection, ReadLoop, send_frame,
         kick_notify_and_close, stop, SendIgnored, SendRefused,
         WriteFailed, TakeSome, TakeRest, Abort, PeerReset, ReadTimeout,
         ReadBreak, SeeClosed, LoopEnd, vars

-----------------------------------------------------------------------------
(* Counting the frames.                                                    *)

SendMarks(s) == [i \in 1..Len(s) |-> IF s[i].op = "send" THEN 1 ELSE 0]
WholeMarks(w) == [i \in 1..Len(w) |-> IF w[i].st = "whole" THEN 1 ELSE 0]

LEMMA MarkTypes ==
  /\ \A s \in Seq(Task) :
       SendMarks(s) \in Seq(Nat) /\ Len(SendMarks(s)) = Len(s) /\ SendsIn(s) = Total(SendMarks(s))
  /\ \A w \in Seq(Chunk) :
       WholeMarks(w) \in Seq(Nat) /\ Len(WholeMarks(w)) = Len(w) /\ WholesIn(w) = Total(WholeMarks(w))
  BY DEF SendMarks, WholeMarks, SendsIn, WholesIn

LEMMA SendsAppend ==
  ASSUME NEW s \in Seq(Task), NEW t \in Task
  PROVE  SendsIn(Append(s, t)) = SendsIn(s) + (IF t.op = "send" THEN 1 ELSE 0)
<1> DEFINE r == Append(s, t)
<1>1. r \in Seq(Task) /\ Len(r) = Len(s) + 1 /\ Len(s) \in Nat
      /\ (\A i \in 1..Len(s) : r[i] = s[i]) /\ r[Len(s) + 1] = t
  BY AppendGrows
<1> HIDE DEF r
<1>2. /\ SendMarks(r) \in Seq(Nat) /\ Len(SendMarks(r)) = Len(SendMarks(s)) + 1
      /\ SendMarks(s) \in Seq(Nat) /\ Len(SendMarks(s)) = Len(s)
      /\ SendsIn(r) = Total(SendMarks(r)) /\ SendsIn(s) = Total(SendMarks(s))
  BY <1>1, MarkTypes
<1>3. \A i \in 1..Len(s) : SendMarks(r)[i] = SendMarks(s)[i]
  BY <1>1 DEF SendMarks
<1>4. SendMarks(r)[Len(s) + 1] = (IF t.op = "send" THEN 1 ELSE 0) /\ SendMarks(r) # <<>>
  BY <1>1, <1>2 DEF SendMarks
<1>5. Total(SendMarks(r)) = Total(SendMarks(s)) + SendMarks(r)[Len(s) + 1]
  BY <1>2, <1>3, <1>4, TotalLast
<1> QED
  BY <1>2, <1>4, <1>5 DEF r

LEMMA SendsTail ==
  ASSUME NEW s \in Seq(Task), s # <<>>
  PROVE  /\ SendsIn(s) = (IF Head(s).op = "send" THEN 1 ELSE 0) + SendsIn(Tail(s))
         /\ SendsIn(Tail(s)) \in Nat
<1>1. Tail(s) \in Seq(Task) /\ Len(s) = Len(Tail(s)) + 1 /\ Len(Tail(s)) \in Nat
      /\ Head(s) = s[1] /\ 1 \in 1..Len(s)
      /\ \A i \in 1..Len(Tail(s)) : Tail(s)[i] = s[i + 1]
  OBVIOUS
<1>2. SendMarks(s) \in Seq(Nat) /\ Len(SendMarks(s)) = Len(s) /\ SendMarks(s) # <<>>
  BY <1>1, MarkTypes
<1>3. SendMarks(Tail(s)) \in Seq(Nat) /\ Len(SendMarks(Tail(s))) = Len(Tail(s))
  BY <1>1, MarkTypes
<1>4. Tail(SendMarks(s)) = SendMarks(Tail(s))
  <2>1. Tail(SendMarks(s)) \in Seq(Nat) /\ Len(Tail(SendMarks(s))) = Len(Tail(s))
    BY <1>1, <1>2
  <2>2. ASSUME NEW i \in 1..Len(Tail(s)) PROVE Tail(SendMarks(s))[i] = SendMarks(Tail(s))[i]
    <3>1. Tail(SendMarks(s))[i] = SendMarks(s)[i + 1] /\ i + 1 \in 1..Len(s)
      BY <1>1, <1>2, <2>1
    <3>2. SendMarks(s)[i + 1] = (IF s[i + 1].op = "send" THEN 1 ELSE 0)
          /\ SendMarks(Tail(s))[i] = (IF Tail(s)[i].op = "send" THEN 1 ELSE 0)
      BY <3>1 DEF SendMarks
    <3> QED
      BY <1>1, <3>1, <3>2
  <2> QED
    BY <1>3, <2>1, <2>2, SameLists
<1>5. Total(SendMarks(s)) = SendMarks(s)[1] + Total(Tail(SendMarks(s)))
  BY <1>2, TotalTail
<1>6. SendMarks(s)[1] = (IF Head(s).op = "send" THEN 1 ELSE 0)
  BY <1>1 DEF SendMarks
<1>7. SendsIn(s) = Total(SendMarks(s)) /\ SendsIn(Tail(s)) = Total(SendMarks(Tail(s)))
      /\ Total(SendMarks(Tail(s))) \in Nat
  BY <1>1, <1>3, MarkTypes, TotalType
<1> QED
  BY <1>4, <1>5, <1>6, <1>7

(* Frames on the wire are counted when their last part is taken. *)
LEMMA WholesLast ==
  ASSUME NEW u \in Seq(Chunk), NEW w \in Seq(Chunk), Len(w) = Len(u) + 1,
         \A i \in 1..Len(u) : w[i] = u[i]
  PROVE  WholesIn(w) = WholesIn(u) + (IF w[Len(w)].st = "whole" THEN 1 ELSE 0)
<1>1. /\ WholeMarks(w) \in Seq(Nat) /\ Len(WholeMarks(w)) = Len(w) /\ WholesIn(w) = Total(WholeMarks(w))
      /\ WholeMarks(u) \in Seq(Nat) /\ Len(WholeMarks(u)) = Len(u) /\ WholesIn(u) = Total(WholeMarks(u))
      /\ Len(u) \in Nat /\ Len(w) \in 1..Len(w)
  BY MarkTypes
<1>2. \A i \in 1..Len(u) : WholeMarks(w)[i] = WholeMarks(u)[i]
  BY <1>1 DEF WholeMarks
<1>3. WholeMarks(w)[Len(w)] = (IF w[Len(w)].st = "whole" THEN 1 ELSE 0) /\ WholeMarks(w) # <<>>
  BY <1>1 DEF WholeMarks
<1>4. Total(WholeMarks(w)) = Total(WholeMarks(u)) + WholeMarks(w)[Len(WholeMarks(w))]
  BY <1>1, <1>2, <1>3, TotalLast
<1> QED
  BY <1>1, <1>3, <1>4

LEMMA CountTypes ==
  ASSUME DataTypes
  PROVE  /\ SendsIn(strand) \in Nat /\ WholesIn(wire) \in Nat
         /\ Len(queue) \in Nat /\ drops \in Nat /\ sends \in Nat
  BY MarkTypes, TotalType DEF DataTypes

LEMMA WireCounts ==
  ASSUME DataTypes, DataTypes', FlightIds
  PROVE  /\ TakeSome => WholesIn(wire') = WholesIn(wire)
         /\ TakeRest => WholesIn(wire') = WholesIn(wire) + 1
<1>1. wire \in Seq(Chunk) /\ wire' \in Seq(Chunk) /\ WholesIn(wire) \in Nat
  BY CountTypes DEF DataTypes
<1>2. ASSUME TakeSome PROVE WholesIn(wire') = WholesIn(wire)
  <2>1. /\ Len(wire') = Len(wire) + 1
        /\ \A i \in 1..Len(wire) : wire'[i] = wire[i]
        /\ wire'[Len(wire')].st # "whole"
    BY <1>2, WireGrows DEF OnWire
  <2>2. WholesIn(wire') = WholesIn(wire) + (IF wire'[Len(wire')].st = "whole" THEN 1 ELSE 0)
    BY <1>1, <2>1, WholesLast
  <2> QED
    BY <1>1, <2>1, <2>2
<1>3. ASSUME TakeRest PROVE WholesIn(wire') = WholesIn(wire) + 1
  <2> DEFINE n == Len(wire)
             u == SubSeq(wire, 1, n - 1)
  <2>1. /\ Len(wire') = n /\ n \in 1..n
        /\ \A i \in 1..n : i # n => wire'[i] = wire[i]
        /\ wire[n].st # "whole" /\ wire'[n].st = "whole"
    BY <1>3, WireFills DEF OnWire
  <2>2. u \in Seq(Chunk) /\ Len(u) = n - 1 /\ \A i \in 1..(n - 1) : u[i] = wire[i]
    BY <1>1, <2>1
  <2> HIDE DEF u
  <2>3. n = Len(u) + 1 /\ (\A i \in 1..Len(u) : wire[i] = u[i]) /\ (\A i \in 1..Len(u) : wire'[i] = u[i])
    BY <2>1, <2>2
  <2>4. WholesIn(wire) = WholesIn(u) + (IF wire[n].st = "whole" THEN 1 ELSE 0)
    BY <1>1, <2>2, <2>3, WholesLast
  <2>5. WholesIn(wire') = WholesIn(u) + (IF wire'[n].st = "whole" THEN 1 ELSE 0)
    BY <1>1, <2>1, <2>2, <2>3, WholesLast
  <2>6. WholesIn(u) \in Nat
    BY <2>2, MarkTypes, TotalType
  <2> QED
    BY <2>1, <2>4, <2>5, <2>6
<1> QED
  BY <1>2, <1>3

DoneMark == IF Done THEN 1 ELSE 0

LEMMA ConservedStep ==
  ASSUME SessionInv, FlightIds, Conserved, [Next]_vars
  PROVE  Conserved'
<1>0. DataTypes /\ DataTypes'
  BY DataTypesStep DEF SessionInv, TypeOK
<1>c. /\ SendsIn(strand) \in Nat /\ WholesIn(wire) \in Nat /\ strand \in Seq(Task)
      /\ Len(queue) \in Nat /\ drops \in Nat /\ sends \in Nat /\ DoneMark \in {0, 1}
  BY <1>0, CountTypes DEF DataTypes, DoneMark
<1>e. Ending => Ending'
  BY EndingStays
<1>d. /\ Conserved <=>
           (~Ending => sends = SendsIn(strand) + Len(queue) + drops + WholesIn(wire) - DoneMark)
      /\ Conserved' <=>
           (~Ending' => sends' = SendsIn(strand') + Len(queue') + drops' + WholesIn(wire') - DoneMark')
  BY DEF Conserved, Ending, DoneMark, Done
<1>s. SameWrite => UNCHANGED DoneMark /\ WholesIn(wire') = WholesIn(wire)
  BY DEF SameWrite, DoneMark, Done
<1>t. strand # <<>> => SendsIn(Tail(strand)) \in Nat /\ Tail(strand) \in Seq(Task)
                       /\ SendsIn(strand) = (IF Head(strand).op = "send" THEN 1 ELSE 0) + SendsIn(Tail(strand))
  BY <1>c, SendsTail
<1>k. /\ Stop \in Task /\ Kick \in Task /\ Stop.op # "send" /\ Kick.op # "send"
      /\ SendsIn(Append(strand, Stop)) = SendsIn(strand)
      /\ SendsIn(Append(strand, Kick)) = SendsIn(strand)
      /\ strand # <<>> => SendsIn(Append(Tail(strand), Stop)) = SendsIn(Tail(strand))
  <2>1. Stop \in Task /\ Kick \in Task /\ Stop.op # "send" /\ Kick.op # "send"
    BY TaskTypes DEF Stop, Kick
  <2>2. SendsIn(Append(strand, Stop)) = SendsIn(strand) + 0 /\ SendsIn(Append(strand, Kick)) = SendsIn(strand) + 0
    BY <1>c, <2>1, SendsAppend
  <2>3. strand # <<>> => SendsIn(Append(Tail(strand), Stop)) = SendsIn(Tail(strand)) + 0
    BY <1>t, <2>1, SendsAppend
  <2> QED
    BY <1>c, <1>t, <2>1, <2>2, <2>3
(* Steps that leave every count as it is. *)
<1>1. CASE /\ UNCHANGED <<sends, queue, drops, flight, wire>>
           /\ SendsIn(strand') = SendsIn(strand)
  <2>1. UNCHANGED DoneMark
    BY <1>1 DEF DoneMark, Done
  <2> QED
    BY <1>1, <1>d, <1>e, <2>1
<1>2. CASE \E sz \in Sizes : send_frame(sz)
  <2>1. PICK sz \in Sizes : send_frame(sz)
    BY <1>2
  <2> DEFINE t == Send([id |-> sends + 1, size |-> sz])
  <2>2. t \in Task /\ t.op = "send" /\ strand' = Append(strand, t)
    BY <1>c, <2>1, ConfigAssumption DEF Send, Task, Frame, send_frame
  <2> HIDE DEF t
  <2>3. SendsIn(strand') = SendsIn(strand) + 1
    BY <1>c, <2>2, SendsAppend
  <2>4. sends' = sends + 1 /\ UNCHANGED <<queue, drops, wire, flight, kickPending, stopped>>
    BY <2>1 DEF send_frame
  <2>5. UNCHANGED DoneMark /\ (Ending' <=> Ending)
    BY <2>4 DEF DoneMark, Done, Ending
  <2> QED
    BY <1>c, <1>d, <2>3, <2>4, <2>5
<1>3. CASE SendRefused
  <2>1. SendsIn(strand) = 1 + SendsIn(strand') /\ SendsIn(strand') \in Nat
    BY <1>t, <1>k, <1>3 DEF SendRefused, IsNext
  <2>2. drops' = drops + 1 /\ UNCHANGED <<sends, queue, wire, flight, kickPending, stopped>>
    BY <1>3 DEF SendRefused, Drops
  <2>3. UNCHANGED DoneMark /\ (Ending' <=> Ending)
    BY <2>2 DEF DoneMark, Done, Ending
  <2> QED
    BY <1>c, <1>d, <2>1, <2>2, <2>3
<1>4. CASE SendAccepted
  <2>1. SendsIn(strand) = 1 + SendsIn(strand') /\ SendsIn(strand') \in Nat
    BY <1>t, <1>4 DEF SendAccepted, IsNext
  <2>2. queue \in Seq(Frame) /\ Head(strand).frame \in Frame
    BY <1>0, <1>4, StrandHead DEF SendAccepted, IsNext, DataTypes
  <2>3. Len(queue') = Len(queue) + 1 /\ queue' # <<>>
    BY <1>4, <2>2, AppendGrows DEF SendAccepted
  <2>4. UNCHANGED <<sends, drops, wire, kickPending, stopped>>
    BY <1>4 DEF SendAccepted
  <2>5. SameWrite \/ (Begins /\ flight = <<>>)
    BY <1>0, <1>4, <2>3, QueueAndWrite DEF SendAccepted, Accepts, Ending, DataTypes
  <2>6. UNCHANGED DoneMark /\ (Ending' <=> Ending)
    BY <1>0, <1>s, <2>4, <2>5, BegunFrame DEF DoneMark, Done, Ending
  <2> QED
    BY <1>c, <1>d, <2>1, <2>3, <2>4, <2>6
<1>5. CASE RunKick
  <2>1. CASE stopped \/ kickPending
    <3>1. Ending'
      BY <1>e, <2>1 DEF Ending
    <3> QED
      BY <1>d, <3>1
  <2>2. CASE ~(stopped \/ kickPending)
    <3>1. Ending'
      BY <1>5, <2>2 DEF RunKick, Ending
    <3> QED
      BY <1>d, <3>1
  <2> QED
    BY <2>1, <2>2
<1>6. CASE RunStop
  <2>1. Ending'
    BY <1>6 DEF RunStop, StopIgnored, Ending
  <2> QED
    BY <1>d, <2>1
<1>7. CASE WriteFailed
  <2>1. SendsIn(strand') = SendsIn(strand) /\ UNCHANGED <<sends, queue, drops, wire, kickPending, stopped>>
    BY <1>k, <1>7 DEF WriteFailed, AfterFailure
  <2>2. ~Done /\ flight' = <<>>
    BY <1>0, <1>7, LastWrite DEF WriteFailed, Done, SessionInv
  <2>3. DoneMark = 0 /\ DoneMark' = 0
    BY <2>2 DEF DoneMark, Done
  <2> QED
    BY <1>d, <1>e, <2>1, <2>3
<1>8. CASE WriteDone
  <2>1. CASE EndsKicked
    BY <1>d, <2>1 DEF EndsKicked, Ending
  <2>2. CASE PopsAndGoesOn
    <3>1. queue \in Seq(Frame) /\ queue # <<>> /\ queue' = Tail(queue)
      BY <1>0, <2>2 DEF PopsAndGoesOn, DataTypes
    <3>2. Len(queue') = Len(queue) - 1
      BY <3>1
    <3>3. DoneMark = 1 /\ DoneMark' = 0
      BY <1>0, <1>8, <2>2, BegunFrame DEF PopsAndGoesOn, Ends, WriteDone, DoneMark, Done
    <3>4. UNCHANGED <<strand, sends, drops, wire, kickPending, stopped>>
      BY <1>8, <2>2 DEF WriteDone, PopsAndGoesOn
    <3> QED
      BY <1>c, <1>d, <1>e, <3>2, <3>3, <3>4
  <2> QED
    BY <1>8, <2>1, <2>2, Completion
<1>9. CASE TakeSome \/ Abort
  <2>1. DoneMark = 0 /\ DoneMark' = 0
    BY <1>9, ConnectionMoves DEF TakeSome, Abort, Moves, DoneMark, Done
  <2>2. UNCHANGED <<strand, sends, queue, drops>> /\ WholesIn(wire') = WholesIn(wire)
    BY <1>0, <1>9, WireCounts DEF TakeSome, Abort
  <2> QED
    BY <1>d, <1>e, <2>1, <2>2
<1>10. CASE TakeRest
  <2>1. DoneMark = 0 /\ DoneMark' = 1
    BY <1>10, ConnectionMoves DEF TakeRest, Moves, DoneMark, Done
  <2>2. UNCHANGED <<strand, sends, queue, drops>> /\ WholesIn(wire') = WholesIn(wire) + 1
    BY <1>0, <1>10, WireCounts DEF TakeRest
  <2> QED
    BY <1>c, <1>d, <1>e, <2>1, <2>2
<1>11. CASE ReadTimeout
  BY <1>d, <1>e, <1>s, <1>11, ConnectionMoves DEF ReadTimeout
<1>12. CASE SendIgnored
  <2>1. Ending'
    BY <1>e, <1>12 DEF SendIgnored, Accepts, Ending
  <2> QED
    BY <1>d, <2>1
<1> QED
  BY <1>k, <1>1, <1>2, <1>3, <1>4, <1>5, <1>6, <1>7, <1>8, <1>9, <1>10, <1>11, <1>12
     DEF Next, Callers, Strand, Connection, ReadLoop, kick_notify_and_close, stop,
         PeerReset, ReadBreak, SeeClosed, LoopEnd, vars

-----------------------------------------------------------------------------
(* The inductive invariant of the order of frames, and what it gives.      *)

WireInv ==
  /\ SessionInv /\ StrandIds /\ QueueIds /\ FlightIds /\ KickOnWire /\ WholeIds
  /\ InOrder /\ Torn /\ StoppedIsClosed /\ Accounted /\ Conserved

LEMMA WireInvInit == Init => WireInv
<1> SUFFICES ASSUME Init PROVE WireInv
  OBVIOUS
<1>1. SessionInv
  BY SessionInit
<1>2. Len(strand) = 0 /\ Len(queue) = 0 /\ Len(wire) = 0 /\ flight = <<>>
  BY DEF Init
<1>3. StrandIds /\ QueueIds /\ FlightIds /\ KickOnWire /\ WholeIds /\ InOrder /\ Torn
  BY <1>2 DEF StrandIds, Numbered, QueueIds, FlightIds, KickOnWire, WholeIds, InOrder, Torn
<1>4. StoppedIsClosed
  BY DEF Init, StoppedIsClosed
<1>5. Accounted
  <2>1. Bytes(<<>>) = 0
    BY TaskTypes, BytesOne
  <2> QED
    BY <2>1 DEF Init, Accounted
<1>6. Conserved
  <2>1. SendMarks(<<>>) = <<>> /\ WholeMarks(<<>>) = <<>> /\ <<>> \in Seq(Task) /\ <<>> \in Seq(Chunk)
    BY DEF SendMarks, WholeMarks
  <2>2. SendsIn(<<>>) = 0 /\ WholesIn(<<>>) = 0
    BY <2>1, MarkTypes, TotalEmpty
  <2> QED
    BY <1>2, <2>2 DEF Init, Conserved
<1> QED
  BY <1>1, <1>3, <1>4, <1>5, <1>6 DEF WireInv

LEMMA WireInvStep == WireInv /\ [Next]_vars => WireInv'
<1> SUFFICES ASSUME WireInv, [Next]_vars PROVE WireInv'
  OBVIOUS
<1>1. SessionInv'
  BY SessionStep DEF WireInv
<1>2. StrandIds' /\ QueueIds' /\ FlightIds' /\ KickOnWire' /\ WholeIds' /\ InOrder' /\ Torn'
  BY StrandIdsStep, QueueIdsStep, FlightIdsStep, KickOnWireStep, WholeIdsStep,
     InOrderStep, TornStep DEF WireInv, SessionInv
<1>3. StoppedIsClosed' /\ Accounted' /\ Conserved'
  BY StoppedIsClosedStep, AccountedStep, ConservedStep DEF WireInv
<1> QED
  BY <1>1, <1>2, <1>3 DEF WireInv

LEMMA WireInvariant == Spec => []WireInv
  BY WireInvInit, WireInvStep, PTL DEF Spec

(* Nothing is written after a KICK, not even a part of a frame, although   *)
(* the KICK may replace the queue under a write and the strand goes on     *)
(* running the tasks posted after it.                                      *)
THEOREM NothingAfterKick == Spec => []KickIsLast
<1>1. WireInv => KickIsLast
  BY DEF WireInv, KickOnWire, KickIsLast
<1> QED
  BY <1>1, WireInvariant, PTL

(* Complete frames reach the peer in the order of the send_frame calls and *)
(* none twice, also when a failed write leaves its frame in the queue.     *)
THEOREM FramesInOrder == Spec => []InOrder
  BY WireInvariant, PTL DEF WireInv

(* A frame cut short is the one being written, or the session is ending.   *)
THEOREM NoLiveStreamAfterTear == Spec => []TornIsFatal
<1>1. WireInv => TornIsFatal
  BY DEF WireInv, Torn, TornIsFatal
<1> QED
  BY <1>1, WireInvariant, PTL

(* pending_bytes_ is the number of bytes in queue_ for as long as the      *)
(* session lives, for every sequence of frame sizes.                       *)
THEOREM PendingIsQueued == Spec => []Accounted
  BY WireInvariant, PTL DEF WireInv

(* On a session neither kicked nor stopped no send_frame call disappears:  *)
(* each is posted, queued, on the wire or in the drops metric.             *)
THEOREM NoFrameUnaccounted == Spec => []Conserved
  BY WireInvariant, PTL DEF WireInv

-----------------------------------------------------------------------------
(* The session implements the outbox.                                      *)

LEMMA SameBox ==
  ASSUME UNCHANGED <<sends, Waiting, Delivered, Status>>
  PROVE  [Box!Next]_(Box!box)
  BY DEF Box!box

LEMMA DeliveredStep ==
  ASSUME DataTypes, FlightIds
  PROVE  /\ UNCHANGED wire => UNCHANGED Delivered
         /\ TakeSome => UNCHANGED Delivered
         /\ TakeRest => Delivered' = Delivered \cup {Head(flight).frame.id}
<1>0. Len(wire) \in Nat
  BY Lengths
<1>1. ASSUME UNCHANGED wire PROVE UNCHANGED Delivered
  BY <1>1 DEF Delivered
<1>2. ASSUME TakeSome PROVE UNCHANGED Delivered
  <2>1. /\ Len(wire') = Len(wire) + 1
        /\ \A i \in 1..Len(wire) : wire'[i] = wire[i]
        /\ wire'[Len(wire) + 1].st # "whole"
    BY <1>2, WireGrows DEF OnWire
  <2> QED
    BY <1>0, <2>1 DEF Delivered
<1>3. ASSUME TakeRest PROVE Delivered' = Delivered \cup {Head(flight).frame.id}
  <2> DEFINE f == Head(flight).frame.id
             n == Len(wire)
  <2>1. /\ Len(wire') = n /\ n \in 1..n
        /\ \A i \in 1..n : i # n => wire'[i] = wire[i]
        /\ wire[n].st # "whole" /\ wire'[n].st = "whole" /\ wire'[n].id = f
    BY <1>3, WireFills DEF OnWire
  <2> HIDE DEF f
  <2>2. ASSUME NEW x \in Delivered' PROVE x \in Delivered \cup {f}
    BY <2>1 DEF Delivered
  <2>3. ASSUME NEW x \in Delivered PROVE x \in Delivered'
    BY <2>1 DEF Delivered
  <2>4. f \in Delivered'
    BY <2>1 DEF Delivered
  <2> QED
    BY <2>2, <2>3, <2>4 DEF f
<1> QED
  BY <1>1, <1>2, <1>3

LEMMA SameFlight ==
  ASSUME SameWrite
  PROVE  UNCHANGED InFlight /\ (Done' <=> Done)
  BY DEF SameWrite, InFlight, Unwritten, Done

(* Queued frames, by whether the handler of the first is due. *)
LEMMA QueuedIs ==
  /\ Queued = {queue[i].id : i \in IF Done THEN 2..Len(queue) ELSE 1..Len(queue)}
  /\ Queued' = {queue'[i].id : i \in IF Done' THEN 2..Len(queue') ELSE 1..Len(queue')}
  BY DEF Queued, Done

LEMMA WaitingIs ==
  /\ sock = "closed" => Waiting = {} /\ Status = "closed"
  /\ sock # "closed" /\ kickPending => Waiting = InFlight /\ Status = "kicked"
  /\ sock # "closed" /\ ~kickPending => Waiting = Queued \cup Posted /\ Status = "open"
  /\ sock' = "closed" => Waiting' = {} /\ Status' = "closed"
  /\ sock' # "closed" /\ kickPending' => Waiting' = InFlight' /\ Status' = "kicked"
  /\ sock' # "closed" /\ ~kickPending' => Waiting' = Queued' \cup Posted' /\ Status' = "open"
  BY DEF Waiting, Status

(* Closing the socket gives up what waits. *)
LEMMA BoxShut ==
  ASSUME sock' = "closed", UNCHANGED <<sends, Delivered>>
  PROVE  [Box!Next]_(Box!box)
<1>1. CASE sock = "closed"
  BY <1>1, WaitingIs, SameBox
<1>2. CASE sock # "closed"
  <2>1. Status # "closed" /\ Status' = "closed" /\ Waiting' = {}
    BY <1>2, WaitingIs DEF Status
  <2>2. Box!Shut
    BY <2>1 DEF Box!Shut
  <2> QED
    BY <2>2 DEF Box!Next
<1> QED
  BY <1>1, <1>2

LEMMA BoxPost ==
  ASSUME WireInv, NEW sz \in Sizes, send_frame(sz)
  PROVE  [Box!Next]_(Box!box)
<1>1. AddsNext
  BY PostIds DEF WireInv, SessionInv
<1>2. UNCHANGED <<queue, flight, wire, sock, kickPending>>
  BY DEF send_frame
<1>3. UNCHANGED <<Delivered, Status, Queued, InFlight>>
  BY <1>2 DEF Delivered, Status, Queued, InFlight, Unwritten
<1>4. Waiting' = IF Status = "open" THEN Waiting \cup {sends + 1} ELSE Waiting
  BY <1>1, <1>2, <1>3, WaitingIs DEF AddsNext
<1>5. Box!Post
  BY <1>1, <1>3, <1>4 DEF Box!Post, AddsNext
<1> QED
  BY <1>5 DEF Box!Next

(* A frame refused is lost; one ignored is already lost; one accepted goes *)
(* on waiting.                                                             *)
LEMMA BoxTakes ==
  ASSUME WireInv, [Next]_vars, Takes
  PROVE  [Box!Next]_(Box!box)
<1>0. DataTypes /\ DataTypes' /\ TypeOK /\ StrandIds /\ FlightIds
  BY DataTypesStep DEF WireInv, SessionInv, TypeOK
<1> DEFINE h == Head(strand).frame.id
<1>1. TakesFirst
  BY <1>0, TakeIds
<1>2. UNCHANGED <<sends, Delivered, Status>> /\ UNCHANGED <<sock, kickPending, stopped>>
  <2>1. UNCHANGED <<wire, sock, kickPending, stopped>>
    BY DEF Takes, SendIgnored, SendRefused, SendAccepted
  <2> QED
    BY <1>1, <2>1 DEF TakesFirst, Delivered, Status
<1>3. h \in Posted /\ h \notin Posted' /\ Posted' \subseteq Posted /\ Posted' = Posted \ {h} /\ h \in Nat
  BY <1>1 DEF TakesFirst
<1>4. CASE sock = "closed"
  BY <1>2, <1>4, WaitingIs, SameBox
<1>5. CASE SendIgnored /\ sock # "closed"
  <2>1. kickPending
    BY <1>5 DEF SendIgnored, Accepts, WireInv, StoppedIsClosed
  <2>2. UNCHANGED InFlight
    BY <1>5 DEF SendIgnored, InFlight, Unwritten
  <2> QED
    BY <1>2, <1>5, <2>1, <2>2, WaitingIs, SameBox
<1>6. CASE SendRefused /\ sock # "closed"
  <2>1. ~kickPending /\ UNCHANGED <<queue, flight>>
    BY <1>6 DEF SendRefused, Accepts
  <2>2. UNCHANGED Queued
    BY <2>1 DEF Queued
  <2>3. h \notin Queued
    <3>1. \A x \in Past : x < h
      BY <1>0, PastStays
    <3>2. Queued \subseteq Past
      BY QueuedIs DEF WireInv, QueueIds
    <3> QED
      BY <1>3, <3>1, <3>2
  <2>4. Waiting' = Waiting \ {h} /\ h \in Waiting
    BY <1>2, <1>3, <1>6, <2>1, <2>2, <2>3, WaitingIs
  <2>5. Box!Lose
    BY <1>2, <2>4 DEF Box!Lose
  <2> QED
    BY <2>5 DEF Box!Next
<1>7. CASE SendAccepted /\ sock # "closed"
  <2>1. ~kickPending /\ ~Ending
    BY <1>7 DEF SendAccepted, Accepts, Ending
  <2>2. queue \in Seq(Frame) /\ Head(strand).frame \in Frame /\ queue' = Append(queue, Head(strand).frame)
    BY <1>0, <1>7, StrandHead DEF SendAccepted, IsNext, DataTypes
  <2>3. /\ Len(queue') = Len(queue) + 1 /\ queue' # <<>> /\ Len(queue) \in Nat
        /\ \A i \in 1..Len(queue) : queue'[i] = queue[i]
        /\ queue'[Len(queue) + 1] = Head(strand).frame
    BY <2>2, AppendGrows
  <2>4. SameWrite \/ (Begins /\ flight = <<>>)
    BY <1>0, <1>7, <2>1, <2>3, QueueAndWrite DEF SendAccepted, DataTypes, WireInv
  <2>5. Done' <=> Done
    BY <1>0, <2>4, SameFlight, BegunFrame DEF Done
  <2>6. Done => Len(queue) + 1 >= 2
    BY <2>1, <2>2 DEF Done, WireInv, SessionInv, PopsWhatItWrote
  <2>7. Queued' = Queued \cup {h}
    <3>1. CASE Done
      BY <2>3, <2>5, <2>6, <3>1, QueuedIs
    <3>2. CASE ~Done
      BY <2>3, <2>5, <3>2, QueuedIs
    <3> QED
      BY <3>1, <3>2
  <2>8. Waiting' = Waiting
    BY <1>2, <1>3, <1>7, <2>1, <2>7, WaitingIs
  <2> QED
    BY <1>2, <2>8, SameBox
<1> QED
  BY <1>4, <1>5, <1>6, <1>7 DEF Takes

(* A kick keeps only the frame being written. *)
LEMMA BoxKick ==
  ASSUME WireInv, [Next]_vars, RunKick
  PROVE  [Box!Next]_(Box!box)
<1>0. DataTypes /\ DataTypes' /\ TypeOK /\ StrandIds /\ FlightIds
  BY DataTypesStep DEF WireInv, SessionInv, TypeOK
<1>1. SameIds /\ UNCHANGED <<sends, sock, Delivered>>
  BY <1>0, OtherIds, DeliveredStep DEF PostsNone, RunKick, SameIds
<1>2. CASE sock = "closed"
  BY <1>1, <1>2, WaitingIs, SameBox
<1>3. CASE kickPending /\ sock # "closed"
  <2>1. UNCHANGED <<queue, flight, kickPending>>
    BY <1>3 DEF RunKick
  <2>2. UNCHANGED InFlight
    BY <2>1 DEF InFlight, Unwritten
  <2> QED
    BY <1>1, <1>3, <2>1, <2>2, WaitingIs, SameBox
<1>4. CASE ~kickPending /\ sock # "closed"
  <2>1. ~Ending /\ kickPending' /\ queue' = <<KickFrame>> /\ WriteIfIdle(queue') /\ UNCHANGED wire
    BY <1>4 DEF RunKick, WireInv, StoppedIsClosed, Ending
  <2>2. queue' \in Seq(Frame) /\ queue' # <<>> /\ queue'[1] = KickFrame
    <3>1. <<KickFrame>> # <<>> /\ <<KickFrame>>[1] = KickFrame
      OBVIOUS
    <3> QED
      BY <1>0, <2>1, <3>1 DEF DataTypes
  <2>3. SameWrite \/ (Begins /\ flight = <<>>)
    BY <2>1, <2>2, QueueAndWrite DEF WireInv
  <2>4. InFlight' = {} \/ (Unwritten /\ InFlight' = InFlight)
    <3>1. CASE SameWrite
      BY <3>1, SameFlight DEF InFlight
    <3>2. CASE Begins
      <4>1. Head(flight').frame.id = 0
        BY <1>0, <2>2, <3>2, BegunFrame DEF KickFrame
      <4> QED
        BY <4>1 DEF InFlight
    <3> QED
      BY <2>3, <3>1, <3>2
  <2>5. Waiting = Queued \cup Posted /\ Status = "open" /\ Status' = "kicked" /\ Waiting' = InFlight'
    BY <1>1, <1>4, <2>1, WaitingIs
  <2>6. ASSUME Unwritten
        PROVE  InFlight \subseteq Waiting /\ \A x \in InFlight, g \in Waiting : x <= g
    <3> DEFINE f == Head(flight).frame.id
    <3>1. flight # <<>> /\ ~Done /\ InFlight \subseteq {f}
      BY <2>6 DEF Unwritten, Done, InFlight
    <3>2. queue # <<>> /\ queue[1].id = f /\ 1 \in 1..Len(queue)
      BY <1>0, <1>4, <3>1 DEF WireInv, SessionInv, PopsWhatItWrote, DataTypes
    <3>3. f \in Queued
      BY <3>1, <3>2, QueuedIs
    <3>4. f \in Past /\ f \in Nat
      BY <1>0, <3>1, FlightHead DEF FlightIds
    <3>5. \A g \in Posted : f <= g
      <4>1. Posted \subseteq Nat
        BY <1>0, IdTypes, PostedIds DEF StrandIds, DataTypes
      <4> QED
        BY <3>4, <4>1 DEF Past
    <3>6. ASSUME NEW g \in Queued PROVE f <= g
      <4>1. PICK i \in 1..Len(queue) : g = queue[i].id
        BY <3>1, <3>6, QueuedIs
      <4>2. CASE i = 1
        BY <3>2, <3>4, <4>1, <4>2
      <4>3. CASE i # 1
        <5>1. 1 \in 1..(i - 1)
          BY <1>0, <4>3, Lengths
        <5>2. queue[1].id < queue[i].id /\ queue[i].id \in Nat
          BY <1>0, <5>1, QueueIdTypes DEF WireInv, QueueIds
        <5> QED
          BY <3>2, <3>4, <4>1, <5>2
      <4> QED
        BY <4>2, <4>3
    <3> HIDE DEF f
    <3> QED
      BY <2>5, <3>1, <3>3, <3>5, <3>6
  <2>7. Box!KickOff
    <3>1. InFlight' \subseteq Waiting /\ \A x \in InFlight', g \in Waiting : x <= g
      BY <2>4, <2>6
    <3> QED
      BY <1>1, <2>5, <3>1 DEF Box!KickOff
  <2> QED
    BY <2>7 DEF Box!Next
<1> QED
  BY <1>2, <1>3, <1>4

(* The completion handler moves nothing that waits, or ends the session. *)
LEMMA BoxDone ==
  ASSUME WireInv, [Next]_vars, WriteDone
  PROVE  [Box!Next]_(Box!box)
<1>0. DataTypes /\ DataTypes' /\ TypeOK /\ StrandIds /\ FlightIds
  BY DataTypesStep DEF WireInv, SessionInv, TypeOK
<1>1. SameIds /\ UNCHANGED <<sends, Delivered>>
  BY <1>0, OtherIds, DeliveredStep DEF PostsNone, WriteDone, SameIds
<1>2. (EndsKicked \/ PopsAndGoesOn) /\ Done
  BY Completion DEF WireInv, Done
<1>3. CASE EndsKicked
  BY <1>1, <1>3, BoxShut DEF EndsKicked
<1>4. CASE PopsAndGoesOn
  <2>1. queue \in Seq(Frame) /\ queue # <<>> /\ queue' = Tail(queue) /\ ~kickPending
        /\ UNCHANGED <<kickPending, sock>>
    BY <1>0, <1>4 DEF PopsAndGoesOn, DataTypes
  <2>2. /\ Len(queue) = Len(queue') + 1 /\ Len(queue') \in Nat
        /\ \A i \in 1..Len(queue') : queue'[i] = queue[i + 1]
    BY <2>1
  <2>3. ~Done'
    BY <1>0, <1>4, BegunFrame DEF PopsAndGoesOn, Ends, Done
  <2>4. Queued' = Queued
    <3>1. ASSUME NEW x \in Queued PROVE x \in Queued'
      <4>1. PICK i \in 2..Len(queue) : x = queue[i].id
        BY <1>2, QueuedIs
      <4>2. i - 1 \in 1..Len(queue') /\ queue'[i - 1] = queue[i]
        BY <2>2
      <4> QED
        BY <2>3, <4>1, <4>2, QueuedIs
    <3>2. ASSUME NEW x \in Queued' PROVE x \in Queued
      <4>1. PICK i \in 1..Len(queue') : x = queue'[i].id
        BY <2>3, QueuedIs
      <4>2. i + 1 \in 2..Len(queue) /\ queue'[i] = queue[i + 1]
        BY <2>2
      <4> QED
        BY <1>2, <4>1, <4>2, QueuedIs
    <3> QED
      BY <3>1, <3>2
  <2>5. UNCHANGED <<Waiting, Status>>
    BY <1>1, <2>1, <2>4, WaitingIs DEF SameIds
  <2> QED
    BY <1>1, <2>5, SameBox
<1> QED
  BY <1>2, <1>3, <1>4

(* A frame of which the last part is taken is the oldest that waits, or it *)
(* is the KICK.                                                            *)
LEMMA BoxTakeRest ==
  ASSUME WireInv, [Next]_vars, TakeRest
  PROVE  [Box!Next]_(Box!box)
<1>0. DataTypes /\ TypeOK /\ StrandIds /\ FlightIds /\ QueueIds
  BY DEF WireInv, SessionInv, TypeOK
<1> DEFINE f == Head(flight).frame.id
<1>1. /\ flight # <<>> /\ Unwritten /\ ~Done /\ Done' /\ ~Unwritten'
      /\ sock = "open" /\ UNCHANGED <<queue, sock, kickPending, sends>>
  BY ConnectionMoves DEF WireInv, TakeRest, Moves, Unwritten, Done
<1>2. Posted' = Posted /\ Delivered' = Delivered \cup {f}
  BY <1>0, OtherIds, DeliveredStep DEF PostsNone, Connection, SameIds
<1>3. f \in Past /\ f \in Nat
  BY <1>0, <1>1, FlightHead DEF FlightIds
<1>4. InFlight = {f} \ {0} /\ InFlight' = {}
  BY <1>1 DEF InFlight
<1>5. UNCHANGED Status
  BY <1>1 DEF Status
<1>6. CASE f = 0
  <2>1. kickPending
    BY <1>0, <1>1, <1>6 DEF FlightIds, Ending, WireInv, StoppedIsClosed
  <2>2. Status = "kicked" /\ Waiting = {} /\ Waiting' = {}
    BY <1>1, <1>4, <1>6, <2>1, WaitingIs
  <2>3. 0 \notin Delivered
    <3>1. wire[Len(wire)].st # "whole"
      BY <1>0, WireFills DEF OnWire
    <3> QED
      BY <3>1 DEF WireInv, KickOnWire, Delivered
  <2>4. Box!DeliverKick
    BY <1>1, <1>2, <1>5, <1>6, <2>2, <2>3 DEF Box!DeliverKick
  <2> QED
    BY <2>4 DEF Box!Next
<1>7. CASE f # 0 /\ kickPending
  <2>1. Waiting = {f} /\ Waiting' = {} /\ Status # "closed"
    BY <1>1, <1>4, <1>7, WaitingIs
  <2> HIDE DEF f
  <2>2. Box!DeliverOldest
    BY <1>1, <1>2, <1>3, <1>5, <2>1 DEF Box!DeliverOldest
  <2> QED
    BY <2>2 DEF Box!Next
<1>8. CASE f # 0 /\ ~kickPending
  <2>1. queue # <<>> /\ queue[1].id = f /\ 1 \in 1..Len(queue) /\ Len(queue) \in Nat
    BY <1>0, <1>1, <1>8 DEF WireInv, SessionInv, PopsWhatItWrote, DataTypes
  <2>2. \A g \in Posted : f < g /\ g \in Nat
    <3>1. Posted \subseteq Nat
      BY <1>0, IdTypes, PostedIds DEF StrandIds, DataTypes
    <3> QED
      BY <1>3, <3>1 DEF Past
  <2>3. ASSUME NEW i \in 2..Len(queue) PROVE i \in 1..Len(queue) /\ f < queue[i].id /\ queue[i].id \in Nat
    <3>1. i \in 1..Len(queue) /\ 1 \in 1..(i - 1)
      BY <2>1
    <3> QED
      BY <1>0, <2>1, <3>1, QueueIdTypes DEF QueueIds
  <2> HIDE DEF f
  <2>4. Queued' = {queue[i].id : i \in 2..Len(queue)} /\ Queued = Queued' \cup {f}
    <3>1. Queued' = {queue[i].id : i \in 2..Len(queue)}
      BY <1>1, QueuedIs
    <3>2. Queued = {queue[i].id : i \in 1..Len(queue)}
      BY <1>1, QueuedIs
    <3>3. \A i \in 1..Len(queue) : i = 1 \/ i \in 2..Len(queue)
      BY <2>1
    <3> QED
      BY <2>1, <2>3, <3>1, <3>2, <3>3
  <2>5. f \notin Queued' /\ \A g \in Queued' : f <= g
    BY <1>3, <2>3, <2>4
  <2>6. Waiting = Queued \cup Posted /\ Waiting' = Queued' \cup Posted /\ Status # "closed"
    BY <1>1, <1>2, <1>8, WaitingIs
  <2>7. f \in Waiting /\ Waiting' = Waiting \ {f} /\ \A g \in Waiting : f <= g
    BY <1>3, <2>2, <2>4, <2>5, <2>6
  <2>8. Box!DeliverOldest
    BY <1>1, <1>2, <1>5, <2>6, <2>7 DEF Box!DeliverOldest
  <2> QED
    BY <2>8 DEF Box!Next
<1> QED
  BY <1>6, <1>7, <1>8

(* A write that fails loses its frame if a kick has already cleared it     *)
(* from the queue; otherwise the frame goes on waiting.                    *)
LEMMA BoxAbort ==
  ASSUME WireInv, [Next]_vars, Abort
  PROVE  [Box!Next]_(Box!box)
<1>0. DataTypes /\ TypeOK /\ StrandIds /\ FlightIds
  BY DEF WireInv, SessionInv, TypeOK
<1>1. /\ ~Done /\ ~Done' /\ ~Unwritten' /\ UNCHANGED <<queue, sock, kickPending, sends>>
  BY ConnectionMoves DEF WireInv, Abort, Moves, Unwritten, Done
<1>2. Posted' = Posted /\ UNCHANGED <<Delivered, Status>>
  BY <1>0, <1>1, OtherIds, DeliveredStep DEF PostsNone, Connection, Abort, SameIds, Status
<1>3. Queued' = Queued
  BY <1>1, QueuedIs
<1>4. InFlight' = {}
  BY <1>1 DEF InFlight
<1>5. CASE Waiting' = Waiting
  BY <1>1, <1>2, <1>5, SameBox
<1>6. CASE Waiting' # Waiting
  <2>1. Waiting = InFlight /\ Waiting' = {}
    BY <1>1, <1>2, <1>3, <1>4, <1>6, WaitingIs
  <2>2. \E f \in Waiting : Waiting' = Waiting \ {f}
    BY <1>6, <2>1 DEF InFlight
  <2>3. Box!Lose
    BY <1>1, <1>2, <2>2 DEF Box!Lose
  <2> QED
    BY <2>3 DEF Box!Next
<1> QED
  BY <1>5, <1>6

LEMMA BoxStep ==
  ASSUME WireInv, [Next]_vars
  PROVE  [Box!Next]_(Box!box)
<1>0. DataTypes /\ TypeOK /\ StrandIds /\ FlightIds
  BY DEF WireInv, SessionInv, TypeOK
<1>1. ASSUME PostsNone, SameWrite, UNCHANGED <<queue, sock, kickPending>>
      PROVE  [Box!Next]_(Box!box)
  <2>1. SameIds /\ UNCHANGED <<Delivered, InFlight>> /\ (Done' <=> Done)
    BY <1>0, <1>1, OtherIds, DeliveredStep, SameFlight DEF SameWrite
  <2>2. UNCHANGED Queued
    BY <1>1, <2>1, QueuedIs
  <2>3. UNCHANGED <<Waiting, Status, sends>>
    BY <1>1, <2>1, <2>2, WaitingIs DEF SameIds
  <2> QED
    BY <2>1, <2>3, SameBox
<1>2. CASE kick_notify_and_close \/ stop \/ PeerReset \/ ReadBreak \/ SeeClosed \/ UNCHANGED vars
  <2>1. PostsNone /\ UNCHANGED <<flight, wire, queue, sock, kickPending>>
    BY <1>2 DEF PostsNone, Connection, ReadLoop, kick_notify_and_close, stop, PeerReset,
                ReadBreak, SeeClosed, vars
  <2>2. SameWrite
    BY <2>1 DEF SameWrite
  <2> QED
    BY <1>1, <2>1, <2>2
<1>3. CASE ReadTimeout
  BY <1>1, <1>3, ConnectionMoves DEF ReadTimeout, PostsNone, ReadLoop, WireInv
<1>4. CASE RunStop \/ LoopEnd
  <2>1. SameIds /\ UNCHANGED <<sends, Delivered>>
    BY <1>0, <1>4, OtherIds, DeliveredStep DEF PostsNone, ReadLoop, RunStop, LoopEnd, SameIds
  <2>2. CASE sock' = "closed"
    BY <2>1, <2>2, BoxShut
  <2>3. CASE sock' # "closed"
    <3>1. UNCHANGED <<flight, wire, queue, sock, kickPending>> /\ PostsNone
      BY <1>4, <2>3 DEF RunStop, LoopEnd, PostsNone
    <3>2. SameWrite
      BY <3>1 DEF SameWrite
    <3> QED
      BY <1>1, <3>1, <3>2
  <2> QED
    BY <2>2, <2>3
<1>5. CASE WriteFailed
  <2>1. ~Done /\ ~Unwritten /\ flight' = <<>> /\ UNCHANGED <<queue, wire, sock, kickPending>>
    BY <1>0, <1>5, LastWrite DEF WriteFailed, Done, Unwritten, WireInv, SessionInv
  <2>2. SameIds /\ UNCHANGED Delivered
    BY <1>0, <1>5, <2>1, OtherIds, DeliveredStep DEF PostsNone
  <2>3. UNCHANGED <<Queued, InFlight>>
    BY <2>1, QueuedIs DEF InFlight, Unwritten, Done
  <2>4. UNCHANGED <<Waiting, Status, sends>>
    BY <2>1, <2>2, <2>3, WaitingIs DEF SameIds
  <2> QED
    BY <2>2, <2>4, SameBox
<1>6. CASE TakeSome
  <2>1. /\ ~Done /\ ~Done' /\ UNCHANGED <<queue, sock, kickPending>>
        /\ Unwritten /\ Unwritten' /\ Head(flight').frame = Head(flight).frame
    BY <1>6, ConnectionMoves DEF WireInv, TakeSome, Moves, Unwritten, Done
  <2>2. SameIds /\ UNCHANGED Delivered
    BY <1>0, <1>6, OtherIds, DeliveredStep DEF PostsNone, Connection
  <2>3. UNCHANGED <<Queued, InFlight>>
    BY <2>1, QueuedIs DEF InFlight
  <2>4. UNCHANGED <<Waiting, Status, sends>>
    BY <2>1, <2>2, <2>3, WaitingIs DEF SameIds
  <2> QED
    BY <2>2, <2>4, SameBox
<1> QED
  BY <1>2, <1>3, <1>4, <1>5, <1>6, BoxPost, BoxTakes, BoxKick, BoxDone, BoxTakeRest, BoxAbort
     DEF Next, Callers, Strand, Takes, Connection, ReadLoop

(* The write side of a session, with its failed writes, retries, refusals, *)
(* kicks under a write and closes behind the strand's back, is a           *)
(* first-in first-out outbox: every step is a step of the outbox or        *)
(* leaves it as it is.                                                     *)
THEOREM SessionIsOutbox == Spec => ImplementsOutbox
<1>1. Init => Box!Init
  <2> SUFFICES ASSUME Init PROVE Box!Init
    OBVIOUS
  <2>1. Len(strand) = 0 /\ Len(queue) = 0 /\ Len(wire) = 0 /\ flight = <<>>
        /\ sock = "open" /\ kickPending = FALSE /\ sends = 0
    BY DEF Init
  <2>2. Queued = {} /\ Posted = {} /\ Delivered = {}
    BY <2>1 DEF Queued, Posted, Delivered
  <2>3. Waiting = {} /\ Status = "open"
    BY <2>1, <2>2, WaitingIs
  <2> QED
    BY <2>1, <2>2, <2>3 DEF Box!Init
<1>2. WireInv /\ [Next]_vars => [Box!Next]_(Box!box)
  BY BoxStep
<1> QED
  BY <1>1, <1>2, WireInvariant, PTL DEF Spec, ImplementsOutbox, Box!Spec

=============================================================================
