------------------------------- MODULE Client -------------------------------
(***************************************************************************)
(* The C++ client library (forwarder_sdk.cpp): one Client object, used by  *)
(* one application thread, with the background heartbeat thread that       *)
(* sign_on starts, against the relay server as a client sees it.           *)
(*                                                                         *)
(* Both threads write frames, each as two writes (header, then body) under *)
(* write_mu; only the application thread reads.  A call that awaits a      *)
(* reply takes events off the connection one by one, sets DELIVERs aside   *)
(* in pre_delivers_, skips the replies to heartbeats and throws on what it *)
(* did not expect.  in_order_ is left out: it is filled and emptied within *)
(* one turn of every loop.                                                 *)
(***************************************************************************)
EXTENDS Integers, Sequences

CONSTANTS
  SeqSpace,     \* sequence numbers wrap at this value (2^31)
  Waits,        \* values the application passes as wait_server_accept
  Faults,       \* what the server or the network may do besides answering
  MaxOpens,     \* bound: connections the object opens, one after the other
  MaxCalls,     \* bound: calls that send a request, sign_on included
  MaxBeats,     \* bound: automatic heartbeats
  MaxDelivers   \* bound: DELIVER frames the server sends

ASSUME ClientAssumption ==
  /\ SeqSpace \in Nat /\ SeqSpace > 1
  /\ Waits \subseteq BOOLEAN
  /\ Faults \subseteq {"refuse", "drop", "kick", "lose"}
  /\ MaxOpens \in Nat /\ MaxCalls \in Nat /\ MaxBeats \in Nat /\ MaxDelivers \in Nat

VARIABLES
  mu,       \* who holds write_mu
  seq,      \* Impl::seq
  isOpen,   \* sock.is_open()
  signed,   \* whether sign_on has returned on this connection
  app,      \* the call the application thread is in
  hb,       \* the heartbeat thread: hb_th_ and where its loop is
  hbStop,   \* hb_stop_
  pre,      \* pre_delivers_
  up,       \* bytes on their way to the server, one entry per write
  down,     \* frames on their way to the client
  server,   \* the server's session for this connection
  got,      \* history: DELIVERs recv_deliver has returned
  out,      \* history: how the last call ended
  hist,     \* history: what would excuse the library (see below)
  used      \* counters behind the bounds

vars == <<mu, seq, isOpen, signed, app, hb, hbStop, pre, up, down, server, got,
          out, hist, used>>

Ops == {"LOGIN", "DATA", "CONTROL", "HEARTBEAT"}

(* A frame of the client: its type, its sequence number, and a number that *)
(* tells apart frames whose sequence numbers coincide.                     *)
Frame == [op : Ops, seq : Nat, id : Nat]
NoFrame == [op |-> "LOGIN", seq |-> 0, id |-> 0]
Parts == {"header", "body"}
Part(p, f) == [part |-> p, frame |-> f]

(* Event: what RelayClient::recv makes of a frame of the server. *)
Event == [kind : {"deliver", "kick", "reply"}, id : Nat, seq : Nat,
          res : {"ok", "error"}, op : Ops \cup {"none"}]
Deliver(n) == [kind |-> "deliver", id |-> n, seq |-> 0, res |-> "ok", op |-> "none"]
KickEvent == [kind |-> "kick", id |-> 0, seq |-> 0, res |-> "ok", op |-> "none"]

(* The reply to f: send_err_reply carries no op. *)
Reply(f, res) == [kind |-> "reply", id |-> f.id, seq |-> f.seq, res |-> res,
                  op |-> IF res = "ok" THEN f.op ELSE "none"]

Hows == {"none", "returned", "refused", "mismatch", "early", "kicked", "eof",
         "unwritten"}

TypeOK ==
  /\ mu \in {"free", "app", "hb"}
  /\ seq \in 1..(SeqSpace - 1)
  /\ isOpen \in BOOLEAN /\ signed \in BOOLEAN /\ hbStop \in BOOLEAN
  /\ app \in [at : {"idle", "body", "drain", "shut", "joining", "gone"},
              op : Ops \cup {"DELIVER"}, frame : Frame, wait : BOOLEAN]
  /\ hb \in [at : {"none", "asleep", "body", "ended"}, frame : Frame]
  /\ pre \in Seq(Nat)
  /\ up \in Seq([part : Parts, frame : Frame])
  /\ down \in Seq(Event)
  /\ server \in [st : {"none", "accepted", "entered", "in", "closed"}, login : Frame]
  /\ got \in Seq(Nat)
  /\ out \in [op : Ops \cup {"DELIVER"}, how : Hows, own : BOOLEAN]
  /\ hist \in [base : Nat, loose : BOOLEAN, discarded : BOOLEAN, dropped : BOOLEAN]
  /\ used \in [opens : Nat, calls : Nat, frames : Nat, beats : Nat, delivers : Nat]

Idle == [at |-> "idle", op |-> "LOGIN", frame |-> NoFrame, wait |-> TRUE]
NoBeat(at) == [at |-> at, frame |-> NoFrame]
NoOutcome == [op |-> "LOGIN", how |-> "none", own |-> TRUE]
Server(st) == [st |-> st, login |-> NoFrame]

Init ==
  /\ mu = "free"
  /\ seq = 1
  /\ isOpen = FALSE /\ signed = FALSE
  /\ app = Idle
  /\ hb = NoBeat("none")
  /\ hbStop = TRUE
  /\ pre = <<>> /\ up = <<>> /\ down = <<>>
  /\ server = Server("none")
  /\ got = <<>>
  /\ out = NoOutcome
  /\ hist = [base |-> 0, loose |-> FALSE, discarded |-> FALSE, dropped |-> FALSE]
  /\ used = [opens |-> 0, calls |-> 0, frames |-> 0, beats |-> 0, delivers |-> 0]

-----------------------------------------------------------------------------
(* RelayClient: writing a frame.                                           *)

MutCanLock == TRUE

CanLock == mu = "free"

MutNextSeq(s) == (s + 1) % SeqSpace

next_seq(s) == IF (s + 1) % SeqSpace = 0 THEN 1 ELSE (s + 1) % SeqSpace

NewFrame(op) == [op |-> op, seq |-> next_seq(seq), id |-> used.frames + 1]

(* A write on a connection the server has given up may still succeed; its  *)
(* bytes go nowhere.                                                       *)
CanWrite == isOpen
CanFail == ~isOpen \/ server.st = "closed"
OnUplink(p) == IF server.st = "closed" THEN up ELSE Append(up, p)

(* write_mu is taken, the frame gets its number and its header is written. *)
WriteHeader(t, f) ==
  /\ CanLock /\ CanWrite
  /\ mu' = t
  /\ seq' = f.seq
  /\ up' = OnUplink(Part("header", f))

(* The body is written and write_mu released. *)
WriteBody(f) ==
  /\ CanWrite
  /\ mu' = "free"
  /\ up' = OnUplink(Part("body", f))

Ended(op, how, own) == out' = [op |-> op, how |-> how, own |-> own]

-----------------------------------------------------------------------------
(* The application thread.                                                 *)

(* open: connect under write_mu, from whatever the socket was before. *)
Open ==
  /\ app.at = "idle"
  /\ used.opens < MaxOpens
  /\ CanLock
  /\ isOpen' = TRUE
  /\ signed' = FALSE
  /\ server' = Server("accepted")
  /\ up' = <<>> /\ down' = <<>>
  /\ hist' = [hist EXCEPT !.base = used.delivers, !.loose = FALSE, !.discarded = FALSE]
  /\ used' = [used EXCEPT !.opens = @ + 1]
  /\ out' = NoOutcome
  /\ UNCHANGED <<mu, seq, app, hb, hbStop, pre, got>>

(* A call that sends a frame: sign_on, send, control_* and heartbeat.  The *)
(* application signs on before it calls anything else.                     *)
Call(op, wait) ==
  /\ app.at = "idle"
  /\ used.calls < MaxCalls
  /\ used.opens > 0
  /\ (op = "LOGIN") = ~signed
  /\ op \in {"LOGIN", "HEARTBEAT"} => wait
  /\ WriteHeader("app", NewFrame(op))
  /\ app' = [at |-> "body", op |-> op, frame |-> NewFrame(op), wait |-> wait]
  /\ used' = [used EXCEPT !.calls = @ + 1, !.frames = @ + 1]
  /\ UNCHANGED <<isOpen, signed, hb, hbStop, pre, down, server, got, out, hist>>

CallBody ==
  /\ app.at = "body"
  /\ WriteBody(app.frame)
  /\ IF app.wait
     THEN app' = [app EXCEPT !.at = "drain"] /\ UNCHANGED <<out, hist>>
     ELSE /\ app' = Idle
          /\ Ended(app.op, "returned", TRUE)
          /\ hist' = [hist EXCEPT !.loose = TRUE]
  /\ UNCHANGED <<seq, isOpen, signed, hb, hbStop, pre, down, server, got, used>>

(* Either write throws, and the exception leaves the call. *)
CallFails ==
  /\ CanFail
  /\ \/ /\ app.at = "idle" /\ used.opens > 0 /\ CanLock
        /\ used.calls < MaxCalls
        /\ used' = [used EXCEPT !.calls = @ + 1]
        /\ seq' = next_seq(seq)
        /\ UNCHANGED mu
     \/ app.at = "body" /\ mu' = "free" /\ UNCHANGED <<seq, used>>
  /\ app' = Idle
  /\ Ended(app.op, "unwritten", TRUE)
  /\ UNCHANGED <<isOpen, signed, hb, hbStop, pre, up, down, server, got, hist>>

MutSetAsideFirst == pre # <<>> /\ down = <<>>

SetAsideFirst == pre # <<>>

(* recv_deliver: what was set aside comes first. *)
recv_deliver ==
  /\ app.at = "idle" /\ signed
  /\ IF SetAsideFirst
     THEN /\ got' = Append(got, Head(pre))
          /\ pre' = Tail(pre)
          /\ Ended("DELIVER", "returned", TRUE)
          /\ UNCHANGED app
     ELSE /\ app' = [Idle EXCEPT !.at = "drain", !.op = "DELIVER"]
          /\ UNCHANGED <<pre, got, out>>
  /\ UNCHANGED <<mu, seq, isOpen, signed, hb, hbStop, up, down, server, hist, used>>

-----------------------------------------------------------------------------
(* The loops that take events until the call can end.                      *)

MutHeartbeatOk(e) == e.kind = "reply" /\ e.res = "ok" /\ e.op = "HEARTBEAT" /\ app.op # "DATA"

(* The reply to a heartbeat, skipped wherever it was not asked for. *)
HeartbeatOk(e) == e.kind = "reply" /\ e.res = "ok" /\ e.op = "HEARTBEAT"

IsMine(e) == e.seq = app.frame.seq

(* sign_on takes the first reply for its own. *)
sign_on(e) ==
  CASE e.res = "error" -> "refused"
    [] e.res = "ok" /\ e.op = "LOGIN" -> "returned"
    [] OTHER -> "mismatch"

MutDrainAck(e) == IF e.res = "error" THEN "refused" ELSE "returned"

(* drain_server_ack and drain_control_full. *)
drain_server_ack(e) ==
  CASE ~IsMine(e) -> "mismatch"
    [] IsMine(e) /\ e.res = "error" -> "refused"
    [] IsMine(e) /\ e.res = "ok" -> IF e.op = app.op THEN "returned" ELSE "mismatch"

expect_heartbeat_ok(e) == IF HeartbeatOk(e) THEN "returned" ELSE "mismatch"

MutOnReply(e) ==
  CASE HeartbeatOk(e) -> "skip"
    [] OTHER -> CASE app.op = "LOGIN" -> sign_on(e)
                  [] app.op \in {"HEARTBEAT", "DELIVER"} -> "mismatch"
                  [] OTHER -> drain_server_ack(e)

OnReply(e) ==
  CASE HeartbeatOk(e) /\ ~(app.op = "HEARTBEAT" /\ IsMine(e)) -> "skip"
    [] OTHER -> CASE app.op = "LOGIN" -> sign_on(e)
                  [] app.op = "HEARTBEAT" -> expect_heartbeat_ok(e)
                  [] app.op = "DELIVER" -> "mismatch"
                  [] OTHER -> drain_server_ack(e)

(* What the loop does with event e: go on ("skip") or end the call. *)
Verdict(e) ==
  CASE e.kind = "kick" -> "kicked"
    [] e.kind = "reply" -> OnReply(e)
    [] e.kind = "deliver" -> CASE app.op = "LOGIN" -> "early"
                               [] app.op = "DELIVER" -> "returned"
                               [] OTHER -> "skip"

MutSetAside(e) == pre

(* The DELIVERs a loop meets on the way are kept for recv_deliver. *)
SetAside(e) ==
  IF e.kind = "deliver" /\ Verdict(e) = "skip" THEN Append(pre, e.id) ELSE pre

(* start_auto_heartbeat_worker_, heartbeats enabled: a thread that was     *)
(* started once stays joinable, also when its loop has ended.              *)
Started == IF hb.at = "none" THEN NoBeat("asleep") ELSE hb

Drain ==
  LET e == Head(down)
      how == Verdict(e)
      login == app.op = "LOGIN" /\ how = "returned"
  IN
  /\ app.at = "drain" /\ isOpen
  /\ down # <<>>
  /\ down' = Tail(down)
  /\ pre' = SetAside(e)
  /\ got' = IF e.kind = "deliver" /\ how = "returned" THEN Append(got, e.id) ELSE got
  /\ IF how = "skip"
     THEN UNCHANGED <<app, out>>
     ELSE app' = Idle /\ Ended(app.op, how, e.kind # "reply" \/ e.id = app.frame.id)
  /\ hist' = [hist EXCEPT !.discarded = @ \/ how = "early"]
  /\ signed' = (signed \/ login)
  /\ hb' = IF login THEN Started ELSE hb
  /\ hbStop' = IF login /\ hb.at = "none" THEN FALSE ELSE hbStop
  /\ UNCHANGED <<mu, seq, isOpen, up, server, used>>

(* End of file: recv catches the error and closes, for which it needs      *)
(* write_mu; on a socket already closed it returns at once.                *)
EndOfFile ==
  /\ app.at = "drain"
  /\ isOpen => down = <<>> /\ server.st = "closed"
  /\ IF isOpen
     THEN app' = [app EXCEPT !.at = "shut"] /\ UNCHANGED out
     ELSE app' = Idle /\ Ended(app.op, "eof", TRUE)
  /\ UNCHANGED <<mu, seq, isOpen, signed, hb, hbStop, pre, up, down, server, got,
                 hist, used>>

close ==
  /\ app.at = "shut"
  /\ CanLock
  /\ isOpen' = FALSE
  /\ app' = Idle
  /\ Ended(app.op, "eof", TRUE)
  /\ UNCHANGED <<mu, seq, signed, hb, hbStop, pre, up, down, server, got, hist,
                 used>>

MutSignalStop == UNCHANGED hbStop

SignalStop == hbStop' = TRUE

(* ~Client: stop_auto_heartbeat_worker_ joins the thread, then the socket  *)
(* goes with RelayClient.                                                  *)
Destroy ==
  /\ app.at = "idle" /\ used.opens > 0
  /\ app' = [Idle EXCEPT !.at = "joining"]
  /\ SignalStop
  /\ UNCHANGED <<mu, seq, isOpen, signed, hb, pre, up, down, server, got, out,
                 hist, used>>

Join ==
  /\ app.at = "joining"
  /\ hb.at \in {"none", "ended"}
  /\ app' = [app EXCEPT !.at = "gone"]
  /\ isOpen' = FALSE
  /\ UNCHANGED <<mu, seq, signed, hb, hbStop, pre, up, down, server, got, out,
                 hist, used>>

-----------------------------------------------------------------------------
(* The heartbeat thread.                                                   *)

(* The interval is over: hb_stop_ was last looked at a second ago. *)
Beat ==
  /\ hb.at = "asleep"
  /\ used.beats < MaxBeats
  /\ WriteHeader("hb", NewFrame("HEARTBEAT"))
  /\ hb' = [at |-> "body", frame |-> NewFrame("HEARTBEAT")]
  /\ used' = [used EXCEPT !.beats = @ + 1, !.frames = @ + 1]
  /\ UNCHANGED <<isOpen, signed, app, hbStop, pre, down, server, got, out, hist>>

AfterBeat == IF hbStop THEN "ended" ELSE "asleep"

BeatBody ==
  /\ hb.at = "body"
  /\ WriteBody(hb.frame)
  /\ hb' = NoBeat(AfterBeat)
  /\ UNCHANGED <<seq, isOpen, signed, app, hbStop, pre, down, server, got, out,
                 hist, used>>

(* A write throws: the loop ends for good. *)
BeatFails ==
  /\ CanFail
  /\ \/ hb.at = "asleep" /\ CanLock /\ seq' = next_seq(seq) /\ UNCHANGED mu
     \/ hb.at = "body" /\ mu' = "free" /\ UNCHANGED seq
  /\ hb' = NoBeat("ended")
  /\ UNCHANGED <<isOpen, signed, app, hbStop, pre, up, down, server, got, out,
                 hist, used>>

BeatStops ==
  /\ hb.at = "asleep" /\ hbStop
  /\ hb' = NoBeat("ended")
  /\ UNCHANGED <<mu, seq, isOpen, signed, app, hbStop, pre, up, down, server,
                 got, out, hist, used>>

-----------------------------------------------------------------------------
(* The server, as far as a client can tell (handle_client_frame).          *)

(* A reply is sent, or dropped at the high-water mark. *)
Answer(f, res) ==
  \/ down' = Append(down, Reply(f, res)) /\ UNCHANGED hist
  \/ /\ "drop" \in Faults
     /\ hist' = [hist EXCEPT !.dropped = TRUE]
     /\ UNCHANGED down

Verdicts(f) ==
  CASE f.op = "LOGIN" -> {"error"}
    [] f.op = "HEARTBEAT" -> {"ok"}
    [] OTHER -> IF "refuse" \in Faults THEN {"ok", "error"} ELSE {"ok"}

(* The session ends: what it has queued and not yet written is lost. *)
Closes(last) ==
  /\ server' = Server("closed")
  /\ up' = <<>>
  /\ \E n \in 0..Len(down) : down' = SubSeq(down, 1, n) \o last

(* One whole frame is handled: before the login only LOGIN is, any other   *)
(* frame ends the session without a reply; after it LOGIN is an error.     *)
Handle ==
  LET f == up[1].frame
      Rest == Tail(Tail(up))
  IN
  /\ Len(up) >= 2
  /\ \/ /\ server.st = "accepted" /\ f.op # "LOGIN"
        /\ Closes(<<>>)
        /\ UNCHANGED hist
     \/ /\ server.st = "accepted" /\ f.op = "LOGIN"
        /\ "refuse" \in Faults
        /\ Answer(f, "error")
        /\ up' = Rest
        /\ UNCHANGED server
     \/ /\ server.st = "accepted" /\ f.op = "LOGIN"
        /\ server' = [st |-> "entered", login |-> f]
        /\ up' = Rest
        /\ UNCHANGED <<down, hist>>
     \/ /\ server.st = "in"
        /\ \E res \in Verdicts(f) : Answer(f, res)
        /\ up' = Rest
        /\ UNCHANGED server
  /\ UNCHANGED <<mu, seq, isOpen, signed, app, hb, hbStop, pre, got, out, used>>

(* The session is in the tables before the reply to its LOGIN is posted. *)
Greet ==
  /\ server.st = "entered"
  /\ Answer(server.login, "ok")
  /\ server' = Server("in")
  /\ UNCHANGED <<mu, seq, isOpen, signed, app, hb, hbStop, pre, up, got, out, used>>

SendDeliver ==
  /\ server.st \in {"entered", "in"}
  /\ used.delivers < MaxDelivers
  /\ used' = [used EXCEPT !.delivers = @ + 1]
  /\ down' = Append(down, Deliver(used.delivers + 1))
  /\ UNCHANGED <<mu, seq, isOpen, signed, app, hb, hbStop, pre, up, server, got,
                 out, hist>>

(* A kick, whose KICK comes last, or a stop or lost connection. *)
Close(last) ==
  /\ server.st \in {"accepted", "entered", "in"}
  /\ Closes(last)
  /\ UNCHANGED <<mu, seq, isOpen, signed, app, hb, hbStop, pre, got, out, hist,
                 used>>

Kicked == "kick" \in Faults /\ server.st # "accepted" /\ Close(<<KickEvent>>)
Lost == "lose" \in Faults /\ Close(<<>>)

-----------------------------------------------------------------------------
Application ==
  \/ Open \/ recv_deliver \/ Destroy
  \/ \E op \in Ops, wait \in Waits \cup {TRUE} : Call(op, wait)
InCall == CallBody \/ CallFails \/ Drain \/ EndOfFile \/ close \/ Join
Heart == BeatBody \/ BeatStops
Relay == Handle \/ Greet

Next ==
  \/ Application \/ InCall \/ Heart \/ Relay
  \/ Beat \/ BeatFails \/ SendDeliver \/ Kicked \/ Lost

Spec == Init /\ [][Next]_vars

(* Both threads run, and the server handles the frames it has received and *)
(* finishes a login (module Registry).  The application may stop calling.  *)
Fairness == WF_vars(InCall) /\ WF_vars(Heart) /\ WF_vars(Relay)

FairSpec == Spec /\ Fairness

-----------------------------------------------------------------------------
(* Properties.                                                             *)

(* The two writes of a frame stay together: no frame of one thread starts  *)
(* inside a frame of the other (write_mu around emit_msgpack).             *)
FramesWhole ==
  \A i \in 1..Len(up) :
    IF i % 2 = 1 THEN up[i].part = "header"
                 ELSE up[i].part = "body" /\ up[i].frame = up[i - 1].frame

(* DELIVERs are returned in the order they were sent, none twice, however  *)
(* many of them arrived while a call waited for its reply.                 *)
DeliversInOrder ==
  /\ \A i, j \in 1..Len(got) : i < j => got[i] < got[j]
  /\ \A i, j \in 1..Len(pre) : i < j => pre[i] < pre[j]
  /\ \A i \in 1..Len(got), j \in 1..Len(pre) : got[i] < pre[j]
  /\ \A j \in 1..Len(down) : down[j].kind = "deliver" =>
       /\ \A i \in 1..(j - 1) : down[i].kind = "deliver" => down[i].id < down[j].id
       /\ \A i \in 1..Len(got) : got[i] < down[j].id
       /\ \A i \in 1..Len(pre) : pre[i] < down[j].id

(* As long as the connection lives, every DELIVER sent on it is returned,  *)
(* set aside or still to be read; only a sign_on that meets one before its *)
(* own reply throws it away.                                               *)
NoneLost ==
  server.st # "closed" /\ ~hist.discarded =>
    \A n \in (hist.base + 1)..used.delivers :
      \/ \E i \in 1..Len(got) : got[i] = n
      \/ \E i \in 1..Len(pre) : pre[i] = n
      \/ \E i \in 1..Len(down) : down[i] = Deliver(n)

(* A call that awaits a reply ends as accepted or refused by the reply to  *)
(* its own request, whatever replies to other requests are on the way;     *)
(* sign_on, which compares no sequence number, on a connection where every *)
(* request was awaited.                                                    *)
OwnReply ==
  out.how \in {"returned", "refused"} =>
    out.own \/ (out.op = "LOGIN" /\ (hist.discarded \/ hist.loose))

(* An application that awaits every reply never sees one it did not        *)
(* expect, although the heartbeat thread sends requests of its own.        *)
NoStrayReply == out.how = "mismatch" => hist.loose \/ hist.discarded

(* A call that awaits a reply ends, unless the server dropped a reply. *)
Answered ==
  app.at = "drain" /\ app.op # "DELIVER" ~> app.at # "drain" \/ hist.dropped

(* The destructor returns: the heartbeat thread ends and is joined. *)
Joined == app.at = "joining" ~> app.at = "gone"

(* "默认在 sign_on 成功后由后台线程每 20s 发送 HEARTBEAT": the heartbeat     *)
(* thread runs when sign_on returns on a connection that is still up, also *)
(* when the object was connected before.                                   *)
BeatsAfterSignOn ==
  [][~signed /\ signed' /\ server'.st # "closed" => hb'.at \in {"asleep", "body"}]_vars

=============================================================================
