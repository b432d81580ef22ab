-------------------------------- MODULE Client --------------------------------
(***************************************************************************)
(* The test client (app/client): its states, its requests and the reader   *)
(* of its stream (mode/client/client.go, state.go, cmd.go, net/stream.go). *)
(*                                                                         *)
(* The goroutine of loop runs the states, each visit of statePlay starts a *)
(* goroutine of heartbeats, and the stream has a reader.  sendReq is       *)
(* guarded by a mutex, but the reader is not: a response goes through      *)
(* reqSeq and the channel chResp.  log.Fatalf ends the process.            *)
(***************************************************************************)
EXTENDS Integers, Sequences

CONSTANTS
  Commands,    \* what sendreq may send: [kind, id, num]; not another LoginReq,
               \* which the agent would take for a login
  MaxSeq,      \* bound: requests
  MaxTickers   \* bound: visits of statePlay

ASSUME ClientAssumption ==
  /\ MaxSeq \in Nat /\ MaxTickers \in Nat \ {0}
  /\ Commands \subseteq [kind : {"beat", "use", "unknown"}, id : Nat, num : Int]

\* The goroutines: loop, and those of heartbeats, by number.
loop == 0
Nobody == MaxTickers + 1
Idle == [by |-> Nobody, kind |-> "none", seq |-> 0]
NoMsg == [pt |-> "none", seq |-> 0, kind |-> "none", id |-> 0, left |-> 0]
LoginReq == [kind |-> "login", id |-> 0, num |-> 0]
HeartbeatReq == [kind |-> "beat", id |-> 0, num |-> 0]

VARIABLES
  state,    \* list, create, token (stateInit), dial, exchange, login
            \* (stateLogin), play (statePlay), exited
  tickers,  \* goroutines of heartbeats
  sending,  \* the request of the goroutine inside sendReq: seq 0 until it is sent
  seqIncr,
  reqSeq,
  chResp,   \* the channel, of capacity 1
  holds,    \* the response the reader is about to put into chResp
  up,       \* requests on their way to the server
  down,     \* messages on their way to the client
  strayed,  \* history: a response of an earlier request met a request between
            \* its emptying of chResp and its setting of reqSeq
  foreign   \* history: a request has taken the response of another one

requestVars == <<sending, seqIncr, reqSeq, chResp, holds, strayed, foreign>>
clientVars == <<state, tickers, requestVars, up, down>>

ClientInit ==
  /\ state = "list" /\ tickers = 0 /\ sending = Idle /\ seqIncr = 0 /\ reqSeq = 0
  /\ chResp = <<>> /\ holds = NoMsg /\ up = <<>> /\ down = <<>>
  /\ strayed = FALSE /\ foreign = FALSE

Running == state # "exited"
Fatal == state' = "exited"

-----------------------------------------------------------------------------
(* stateInit: the characters, one on the server, the token for the gateway. *)

\* A request to the login service: an error or a code that is not zero is
\* fatal.
HttpRequest(answers) ==
  /\ state' \in answers \/ Fatal
  /\ UNCHANGED <<tickers, requestVars, up, down>>

\* Without a character on the server one is created.
GetCharacterList == state = "list" /\ HttpRequest({"token", "create"})
CreateCharacter == state = "create" /\ HttpRequest({"token"})
LoginCharacter == state = "token" /\ HttpRequest({"dial"})

-----------------------------------------------------------------------------
(* sendReq *)

\* Mutant: chResp is not emptied before a request.
LockKeeping(t, kind) ==
  /\ Running /\ sending = Idle /\ seqIncr < MaxSeq
  /\ sending' = [by |-> t, kind |-> kind, seq |-> 0]
  /\ strayed' = (strayed \/ holds # NoMsg)
  /\ UNCHANGED <<state, tickers, seqIncr, reqSeq, chResp, holds, foreign, up, down>>

\* The mutex, and chResp is emptied.
Lock(t, kind) ==
  /\ Running /\ sending = Idle /\ seqIncr < MaxSeq
  /\ sending' = [by |-> t, kind |-> kind, seq |-> 0]
  /\ chResp' = <<>>
  /\ strayed' = (strayed \/ holds # NoMsg)
  /\ UNCHANGED <<state, tickers, seqIncr, reqSeq, holds, foreign, up, down>>

\* EncryptAndWritePacket, and ReadAndDecryptPacket at the other end.
WritePacket(path, msg) == Append(path, msg)
ReadPacket(path) == Head(path)

\* The sequence number, reqSeq, and the packet.
Send(req) ==
  /\ Running /\ sending # Idle /\ sending.seq = 0 /\ sending.kind = req.kind
  /\ seqIncr' = seqIncr + 1 /\ reqSeq' = seqIncr'
  /\ sending' = [sending EXCEPT !.seq = seqIncr']
  /\ up' = WritePacket(up, [seq |-> seqIncr', kind |-> req.kind, id |-> req.id, num |-> req.num])
  /\ UNCHANGED <<state, tickers, chResp, holds, strayed, foreign, down>>

\* What follows a request: heartbeats and the login end the client when it
\* fails, the login leads to statePlay, which starts heartbeats; a command
\* only prints.
Return(ok) ==
  /\ sending' = Idle
  /\ \/ /\ sending.kind = "login" /\ ok
        /\ state' = "play" /\ tickers' = tickers + 1
     \/ /\ ~ok /\ (sending.kind = "login" \/ sending.by \in 1 .. MaxTickers)
        /\ Fatal /\ UNCHANGED tickers
     \/ /\ sending.kind # "login" /\ (ok \/ sending.by = loop)
        /\ UNCHANGED <<state, tickers>>

\* The packet cannot be sent: reqSeq is taken back.
SendFails ==
  /\ Running /\ sending # Idle /\ sending.seq = 0
  /\ seqIncr' = seqIncr + 1 /\ reqSeq' = 0
  /\ Return(FALSE)
  /\ UNCHANGED <<chResp, holds, strayed, foreign, up, down>>

\* A response of another type than the request's is an error.
TakeResponse ==
  /\ Running /\ sending.seq # 0 /\ chResp # <<>>
  /\ chResp' = <<>>
  /\ foreign' = (foreign \/ Head(chResp).seq # sending.seq)
  /\ Return(Head(chResp).kind = sending.kind)
  /\ UNCHANGED <<seqIncr, reqSeq, holds, strayed, up, down>>

\* Five seconds without one; reqSeq stays.
TimesOut ==
  /\ Running /\ sending.seq # 0
  /\ Return(FALSE)
  /\ UNCHANGED <<seqIncr, reqSeq, chResp, holds, strayed, foreign, up, down>>

-----------------------------------------------------------------------------
(* statePlay *)

\* tick: a heartbeat is due.
Tick(i) == state = "play" /\ i \in 1 .. tickers /\ Lock(i, "beat")

\* A line with sendreq.
Command(req) ==
  /\ state = "play" /\ Lock(loop, req.kind)

\* Ctrl-D ends run, and loop calls it again.
EndOfFile ==
  /\ state = "play" /\ sending.by # loop /\ tickers < MaxTickers
  /\ tickers' = tickers + 1
  /\ UNCHANGED <<state, requestVars, up, down>>

\* A line with exit.
Quit ==
  /\ state = "play" /\ sending.by # loop /\ state' = "exited"
  /\ UNCHANGED <<tickers, requestVars, up, down>>

-----------------------------------------------------------------------------
(* The reader of the stream: readLoop and OnStreamMsg. *)

Streaming == state \in {"login", "play"}

\* The compare-and-swap of reqSeq; pushes are only printed.
Passes(msg) == msg.pt = "resp" /\ msg.seq = reqSeq

ReadMsg ==
  /\ Streaming /\ holds = NoMsg /\ down # <<>>
  /\ down' = Tail(down)
  /\ IF Passes(ReadPacket(down))
     THEN /\ holds' = ReadPacket(down) /\ reqSeq' = 0
          /\ strayed' = (strayed \/ (sending # Idle /\ sending.seq = 0))
     ELSE UNCHANGED <<holds, reqSeq, strayed>>
  /\ UNCHANGED <<state, tickers, sending, seqIncr, chResp, foreign, up>>

\* Nothing arrives for ReadWriteTimeout: the stream closes (OnStreamClose).
ReadTimesOut ==
  /\ Streaming /\ holds = NoMsg /\ Fatal
  /\ UNCHANGED <<tickers, requestVars, up, down>>

\* The send into chResp blocks while it is full.
PutResponse ==
  /\ Running /\ holds # NoMsg /\ chResp = <<>>
  /\ chResp' = <<holds>> /\ holds' = NoMsg
  /\ UNCHANGED <<state, tickers, sending, seqIncr, reqSeq, strayed, foreign, up, down>>

ClientStep ==
  \/ GetCharacterList \/ CreateCharacter \/ LoginCharacter
  \/ state = "login" /\ seqIncr = 0 /\ Lock(loop, "login")
  \/ \E i \in 1 .. MaxTickers : Tick(i)
  \/ \E req \in Commands : Command(req)
  \/ \E req \in Commands \cup {LoginReq, HeartbeatReq} : Send(req)
  \/ SendFails \/ TakeResponse \/ TimesOut \/ EndOfFile \/ Quit
  \/ ReadMsg \/ ReadTimesOut \/ PutResponse
=============================================================================
