----------------------------- MODULE JsonClient -----------------------------
(***************************************************************************)
(* PennMUSH's side of PennJSON (src/src/json/server.c, launch.c and the    *)
(* message level of json.c) inside the event loop of src/src/bsd.c.        *)
(*                                                                         *)
(* PennMUSH is one thread.  Its control is the position in the event loop  *)
(* (phase) and, on top of it, the stack of unfinished calls: "rpc" is      *)
(* fun_json_rpc() or "ack" json_server_execute_callback() blocked in       *)
(* json_server_dispatch(), "penn" is json_server_penn_call() running a     *)
(* function.  Softcode runs in process_commands(), in do_top() and under   *)
(* a "penn" frame, and is any sequence of rpc() calls.                     *)
(***************************************************************************)
EXTENDS JsonWire

CONSTANTS
  CallPhases,    \* the phases in which top-level softcode uses rpc() and @rpc
  StartMayFail,  \* may socketpair() or fork() fail?
  MaxCalls,      \* bound: rpc() calls made in a behaviour
  MaxStarts      \* bound: processes launched in a behaviour

ASSUME ClientAssumption ==
  /\ CallPhases \subseteq {"commands", "queue"}
  /\ StartMayFail \in BOOLEAN
  /\ MaxCalls \in Nat
  /\ MaxStarts \in Nat

VARIABLES
  phase,       \* where the event loop is; "crashed" after a null dereference
  selected,    \* FD_ISSET(fd, &input_set)
  state,       \* server.state
  encoder,     \* is server.encoder allocated?
  inbuf,       \* messages in server.in_buf from in_off to in_len
  current,     \* info.current
  depth,       \* info.depth
  soliciting,  \* info.soliciting
  cstack,      \* unfinished calls, innermost last
  base,        \* history: how many of them are older than the process
  calls,       \* history: rpc() calls made, gives their ids
  starts       \* history: processes launched

clientVars == <<phase, selected, state, encoder, inbuf, current, depth,
                soliciting, cstack, base, calls, starts>>

CFrame == [kind : {"rpc", "ack", "penn"}, id : Nat, saved : Context]

ClientTypeOK ==
  /\ phase \in {"commands", "setfd", "select", "queue", "issetfd", "crashed"}
  /\ selected \in BOOLEAN
  /\ state \in {"READY", "REQ", "WAITING"}
  /\ encoder \in BOOLEAN
  /\ inbuf \in Seq(Message)
  /\ current \in Context
  /\ depth \in Int
  /\ soliciting \in BOOLEAN
  /\ cstack \in Seq(CFrame)
  /\ base \in Nat
  /\ calls \in Nat
  /\ starts \in Nat

ClientInit ==
  /\ phase = "commands" /\ selected = FALSE
  /\ state = "READY" /\ encoder = FALSE /\ inbuf = <<>>
  /\ current = Nobody /\ depth = 0 /\ soliciting = FALSE
  /\ cstack = <<>> /\ base = 0 /\ calls = 0 /\ starts = 0

AtTopLevel == cstack = <<>>
Awaiting   == cstack # <<>> /\ Last(cstack).kind \in {"rpc", "ack"}
Serving    == cstack # <<>> /\ Last(cstack).kind = "penn"
TopLevelSoftcode == AtTopLevel /\ phase \in CallPhases
MayCall    == Serving \/ TopLevelSoftcode

-----------------------------------------------------------------------------
(* Mutant: the new process inherits the solicitation of the old one.       *)
StartKeepsSolicitation(msgs) ==
  /\ fd = 0 /\ starts < MaxStarts
  /\ starts' = starts + 1
  /\ OpenPair(starts + 1, msgs)
  /\ inbuf' = <<>>
  /\ encoder' = TRUE
  /\ base' = Len(cstack)
  /\ selected' \in {selected, FALSE}
  /\ UNCHANGED soliciting

(* json_server_start() when all of it succeeds.  The new socket may get    *)
(* the number of one closed since select(), whose bit is then taken for    *)
(* its own.                                                                *)
Start(msgs) ==
  /\ fd = 0 /\ starts < MaxStarts
  /\ starts' = starts + 1
  /\ OpenPair(starts + 1, msgs)
  /\ inbuf' = <<>>
  /\ encoder' = TRUE
  /\ soliciting' = FALSE
  /\ base' = Len(cstack)
  /\ selected' \in {selected, FALSE}

(* json_server_start() when socketpair() or fork() fails: the state was    *)
(* set already, the encoder is freed again.                                *)
StartFails ==
  /\ fd = 0 /\ StartMayFail
  /\ state' = "READY"
  /\ inbuf' = <<>>
  /\ encoder' = FALSE
  /\ UNCHANGED <<wireVars, phase, selected, current, depth, soliciting,
                 cstack, base, starts>>

(* json_server_penn_stop().  What is left in in_buf is not read again:     *)
(* json_server_start() empties it.                                         *)
Stop ==
  IF fd = 0
    THEN UNCHANGED <<wireVars, encoder>>
    ELSE ClosePair /\ encoder' = FALSE

(* json_server_receive() takes the next object from the buffer, which it   *)
(* refills with what the socket has when it is empty.                      *)
HasIncoming == inbuf # <<>> \/ toPenn # <<>>
Incoming == IF inbuf # <<>> THEN Head(inbuf) ELSE Head(toPenn)

(* Mutant: the result 0 of read() is not checked for.                      *)
EndOfFileUnchecked == FALSE

EndOfFile == ~HasIncoming /\ peer = "closed"

(* Mutant: what read() returned after the first object is thrown away.     *)
ReceiveDropsRest ==
  /\ HasIncoming
  /\ inbuf' = <<>>
  /\ toPenn' = IF inbuf # <<>> THEN toPenn ELSE <<>>

Receive ==
  \/ /\ inbuf # <<>>
     /\ inbuf' = Tail(inbuf)
     /\ UNCHANGED toPenn
  \/ /\ inbuf = <<>>
     /\ \E n \in 1..Len(toPenn) :
          /\ inbuf' = SubSeq(toPenn, 2, n)
          /\ toPenn' = SubSeq(toPenn, n + 1, Len(toPenn))

(* Mutant: a call that fails leaves the server running.                    *)
UnwindWithoutStop(s, d) ==
  /\ UNCHANGED <<wireVars, encoder>>
  /\ cstack' = Front(s)
  /\ depth' = d
  /\ IF Last(s).kind = "rpc"
       THEN current' = Last(s).saved /\ UNCHANGED phase
       ELSE phase' = "select" /\ UNCHANGED current

(* Mutant: the failed: exit does not fall through to success:.             *)
UnwindWithoutRestore(s, d) ==
  /\ Stop
  /\ cstack' = Front(s)
  /\ depth' = d
  /\ phase' = IF Last(s).kind = "rpc" THEN phase ELSE "select"
  /\ UNCHANGED current

(* The failed: exits of fun_json_rpc() and json_server_execute_callback()  *)
(* for the innermost frame of s: json_server_penn_stop(), and rpc() puts   *)
(* the caller's context back.                                              *)
Unwind(s, d) ==
  /\ Stop
  /\ cstack' = Front(s)
  /\ depth' = d
  /\ IF Last(s).kind = "rpc"
       THEN current' = Last(s).saved /\ UNCHANGED phase
       ELSE phase' = "select" /\ UNCHANGED current

-----------------------------------------------------------------------------
(* rpc(): the request is sent and the caller blocks.                       *)
RpcFrame == [kind |-> "rpc", id |-> calls + 1, saved |-> current]

(* Mutant: info->current is left as it was.                                *)
EnterRpcInOldContext(p) ==
  /\ calls' = calls + 1
  /\ cstack' = Append(cstack, RpcFrame)
  /\ state' = "WAITING"
  /\ UNCHANGED current

EnterRpc(p) ==
  /\ calls' = calls + 1
  /\ cstack' = Append(cstack, RpcFrame)
  /\ current' = p
  /\ state' = "WAITING"

Rpc(p) ==
  /\ MayCall /\ calls < MaxCalls
  /\ Connected /\ state = "READY"
  /\ SendToRuby(Call(calls + 1, p))
  /\ EnterRpc(p)
  /\ depth' = depth + 1
  /\ UNCHANGED <<phase, selected, encoder, inbuf, soliciting, base, starts>>

(* rpc() when json_server_penn_start() has to launch a process, which also *)
(* resets the call depth.                                                  *)
RpcStarts(p) ==
  /\ MayCall /\ calls < MaxCalls
  /\ Start(<<Call(calls + 1, p)>>)
  /\ EnterRpc(p)
  /\ depth' = 1
  /\ UNCHANGED phase

(* rpc() that gets no further than starting the server: no more than an    *)
(* error is returned.                                                      *)
RpcStartFails ==
  /\ MayCall /\ calls < MaxCalls
  /\ StartFails
  /\ calls' = calls + 1

(* rpc() that cannot send: the generator is in another state or write()    *)
(* reports that Ruby's end is closed.                                      *)
RpcFails ==
  /\ MayCall /\ calls < MaxCalls
  /\ fd # 0
  /\ state # "READY" \/ peer = "closed"
  /\ Stop
  /\ state' = IF state = "READY" THEN "REQ" ELSE state
  /\ calls' = calls + 1
  /\ UNCHANGED <<phase, selected, inbuf, current, depth, soliciting, cstack,
                 base, starts>>

(* @rpc START and @rpc STOP.  A shutdown or reboot stops as well.          *)
AdminStart ==
  /\ TopLevelSoftcode
  /\ Start(<<>>)
  /\ state' = "READY"
  /\ depth' = 0
  /\ UNCHANGED <<phase, current, cstack, calls>>

AdminStartFails ==
  /\ TopLevelSoftcode
  /\ StartFails
  /\ UNCHANGED calls

AdminStop ==
  /\ TopLevelSoftcode /\ fd # 0
  /\ Stop
  /\ UNCHANGED <<phase, selected, state, inbuf, current, depth, soliciting,
                 cstack, base, calls, starts>>

-----------------------------------------------------------------------------
(* json_server_dispatch() receives a request and json_server_penn_call()   *)
(* starts the function.                                                    *)
DispatchCall ==
  /\ Awaiting /\ HasIncoming
  /\ Incoming.type = "call"
  /\ Receive
  /\ cstack' = Append(cstack, [kind |-> "penn", id |-> Incoming.id,
                               saved |-> current])
  /\ state' = "READY"
  /\ depth' = depth + 1
  /\ UNCHANGED <<fd, peer, toRuby, phase, selected, encoder, current,
                 soliciting, base, calls, starts>>

(* Mutant: every solicitation within a transaction is refused.             *)
RefusableAlways(m) == m.type \in {"call", "req"}

(* A request that cannot be executed is answered with an error: no such    *)
(* function, a bad number of arguments, a value of an unsupported type, or *)
(* a solicitation while one is pending already.                            *)
Refusable(m) == m.type = "call" \/ (m.type = "req" /\ soliciting)

DispatchRefused ==
  /\ Awaiting /\ HasIncoming
  /\ Refusable(Incoming)
  /\ peer = "open"
  /\ Receive
  /\ toRuby' = Append(toRuby, Reply(Incoming.id))
  /\ state' = "WAITING"
  /\ UNCHANGED <<fd, peer, phase, selected, encoder, current, depth,
                 soliciting, cstack, base, calls, starts>>

DispatchRefusedFails ==
  /\ Awaiting /\ HasIncoming
  /\ Refusable(Incoming)
  /\ peer = "closed"
  /\ state' = "READY"
  /\ Unwind(cstack, depth - 1)
  /\ UNCHANGED <<selected, inbuf, soliciting, base, calls, starts>>

(* Mutant: the solicitation is answered like any other request.            *)
DispatchSolicitAnswered ==
  /\ Awaiting /\ HasIncoming
  /\ Incoming.type = "req" /\ ~soliciting
  /\ Receive
  /\ soliciting' = TRUE
  /\ toRuby' = Append(toRuby, Reply(Incoming.id))
  /\ state' = "WAITING"
  /\ UNCHANGED <<fd, peer, phase, selected, encoder, current, depth, cstack,
                 base, calls, starts>>

(* A solicitation that arrives within a transaction is remembered.         *)
DispatchSolicit ==
  /\ Awaiting /\ HasIncoming
  /\ Incoming.type = "req" /\ ~soliciting
  /\ Receive
  /\ soliciting' = TRUE
  /\ state' = "READY"
  /\ UNCHANGED <<fd, peer, toRuby, phase, selected, encoder, current, depth,
                 cstack, base, calls, starts>>

(* A result or an error ends the innermost call.  rpc() puts the caller's  *)
(* context back; after a callback json_server_setfd() goes on to select(). *)
DispatchReply ==
  /\ Awaiting /\ HasIncoming
  /\ Incoming.type = "reply"
  /\ Receive
  /\ state' = "READY"
  /\ depth' = depth - 1
  /\ cstack' = Front(cstack)
  /\ IF Last(cstack).kind = "rpc"
       THEN current' = Last(cstack).saved /\ UNCHANGED phase
       ELSE phase' = "select" /\ UNCHANGED current
  /\ UNCHANGED <<fd, peer, toRuby, selected, encoder, soliciting, base, calls,
                 starts>>

(* read() reports the end of the file: the process is gone.                *)
DispatchEof ==
  /\ Awaiting /\ EndOfFile
  /\ state' = "WAITING"
  /\ Unwind(cstack, depth - 1)
  /\ UNCHANGED <<selected, inbuf, soliciting, base, calls, starts>>

-----------------------------------------------------------------------------
(* The function of json_server_penn_call() returns and its result is sent. *)
PennReply ==
  /\ Serving
  /\ state = "READY" /\ encoder /\ peer = "open"
  /\ SendToRuby(Reply(Last(cstack).id))
  /\ state' = "WAITING"
  /\ cstack' = Front(cstack)
  /\ depth' = depth - 1
  /\ UNCHANGED <<phase, selected, encoder, inbuf, current, soliciting, base,
                 calls, starts>>

(* json_server_send_result() fails, because an rpc() of the function broke *)
(* the connection or write() fails.  The call that dispatched the function *)
(* fails with it.                                                          *)
PennReplyFails ==
  /\ Serving
  /\ state # "READY" \/ (encoder /\ peer = "closed")
  /\ Unwind(Front(cstack), depth - 2)
  /\ UNCHANGED <<selected, state, inbuf, soliciting, base, calls, starts>>

(* ... or it calls the generator without an encoder.                       *)
PennReplyCrash ==
  /\ Serving
  /\ state = "READY" /\ ~encoder
  /\ phase' = "crashed"
  /\ cstack' = <<>>
  /\ UNCHANGED <<wireVars, selected, state, encoder, inbuf, current, depth,
                 soliciting, base, calls, starts>>

-----------------------------------------------------------------------------
(* The event loop of shovechars(): process_commands(), json_server_setfd(),*)
(* select(), do_top(), json_server_issetfd().                              *)
EndCommands ==
  /\ AtTopLevel /\ phase = "commands"
  /\ phase' = "setfd"
  /\ UNCHANGED <<wireVars, selected, state, encoder, inbuf, current, depth,
                 soliciting, cstack, base, calls, starts>>

(* What json_server_receive_solicit() accepts.                             *)
Solicits(m) == m.type = "req" /\ ~soliciting

CallbackDue ==
  \/ inbuf # <<>> /\ Solicits(Head(inbuf))
  \/ inbuf = <<>> /\ soliciting

SetFdIdle ==
  /\ AtTopLevel /\ phase = "setfd"
  /\ fd = 0 \/ (inbuf = <<>> /\ ~soliciting)
  /\ phase' = "select"
  /\ UNCHANGED <<wireVars, selected, state, encoder, inbuf, current, depth,
                 soliciting, cstack, base, calls, starts>>

(* json_server_setfd() drains a buffered solicitation, and acknowledges a  *)
(* pending one: the callback's transaction begins.                         *)
SetFdCallback ==
  /\ AtTopLevel /\ phase = "setfd" /\ fd # 0
  /\ CallbackDue
  /\ state = "READY" /\ peer = "open"
  /\ inbuf' = IF inbuf = <<>> THEN <<>> ELSE Tail(inbuf)
  /\ soliciting' = FALSE
  /\ current' = God
  /\ SendToRuby(Ack(God))
  /\ state' = "WAITING"
  /\ cstack' = <<[kind |-> "ack", id |-> 0, saved |-> current]>>
  /\ depth' = depth + 1
  /\ UNCHANGED <<phase, selected, encoder, base, calls, starts>>

(* The buffered object is no solicitation, or the acknowledgement cannot   *)
(* be sent.                                                                *)
SetFdFails ==
  /\ AtTopLevel /\ phase = "setfd" /\ fd # 0
  /\ \/ inbuf # <<>> /\ ~Solicits(Head(inbuf))
     \/ CallbackDue /\ (state # "READY" \/ peer = "closed")
  /\ current' = IF CallbackDue THEN God ELSE current
  /\ soliciting' = IF CallbackDue THEN FALSE ELSE soliciting
  /\ state' = IF CallbackDue /\ state = "READY" THEN "REQ" ELSE state
  /\ phase' = "select"
  /\ Stop
  /\ UNCHANGED <<selected, inbuf, depth, cstack, base, calls, starts>>

(* select() returns, for this descriptor, another one or the timeout.      *)
Select ==
  /\ AtTopLevel /\ phase = "select"
  /\ selected' = (fd # 0 /\ (toPenn # <<>> \/ peer = "closed"))
  /\ phase' = "queue"
  /\ UNCHANGED <<wireVars, state, encoder, inbuf, current, depth, soliciting,
                 cstack, base, calls, starts>>

EndQueue ==
  /\ AtTopLevel /\ phase = "queue"
  /\ phase' = "issetfd"
  /\ UNCHANGED <<wireVars, selected, state, encoder, inbuf, current, depth,
                 soliciting, cstack, base, calls, starts>>

IsSetFdIdle ==
  /\ AtTopLevel /\ phase = "issetfd"
  /\ fd = 0 \/ ~selected
  /\ phase' = "commands"
  /\ selected' = FALSE
  /\ UNCHANGED <<wireVars, state, encoder, inbuf, current, depth, soliciting,
                 cstack, base, calls, starts>>

(* json_server_issetfd() blocks until there is an object to read.          *)
IsSetFdSolicit ==
  /\ AtTopLevel /\ phase = "issetfd" /\ fd # 0 /\ selected
  /\ HasIncoming /\ Solicits(Incoming)
  /\ Receive
  /\ soliciting' = TRUE
  /\ state' = "READY"
  /\ phase' = "commands"
  /\ selected' = FALSE
  /\ UNCHANGED <<fd, peer, toRuby, encoder, current, depth, cstack, base,
                 calls, starts>>

IsSetFdFails ==
  /\ AtTopLevel /\ phase = "issetfd" /\ fd # 0 /\ selected
  /\ EndOfFile \/ (HasIncoming /\ ~Solicits(Incoming))
  /\ Stop
  /\ state' = IF HasIncoming THEN "READY" ELSE "WAITING"
  /\ phase' = "commands"
  /\ selected' = FALSE
  /\ UNCHANGED <<inbuf, current, depth, soliciting, cstack, base, calls,
                 starts>>
=============================================================================
