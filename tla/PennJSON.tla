------------------------------ MODULE PennJSON ------------------------------
(***************************************************************************)
(* PennJSON: PennMUSH's client and the Ruby conversation server, joined by *)
(* the socket pair.  Either process may act at any time; launching or      *)
(* stopping a server also starts or forgets the Ruby process, and a Ruby   *)
(* process may die at any time.                                            *)
(***************************************************************************)
EXTENDS JsonClient, Conversation

CONSTANT MaxCrashes   \* bound: Ruby processes that die on their own

ASSUME PennJSONAssumption == MaxCrashes \in Nat

VARIABLE crashes      \* history: how many did

vars == <<wireVars, clientVars, rubyVars, crashes>>

Init ==
  /\ fd = 0 /\ peer = "closed" /\ toRuby = <<>> /\ toPenn = <<>>
  /\ ClientInit
  /\ ConversationInit
  /\ crashes = 0

(* What a client action does to the Ruby process: a descriptor that        *)
(* changes is a process that starts or one that no longer matters.         *)
Follow ==
  /\ IF fd' = fd THEN UNCHANGED rubyVars ELSE FreshProcess
  /\ UNCHANGED crashes

Alone == UNCHANGED <<clientVars, crashes>>

(* The Ruby process is killed, exits, or dies of an exception that is no   *)
(* StandardError.                                                          *)
Crash ==
  /\ Connected /\ crashes < MaxCrashes
  /\ crashes' = crashes + 1
  /\ HangUp
  /\ FreshProcess
  /\ UNCHANGED clientVars

Next ==
  \* softcode goes on as it likes
  \/ \E p \in Player : Rpc(p) /\ Follow
  \/ \E p \in Player : RpcStarts(p) /\ Follow
  \/ RpcStartFails /\ Follow
  \/ RpcFails /\ Follow
  \/ AdminStart /\ Follow
  \/ AdminStartFails /\ Follow
  \/ AdminStop /\ Follow
  \* PennMUSH
  \/ DispatchCall /\ Follow
  \/ DispatchRefused /\ Follow
  \/ DispatchRefusedFails /\ Follow
  \/ DispatchSolicit /\ Follow
  \/ DispatchReply /\ Follow
  \/ DispatchEof /\ Follow
  \/ PennReply /\ Follow
  \/ PennReplyFails /\ Follow
  \/ PennReplyCrash /\ Follow
  \/ EndCommands /\ Follow
  \/ SetFdIdle /\ Follow
  \/ SetFdCallback /\ Follow
  \/ SetFdFails /\ Follow
  \/ Select /\ Follow
  \/ EndQueue /\ Follow
  \/ IsSetFdIdle /\ Follow
  \/ IsSetFdSolicit /\ Follow
  \/ IsSetFdFails /\ Follow
  \* the Ruby process
  \/ CheckQueue /\ Alone
  \/ DrainPipe /\ Alone
  \/ StartTransaction /\ Alone
  \/ Panic /\ Alone
  \/ RemoteInvoke /\ Alone
  \/ InvokeReturns /\ Alone
  \/ RecursiveCall /\ Alone
  \/ MethodReturns /\ Alone
  \/ InvokeLater /\ Alone
  \/ ThreadQueues /\ Alone
  \/ ThreadWakes /\ Alone
  \/ Crash

Spec == Init /\ [][Next]_vars

-----------------------------------------------------------------------------
(* Fairness.  PennMUSH's thread runs whenever it is not blocked, so its    *)
(* steps other than those softcode may or may not take are weakly fair,    *)
(* and so are those of Ruby's dispatch thread and of a thread that has     *)
(* queued a callback.                                                      *)
ClientProgress ==
  \/ DispatchCall \/ DispatchRefused \/ DispatchRefusedFails
  \/ DispatchSolicit \/ DispatchReply \/ DispatchEof
  \/ PennReply \/ PennReplyFails \/ PennReplyCrash
  \/ EndCommands \/ SetFdIdle \/ SetFdCallback \/ SetFdFails
  \/ Select \/ EndQueue \/ IsSetFdIdle \/ IsSetFdSolicit \/ IsSetFdFails

DispatchThread ==
  \/ CheckQueue \/ DrainPipe \/ StartTransaction \/ Panic
  \/ InvokeReturns \/ RecursiveCall \/ MethodReturns

FairSpec ==
  /\ Spec
  /\ WF_vars(ClientProgress /\ Follow)
  /\ WF_vars(DispatchThread /\ Alone)
  /\ WF_vars(ThreadWakes /\ Alone)

(* The type invariant: the globals and fields of both sides stay in range. *)
TypeOK ==
  /\ WireTypeOK
  /\ ClientTypeOK
  /\ ConversationTypeOK
  /\ crashes \in Nat
-----------------------------------------------------------------------------
(* Safety.                                                                 *)

(* The frames of the process PennMUSH is connected to.                     *)
Mine == SubSeq(cstack, base + 1, Len(cstack))

(* Everything Ruby has sent and PennMUSH has not yet dispatched.           *)
Unread == inbuf \o toPenn

Count(s, types) == Cardinality({ i \in DOMAIN s : s[i].type \in types })

(* README.txt:60, "everything happens in order on a single thread": exactly*)
(* one of PennMUSH, Ruby and a message between them holds the turn.  So the*)
(* Ruby parser never sees a second object ("Protocol violation.") and the  *)
(* two sides never wait for each other within a transaction.               *)
TurnTaking ==
  Connected =>
    1 =   (IF AtTopLevel \/ Serving THEN 1 ELSE 0)
        + (IF Executing THEN 1 ELSE 0)
        + Len(toRuby)
        + Count(Unread, {"call", "reply"})

(* README.txt:70, "No more than one notification may be pending at once",  *)
(* and none is lost: Ruby waits for an acknowledgement exactly when its    *)
(* rpc.req is in flight or noted by PennMUSH, or rpc.ack is on its way or  *)
(* running.                                                                *)
OneNotification ==
  Connected =>
    (IF rsoliciting THEN 1 ELSE 0) =
        Count(Unread, {"req"})
      + (IF soliciting THEN 1 ELSE 0)
      + Count(toRuby, {"ack"})
      + Cardinality({ i \in DOMAIN rstack : rstack[i].kind = "callback" })

(* The two call stacks are two views of one: call by call PennMUSH's frames*)
(* match Ruby's, at most the last call has not arrived or was answered     *)
(* already, and an answer in flight is the answer to the innermost call of *)
(* the side that will read it.                                             *)
Matches(f, r) ==
  /\ f.id = r.id
  /\ <<f.kind, r.kind>> \in
       {<<"rpc", "method">>, <<"ack", "callback">>, <<"penn", "invoke">>}

NestingAgrees ==
  /\ Connected /\ Len(cstack) >= base =>
       /\ \A i \in DOMAIN Mine \cap DOMAIN rstack : Matches(Mine[i], rstack[i])
       /\ Len(Mine) - Len(rstack) \in {-1, 0, 1}
       /\ \A i \in DOMAIN toRuby : toRuby[i].type = "reply" =>
            Len(rstack) > Len(Mine) /\ toRuby[i].id = Last(rstack).id
  /\ \A i \in DOMAIN Unread : fd # 0 /\ Unread[i].type = "reply" =>
       Awaiting /\ Unread[i].id = Last(cstack).id

(* A function that Ruby calls ends in the context it began in, whatever    *)
(* became of the rpc() calls it made itself in between.                    *)
ContextRestored == Serving => current = Last(cstack).saved

(* That context is the one Ruby shows the method that made the call, as    *)
(* long as the process that called is the one PennMUSH is connected to.    *)
ContextShown ==
  Serving /\ Connected /\ Len(cstack) > base => current = rcontext

(* Between transactions a connected server has no call open on either side *)
(* and info->depth is back to 0: a server launched inside a transaction,   *)
(* which started to count at 0 in the middle of it, does not outlive it.   *)
TopLevelBalanced ==
  AtTopLevel /\ fd # 0 => depth = 0 /\ base = 0 /\ rstack = <<>>

(* MAX_DEPTH, which only Ruby checks, bounds the recursion of both sides.  *)
RecursionBounded ==
  /\ Len(rstack) <= MaxDepth
  /\ Connected => Len(cstack) - base <= MaxDepth + 1

(* Ruby is sent an answer it did not ask for, and panics, only when the    *)
(* server was replaced under the call that is answered.                    *)
StrayOnlyAfterRestart ==
  \A i \in DOMAIN toRuby : toRuby[i].type = "reply" /\ rstack = <<>> =>
    Len(cstack) < base

(* Ruby does not sleep in select() on a callback: if one is queued then an *)
(* acknowledgement, a message or a wakeup is due.                          *)
NoLostWakeup ==
  Connected /\ rstack = <<>> /\ pc = "select" /\ queue # <<>> =>
    rsoliciting \/ wake \/ posting > 0 \/ toRuby # <<>>

(* json.c:1132, the encoder set to NULL "not needed; for safety": no result*)
(* is ever generated with an encoder that was freed.                       *)
EncoderLive == phase # "crashed"

-----------------------------------------------------------------------------
(* Liveness.                                                               *)

(* Every transaction ends, also when Ruby dies in the middle of it.        *)
RpcReturns == ~AtTopLevel ~> AtTopLevel

(* README.txt:86-91: a solicitation is acknowledged, once the transaction  *)
(* in progress is completed (or the server is gone).                       *)
SolicitationAcknowledged == rsoliciting ~> ~rsoliciting

(* A callback that was queued is executed (or lost with its process).      *)
CallbackRuns ==
  \A k \in 1..MaxPosts : (k \in ToSet(queue)) ~> (k \notin ToSet(queue))
=============================================================================
