---------------------------- MODULE Conversation ----------------------------
(***************************************************************************)
(* The Ruby conversation server: the event loop, dispatch_method,          *)
(* remote_invoke, the rpc.ack method and invoke_later of src/game/ruby/lib.*)
(*                                                                         *)
(* The dispatch thread is the main loop (pc) with a stack of calls on top  *)
(* of it; @@depth is the height of the stack, since dispatch_method and    *)
(* remote_invoke each increment it on entry and decrement it in an ensure. *)
(* The body of a remotable method is any sequence of remote calls and      *)
(* invoke_later calls followed by a return or a raise.  Other threads of   *)
(* the process only call invoke_later.                                     *)
(***************************************************************************)
EXTENDS JsonWire

CONSTANTS
  MaxDepth,      \* MAX_DEPTH, which is 5
  MaxCallbacks,  \* MAX_CALLBACKS, which is 7
  MaxInvokes,    \* bound: remote calls made in a behaviour
  MaxPosts       \* bound: invoke_later calls made in a behaviour

ASSUME ConversationAssumption ==
  /\ MaxDepth \in Nat \ {0}
  /\ MaxCallbacks \in Nat \ {0}
  /\ MaxInvokes \in Nat
  /\ MaxPosts \in Nat

VARIABLES
  pc,            \* where the event loop is, or goes on after the dispatch
  rstack,        \* the calls in progress, innermost last
  rsoliciting,   \* @@soliciting
  rcontext,      \* PennJSON::Remote's @context
  queue,         \* CALLBACK_QUEUE, oldest first (see CallbackQueue)
  wake,          \* is there anything in WAKEUP_PIPE?
  posting,       \* threads between queue and wakeup in invoke_later
  invokes,       \* history: remote calls made, gives their ids
  posts          \* history: callbacks queued, gives their ids

processVars == <<pc, rstack, rsoliciting, rcontext, queue, wake, posting>>
rubyVars == <<processVars, invokes, posts>>

RFrame == [kind : {"method", "callback", "invoke"}, id : Nat, saved : Context]

ConversationTypeOK ==
  /\ pc \in {"check", "select", "drain"}
  /\ rstack \in Seq(RFrame)
  /\ rsoliciting \in BOOLEAN
  /\ rcontext \in Context
  /\ queue \in Seq(Nat)
  /\ wake \in BOOLEAN
  /\ posting \in Nat
  /\ invokes \in Nat
  /\ posts \in Nat

ConversationInit ==
  /\ pc = "check" /\ rstack = <<>> /\ rsoliciting = FALSE
  /\ rcontext = Nobody /\ queue = <<>> /\ wake = FALSE /\ posting = 0
  /\ invokes = 0 /\ posts = 0

(* A process that starts, and what is left of one that is gone.            *)
FreshProcess ==
  /\ pc' = "check" /\ rstack' = <<>> /\ rsoliciting' = FALSE
  /\ rcontext' = Nobody /\ queue' = <<>> /\ wake' = FALSE /\ posting' = 0
  /\ UNCHANGED <<invokes, posts>>

Executing == rstack # <<>> /\ Last(rstack).kind \in {"method", "callback"}
Invoking  == rstack # <<>> /\ Last(rstack).kind = "invoke"

SendToPenn(m) == toPenn' = Append(toPenn, m) /\ UNCHANGED <<fd, peer>>

-----------------------------------------------------------------------------
(* The event loop: decide whether to solicit, then wait in select().       *)
CheckQueue ==
  /\ Connected /\ rstack = <<>> /\ pc = "check"
  /\ pc' = "select"
  /\ IF ~rsoliciting /\ queue # <<>>
       THEN SendToPenn(Solicit) /\ rsoliciting' = TRUE /\ UNCHANGED toRuby
       ELSE UNCHANGED <<wireVars, rsoliciting>>
  /\ UNCHANGED <<rstack, rcontext, queue, wake, posting, invokes, posts>>

(* Mutant: the queue is not looked at again after a wakeup.                *)
DrainPipeWithoutCheck ==
  /\ Connected /\ rstack = <<>> /\ pc \in {"drain", "select"}
  /\ pc = "select" => wake /\ toRuby = <<>>
  /\ wake' = FALSE
  /\ pc' = "select"
  /\ UNCHANGED <<wireVars, rstack, rsoliciting, rcontext, queue, posting,
                 invokes, posts>>

(* The wakeup pipe is emptied when select() reports it, after the dispatch *)
(* if the socket was reported as well.                                     *)
DrainPipe ==
  /\ Connected /\ rstack = <<>>
  /\ \/ pc = "drain"
     \/ pc = "select" /\ wake /\ toRuby = <<>>
  /\ wake' = FALSE
  /\ pc' = "check"
  /\ UNCHANGED <<wireVars, rstack, rsoliciting, rcontext, queue, posting,
                 invokes, posts>>

(* dispatch_method up to the first line of the method: the depth check,    *)
(* and for rpc.ack the checks of pj_ack and its dequeue.  A method that is *)
(* not found is one that raises at once.                                   *)
Refused(m) ==
  \/ Len(rstack) + 1 > MaxDepth
  \/ m.type = "ack" /\ (rstack # <<>> \/ queue = <<>>)

DispatchMethod(m) ==
  IF Refused(m)
    THEN /\ toPenn' = Append(toPenn, Reply(m.id))
         /\ UNCHANGED <<rstack, rcontext, queue>>
    ELSE /\ rstack' = Append(rstack,
              [kind  |-> IF m.type = "ack" THEN "callback" ELSE "method",
               id    |-> m.id,
               saved |-> rcontext])
         /\ rcontext' = m.ctx
         /\ queue' = IF m.type = "ack" THEN Tail(queue) ELSE queue
         /\ UNCHANGED toPenn

(* Mutant: after a dispatch the loop goes straight back to select().       *)
StartTransactionThenSelect ==
  /\ Connected /\ rstack = <<>> /\ pc = "select" /\ toRuby # <<>>
  /\ Head(toRuby).type \in {"call", "ack"}
  /\ DispatchMethod(Head(toRuby))
  /\ toRuby' = Tail(toRuby)
  /\ pc' = IF wake THEN "drain" ELSE "select"
  /\ UNCHANGED <<fd, peer, rsoliciting, wake, posting, invokes, posts>>

(* select() reports the socket and the event loop reads an object.         *)
StartTransaction ==
  /\ Connected /\ rstack = <<>> /\ pc = "select" /\ toRuby # <<>>
  /\ Head(toRuby).type \in {"call", "ack"}
  /\ DispatchMethod(Head(toRuby))
  /\ toRuby' = Tail(toRuby)
  /\ pc' = IF wake THEN "drain" ELSE "check"
  /\ UNCHANGED <<fd, peer, rsoliciting, wake, posting, invokes, posts>>

(* An object without a method is no start of a transaction: the process    *)
(* panics, which ends it.                                                  *)
Panic ==
  /\ Connected /\ rstack = <<>> /\ pc = "select" /\ toRuby # <<>>
  /\ Head(toRuby).type \notin {"call", "ack"}
  /\ HangUp
  /\ FreshProcess

-----------------------------------------------------------------------------
(* Mutant: only dispatch_method looks at MAX_DEPTH.                        *)
RemoteInvokeAtAnyDepth ==
  /\ Connected /\ Executing
  /\ invokes < MaxInvokes
  /\ invokes' = invokes + 1
  /\ rstack' = Append(rstack, [kind |-> "invoke", id |-> invokes + 1,
                               saved |-> rcontext])
  /\ SendToPenn(Call(invokes + 1, rcontext))
  /\ UNCHANGED <<toRuby, pc, rsoliciting, rcontext, queue, wake, posting, posts>>

(* remote_invoke by the running method.  Beyond MAX_DEPTH it raises inside *)
(* the method, which is no step.                                           *)
RemoteInvoke ==
  /\ Connected /\ Executing
  /\ invokes < MaxInvokes
  /\ Len(rstack) + 1 <= MaxDepth
  /\ invokes' = invokes + 1
  /\ rstack' = Append(rstack, [kind |-> "invoke", id |-> invokes + 1,
                               saved |-> rcontext])
  /\ SendToPenn(Call(invokes + 1, rcontext))
  /\ UNCHANGED <<toRuby, pc, rsoliciting, rcontext, queue, wake, posting, posts>>

(* Mutant: any object ends the call.                                       *)
InvokeReturnsOnAnything ==
  /\ Connected /\ Invoking /\ toRuby # <<>>
  /\ rstack' = Front(rstack)
  /\ toRuby' = Tail(toRuby)
  /\ UNCHANGED <<fd, peer, toPenn, pc, rsoliciting, rcontext, queue, wake,
                 posting, invokes, posts>>

(* The loop of remote_invoke: a result or an error ends the call.          *)
InvokeReturns ==
  /\ Connected /\ Invoking /\ toRuby # <<>>
  /\ Head(toRuby).type = "reply"
  /\ rstack' = Front(rstack)
  /\ toRuby' = Tail(toRuby)
  /\ UNCHANGED <<fd, peer, toPenn, pc, rsoliciting, rcontext, queue, wake,
                 posting, invokes, posts>>

(* ... and a method is a recursive call.                                   *)
RecursiveCall ==
  /\ Connected /\ Invoking /\ toRuby # <<>>
  /\ Head(toRuby).type \in {"call", "ack"}
  /\ DispatchMethod(Head(toRuby))
  /\ toRuby' = Tail(toRuby)
  /\ UNCHANGED <<fd, peer, pc, rsoliciting, wake, posting, invokes, posts>>

(* The method returns or raises: the context is put back, a callback       *)
(* acknowledges the solicitation, and the answer is written.               *)
MethodReturns ==
  /\ Connected /\ Executing
  /\ LET f == Last(rstack) IN
       /\ rcontext' = f.saved
       /\ rsoliciting' = IF f.kind = "callback" THEN FALSE ELSE rsoliciting
       /\ SendToPenn(Reply(f.id))
  /\ rstack' = Front(rstack)
  /\ UNCHANGED <<toRuby, pc, queue, wake, posting, invokes, posts>>

-----------------------------------------------------------------------------
(* invoke_later: a full queue raises, which is no step.  In the dispatch   *)
(* thread nothing comes between queue and wakeup.                          *)
CanPost == Connected /\ posts < MaxPosts /\ Len(queue) < MaxCallbacks

InvokeLater ==
  /\ CanPost /\ Executing
  /\ queue' = Append(queue, posts + 1)
  /\ posts' = posts + 1
  /\ wake' = TRUE
  /\ UNCHANGED <<wireVars, pc, rstack, rsoliciting, rcontext, posting, invokes>>

(* Another thread queues first and writes to the wakeup pipe later.        *)
ThreadQueues ==
  /\ CanPost
  /\ queue' = Append(queue, posts + 1)
  /\ posts' = posts + 1
  /\ posting' = posting + 1
  /\ UNCHANGED <<wireVars, pc, rstack, rsoliciting, rcontext, wake, invokes>>

(* Mutant: wakeup without a callback queued before.                        *)
ThreadWakesTwice ==
  /\ Connected
  /\ posting' = posting - 1
  /\ wake' = TRUE
  /\ UNCHANGED <<wireVars, pc, rstack, rsoliciting, rcontext, queue, invokes,
                 posts>>

ThreadWakes ==
  /\ Connected /\ posting > 0
  /\ posting' = posting - 1
  /\ wake' = TRUE
  /\ UNCHANGED <<wireVars, pc, rstack, rsoliciting, rcontext, queue, invokes,
                 posts>>
=============================================================================
