-------------------------- MODULE PennJSON_proofs --------------------------
(***************************************************************************)
(* Theorems about PennJSON, for every set of players, every depth and      *)
(* every number of calls, launches and deaths: the type invariant, that    *)
(* Ruby's event loop never sleeps on a callback, that the context of a     *)
(* caller is always put back, and then that the two call stacks are one:   *)
(* turns, nesting, notifications and the contexts Ruby works under.        *)
(***************************************************************************)
EXTENDS PennJSON, SequenceTheorems, FiniteSetTheorems, TLAPS

(* What is left, and what is taken, when a stack is popped.                *)
LEMMA PopType ==
  ASSUME NEW S, NEW s \in Seq(S), s # <<>>
  PROVE  /\ Front(s) \in Seq(S) /\ Last(s) \in S
         /\ Len(s) \in Nat \ {0} /\ Len(Front(s)) = Len(s) - 1
         /\ \A i \in 1..(Len(s) - 1) : Front(s)[i] = s[i]
<1>1. Len(s) \in Nat \ {0} /\ \A i \in 1..Len(s) : s[i] \in S
  BY EmptySeq, ElementOfSeq
<1>2. Last(s) \in S
  BY <1>1 DEF Last
<1>3. /\ Front(s) \in Seq(S) /\ Len(Front(s)) = Len(s) - 1
      /\ \A i \in 1..(Len(s) - 1) : Front(s)[i] = s[i]
  <2> DEFINE n == Len(s) - 1
  <2>1. n \in Nat /\ \A i \in 1..n : s[i] \in S
    BY <1>1
  <2> HIDE DEF n
  <2>2. /\ SubSeq(s, 1, n) \in Seq(S)
        /\ Len(SubSeq(s, 1, n)) = IF 1 <= n THEN n - 1 + 1 ELSE 0
        /\ \A i \in 1..(n - 1 + 1) : SubSeq(s, 1, n)[i] = s[1 + i - 1]
    BY <2>1, SubSeqProperties
  <2>3. /\ SubSeq(s, 1, n) \in Seq(S) /\ Len(SubSeq(s, 1, n)) = n
        /\ \A i \in 1..n : SubSeq(s, 1, n)[i] = s[i]
    BY <2>1, <2>2
  <2> QED
    BY <2>3 DEF Front, n
<1> QED
  BY <1>1, <1>2, <1>3

(* Whatever read() returned, the objects not yet taken are messages.       *)
LEMMA ReceiveType ==
  ASSUME inbuf \in Seq(Message), toPenn \in Seq(Message), Receive
  PROVE  inbuf' \in Seq(Message) /\ toPenn' \in Seq(Message)
<1>1. CASE inbuf # <<>> /\ inbuf' = Tail(inbuf) /\ UNCHANGED toPenn
  BY <1>1
<1>2. ASSUME NEW n \in 1..Len(toPenn),
             inbuf' = SubSeq(toPenn, 2, n),
             toPenn' = SubSeq(toPenn, n + 1, Len(toPenn))
      PROVE  inbuf' \in Seq(Message) /\ toPenn' \in Seq(Message)
  BY <1>2
<1> QED
  BY <1>1, <1>2 DEF Receive

(* The next object is a message, from the buffer or from the socket.       *)
LEMMA IncomingType ==
  ASSUME inbuf \in Seq(Message), toPenn \in Seq(Message), HasIncoming
  PROVE  Incoming \in Message
  BY DEF HasIncoming, Incoming

(* What the two sides send are messages.                                   *)
LEMMA MessageTypes ==
  ASSUME NEW id \in Nat, NEW c \in Context
  PROVE  /\ Call(id, c) \in Message /\ Ack(c) \in Message
         /\ Solicit \in Message /\ Reply(id) \in Message
  BY DEF Call, Ack, Solicit, Reply, Message, Context

(* The innermost frame of a stack is a frame.                              *)
LEMMA TopFrame ==
  ASSUME cstack \in Seq(CFrame), cstack # <<>>
  PROVE  /\ Front(cstack) \in Seq(CFrame) /\ Last(cstack) \in CFrame
         /\ Last(cstack).id \in Nat /\ Last(cstack).saved \in Context
<1>1. Front(cstack) \in Seq(CFrame) /\ Last(cstack) \in CFrame
  BY PopType
<1> QED
  BY <1>1 DEF CFrame

(* PennMUSH's stack alternates: calls it waits for, and functions it runs  *)
(* for one of them, which end in the context they began in.                *)
Shape(s, c) ==
  \A i \in 1..Len(s) :
    /\ s[i].kind = "penn" <=> i > 1 /\ s[i - 1].kind # "penn"
    /\ s[i].kind = "ack" => i = 1
    /\ s[i].kind = "penn" =>
         s[i].saved = IF i = Len(s) THEN c ELSE s[i + 1].saved

StackShape == Shape(cstack, current)

(* A function is never run but for a call, which fails if it does.         *)
LEMMA ServedCall ==
  ASSUME cstack \in Seq(CFrame), StackShape, Serving
  PROVE  /\ Front(cstack) \in Seq(CFrame) /\ Front(cstack) # <<>>
         /\ Last(Front(cstack)) = cstack[Len(cstack) - 1]
<1>1. /\ Len(cstack) \in Nat \ {0} /\ Len(Front(cstack)) = Len(cstack) - 1
      /\ Front(cstack) \in Seq(CFrame)
      /\ \A i \in 1..(Len(cstack) - 1) : Front(cstack)[i] = cstack[i]
  BY PopType DEF Serving
<1>2. Len(cstack) > 1
  BY <1>1 DEF StackShape, Shape, Serving, Last
<1>3. Front(cstack) # <<>>
  BY <1>1, <1>2
<1>4. Last(Front(cstack)) = cstack[Len(cstack) - 1]
  BY <1>1, <1>2 DEF Last
<1> QED
  BY <1>1, <1>3, <1>4

(* json_server_penn_stop() keeps the types of the wire and the encoder.    *)
LEMMA StopType ==
  ASSUME WireTypeOK, encoder \in BOOLEAN, Stop
  PROVE  WireTypeOK' /\ encoder' \in BOOLEAN
<1>1. CASE fd = 0
  BY <1>1 DEF WireTypeOK, Stop, wireVars
<1>2. CASE fd # 0
  <2>1. WireTypeOK'
    BY <1>2 DEF Stop, ClosePair, WireTypeOK
  <2>2. encoder' \in BOOLEAN
    BY <1>2 DEF Stop
  <2> QED
    BY <2>1, <2>2
<1> QED
  BY <1>1, <1>2

(* A failing call keeps them, and those of the stack and the context.      *)
LEMMA UnwindType ==
  ASSUME WireTypeOK, ClientTypeOK, NEW s \in Seq(CFrame), s # <<>>,
         NEW d \in Int, Unwind(s, d)
  PROVE  /\ WireTypeOK' /\ encoder' \in BOOLEAN
         /\ cstack' \in Seq(CFrame) /\ depth' \in Int
         /\ current' \in Context
         /\ phase' \in {"commands", "setfd", "select", "queue", "issetfd", "crashed"}
<1>1. WireTypeOK' /\ encoder' \in BOOLEAN
  BY StopType DEF Unwind, ClientTypeOK
<1>2. Last(s) \in CFrame /\ Front(s) \in Seq(CFrame)
  BY PopType
<1> QED
  BY <1>1, <1>2 DEF Unwind, ClientTypeOK, CFrame

(* A launched process has a typed wire, and nothing else changes type.     *)
LEMMA StartType ==
  ASSUME WireTypeOK, ClientTypeOK, NEW msgs \in Seq(Message), Start(msgs)
  PROVE  /\ WireTypeOK' /\ starts' \in Nat /\ base' \in Nat
         /\ inbuf' \in Seq(Message) /\ encoder' \in BOOLEAN
         /\ soliciting' \in BOOLEAN /\ selected' \in BOOLEAN
         /\ fd' # 0
<1>1. WireTypeOK' /\ starts' \in Nat /\ fd' # 0
  BY DEF Start, OpenPair, WireTypeOK, ClientTypeOK
<1>2. base' \in Nat /\ inbuf' \in Seq(Message)
  BY DEF Start, ClientTypeOK
<1>3. encoder' \in BOOLEAN /\ soliciting' \in BOOLEAN
  BY DEF Start
<1>4. selected' \in BOOLEAN
  BY DEF Start, ClientTypeOK
<1> QED
  BY <1>1, <1>2, <1>3, <1>4

(* A launch that fails keeps the types.                                    *)
LEMMA StartFailsType ==
  ASSUME WireTypeOK, ClientTypeOK, calls' \in Nat, StartFails
  PROVE  WireTypeOK' /\ ClientTypeOK'
<1>1. WireTypeOK'
  BY DEF StartFails, wireVars, WireTypeOK
<1>2. encoder' \in BOOLEAN
  BY DEF StartFails
<1> QED
  BY <1>1, <1>2 DEF StartFails, ClientTypeOK

(* The calls of softcode keep the types of both processes' shared state.   *)
LEMMA SoftcodeType ==
  ASSUME WireTypeOK, ClientTypeOK,
         \/ \E p \in Player : Rpc(p) \/ RpcStarts(p)
         \/ RpcStartFails \/ RpcFails
         \/ AdminStart \/ AdminStartFails \/ AdminStop
  PROVE  WireTypeOK' /\ ClientTypeOK'
<1>1. ASSUME NEW p \in Player
      PROVE  /\ p \in Context /\ RpcFrame \in CFrame
             /\ Call(calls + 1, p) \in Message
             /\ calls + 1 \in Nat
             /\ Append(cstack, RpcFrame) \in Seq(CFrame)
  <2>1. RpcFrame \in CFrame /\ calls + 1 \in Nat /\ p \in Context
    BY DEF RpcFrame, CFrame, ClientTypeOK, Context
  <2> QED
    BY <2>1, MessageTypes DEF ClientTypeOK
<1>2. ASSUME NEW p \in Player, Rpc(p)
      PROVE  WireTypeOK' /\ ClientTypeOK'
  <2>1. WireTypeOK'
    BY <1>1, <1>2 DEF Rpc, SendToRuby, WireTypeOK
  <2> QED
    BY <1>1, <1>2, <2>1 DEF Rpc, EnterRpc, ClientTypeOK
<1>3. ASSUME NEW p \in Player, RpcStarts(p)
      PROVE  WireTypeOK' /\ ClientTypeOK'
  <2>1. <<Call(calls + 1, p)>> \in Seq(Message)
    BY <1>1
  <2>2. /\ WireTypeOK' /\ starts' \in Nat /\ base' \in Nat
        /\ inbuf' \in Seq(Message) /\ encoder' \in BOOLEAN
        /\ soliciting' \in BOOLEAN /\ selected' \in BOOLEAN
    BY <1>3, <2>1, StartType DEF RpcStarts
  <2> QED
    BY <1>1, <1>3, <2>2 DEF RpcStarts, EnterRpc, ClientTypeOK
<1>4. CASE RpcStartFails
  BY <1>4, StartFailsType DEF RpcStartFails, ClientTypeOK
<1>5. CASE RpcFails
  <2>1. WireTypeOK' /\ encoder' \in BOOLEAN
    BY <1>5, StopType DEF RpcFails, ClientTypeOK
  <2> QED
    BY <1>5, <2>1 DEF RpcFails, ClientTypeOK
<1>6. CASE AdminStart
  <2>1. /\ WireTypeOK' /\ starts' \in Nat /\ base' \in Nat
        /\ inbuf' \in Seq(Message) /\ encoder' \in BOOLEAN
        /\ soliciting' \in BOOLEAN /\ selected' \in BOOLEAN
    <3>1. <<>> \in Seq(Message)
      OBVIOUS
    <3> QED
      BY <1>6, <3>1, StartType DEF AdminStart
  <2> QED
    BY <1>6, <2>1 DEF AdminStart, ClientTypeOK
<1>7. CASE AdminStartFails
  BY <1>7, StartFailsType DEF AdminStartFails, ClientTypeOK
<1>8. CASE AdminStop
  <2>1. WireTypeOK' /\ encoder' \in BOOLEAN
    BY <1>8, StopType DEF AdminStop, ClientTypeOK
  <2> QED
    BY <1>8, <2>1 DEF AdminStop, ClientTypeOK
<1> QED
  BY <1>2, <1>3, <1>4, <1>5, <1>6, <1>7, <1>8

(* So do the steps of json_server_dispatch() and json_server_penn_call().  *)
LEMMA DispatchType ==
  ASSUME WireTypeOK, ClientTypeOK, StackShape,
         \/ DispatchCall \/ DispatchRefused \/ DispatchRefusedFails
         \/ DispatchSolicit \/ DispatchReply \/ DispatchEof
         \/ PennReply \/ PennReplyFails \/ PennReplyCrash
  PROVE  WireTypeOK' /\ ClientTypeOK'
<1> USE DEF ClientTypeOK
<1>1. CASE DispatchCall
  <2>1. Incoming \in Message /\ inbuf' \in Seq(Message) /\ toPenn' \in Seq(Message)
    BY <1>1, IncomingType, ReceiveType DEF DispatchCall, WireTypeOK
  <2>2. [kind |-> "penn", id |-> Incoming.id, saved |-> current] \in CFrame
    BY <2>1 DEF Message, CFrame
  <2> QED
    BY <1>1, <2>1, <2>2 DEF DispatchCall, WireTypeOK
<1>2. CASE DispatchRefused
  <2>1. Incoming \in Message /\ inbuf' \in Seq(Message) /\ toPenn' \in Seq(Message)
    BY <1>2, IncomingType, ReceiveType DEF DispatchRefused, WireTypeOK
  <2>2. Reply(Incoming.id) \in Message
    BY <2>1 DEF Reply, Message, Context
  <2> QED
    BY <1>2, <2>1, <2>2 DEF DispatchRefused, WireTypeOK
<1>3. CASE DispatchRefusedFails
  <2>1. cstack # <<>> /\ depth - 1 \in Int /\ Unwind(cstack, depth - 1)
    BY <1>3 DEF DispatchRefusedFails, Awaiting
  <2> QED
    BY <1>3, <2>1, UnwindType DEF DispatchRefusedFails
<1>4. CASE DispatchSolicit
  <2>1. inbuf' \in Seq(Message) /\ toPenn' \in Seq(Message)
    BY <1>4, ReceiveType DEF DispatchSolicit, WireTypeOK
  <2> QED
    BY <1>4, <2>1 DEF DispatchSolicit, WireTypeOK
<1>5. CASE DispatchReply
  <2>1. inbuf' \in Seq(Message) /\ toPenn' \in Seq(Message)
    BY <1>5, ReceiveType DEF DispatchReply, WireTypeOK
  <2>2. Front(cstack) \in Seq(CFrame) /\ Last(cstack).saved \in Context
    BY <1>5, TopFrame DEF DispatchReply, Awaiting
  <2> QED
    BY <1>5, <2>1, <2>2 DEF DispatchReply, WireTypeOK
<1>6. CASE DispatchEof
  <2>1. cstack # <<>> /\ depth - 1 \in Int /\ Unwind(cstack, depth - 1)
    BY <1>6 DEF DispatchEof, Awaiting
  <2> QED
    BY <1>6, <2>1, UnwindType DEF DispatchEof
<1>7. CASE PennReply
  <2>1. Front(cstack) \in Seq(CFrame) /\ Last(cstack).id \in Nat
    BY <1>7, TopFrame DEF PennReply, Serving
  <2>2. Reply(Last(cstack).id) \in Message
    BY <2>1, MessageTypes DEF Context
  <2> QED
    BY <1>7, <2>1, <2>2 DEF PennReply, SendToRuby, WireTypeOK
<1>8. CASE PennReplyFails
  <2>1. Front(cstack) \in Seq(CFrame) /\ Front(cstack) # <<>> /\ depth - 2 \in Int
    BY <1>8, TopFrame, ServedCall DEF PennReplyFails, Serving
  <2>2. Unwind(Front(cstack), depth - 2)
    BY <1>8 DEF PennReplyFails
  <2> QED
    BY <1>8, <2>1, <2>2, UnwindType DEF PennReplyFails
<1>9. CASE PennReplyCrash
  BY <1>9 DEF PennReplyCrash, wireVars, WireTypeOK
<1> QED
  BY <1>1, <1>2, <1>3, <1>4, <1>5, <1>6, <1>7, <1>8, <1>9

(* And those of the event loop.                                            *)
LEMMA EventLoopType ==
  ASSUME WireTypeOK, ClientTypeOK,
         \/ EndCommands \/ SetFdIdle \/ SetFdCallback \/ SetFdFails
         \/ Select \/ EndQueue \/ IsSetFdIdle \/ IsSetFdSolicit \/ IsSetFdFails
  PROVE  WireTypeOK' /\ ClientTypeOK'
<1> USE DEF ClientTypeOK
<1>1. CASE EndCommands
  BY <1>1 DEF EndCommands, wireVars, WireTypeOK
<1>2. CASE SetFdIdle
  BY <1>2 DEF SetFdIdle, wireVars, WireTypeOK
<1>3. CASE SetFdCallback
  <2>1. God \in Context /\ Ack(God) \in Message
    BY MessageTypes DEF Context, Ack, Message
  <2>2. [kind |-> "ack", id |-> 0, saved |-> current] \in CFrame
    BY DEF CFrame
  <2>3. WireTypeOK'
    BY <1>3, <2>1 DEF SetFdCallback, SendToRuby, WireTypeOK
  <2>4. inbuf' \in Seq(Message)
    <3>1. CASE inbuf = <<>>
      BY <1>3, <3>1 DEF SetFdCallback
    <3>2. CASE inbuf # <<>>
      BY <1>3, <3>2 DEF SetFdCallback
    <3> QED
      BY <3>1, <3>2
  <2>5. cstack' \in Seq(CFrame)
    BY <1>3, <2>2 DEF SetFdCallback
  <2>6. soliciting' \in BOOLEAN
    BY <1>3 DEF SetFdCallback
  <2> QED
    BY <1>3, <2>1, <2>3, <2>4, <2>5, <2>6 DEF SetFdCallback
<1>4. CASE SetFdFails
  <2>1. WireTypeOK' /\ encoder' \in BOOLEAN
    BY <1>4, StopType DEF SetFdFails
  <2>2. soliciting' \in BOOLEAN
    BY <1>4 DEF SetFdFails
  <2> QED
    BY <1>4, <2>1, <2>2 DEF SetFdFails, Context
<1>5. CASE Select
  <2>1. selected' \in BOOLEAN
    BY <1>5 DEF Select
  <2> QED
    BY <1>5, <2>1 DEF Select, wireVars, WireTypeOK
<1>6. CASE EndQueue
  BY <1>6 DEF EndQueue, wireVars, WireTypeOK
<1>7. CASE IsSetFdIdle
  <2>1. selected' \in BOOLEAN
    BY <1>7 DEF IsSetFdIdle
  <2> QED
    BY <1>7, <2>1 DEF IsSetFdIdle, wireVars, WireTypeOK
<1>8. CASE IsSetFdSolicit
  <2>1. inbuf' \in Seq(Message) /\ toPenn' \in Seq(Message)
    BY <1>8, ReceiveType DEF IsSetFdSolicit, WireTypeOK
  <2>2. selected' \in BOOLEAN /\ soliciting' \in BOOLEAN
    BY <1>8 DEF IsSetFdSolicit
  <2> QED
    BY <1>8, <2>1, <2>2 DEF IsSetFdSolicit, WireTypeOK
<1>9. CASE IsSetFdFails
  <2>1. WireTypeOK' /\ encoder' \in BOOLEAN
    BY <1>9, StopType DEF IsSetFdFails
  <2>2. selected' \in BOOLEAN
    BY <1>9 DEF IsSetFdFails
  <2> QED
    BY <1>9, <2>1, <2>2 DEF IsSetFdFails
<1> QED
  BY <1>1, <1>2, <1>3, <1>4, <1>5, <1>6, <1>7, <1>8, <1>9

-----------------------------------------------------------------------------
(* What Ruby does keeps the types.                                         *)
(* A Ruby process that starts, or is left alone, has its types.            *)
LEMMA FollowType ==
  ASSUME ConversationTypeOK, crashes \in Nat, Follow
  PROVE  ConversationTypeOK' /\ crashes' \in Nat
<1>1. CASE UNCHANGED rubyVars
  BY <1>1 DEF rubyVars, processVars, ConversationTypeOK, Follow
<1>2. CASE FreshProcess
  <2>1. rsoliciting' \in BOOLEAN /\ wake' \in BOOLEAN
    BY <1>2 DEF FreshProcess
  <2>2. rcontext' \in Context
    BY <1>2 DEF FreshProcess, Context
  <2> QED
    BY <1>2, <2>1, <2>2 DEF FreshProcess, ConversationTypeOK, Follow
<1> QED
  BY <1>1, <1>2 DEF Follow

(* What Ruby reads first is a message, and so is all it has yet to read.   *)
LEMMA FirstMessage ==
  ASSUME WireTypeOK, toRuby # <<>>
  PROVE  Head(toRuby) \in Message /\ Tail(toRuby) \in Seq(Message)
  BY HeadTailProperties DEF WireTypeOK

(* dispatch_method keeps the types, whether it refuses the call or not.    *)
LEMMA DispatchMethodType ==
  ASSUME WireTypeOK, ConversationTypeOK, NEW m \in Message, DispatchMethod(m)
  PROVE  /\ toPenn' \in Seq(Message) /\ rstack' \in Seq(RFrame)
         /\ rcontext' \in Context /\ queue' \in Seq(Nat)
<1>1. m.id \in Nat /\ m.ctx \in Context
  BY DEF Message
<1>2. CASE Refused(m)
  <2>1. Reply(m.id) \in Message
    BY <1>1 DEF Reply, Message, Context
  <2>2. toPenn' = Append(toPenn, Reply(m.id)) /\ UNCHANGED <<rstack, rcontext, queue>>
    BY <1>2 DEF DispatchMethod
  <2> QED
    BY <2>1, <2>2 DEF WireTypeOK, ConversationTypeOK
<1>3. CASE ~Refused(m)
  <2> DEFINE f == [kind |-> IF m.type = "ack" THEN "callback" ELSE "method",
                   id |-> m.id, saved |-> rcontext]
  <2>1. f \in RFrame
    BY <1>1 DEF ConversationTypeOK, RFrame
  <2>2. /\ rstack' = Append(rstack, f) /\ rcontext' = m.ctx
        /\ queue' = (IF m.type = "ack" THEN Tail(queue) ELSE queue)
        /\ toPenn' = toPenn
    BY <1>3 DEF DispatchMethod
  <2>3. m.type = "ack" => queue # <<>>
    BY <1>3 DEF Refused
  <2>4. queue' \in Seq(Nat)
    BY <2>2, <2>3 DEF ConversationTypeOK
  <2> HIDE DEF f
  <2> QED
    BY <1>1, <2>1, <2>2, <2>4 DEF WireTypeOK, ConversationTypeOK
<1> QED
  BY <1>2, <1>3

(* Every step of a Ruby process keeps the types of both processes.         *)
LEMMA RubyType ==
  ASSUME WireTypeOK, ConversationTypeOK,
         \/ CheckQueue \/ DrainPipe \/ StartTransaction \/ Panic
         \/ RemoteInvoke \/ InvokeReturns \/ RecursiveCall \/ MethodReturns
         \/ InvokeLater \/ ThreadQueues \/ ThreadWakes
  PROVE  WireTypeOK' /\ ConversationTypeOK'
<1> USE DEF ConversationTypeOK
<1>1. CASE CheckQueue
  <2>1. Solicit \in Message
    BY DEF Solicit, Message, Context
  <2>2. WireTypeOK'
    <3>1. CASE ~rsoliciting /\ queue # <<>>
      BY <1>1, <2>1, <3>1 DEF CheckQueue, SendToPenn, WireTypeOK
    <3>2. CASE ~(~rsoliciting /\ queue # <<>>)
      BY <1>1, <3>2 DEF CheckQueue, wireVars, WireTypeOK
    <3> QED
      BY <3>1, <3>2
  <2>3. rsoliciting' \in BOOLEAN
    BY <1>1 DEF CheckQueue
  <2> QED
    BY <1>1, <2>2, <2>3 DEF CheckQueue
<1>2. CASE DrainPipe
  <2>1. wake' \in BOOLEAN
    BY <1>2 DEF DrainPipe
  <2> QED
    BY <1>2, <2>1 DEF DrainPipe, wireVars, WireTypeOK
<1>3. CASE StartTransaction
  <2>1. Head(toRuby) \in Message /\ Tail(toRuby) \in Seq(Message)
    BY <1>3, FirstMessage DEF StartTransaction
  <2>2. /\ toPenn' \in Seq(Message) /\ rstack' \in Seq(RFrame)
        /\ rcontext' \in Context /\ queue' \in Seq(Nat)
    BY <1>3, <2>1, DispatchMethodType DEF StartTransaction
  <2> QED
    BY <1>3, <2>1, <2>2 DEF StartTransaction, WireTypeOK
<1>4. CASE Panic
  <2>1. rsoliciting' \in BOOLEAN /\ wake' \in BOOLEAN
    BY <1>4 DEF Panic, FreshProcess
  <2> QED
    BY <1>4, <2>1 DEF Panic, FreshProcess, HangUp, WireTypeOK, Context
<1>5. CASE RemoteInvoke
  <2>1. invokes + 1 \in Nat /\ Call(invokes + 1, rcontext) \in Message
    BY DEF Call, Message
  <2>2. [kind |-> "invoke", id |-> invokes + 1, saved |-> rcontext] \in RFrame
    BY <2>1 DEF RFrame
  <2> QED
    BY <1>5, <2>1, <2>2 DEF RemoteInvoke, SendToPenn, WireTypeOK
<1>6. CASE InvokeReturns
  <2>1. Tail(toRuby) \in Seq(Message) /\ Front(rstack) \in Seq(RFrame)
    BY <1>6, FirstMessage, PopType DEF InvokeReturns, Invoking
  <2> QED
    BY <1>6, <2>1 DEF InvokeReturns, WireTypeOK
<1>7. CASE RecursiveCall
  <2>1. Head(toRuby) \in Message /\ Tail(toRuby) \in Seq(Message)
    BY <1>7, FirstMessage DEF RecursiveCall
  <2>2. /\ toPenn' \in Seq(Message) /\ rstack' \in Seq(RFrame)
        /\ rcontext' \in Context /\ queue' \in Seq(Nat)
    BY <1>7, <2>1, DispatchMethodType DEF RecursiveCall
  <2> QED
    BY <1>7, <2>1, <2>2 DEF RecursiveCall, WireTypeOK
<1>8. CASE MethodReturns
  <2>1. Front(rstack) \in Seq(RFrame) /\ Last(rstack) \in RFrame
    BY <1>8, PopType DEF MethodReturns, Executing
  <2>2. Last(rstack).id \in Nat /\ Last(rstack).saved \in Context
    BY <2>1 DEF RFrame
  <2>3. Reply(Last(rstack).id) \in Message
    BY <2>2 DEF Reply, Message, Context
  <2>4. rsoliciting' \in BOOLEAN
    BY <1>8 DEF MethodReturns
  <2>5. WireTypeOK'
    BY <1>8, <2>3 DEF MethodReturns, SendToPenn, WireTypeOK
  <2>6. rcontext' \in Context /\ rstack' \in Seq(RFrame)
    BY <1>8, <2>1, <2>2 DEF MethodReturns
  <2> QED
    BY <1>8, <2>4, <2>5, <2>6 DEF MethodReturns
<1>9. CASE InvokeLater
  <2>1. wake' \in BOOLEAN
    BY <1>9 DEF InvokeLater
  <2> QED
    BY <1>9, <2>1 DEF InvokeLater, wireVars, WireTypeOK
<1>10. CASE ThreadQueues
  BY <1>10 DEF ThreadQueues, wireVars, WireTypeOK
<1>11. CASE ThreadWakes
  <2>1. wake' \in BOOLEAN
    BY <1>11 DEF ThreadWakes
  <2> QED
    BY <1>11, <2>1 DEF ThreadWakes, wireVars, WireTypeOK
<1> QED
  BY <1>1, <1>2, <1>3, <1>4, <1>5, <1>6, <1>7, <1>8, <1>9, <1>10, <1>11

-----------------------------------------------------------------------------
(* The steps of Next, by the process that takes them.                      *)
Softcode ==
  \/ \E p \in Player : Rpc(p) \/ RpcStarts(p)
  \/ RpcStartFails \/ RpcFails
  \/ AdminStart \/ AdminStartFails \/ AdminStop

Dispatch ==
  \/ DispatchCall \/ DispatchRefused \/ DispatchRefusedFails
  \/ DispatchSolicit \/ DispatchReply \/ DispatchEof
  \/ PennReply \/ PennReplyFails \/ PennReplyCrash

EventLoop ==
  \/ EndCommands \/ SetFdIdle \/ SetFdCallback \/ SetFdFails
  \/ Select \/ EndQueue \/ IsSetFdIdle \/ IsSetFdSolicit \/ IsSetFdFails

Ruby ==
  \/ CheckQueue \/ DrainPipe \/ StartTransaction \/ Panic
  \/ RemoteInvoke \/ InvokeReturns \/ RecursiveCall \/ MethodReturns
  \/ InvokeLater \/ ThreadQueues \/ ThreadWakes

(* A step is one of softcode, of PennMUSH, of Ruby, or the end of a Ruby.  *)
LEMMA NextCases ==
  Next => \/ (Softcode \/ Dispatch \/ EventLoop) /\ Follow
          \/ Ruby /\ Alone
          \/ Crash
  BY DEF Next, Softcode, Dispatch, EventLoop, Ruby

(* TypeOK is inductive, given the shape of the stack.                      *)
LEMMA TypeStep == TypeOK /\ StackShape /\ [Next]_vars => TypeOK'
<1> SUFFICES ASSUME TypeOK, StackShape, [Next]_vars
             PROVE  TypeOK'
  OBVIOUS
<1> USE DEF TypeOK
<1>1. CASE (Softcode \/ Dispatch \/ EventLoop) /\ Follow
  <2>1. WireTypeOK' /\ ClientTypeOK'
    BY <1>1, SoftcodeType, DispatchType, EventLoopType
    DEF Softcode, Dispatch, EventLoop
  <2> QED
    BY <1>1, <2>1, FollowType
<1>2. CASE Ruby /\ Alone
  <2>1. WireTypeOK' /\ ConversationTypeOK'
    BY <1>2, RubyType DEF Ruby
  <2> QED
    BY <1>2, <2>1 DEF Alone, clientVars, ClientTypeOK
<1>3. CASE Crash
  <2>1. rsoliciting' \in BOOLEAN /\ wake' \in BOOLEAN
    BY <1>3 DEF Crash, FreshProcess
  <2>2. ConversationTypeOK'
    BY <1>3, <2>1 DEF Crash, FreshProcess, ConversationTypeOK, Context
  <2>3. ClientTypeOK'
    BY <1>3 DEF Crash, clientVars, ClientTypeOK
  <2> QED
    BY <1>3, <2>2, <2>3 DEF Crash, HangUp, WireTypeOK
<1>4. CASE UNCHANGED vars
  <2>1. WireTypeOK'
    BY <1>4 DEF vars, wireVars, WireTypeOK
  <2>2. ClientTypeOK'
    BY <1>4 DEF vars, clientVars, ClientTypeOK
  <2>3. ConversationTypeOK' /\ crashes' \in Nat
    BY <1>4 DEF vars, rubyVars, processVars, ConversationTypeOK
  <2> QED
    BY <2>1, <2>2, <2>3
<1> QED
  BY <1>1, <1>2, <1>3, <1>4, NextCases

-----------------------------------------------------------------------------
(* A call is made by a running function or at the top level, and keeps its *)
(* caller's context; a function is run for a call that waits.              *)
LEMMA PushShape ==
  ASSUME NEW s \in Seq(CFrame), NEW f \in CFrame, NEW c, NEW d, Shape(s, c),
         \/ /\ f.kind = "rpc" /\ f.saved = c
            /\ s = <<>> \/ Last(s).kind = "penn"
         \/ /\ f.kind = "penn" /\ f.saved = d
            /\ s # <<>> /\ Last(s).kind # "penn"
  PROVE  Shape(Append(s, f), d)
<1> DEFINE t == Append(s, f)
<1>1. /\ Len(s) \in Nat /\ Len(t) = Len(s) + 1
      /\ t[Len(s) + 1] = f
      /\ \A i \in 1..Len(s) : t[i] = s[i]
  OBVIOUS
<1>2. s = <<>> <=> Len(s) = 0
  OBVIOUS
<1> HIDE DEF t
<1>3. ASSUME NEW i \in 1..(Len(s) + 1)
      PROVE  /\ t[i].kind = "penn" <=> i > 1 /\ t[i - 1].kind # "penn"
             /\ t[i].kind = "ack" => i = 1
             /\ t[i].kind = "penn" =>
                  t[i].saved = IF i = Len(t) THEN d ELSE t[i + 1].saved
  <2>1. CASE i = Len(s) + 1
    BY <1>1, <1>2, <2>1 DEF Last
  <2>2. CASE i = Len(s)
    BY <1>1, <1>2, <2>2 DEF Last, Shape
  <2>3. CASE i < Len(s)
    <3>1. /\ t[i] = s[i] /\ t[i + 1] = s[i + 1]
          /\ i > 1 => t[i - 1] = s[i - 1]
          /\ i # Len(s) /\ i # Len(t) /\ i \in 1..Len(s)
      BY <1>1, <2>3
    <3>2. /\ s[i].kind = "penn" <=> i > 1 /\ s[i - 1].kind # "penn"
          /\ s[i].kind = "ack" => i = 1
          /\ s[i].kind = "penn" => s[i].saved = s[i + 1].saved
      BY <3>1 DEF Shape
    <3> QED
      BY <3>1, <3>2
  <2> QED
    BY <1>1, <2>1, <2>2, <2>3
<1> QED
  BY <1>1, <1>3 DEF Shape, t

(* A call that ends puts the context of its caller back.                   *)
LEMMA PopShape ==
  ASSUME NEW s \in Seq(CFrame), s # <<>>, NEW c, NEW d, Shape(s, c),
         Last(s).kind = "rpc" => d = Last(s).saved
  PROVE  Shape(Front(s), d)
<1> DEFINE t == Front(s)
<1>1. /\ Len(s) \in Nat \ {0} /\ Len(t) = Len(s) - 1
      /\ \A i \in 1..(Len(s) - 1) : t[i] = s[i]
      /\ Last(s) = s[Len(s)] /\ Last(s) \in CFrame
  BY PopType DEF Last
<1>2. Last(s).kind \in {"rpc", "ack", "penn"}
  BY <1>1 DEF CFrame
<1> HIDE DEF t
<1>3. ASSUME NEW i \in 1..(Len(s) - 1)
      PROVE  /\ t[i].kind = "penn" <=> i > 1 /\ t[i - 1].kind # "penn"
             /\ t[i].kind = "ack" => i = 1
             /\ t[i].kind = "penn" =>
                  t[i].saved = IF i = Len(t) THEN d ELSE t[i + 1].saved
  <2>1. CASE i = Len(s) - 1
    BY <1>1, <1>2, <2>1 DEF Shape
  <2>2. CASE i < Len(s) - 1
    BY <1>1, <2>2 DEF Shape
  <2> QED
    BY <1>1, <2>1, <2>2
<1> QED
  BY <1>1, <1>3 DEF Shape, t

(* StackShape is inductive, given the types.                               *)
LEMMA ShapeStep == TypeOK /\ StackShape /\ [Next]_vars => StackShape'
<1> SUFFICES ASSUME TypeOK, StackShape, [Next]_vars
             PROVE  Shape(cstack', current')
  BY DEF StackShape
<1> USE DEF StackShape
<1>1. cstack \in Seq(CFrame) /\ current \in Context /\ calls \in Nat
  BY DEF TypeOK, ClientTypeOK
<1>2. CASE UNCHANGED <<cstack, current>>
  BY <1>2
<1>3. CASE cstack' = <<>>
  BY <1>3 DEF Shape
<1>4. ASSUME NEW p \in Player, Rpc(p) \/ RpcStarts(p)
      PROVE  Shape(cstack', current')
  <2>1. RpcFrame \in CFrame /\ RpcFrame.kind = "rpc" /\ RpcFrame.saved = current
    BY <1>1 DEF RpcFrame, CFrame
  <2>2. cstack' = Append(cstack, RpcFrame)
    BY <1>4 DEF Rpc, RpcStarts, EnterRpc
  <2>3. cstack = <<>> \/ Last(cstack).kind = "penn"
    BY <1>4 DEF Rpc, RpcStarts, MayCall, Serving, TopLevelSoftcode, AtTopLevel
  <2> QED
    BY <1>1, <2>1, <2>2, <2>3, PushShape
<1>5. CASE DispatchCall
  <2> DEFINE f == [kind |-> "penn", id |-> Incoming.id, saved |-> current]
  <2>1. Incoming \in Message
    BY <1>5, IncomingType DEF DispatchCall, TypeOK, WireTypeOK, ClientTypeOK
  <2>2. f \in CFrame /\ f.kind = "penn" /\ f.saved = current
    BY <1>1, <2>1 DEF Message, CFrame
  <2>3. cstack' = Append(cstack, f) /\ current' = current
    BY <1>5 DEF DispatchCall
  <2>4. cstack # <<>> /\ Last(cstack).kind # "penn"
    BY <1>5 DEF DispatchCall, Awaiting
  <2> HIDE DEF f
  <2> QED
    BY <1>1, <2>2, <2>3, <2>4, PushShape
<1>6. ASSUME cstack # <<>>, cstack' = Front(cstack),
             Last(cstack).kind = "rpc" => current' = Last(cstack).saved
      PROVE  Shape(cstack', current')
  BY <1>1, <1>6, PopShape
<1>7. CASE PennReplyFails
  <2> DEFINE s == Front(cstack)
  <2>1. s \in Seq(CFrame) /\ s # <<>>
    BY <1>1, <1>7, ServedCall DEF PennReplyFails
  <2>2. Shape(s, Last(s).saved)
    BY <1>1, <1>7, PopShape DEF PennReplyFails, Serving
  <2>3. cstack' = Front(s) /\ (Last(s).kind = "rpc" => current' = Last(s).saved)
    BY <1>7 DEF PennReplyFails, Unwind
  <2> HIDE DEF s
  <2> QED
    BY <2>1, <2>2, <2>3, PopShape
<1>8. CASE SetFdCallback
  BY <1>8 DEF SetFdCallback, Shape
<1>9. CASE Softcode
  BY <1>2, <1>4, <1>9
  DEF Softcode, RpcStartFails, StartFails, RpcFails, AdminStart,
      AdminStartFails, AdminStop
<1>10. CASE Dispatch
  <2>1. CASE DispatchRefused \/ DispatchSolicit \/ PennReplyCrash
    BY <1>2, <1>3, <2>1 DEF DispatchRefused, DispatchSolicit, PennReplyCrash
  <2>2. CASE DispatchRefusedFails \/ DispatchEof
    BY <1>6, <2>2 DEF DispatchRefusedFails, DispatchEof, Unwind, Awaiting
  <2>3. CASE DispatchReply \/ PennReply
    BY <1>6, <2>3 DEF DispatchReply, PennReply, Awaiting, Serving
  <2> QED
    BY <1>5, <1>7, <1>10, <2>1, <2>2, <2>3 DEF Dispatch
<1>11. CASE EventLoop
  BY <1>2, <1>3, <1>8, <1>11
  DEF EventLoop, AtTopLevel, EndCommands, SetFdIdle, SetFdFails, Select,
      EndQueue, IsSetFdIdle, IsSetFdSolicit, IsSetFdFails
<1>12. CASE Alone \/ Crash \/ UNCHANGED vars
  BY <1>2, <1>12 DEF Alone, Crash, vars, clientVars
<1> QED
  BY <1>9, <1>10, <1>11, <1>12, NextCases

(* Init establishes both.                                                  *)
LEMMA TypeInit == Init => TypeOK /\ StackShape
<1> SUFFICES ASSUME Init
             PROVE  TypeOK /\ StackShape
  OBVIOUS
<1>1. WireTypeOK
  BY DEF Init, WireTypeOK
<1>2. encoder \in BOOLEAN /\ soliciting \in BOOLEAN /\ selected \in BOOLEAN
  BY DEF Init, ClientInit
<1>3. ClientTypeOK
  BY <1>2 DEF Init, ClientInit, ClientTypeOK, Context
<1>4. rsoliciting \in BOOLEAN /\ wake \in BOOLEAN
  BY DEF Init, ConversationInit
<1>5. ConversationTypeOK
  BY <1>4 DEF Init, ConversationInit, ConversationTypeOK, Context
<1>6. StackShape
  BY DEF Init, ClientInit, StackShape, Shape
<1> QED
  BY <1>1, <1>3, <1>5, <1>6 DEF Init, TypeOK

(* Whatever the bounds and the depth, and whatever fails, the fields of    *)
(* JSON_Server, of the C context and of the Ruby modules keep their types. *)
THEOREM TypeCorrect == Spec => []TypeOK
<1> QED
  BY TypeInit, TypeStep, ShapeStep, PTL DEF Spec

(* A function that Ruby calls always ends in the context it began in,      *)
(* through nested calls, failures and restarts of the server.              *)
THEOREM ContextIsRestored == Spec => []ContextRestored
<1>1. TypeOK /\ StackShape => ContextRestored
  <2> SUFFICES ASSUME TypeOK, StackShape, Serving
               PROVE  current = Last(cstack).saved
    BY DEF ContextRestored
  <2>1. Len(cstack) \in Nat \ {0} /\ Last(cstack) = cstack[Len(cstack)]
    BY PopType DEF TypeOK, ClientTypeOK, Serving, Last
  <2> QED
    BY <2>1 DEF StackShape, Shape, Serving
<1> QED
  BY <1>1, TypeInit, TypeStep, ShapeStep, PTL DEF Spec

-----------------------------------------------------------------------------
(* Ruby's loop always looks at the queue between a transaction and the     *)
(* next select().                                                          *)
ChecksFirst == rstack # <<>> => pc # "select"

WakeInv == NoLostWakeup /\ ChecksFirst

(* A step of PennMUSH that keeps the connection takes nothing from what    *)
(* Ruby has still to read.                                                 *)
LEMMA ClientKeeps ==
  ASSUME TypeOK, Softcode \/ Dispatch \/ EventLoop, fd' = fd
  PROVE  /\ peer' = peer
         /\ toRuby # <<>> => toRuby' # <<>>
<1>1. toRuby \in Seq(Message) /\ starts + 1 # 0
  BY DEF TypeOK, WireTypeOK, ClientTypeOK
<1>2. ASSUME NEW m, toRuby' = Append(toRuby, m)
      PROVE  toRuby' # <<>>
  BY <1>1, <1>2
<1>3. ASSUME Stop
      PROVE  UNCHANGED <<peer, toRuby>>
  BY <1>3 DEF Stop, ClosePair, wireVars
<1>4. CASE Softcode
  <2>1. ASSUME NEW msgs, Start(msgs)
        PROVE  FALSE
    BY <1>1, <2>1 DEF Start, OpenPair
  <2>2. CASE \E p \in Player : Rpc(p)
    BY <1>2, <2>2 DEF Rpc, SendToRuby
  <2>3. CASE RpcFails \/ AdminStop
    BY <1>3, <2>3 DEF RpcFails, AdminStop
  <2>4. CASE RpcStartFails \/ AdminStartFails
    BY <2>4 DEF RpcStartFails, AdminStartFails, StartFails, wireVars
  <2> QED
    BY <1>4, <2>1, <2>2, <2>3, <2>4 DEF Softcode, RpcStarts, AdminStart
<1>5. CASE Dispatch
  <2>1. CASE DispatchRefused \/ PennReply
    BY <1>2, <2>1 DEF DispatchRefused, PennReply, SendToRuby
  <2>2. CASE DispatchRefusedFails \/ DispatchEof \/ PennReplyFails
    BY <1>3, <2>2 DEF DispatchRefusedFails, DispatchEof, PennReplyFails, Unwind
  <2>3. CASE DispatchCall \/ DispatchSolicit \/ DispatchReply \/ PennReplyCrash
    BY <2>3 DEF DispatchCall, DispatchSolicit, DispatchReply, PennReplyCrash, wireVars
  <2> QED
    BY <1>5, <2>1, <2>2, <2>3 DEF Dispatch
<1>6. CASE EventLoop
  <2>1. CASE SetFdCallback
    BY <1>2, <2>1 DEF SetFdCallback, SendToRuby
  <2>2. CASE SetFdFails \/ IsSetFdFails
    BY <1>3, <2>2 DEF SetFdFails, IsSetFdFails
  <2>3. CASE ~(SetFdCallback \/ SetFdFails \/ IsSetFdFails)
    BY <1>6, <2>3
    DEF EventLoop, EndCommands, SetFdIdle, Select, EndQueue, IsSetFdIdle,
        IsSetFdSolicit, wireVars
  <2> QED
    BY <2>1, <2>2, <2>3
<1> QED
  BY <1>4, <1>5, <1>6

(* WakeInv is inductive, given the types.                                  *)
LEMMA WakeStep == TypeOK /\ WakeInv /\ [Next]_vars => WakeInv'
<1> SUFFICES ASSUME TypeOK, WakeInv, [Next]_vars
             PROVE  WakeInv'
  OBVIOUS
<1> USE DEF WakeInv, NoLostWakeup, ChecksFirst
<1>1. CASE FreshProcess
  BY <1>1 DEF FreshProcess
<1>2. CASE (Softcode \/ Dispatch \/ EventLoop) /\ Follow
  <2>1. CASE fd' = fd
    BY <1>2, <2>1, ClientKeeps DEF Follow, rubyVars, processVars, Connected
  <2>2. CASE fd' # fd
    BY <1>1, <1>2, <2>2 DEF Follow
  <2> QED
    BY <2>1, <2>2
<1>3. CASE Ruby
  <2>1. CASE CheckQueue
    BY <2>1 DEF CheckQueue
  <2>2. CASE DrainPipe
    BY <2>2 DEF DrainPipe
  <2>3. CASE StartTransaction
    BY <2>3 DEF StartTransaction
  <2>4. CASE Panic
    BY <1>1, <2>4 DEF Panic
  <2>5. CASE RemoteInvoke \/ InvokeReturns \/ RecursiveCall \/ MethodReturns
    BY <2>5
    DEF RemoteInvoke, InvokeReturns, RecursiveCall, MethodReturns, Executing, Invoking
  <2>6. CASE InvokeLater
    BY <2>6 DEF InvokeLater, wireVars
  <2>7. CASE ThreadQueues
    BY <2>7 DEF ThreadQueues, wireVars, TypeOK, ConversationTypeOK
  <2>8. CASE ThreadWakes
    BY <2>8 DEF ThreadWakes, wireVars
  <2> QED
    BY <1>3, <2>1, <2>2, <2>3, <2>4, <2>5, <2>6, <2>7, <2>8 DEF Ruby
<1>4. CASE Crash
  BY <1>1, <1>4 DEF Crash
<1>5. CASE UNCHANGED vars
  BY <1>5 DEF vars, wireVars, rubyVars, processVars, Connected
<1> QED
  BY <1>2, <1>3, <1>4, <1>5, NextCases

(* Whatever threads and the dispatch thread do in between, Ruby never      *)
(* waits in select() on a callback nobody will tell it about.              *)
THEOREM NoWakeupIsLost == Spec => []NoLostWakeup
<1>1. Init => WakeInv
  BY DEF Init, ConversationInit, WakeInv, NoLostWakeup, ChecksFirst
<1>2. WakeInv => NoLostWakeup
  BY DEF WakeInv
<1> QED
  BY <1>1, <1>2, TypeInit, TypeStep, ShapeStep, WakeStep, PTL DEF Spec
-----------------------------------------------------------------------------
(* Counting the messages of a channel.                                     *)

One(c) == IF c THEN 1 ELSE 0

(* A count is a natural number, zero exactly if nothing is counted.        *)
LEMMA CountNat ==
  ASSUME NEW s \in Seq(Message), NEW T
  PROVE  /\ Count(s, T) \in Nat
         /\ Count(s, T) = 0 <=> \A m \in ToSet(s) : m.type \notin T
         /\ IsFiniteSet({ i \in DOMAIN s : s[i].type \in T })
<1> DEFINE C == { i \in DOMAIN s : s[i].type \in T }
<1>1. DOMAIN s = 1..Len(s) /\ Len(s) \in Nat
  OBVIOUS
<1>2. IsFiniteSet(1..Len(s))
  BY <1>1, FS_Interval
<1>3. IsFiniteSet(C)
  BY <1>1, <1>2, FS_Subset
<1>4. Cardinality(C) \in Nat /\ (Cardinality(C) = 0 <=> C = {})
  BY <1>3, FS_CardinalityType, FS_EmptySet
<1>5. C = {} <=> \A m \in ToSet(s) : m.type \notin T
  BY DEF ToSet
<1> QED
  BY <1>3, <1>4, <1>5 DEF Count

(* Nothing is counted in an empty channel.                                 *)
LEMMA CountEmpty ==
  ASSUME NEW T
  PROVE  Count(<<>>, T) = 0 /\ ToSet(<<>>) = {}
<1>1. <<>> \in Seq(Message) /\ ToSet(<<>>) = {}
  BY DEF ToSet
<1> QED
  BY <1>1, CountNat

(* A message that is sent counts.                                          *)
LEMMA CountAppend ==
  ASSUME NEW s \in Seq(Message), NEW m \in Message, NEW T
  PROVE  /\ Count(Append(s, m), T) = Count(s, T) + One(m.type \in T)
         /\ ToSet(Append(s, m)) = ToSet(s) \cup {m}
         /\ Len(Append(s, m)) = Len(s) + 1
<1> DEFINE t == Append(s, m)
           C == { i \in DOMAIN s : s[i].type \in T }
           D == { i \in DOMAIN t : t[i].type \in T }
<1>1. /\ Len(s) \in Nat /\ Len(t) = Len(s) + 1
      /\ DOMAIN s = 1..Len(s) /\ DOMAIN t = 1..(Len(s) + 1)
      /\ \A i \in 1..Len(s) : t[i] = s[i]
      /\ t[Len(s) + 1] = m
  BY AppendProperties
<1>2. IsFiniteSet(C)
  BY CountNat
<1> HIDE DEF t
<1>3. Cardinality(D) = Cardinality(C) + One(m.type \in T)
  <2>1. CASE m.type \in T
    <3>1. D = C \cup {Len(s) + 1} /\ Len(s) + 1 \notin C
      BY <1>1, <2>1
    <3> HIDE DEF C, D
    <3> QED
      BY <1>2, <2>1, <3>1, FS_AddElement DEF One
  <2>2. CASE m.type \notin T
    <3>1. D = C
      BY <1>1, <2>2
    <3> HIDE DEF C, D
    <3> QED
      BY <1>2, <2>2, <3>1, FS_CardinalityType DEF One
  <2> QED
    BY <2>1, <2>2
<1>4. Count(t, T) = Count(s, T) + One(m.type \in T)
  BY <1>3 DEF Count
<1>5. ToSet(t) = ToSet(s) \cup {m}
  <2>1. ASSUME NEW x \in ToSet(t)
        PROVE  x \in ToSet(s) \cup {m}
    BY <1>1, <2>1 DEF ToSet
  <2>2. ASSUME NEW x \in ToSet(s)
        PROVE  x \in ToSet(t)
    BY <1>1, <2>2 DEF ToSet
  <2>3. m \in ToSet(t)
    BY <1>1 DEF ToSet
  <2> QED
    BY <2>1, <2>2, <2>3
<1> QED
  BY <1>1, <1>4, <1>5 DEF t

(* A message that is read no longer counts.                                *)
LEMMA CountTail ==
  ASSUME NEW s \in Seq(Message), s # <<>>, NEW T
  PROVE  /\ Tail(s) \in Seq(Message) /\ Head(s) \in ToSet(s)
         /\ Count(s, T) = Count(Tail(s), T) + One(Head(s).type \in T)
         /\ ToSet(Tail(s)) \subseteq ToSet(s)
         /\ Len(Tail(s)) = Len(s) - 1
<1> DEFINE t == Tail(s)
           C == { i \in DOMAIN s : s[i].type \in T }
           D == { i \in DOMAIN t : t[i].type \in T }
<1>1. /\ Len(s) \in Nat \ {0} /\ Len(t) = Len(s) - 1
      /\ DOMAIN s = 1..Len(s) /\ DOMAIN t = 1..(Len(s) - 1)
      /\ \A i \in 1..(Len(s) - 1) : t[i] = s[i + 1]
      /\ Head(s) = s[1] /\ t \in Seq(Message)
  BY HeadTailProperties, EmptySeq
<1>2. IsFiniteSet(C) /\ IsFiniteSet(D)
  BY <1>1, CountNat
<1> HIDE DEF t
<1>3. Cardinality(C \ {1}) = Cardinality(D)
  <2> DEFINE f == [i \in D |-> i + 1]
  <2>1. \A i \in D : f[i] \in C \ {1}
    BY <1>1
  <2>2. \A i, k \in D : f[i] = f[k] => i = k
    BY <1>1
  <2>3. ASSUME NEW k \in C \ {1} PROVE \E i \in D : f[i] = k
    <3>1. k - 1 \in D /\ f[k - 1] = k
      BY <1>1, <2>3
    <3> QED
      BY <3>1
  <2>4. f \in Bijection(D, C \ {1})
    <3> HIDE DEF D, C
    <3>1. f \in [D -> C \ {1}]
      BY <2>1
    <3> HIDE DEF f
    <3> QED
      BY <2>2, <2>3, <3>1 DEF Bijection, Injection, Surjection, IsInjective
  <2>5. ExistsBijection(D, C \ {1})
    BY <2>4 DEF ExistsBijection
  <2> HIDE DEF C, D, f
  <2> QED
    BY <1>2, <2>5, FS_Bijection
<1>4. Cardinality(C) = Cardinality(C \ {1}) + One(1 \in C)
  <2> HIDE DEF C
  <2>1. Cardinality(C) \in Nat
    BY <1>2, FS_CardinalityType
  <2>2. Cardinality(C \ {1}) = IF 1 \in C THEN Cardinality(C) - 1 ELSE Cardinality(C)
    BY <1>2, FS_RemoveElement
  <2> QED
    BY <2>1, <2>2 DEF One
<1>5. 1 \in C <=> Head(s).type \in T
  BY <1>1
<1>6. ToSet(t) \subseteq ToSet(s) /\ Head(s) \in ToSet(s)
  <2>1. ASSUME NEW i \in DOMAIN t PROVE t[i] \in ToSet(s)
    <3>1. i + 1 \in DOMAIN s /\ t[i] = s[i + 1]
      BY <1>1
    <3> QED
      BY <3>1 DEF ToSet
  <2>2. Head(s) \in ToSet(s)
    BY <1>1 DEF ToSet
  <2> QED
    BY <2>1, <2>2 DEF ToSet
<1>7. Count(s, T) = Count(t, T) + One(Head(s).type \in T)
  BY <1>3, <1>4, <1>5 DEF Count
<1> QED
  BY <1>1, <1>6, <1>7 DEF t
-----------------------------------------------------------------------------
(* What PennMUSH has not yet dispatched, wherever read() has cut it.       *)

(* It is a sequence of messages, empty exactly if there is nothing to do.  *)
LEMMA UnreadType ==
  ASSUME TypeOK
  PROVE  /\ Unread \in Seq(Message)
         /\ HasIncoming <=> Unread # <<>>
         /\ HasIncoming => Incoming = Head(Unread)
<1>1. inbuf \in Seq(Message) /\ toPenn \in Seq(Message)
  BY DEF TypeOK, ClientTypeOK, WireTypeOK
<1>2. /\ Unread \in Seq(Message) /\ Len(Unread) = Len(inbuf) + Len(toPenn)
      /\ \A i \in 1..(Len(inbuf) + Len(toPenn)) :
           Unread[i] = IF i <= Len(inbuf) THEN inbuf[i] ELSE toPenn[i - Len(inbuf)]
  BY <1>1, ConcatProperties DEF Unread
<1> HIDE DEF Unread
<1>3. HasIncoming <=> Unread # <<>>
  BY <1>1, <1>2, EmptySeq DEF HasIncoming
<1>4. ASSUME HasIncoming
      PROVE  Incoming = Head(Unread)
  <2>1. CASE inbuf # <<>>
    BY <1>1, <1>2, <2>1 DEF Incoming
  <2>2. CASE inbuf = <<>>
    BY <1>1, <1>2, <1>4, <2>2 DEF Incoming, HasIncoming
  <2> QED
    BY <2>1, <2>2
<1> QED
  BY <1>2, <1>3, <1>4

(* json_server_receive() takes the first of it.                            *)
LEMMA ReceiveTail ==
  ASSUME TypeOK, Receive
  PROVE  /\ Unread # <<>> /\ Incoming = Head(Unread)
         /\ Unread' = Tail(Unread)
<1>1. inbuf \in Seq(Message) /\ toPenn \in Seq(Message)
  BY DEF TypeOK, ClientTypeOK, WireTypeOK
<1>2. CASE inbuf # <<>> /\ inbuf' = Tail(inbuf) /\ UNCHANGED toPenn
  <2>1. HasIncoming
    BY <1>2 DEF HasIncoming
  <2> DEFINE u == inbuf \o toPenn
             v == Tail(inbuf) \o toPenn
  <2>2. /\ u \in Seq(Message) /\ Len(u) = Len(inbuf) + Len(toPenn)
        /\ \A i \in 1..(Len(inbuf) + Len(toPenn)) :
             u[i] = IF i <= Len(inbuf) THEN inbuf[i] ELSE toPenn[i - Len(inbuf)]
    BY <1>1, ConcatProperties
  <2>3. /\ Tail(inbuf) \in Seq(Message) /\ Len(Tail(inbuf)) = Len(inbuf) - 1
        /\ \A i \in 1..(Len(inbuf) - 1) : Tail(inbuf)[i] = inbuf[i + 1]
        /\ Len(inbuf) \in Nat \ {0} /\ Len(toPenn) \in Nat
    BY <1>1, <1>2, HeadTailProperties, EmptySeq
  <2>4. /\ v \in Seq(Message) /\ Len(v) = Len(inbuf) - 1 + Len(toPenn)
        /\ \A i \in 1..(Len(inbuf) - 1 + Len(toPenn)) :
             v[i] = IF i <= Len(inbuf) - 1 THEN Tail(inbuf)[i]
                                          ELSE toPenn[i - (Len(inbuf) - 1)]
    BY <1>1, <2>3, ConcatProperties
  <2> HIDE DEF u, v
  <2>5. u # <<>>
    BY <2>2, <2>3
  <2>6. /\ Tail(u) \in Seq(Message) /\ Len(Tail(u)) = Len(u) - 1
        /\ \A i \in 1..(Len(u) - 1) : Tail(u)[i] = u[i + 1]
    BY <2>2, <2>5, HeadTailProperties
  <2>7. ASSUME NEW i \in 1..Len(v) PROVE v[i] = Tail(u)[i]
    <3>1. /\ i \in 1..(Len(u) - 1) /\ i + 1 \in 1..(Len(inbuf) + Len(toPenn))
          /\ i \in Int
      BY <2>2, <2>3, <2>4
    <3>2. Tail(u)[i] = u[i + 1]
      BY <2>6, <3>1
    <3>3. CASE i <= Len(inbuf) - 1
      <4>1. v[i] = Tail(inbuf)[i] /\ Tail(inbuf)[i] = inbuf[i + 1]
        BY <2>3, <2>4, <3>1, <3>3
      <4>2. u[i + 1] = inbuf[i + 1]
        BY <2>2, <2>3, <3>1, <3>3
      <4> QED
        BY <3>2, <4>1, <4>2
    <3>4. CASE i > Len(inbuf) - 1
      <4>1. v[i] = toPenn[i - (Len(inbuf) - 1)]
        BY <2>3, <2>4, <3>1, <3>4
      <4>2. u[i + 1] = toPenn[(i + 1) - Len(inbuf)]
        BY <2>2, <2>3, <3>1, <3>4
      <4>3. i - (Len(inbuf) - 1) = (i + 1) - Len(inbuf)
        BY <2>3, <3>1
      <4> QED
        BY <3>2, <4>1, <4>2, <4>3
    <3> QED
      BY <2>3, <3>1, <3>3, <3>4
  <2>8. v = Tail(u)
    BY <2>2, <2>3, <2>4, <2>6, <2>7, SeqEqual
  <2> QED
    BY <1>2, <2>1, <2>8, UnreadType DEF Unread, u, v
<1>3. ASSUME inbuf = <<>>, NEW n \in 1..Len(toPenn),
             inbuf' = SubSeq(toPenn, 2, n),
             toPenn' = SubSeq(toPenn, n + 1, Len(toPenn))
      PROVE  HasIncoming /\ Unread' = Tail(Unread)
  <2>1. toPenn # <<>> /\ Unread = toPenn
    BY <1>1, <1>3 DEF Unread
  <2>2. Tail(toPenn) = SubSeq(toPenn, 2, Len(toPenn))
    BY <1>1, <2>1, TailIsSubSeq
  <2>3. inbuf' \o toPenn' = SubSeq(toPenn, 2, Len(toPenn))
    <3>1. /\ 2 \in 1..(Len(toPenn) + 1) /\ n \in (2 - 1)..Len(toPenn)
          /\ Len(toPenn) \in n..Len(toPenn)
      BY <1>1, <1>3
    <3>2. SubSeq(toPenn, 2, n) \o SubSeq(toPenn, n + 1, Len(toPenn))
            = SubSeq(toPenn, 2, Len(toPenn))
      BY <1>1, <3>1, ConcatAdjacentSubSeq
    <3> QED
      BY <1>3, <3>2
  <2> QED
    BY <2>1, <2>2, <2>3 DEF Unread, HasIncoming
<1> QED
  BY <1>2, <1>3, UnreadType DEF Receive

(* What Ruby sends is read last.                                           *)
LEMMA SendAppend ==
  ASSUME TypeOK, NEW m \in Message, toPenn' = Append(toPenn, m), inbuf' = inbuf
  PROVE  Unread' = Append(Unread, m)
<1>1. inbuf \in Seq(Message) /\ toPenn \in Seq(Message)
  BY DEF TypeOK, ClientTypeOK, WireTypeOK
<1>2. inbuf \o Append(toPenn, m) = Append(inbuf \o toPenn, m)
  BY <1>1
<1> QED
  BY <1>2 DEF Unread
-----------------------------------------------------------------------------
(* The inductive invariant.                                                *)

Ours   == Len(cstack) - base
Theirs == Len(rstack)

PennTurn == AtTopLevel \/ Serving

Answers == {"call", "reply"}
Due  == Count(Unread, Answers)
Reqs == Count(Unread, {"req"})
Acks == Count(toRuby, {"ack"})
Callbacks(r) == Cardinality({ i \in DOMAIN r : r[i].kind = "callback" })

(* No call is open without a process, and none in a process that is gone.  *)
EndInv ==
  /\ fd = 0 => peer = "closed" /\ PennTurn
  /\ ~Connected => toRuby = <<>> /\ rstack = <<>>
  /\ Len(rstack) <= MaxDepth

(* What holds of PennMUSH until it closes its end, also when Ruby is gone: *)
(* the frames older than the process end with a function, and at most one  *)
(* object has to be dispatched, while a call waits for it.                 *)
ClientInv ==
  fd # 0 =>
    /\ encoder
    /\ depth = Ours
    /\ base \in 1..Len(cstack) => cstack[base].kind = "penn"
    /\ Ours >= -1
    /\ Ours = -1 => ~PennTurn
    /\ Due <= 1
    /\ PennTurn \/ Ours = -1 => Due = 0
    /\ \A m \in ToSet(Unread) : m.type = "reply" => m.id = Last(cstack).id

(* Ruby's stack alternates as PennMUSH's does.                             *)
RubyShape(r) ==
  \A i \in 1..Len(r) :
    /\ r[i].kind = "invoke" <=> i > 1 /\ r[i - 1].kind # "invoke"
    /\ r[i].kind = "callback" => i = 1

(* The frames of both stacks, from where the process was launched.         *)
Paired(c, b, r) ==
  \A i \in 1..Len(r) : i <= Len(c) - b =>
    /\ Matches(c[b + i], r[i])
    /\ i > 1 /\ r[i].kind = "method" => r[i].saved = c[b + i].saved

(* One side is ahead by the call or the answer that is under way.          *)
SizeInv ==
  /\ PennTurn \/ Executing => Ours = Theirs
  /\ \A m \in ToSet(toRuby) :
       /\ m.type # "req"
       /\ m.type \in {"call", "ack"} =>
            /\ Ours = Theirs + 1
            /\ Last(cstack).kind = IF m.type = "call" THEN "rpc" ELSE "ack"
            /\ m.id = Last(cstack).id /\ m.ctx = current
       /\ m.type = "reply" =>
            /\ Theirs = Ours + 1
            /\ rstack # <<>> => m.id = Last(rstack).id
  /\ \A m \in ToSet(Unread) :
       /\ m.type # "ack"
       /\ m.type = "call" =>
            Theirs = Ours + 1 /\ rstack # <<>> /\ m.id = Last(rstack).id
       /\ m.type = "reply" => Ours = Theirs + 1

(* The contexts agree, or will when the answer under way is read.          *)
ShownInv ==
  /\ Ours > 0 /\ (Ours = Theirs \/ Ours = Theirs - 1) => current = rcontext
  /\ Ours > 1 /\ Ours = Theirs + 1 => Last(cstack).saved = rcontext

TurnInv == 1 = One(PennTurn) + One(Executing) + Len(toRuby) + Due

NoteInv ==
  /\ One(rsoliciting) = Reqs + One(soliciting) + Acks + Callbacks(rstack)
  /\ rsoliciting /\ Callbacks(rstack) = 0 => queue # <<>>

LinkInv ==
  /\ Paired(cstack, base, rstack)
  /\ SizeInv /\ ShownInv /\ TurnInv /\ NoteInv

NestInv ==
  /\ EndInv /\ ClientInv /\ RubyShape(rstack)
  /\ Connected => LinkInv

-----------------------------------------------------------------------------
(* Stacks that are pushed and popped.                                      *)

(* A frame that is pushed is the last one.                                 *)
LEMMA Pushed ==
  ASSUME NEW S, NEW s \in Seq(S), NEW f \in S
  PROVE  LET t == Append(s, f)
         IN /\ t \in Seq(S) /\ t # <<>> /\ Len(t) = Len(s) + 1 /\ Last(t) = f
            /\ t[Len(s) + 1] = f
            /\ \A i \in 1..Len(s) : t[i] = s[i]
            /\ Len(s) \in Nat /\ (s = <<>> <=> Len(s) = 0)
<1> DEFINE t == Append(s, f)
<1>1. /\ t \in Seq(S) /\ t # <<>> /\ Len(t) = Len(s) + 1
      /\ \A i \in 1..Len(s) : t[i] = s[i]
      /\ t[Len(s) + 1] = f
  BY AppendProperties
<1>2. Len(s) \in Nat /\ (s = <<>> <=> Len(s) = 0)
  BY EmptySeq
<1> HIDE DEF t
<1> QED
  BY <1>1, <1>2 DEF Last, t

(* Frames that already were there stay paired.                             *)
LEMMA PairedPush ==
  ASSUME NEW c \in Seq(CFrame), NEW r \in Seq(RFrame), NEW b \in Nat,
         Paired(c, b, r), NEW f \in CFrame,
         \/ Len(c) - b >= Len(r)
         \/ /\ Len(c) - b >= -1 /\ Len(r) = Len(c) - b + 1
            /\ Last(r).kind = "invoke" /\ f.kind = "penn" /\ f.id = Last(r).id
  PROVE  Paired(Append(c, f), b, r)
<1> DEFINE t == Append(c, f)
<1>1. /\ Len(t) = Len(c) + 1 /\ t[Len(c) + 1] = f
      /\ \A i \in 1..Len(c) : t[i] = c[i]
      /\ Len(c) \in Nat /\ Len(r) \in Nat
  BY Pushed
<1> HIDE DEF t
<1>2. ASSUME NEW i \in 1..Len(r), i <= Len(t) - b
      PROVE  /\ Matches(t[b + i], r[i])
             /\ i > 1 /\ r[i].kind = "method" => r[i].saved = t[b + i].saved
  <2>1. CASE i <= Len(c) - b
    <3>1. t[b + i] = c[b + i]
      <4>1. b + i \in 1..Len(c)
        BY <1>1, <2>1
      <4> QED
        BY <1>1, <4>1
    <3>2. /\ Matches(c[b + i], r[i])
          /\ i > 1 /\ r[i].kind = "method" => r[i].saved = c[b + i].saved
      BY <2>1 DEF Paired
    <3> QED
      BY <3>1, <3>2
  <2>2. CASE i > Len(c) - b
    <3>1. i = Len(c) - b + 1 /\ b + i = Len(c) + 1 /\ i = Len(r)
      <4>1. i \in Int /\ 1 <= i /\ i <= Len(r) /\ i <= Len(c) + 1 - b /\ b \in Int
        BY <1>1, <1>2
      <4>2. i = Len(c) - b + 1 /\ b + i = Len(c) + 1
        <5>1. PICK n \in Nat : n = Len(c)
          BY <1>1
        <5>2. i > n - b /\ i <= n + 1 - b
          BY <2>2, <4>1, <5>1
        <5>3. i = n - b + 1 /\ b + i = n + 1
          BY <4>1, <5>2
        <5> QED
          BY <5>1, <5>3
      <4>3. ~(Len(c) - b >= Len(r))
        BY <1>1, <2>2, <4>1
      <4>4. Len(r) = Len(c) - b + 1
        BY <4>3
      <4> QED
        BY <4>2, <4>4
    <3>2. t[b + i] = f /\ r[i] = Last(r)
      BY <1>1, <3>1 DEF Last
    <3>3. Len(r) = Len(c) - b + 1
      BY <3>1
    <3>4. Last(r).kind = "invoke" /\ f.kind = "penn" /\ f.id = Last(r).id
      BY <1>1, <3>3
    <3>5. Matches(f, Last(r)) /\ r[i].kind # "method"
      BY <3>2, <3>4 DEF Matches
    <3> QED
      BY <3>2, <3>5
  <2> QED
    BY <1>1, <2>1, <2>2
<1> QED
  BY <1>2 DEF Paired, t

(* The frames that are left when PennMUSH pops one stay paired.            *)
LEMMA PairedPop ==
  ASSUME NEW c \in Seq(CFrame), c # <<>>, NEW r, Len(r) \in Nat, NEW b \in Nat,
         Paired(c, b, r)
  PROVE  Paired(Front(c), b, r)
<1>1. /\ Len(c) \in Nat \ {0} /\ Len(Front(c)) = Len(c) - 1
      /\ \A i \in 1..(Len(c) - 1) : Front(c)[i] = c[i]
  BY PopType
<1>2. ASSUME NEW i \in 1..Len(r), i <= Len(Front(c)) - b
      PROVE  Front(c)[b + i] = c[b + i] /\ i <= Len(c) - b
  BY <1>1, <1>2
<1> QED
  BY <1>2 DEF Paired

(* A method that Ruby starts is paired with the call it was sent.          *)
LEMMA PairedPushRuby ==
  ASSUME NEW c \in Seq(CFrame), NEW r \in Seq(RFrame), NEW b \in Nat,
         Paired(c, b, r), NEW g \in RFrame,
         \/ Len(c) - b <= Len(r)
         \/ /\ Len(c) - b = Len(r) + 1 /\ Matches(Last(c), g)
            /\ Len(r) > 0 => g.saved = Last(c).saved
  PROVE  Paired(c, b, Append(r, g))
<1> DEFINE t == Append(r, g)
<1>1. /\ Len(t) = Len(r) + 1 /\ t[Len(r) + 1] = g
      /\ \A i \in 1..Len(r) : t[i] = r[i]
      /\ Len(c) \in Nat /\ Len(r) \in Nat
  BY Pushed
<1> HIDE DEF t
<1>2. ASSUME NEW i \in 1..Len(t), i <= Len(c) - b
      PROVE  /\ Matches(c[b + i], t[i])
             /\ i > 1 /\ t[i].kind = "method" => t[i].saved = c[b + i].saved
  <2>1. CASE i <= Len(r)
    BY <1>1, <1>2, <2>1 DEF Paired
  <2>2. CASE i = Len(r) + 1
    <3>1. t[i] = g /\ c[b + i] = Last(c)
      <4>1. b + i = Len(c)
        BY <1>1, <1>2, <2>2
      <4> QED
        BY <1>1, <2>2, <4>1 DEF Last
    <3> QED
      BY <1>1, <1>2, <2>2, <3>1
  <2> QED
    BY <1>1, <2>1, <2>2
<1> QED
  BY <1>2 DEF Paired, t

(* And when Ruby pops one.                                                 *)
LEMMA PairedPopRuby ==
  ASSUME NEW c, NEW b, NEW r \in Seq(RFrame), r # <<>>, Paired(c, b, r)
  PROVE  Paired(c, b, Front(r))
<1>1. /\ Len(r) \in Nat \ {0} /\ Len(Front(r)) = Len(r) - 1
      /\ \A i \in 1..(Len(r) - 1) : Front(r)[i] = r[i]
  BY PopType
<1> QED
  BY <1>1 DEF Paired

(* Ruby's stack goes on alternating.                                       *)
LEMMA RubyPush ==
  ASSUME NEW r \in Seq(RFrame), NEW g \in RFrame, RubyShape(r),
         g.kind = "invoke" <=> r # <<>> /\ Last(r).kind # "invoke",
         g.kind = "callback" => r = <<>>
  PROVE  RubyShape(Append(r, g))
<1> DEFINE t == Append(r, g)
<1>1. /\ Len(t) = Len(r) + 1 /\ t[Len(r) + 1] = g
      /\ \A i \in 1..Len(r) : t[i] = r[i]
      /\ Len(r) \in Nat /\ (r = <<>> <=> Len(r) = 0)
  BY Pushed
<1> HIDE DEF t
<1>2. ASSUME NEW i \in 1..Len(t)
      PROVE  /\ t[i].kind = "invoke" <=> i > 1 /\ t[i - 1].kind # "invoke"
             /\ t[i].kind = "callback" => i = 1
  <2>1. CASE i <= Len(r)
    <3>1. t[i] = r[i] /\ (i > 1 => t[i - 1] = r[i - 1])
      BY <1>1, <2>1
    <3> QED
      BY <1>1, <2>1, <3>1 DEF RubyShape
  <2>2. CASE i = Len(r) + 1
    <3>1. t[i] = g /\ (i > 1 => t[i - 1] = Last(r))
      BY <1>1, <2>2 DEF Last
    <3> QED
      BY <1>1, <2>2, <3>1
  <2> QED
    BY <1>1, <2>1, <2>2
<1> QED
  BY <1>2 DEF RubyShape, t

(* And when it loses its last frame.                                       *)
LEMMA RubyPop ==
  ASSUME NEW r \in Seq(RFrame), r # <<>>, RubyShape(r)
  PROVE  RubyShape(Front(r))
<1>1. /\ Len(r) \in Nat \ {0} /\ Len(Front(r)) = Len(r) - 1
      /\ \A i \in 1..(Len(r) - 1) : Front(r)[i] = r[i]
  BY PopType
<1> QED
  BY <1>1 DEF RubyShape

(* A callback is the first frame or none.                                  *)
LEMMA CallbackCount ==
  ASSUME NEW r \in Seq(RFrame), RubyShape(r)
  PROVE  Callbacks(r) = One(r # <<>> /\ r[1].kind = "callback")
<1> DEFINE C == { i \in DOMAIN r : r[i].kind = "callback" }
<1>1. Len(r) \in Nat /\ DOMAIN r = 1..Len(r) /\ (r = <<>> <=> Len(r) = 0)
  BY EmptySeq
<1>2. CASE r # <<>> /\ r[1].kind = "callback"
  <2>1. C = {1}
    BY <1>1, <1>2 DEF RubyShape
  <2> QED
    BY <1>2, <2>1, FS_Singleton DEF One, Callbacks
<1>3. CASE ~(r # <<>> /\ r[1].kind = "callback")
  <2>1. C = {}
    BY <1>1, <1>3 DEF RubyShape
  <2> QED
    BY <1>3, <2>1, FS_EmptySet DEF One, Callbacks
<1> QED
  BY <1>2, <1>3

-----------------------------------------------------------------------------
(* Who holds the turn.                                                     *)

(* The sizes and the counts are numbers; with nothing due there is neither *)
(* a call nor an answer to read.                                           *)
LEMMA Sizes ==
  ASSUME TypeOK
  PROVE  /\ Len(cstack) \in Nat /\ base \in Nat /\ Theirs \in Nat
         /\ Due \in Nat /\ Reqs \in Nat /\ Acks \in Nat
         /\ Due = 0 <=> \A m \in ToSet(Unread) : m.type \notin Answers
         /\ Acks = 0 <=> \A m \in ToSet(toRuby) : m.type # "ack"
         /\ cstack = <<>> <=> Len(cstack) = 0
         /\ rstack = <<>> <=> Len(rstack) = 0
         /\ toRuby = <<>> <=> Len(toRuby) = 0
<1>1. /\ cstack \in Seq(CFrame) /\ base \in Nat /\ rstack \in Seq(RFrame)
      /\ toRuby \in Seq(Message)
  BY DEF TypeOK, ClientTypeOK, WireTypeOK, ConversationTypeOK
<1>2. /\ Due \in Nat /\ Reqs \in Nat
      /\ Due = 0 <=> \A m \in ToSet(Unread) : m.type \notin Answers
  BY UnreadType, CountNat DEF Due, Reqs
<1>3. /\ Acks \in Nat
      /\ Acks = 0 <=> \A m \in ToSet(toRuby) : m.type \notin {"ack"}
  BY <1>1, CountNat DEF Acks
<1>4. /\ Len(cstack) \in Nat /\ Theirs \in Nat
      /\ cstack = <<>> <=> Len(cstack) = 0
      /\ rstack = <<>> <=> Len(rstack) = 0
      /\ toRuby = <<>> <=> Len(toRuby) = 0
  BY <1>1, EmptySeq DEF Theirs
<1> QED
  BY <1>1, <1>2, <1>3, <1>4

(* PennMUSH runs softcode exactly if it does not wait for an answer.       *)
LEMMA PennWaits ==
  ASSUME TypeOK
  PROVE  /\ PennTurn <=> ~Awaiting
         /\ cstack # <<>> => Last(cstack) \in CFrame
         /\ rstack # <<>> => Last(rstack) \in RFrame
         /\ Executing <=> rstack # <<>> /\ ~Invoking
<1>1. cstack # <<>> => Last(cstack) \in CFrame
  BY PopType DEF TypeOK, ClientTypeOK
<1>2. rstack # <<>> => Last(rstack) \in RFrame
  BY PopType DEF TypeOK, ConversationTypeOK
<1> QED
  BY <1>1, <1>2
  DEF PennTurn, AtTopLevel, Serving, Awaiting, Executing, Invoking, CFrame, RFrame

(* PennMUSH's turn: nothing is under way.                                  *)
LEMMA PennsTurn ==
  ASSUME TypeOK, NestInv, Connected, PennTurn
  PROVE  /\ toRuby = <<>> /\ Due = 0 /\ ~Executing /\ Ours = Theirs
         /\ Acks = 0
<1> DEFINE a == One(PennTurn)
           e == One(Executing)
<1>1. Len(toRuby) \in Nat /\ Due \in Nat /\ (toRuby = <<>> <=> Len(toRuby) = 0)
  BY Sizes, EmptySeq DEF TypeOK, WireTypeOK
<1>2. a = 1 /\ e \in Nat /\ (e = 0 => ~Executing)
  BY DEF One, a, e
<1>3. 1 = a + e + Len(toRuby) + Due /\ Ours = Theirs
  BY DEF NestInv, LinkInv, TurnInv, SizeInv, a, e
<1> HIDE DEF a, e
<1>4. Len(toRuby) = 0 /\ Due = 0 /\ e = 0
  BY <1>1, <1>2, <1>3
<1>5. Acks = 0
  BY <1>1, <1>4, CountEmpty DEF Acks
<1> QED
  BY <1>1, <1>2, <1>3, <1>4, <1>5

(* Ruby's turn: nothing is under way, and PennMUSH waits.                  *)
LEMMA RubysTurn ==
  ASSUME TypeOK, NestInv, Connected, Executing
  PROVE  /\ toRuby = <<>> /\ Due = 0 /\ ~PennTurn /\ Ours = Theirs
         /\ Acks = 0
<1> DEFINE a == One(PennTurn)
           e == One(Executing)
<1>1. Len(toRuby) \in Nat /\ Due \in Nat /\ (toRuby = <<>> <=> Len(toRuby) = 0)
  BY Sizes, EmptySeq DEF TypeOK, WireTypeOK
<1>2. e = 1 /\ a \in Nat /\ (a = 0 => ~PennTurn)
  BY DEF One, a, e
<1>3. 1 = a + e + Len(toRuby) + Due /\ Ours = Theirs
  BY DEF NestInv, LinkInv, TurnInv, SizeInv, a, e
<1> HIDE DEF a, e
<1>4. Len(toRuby) = 0 /\ Due = 0 /\ a = 0
  BY <1>1, <1>2, <1>3
<1>5. Acks = 0
  BY <1>1, <1>4, CountEmpty DEF Acks
<1> QED
  BY <1>1, <1>2, <1>3, <1>4, <1>5

(* A message to Ruby is the only one, and both sides wait.                 *)
LEMMA ForRuby ==
  ASSUME TypeOK, NestInv, Connected, toRuby # <<>>
  PROVE  /\ ~PennTurn /\ ~Executing /\ Due = 0
         /\ Tail(toRuby) = <<>> /\ ToSet(toRuby) = {Head(toRuby)}
         /\ Head(toRuby) \in Message
         /\ Acks = One(Head(toRuby).type = "ack")
<1> DEFINE a == One(PennTurn)
           e == One(Executing)
<1>1. Len(toRuby) \in Nat \ {0} /\ Due \in Nat /\ toRuby \in Seq(Message)
  BY Sizes, EmptySeq DEF TypeOK, WireTypeOK
<1>2. /\ e \in Nat /\ (e = 0 => ~Executing)
      /\ a \in Nat /\ (a = 0 => ~PennTurn)
  BY DEF One, a, e
<1>3. 1 = a + e + Len(toRuby) + Due
  BY DEF NestInv, LinkInv, TurnInv, a, e
<1> HIDE DEF a, e
<1>4. Len(toRuby) = 1 /\ Due = 0 /\ a = 0 /\ e = 0
  BY <1>1, <1>2, <1>3
<1>5. /\ Tail(toRuby) \in Seq(Message) /\ Len(Tail(toRuby)) = 0
      /\ Count(toRuby, {"ack"}) = Count(Tail(toRuby), {"ack"}) + One(Head(toRuby).type \in {"ack"})
  BY <1>1, <1>4, CountTail
<1>6. Tail(toRuby) = <<>>
  BY <1>5, EmptySeq
<1>7. Acks = One(Head(toRuby).type = "ack")
  <2>1. One(Head(toRuby).type \in {"ack"}) = One(Head(toRuby).type = "ack")
    BY DEF One
  <2>2. One(Head(toRuby).type = "ack") \in Nat
    BY DEF One
  <2> DEFINE n == One(Head(toRuby).type = "ack")
  <2>3. Count(toRuby, {"ack"}) = 0 + n /\ n \in Nat
    BY <1>5, <1>6, <2>1, <2>2, CountEmpty
  <2> HIDE DEF n
  <2>4. Acks = n
    BY <2>3 DEF Acks
  <2> QED
    BY <2>4 DEF n
<1>8. Head(toRuby) = toRuby[1] /\ DOMAIN toRuby = {1}
  BY <1>1, <1>4, HeadTailProperties
<1>9. ToSet(toRuby) = {Head(toRuby)} /\ Head(toRuby) \in Message
  BY <1>1, <1>4, <1>8 DEF ToSet
<1> QED
  BY <1>2, <1>4, <1>6, <1>7, <1>9

(* A call or an answer to PennMUSH is the only one, and both sides wait.   *)
LEMMA ForPenn ==
  ASSUME TypeOK, NestInv, Connected, NEW m \in ToSet(Unread), m.type \in Answers
  PROVE  ~PennTurn /\ ~Executing /\ Due = 1 /\ toRuby = <<>> /\ Acks = 0
<1> DEFINE a == One(PennTurn)
           e == One(Executing)
<1>1. /\ Len(toRuby) \in Nat /\ Due \in Nat \ {0}
      /\ (toRuby = <<>> <=> Len(toRuby) = 0)
  BY Sizes, EmptySeq DEF TypeOK, WireTypeOK
<1>2. /\ e \in Nat /\ (e = 0 => ~Executing)
      /\ a \in Nat /\ (a = 0 => ~PennTurn)
  BY DEF One, a, e
<1>3. 1 = a + e + Len(toRuby) + Due
  BY DEF NestInv, LinkInv, TurnInv, a, e
<1> HIDE DEF a, e
<1>4. Len(toRuby) = 0 /\ Due = 1 /\ a = 0 /\ e = 0
  BY <1>1, <1>2, <1>3
<1>5. Acks = 0
  BY <1>1, <1>4, CountEmpty DEF Acks
<1> QED
  BY <1>1, <1>2, <1>4, <1>5

-----------------------------------------------------------------------------
(* What reading and sending do to the counts.                              *)

(* PennMUSH reads what is due, or a solicitation.                          *)
LEMMA Reads ==
  ASSUME TypeOK, Receive
  PROVE  /\ HasIncoming /\ Incoming \in ToSet(Unread) /\ Incoming \in Message
         /\ ToSet(Unread') \subseteq ToSet(Unread)
         /\ Due = Due' + One(Incoming.type \in Answers)
         /\ Reqs = Reqs' + One(Incoming.type = "req")
         /\ Due' \in Nat /\ Reqs' \in Nat
         /\ Due' = 0 => \A m \in ToSet(Unread') : m.type \notin Answers
<1>1. /\ Unread \in Seq(Message) /\ Unread # <<>> /\ Incoming = Head(Unread)
      /\ Unread' = Tail(Unread) /\ HasIncoming
  BY UnreadType, ReceiveTail
<1> DEFINE u == Unread  v == Unread'
<1>2. u \in Seq(Message) /\ u # <<>> /\ v = Tail(u)
  BY <1>1
<1> HIDE DEF u, v
<1>3. /\ v \in Seq(Message) /\ Head(u) \in ToSet(u) /\ ToSet(v) \subseteq ToSet(u)
      /\ Count(u, Answers) = Count(v, Answers) + One(Head(u).type \in Answers)
      /\ Count(u, {"req"}) = Count(v, {"req"}) + One(Head(u).type \in {"req"})
  BY <1>2, CountTail
<1>4. /\ Count(v, Answers) \in Nat /\ Count(v, {"req"}) \in Nat
      /\ Count(v, Answers) = 0 <=> \A m \in ToSet(v) : m.type \notin Answers
  BY <1>3, CountNat
<1>5. One(Head(u).type \in {"req"}) = One(Head(u).type = "req")
  BY DEF One
<1>6. Head(u) \in Message
  BY <1>2, HeadTailProperties
<1>7. Due' = Count(v, Answers) /\ Reqs' = Count(v, {"req"})
  BY DEF Due, Reqs, Answers, Count, v
<1>8. Due = Count(u, Answers) /\ Reqs = Count(u, {"req"})
  BY DEF Due, Reqs, u
<1>9. ToSet(v) = ToSet(Unread') /\ u = Unread
  BY DEF u, v
<1> QED
  BY <1>1, <1>3, <1>4, <1>5, <1>6, <1>7, <1>8, <1>9

(* What Ruby sends is due, or a solicitation.                              *)
LEMMA Sends ==
  ASSUME TypeOK, NEW m \in Message, toPenn' = Append(toPenn, m), inbuf' = inbuf
  PROVE  /\ ToSet(Unread') = ToSet(Unread) \cup {m}
         /\ Due' = Due + One(m.type \in Answers)
         /\ Reqs' = Reqs + One(m.type = "req")
<1>1. Unread \in Seq(Message) /\ Unread' = Append(Unread, m)
  BY UnreadType, SendAppend
<1> DEFINE u == Unread  v == Unread'
<1>2. u \in Seq(Message) /\ v = Append(u, m)
  BY <1>1
<1> HIDE DEF u, v
<1>3. /\ ToSet(v) = ToSet(u) \cup {m}
      /\ Count(v, Answers) = Count(u, Answers) + One(m.type \in Answers)
      /\ Count(v, {"req"}) = Count(u, {"req"}) + One(m.type \in {"req"})
  BY <1>2, CountAppend
<1>4. One(m.type \in {"req"}) = One(m.type = "req")
  BY DEF One
<1>5. Due' = Count(v, Answers) /\ Reqs' = Count(v, {"req"}) /\ ToSet(v) = ToSet(Unread')
  BY DEF Due, Reqs, Answers, Count, v
<1>6. Due = Count(u, Answers) /\ Reqs = Count(u, {"req"}) /\ u = Unread
  BY DEF Due, Reqs, u
<1> QED
  BY <1>3, <1>4, <1>5, <1>6

(* Nothing is read or sent.                                                *)
LEMMA Silent ==
  ASSUME UNCHANGED <<inbuf, toPenn>>
  PROVE  Unread' = Unread /\ Due' = Due /\ Reqs' = Reqs
  BY DEF Unread, Due, Reqs, Answers, Count

(* A message to Ruby is the only one if there was none.                    *)
LEMMA Posts ==
  ASSUME NEW m \in Message, toRuby = <<>>, toRuby' = Append(toRuby, m)
  PROVE  /\ ToSet(toRuby') = {m} /\ Len(toRuby') = 1
         /\ Acks' = One(m.type = "ack")
<1> DEFINE e == <<>>  t == Append(e, m)
<1>1. e \in Seq(Message) /\ t = toRuby' /\ Len(e) = 0 /\ e = <<>>
  OBVIOUS
<1> HIDE DEF e, t
<1>2. /\ ToSet(t) = ToSet(e) \cup {m} /\ Len(t) = Len(e) + 1
      /\ Count(t, {"ack"}) = Count(e, {"ack"}) + One(m.type \in {"ack"})
  BY <1>1, CountAppend DEF t
<1>3. One(m.type \in {"ack"}) = One(m.type = "ack") /\ One(m.type = "ack") \in Nat
  BY DEF One
<1>4. Acks' = Count(t, {"ack"})
  BY <1>1 DEF Acks, Count
<1> QED
  BY <1>1, <1>2, <1>3, <1>4, CountEmpty

(* Nothing is on its way to Ruby.                                          *)
LEMMA NonePosted ==
  ASSUME toRuby' = <<>>
  PROVE  ToSet(toRuby') = {} /\ Len(toRuby') = 0 /\ Acks' = 0
<1>1. Acks' = Count(<<>>, {"ack"})
  BY DEF Acks, Count
<1> QED
  BY <1>1, CountEmpty

-----------------------------------------------------------------------------
(* The steps that end, start or do not concern a connection.               *)

(* The invariant of the next state, part by part.                          *)
LEMMA NestNext ==
  ASSUME EndInv', ClientInv', RubyShape(rstack'),
         Connected' => /\ Paired(cstack', base', rstack')
                       /\ SizeInv' /\ ShownInv' /\ TurnInv' /\ NoteInv'
  PROVE  NestInv'
  BY DEF NestInv, LinkInv, RubyShape, Paired

(* An empty stack of Ruby's.                                               *)
LEMMA FreshRuby ==
  ASSUME rstack' = <<>>
  PROVE  /\ RubyShape(rstack') /\ Theirs' = 0 /\ ~Executing'
         /\ Len(rstack') <= MaxDepth /\ Callbacks(rstack') = 0
         /\ \A c, b : Paired(c, b, rstack')
<1>1. Len(rstack') = 0 /\ MaxDepth \in Nat \ {0}
  BY ConversationAssumption
<1>2. RubyShape(rstack') /\ \A c, b : Paired(c, b, rstack')
  BY <1>1 DEF RubyShape, Paired
<1>3. Callbacks(<<>>) = 0
  <2>1. { i \in DOMAIN <<>> : <<>>[i].kind = "callback" } = {}
    OBVIOUS
  <2> QED
    BY <2>1, FS_EmptySet DEF Callbacks
<1> QED
  BY <1>1, <1>2, <1>3 DEF Theirs, Executing

(* Without a descriptor nothing is under way.                              *)
LEMMA Closed ==
  ASSUME fd' = 0, peer' = "closed", toRuby' = <<>>, rstack' = <<>>, PennTurn'
  PROVE  NestInv'
<1>1. EndInv' /\ ClientInv'
  BY FreshRuby DEF EndInv, ClientInv
<1>2. ~Connected'
  BY DEF Connected
<1> QED
  BY <1>1, <1>2, FreshRuby, NestNext

(* The Ruby process dies: PennMUSH does not know yet.                      *)
LEMMA HungUp ==
  ASSUME NestInv, Connected, HangUp, FreshProcess,
         UNCHANGED <<encoder, inbuf, current, depth, cstack, base>>
  PROVE  NestInv'
<1>1. fd' = fd /\ fd # 0 /\ toRuby' = <<>> /\ rstack' = <<>> /\ ~Connected'
  BY DEF HangUp, FreshProcess, Connected
<1>2. Unread' = Unread /\ Due' = Due /\ Reqs' = Reqs
  BY Silent DEF HangUp
<1>3. EndInv'
  BY <1>1, FreshRuby DEF EndInv
<1>4. ClientInv'
  <2>1. Ours' = Ours /\ (PennTurn' <=> PennTurn)
    BY DEF Ours, PennTurn, AtTopLevel, Serving
  <2>2. ClientInv
    BY DEF NestInv
  <2> QED
    BY <1>1, <1>2, <2>1, <2>2 DEF ClientInv
<1> QED
  BY <1>1, <1>3, <1>4, FreshRuby, NestNext

(* Below a call that waits there is softcode or nothing, below softcode a  *)
(* call that waits.                                                        *)
LEMMA Beneath ==
  ASSUME NEW s \in Seq(CFrame), s # <<>>, NEW c, Shape(s, c)
  PROVE  /\ Last(s).kind # "penn" =>
              Front(s) = <<>> \/ Last(Front(s)).kind = "penn"
         /\ Last(s).kind = "penn" =>
              Front(s) # <<>> /\ Last(Front(s)).kind # "penn"
<1>1. /\ Len(s) \in Nat \ {0} /\ Len(Front(s)) = Len(s) - 1
      /\ Front(s) \in Seq(CFrame)
      /\ \A i \in 1..(Len(s) - 1) : Front(s)[i] = s[i]
  BY PopType
<1>2. s[Len(s)].kind = "penn" <=> Len(s) > 1 /\ s[Len(s) - 1].kind # "penn"
  BY <1>1 DEF Shape
<1>3. Front(s) = <<>> <=> Len(s) = 1
  BY <1>1, EmptySeq
<1>4. Len(s) > 1 => Last(Front(s)) = s[Len(s) - 1]
  BY <1>1 DEF Last
<1> QED
  BY <1>1, <1>2, <1>3, <1>4 DEF Last

(* Whatever fails, softcode goes on.                                       *)
LEMMA StopNest ==
  ASSUME TypeOK, StackShape, NestInv, Follow,
         \/ RpcFails \/ AdminStop \/ RpcStartFails \/ AdminStartFails
         \/ DispatchRefusedFails \/ DispatchEof \/ PennReplyFails
         \/ PennReplyCrash \/ SetFdFails \/ IsSetFdFails
  PROVE  NestInv'
<1>1. cstack \in Seq(CFrame) /\ current \in Context
  BY DEF TypeOK, ClientTypeOK
<1>2. fd = 0 => peer = "closed" /\ PennTurn /\ toRuby = <<>> /\ rstack = <<>>
  BY DEF NestInv, EndInv, Connected
<1>3. fd' = fd \/ rstack' = <<>>
  BY DEF Follow, FreshProcess
<1>4. fd' = fd => rstack' = rstack
  BY DEF Follow, rubyVars, processVars
<1>5. ASSUME Stop
      PROVE  fd' = 0 /\ peer' = "closed" /\ toRuby' = <<>> /\ rstack' = <<>>
  BY <1>2, <1>3, <1>4, <1>5 DEF Stop, ClosePair, wireVars
<1>6. ASSUME fd = 0, UNCHANGED wireVars
      PROVE  fd' = 0 /\ peer' = "closed" /\ toRuby' = <<>> /\ rstack' = <<>>
  BY <1>2, <1>4, <1>6 DEF wireVars
<1>7. ASSUME cstack' = cstack, PennTurn PROVE PennTurn'
  BY <1>7 DEF PennTurn, AtTopLevel, Serving
<1>8. ASSUME NEW s \in Seq(CFrame), s # <<>>, NEW c, Shape(s, c),
             Last(s).kind # "penn", cstack' = Front(s)
      PROVE  PennTurn'
  BY <1>8, Beneath DEF PennTurn, AtTopLevel, Serving
<1>9. CASE RpcFails \/ AdminStop
  <2>1. Stop /\ cstack' = cstack /\ PennTurn
    BY <1>9 DEF RpcFails, AdminStop, MayCall, TopLevelSoftcode, PennTurn
  <2> QED
    BY <1>5, <1>7, <2>1, Closed
<1>10. CASE RpcStartFails \/ AdminStartFails
  <2>1. fd = 0 /\ UNCHANGED wireVars /\ cstack' = cstack
    BY <1>10 DEF RpcStartFails, AdminStartFails, StartFails
  <2> QED
    BY <1>2, <1>6, <1>7, <2>1, Closed
<1>11. CASE SetFdFails \/ IsSetFdFails
  <2>1. Stop /\ cstack' = cstack /\ PennTurn
    BY <1>11 DEF SetFdFails, IsSetFdFails, PennTurn
  <2> QED
    BY <1>5, <1>7, <2>1, Closed
<1>12. CASE DispatchRefusedFails \/ DispatchEof
  <2>1. Stop /\ cstack' = Front(cstack) /\ Awaiting
    BY <1>12 DEF DispatchRefusedFails, DispatchEof, Unwind
  <2>2. PennTurn'
    BY <1>1, <1>8, <2>1 DEF Awaiting, StackShape
  <2> QED
    BY <1>5, <2>1, <2>2, Closed
<1>13. CASE PennReplyFails
  <2> DEFINE s == Front(cstack)
  <2>1. Stop /\ cstack' = Front(s) /\ Serving
    BY <1>13 DEF PennReplyFails, Unwind
  <2>2. s \in Seq(CFrame)
    BY <1>1, <2>1, ServedCall
  <2>3. s # <<>> /\ Last(s).kind # "penn"
    BY <1>1, <2>1, Beneath DEF StackShape, Serving
  <2>4. Shape(s, current)
    BY <1>1, <2>1, PopShape DEF StackShape, Serving
  <2> HIDE DEF s
  <2>5. PennTurn'
    BY <1>8, <2>1, <2>2, <2>3, <2>4
  <2> QED
    BY <1>5, <2>1, <2>5, Closed
<1>14. CASE PennReplyCrash
  <2>1. fd = 0 /\ UNCHANGED wireVars
    BY <1>14 DEF PennReplyCrash, NestInv, ClientInv
  <2>2. PennTurn'
    BY <1>14 DEF PennReplyCrash, PennTurn, AtTopLevel
  <2> QED
    BY <1>6, <2>1, <2>2, Closed
<1> QED
  BY <1>9, <1>10, <1>11, <1>12, <1>13, <1>14

(* A step that touches neither the stacks nor what is under way.           *)
LEMMA QuietNest ==
  ASSUME NestInv, queue # <<>> => queue' # <<>>,
         UNCHANGED <<wireVars, encoder, inbuf, current, depth, soliciting,
                     cstack, base, rstack, rsoliciting, rcontext>>
  PROVE  NestInv'
<1>1. UNCHANGED wireVars /\ UNCHANGED <<encoder, inbuf, current, depth, soliciting>>
      /\ UNCHANGED <<cstack, base, rstack, rsoliciting, rcontext>>
  OBVIOUS
<1>2. Unread' = Unread /\ Due' = Due /\ Reqs' = Reqs
  BY <1>1, Silent DEF wireVars
<1>3. /\ Ours' = Ours /\ Theirs' = Theirs /\ Acks' = Acks
      /\ (PennTurn' <=> PennTurn) /\ (Executing' <=> Executing)
      /\ (Connected' <=> Connected)
  BY <1>1
  DEF wireVars, Ours, Theirs, Acks, Count, PennTurn, AtTopLevel, Serving,
      Executing, Connected
<1>4. EndInv' /\ ClientInv'
  BY <1>1, <1>2, <1>3 DEF wireVars, NestInv, EndInv, ClientInv
<1>5. CASE Connected
  <2>1. Paired(cstack', base', rstack') /\ SizeInv' /\ ShownInv'
    BY <1>1, <1>2, <1>3, <1>5 DEF wireVars, NestInv, LinkInv, SizeInv, ShownInv
  <2>2. TurnInv'
    <3>1. One(PennTurn') = One(PennTurn) /\ One(Executing') = One(Executing)
      BY <1>3 DEF One
    <3> QED
      BY <1>1, <1>2, <1>3, <1>5, <3>1 DEF wireVars, NestInv, LinkInv, TurnInv
  <2>3. NoteInv'
    BY <1>1, <1>2, <1>3, <1>5 DEF NestInv, LinkInv, NoteInv, Callbacks
  <2>4. RubyShape(rstack')
    BY <1>1 DEF NestInv
  <2> QED
    BY <1>3, <1>4, <2>1, <2>2, <2>3, <2>4, NestNext
<1>6. CASE ~Connected
  BY <1>1, <1>3, <1>4, <1>6, NestNext DEF NestInv
<1> QED
  BY <1>5, <1>6

-----------------------------------------------------------------------------
(* The steps of PennMUSH.                                                  *)

(* A launched process has no call open but the one it is launched for.     *)
LEMMA LaunchNest ==
  ASSUME TypeOK, NestInv, Follow, (\E p \in Player : RpcStarts(p)) \/ AdminStart
  PROVE  NestInv'
<1>1. /\ cstack \in Seq(CFrame) /\ current \in Context /\ calls \in Nat
      /\ starts + 1 # 0 /\ Len(cstack) \in Nat
  BY DEF TypeOK, ClientTypeOK
<1>2. ASSUME NEW msgs, Start(msgs)
      PROVE  /\ fd' # 0 /\ fd' # fd /\ peer' = "open" /\ toRuby' = msgs
             /\ encoder' /\ ~soliciting' /\ base' = Len(cstack)
             /\ FreshProcess /\ rstack' = <<>> /\ ~rsoliciting'
             /\ ToSet(Unread') = {} /\ Due' = 0 /\ Reqs' = 0
  <2>1. toPenn' = <<>> /\ inbuf' = <<>>
    BY <1>2 DEF Start, OpenPair
  <2>2. Unread' = <<>>
    BY <2>1 DEF Unread
  <2>3. Due' = 0 /\ Reqs' = 0 /\ ToSet(Unread') = {}
    BY <2>2, CountEmpty DEF Due, Reqs, Answers, Count
  <2>4. fd' # 0 /\ fd' # fd
    BY <1>1, <1>2 DEF Start, OpenPair
  <2> QED
    BY <1>2, <2>3, <2>4 DEF Start, OpenPair, Follow, FreshProcess
<1>3. ASSUME fd' # 0, peer' = "open", rstack' = <<>>
      PROVE  EndInv'
  BY <1>3, FreshRuby DEF EndInv, Connected
<1>4. ASSUME NEW p \in Player, RpcStarts(p)
      PROVE  NestInv'
  <2> DEFINE m == Call(calls + 1, p)
  <2>1. /\ fd' # 0 /\ peer' = "open" /\ toRuby' = <<m>>
        /\ encoder' /\ ~soliciting' /\ base' = Len(cstack)
        /\ rstack' = <<>> /\ ~rsoliciting'
        /\ ToSet(Unread') = {} /\ Due' = 0 /\ Reqs' = 0
    BY <1>2, <1>4 DEF RpcStarts
  <2>2. /\ RpcFrame \in CFrame /\ RpcFrame.kind = "rpc" /\ RpcFrame.id = calls + 1
        /\ RpcFrame.saved = current
    BY <1>1 DEF RpcFrame, CFrame
  <2>3. /\ cstack' = Append(cstack, RpcFrame) /\ current' = p /\ depth' = 1
        /\ PennTurn
    BY <1>4 DEF RpcStarts, EnterRpc, MayCall, TopLevelSoftcode, PennTurn
  <2>4. /\ Len(cstack') = Len(cstack) + 1 /\ Last(cstack') = RpcFrame
        /\ cstack' # <<>> /\ \A i \in 1..Len(cstack) : cstack'[i] = cstack[i]
        /\ cstack = <<>> <=> Len(cstack) = 0
    BY <1>1, <2>2, <2>3, Pushed
  <2>5. m \in Message /\ m.type = "call" /\ m.id = calls + 1 /\ m.ctx = p
    BY <1>1, MessageTypes DEF Call, Context
  <2> HIDE DEF m
  <2>6. Ours' = 1 /\ ~PennTurn'
    BY <1>1, <2>1, <2>2, <2>4 DEF Ours, PennTurn, AtTopLevel, Serving
  <2>7. ClientInv'
    <3>1. base' \in 1..Len(cstack') => cstack'[base'].kind = "penn"
      BY <1>1, <2>1, <2>3, <2>4 DEF PennTurn, AtTopLevel, Serving, Last
    <3> QED
      BY <2>1, <2>3, <2>6, <3>1 DEF ClientInv
  <2>8. ToSet(toRuby') = {m} /\ Len(toRuby') = 1 /\ Acks' = 0
    <3>1. <<m>> = Append(<<>>, m) /\ <<>> \in Seq(Message)
      OBVIOUS
    <3>2. /\ Count(<<m>>, {"ack"}) = Count(<<>>, {"ack"}) + One(m.type \in {"ack"})
          /\ ToSet(<<m>>) = ToSet(<<>>) \cup {m}
      BY <2>5, <3>1, CountAppend
    <3>3. One(m.type \in {"ack"}) = 0
      BY <2>5 DEF One
    <3>4. Count(<<m>>, {"ack"}) = 0 /\ ToSet(<<m>>) = {m}
      BY <3>2, <3>3, CountEmpty
    <3> QED
      BY <2>1, <3>4 DEF Acks, Count
  <2>9. SizeInv'
    BY <2>1, <2>2, <2>3, <2>4, <2>5, <2>6, <2>8, FreshRuby DEF SizeInv
  <2>10. ShownInv'
    BY <2>1, <2>6, FreshRuby DEF ShownInv
  <2>11. TurnInv'
    BY <2>1, <2>6, <2>8, FreshRuby DEF TurnInv, One
  <2>12. NoteInv'
    <3>1. Callbacks(rstack)' = 0
      BY <2>1, FreshRuby DEF Callbacks
    <3> QED
      BY <2>1, <2>8, <3>1 DEF NoteInv, One
  <2> QED
    BY <1>3, <2>1, <2>7, <2>9, <2>10, <2>11, <2>12, FreshRuby, NestNext
<1>5. CASE AdminStart
  <2>1. /\ fd' # 0 /\ peer' = "open" /\ toRuby' = <<>>
        /\ encoder' /\ ~soliciting' /\ base' = Len(cstack)
        /\ rstack' = <<>> /\ ~rsoliciting'
        /\ ToSet(Unread') = {} /\ Due' = 0 /\ Reqs' = 0
    BY <1>2, <1>5 DEF AdminStart
  <2>2. cstack' = cstack /\ cstack = <<>> /\ depth' = 0
    BY <1>5 DEF AdminStart, TopLevelSoftcode, AtTopLevel
  <2>3. Ours' = 0 /\ PennTurn' /\ base' = 0 /\ Len(cstack') = 0
    BY <2>1, <2>2 DEF Ours, PennTurn, AtTopLevel
  <2>4. ClientInv'
    BY <2>1, <2>2, <2>3 DEF ClientInv
  <2>5. ToSet(toRuby') = {} /\ Len(toRuby') = 0 /\ Acks' = 0
    BY <2>1, NonePosted
  <2>6. SizeInv' /\ ShownInv'
    BY <2>1, <2>3, <2>5, FreshRuby DEF SizeInv, ShownInv
  <2>7. TurnInv'
    BY <2>1, <2>3, <2>5, FreshRuby DEF TurnInv, One
  <2>8. NoteInv'
    <3>1. Callbacks(rstack)' = 0
      BY <2>1, FreshRuby DEF Callbacks
    <3> QED
      BY <2>1, <2>5, <3>1 DEF NoteInv, One
  <2> QED
    BY <1>3, <2>1, <2>4, <2>6, <2>7, <2>8, FreshRuby, NestNext
<1> QED
  BY <1>4, <1>5

(* What a step of PennMUSH that keeps the connection leaves alone.         *)
RubyStands ==
  /\ fd' = fd /\ peer' = peer /\ fd # 0
  /\ rstack' = rstack /\ rsoliciting' = rsoliciting /\ rcontext' = rcontext
  /\ queue' = queue /\ base' = base /\ encoder' = encoder

(* Then Ruby's side of the invariant stands.                               *)
LEMMA Stands ==
  ASSUME TypeOK, NestInv, RubyStands
  PROVE  /\ RubyShape(rstack') /\ Theirs' = Theirs /\ (Executing' <=> Executing)
         /\ Callbacks(rstack)' = Callbacks(rstack)
         /\ Connected' <=> Connected
         /\ Connected => Connected' /\ EndInv'
         /\ One(rsoliciting') = One(rsoliciting) /\ One(Executing') = One(Executing)
         /\ rstack \in Seq(RFrame)
<1>1. /\ RubyShape(rstack') /\ Theirs' = Theirs /\ (Executing' <=> Executing)
      /\ Callbacks(rstack)' = Callbacks(rstack) /\ (Connected' <=> Connected)
      /\ rstack \in Seq(RFrame)
  BY DEF NestInv, RubyStands, Theirs, Executing, Callbacks, Connected, TypeOK,
         ConversationTypeOK
<1>2. Connected => EndInv'
  BY <1>1 DEF NestInv, RubyStands, EndInv
<1>3. One(rsoliciting') = One(rsoliciting) /\ One(Executing') = One(Executing)
  BY <1>1 DEF One, RubyStands
<1> QED
  BY <1>1, <1>2, <1>3

(* rpc() hands the turn to Ruby.                                           *)
LEMMA RpcNest ==
  ASSUME TypeOK, NestInv, RubyStands, NEW p \in Player, Rpc(p)
  PROVE  NestInv'
<1> DEFINE m == Call(calls + 1, p)
<1>1. /\ cstack \in Seq(CFrame) /\ current \in Context /\ calls \in Nat
      /\ rstack \in Seq(RFrame)
  BY DEF TypeOK, ClientTypeOK, ConversationTypeOK
<1>2. /\ Connected /\ PennTurn /\ toRuby' = Append(toRuby, m)
      /\ cstack' = Append(cstack, RpcFrame) /\ current' = p /\ depth' = depth + 1
      /\ UNCHANGED <<inbuf, toPenn, soliciting>>
  BY DEF Rpc, SendToRuby, EnterRpc, MayCall, TopLevelSoftcode, PennTurn
<1>3. toRuby = <<>> /\ Due = 0 /\ ~Executing /\ Ours = Theirs /\ Acks = 0
  BY <1>2, PennsTurn
<1>4. /\ RpcFrame \in CFrame /\ RpcFrame.kind = "rpc" /\ RpcFrame.id = calls + 1
      /\ RpcFrame.saved = current
  BY <1>1 DEF RpcFrame, CFrame
<1>5. m \in Message /\ m.type = "call" /\ m.id = calls + 1 /\ m.ctx = p
  BY <1>1, MessageTypes DEF Call, Context
<1> HIDE DEF m
<1>6. /\ Len(cstack') = Len(cstack) + 1 /\ Last(cstack') = RpcFrame
      /\ cstack' # <<>> /\ \A i \in 1..Len(cstack) : cstack'[i] = cstack[i]
      /\ Len(cstack) \in Nat
  BY <1>1, <1>2, <1>4, Pushed
<1>7. /\ Unread' = Unread /\ Due' = 0 /\ Reqs' = Reqs
      /\ ToSet(toRuby') = {m} /\ Len(toRuby') = 1 /\ Acks' = 0
  <2>1. Unread' = Unread /\ Due' = Due /\ Reqs' = Reqs
    BY <1>2, Silent
  <2>2. /\ ToSet(toRuby') = {m} /\ Len(toRuby') = 1
        /\ Acks' = One(m.type = "ack")
    BY <1>2, <1>3, <1>5, Posts
  <2> QED
    BY <1>3, <1>5, <2>1, <2>2 DEF One
<1>8. /\ base \in Nat /\ base' = base /\ Theirs \in Nat /\ Theirs' = Theirs
      /\ Ours' = Ours + 1 /\ ~PennTurn' /\ ~Executing' /\ fd' # 0 /\ encoder' = encoder
  BY <1>3, <1>4, <1>6, Sizes, Stands
  DEF RubyStands, Ours, PennTurn, AtTopLevel, Serving
<1>9. \A x \in ToSet(Unread) : x.type \notin Answers
  BY <1>3, Sizes
<1>10. ClientInv'
  <2>1. ClientInv /\ fd # 0
    BY DEF NestInv, RubyStands
  <2>2. (base \in 1..Len(cstack) /\ cstack'[base] = cstack[base]) \/ base = 0
    BY <1>3, <1>6, <1>8 DEF Ours
  <2>3. \A x \in ToSet(Unread') : x.type # "reply"
    BY <1>7, <1>9 DEF Answers
  <2>4. Ours' >= -1 /\ Ours' # -1 /\ depth' = Ours' /\ encoder'
    BY <1>2, <1>3, <1>8, <2>1 DEF ClientInv
  <2>5. base' \in 1..Len(cstack') => cstack'[base'].kind = "penn"
    BY <1>8, <2>1, <2>2 DEF ClientInv
  <2> QED
    BY <1>7, <1>8, <2>3, <2>4, <2>5 DEF ClientInv
<1>11. Paired(cstack', base', rstack')
  <2>1. Paired(cstack, base, rstack) /\ Len(cstack) - base >= Len(rstack)
    BY <1>2, <1>3, <1>8 DEF NestInv, LinkInv, Ours, Theirs
  <2>2. Paired(Append(cstack, RpcFrame), base, rstack)
    BY <1>1, <1>4, <1>8, <2>1, PairedPush
  <2> QED
    BY <1>2, <2>2 DEF RubyStands
<1>12. SizeInv'
  <2>1. \A x \in ToSet(Unread') : x.type # "ack" /\ x.type # "call" /\ x.type # "reply"
    BY <1>2, <1>7, <1>9 DEF Answers, NestInv, LinkInv, SizeInv
  <2>2. \A x \in ToSet(toRuby') : x = m
    BY <1>7
  <2> QED
    BY <1>2, <1>3, <1>4, <1>5, <1>6, <1>8, <2>1, <2>2 DEF SizeInv
<1>13. ShownInv'
  <2>1. ShownInv
    BY <1>2 DEF NestInv, LinkInv
  <2> QED
    BY <1>3, <1>4, <1>6, <1>8, <2>1 DEF ShownInv, RubyStands
<1>14. TurnInv'
  BY <1>7, <1>8 DEF TurnInv, One
<1>15. NoteInv'
  <2>1. NoteInv /\ soliciting' = soliciting /\ rsoliciting' = rsoliciting /\ queue' = queue
    BY <1>2 DEF NestInv, LinkInv, RubyStands
  <2> QED
    BY <1>3, <1>7, <2>1, Stands DEF NoteInv
<1> QED
  BY <1>2, <1>10, <1>11, <1>12, <1>13, <1>14, <1>15, Stands, NestNext


(* A call of PennMUSH that waits is not the frame the process was launched *)
(* under.                                                                  *)
LEMMA WaitsInside ==
  ASSUME TypeOK, NestInv, fd # 0, Awaiting
  PROVE  Ours # 0 /\ Ours >= -1
<1>1. Len(cstack) \in Nat \ {0} /\ base \in Nat
  BY Sizes DEF Awaiting
<1>2. ClientInv
  BY DEF NestInv
<1>3. ASSUME Ours = 0 PROVE FALSE
  <2>1. base = Len(cstack) /\ base \in 1..Len(cstack)
    BY <1>1, <1>3 DEF Ours
  <2>2. Last(cstack).kind = "penn"
    BY <1>2, <2>1 DEF ClientInv, Last
  <2> QED
    BY <2>2 DEF Awaiting
<1> QED
  BY <1>2, <1>3 DEF ClientInv

(* A call of Ruby's is served, in the context Ruby shows.                  *)
LEMMA CallNest ==
  ASSUME TypeOK, NestInv, RubyStands, DispatchCall
  PROVE  NestInv'
<1> DEFINE f == [kind |-> "penn", id |-> Incoming.id, saved |-> current]
<1>1. /\ cstack \in Seq(CFrame) /\ current \in Context /\ rstack \in Seq(RFrame)
      /\ fd # 0 /\ ClientInv
  BY DEF TypeOK, ClientTypeOK, ConversationTypeOK, NestInv, RubyStands
<1>2. /\ Awaiting /\ Incoming.type = "call" /\ Receive
      /\ cstack' = Append(cstack, f) /\ current' = current /\ depth' = depth + 1
      /\ toRuby' = toRuby /\ soliciting' = soliciting
  BY DEF DispatchCall
<1>3. /\ Incoming \in ToSet(Unread) /\ Incoming \in Message
      /\ ToSet(Unread') \subseteq ToSet(Unread)
      /\ Due = Due' + One(Incoming.type \in Answers)
      /\ Reqs = Reqs' + One(Incoming.type = "req")
      /\ Due' \in Nat /\ Reqs' \in Nat
      /\ Due' = 0 => \A x \in ToSet(Unread') : x.type \notin Answers
  BY <1>2, Reads
<1>4. f \in CFrame /\ f.kind = "penn" /\ f.id = Incoming.id
  BY <1>1, <1>3 DEF Message, CFrame
<1> HIDE DEF f
<1>5. Incoming.type \in Answers /\ Due' = 0 /\ Reqs' = Reqs /\ Due = 1
  BY <1>1, <1>2, <1>3 DEF Answers, One, ClientInv
<1>6. /\ Len(cstack') = Len(cstack) + 1 /\ Last(cstack') = f
      /\ cstack' # <<>> /\ \A i \in 1..Len(cstack) : cstack'[i] = cstack[i]
      /\ Len(cstack) \in Nat
  BY <1>1, <1>2, <1>4, Pushed
<1>7. Ours \in Int /\ Ours > 0 /\ base \in Nat /\ Theirs \in Nat
  BY <1>1, <1>2, <1>5, WaitsInside, Sizes DEF ClientInv, Ours
<1>8. /\ base' = base /\ Theirs' = Theirs /\ Ours' = Ours + 1
      /\ PennTurn' /\ encoder' = encoder
  BY <1>4, <1>6, <1>7, Stands DEF RubyStands, Ours, PennTurn, Serving
<1>9. \A x \in ToSet(Unread') : x.type # "reply" /\ x.type # "call"
  BY <1>3, <1>5 DEF Answers
<1>10. ClientInv'
  <2>1. base \in 1..Len(cstack) => cstack'[base] = cstack[base]
    BY <1>6
  <2>2. base' \in 1..Len(cstack') => cstack'[base'].kind = "penn"
    BY <1>1, <1>6, <1>7, <1>8, <2>1 DEF ClientInv, Ours
  <2>3. depth' = Ours' /\ encoder' /\ Ours' >= -1 /\ Ours' # -1
    BY <1>1, <1>2, <1>7, <1>8 DEF ClientInv
  <2> QED
    BY <1>5, <1>9, <2>2, <2>3 DEF ClientInv
<1>11. CASE Connected
  <2>1. /\ ~Executing /\ toRuby = <<>> /\ Theirs = Ours + 1 /\ rstack # <<>>
        /\ Incoming.id = Last(rstack).id /\ LinkInv /\ Acks = 0
    BY <1>2, <1>3, <1>5, <1>11, ForPenn DEF NestInv, LinkInv, SizeInv
  <2>2. Paired(cstack', base', rstack')
    <3>1. Last(rstack).kind = "invoke"
      BY <2>1, PennWaits DEF Invoking
    <3>2. Paired(cstack, base, rstack) /\ Len(rstack) = Len(cstack) - base + 1
      BY <2>1 DEF LinkInv, Ours, Theirs
    <3>3. Len(cstack) - base >= -1 /\ f.id = Last(rstack).id
      BY <1>4, <1>7, <2>1 DEF Ours
    <3>4. Paired(Append(cstack, f), base, rstack)
      BY <1>1, <1>4, <1>7, <3>1, <3>2, <3>3, PairedPush
    <3> QED
      BY <1>2, <3>4 DEF RubyStands
  <2>3. ToSet(toRuby') = {} /\ Len(toRuby') = 0 /\ Acks' = 0 /\ ~Executing'
    BY <1>2, <2>1, NonePosted, Stands
  <2>4. SizeInv'
    <3>1. \A x \in ToSet(Unread') : x.type # "ack"
      BY <1>3, <2>1 DEF LinkInv, SizeInv
    <3> QED
      BY <1>8, <1>9, <2>1, <2>3, <3>1 DEF SizeInv
  <2>5. ShownInv'
    BY <1>2, <1>7, <1>8, <2>1 DEF LinkInv, ShownInv, RubyStands
  <2>6. TurnInv'
    BY <1>5, <1>8, <2>3 DEF TurnInv, One
  <2>7. NoteInv'
    BY <1>2, <1>5, <2>1, <2>3, Stands DEF LinkInv, NoteInv, RubyStands
  <2> QED
    BY <1>10, <1>11, <2>2, <2>4, <2>5, <2>6, <2>7, Stands, NestNext
<1>12. CASE ~Connected
  BY <1>1, <1>2, <1>10, <1>12, Stands, NestNext
  DEF NestInv, EndInv, RubyStands
<1> QED
  BY <1>11, <1>12

(* A request that is refused is answered at once: it is a call, since no   *)
(* second solicitation comes while one is pending.                         *)
LEMMA RefusedNest ==
  ASSUME TypeOK, NestInv, RubyStands, DispatchRefused
  PROVE  NestInv'
<1> DEFINE m == Reply(Incoming.id)
<1>1. /\ Connected /\ ClientInv /\ LinkInv /\ Awaiting /\ Receive
      /\ toRuby' = Append(toRuby, m)
      /\ UNCHANGED <<cstack, current, depth, soliciting>>
  BY DEF DispatchRefused, NestInv, RubyStands, Connected
<1>2. /\ Incoming \in ToSet(Unread) /\ Incoming \in Message
      /\ ToSet(Unread') \subseteq ToSet(Unread)
      /\ Due = Due' + One(Incoming.type \in Answers)
      /\ Reqs = Reqs' + One(Incoming.type = "req")
      /\ Due' \in Nat /\ Reqs' \in Nat
      /\ Due' = 0 => \A x \in ToSet(Unread') : x.type \notin Answers
  BY <1>1, Reads
<1>3. Incoming.type = "call"
  <2>1. ASSUME Incoming.type = "req", soliciting PROVE FALSE
    <3> DEFINE n == Callbacks(rstack)
    <3>1. Acks \in Nat /\ n \in Nat
      <4>1. rstack \in Seq(RFrame) /\ RubyShape(rstack)
        BY DEF TypeOK, ConversationTypeOK, NestInv
      <4>2. n = One(rstack # <<>> /\ rstack[1].kind = "callback")
        BY <4>1, CallbackCount
      <4>3. One(rstack # <<>> /\ rstack[1].kind = "callback") \in Nat
        BY DEF One
      <4> QED
        BY <4>2, <4>3, Sizes
    <3>2. One(soliciting) = 1 /\ One(Incoming.type = "req") = 1 /\ One(rsoliciting) \in {0, 1}
      BY <2>1 DEF One
    <3>3. One(rsoliciting) = Reqs + One(soliciting) + Acks + n
      BY <1>1 DEF LinkInv, NoteInv
    <3> HIDE DEF n
    <3>4. Reqs \in Nat /\ Reqs # 0
      BY <1>2, <3>2, Sizes
    <3>5. Reqs + 1 + Acks + n \in {0, 1}
      BY <3>2, <3>3
    <3> QED
      BY <3>1, <3>4, <3>5
  <2> QED
    BY <2>1 DEF DispatchRefused, Refusable
<1>4. Incoming.type \in Answers /\ Due' = 0 /\ Reqs' = Reqs /\ Due = 1
  <2>1. Incoming.type \in Answers
    BY <1>3 DEF Answers
  <2>2. One(Incoming.type \in Answers) = 1 /\ One(Incoming.type = "req") = 0
    BY <1>3, <2>1 DEF One
  <2>3. Due = 1
    BY <1>1, <1>2, <2>1, ForPenn
  <2> QED
    BY <1>2, <2>1, <2>2, <2>3
<1>5. /\ ~Executing /\ toRuby = <<>> /\ Theirs = Ours + 1 /\ rstack # <<>>
      /\ Incoming.id = Last(rstack).id /\ Acks = 0 /\ ~PennTurn
  BY <1>1, <1>2, <1>3, <1>4, ForPenn DEF LinkInv, SizeInv
<1>6. m \in Message /\ m.type = "reply" /\ m.id = Incoming.id
  BY <1>2 DEF Reply, Message, Context
<1> HIDE DEF m
<1>7. ToSet(toRuby') = {m} /\ Len(toRuby') = 1 /\ Acks' = 0
  <2>1. ToSet(toRuby') = {m} /\ Len(toRuby') = 1 /\ Acks' = One(m.type = "ack")
    BY <1>1, <1>5, <1>6, Posts
  <2> QED
    BY <1>6, <2>1 DEF One
<1>8. /\ Ours' = Ours /\ Theirs' = Theirs /\ ~PennTurn' /\ ~Executing'
  BY <1>1, <1>5, Stands DEF RubyStands, Ours, PennTurn, AtTopLevel, Serving
<1>9. \A x \in ToSet(Unread') : x.type # "reply" /\ x.type # "call" /\ x.type # "ack"
  BY <1>1, <1>2, <1>4 DEF Answers, LinkInv, SizeInv
<1>10. ClientInv'
  BY <1>1, <1>4, <1>8, <1>9 DEF ClientInv, RubyStands
<1>11. Paired(cstack', base', rstack')
  BY <1>1 DEF LinkInv, RubyStands
<1>12. SizeInv'
  <2>1. rstack' = rstack
    BY DEF RubyStands
  <2>2. \A x \in ToSet(toRuby') : x = m
    BY <1>7
  <2> QED
    BY <1>5, <1>6, <1>8, <1>9, <2>1, <2>2 DEF SizeInv
<1>13. ShownInv'
  BY <1>1, <1>8 DEF LinkInv, ShownInv, RubyStands
<1>14. TurnInv'
  BY <1>4, <1>7, <1>8 DEF TurnInv, One
<1>15. NoteInv'
  BY <1>1, <1>4, <1>5, <1>7, Stands DEF LinkInv, NoteInv, RubyStands
<1> QED
  BY <1>1, <1>10, <1>11, <1>12, <1>13, <1>14, <1>15, Stands, NestNext

(* A solicitation is noted, and the turn stays where it is.                *)
LEMMA SolicitNest ==
  ASSUME TypeOK, NestInv, RubyStands, DispatchSolicit \/ IsSetFdSolicit
  PROVE  NestInv'
<1>1. /\ Receive /\ Incoming.type = "req" /\ ~soliciting /\ soliciting'
      /\ UNCHANGED <<toRuby, cstack, current, depth>>
  BY DEF DispatchSolicit, IsSetFdSolicit, Solicits
<1>2. /\ ToSet(Unread') \subseteq ToSet(Unread)
      /\ Due = Due' + One(Incoming.type \in Answers)
      /\ Reqs = Reqs' + One(Incoming.type = "req")
      /\ Due' \in Nat /\ Reqs' \in Nat
  BY <1>1, Reads
<1>3. Due' = Due /\ Reqs = Reqs' + 1
  <2>1. One(Incoming.type \in Answers) = 0 /\ One(Incoming.type = "req") = 1
    BY <1>1 DEF One, Answers
  <2> QED
    BY <1>2, <2>1
<1>4. /\ Ours' = Ours /\ Theirs' = Theirs /\ (PennTurn' <=> PennTurn)
      /\ (Executing' <=> Executing) /\ Acks' = Acks
  BY <1>1, Stands
  DEF RubyStands, Ours, PennTurn, AtTopLevel, Serving, Acks, Count
<1>5. ClientInv'
  BY <1>1, <1>2, <1>3, <1>4 DEF NestInv, ClientInv, RubyStands
<1>6. CASE Connected
  <2>1. LinkInv
    BY <1>6 DEF NestInv
  <2>2. Paired(cstack', base', rstack')
    BY <1>1, <2>1 DEF LinkInv, RubyStands
  <2>3. SizeInv'
    BY <1>1, <1>2, <1>4, <2>1 DEF LinkInv, SizeInv, RubyStands
  <2>4. ShownInv'
    BY <1>1, <1>4, <2>1 DEF LinkInv, ShownInv, RubyStands
  <2>5. TurnInv'
    <3>1. One(PennTurn') = One(PennTurn) /\ One(Executing') = One(Executing)
      BY <1>4 DEF One
    <3> QED
      BY <1>1, <1>3, <2>1, <3>1 DEF LinkInv, TurnInv
  <2>6. NoteInv'
    <3> DEFINE n == Callbacks(rstack)  r == One(rsoliciting)
    <3>1. r = Reqs + One(soliciting) + Acks + n
      BY <2>1 DEF LinkInv, NoteInv
    <3>2. One(soliciting) = 0 /\ One(soliciting') = 1
      BY <1>1 DEF One
    <3>3. One(rsoliciting') = r /\ Callbacks(rstack)' = n
      BY Stands
    <3> HIDE DEF n, r
    <3>4. r = Reqs + 0 + Acks + n
      BY <3>1, <3>2
    <3>5. r = Reqs' + 1 + Acks' + n
      BY <1>2, <1>3, <1>4, <3>4, Sizes
    <3>6. One(rsoliciting)' = Reqs' + One(soliciting)' + Acks' + Callbacks(rstack)'
      BY <3>2, <3>3, <3>5
    <3>7. rsoliciting' /\ Callbacks(rstack)' = 0 => queue' # <<>>
      BY <2>1, Stands DEF LinkInv, NoteInv, RubyStands
    <3> QED
      BY <3>6, <3>7 DEF NoteInv
  <2> QED
    BY <1>5, <1>6, <2>2, <2>3, <2>4, <2>5, <2>6, Stands, NestNext
<1>7. CASE ~Connected
  BY <1>1, <1>5, <1>7, Stands, NestNext DEF NestInv, EndInv, RubyStands
<1> QED
  BY <1>6, <1>7


(* An answer of Ruby's ends the call it answers, and softcode goes on in   *)
(* the context Ruby shows.                                                 *)
LEMMA AnswerNest ==
  ASSUME TypeOK, StackShape, NestInv, RubyStands, DispatchReply
  PROVE  NestInv'
<1>1. /\ cstack \in Seq(CFrame) /\ current \in Context /\ rstack \in Seq(RFrame)
      /\ fd # 0 /\ ClientInv
  BY DEF TypeOK, ClientTypeOK, ConversationTypeOK, NestInv, RubyStands
<1>2. /\ Awaiting /\ Incoming.type = "reply" /\ Receive
      /\ cstack' = Front(cstack) /\ depth' = depth - 1
      /\ toRuby' = toRuby /\ soliciting' = soliciting
      /\ Last(cstack).kind = "rpc" => current' = Last(cstack).saved
  BY DEF DispatchReply
<1>3. /\ Incoming \in ToSet(Unread)
      /\ ToSet(Unread') \subseteq ToSet(Unread)
      /\ Due = Due' + One(Incoming.type \in Answers)
      /\ Reqs = Reqs' + One(Incoming.type = "req")
      /\ Due' \in Nat /\ Reqs' \in Nat
      /\ Due' = 0 => \A x \in ToSet(Unread') : x.type \notin Answers
  BY <1>2, Reads
<1>4. Incoming.type \in Answers /\ Due' = 0 /\ Reqs' = Reqs /\ Due = 1
  <2>1. Incoming.type \in Answers
    BY <1>2 DEF Answers
  <2>2. One(Incoming.type \in Answers) = 1 /\ One(Incoming.type = "req") = 0
    BY <1>2, <2>1 DEF One
  <2>3. Due' + 1 = Due /\ Due <= 1 /\ Reqs' + 0 = Reqs
    BY <1>1, <1>3, <2>2 DEF ClientInv
  <2> QED
    BY <1>3, <2>1, <2>3, Sizes
<1>5. Ours \in Int /\ Ours > 0 /\ base \in Nat /\ Theirs \in Nat /\ Len(cstack) \in Nat
  BY <1>1, <1>2, <1>4, WaitsInside, Sizes DEF ClientInv, Ours
<1>6. /\ Len(cstack') = Len(cstack) - 1 /\ cstack # <<>>
      /\ \A i \in 1..(Len(cstack) - 1) : cstack'[i] = cstack[i]
  BY <1>1, <1>2, PopType DEF Awaiting
<1>7. PennTurn'
  <2>1. Front(cstack) = <<>> \/ Last(Front(cstack)).kind = "penn"
    BY <1>1, <1>2, <1>6, Beneath DEF StackShape, Awaiting
  <2> QED
    BY <1>2, <2>1 DEF PennTurn, AtTopLevel, Serving
<1>8. /\ base' = base /\ Theirs' = Theirs /\ Ours' = Ours - 1 /\ encoder' = encoder
  BY <1>5, <1>6, Stands DEF RubyStands, Ours
<1>9. \A x \in ToSet(Unread') : x.type # "reply" /\ x.type # "call"
  BY <1>3, <1>4 DEF Answers
<1>10. ClientInv'
  <2>1. base' \in 1..Len(cstack') => cstack'[base'].kind = "penn"
    BY <1>1, <1>5, <1>6, <1>8 DEF ClientInv
  <2>2. depth' = Ours' /\ encoder' /\ Ours' >= -1 /\ Ours' # -1
    BY <1>1, <1>2, <1>5, <1>8 DEF ClientInv
  <2> QED
    BY <1>4, <1>9, <2>1, <2>2 DEF ClientInv
<1>11. CASE Connected
  <2>1. /\ ~Executing /\ toRuby = <<>> /\ Ours = Theirs + 1 /\ LinkInv /\ Acks = 0
    BY <1>2, <1>3, <1>4, <1>11, ForPenn DEF NestInv, LinkInv, SizeInv
  <2>2. Paired(cstack', base', rstack')
    <3>1. Len(rstack) \in Nat /\ Paired(cstack, base, rstack)
      BY <1>5, <2>1 DEF Theirs, LinkInv
    <3>2. Paired(Front(cstack), base, rstack)
      BY <1>1, <1>5, <1>6, <3>1, PairedPop
    <3> QED
      BY <1>2, <3>2 DEF RubyStands
  <2>3. ToSet(toRuby') = {} /\ Len(toRuby') = 0 /\ Acks' = 0 /\ ~Executing'
    BY <1>2, <2>1, NonePosted, Stands
  <2>4. SizeInv'
    <3>1. \A x \in ToSet(Unread') : x.type # "ack"
      BY <1>3, <2>1 DEF LinkInv, SizeInv
    <3> QED
      BY <1>5, <1>8, <1>9, <2>1, <2>3, <3>1 DEF SizeInv
  <2>5. ShownInv'
    <3>1. ASSUME Ours > 1 PROVE current' = rcontext
      <4>1. Last(cstack) = cstack[Len(cstack)] /\ Len(cstack) \in 1..Len(cstack)
            /\ Len(cstack) # 1
        BY <1>5, <3>1 DEF Last, Ours
      <4>2. Last(cstack).kind = "rpc"
        BY <1>2, <4>1 DEF StackShape, Shape, Awaiting
      <4> QED
        BY <1>2, <2>1, <3>1, <4>2 DEF LinkInv, ShownInv
    <3> QED
      BY <1>5, <1>8, <2>1, <3>1 DEF ShownInv, RubyStands
  <2>6. TurnInv'
    BY <1>4, <1>7, <2>3 DEF TurnInv, One
  <2>7. NoteInv'
    BY <1>2, <1>4, <2>1, <2>3, Stands DEF LinkInv, NoteInv, RubyStands
  <2> QED
    BY <1>10, <1>11, <2>2, <2>4, <2>5, <2>6, <2>7, Stands, NestNext
<1>12. CASE ~Connected
  <2>1. peer' = peer /\ fd' # 0 /\ toRuby' = toRuby /\ rstack' = rstack
    BY <1>1, <1>2 DEF RubyStands
  <2> QED
    BY <1>10, <1>12, <2>1, Stands, NestNext DEF NestInv, EndInv
<1> QED
  BY <1>11, <1>12

(* The answer of a function is the answer to Ruby's innermost call, if the *)
(* process still is the one that called.                                   *)
LEMMA FunctionNest ==
  ASSUME TypeOK, StackShape, NestInv, RubyStands, PennReply
  PROVE  NestInv'
<1> DEFINE m == Reply(Last(cstack).id)
<1>1. /\ cstack \in Seq(CFrame) /\ current \in Context /\ rstack \in Seq(RFrame)
      /\ Connected /\ ClientInv /\ LinkInv
  BY DEF TypeOK, ClientTypeOK, ConversationTypeOK, NestInv, RubyStands, PennReply,
         Connected
<1>2. /\ Serving /\ PennTurn /\ toRuby' = Append(toRuby, m)
      /\ cstack' = Front(cstack) /\ depth' = depth - 1
      /\ UNCHANGED <<inbuf, toPenn, current, soliciting>>
  BY DEF PennReply, SendToRuby, PennTurn
<1>3. toRuby = <<>> /\ Due = 0 /\ ~Executing /\ Ours = Theirs /\ Acks = 0
  BY <1>1, <1>2, PennsTurn
<1>4. /\ Len(cstack') = Len(cstack) - 1 /\ cstack # <<>> /\ Last(cstack) \in CFrame
      /\ \A i \in 1..(Len(cstack) - 1) : cstack'[i] = cstack[i]
      /\ Len(cstack) \in Nat \ {0} /\ Last(cstack) = cstack[Len(cstack)]
  BY <1>1, <1>2, PopType DEF Serving, Last
<1>5. m \in Message /\ m.type = "reply" /\ m.id = Last(cstack).id
  BY <1>4 DEF CFrame, Reply, Message, Context
<1> HIDE DEF m
<1>6. ~PennTurn'
  <2>1. Front(cstack) # <<>> /\ Last(Front(cstack)).kind # "penn"
    BY <1>1, <1>2, <1>4, Beneath DEF StackShape, Serving
  <2> QED
    BY <1>2, <2>1 DEF PennTurn, AtTopLevel, Serving
<1>7. /\ Unread' = Unread /\ Due' = 0 /\ Reqs' = Reqs
      /\ ToSet(toRuby') = {m} /\ Len(toRuby') = 1 /\ Acks' = 0
  <2>1. Unread' = Unread /\ Due' = Due /\ Reqs' = Reqs
    BY <1>2, Silent
  <2>2. /\ ToSet(toRuby') = {m} /\ Len(toRuby') = 1
        /\ Acks' = One(m.type = "ack")
    BY <1>2, <1>3, <1>5, Posts
  <2> QED
    BY <1>3, <1>5, <2>1, <2>2 DEF One
<1>8. /\ Ours \in Int /\ base \in Nat /\ Theirs \in Nat
      /\ base' = base /\ Theirs' = Theirs /\ Ours' = Ours - 1
      /\ ~Executing' /\ encoder' = encoder /\ rstack' = rstack /\ fd # 0
  BY <1>3, <1>4, Sizes, Stands DEF RubyStands, Ours
<1>9. \A x \in ToSet(Unread') : x.type # "reply" /\ x.type # "call" /\ x.type # "ack"
  <2>1. \A x \in ToSet(Unread) : x.type \notin Answers
    BY <1>3, Sizes
  <2> QED
    BY <1>1, <1>7, <2>1 DEF Answers, LinkInv, SizeInv
<1>10. ClientInv'
  <2>1. base' \in 1..Len(cstack') => cstack'[base'].kind = "penn"
    BY <1>1, <1>4, <1>8 DEF ClientInv
  <2>2. depth' = Ours' /\ encoder' /\ Ours' >= -1
    BY <1>1, <1>2, <1>3, <1>8 DEF ClientInv
  <2> QED
    BY <1>6, <1>7, <1>9, <2>1, <2>2 DEF ClientInv
<1>11. Paired(cstack', base', rstack')
  <2>1. Len(rstack) \in Nat /\ Paired(cstack, base, rstack)
    BY <1>1, <1>8 DEF Theirs, LinkInv
  <2>2. Paired(Front(cstack), base, rstack)
    BY <1>1, <1>4, <1>8, <2>1, PairedPop
  <2> QED
    BY <1>2, <1>8, <2>2
<1>12. SizeInv'
  <2>1. ASSUME rstack # <<>> PROVE m.id = Last(rstack).id
    <3>1. Len(rstack) \in 1..Len(rstack) /\ Len(rstack) <= Len(cstack) - base
          /\ base + Len(rstack) = Len(cstack)
      BY <1>3, <1>4, <1>8, <2>1, Sizes DEF Ours, Theirs
    <3>2. Matches(cstack[base + Len(rstack)], rstack[Len(rstack)])
      BY <1>1, <3>1 DEF LinkInv, Paired
    <3> QED
      BY <1>4, <1>5, <3>1, <3>2 DEF Matches, Last
  <2>2. \A x \in ToSet(toRuby') : x = m
    BY <1>7
  <2> QED
    BY <1>3, <1>5, <1>6, <1>8, <1>9, <2>1, <2>2 DEF SizeInv
<1>13. ShownInv'
  <2>1. ShownInv
    BY <1>1 DEF LinkInv
  <2> QED
    BY <1>2, <1>3, <1>8, <2>1 DEF ShownInv, RubyStands
<1>14. TurnInv'
  BY <1>6, <1>7, <1>8 DEF TurnInv, One
<1>15. NoteInv'
  BY <1>1, <1>2, <1>3, <1>7, Stands DEF LinkInv, NoteInv, RubyStands
<1> QED
  BY <1>1, <1>10, <1>11, <1>12, <1>13, <1>14, <1>15, Stands, NestNext

(* The transaction of a callback begins, with no other call open.          *)
LEMMA CallbackNest ==
  ASSUME TypeOK, NestInv, RubyStands, SetFdCallback
  PROVE  NestInv'
<1> DEFINE m == Ack(God)
           f == [kind |-> "ack", id |-> 0, saved |-> current]
<1>1. Connected /\ ClientInv /\ LinkInv /\ PennTurn /\ cstack = <<>>
  BY DEF NestInv, RubyStands, SetFdCallback, Connected, AtTopLevel, PennTurn
<1>2. /\ toRuby' = Append(toRuby, m) /\ cstack' = <<f>> /\ depth' = depth + 1
      /\ current' = God /\ ~soliciting' /\ toPenn' = toPenn
  BY DEF SetFdCallback, SendToRuby
<1>3. toRuby = <<>> /\ Due = 0 /\ ~Executing /\ Ours = Theirs /\ Acks = 0
  BY <1>1, PennsTurn
<1>4. Ours = 0 /\ base = 0 /\ Theirs = 0 /\ rstack = <<>> /\ base' = 0
      /\ rstack' = <<>> /\ fd # 0
  BY <1>1, <1>3, Sizes DEF Ours, Theirs, RubyStands
<1>5. m \in Message /\ m.type = "ack" /\ m.id = 0 /\ m.ctx = God
  BY DEF Ack, Message, Context
<1>6. /\ Len(cstack') = 1 /\ Last(cstack') = f /\ cstack' # <<>>
      /\ f.kind = "ack" /\ f.id = 0
  BY <1>2 DEF Last
<1> HIDE DEF m, f
<1>7. Ours' = 1 /\ Theirs' = 0 /\ ~PennTurn' /\ ~Executing'
  BY <1>4, <1>6, FreshRuby DEF Ours, PennTurn, AtTopLevel, Serving
<1>8. ToSet(toRuby') = {m} /\ Len(toRuby') = 1 /\ Acks' = 1
  <2>1. ToSet(toRuby') = {m} /\ Len(toRuby') = 1 /\ Acks' = One(m.type = "ack")
    BY <1>2, <1>3, <1>5, Posts
  <2> QED
    BY <1>5, <2>1 DEF One
<1>9. /\ ToSet(Unread') \subseteq ToSet(Unread) /\ Due' = 0
      /\ Reqs + One(soliciting) = Reqs' + 1
  <2>1. CASE inbuf # <<>> /\ Solicits(Head(inbuf))
    <3>1. Receive /\ Incoming = Head(inbuf) /\ ~soliciting /\ Incoming.type = "req"
      BY <1>2, <2>1 DEF SetFdCallback, Receive, Incoming, Solicits
    <3>2. /\ ToSet(Unread') \subseteq ToSet(Unread)
          /\ Due = Due' + One(Incoming.type \in Answers)
          /\ Reqs = Reqs' + One(Incoming.type = "req")
          /\ Due' \in Nat /\ Reqs' \in Nat
      BY <3>1, Reads
    <3>3. /\ One(Incoming.type \in Answers) = 0 /\ One(Incoming.type = "req") = 1
          /\ One(soliciting) = 0
      BY <3>1 DEF One, Answers
    <3>4. Reqs = Reqs' + 1 /\ Due = Due'
      BY <3>2, <3>3
    <3>5. Reqs + 0 = Reqs' + 1
      BY <3>4, Sizes
    <3> QED
      BY <1>3, <3>2, <3>3, <3>4, <3>5
  <2>2. CASE inbuf = <<>> /\ soliciting
    <3>1. inbuf' = inbuf /\ One(soliciting) = 1
      BY <2>2 DEF SetFdCallback, One
    <3>2. Unread' = Unread /\ Due' = Due /\ Reqs' = Reqs
      BY <1>2, <3>1, Silent
    <3> QED
      BY <1>3, <3>1, <3>2
  <2> QED
    BY <2>1, <2>2 DEF SetFdCallback, CallbackDue
<1>10. \A x \in ToSet(Unread') : x.type # "reply" /\ x.type # "call" /\ x.type # "ack"
  <2>1. \A x \in ToSet(Unread) : x.type \notin Answers
    BY <1>3, Sizes
  <2> QED
    BY <1>1, <1>9, <2>1 DEF Answers, LinkInv, SizeInv
<1>11. ClientInv'
  <2>1. depth' = 1 /\ encoder'
    BY <1>1, <1>2, <1>4 DEF ClientInv, RubyStands
  <2> QED
    BY <1>4, <1>7, <1>9, <1>10, <2>1 DEF ClientInv
<1>12. SizeInv'
  <2>1. \A x \in ToSet(toRuby') : x = m
    BY <1>8
  <2> QED
    BY <1>2, <1>5, <1>6, <1>7, <1>10, <2>1 DEF SizeInv
<1>13. ShownInv'
  BY <1>7 DEF ShownInv
<1>14. TurnInv'
  BY <1>7, <1>8, <1>9 DEF TurnInv, One
<1>15. NoteInv'
  <2> DEFINE r == One(rsoliciting)  s == One(soliciting)  n == Callbacks(rstack)
  <2>1. r = Reqs + s + Acks + n
    BY <1>1 DEF LinkInv, NoteInv
  <2>2. One(rsoliciting') = r /\ Callbacks(rstack)' = n /\ One(soliciting') = 0
        /\ n = 0
    <3>1. Callbacks(rstack') = 0 /\ rstack' = rstack
      BY <1>4, FreshRuby
    <3>2. One(soliciting') = 0
      BY <1>2 DEF One
    <3> QED
      BY <3>1, <3>2, Stands
  <2>3. Reqs + s = Reqs' + 1
    BY <1>9
  <2>4. rsoliciting' /\ Callbacks(rstack)' = 0 => queue' # <<>>
    BY <1>1, <2>2 DEF LinkInv, NoteInv, RubyStands
  <2> HIDE DEF r, s, n
  <2>5. r = Reqs' + 0 + 1 + 0
    <3>1. Reqs \in Nat /\ s \in Nat /\ Reqs' \in Int
      <4>1. Reqs' \in Nat
        <5>1. inbuf' \in Seq(Message) /\ toPenn' \in Seq(Message)
          BY <1>2 DEF SetFdCallback, TypeOK, ClientTypeOK, WireTypeOK
        <5>2. Unread' \in Seq(Message)
          BY <5>1 DEF Unread
        <5> QED
          BY <5>2, CountNat DEF Reqs, Count
      <4> QED
        BY <4>1, Sizes DEF s, One
    <3>2. Acks = 0 /\ n = 0
      BY <1>3, <2>2
    <3>3. Reqs + s + Acks + n = Reqs + s
      BY <3>1, <3>2
    <3>4. Reqs' + 0 + 1 + 0 = Reqs' + 1
      BY <3>1
    <3> QED
      BY <2>1, <2>3, <3>3, <3>4
  <2> QED
    BY <1>8, <2>2, <2>4, <2>5 DEF NoteInv
<1> QED
  BY <1>1, <1>4, <1>11, <1>12, <1>13, <1>14, <1>15, FreshRuby, Stands, NestNext

-----------------------------------------------------------------------------
(* The steps of Ruby.                                                      *)

(* A callback that starts counts.                                          *)
LEMMA CallbackPush ==
  ASSUME NEW r \in Seq(RFrame), NEW g \in RFrame, RubyShape(r),
         RubyShape(Append(r, g))
  PROVE  Callbacks(Append(r, g)) = Callbacks(r) + One(g.kind = "callback")
<1> DEFINE t == Append(r, g)
<1>1. /\ t \in Seq(RFrame) /\ t # <<>> /\ Len(t) = Len(r) + 1 /\ t[Len(r) + 1] = g
      /\ \A i \in 1..Len(r) : t[i] = r[i]
      /\ Len(r) \in Nat /\ (r = <<>> <=> Len(r) = 0)
  BY Pushed
<1>2. RubyShape(t)
  OBVIOUS
<1> HIDE DEF t
<1>3. /\ Callbacks(t) = One(t # <<>> /\ t[1].kind = "callback")
      /\ Callbacks(r) = One(r # <<>> /\ r[1].kind = "callback")
  BY <1>1, <1>2, CallbackCount
<1>4. CASE r = <<>>
  <2>1. One(r # <<>> /\ r[1].kind = "callback") = 0 /\ t[1] = g
    BY <1>1, <1>4 DEF One
  <2>2. One(t # <<>> /\ t[1].kind = "callback") = One(g.kind = "callback")
        /\ One(g.kind = "callback") \in Nat
    BY <1>1, <2>1 DEF One
  <2> QED
    BY <1>3, <2>1, <2>2 DEF t
<1>5. CASE r # <<>>
  <2>1. t[1] = r[1] /\ g.kind # "callback"
    <3>1. Len(r) + 1 \in 1..Len(t) /\ Len(r) + 1 # 1
      BY <1>1, <1>5
    <3> QED
      BY <1>1, <1>2, <1>5, <3>1 DEF RubyShape
  <2>2. /\ One(t # <<>> /\ t[1].kind = "callback")
             = One(r # <<>> /\ r[1].kind = "callback")
        /\ One(r # <<>> /\ r[1].kind = "callback") \in Nat
        /\ One(g.kind = "callback") = 0
    BY <1>1, <1>5, <2>1 DEF One
  <2> QED
    BY <1>3, <2>2 DEF t
<1> QED
  BY <1>4, <1>5

(* A callback that returns no longer counts.                               *)
LEMMA CallbackPop ==
  ASSUME NEW r \in Seq(RFrame), r # <<>>, RubyShape(r)
  PROVE  Callbacks(r) = Callbacks(Front(r)) + One(Last(r).kind = "callback")
<1> DEFINE t == Front(r)
<1>1. /\ t \in Seq(RFrame) /\ Len(r) \in Nat \ {0} /\ Len(t) = Len(r) - 1
      /\ \A i \in 1..(Len(r) - 1) : t[i] = r[i]
      /\ RubyShape(t) /\ Last(r) = r[Len(r)]
  BY PopType, RubyPop DEF Last
<1> HIDE DEF t
<1>2. t = <<>> <=> Len(t) = 0
  BY <1>1, EmptySeq
<1>3. /\ Callbacks(t) = One(t # <<>> /\ t[1].kind = "callback")
      /\ Callbacks(r) = One(r # <<>> /\ r[1].kind = "callback")
  BY <1>1, CallbackCount
<1>4. CASE Len(r) = 1
  <2>1. /\ One(t # <<>> /\ t[1].kind = "callback") = 0
        /\ One(r # <<>> /\ r[1].kind = "callback") = One(Last(r).kind = "callback")
        /\ One(Last(r).kind = "callback") \in Nat
    BY <1>1, <1>2, <1>4 DEF One
  <2> QED
    BY <1>3, <2>1 DEF t
<1>5. CASE Len(r) # 1
  <2>1. t[1] = r[1] /\ t # <<>> /\ Last(r).kind # "callback"
    BY <1>1, <1>2, <1>5 DEF RubyShape
  <2>2. /\ One(t # <<>> /\ t[1].kind = "callback")
             = One(r # <<>> /\ r[1].kind = "callback")
        /\ One(r # <<>> /\ r[1].kind = "callback") \in Nat
        /\ One(Last(r).kind = "callback") = 0
    BY <2>1 DEF One
  <2> QED
    BY <1>3, <2>2 DEF t
<1> QED
  BY <1>4, <1>5

(* A count of callbacks is a number.                                       *)
LEMMA CallbackNat ==
  ASSUME TypeOK, NestInv
  PROVE  /\ Callbacks(rstack) \in Nat
         /\ One(rsoliciting) \in {0, 1} /\ One(soliciting) \in Nat
         /\ One(rsoliciting) # 0 => rsoliciting
<1>1. Callbacks(rstack) = One(rstack # <<>> /\ rstack[1].kind = "callback")
  BY CallbackCount DEF TypeOK, ConversationTypeOK, NestInv
<1>2. One(rstack # <<>> /\ rstack[1].kind = "callback") \in Nat
  BY DEF One
<1>3. /\ One(rsoliciting) \in {0, 1} /\ One(soliciting) \in Nat
      /\ One(rsoliciting) # 0 => rsoliciting
  BY DEF One
<1> QED
  BY <1>1, <1>2, <1>3

(* What a step of Ruby leaves alone.                                       *)
PennStands ==
  /\ Connected /\ fd' = fd /\ peer' = peer
  /\ UNCHANGED <<encoder, inbuf, current, depth, soliciting, cstack, base>>

(* Then PennMUSH's side of the invariant stands, but for what is due.      *)
LEMMA PennSame ==
  ASSUME TypeOK, NestInv, PennStands
  PROVE  /\ Connected' /\ ClientInv /\ LinkInv /\ fd # 0
         /\ cstack \in Seq(CFrame) /\ rstack \in Seq(RFrame)
         /\ RubyShape(rstack) /\ rcontext \in Context
         /\ Ours' = Ours /\ (PennTurn' <=> PennTurn)
         /\ Ours \in Int /\ base \in Nat /\ Theirs \in Nat
         /\ One(soliciting') = One(soliciting)
         /\ Len(rstack') <= MaxDepth => EndInv'
<1>1. Connected' /\ ClientInv /\ LinkInv /\ fd # 0 /\ RubyShape(rstack)
  BY DEF PennStands, Connected, NestInv
<1>2. cstack \in Seq(CFrame) /\ rstack \in Seq(RFrame) /\ rcontext \in Context
  BY DEF TypeOK, ClientTypeOK, ConversationTypeOK
<1>3. Ours' = Ours /\ (PennTurn' <=> PennTurn) /\ One(soliciting') = One(soliciting)
  BY DEF PennStands, Ours, PennTurn, AtTopLevel, Serving, One
<1>4. Ours \in Int /\ base \in Nat /\ Theirs \in Nat
  BY Sizes DEF Ours
<1>5. Len(rstack') <= MaxDepth => EndInv'
  BY <1>1 DEF EndInv, PennStands
<1> QED
  BY <1>1, <1>2, <1>3, <1>4, <1>5

(* It has nothing to read but what Ruby sends it.                          *)
LEMMA PennReads ==
  ASSUME TypeOK, NestInv, PennStands, toPenn' = toPenn
  PROVE  /\ Unread' = Unread /\ Due' = Due /\ Reqs' = Reqs
         /\ ClientInv'
<1>1. Unread' = Unread /\ Due' = Due /\ Reqs' = Reqs
  BY Silent DEF PennStands
<1>2. ClientInv'
  BY <1>1, PennSame DEF ClientInv, PennStands
<1> QED
  BY <1>1, <1>2

(* The event loop solicits when a callback is queued and none is pending.  *)
LEMMA CheckNest ==
  ASSUME TypeOK, NestInv, PennStands, CheckQueue
  PROVE  NestInv'
<1>1. CASE ~rsoliciting /\ queue # <<>>
  <2>1. /\ toPenn' = Append(toPenn, Solicit) /\ rsoliciting' /\ toRuby' = toRuby
        /\ rstack' = rstack /\ rcontext' = rcontext /\ queue' = queue
    BY <1>1 DEF CheckQueue, SendToPenn
  <2>2. /\ Connected' /\ ClientInv /\ LinkInv /\ fd # 0
        /\ Ours' = Ours /\ (PennTurn' <=> PennTurn) /\ Ours \in Int
        /\ RubyShape(rstack')
    BY <2>1, PennSame
  <2>3. Solicit \in Message /\ Solicit.type = "req"
    BY DEF Solicit, Message, Context
  <2>4. /\ ToSet(Unread') = ToSet(Unread) \cup {Solicit}
        /\ Due' = Due /\ Reqs' = Reqs + 1
    <3>1. /\ ToSet(Unread') = ToSet(Unread) \cup {Solicit}
          /\ Due' = Due + One(Solicit.type \in Answers)
          /\ Reqs' = Reqs + One(Solicit.type = "req")
      BY <2>1, <2>3, Sends DEF PennStands
    <3>2. One(Solicit.type \in Answers) = 0 /\ One(Solicit.type = "req") = 1
      BY <2>3 DEF One, Answers
    <3> QED
      BY <3>1, <3>2, Sizes
  <2>5. Theirs' = Theirs /\ (Executing' <=> Executing) /\ Acks' = Acks
        /\ Callbacks(rstack)' = Callbacks(rstack)
    BY <2>1 DEF Theirs, Executing, Acks, Count, Callbacks
  <2>6. EndInv'
    BY <2>1, PennSame DEF NestInv, EndInv
  <2>7. ClientInv'
    BY <2>2, <2>3, <2>4 DEF ClientInv, PennStands
  <2>8. Paired(cstack', base', rstack') /\ ShownInv'
    BY <2>1, <2>2, <2>5 DEF LinkInv, ShownInv, PennStands
  <2>9. SizeInv'
    BY <2>1, <2>2, <2>3, <2>4, <2>5 DEF LinkInv, SizeInv, PennStands
  <2>10. TurnInv'
    <3>1. One(PennTurn') = One(PennTurn) /\ One(Executing') = One(Executing)
      BY <2>2, <2>5 DEF One
    <3> QED
      BY <2>1, <2>2, <2>4, <3>1 DEF LinkInv, TurnInv
  <2>11. NoteInv'
    <3> DEFINE s == One(soliciting)  n == Callbacks(rstack)
    <3>1. One(rsoliciting) = Reqs + s + Acks + n /\ One(rsoliciting) = 0
      BY <1>1, <2>2 DEF LinkInv, NoteInv, One
    <3>2. One(rsoliciting') = 1 /\ One(soliciting') = s /\ Callbacks(rstack)' = n
      BY <2>1, <2>5, PennSame DEF One
    <3>3. s \in Nat /\ n \in Nat /\ Reqs \in Nat /\ Acks \in Nat
      BY CallbackNat, Sizes
    <3> HIDE DEF s, n
    <3>4. 0 = Reqs + s + Acks + n
      BY <3>1
    <3>5. Reqs = 0 /\ s = 0 /\ Acks = 0 /\ n = 0
      BY <3>3, <3>4
    <3>6. Reqs' + s + Acks' + n = 1
      BY <2>4, <2>5, <3>5
    <3> QED
      BY <1>1, <2>1, <3>2, <3>6 DEF NoteInv
  <2> QED
    BY <2>2, <2>6, <2>7, <2>8, <2>9, <2>10, <2>11, NestNext
<1>2. CASE ~(~rsoliciting /\ queue # <<>>)
  BY <1>2, QuietNest DEF CheckQueue, PennStands, wireVars
<1> QED
  BY <1>1, <1>2


(* A call or an acknowledgement reaches Ruby.                              *)
Arrives ==
  /\ toRuby # <<>> /\ Head(toRuby).type \in {"call", "ack"}
  /\ toRuby' = Tail(toRuby)
  /\ rsoliciting' = rsoliciting

(* It was sent for PennMUSH's innermost call, which Ruby has no frame of.  *)
LEMMA ArrivesLast ==
  ASSUME TypeOK, NestInv, PennStands, Arrives
  PROVE  LET m == Head(toRuby)
         IN /\ m \in Message /\ m.id = Last(cstack).id /\ m.ctx = current
            /\ Last(cstack).kind = IF m.type = "call" THEN "rpc" ELSE "ack"
            /\ Ours = Theirs + 1 /\ cstack # <<>>
            /\ ~PennTurn /\ ~Executing /\ Due = 0
            /\ ToSet(toRuby') = {} /\ Len(toRuby') = 0 /\ Acks' = 0
            /\ Acks = One(m.type = "ack")
<1> DEFINE m == Head(toRuby)
<1>1. /\ ~PennTurn /\ ~Executing /\ Due = 0 /\ Tail(toRuby) = <<>>
      /\ m \in ToSet(toRuby) /\ m \in Message /\ Acks = One(m.type = "ack")
  BY ForRuby DEF Arrives, PennStands
<1>2. ToSet(toRuby') = {} /\ Len(toRuby') = 0 /\ Acks' = 0
  BY <1>1, NonePosted DEF Arrives
<1>3. m.type \in {"call", "ack"} /\ LinkInv
  BY PennSame DEF Arrives
<1> HIDE DEF m
<1>4. /\ m.id = Last(cstack).id /\ m.ctx = current /\ Ours = Theirs + 1
      /\ Last(cstack).kind = IF m.type = "call" THEN "rpc" ELSE "ack"
  BY <1>1, <1>3 DEF LinkInv, SizeInv
<1>5. cstack # <<>>
  BY <1>1 DEF PennTurn, AtTopLevel
<1> QED
  BY <1>1, <1>2, <1>4, <1>5 DEF m

(* An acknowledgement is never refused: it is the first call, and a        *)
(* callback is queued for it.                                              *)
LEMMA AckAccepted ==
  ASSUME TypeOK, StackShape, NestInv, PennStands, Arrives,
         Head(toRuby).type = "ack"
  PROVE  rstack = <<>> /\ queue # <<>> /\ ~Refused(Head(toRuby))
<1>1. /\ Last(cstack).kind = "ack" /\ Ours = Theirs + 1 /\ cstack # <<>>
      /\ Acks = One(Head(toRuby).type = "ack")
  BY ArrivesLast
<1>2. /\ cstack \in Seq(CFrame) /\ Len(cstack) \in Nat \ {0} /\ base \in Nat
      /\ Theirs \in Nat /\ LinkInv
  BY <1>1, PennSame, Sizes
<1>3. Len(cstack) = 1
  <2> DEFINE i == Len(cstack)
  <2>1. i \in 1..Len(cstack) /\ cstack[i].kind = "ack"
    BY <1>1, <1>2 DEF Last
  <2>2. cstack[i].kind = "ack" => i = 1
    BY <2>1 DEF StackShape, Shape
  <2> QED
    BY <2>1, <2>2
<1>4. rstack = <<>> /\ Len(rstack) = 0
  BY <1>1, <1>2, <1>3, Sizes DEF Ours, Theirs
<1>5. queue # <<>>
  <2> DEFINE r == One(rsoliciting)  s == One(soliciting)
  <2>1. r = Reqs + s + Acks + Callbacks(rstack)
    BY <1>2 DEF LinkInv, NoteInv
  <2>2. r \in {0, 1} /\ s \in Nat /\ Reqs \in Nat /\ (r # 0 => rsoliciting)
    BY CallbackNat, Sizes
  <2>3. Acks = 1
    BY <1>1 DEF One
  <2>4. Callbacks(rstack) = 0
    <3>1. { i \in DOMAIN rstack : rstack[i].kind = "callback" } = {}
      BY <1>4
    <3> QED
      BY <3>1, FS_EmptySet DEF Callbacks
  <2> HIDE DEF r, s
  <2>5. r # 0
    BY <2>1, <2>2, <2>3, <2>4
  <2>6. rsoliciting
    BY <2>2, <2>5
  <2> QED
    BY <1>2, <2>4, <2>6 DEF LinkInv, NoteInv
<1> QED
  BY <1>4, <1>5, ConversationAssumption DEF Refused

(* The method starts, with PennMUSH's context, and is paired with the call *)
(* that waits for it.                                                      *)
LEMMA AcceptNest ==
  ASSUME TypeOK, StackShape, NestInv, PennStands, Arrives,
         DispatchMethod(Head(toRuby)), ~Refused(Head(toRuby))
  PROVE  NestInv'
<1> DEFINE m == Head(toRuby)
           g == [kind  |-> IF m.type = "ack" THEN "callback" ELSE "method",
                 id    |-> m.id,
                 saved |-> rcontext]
<1>1. /\ m \in Message /\ m.id = Last(cstack).id /\ m.ctx = current
      /\ Last(cstack).kind = IF m.type = "call" THEN "rpc" ELSE "ack"
      /\ Ours = Theirs + 1 /\ cstack # <<>>
      /\ ~PennTurn /\ ~Executing /\ Due = 0
      /\ ToSet(toRuby') = {} /\ Len(toRuby') = 0 /\ Acks' = 0
      /\ Acks = One(m.type = "ack") /\ m.type \in {"call", "ack"}
  BY ArrivesLast DEF Arrives
<1>2. /\ rstack' = Append(rstack, g) /\ rcontext' = m.ctx /\ toPenn' = toPenn
      /\ queue' = IF m.type = "ack" THEN Tail(queue) ELSE queue
      /\ rsoliciting' = rsoliciting /\ Len(rstack) + 1 <= MaxDepth
  BY ConversationAssumption, Sizes DEF DispatchMethod, Refused, Arrives, Theirs
<1>3. /\ Connected' /\ ClientInv /\ LinkInv
      /\ cstack \in Seq(CFrame) /\ rstack \in Seq(RFrame)
      /\ RubyShape(rstack) /\ rcontext \in Context
      /\ Ours' = Ours /\ (PennTurn' <=> PennTurn)
      /\ Ours \in Int /\ base \in Nat /\ Theirs \in Nat
  BY PennSame
<1>4. g \in RFrame /\ g.kind # "invoke" /\ (g.kind = "callback" <=> m.type = "ack")
      /\ g.id = m.id /\ g.saved = rcontext
  BY <1>1, <1>3 DEF RFrame, Message
<1>5. g.kind = IF m.type = "ack" THEN "callback" ELSE "method"
  OBVIOUS
<1>6. m.type = "ack" => rstack = <<>>
  BY AckAccepted
<1> HIDE DEF m, g
<1>7. /\ Len(rstack') = Len(rstack) + 1 /\ Last(rstack') = g /\ rstack' # <<>>
      /\ Len(rstack) \in Nat
  BY <1>2, <1>3, <1>4, Pushed
<1>8. /\ Unread' = Unread /\ Due' = Due /\ Reqs' = Reqs /\ ClientInv'
  BY <1>2, PennReads
<1>9. Theirs' = Ours /\ Executing'
  BY <1>1, <1>4, <1>7 DEF Theirs, Executing, RFrame
<1>10. EndInv'
  BY <1>2, <1>7, PennSame
<1>11. RubyShape(rstack')
  BY <1>1, <1>2, <1>3, <1>4, <1>6, RubyPush, PennWaits DEF Executing, Invoking
<1>12. Paired(cstack', base', rstack')
  <2>1. Matches(Last(cstack), g)
    BY <1>1, <1>4, <1>5 DEF Matches
  <2>2. Len(rstack) > 0 => g.saved = Last(cstack).saved
    BY <1>1, <1>3, <1>4 DEF LinkInv, ShownInv, Theirs
  <2>3. Paired(cstack, base, rstack) /\ Len(cstack) - base = Len(rstack) + 1
    BY <1>1, <1>3 DEF LinkInv, Ours, Theirs
  <2>4. Paired(cstack, base, Append(rstack, g))
    BY <1>3, <1>4, <2>1, <2>2, <2>3, PairedPushRuby
  <2> QED
    BY <1>2, <2>4 DEF PennStands
<1>13. SizeInv'
  <2>1. \A x \in ToSet(Unread') : x.type # "reply" /\ x.type # "call" /\ x.type # "ack"
    BY <1>1, <1>3, <1>8, Sizes DEF Answers, LinkInv, SizeInv
  <2> QED
    BY <1>1, <1>3, <1>9, <2>1 DEF SizeInv
<1>14. ShownInv'
  BY <1>1, <1>2, <1>3, <1>9 DEF ShownInv, PennStands
<1>15. TurnInv'
  BY <1>1, <1>3, <1>8, <1>9 DEF TurnInv, One
<1>16. NoteInv'
  <2> DEFINE r == One(rsoliciting)  s == One(soliciting)  n == Callbacks(rstack)
             a == One(m.type = "ack")
  <2>1. Callbacks(rstack)' = n + a
    <3>1. Callbacks(Append(rstack, g)) = n + One(g.kind = "callback")
      BY <1>2, <1>3, <1>4, <1>11, CallbackPush
    <3>2. One(g.kind = "callback") = a
      BY <1>4 DEF One
    <3> QED
      BY <1>2, <3>1, <3>2 DEF Callbacks
  <2>2. r = Reqs + s + Acks + n
    BY <1>3 DEF LinkInv, NoteInv
  <2>3. One(rsoliciting') = r /\ One(soliciting') = s
    BY <1>2, PennSame DEF One
  <2>4. s \in Nat /\ n \in Nat /\ Reqs \in Nat /\ a \in Nat
    BY CallbackNat, Sizes DEF One
  <2>5. Acks = a
    BY <1>1
  <2>6. rsoliciting' /\ Callbacks(rstack)' = 0 => queue' # <<>>
    <3>1. CASE m.type = "ack"
      <4>1. Callbacks(rstack)' # 0
        BY <2>1, <2>4, <3>1 DEF One
      <4> QED
        BY <4>1
    <3>2. CASE m.type # "ack"
      <4>1. Callbacks(rstack)' = n
        BY <2>1, <2>4, <3>2 DEF One
      <4>2. rsoliciting /\ n = 0 => queue # <<>>
        BY <1>3 DEF LinkInv, NoteInv
      <4> QED
        BY <1>2, <3>2, <4>1, <4>2
    <3> QED
      BY <3>1, <3>2
  <2> HIDE DEF r, s, n, a
  <2>7. Reqs + s + a + n = Reqs + s + 0 + (n + a)
    BY <2>4
  <2>8. One(rsoliciting') = Reqs' + One(soliciting') + Acks' + Callbacks(rstack)'
    BY <1>1, <1>8, <2>1, <2>2, <2>3, <2>5, <2>7
  <2> QED
    BY <2>6, <2>8 DEF NoteInv
<1> QED
  BY <1>8, <1>10, <1>11, <1>12, <1>13, <1>14, <1>15, <1>16, NestNext

(* A call beyond MAX_DEPTH is answered at once.                            *)
LEMMA TooDeepNest ==
  ASSUME TypeOK, StackShape, NestInv, PennStands, Arrives,
         DispatchMethod(Head(toRuby)), Refused(Head(toRuby))
  PROVE  NestInv'
<1> DEFINE m == Head(toRuby)
           a == Reply(m.id)
<1>1. /\ m \in Message /\ m.id = Last(cstack).id
      /\ Ours = Theirs + 1
      /\ ~PennTurn /\ ~Executing /\ Due = 0
      /\ ToSet(toRuby') = {} /\ Len(toRuby') = 0 /\ Acks' = 0
      /\ Acks = One(m.type = "ack")
  BY ArrivesLast
<1>2. m.type # "ack" /\ Acks = 0
  <2>1. m.type # "ack"
    BY AckAccepted
  <2> QED
    BY <1>1, <2>1 DEF One
<1>3. /\ toPenn' = Append(toPenn, a) /\ rsoliciting' = rsoliciting
      /\ UNCHANGED <<rstack, rcontext, queue>>
  BY DEF DispatchMethod, Arrives
<1>4. a \in Message /\ a.type = "reply" /\ a.id = m.id
  BY <1>1 DEF Reply, Message, Context
<1> HIDE DEF m, a
<1>5. /\ Connected' /\ ClientInv /\ LinkInv /\ fd # 0
      /\ RubyShape(rstack)
      /\ Ours' = Ours /\ (PennTurn' <=> PennTurn)
      /\ Ours \in Int /\ base \in Nat /\ Theirs \in Nat
      /\ One(soliciting') = One(soliciting)
  BY PennSame
<1>6. ToSet(Unread') = ToSet(Unread) \cup {a} /\ Due' = 1 /\ Reqs' = Reqs
  <2>1. /\ ToSet(Unread') = ToSet(Unread) \cup {a}
        /\ Due' = Due + One(a.type \in Answers)
        /\ Reqs' = Reqs + One(a.type = "req")
    BY <1>3, <1>4, Sends DEF PennStands
  <2>2. One(a.type \in Answers) = 1 /\ One(a.type = "req") = 0
    BY <1>4 DEF One, Answers
  <2> QED
    BY <1>1, <2>1, <2>2, Sizes
<1>7. /\ Theirs' = Theirs /\ ~Executing' /\ Callbacks(rstack)' = Callbacks(rstack)
  BY <1>1, <1>3 DEF Theirs, Executing, Callbacks
<1>8. \A x \in ToSet(Unread) : x.type \notin Answers
  BY <1>1, Sizes
<1>9. EndInv'
  BY <1>3, PennSame DEF NestInv, EndInv
<1>10. ClientInv'
  <2>1. \A x \in ToSet(Unread') : x.type = "reply" => x.id = Last(cstack).id
    BY <1>1, <1>4, <1>6, <1>8 DEF Answers
  <2> QED
    BY <1>1, <1>5, <1>6, <2>1 DEF ClientInv, PennStands
<1>11. Paired(cstack', base', rstack') /\ ShownInv'
  BY <1>3, <1>5, <1>7 DEF LinkInv, ShownInv, PennStands
<1>12. SizeInv'
  <2>1. \A x \in ToSet(Unread') : x.type # "ack" /\ x.type # "call"
    BY <1>4, <1>5, <1>6, <1>8 DEF Answers, LinkInv, SizeInv
  <2> QED
    BY <1>1, <1>5, <1>7, <2>1 DEF SizeInv
<1>13. TurnInv'
  BY <1>1, <1>5, <1>6, <1>7 DEF TurnInv, One
<1>14. NoteInv'
  <2>1. NoteInv /\ One(rsoliciting') = One(rsoliciting)
    BY <1>3, <1>5 DEF LinkInv, One
  <2>2. rsoliciting' /\ Callbacks(rstack)' = 0 => queue' # <<>>
    BY <1>3, <1>7, <2>1 DEF NoteInv
  <2>3. One(rsoliciting') = Reqs' + One(soliciting') + Acks' + Callbacks(rstack)'
    BY <1>1, <1>2, <1>5, <1>6, <1>7, <2>1 DEF NoteInv
  <2> QED
    BY <2>2, <2>3 DEF NoteInv
<1> QED
  BY <1>3, <1>5, <1>9, <1>10, <1>11, <1>12, <1>13, <1>14, NestNext


(* A method calls PennMUSH.                                                *)
LEMMA InvokeNest ==
  ASSUME TypeOK, NestInv, PennStands, RemoteInvoke
  PROVE  NestInv'
<1> DEFINE g == [kind |-> "invoke", id |-> invokes + 1, saved |-> rcontext]
           m == Call(invokes + 1, rcontext)
<1>1. /\ Connected' /\ ClientInv /\ LinkInv /\ fd # 0
      /\ cstack \in Seq(CFrame) /\ rstack \in Seq(RFrame)
      /\ RubyShape(rstack) /\ rcontext \in Context
      /\ Ours' = Ours /\ (PennTurn' <=> PennTurn)
      /\ Ours \in Int /\ base \in Nat /\ Theirs \in Nat
      /\ One(soliciting') = One(soliciting)
  BY PennSame
<1>2. /\ Executing /\ rstack' = Append(rstack, g) /\ toPenn' = Append(toPenn, m)
      /\ Len(rstack) + 1 <= MaxDepth
      /\ UNCHANGED <<toRuby, rsoliciting, rcontext, queue>>
  BY DEF RemoteInvoke, SendToPenn
<1>3. toRuby = <<>> /\ Due = 0 /\ ~PennTurn /\ Ours = Theirs /\ Acks = 0
  BY <1>2, RubysTurn DEF PennStands
<1>4. g \in RFrame /\ g.kind = "invoke" /\ g.id = invokes + 1
  BY <1>1 DEF RFrame, TypeOK, ConversationTypeOK
<1>5. m \in Message /\ m.type = "call" /\ m.id = invokes + 1
  BY <1>1 DEF Call, Message, TypeOK, ConversationTypeOK
<1> HIDE DEF g, m
<1>6. /\ Len(rstack') = Len(rstack) + 1 /\ Last(rstack') = g /\ rstack' # <<>>
      /\ Len(rstack) \in Nat /\ rstack # <<>>
  BY <1>1, <1>2, <1>4, Pushed DEF Executing
<1>7. ToSet(Unread') = ToSet(Unread) \cup {m} /\ Due' = 1 /\ Reqs' = Reqs
  <2>1. /\ ToSet(Unread') = ToSet(Unread) \cup {m}
        /\ Due' = Due + One(m.type \in Answers)
        /\ Reqs' = Reqs + One(m.type = "req")
    BY <1>2, <1>5, Sends DEF PennStands
  <2>2. One(m.type \in Answers) = 1 /\ One(m.type = "req") = 0
    BY <1>5 DEF One, Answers
  <2> QED
    BY <1>3, <2>1, <2>2, Sizes
<1>8. Theirs' = Theirs + 1 /\ ~Executing' /\ Theirs > 0
  BY <1>1, <1>4, <1>6, Sizes DEF Theirs, Executing
<1>9. ToSet(toRuby') = {} /\ Len(toRuby') = 0 /\ Acks' = 0
  BY <1>2, <1>3, NonePosted
<1>10. \A x \in ToSet(Unread) : x.type \notin Answers
  BY <1>3, Sizes
<1>11. EndInv'
  BY <1>2, <1>6, PennSame
<1>12. ClientInv'
  <2>1. \A x \in ToSet(Unread') : x.type # "reply"
    BY <1>5, <1>7, <1>10 DEF Answers
  <2>2. Ours # -1
    BY <1>1, <1>3
  <2> QED
    BY <1>1, <1>3, <1>7, <2>1, <2>2 DEF ClientInv, PennStands
<1>13. RubyShape(rstack')
  BY <1>1, <1>2, <1>4, <1>6, RubyPush, PennWaits DEF Executing, Invoking
<1>14. Paired(cstack', base', rstack')
  <2>1. Paired(cstack, base, rstack) /\ Len(cstack) - base <= Len(rstack)
    BY <1>1, <1>3 DEF LinkInv, Ours, Theirs
  <2>2. Paired(cstack, base, Append(rstack, g))
    BY <1>1, <1>4, <2>1, PairedPushRuby
  <2> QED
    BY <1>2, <2>2 DEF PennStands
<1>15. SizeInv'
  <2>1. \A x \in ToSet(Unread') : x.type # "ack" /\ x.type # "reply"
                                  /\ (x.type = "call" => x = m)
    BY <1>1, <1>5, <1>7, <1>10 DEF Answers, LinkInv, SizeInv
  <2>2. m.id = Last(rstack').id
    BY <1>4, <1>5, <1>6
  <2> QED
    BY <1>1, <1>3, <1>6, <1>8, <1>9, <2>1, <2>2 DEF SizeInv
<1>16. ShownInv'
  BY <1>1, <1>2, <1>3, <1>8 DEF LinkInv, ShownInv, PennStands
<1>17. TurnInv'
  BY <1>1, <1>3, <1>7, <1>8, <1>9 DEF TurnInv, One
<1>18. NoteInv'
  <2>1. Callbacks(rstack)' = Callbacks(rstack)
    <3>1. Callbacks(Append(rstack, g)) = Callbacks(rstack) + One(g.kind = "callback")
      BY <1>1, <1>2, <1>4, <1>13, CallbackPush
    <3>2. One(g.kind = "callback") = 0 /\ Callbacks(rstack) \in Nat
      BY <1>4, CallbackNat DEF One
    <3>3. Callbacks(Append(rstack, g)) = Callbacks(rstack)
      BY <3>1, <3>2
    <3> QED
      BY <1>2, <3>3 DEF Callbacks
  <2>2. NoteInv /\ One(rsoliciting') = One(rsoliciting)
    BY <1>1, <1>2 DEF LinkInv, One
  <2>3. rsoliciting' /\ Callbacks(rstack)' = 0 => queue' # <<>>
    BY <1>2, <2>1, <2>2 DEF NoteInv
  <2>4. One(rsoliciting') = Reqs' + One(soliciting') + Acks' + Callbacks(rstack)'
    BY <1>1, <1>3, <1>7, <1>9, <2>1, <2>2 DEF NoteInv
  <2> QED
    BY <2>3, <2>4 DEF NoteInv
<1> QED
  BY <1>1, <1>11, <1>12, <1>13, <1>14, <1>15, <1>16, <1>17, <1>18, NestNext

(* Below a call of Ruby's there is a method, below a method a call of      *)
(* Ruby's or nothing.                                                      *)
LEMMA BeneathRuby ==
  ASSUME NEW r \in Seq(RFrame), r # <<>>, RubyShape(r)
  PROVE  /\ Last(r).kind = "invoke" =>
              Front(r) # <<>> /\ Last(Front(r)).kind # "invoke"
         /\ Last(r).kind # "invoke" =>
              Front(r) = <<>> \/ Last(Front(r)).kind = "invoke"
<1>1. /\ Len(r) \in Nat \ {0} /\ Len(Front(r)) = Len(r) - 1
      /\ Front(r) \in Seq(RFrame)
      /\ \A i \in 1..(Len(r) - 1) : Front(r)[i] = r[i]
  BY PopType
<1>2. r[Len(r)].kind = "invoke" <=> Len(r) > 1 /\ r[Len(r) - 1].kind # "invoke"
  BY <1>1 DEF RubyShape
<1>3. Front(r) = <<>> <=> Len(r) = 1
  BY <1>1, EmptySeq
<1>4. Len(r) > 1 => Last(Front(r)) = r[Len(r) - 1]
  BY <1>1 DEF Last
<1> QED
  BY <1>1, <1>2, <1>3, <1>4 DEF Last

(* The answer of a function goes on with the method that called it.        *)
LEMMA InvokedNest ==
  ASSUME TypeOK, NestInv, PennStands, InvokeReturns
  PROVE  NestInv'
<1>1. /\ Connected' /\ ClientInv /\ LinkInv /\ fd # 0
      /\ cstack \in Seq(CFrame) /\ rstack \in Seq(RFrame)
      /\ RubyShape(rstack)
      /\ Ours' = Ours /\ (PennTurn' <=> PennTurn)
      /\ Ours \in Int /\ base \in Nat /\ Theirs \in Nat
      /\ One(soliciting') = One(soliciting)
  BY PennSame
<1>2. /\ Invoking /\ toRuby # <<>> /\ Head(toRuby).type = "reply"
      /\ rstack' = Front(rstack) /\ toRuby' = Tail(toRuby)
      /\ UNCHANGED <<toPenn, rsoliciting, rcontext, queue>>
  BY DEF InvokeReturns
<1>3. /\ ~PennTurn /\ ~Executing /\ Due = 0 /\ Tail(toRuby) = <<>>
      /\ Head(toRuby) \in ToSet(toRuby) /\ Acks = One(Head(toRuby).type = "ack")
  BY <1>2, ForRuby DEF PennStands
<1>4. Acks = 0 /\ Theirs = Ours + 1
  BY <1>1, <1>2, <1>3 DEF One, LinkInv, SizeInv
<1>5. ToSet(toRuby') = {} /\ Len(toRuby') = 0 /\ Acks' = 0
  BY <1>2, <1>3, NonePosted
<1>6. /\ Unread' = Unread /\ Due' = Due /\ Reqs' = Reqs /\ ClientInv'
  BY <1>2, PennReads
<1>7. /\ Len(rstack) \in Nat \ {0} /\ Len(rstack') = Len(rstack) - 1
      /\ rstack' \in Seq(RFrame)
  BY <1>1, <1>2, PopType DEF Invoking
<1>8. Theirs' = Ours
  BY <1>1, <1>4, <1>7 DEF Theirs
<1>9. Executing'
  <2>1. rstack' # <<>> /\ Last(rstack').kind # "invoke"
    BY <1>1, <1>2, BeneathRuby DEF Invoking
  <2>2. Last(rstack') \in RFrame
    BY <1>7, <2>1, PopType
  <2> QED
    BY <2>1, <2>2 DEF Executing, RFrame
<1>10. EndInv'
  BY <1>1, <1>7, PennSame, ConversationAssumption DEF NestInv, EndInv
<1>11. RubyShape(rstack') /\ Paired(cstack', base', rstack')
  BY <1>1, <1>2, RubyPop, PairedPopRuby DEF Invoking, LinkInv, PennStands
<1>12. SizeInv'
  <2>1. \A x \in ToSet(Unread') : x.type # "reply" /\ x.type # "call" /\ x.type # "ack"
    BY <1>1, <1>3, <1>6, Sizes DEF Answers, LinkInv, SizeInv
  <2> QED
    BY <1>1, <1>3, <1>5, <1>8, <2>1 DEF SizeInv
<1>13. ShownInv'
  <2>1. Ours > 0 => current = rcontext
    BY <1>1, <1>4 DEF LinkInv, ShownInv
  <2> QED
    BY <1>1, <1>2, <1>8, <2>1 DEF ShownInv, PennStands
<1>14. TurnInv'
  BY <1>1, <1>3, <1>5, <1>6, <1>9 DEF TurnInv, One
<1>15. NoteInv'
  <2>1. Callbacks(rstack)' = Callbacks(rstack)
    <3>1. Callbacks(rstack) = Callbacks(Front(rstack)) + One(Last(rstack).kind = "callback")
      BY <1>1, <1>2, CallbackPop DEF Invoking
    <3>2. One(Last(rstack).kind = "callback") = 0
      BY <1>2 DEF Invoking, One
    <3>3. Callbacks(Front(rstack)) \in Nat
      <4>1. Front(rstack) \in Seq(RFrame) /\ RubyShape(Front(rstack))
        BY <1>2, <1>7, <1>11
      <4>2. Callbacks(Front(rstack))
              = One(Front(rstack) # <<>> /\ Front(rstack)[1].kind = "callback")
        BY <4>1, CallbackCount
      <4> QED
        BY <4>2 DEF One
    <3>4. Callbacks(rstack) = Callbacks(Front(rstack))
      BY <3>1, <3>2, <3>3
    <3> QED
      BY <1>2, <3>4 DEF Callbacks
  <2>2. NoteInv /\ One(rsoliciting') = One(rsoliciting)
    BY <1>1, <1>2 DEF LinkInv, One
  <2>3. rsoliciting' /\ Callbacks(rstack)' = 0 => queue' # <<>>
    BY <1>2, <2>1, <2>2 DEF NoteInv
  <2>4. One(rsoliciting') = Reqs' + One(soliciting') + Acks' + Callbacks(rstack)'
    BY <1>1, <1>4, <1>5, <1>6, <2>1, <2>2 DEF NoteInv
  <2> QED
    BY <2>3, <2>4 DEF NoteInv
<1> QED
  BY <1>1, <1>6, <1>10, <1>11, <1>12, <1>13, <1>14, <1>15, NestNext


(* The answer of a method ends PennMUSH's innermost call.                  *)
LEMMA ReturnNest ==
  ASSUME TypeOK, NestInv, PennStands, MethodReturns
  PROVE  NestInv'
<1> DEFINE f == Last(rstack)
           m == Reply(f.id)
           n == Len(rstack)
<1>1. /\ Connected' /\ ClientInv /\ LinkInv /\ fd # 0
      /\ cstack \in Seq(CFrame) /\ rstack \in Seq(RFrame)
      /\ RubyShape(rstack)
      /\ Ours' = Ours /\ (PennTurn' <=> PennTurn)
      /\ Ours \in Int /\ base \in Nat /\ Theirs \in Nat
      /\ One(soliciting') = One(soliciting)
  BY PennSame
<1>2. /\ Executing /\ rstack' = Front(rstack) /\ rcontext' = f.saved
      /\ rsoliciting' = IF f.kind = "callback" THEN FALSE ELSE rsoliciting
      /\ toPenn' = Append(toPenn, m) /\ toRuby' = toRuby /\ queue' = queue
  BY DEF MethodReturns, SendToPenn
<1>3. toRuby = <<>> /\ Due = 0 /\ ~PennTurn /\ Ours = Theirs /\ Acks = 0
  BY <1>2, RubysTurn DEF PennStands
<1>4. /\ n \in Nat \ {0} /\ Len(rstack') = n - 1 /\ f = rstack[n] /\ rstack # <<>>
      /\ f \in RFrame /\ f.kind # "invoke" /\ n = Ours
  BY <1>1, <1>2, <1>3, PopType DEF Executing, Last, Theirs
<1>5. m \in Message /\ m.type = "reply" /\ m.id = f.id
  BY <1>4 DEF RFrame, Reply, Message, Context
<1>6. /\ f.id = Last(cstack).id
      /\ n > 1 => f.saved = Last(cstack).saved /\ f.kind = "method"
  <2>1. n \in 1..Len(rstack) /\ n <= Len(cstack) - base /\ cstack[base + n] = Last(cstack)
    BY <1>1, <1>4, Sizes DEF Ours, Last
  <2>2. /\ Matches(cstack[base + n], rstack[n])
        /\ n > 1 /\ rstack[n].kind = "method" => rstack[n].saved = cstack[base + n].saved
    BY <1>1, <2>1 DEF LinkInv, Paired
  <2>3. n > 1 => f.kind = "method"
    BY <1>1, <1>4, <2>1 DEF RubyShape, RFrame
  <2> QED
    BY <1>4, <2>1, <2>2, <2>3 DEF Matches
<1> HIDE DEF f, m, n
<1>7. ToSet(Unread') = ToSet(Unread) \cup {m} /\ Due' = 1 /\ Reqs' = Reqs
  <2>1. /\ ToSet(Unread') = ToSet(Unread) \cup {m}
        /\ Due' = Due + One(m.type \in Answers)
        /\ Reqs' = Reqs + One(m.type = "req")
    BY <1>2, <1>5, Sends DEF PennStands
  <2>2. One(m.type \in Answers) = 1 /\ One(m.type = "req") = 0
    BY <1>5 DEF One, Answers
  <2> QED
    BY <1>3, <2>1, <2>2, Sizes
<1>8. Ours = Theirs' + 1 /\ ~Executing'
  <2>1. rstack' = <<>> \/ Last(rstack').kind = "invoke"
    BY <1>1, <1>2, <1>4, BeneathRuby DEF f
  <2> QED
    BY <1>4, <2>1 DEF Theirs, Executing
<1>9. ToSet(toRuby') = {} /\ Len(toRuby') = 0 /\ Acks' = 0
  BY <1>2, <1>3, NonePosted
<1>10. \A x \in ToSet(Unread) : x.type \notin Answers
  BY <1>3, Sizes
<1>11. EndInv'
  <2>1. n <= MaxDepth
    BY DEF NestInv, EndInv, n
  <2> QED
    BY <1>4, <2>1, PennSame, ConversationAssumption
<1>12. ClientInv'
  <2>1. \A x \in ToSet(Unread') : x.type = "reply" => x.id = Last(cstack).id
    BY <1>5, <1>6, <1>7, <1>10 DEF Answers
  <2>2. Ours # -1
    BY <1>4
  <2> QED
    BY <1>1, <1>3, <1>7, <2>1, <2>2 DEF ClientInv, PennStands
<1>13. RubyShape(rstack') /\ Paired(cstack', base', rstack')
  BY <1>1, <1>2, <1>4, RubyPop, PairedPopRuby DEF LinkInv, PennStands
<1>14. SizeInv'
  <2>1. \A x \in ToSet(Unread') : x.type # "ack" /\ x.type # "call"
    BY <1>1, <1>5, <1>7, <1>10 DEF Answers, LinkInv, SizeInv
  <2> QED
    BY <1>1, <1>3, <1>8, <1>9, <2>1 DEF SizeInv
<1>15. ShownInv'
  <2>1. Theirs' = n - 1
    BY <1>4 DEF Theirs
  <2>2. ~(Ours = Theirs' \/ Ours = Theirs' - 1)
    BY <1>4, <2>1
  <2>3. Ours > 1 => Last(cstack).saved = rcontext'
    BY <1>2, <1>4, <1>6
  <2> QED
    BY <1>1, <2>2, <2>3 DEF ShownInv, PennStands
<1>16. TurnInv'
  BY <1>1, <1>3, <1>7, <1>8, <1>9 DEF TurnInv, One
<1>17. NoteInv'
  <2> DEFINE k == Callbacks(Front(rstack))
  <2>1. Callbacks(rstack) = k + One(f.kind = "callback") /\ Callbacks(rstack)' = k
    <3>1. Callbacks(rstack) = k + One(Last(rstack).kind = "callback")
      BY <1>1, <1>4, CallbackPop
    <3> QED
      BY <1>2, <3>1 DEF Callbacks, f
  <2>2. NoteInv
    BY <1>1 DEF LinkInv
  <2>3. k \in Nat
    <3>1. Front(rstack) \in Seq(RFrame) /\ RubyShape(Front(rstack))
      BY <1>1, <1>4, PopType, RubyPop
    <3>2. k = One(Front(rstack) # <<>> /\ Front(rstack)[1].kind = "callback")
      BY <3>1, CallbackCount
    <3> QED
      BY <3>2 DEF One
  <2> HIDE DEF k
  <2>4. CASE f.kind = "callback"
    <3> DEFINE r == One(rsoliciting)  s == One(soliciting)
    <3>1. r = Reqs + s + Acks + (k + 1) /\ r \in {0, 1}
      BY <2>1, <2>2, <2>4 DEF NoteInv, One
    <3>2. s \in Nat /\ Reqs \in Nat
      BY CallbackNat, Sizes
    <3>3. One(rsoliciting') = 0 /\ One(soliciting') = s
      BY <1>1, <1>2, <2>4 DEF One
    <3> HIDE DEF r, s
    <3>4. Reqs = 0 /\ s = 0 /\ k = 0
      <4>1. Reqs + s + 0 + (k + 1) \in {0, 1}
        BY <1>3, <3>1
      <4> QED
        BY <2>3, <3>2, <4>1
    <3>5. One(rsoliciting') = Reqs' + One(soliciting') + Acks' + Callbacks(rstack)'
      BY <1>7, <1>9, <2>1, <3>3, <3>4
    <3> QED
      BY <1>2, <2>4, <3>5 DEF NoteInv
  <2>5. CASE f.kind # "callback"
    <3>1. Callbacks(rstack)' = Callbacks(rstack)
      <4>1. One(f.kind = "callback") = 0
        BY <2>5 DEF One
      <4> QED
        BY <2>1, <2>3, <4>1
    <3>2. rsoliciting' = rsoliciting
      BY <1>2, <2>5
    <3>3. One(rsoliciting') = One(rsoliciting)
      BY <3>2 DEF One
    <3>4. rsoliciting' /\ Callbacks(rstack)' = 0 => queue' # <<>>
      BY <1>2, <2>2, <3>1, <3>2 DEF NoteInv
    <3>5. One(rsoliciting') = Reqs' + One(soliciting') + Acks' + Callbacks(rstack)'
      BY <1>1, <1>3, <1>7, <1>9, <2>2, <3>1, <3>3 DEF NoteInv
    <3> QED
      BY <3>4, <3>5 DEF NoteInv
  <2> QED
    BY <2>4, <2>5
<1> QED
  BY <1>1, <1>11, <1>12, <1>13, <1>14, <1>15, <1>16, <1>17, NestNext

-----------------------------------------------------------------------------
(* NestInv is inductive, given the types and the shape of the stack.       *)

(* Whatever PennMUSH does.                                                 *)
LEMMA PennStep ==
  ASSUME TypeOK, StackShape, NestInv, Softcode \/ Dispatch \/ EventLoop, Follow
  PROVE  NestInv'
<1>1. ASSUME fd' = fd, peer' = peer, fd # 0, UNCHANGED <<base, encoder>>
      PROVE  RubyStands
  BY <1>1 DEF Follow, RubyStands, rubyVars, processVars
<1>2. ASSUME fd' = fd
      PROVE  UNCHANGED <<rstack, rsoliciting, rcontext, queue>>
  BY <1>2 DEF Follow, rubyVars, processVars
<1>3. ASSUME NEW p \in Player, Rpc(p)
      PROVE  NestInv'
  <2>1. RubyStands
    BY <1>1, <1>3 DEF Rpc, SendToRuby, Connected
  <2> QED
    BY <1>3, <2>1, RpcNest
<1>4. CASE (\E p \in Player : RpcStarts(p)) \/ AdminStart
  BY <1>4, LaunchNest
<1>5. CASE \/ RpcFails \/ AdminStop \/ RpcStartFails \/ AdminStartFails
           \/ DispatchRefusedFails \/ DispatchEof \/ PennReplyFails
           \/ PennReplyCrash \/ SetFdFails \/ IsSetFdFails
  BY <1>5, StopNest
<1>6. fd # 0 \/ ~Awaiting
  BY PennWaits DEF NestInv, EndInv
<1>7. CASE DispatchCall \/ DispatchRefused \/ DispatchSolicit \/ DispatchReply
           \/ IsSetFdSolicit
  <2>1. RubyStands
    BY <1>1, <1>6, <1>7
    DEF DispatchCall, DispatchRefused, DispatchSolicit, DispatchReply, IsSetFdSolicit
  <2> QED
    BY <1>7, <2>1, CallNest, RefusedNest, SolicitNest, AnswerNest
<1>8. CASE PennReply
  <2>1. fd # 0
    BY <1>8 DEF PennReply, NestInv, EndInv
  <2>2. RubyStands
    BY <1>1, <1>8, <2>1 DEF PennReply, SendToRuby
  <2> QED
    BY <1>8, <2>2, FunctionNest
<1>9. CASE SetFdCallback
  <2>1. RubyStands
    BY <1>1, <1>9 DEF SetFdCallback, SendToRuby
  <2> QED
    BY <1>9, <2>1, CallbackNest
<1>10. CASE EndCommands \/ SetFdIdle \/ Select \/ EndQueue \/ IsSetFdIdle
  <2>1. UNCHANGED <<wireVars, encoder, inbuf, current, depth, soliciting,
                    cstack, base>>
    BY <1>10 DEF EndCommands, SetFdIdle, Select, EndQueue, IsSetFdIdle
  <2>2. UNCHANGED <<rstack, rsoliciting, rcontext, queue>>
    BY <1>2, <2>1 DEF wireVars
  <2> QED
    BY <2>1, <2>2, QuietNest
<1> QED
  BY <1>3, <1>4, <1>5, <1>7, <1>8, <1>9, <1>10 DEF Softcode, Dispatch, EventLoop

(* Whatever Ruby does.                                                     *)
LEMMA RubyStep ==
  ASSUME TypeOK, StackShape, NestInv, Ruby, Alone
  PROVE  NestInv'
<1>1. UNCHANGED <<encoder, inbuf, current, depth, soliciting, cstack, base>>
  BY DEF Alone, clientVars
<1>2. ASSUME Connected, fd' = fd, peer' = peer
      PROVE  PennStands
  BY <1>1, <1>2 DEF PennStands
<1>3. CASE CheckQueue
  <2>1. PennStands
    BY <1>2, <1>3 DEF CheckQueue, SendToPenn, wireVars
  <2> QED
    BY <1>3, <2>1, CheckNest
<1>4. CASE StartTransaction \/ RecursiveCall
  <2>1. PennStands /\ Arrives /\ DispatchMethod(Head(toRuby))
    BY <1>2, <1>4 DEF StartTransaction, RecursiveCall, Arrives
  <2> QED
    BY <2>1, AcceptNest, TooDeepNest
<1>5. CASE Panic
  BY <1>1, <1>5, HungUp DEF Panic
<1>6. CASE RemoteInvoke
  <2>1. PennStands
    BY <1>2, <1>6 DEF RemoteInvoke, SendToPenn
  <2> QED
    BY <1>6, <2>1, InvokeNest
<1>7. CASE InvokeReturns
  <2>1. PennStands
    BY <1>2, <1>7 DEF InvokeReturns
  <2> QED
    BY <1>7, <2>1, InvokedNest
<1>8. CASE MethodReturns
  <2>1. PennStands
    BY <1>2, <1>8 DEF MethodReturns, SendToPenn
  <2> QED
    BY <1>8, <2>1, ReturnNest
<1>9. CASE InvokeLater \/ ThreadQueues
  <2>1. queue' # <<>>
    <3>1. queue \in Seq(Nat) /\ queue' = Append(queue, posts + 1) /\ posts + 1 \in Nat
      BY <1>9 DEF InvokeLater, ThreadQueues, TypeOK, ConversationTypeOK
    <3> QED
      BY <3>1, AppendProperties
  <2>2. UNCHANGED wireVars /\ UNCHANGED <<rstack, rsoliciting, rcontext>>
    BY <1>9 DEF InvokeLater, ThreadQueues
  <2> QED
    BY <1>1, <2>1, <2>2, QuietNest
<1>10. CASE DrainPipe \/ ThreadWakes
  <2>1. UNCHANGED wireVars /\ UNCHANGED <<rstack, rsoliciting, rcontext, queue>>
    BY <1>10 DEF DrainPipe, ThreadWakes
  <2> QED
    BY <1>1, <2>1, QuietNest
<1> QED
  BY <1>3, <1>4, <1>5, <1>6, <1>7, <1>8, <1>9, <1>10 DEF Ruby

(* Every step keeps it.                                                    *)
LEMMA NestStep == TypeOK /\ StackShape /\ NestInv /\ [Next]_vars => NestInv'
<1> SUFFICES ASSUME TypeOK, StackShape, NestInv, [Next]_vars
             PROVE  NestInv'
  OBVIOUS
<1>1. CASE (Softcode \/ Dispatch \/ EventLoop) /\ Follow
  BY <1>1, PennStep
<1>2. CASE Ruby /\ Alone
  BY <1>2, RubyStep
<1>3. CASE Crash
  BY <1>3, HungUp DEF Crash, clientVars
<1>4. CASE UNCHANGED vars
  BY <1>4, QuietNest DEF vars, clientVars, rubyVars, processVars
<1> QED
  BY <1>1, <1>2, <1>3, <1>4, NextCases

(* No server runs at first.                                                *)
LEMMA NestInit == Init => NestInv
<1> SUFFICES ASSUME Init
             PROVE  NestInv
  OBVIOUS
<1>1. /\ fd = 0 /\ peer = "closed" /\ toRuby = <<>> /\ rstack = <<>>
      /\ cstack = <<>> /\ Len(rstack) = 0
  BY DEF Init, ClientInit, ConversationInit
<1> QED
  BY <1>1, ConversationAssumption
  DEF NestInv, EndInv, ClientInv, RubyShape, Connected, PennTurn, AtTopLevel


-----------------------------------------------------------------------------
(* What the invariant says.                                                *)

(* The stacks differ by the call or the answer under way, and by no more.  *)
LEMMA Apart ==
  ASSUME TypeOK, NestInv, Connected
  PROVE  Ours - Theirs \in {-1, 0, 1}
<1>1. LinkInv
  BY DEF NestInv
<1>2. Ours \in Int /\ Theirs \in Nat
  BY Sizes DEF Ours
<1>3. CASE PennTurn \/ Executing
  BY <1>1, <1>2, <1>3 DEF LinkInv, SizeInv
<1>4. CASE toRuby # <<>>
  <2>1. Head(toRuby) \in ToSet(toRuby) /\ Head(toRuby) \in Message
    BY <1>4, ForRuby
  <2>2. Head(toRuby).type \in {"call", "ack", "req", "reply"}
    BY <2>1 DEF Message
  <2>3. Ours = Theirs + 1 \/ Theirs = Ours + 1
    BY <1>1, <2>1, <2>2 DEF LinkInv, SizeInv
  <2> QED
    BY <1>2, <2>3
<1>5. CASE Due # 0
  <2>1. PICK m \in ToSet(Unread) : m.type \in Answers
    BY <1>5, Sizes
  <2>2. Ours = Theirs + 1 \/ Theirs = Ours + 1
    BY <1>1, <2>1 DEF LinkInv, SizeInv, Answers
  <2> QED
    BY <1>2, <2>2
<1>6. ASSUME ~PennTurn, ~Executing, toRuby = <<>>, Due = 0
      PROVE  FALSE
  <2>1. One(PennTurn) = 0 /\ One(Executing) = 0 /\ Len(toRuby) = 0
    BY <1>6 DEF One
  <2>2. 1 = 0 + 0 + 0 + 0
    BY <1>1, <1>6, <2>1 DEF LinkInv, TurnInv
  <2> QED
    BY <2>2
<1> QED
  BY <1>3, <1>4, <1>5, <1>6

(* What is found at a position of a channel is one of its messages.        *)
LEMMA InChannel ==
  /\ \A i \in DOMAIN toRuby : toRuby[i] \in ToSet(toRuby)
  /\ \A i \in DOMAIN Unread : Unread[i] \in ToSet(Unread)
  BY DEF ToSet

(* Everything NestInv and the types are proved for holds always.           *)
LEMMA Always == Spec => [](TypeOK /\ StackShape /\ NestInv)
<1> QED
  BY TypeInit, TypeStep, ShapeStep, NestInit, NestStep, PTL DEF Spec

(* Exactly one of PennMUSH, Ruby and a message between them holds the      *)
(* turn, so "everything happens in order on a single thread" although two  *)
(* processes call each other.                                              *)
THEOREM TurnsAreTaken == Spec => []TurnTaking
<1>1. TypeOK /\ NestInv => TurnTaking
  BY DEF NestInv, LinkInv, TurnInv, TurnTaking, One, PennTurn, Due, Answers
<1> QED
  BY <1>1, Always, PTL

(* A solicitation is in exactly one place, from the rpc.req that makes it  *)
(* to the callback that ends it: none is lost, and no second one is sent.  *)
THEOREM NotifiesOnce == Spec => []OneNotification
<1>1. NestInv => OneNotification
  BY DEF NestInv, LinkInv, NoteInv, OneNotification, One, Reqs, Acks, Callbacks
<1> QED
  BY <1>1, Always, PTL

(* The call stacks of the two processes match call by call, and whatever   *)
(* answer is under way answers the innermost call of its reader.           *)
THEOREM StacksAgree == Spec => []NestingAgrees
<1>1. TypeOK /\ StackShape /\ NestInv => NestingAgrees
  <2> SUFFICES ASSUME TypeOK, StackShape, NestInv
               PROVE  NestingAgrees
    OBVIOUS
  <2>1. cstack \in Seq(CFrame) /\ Len(cstack) \in Nat /\ base \in Nat
        /\ Theirs \in Nat /\ Ours \in Int /\ Len(rstack) \in Nat
        /\ (rstack = <<>> <=> Len(rstack) = 0) /\ DOMAIN rstack = 1..Len(rstack)
    BY Sizes DEF TypeOK, ClientTypeOK, ConversationTypeOK, Ours, Theirs
  <2>2. ASSUME Connected, Len(cstack) >= base
        PROVE  /\ \A i \in DOMAIN Mine \cap DOMAIN rstack : Matches(Mine[i], rstack[i])
               /\ Len(Mine) - Len(rstack) \in {-1, 0, 1}
               /\ \A i \in DOMAIN toRuby : toRuby[i].type = "reply" =>
                    Len(rstack) > Len(Mine) /\ toRuby[i].id = Last(rstack).id
    <3>1. LinkInv
      BY <2>2 DEF NestInv
    <3>2. /\ Len(Mine) = Ours /\ DOMAIN Mine = 1..Ours
          /\ \A i \in 1..Ours : Mine[i] = cstack[base + i]
      <4> DEFINE a == base + 1  z == Len(cstack)
      <4>1. a \in Int /\ z \in Int /\ \A i \in a..z : cstack[i] \in CFrame
        BY <2>1, ElementOfSeq
      <4> HIDE DEF a, z
      <4>2. /\ SubSeq(cstack, a, z) \in Seq(CFrame)
            /\ Len(SubSeq(cstack, a, z)) = IF a <= z THEN z - a + 1 ELSE 0
            /\ \A i \in 1..(z - a + 1) : SubSeq(cstack, a, z)[i] = cstack[a + i - 1]
        BY <4>1, SubSeqProperties
      <4>3. Mine = SubSeq(cstack, a, z) /\ z - a + 1 = Ours
        BY <2>1 DEF Mine, a, z, Ours
      <4>4. Len(Mine) = Ours
        BY <2>1, <2>2, <4>1, <4>2, <4>3 DEF a, z
      <4>5. ASSUME NEW i \in 1..Ours PROVE Mine[i] = cstack[base + i]
        <5>1. Mine[i] = cstack[a + i - 1]
          BY <4>2, <4>3, <4>5
        <5>2. a + i - 1 = base + i
          BY <2>1 DEF a
        <5> QED
          BY <5>1, <5>2
      <4>6. DOMAIN Mine = 1..Ours
        BY <4>2, <4>3, <4>4
      <4> QED
        BY <4>4, <4>5, <4>6
    <3>3. \A i \in DOMAIN Mine \cap DOMAIN rstack : Matches(Mine[i], rstack[i])
      BY <2>1, <3>1, <3>2 DEF LinkInv, Paired, Ours
    <3>4. Len(Mine) - Len(rstack) \in {-1, 0, 1}
      BY <2>2, <3>2, Apart DEF Theirs
    <3>5. ASSUME NEW i \in DOMAIN toRuby, toRuby[i].type = "reply"
          PROVE  Len(rstack) > Len(Mine) /\ toRuby[i].id = Last(rstack).id
      <4>1. Theirs = Ours + 1 /\ (rstack # <<>> => toRuby[i].id = Last(rstack).id)
        BY <3>1, <3>5, InChannel DEF LinkInv, SizeInv
      <4>2. Ours >= 0
        BY <2>1, <2>2 DEF Ours
      <4> QED
        BY <2>1, <3>2, <4>1, <4>2 DEF Theirs
    <3> QED
      BY <3>3, <3>4, <3>5
  <2>3. ASSUME NEW i \in DOMAIN Unread, fd # 0, Unread[i].type = "reply"
        PROVE  Awaiting /\ Unread[i].id = Last(cstack).id
    <3>1. ClientInv /\ Unread[i] \in ToSet(Unread)
      BY InChannel DEF NestInv
    <3>2. Due # 0
      BY <2>3, <3>1, Sizes DEF Answers
    <3> QED
      BY <2>3, <3>1, <3>2, PennWaits DEF ClientInv
  <2> QED
    BY <2>2, <2>3 DEF NestingAgrees
<1> QED
  BY <1>1, Always, PTL

(* A function that Ruby calls runs in the context Ruby shows the method    *)
(* that called it.                                                         *)
THEOREM ContextIsShown == Spec => []ContextShown
<1>1. TypeOK /\ NestInv => ContextShown
  <2> SUFFICES ASSUME TypeOK, NestInv, Serving, Connected, Len(cstack) > base
               PROVE  current = rcontext
    BY DEF ContextShown
  <2>1. Ours = Theirs /\ LinkInv
    BY PennsTurn DEF PennTurn, NestInv
  <2>2. Ours > 0
    BY Sizes DEF Ours
  <2> QED
    BY <2>1, <2>2 DEF LinkInv, ShownInv
<1> QED
  BY <1>1, Always, PTL

(* Between transactions neither side has a call open, and info->depth is 0 *)
(* again, also when a server was launched in the middle of one.            *)
THEOREM TopLevelIsBalanced == Spec => []TopLevelBalanced
<1>1. TypeOK /\ NestInv => TopLevelBalanced
  <2> SUFFICES ASSUME TypeOK, NestInv, AtTopLevel, fd # 0
               PROVE  depth = 0 /\ base = 0 /\ rstack = <<>>
    BY DEF TopLevelBalanced
  <2>1. Len(cstack) = 0 /\ base \in Nat /\ PennTurn
    BY Sizes DEF AtTopLevel, PennTurn
  <2>2. Ours >= -1 /\ Ours # -1 /\ depth = Ours
    BY <2>1 DEF NestInv, ClientInv
  <2>3. base = 0 /\ Ours = 0
    BY <2>1, <2>2 DEF Ours
  <2>4. rstack = <<>>
    <3>1. CASE Connected
      <4>1. Theirs = 0
        BY <2>1, <2>3, <3>1, PennsTurn
      <4> QED
        BY <4>1, Sizes DEF Theirs
    <3>2. CASE ~Connected
      BY <3>2 DEF NestInv, EndInv
    <3> QED
      BY <3>1, <3>2
  <2> QED
    BY <2>2, <2>3, <2>4
<1> QED
  BY <1>1, Always, PTL

(* MAX_DEPTH bounds the recursion of PennMUSH too, which does not check it.*)
THEOREM RecursionIsBounded == Spec => []RecursionBounded
<1>1. TypeOK /\ NestInv => RecursionBounded
  <2> SUFFICES ASSUME TypeOK, NestInv
               PROVE  RecursionBounded
    OBVIOUS
  <2>1. Len(rstack) <= MaxDepth /\ MaxDepth \in Nat /\ Len(rstack) \in Nat
        /\ Ours \in Int
    BY Sizes, ConversationAssumption DEF NestInv, EndInv, Ours, Theirs
  <2>2. ASSUME Connected PROVE Len(cstack) - base <= MaxDepth + 1
    <3>1. Ours - Len(rstack) \in {-1, 0, 1}
      BY <2>2, Apart DEF Theirs
    <3>2. Ours <= MaxDepth + 1
      BY <2>1, <3>1
    <3> QED
      BY <3>2 DEF Ours
  <2> QED
    BY <2>1, <2>2 DEF RecursionBounded
<1> QED
  BY <1>1, Always, PTL

(* Ruby reads an answer it did not ask for, and panics, only when its      *)
(* process was launched under the call that is answered.                   *)
THEOREM StrayAnswers == Spec => []StrayOnlyAfterRestart
<1>1. TypeOK /\ NestInv => StrayOnlyAfterRestart
  <2> SUFFICES ASSUME TypeOK, NestInv, NEW i \in DOMAIN toRuby,
                      toRuby[i].type = "reply", rstack = <<>>
               PROVE  Len(cstack) < base
    BY DEF StrayOnlyAfterRestart
  <2>1. toRuby[i] \in ToSet(toRuby) /\ toRuby # <<>>
    BY InChannel
  <2>2. LinkInv
    BY <2>1 DEF NestInv, EndInv
  <2>3. Theirs = Ours + 1 /\ Theirs = 0
    BY <2>1, <2>2, Sizes DEF LinkInv, SizeInv, Theirs
  <2> QED
    BY <2>3, Sizes DEF Ours
<1> QED
  BY <1>1, Always, PTL
=============================================================================
