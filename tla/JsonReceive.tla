---------------------------- MODULE JsonReceive ----------------------------
(***************************************************************************)
(* How json_server_receive() (src/src/json/json.c) cuts the stream of the  *)
(* socket into objects, and where the strings of a message are kept.       *)
(*                                                                         *)
(* YAJL parses one document only, so the bytes are scanned for the end of  *)
(* an object before they are parsed.  The strings go to a buffer of a pool *)
(* that the server and all messages share: messages are on the C stack of  *)
(* calls within one another (src/src/json/server.c), and some may be left  *)
(* when the server is stopped, and when another one is started.            *)
(***************************************************************************)
EXTENDS Integers, SequencesExt

CONSTANTS
  Objects,     \* bound: the objects that are sent, as sequences of bytes
  BufferSize,  \* JSON_SERVER_BUFFER_SIZE
  Pools,       \* addresses of allocation pools
  Buffers,     \* addresses of allocators
  NULL,
  MaxDue,      \* bound: objects on the way
  MaxDepth     \* bound: messages on the stack

(* The bytes that tell where an object ends.                               *)
Byte == {"{", "}", "quote", "backslash", "other"}

(* The byte at i of o is escaped if an odd number of backslashes is right  *)
(* before it; quotes that are not open and close strings in turn.          *)
Run(o, i, k) ==
  /\ \A j \in (i - k)..(i - 1) : o[j] = "backslash"
  /\ k + 1 = i \/ o[i - k - 1] # "backslash"

Escaped(o, i) == \E k \in 0..(i - 1) : Run(o, i, k) /\ k % 2 = 1
Quotes(o, i) == { j \in 1..(i - 1) : o[j] = "quote" /\ ~Escaped(o, j) }
Quoted(o, i) == Cardinality(Quotes(o, i)) % 2 = 1

(* The braces of one kind that structure the first i bytes.                *)
Braces(o, i, b) == { j \in 1..i : o[j] = b /\ ~Quoted(o, j) }
Level(o, i) == Cardinality(Braces(o, i, "{")) - Cardinality(Braces(o, i, "}"))

(* An object is closed by its last byte; backslashes are in strings only.  *)
IsObject(o) ==
  /\ o \in Seq(Byte) /\ o # <<>>
  /\ o[1] = "{"
  /\ \A i \in 1..Len(o) : Level(o, i) = 0 <=> i = Len(o)
  /\ \A i \in 1..Len(o) : o[i] = "backslash" => Quoted(o, i)

ASSUME ReceiveAssumption ==
  /\ NULL \notin Pools \cup Buffers
  /\ BufferSize \in Nat \ {0}
  /\ \A o \in Objects : IsObject(o)

VARIABLES
  up,         \* server.fd # -1
  toPenn,     \* the bytes in the socket
  due,        \* reference: the objects sent and not received yet
  fed,        \* how much of the first of them YAJL has parsed
  in_buf,     \* server.in_buf, up to in_len
  in_off,     \* server.in_off
  lex,        \* server.lex_ctx, lex_depth and lex_off
  msgs,       \* the messages on the stack, innermost last
  internal,   \* server.internal: the pool
  pools,      \* the pools that are allocated
  poolOf      \* the pool of each allocator that is allocated

wire == <<toPenn, due, fed>>
input == <<in_buf, in_off, lex>>
heap == <<internal, pools, poolOf>>
vars == <<up, wire, input, msgs, heap>>

Cleared(kind) == [kind |-> kind, at |-> "receiving", buf |-> NULL, error |-> FALSE]

Top == Last(msgs)
On(points) == msgs # <<>> /\ Top.at \in points
SetTop(m) == msgs' = Append(Front(msgs), m)
Pop == msgs' = Front(msgs)

Init ==
  /\ up = FALSE
  /\ toPenn = <<>> /\ due = <<>> /\ fed = 0
  /\ in_buf = <<>> /\ in_off = 0
  /\ lex = [ctx |-> "text", depth |-> 0, off |-> 0]
  /\ msgs = <<>>
  /\ internal = NULL /\ pools = [p \in {} |-> 0] /\ poolOf = [b \in {} |-> 0]

-----------------------------------------------------------------------------
(* The lexer.                                                              *)

(* Mutant: a quote ends a string even if a backslash is before it.         *)
ContextWithoutEscapes(ctx, c) ==
  CASE ctx = "text"   -> IF c = "quote" THEN "string" ELSE "text"
    [] ctx = "string" -> IF c = "quote" THEN "text" ELSE "string"
    [] ctx = "escape" -> "string"

Context(ctx, c) ==
  CASE ctx = "text"   -> IF c = "quote" THEN "string" ELSE "text"
    [] ctx = "string" -> IF c = "quote" THEN "text"
                         ELSE IF c = "backslash" THEN "escape" ELSE "string"
    [] ctx = "escape" -> "string"

LexByte(l, c) ==
  LET brace(b) == l.ctx = "text" /\ c = b
  IN IF l.done THEN l
     ELSE [ctx   |-> Context(l.ctx, c),
           depth |-> CASE brace("{") -> l.depth + 1
                       [] brace("}") -> l.depth - 1
                       [] OTHER      -> l.depth,
           off   |-> l.off + 1,
           done  |-> brace("}") /\ l.depth = 1]

Lexed(l, s) ==
  FoldLeft(LexByte, [ctx |-> l.ctx, depth |-> l.depth, off |-> l.off, done |-> FALSE], s)

(* lexer_prescan() of what is in the buffer.                               *)
Prescan(buf, off, l) ==
  IF off < l.off THEN l
  ELSE LET end == Lexed(l, SubSeq(buf, l.off + 1, Len(buf)))
       IN [ctx |-> end.ctx, depth |-> end.depth, off |-> end.off]

-----------------------------------------------------------------------------
(* The pool.  What malloc() returns is not in use.                         *)

Without(f, S) == Restrict(f, DOMAIN f \ S)
With(f, x, y) == [z \in DOMAIN f \cup {x} |-> IF z = x THEN y ELSE f[z]]

(* release_json_pool(): the pool goes with its last reference, and takes   *)
(* the free allocators with it.                                            *)
Released(ps, bs, p) ==
  IF ps[p].refs > 1
    THEN [pools |-> [ps EXCEPT ![p].refs = @ - 1], poolOf |-> bs]
    ELSE [pools |-> Without(ps, {p}), poolOf |-> Without(bs, Range(ps[p].available))]

(* Mutant: the pool is not told that one of its allocators came back.      *)
MessageClearedOnly(ps, bs, buf) ==
  IF buf = NULL THEN [pools |-> ps, poolOf |-> bs]
  ELSE [pools |-> [ps EXCEPT ![bs[buf]].available = <<buf>> \o @], poolOf |-> bs]

(* json_server_message_clear(): the allocator goes back to the pool it is  *)
(* from, which may not be the pool of the server any more.                 *)
MessageCleared(ps, bs, buf) ==
  IF buf = NULL THEN [pools |-> ps, poolOf |-> bs]
  ELSE Released([ps EXCEPT ![bs[buf]].available = <<buf>> \o @], bs, bs[buf])

(* The message on top is cleared, and no more.                             *)
Clear ==
  LET h == MessageCleared(pools, poolOf, Top.buf)
  IN /\ pools' = h.pools
     /\ poolOf' = h.poolOf
     /\ UNCHANGED internal

(* The message on top is cleared, and json_server_stop() called.           *)
ClearAndStop ==
  LET h == MessageCleared(pools, poolOf, Top.buf)
      g == IF internal = NULL THEN h ELSE Released(h.pools, h.poolOf, internal)
  IN /\ pools' = g.pools
     /\ poolOf' = g.poolOf
     /\ internal' = NULL
     /\ up' = FALSE
     /\ toPenn' = <<>> /\ due' = <<>> /\ fed' = 0
     /\ UNCHANGED input

(* alloc_json_alloc(): the first string of the message is stored.          *)
StoreString ==
  /\ On({"receiving", "parsed"}) /\ up
  /\ Top.at = "receiving" => fed > 0
  /\ Top.buf = NULL /\ ~Top.error
  /\ \E p \in IF internal = NULL THEN Pools \ DOMAIN pools ELSE {internal} :
       LET ps == IF internal = NULL
                   THEN With(pools, p, [refs |-> 1, available |-> <<>>])
                   ELSE pools
           free == ps[p].available
       IN /\ internal' = p
          /\ \/ /\ free # <<>>
                /\ pools' = [ps EXCEPT ![p].refs = @ + 1, ![p].available = Tail(@)]
                /\ SetTop([Top EXCEPT !.buf = Head(free)])
                /\ UNCHANGED poolOf
             \/ /\ free = <<>>
                /\ \E b \in Buffers \ DOMAIN poolOf :
                     /\ poolOf' = With(poolOf, b, p)
                     /\ SetTop([Top EXCEPT !.buf = b])
                /\ pools' = [ps EXCEPT ![p].refs = @ + 1]
             \/ /\ free = <<>>  \* malloc() fails
                /\ pools' = ps
                /\ SetTop([Top EXCEPT !.error = TRUE])
                /\ UNCHANGED poolOf
  /\ UNCHANGED <<up, wire, input>>

(* malloc() of the pool fails.                                             *)
NoPool ==
  /\ On({"receiving", "parsed"}) /\ up
  /\ Top.at = "receiving" => fed > 0
  /\ Top.buf = NULL /\ ~Top.error /\ internal = NULL
  /\ SetTop([Top EXCEPT !.error = TRUE])
  /\ UNCHANGED <<up, wire, input, heap>>

-----------------------------------------------------------------------------
(* The other process sends an object.                                      *)
Send(o) ==
  /\ up
  /\ Len(due) < MaxDue
  /\ toPenn' = toPenn \o o
  /\ due' = Append(due, o)
  /\ UNCHANGED <<up, fed, input, msgs, heap>>

(* rpc() from softcode, at top level or while a request is served, which   *)
(* a local error is not; it starts the server if that is stopped.          *)
Call ==
  /\ msgs # <<>> => On({"serving"}) /\ ~Top.error
  /\ Len(msgs) < MaxDepth
  /\ msgs' = Append(msgs, Cleared("call"))
  /\ up' = TRUE
  /\ IF up THEN UNCHANGED <<input, internal>>
     ELSE /\ in_buf' = <<>> /\ in_off' = 0
          /\ lex' = [lex EXCEPT !.ctx = "text", !.depth = 0]
          /\ internal' = NULL
  /\ UNCHANGED <<wire, pools, poolOf>>

(* json_server_receive_solicit(), when something is buffered or arrived.   *)
Solicit ==
  /\ msgs = <<>> /\ up
  /\ in_off < Len(in_buf) \/ toPenn # <<>>
  /\ msgs' = <<Cleared("solicit")>>
  /\ UNCHANGED <<up, wire, input, heap>>

(* Once around the loop of json_server_receive().                          *)
Around(buf, off, l) ==
  LET end == Prescan(buf, off, l)
      now == fed + end.off - off
  IN /\ in_buf' = buf
     /\ in_off' = end.off
     /\ lex' = end
     /\ IF now = Len(Head(due))
          THEN /\ fed' = 0
               /\ due' = Tail(due)
               /\ SetTop([Top EXCEPT !.at = "parsed"])
          ELSE /\ fed' = now
               /\ UNCHANGED <<due, msgs>>

MoreOfBuffer ==
  /\ On({"receiving"}) /\ up
  /\ in_off < Len(in_buf)
  /\ Around(in_buf, in_off, lex)
  /\ UNCHANGED <<up, toPenn, heap>>

(* Mutant: read() starts the lexer afresh.                                 *)
ReadAfresh(n) ==
  /\ On({"receiving"}) /\ up
  /\ in_off = Len(in_buf)
  /\ toPenn' = SubSeq(toPenn, n + 1, Len(toPenn))
  /\ Around(SubSeq(toPenn, 1, n), 0, [ctx |-> "text", depth |-> lex.depth, off |-> 0])
  /\ UNCHANGED <<up, heap>>

Read(n) ==
  /\ On({"receiving"}) /\ up
  /\ in_off = Len(in_buf)
  /\ toPenn' = SubSeq(toPenn, n + 1, Len(toPenn))
  /\ Around(SubSeq(toPenn, 1, n), 0, [lex EXCEPT !.off = 0])
  /\ UNCHANGED <<up, heap>>

(* The end of the stream, or a message that is not valid.                  *)
ReceiveFails ==
  /\ On({"receiving", "parsed"}) /\ up
  /\ Pop
  /\ ClearAndStop

(* A message of one of the two kinds was received by a call.               *)
Received ==
  /\ On({"parsed"}) /\ Top.kind = "call"
  /\ \/ (Top.buf # NULL \/ Top.error) /\ SetTop([Top EXCEPT !.at = "serving"])
     \/ SetTop([Top EXCEPT !.at = "answered"])
  /\ UNCHANGED <<up, wire, input, heap>>

(* The notification was received, or something else, which stops the       *)
(* server.                                                                 *)
Solicited ==
  /\ On({"parsed"}) /\ Top.kind = "solicit"
  /\ Pop
  /\ \/ Clear /\ UNCHANGED <<up, wire, input>>
     \/ ClearAndStop

(* The request was served and the result sent; json_server_dispatch()      *)
(* receives the next message.                                              *)
Serve ==
  /\ On({"serving"}) /\ up
  /\ SetTop(Cleared("call"))
  /\ Clear
  /\ UNCHANGED <<up, wire, input>>

(* The result cannot be sent: the server may have been stopped meanwhile.  *)
ServeFails ==
  /\ On({"serving"})
  /\ Pop
  /\ ClearAndStop

(* The result was given to softcode.                                       *)
Answered ==
  /\ On({"answered"})
  /\ Pop
  /\ Clear
  /\ UNCHANGED <<up, wire, input>>

(* @rpc stop.                                                              *)
Stop ==
  /\ msgs = <<>> /\ up
  /\ LET g == IF internal = NULL THEN [pools |-> pools, poolOf |-> poolOf]
              ELSE Released(pools, poolOf, internal)
     IN pools' = g.pools /\ poolOf' = g.poolOf
  /\ internal' = NULL /\ up' = FALSE
  /\ toPenn' = <<>> /\ due' = <<>> /\ fed' = 0
  /\ UNCHANGED <<input, msgs>>

Next ==
  \/ \E o \in Objects : Send(o)
  \/ Call \/ Solicit
  \/ \E n \in 1..BufferSize : n <= Len(toPenn) /\ Read(n)
  \/ MoreOfBuffer
  \/ StoreString \/ NoPool
  \/ ReceiveFails \/ Received \/ Solicited
  \/ Serve \/ ServeFails \/ Answered
  \/ Stop

Spec == Init /\ [][Next]_vars

-----------------------------------------------------------------------------
(* However the stream is chunked by read(), YAJL gets each object by       *)
(* itself and up to its end, and no byte is lost or parsed twice: what is  *)
(* in the buffer and in the socket is what is left of the objects due.     *)
ObjectsCut ==
  up =>
    /\ due # <<>> => fed < Len(Head(due))
    /\ fed > 0 => On({"receiving"})
    /\ SubSeq(in_buf, in_off + 1, Len(in_buf)) \o toPenn
         = SubSeq(FlattenSeq(due), fed + 1, Len(FlattenSeq(due)))

Holding(p) == { i \in DOMAIN msgs : msgs[i].buf # NULL /\ poolOf[msgs[i].buf] = p }

(* The strings of a message stay where they are until it is cleared: its   *)
(* allocator is allocated, is of no other message and on no free list,     *)
(* though servers are stopped and started in between.  Nothing is freed    *)
(* twice, and nothing is left that no one would free.                      *)
BuffersHeld ==
  /\ \A i \in DOMAIN msgs : msgs[i].buf # NULL =>
       /\ msgs[i].buf \in DOMAIN poolOf
       /\ \A j \in DOMAIN msgs : msgs[j].buf = msgs[i].buf => i = j
       /\ msgs[i].buf \notin Range(pools[poolOf[msgs[i].buf]].available)
  /\ internal # NULL => up /\ internal \in DOMAIN pools
  /\ \A p \in DOMAIN pools :
       /\ IsInjective(pools[p].available)
       /\ \A b \in Range(pools[p].available) : b \in DOMAIN poolOf /\ poolOf[b] = p
       /\ pools[p].refs = Cardinality(Holding(p)) + (IF internal = p THEN 1 ELSE 0)
       /\ pools[p].refs > 0
  /\ \A b \in DOMAIN poolOf :
       /\ poolOf[b] \in DOMAIN pools
       /\ \/ b \in Range(pools[poolOf[b]].available)
          \/ \E i \in DOMAIN msgs : msgs[i].buf = b
=============================================================================
