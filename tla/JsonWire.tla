------------------------------ MODULE JsonWire ------------------------------
(***************************************************************************)
(* The socket pair between PennMUSH (src/src/json) and one Ruby            *)
(* conversation server (src/game/ruby), and the messages it carries.       *)
(*                                                                         *)
(* Messages are whole PennJSON objects: cutting the byte stream into       *)
(* objects is the lexer's and the parsers' business.  A message keeps its  *)
(* kind, the context it was sent with and a history field, "id", that says *)
(* which call it makes or answers.  Results and errors are both "reply":   *)
(* they unwind one call each and differ only in the text they carry.       *)
(*                                                                         *)
(* Every launched process has its own socket pair, numbered 1, 2, ... in   *)
(* order of launch; fd is the number of the pair PennMUSH holds and 0      *)
(* stands for the -1 of the source.  The channels are those of pair fd:    *)
(* what the process behind a pair PennMUSH has closed still does reaches   *)
(* nobody.                                                                 *)
(***************************************************************************)
EXTENDS Integers, Sequences, SequencesExt

CONSTANTS
  Player,   \* the objects whose softcode calls rpc()
  God,      \* JSON_SERVER_CALLBACK_EXECUTOR, the executor of callbacks
  Nobody    \* the context before any call

VARIABLES
  fd,       \* server.fd
  peer,     \* is Ruby's end of the pair open?
  toRuby,   \* sent by PennMUSH, not read by Ruby
  toPenn    \* sent by Ruby, not read by PennMUSH

wireVars == <<fd, peer, toRuby, toPenn>>

Context == Player \cup {God, Nobody}

Message == [type : {"call", "ack", "req", "reply"}, id : Nat, ctx : Context]

Call(id, c) == [type |-> "call",  id |-> id, ctx |-> c]
Ack(c)      == [type |-> "ack",   id |-> 0,  ctx |-> c]
Solicit     == [type |-> "req",   id |-> 0,  ctx |-> Nobody]
Reply(id)   == [type |-> "reply", id |-> id, ctx |-> Nobody]

WireTypeOK ==
  /\ fd \in Nat
  /\ peer \in {"open", "closed"}
  /\ toRuby \in Seq(Message)
  /\ toPenn \in Seq(Message)

(* A process is running behind the pair PennMUSH holds.                    *)
Connected == fd # 0 /\ peer = "open"

(* socketpair() and fork(): a new pair whose first messages are msgs.      *)
OpenPair(n, msgs) ==
  /\ fd' = n
  /\ peer' = "open"
  /\ toRuby' = msgs
  /\ toPenn' = <<>>

(* close() of PennMUSH's end; whatever was in flight is lost.              *)
ClosePair ==
  /\ fd' = 0
  /\ peer' = "closed"
  /\ toRuby' = <<>>
  /\ toPenn' = <<>>

(* The Ruby process is gone.  What it had sent can still be read.          *)
HangUp ==
  /\ peer' = "closed"
  /\ toRuby' = <<>>
  /\ UNCHANGED <<fd, toPenn>>

SendToRuby(m) == toRuby' = Append(toRuby, m) /\ UNCHANGED <<fd, peer, toPenn>>
=============================================================================
