----------------------------- MODULE JsonParser -----------------------------
(***************************************************************************)
(* The parser of src/src/json/json.c: the YAJL callbacks that turn one JSON*)
(* object into a JSON_Server_Message, and the verdict that                 *)
(* json_server_receive() passes on it.                                     *)
(*                                                                         *)
(* YAJL calls back in the order of a well-formed document: path, due and   *)
(* members say what that document was so far and are never read by the     *)
(* parser.  Of a value only its type matters, and every scalar type that   *)
(* no callback has a use for (true, 1.5) is "other".  A key is one of the  *)
(* tokens, "other" for one that no token begins with, or "empty" for the   *)
(* empty key, with which every token begins.                               *)
(***************************************************************************)
EXTENDS Integers, Sequences, SequencesExt, FiniteSets

CONSTANTS
  Key,         \* the keys that occur
  MayRunOut,   \* may an allocation for a string fail?
  MaxNesting,  \* bound: depth of a document
  MaxMembers   \* bound: members of a document that its grammar knows

RootToken  == {"result", "method", "params", "context", "error"}
ErrorToken == {"code", "message"}

ASSUME ParserAssumption ==
  /\ Key \subseteq RootToken \cup ErrorToken \cup {"other", "empty"}
  /\ MayRunOut \in BOOLEAN
  /\ MaxNesting \in Nat
  /\ MaxMembers \in Nat

VARIABLES
  state,          \* server.state, while receiving
  key_idx,        \* server.key_idx, the token or "none" for -1
  saved_state,    \* server.saved_state
  nesting_depth,  \* server.nesting_depth
  parts_seen,     \* server.parts_seen
  type,           \* msg.type
  local_error,    \* is msg.local_error set?
  body,           \* history: whose string msg.int_off is the offset of
  outcome,        \* what json_server_receive() made of it
  path,           \* history: the open objects and arrays, outermost first
  due,            \* history: the key whose value comes next, or "none"
  members,        \* history: the members of the message that it knows
  repeated        \* history: did a token occur twice in one object?

msgVars == <<type, local_error, body>>
parserVars == <<state, key_idx, saved_state, nesting_depth, parts_seen, msgVars>>
docVars == <<path, due, members, repeated>>
vars == <<parserVars, outcome, docVars>>

State  == {"WAITING", "MESSAGE", "PARAMS", "CONTEXT", "ERROR", "COMPOSITE",
           "READY"}
Scalar == {"null", "integer", "string", "other"}
Part   == 0..2
Opened == [kind : {"map", "array"}, name : Key \cup {"item"}]
Member == [at   : {"message", "error", "params"},
           name : RootToken \cup ErrorToken \cup {"item"},
           val  : Scalar \cup {"map", "array"}]

-----------------------------------------------------------------------------
(* The document YAJL reads.                                                *)

Inner == path[2]

(* What the message's grammar has an object or array at the second level   *)
(* for; "COMPOSITE" if nothing.                                            *)
Section ==
  CASE Inner = [kind |-> "map",   name |-> "context"] -> "CONTEXT"
    [] Inner = [kind |-> "map",   name |-> "error"]   -> "ERROR"
    [] Inner = [kind |-> "array", name |-> "params"]  -> "PARAMS"
    [] OTHER -> "COMPOSITE"

Place ==
  IF Len(path) = 1 THEN "message"
  ELSE IF Len(path) # 2 THEN "elsewhere"
  ELSE CASE Section = "ERROR"  -> "error"
         [] Section = "PARAMS" -> "params"
         [] OTHER -> "elsewhere"

InMap   == path # <<>> /\ Last(path).kind = "map"
KeyDue  == InMap /\ due = "none"
ValueDue == InMap => due # "none"
Name    == IF InMap THEN due ELSE "item"

(* The names of the members the grammar knows.                             *)
Known(at) == CASE at = "message" -> RootToken
               [] at = "error"   -> ErrorToken
               [] at = "params"  -> {"item"}
               [] OTHER          -> {}

(* A value of type v is what the document has next.                        *)
Note(v) ==
  /\ outcome = "parsing" /\ ValueDue
  /\ due' = "none"
  /\ IF Name \notin Known(Place)
       THEN UNCHANGED <<members, repeated>>
       ELSE /\ members' = members \cup {[at |-> Place, name |-> Name, val |-> v]}
            /\ Cardinality(members') <= MaxMembers
            /\ repeated' = (repeated \/ \E x \in members :
                              x.at = Place /\ x.name = Name /\ Name # "item")

-----------------------------------------------------------------------------
(* A callback that returns 0 cancels the parse, which is fatal.            *)
Fatal == outcome' = "fatal" /\ UNCHANGED parserVars

Same == UNCHANGED outcome

(* find_token() compares as many characters as the key has: none of the    *)
(* empty one, which is taken for the first token of the table.             *)
FindToken(table, first, key) ==
  IF key \in table THEN key ELSE IF key = "empty" THEN first ELSE "none"

(* parser_mark() and parser_mark_part(): can the type of the message still *)
(* become t, and then it does.                                             *)
CanMark == type = "NONE"
CanMarkPart(t, p) == type = "NONE" \/ (type = t /\ ~parts_seen[p])

(* Mutant: the parts of the message before are not forgotten.              *)
MarkPartOverOld(t, p) ==
  /\ type' = t
  /\ parts_seen' = [parts_seen EXCEPT ![p] = TRUE]

MarkPart(t, p) ==
  /\ type' = t
  /\ parts_seen' = IF type = "NONE" THEN [q \in Part |-> q = p]
                   ELSE [parts_seen EXCEPT ![p] = TRUE]

(* Mutant: a string that cannot be stored is left out.                     *)
SetMessageUnchecked(key) ==
  /\ UNCHANGED local_error
  /\ IF local_error THEN UNCHANGED body
     ELSE body' \in {key} \cup (IF MayRunOut THEN {body} ELSE {})

(* parser_set_message(): nothing is stored in a local error state.         *)
SetMessage(key) ==
  \/ /\ local_error \/ MayRunOut
     /\ local_error' = TRUE
     /\ UNCHANGED body
  \/ /\ ~local_error
     /\ body' = key
     /\ UNCHANGED local_error

(* parse_value(): what becomes of a value no callback has a use for.       *)
IgnoresValue ==
  \/ state \in {"COMPOSITE", "CONTEXT"}
  \/ state \in {"MESSAGE", "ERROR"} /\ key_idx = "none"
RaisesLocal ==
  \/ state = "PARAMS"
  \/ state = "MESSAGE" /\ key_idx = "result"

ParseValue ==
  IF IgnoresValue THEN Same /\ UNCHANGED parserVars
  ELSE IF RaisesLocal
    THEN /\ Same /\ local_error' = TRUE
         /\ UNCHANGED <<state, key_idx, saved_state, nesting_depth, parts_seen,
                        type, body>>
    ELSE Fatal

-----------------------------------------------------------------------------
(* handle_string(), with the one of a params item that may not fit.        *)
StringResult == state = "MESSAGE" /\ key_idx = "result"
StringMethod == state = "MESSAGE" /\ key_idx = "method"
StringError  == state = "ERROR" /\ key_idx = "message"

HandleString ==
  /\ Note("string")
  /\ UNCHANGED path
  /\ CASE StringResult ->
            IF ~CanMark THEN Fatal
            ELSE /\ type' = "RESULT" /\ SetMessage("result") /\ Same
                 /\ UNCHANGED <<state, key_idx, saved_state, nesting_depth,
                                parts_seen>>
       [] StringMethod ->
            IF ~CanMarkPart("REQUEST", 0) THEN Fatal
            ELSE /\ MarkPart("REQUEST", 0) /\ SetMessage("method") /\ Same
                 /\ UNCHANGED <<state, key_idx, saved_state, nesting_depth>>
       [] StringError ->
            IF ~CanMarkPart("ERROR", 2) THEN Fatal
            ELSE /\ MarkPart("ERROR", 2) /\ SetMessage("message") /\ Same
                 /\ UNCHANGED <<state, key_idx, saved_state, nesting_depth>>
       [] state = "PARAMS" ->
            /\ local_error' \in {local_error, local_error \/ MayRunOut}
            /\ Same
            /\ UNCHANGED <<state, key_idx, saved_state, nesting_depth,
                           parts_seen, type, body>>
       [] OTHER -> ParseValue

(* handle_null(): a result may be null.                                    *)
HandleNull ==
  /\ Note("null")
  /\ UNCHANGED path
  /\ IF state = "MESSAGE" /\ key_idx = "result"
       THEN IF ~CanMark THEN Fatal
            ELSE /\ type' = "RESULT" /\ body' = "null" /\ Same
                 /\ UNCHANGED <<state, key_idx, saved_state, nesting_depth,
                                parts_seen, local_error>>
       ELSE ParseValue

(* handle_integer(): only an error's code is one.                          *)
HandleInteger ==
  /\ Note("integer")
  /\ UNCHANGED path
  /\ IF state = "ERROR" /\ key_idx = "code"
       THEN IF ~CanMarkPart("ERROR", 1) THEN Fatal
            ELSE /\ MarkPart("ERROR", 1) /\ Same
                 /\ UNCHANGED <<state, key_idx, saved_state, nesting_depth,
                                local_error, body>>
       ELSE ParseValue

(* handle_boolean() and handle_double().                                   *)
HandleOther == Note("other") /\ UNCHANGED path /\ ParseValue

(* handle_map_key().                                                       *)
HandleMapKey ==
  /\ outcome = "parsing" /\ KeyDue
  /\ due' \in Key
  /\ UNCHANGED <<path, members, repeated>>
  /\ CASE state \in {"COMPOSITE", "CONTEXT"} -> Same /\ UNCHANGED parserVars
       [] state \in {"MESSAGE", "ERROR"} ->
            /\ key_idx' = IF state = "MESSAGE"
                            THEN FindToken(RootToken, "result", due')
                            ELSE FindToken(ErrorToken, "code", due')
            /\ Same
            /\ UNCHANGED <<state, saved_state, nesting_depth, parts_seen,
                           msgVars>>
       [] OTHER -> Fatal

-----------------------------------------------------------------------------
(* Mutant: the state to come back to is saved at every level.              *)
EnterAnyLevel ==
  /\ saved_state' = state
  /\ state' = "COMPOSITE"
  /\ UNCHANGED nesting_depth

(* parse_enter() after parse_value(): start ignoring, or go on to.         *)
Enter ==
  IF state = "COMPOSITE"
    THEN /\ nesting_depth' = nesting_depth + 1
         /\ UNCHANGED <<state, saved_state>>
    ELSE /\ saved_state' = state
         /\ state' = "COMPOSITE"
         /\ UNCHANGED nesting_depth

ParseEnter ==
  IF ~IgnoresValue /\ ~RaisesLocal THEN Fatal
  ELSE /\ local_error' = (local_error \/ ~IgnoresValue)
       /\ Enter /\ Same
       /\ UNCHANGED <<key_idx, parts_seen, type, body>>

Open(kind) ==
  /\ Len(path) < MaxNesting
  /\ Note(kind)
  /\ path' = Append(path, [kind |-> kind, name |-> Name])

(* Enters the part p of a message of type t that the parser goes into.     *)
EnterPart(t, p, s) ==
  IF ~CanMarkPart(t, p) THEN Fatal
  ELSE /\ MarkPart(t, p)
       /\ state' = s
       /\ Same
       /\ UNCHANGED <<key_idx, saved_state, nesting_depth, local_error, body>>

(* Mutant: params that are an object do not make a request.                *)
ParamsMapUnmarked ==
  /\ local_error' = TRUE
  /\ key_idx' = "none"
  /\ Enter /\ Same
  /\ UNCHANGED <<type, parts_seen, body>>

(* params that are an object are a local error, and skipped.               *)
ParamsMap ==
  IF ~CanMarkPart("REQUEST", 1) THEN Fatal
  ELSE /\ MarkPart("REQUEST", 1)
       /\ local_error' = TRUE
       /\ key_idx' = "none"
       /\ Enter /\ Same
       /\ UNCHANGED body

(* handle_start_map().                                                     *)
HandleStartMap ==
  /\ Open("map")
  /\ CASE state = "WAITING" ->
            /\ state' = "MESSAGE" /\ Same
            /\ UNCHANGED <<key_idx, saved_state, nesting_depth, parts_seen,
                           msgVars>>
       [] state = "MESSAGE" /\ key_idx = "params" -> ParamsMap
       [] state = "MESSAGE" /\ key_idx = "context" ->
            EnterPart("REQUEST", 2, "CONTEXT")
       [] state = "MESSAGE" /\ key_idx = "error" ->
            EnterPart("ERROR", 0, "ERROR")
       [] OTHER -> ParseEnter

(* handle_start_array().                                                   *)
HandleStartArray ==
  /\ Open("array")
  /\ IF state = "MESSAGE" /\ key_idx = "params"
       THEN EnterPart("REQUEST", 1, "PARAMS")
       ELSE ParseEnter

-----------------------------------------------------------------------------
(* Mutant: the parts of a request and of an error are not asked for.       *)
VerdictWithoutParts ==
  IF local_error THEN "local"
  ELSE CASE type = "REQUEST" -> "request"
         [] type = "RESULT"  -> "result"
         [] type = "ERROR"   -> "error"
         [] OTHER -> "fatal"

(* What json_server_receive() says at the end of the object.               *)
Verdict ==
  IF local_error THEN "local"
  ELSE CASE type = "REQUEST" /\ parts_seen[0] -> "request"
         [] type = "RESULT" -> "result"
         [] type = "ERROR" /\ (\A p \in Part : parts_seen[p]) -> "error"
         [] OTHER -> "fatal"

(* Mutant: the depth is counted down past the outermost ignored value.     *)
ExitOneMore ==
  /\ nesting_depth' = nesting_depth - 1
  /\ state' = IF nesting_depth = 0 THEN saved_state ELSE state
  /\ UNCHANGED saved_state

(* parse_exit(): stop ignoring at the level where it began.                *)
Exit ==
  IF nesting_depth # 0
    THEN /\ nesting_depth' = nesting_depth - 1
         /\ UNCHANGED <<state, saved_state>>
    ELSE /\ state' = saved_state
         /\ UNCHANGED <<saved_state, nesting_depth>>

ParseExit ==
  IF state # "COMPOSITE" THEN Fatal
  ELSE Exit /\ Same /\ UNCHANGED <<key_idx, parts_seen, msgVars>>

Close(kind) ==
  /\ outcome = "parsing"
  /\ path # <<>> /\ Last(path).kind = kind
  /\ due = "none"
  /\ path' = Front(path)
  /\ UNCHANGED <<due, members, repeated>>

(* handle_end_map(); the end of the message ends json_server_receive().    *)
HandleEndMap ==
  /\ Close("map")
  /\ CASE state = "MESSAGE" ->
            /\ state' = "READY"
            /\ outcome' = Verdict
            /\ UNCHANGED <<key_idx, saved_state, nesting_depth, parts_seen,
                           msgVars>>
       [] state \in {"CONTEXT", "ERROR"} ->
            /\ state' = "MESSAGE" /\ Same
            /\ UNCHANGED <<key_idx, saved_state, nesting_depth, parts_seen,
                           msgVars>>
       [] OTHER -> ParseExit

(* handle_end_array().                                                     *)
HandleEndArray ==
  /\ Close("array")
  /\ IF state = "PARAMS"
       THEN /\ state' = "MESSAGE" /\ Same
            /\ UNCHANGED <<key_idx, saved_state, nesting_depth, parts_seen,
                           msgVars>>
       ELSE ParseExit

(* The next message, after a fatal one over a new connection: the message  *)
(* was cleared; of the parser json_server_json_alloc() resets the state    *)
(* and the depth alone.                                                    *)
NextMessage ==
  /\ outcome # "parsing"
  /\ outcome' = "parsing"
  /\ state' = "WAITING"
  /\ nesting_depth' = IF outcome = "fatal" THEN 0 ELSE nesting_depth
  /\ type' = "NONE" /\ local_error' = FALSE /\ body' = "none"
  /\ path' = <<>> /\ due' = "none" /\ members' = {} /\ repeated' = FALSE
  /\ UNCHANGED <<key_idx, saved_state, parts_seen>>

Init ==
  /\ state = "WAITING" /\ key_idx = "result" /\ saved_state = "READY"
  /\ nesting_depth = 0 /\ parts_seen = [p \in Part |-> FALSE]
  /\ type = "NONE" /\ local_error = FALSE /\ body = "none"
  /\ outcome = "parsing"
  /\ path = <<>> /\ due = "none" /\ members = {} /\ repeated = FALSE

Next ==
  \/ HandleNull \/ HandleOther \/ HandleInteger \/ HandleString
  \/ HandleMapKey
  \/ HandleStartMap \/ HandleEndMap
  \/ HandleStartArray \/ HandleEndArray
  \/ NextMessage

Spec == Init /\ [][Next]_vars

-----------------------------------------------------------------------------
(* The type invariant: the fields of the parser and the message in range,  *)
(* with a document to read.                                                *)
ParserTypeOK ==
  /\ state \in State
  /\ key_idx \in RootToken \cup ErrorToken \cup {"none"}
  /\ saved_state \in State
  /\ nesting_depth \in Nat
  /\ parts_seen \in [Part -> BOOLEAN]
  /\ type \in {"NONE", "REQUEST", "RESULT", "ERROR"}
  /\ local_error \in BOOLEAN
  /\ body \in {"none", "null", "method", "result", "message"}
  /\ outcome \in {"parsing", "request", "result", "error", "local", "fatal"}

DocTypeOK ==
  /\ path \in Seq(Opened)
  /\ due \in Key \cup {"none"}
  /\ members \in SUBSET Member
  /\ repeated \in BOOLEAN

TypeOK == ParserTypeOK /\ DocTypeOK

(* One state, one saved state and one counter are enough to follow any     *)
(* nesting: the parser is in the part of the message that it believes to be*)
(* in, and comes back to it at the end of what it ignores; and the key it  *)
(* looks at is that of the value it is given, never one of another object. *)
StateOfPath ==
  CASE Len(path) = 0 -> "WAITING"
    [] Len(path) = 1 -> "MESSAGE"
    [] Len(path) = 2 -> Section
    [] OTHER         -> "COMPOSITE"

PartTracked ==
  /\ state = StateOfPath
  /\ state = "COMPOSITE" =>
       IF Section = "COMPOSITE"
         THEN saved_state = "MESSAGE" /\ nesting_depth = Len(path) - 2
         ELSE saved_state = Section /\ nesting_depth = Len(path) - 3

KeyTracked ==
  /\ due # "none" /\ state = "MESSAGE" =>
       key_idx = FindToken(RootToken, "result", due)
  /\ due # "none" /\ state = "ERROR" =>
       key_idx = FindToken(ErrorToken, "code", due)

NestingTracked == outcome = "parsing" => PartTracked /\ KeyTracked

-----------------------------------------------------------------------------
(* The messages of src/src/json/README.txt:100-122, told from the members. *)
Values(at, name) == { x.val : x \in { y \in members : y.at = at /\ y.name = name } }
Has(at, name, types) == Values(at, name) # {} /\ Values(at, name) \subseteq types
Tokens == { x.name : x \in { y \in members : y.at = "message" } } \cap RootToken

Conforms(kind) ==
  /\ ~repeated
  /\ CASE kind = "request" ->
            /\ Tokens \subseteq {"method", "params", "context"}
            /\ Has("message", "method", {"string"})
            /\ Values("message", "params") \subseteq {"array"}
            /\ Values("params", "item") \subseteq {"string"}
            /\ Values("message", "context") \subseteq {"map"}
       [] kind = "result" ->
            /\ Tokens = {"result"}
            /\ Has("message", "result", {"null", "string"})
       [] kind = "error" ->
            /\ Tokens = {"error"}
            /\ Has("message", "error", {"map"})
            /\ Has("error", "code", {"integer"})
            /\ Has("error", "message", {"string"})

(* A message of the protocol is received as what it is, in any order of its*)
(* members, with unknown keys among them (README.txt:131), and whatever the*)
(* messages before left in the parser.                                     *)
ConformingAccepted ==
  \A kind \in {"request", "result", "error"} :
    outcome # "parsing" /\ Conforms(kind) =>
      outcome = kind \/ (MayRunOut /\ outcome = "local")

(* Nothing else is received.                                               *)
AcceptedConforms ==
  outcome \in {"request", "result", "error"} => Conforms(outcome)

(* "must exist" at json.c:1486, 1505 and 1516: the string that is handed to*)
(* the caller was stored by this message, under the key of its type.       *)
BodyStored ==
  CASE outcome = "request" -> body = "method"
    [] outcome = "result"  -> body \in {"null", "result"}
    [] outcome = "error"   -> body = "message"
    [] OTHER -> TRUE

(* A local error is answered (server.c:571) exactly if it is in something  *)
(* that could be a request: an answer is never answered.                   *)
LocalErrorAnswered ==
  outcome = "local" =>
    (type = "REQUEST" <=> Tokens \cap {"method", "params", "context"} # {})
=============================================================================
