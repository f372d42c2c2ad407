------------------------- MODULE JsonParser_proofs -------------------------
(***************************************************************************)
(* Theorems about JsonParser, for every set of keys, every depth of nesting*)
(* and every size of a message: the type invariant, and that one saved     *)
(* state and one counter follow the nesting of any document.               *)
(***************************************************************************)
EXTENDS JsonParser, SequenceTheorems, TLAPS

(* The message itself is an object: anything else at the root is fatal.    *)
Rooted == outcome = "parsing" /\ path # <<>> => path[1].kind = "map"

(* The counter is back at zero wherever nothing is ignored, and when the   *)
(* next message begins.                                                    *)
CounterAtRest ==
  /\ outcome = "parsing" /\ state # "COMPOSITE" => nesting_depth = 0
  /\ outcome \notin {"parsing", "fatal"} => nesting_depth = 0

-----------------------------------------------------------------------------
(* What a document is while something opens in it.                         *)
LEMMA OpenedPath ==
  ASSUME path \in Seq(Opened), NEW e \in Opened, path' = Append(path, e)
  PROVE  /\ path' \in Seq(Opened) /\ path' # <<>>
         /\ Len(path) \in Nat /\ Len(path') = Len(path) + 1
         /\ \A i \in 1..Len(path) : path'[i] = path[i]
         /\ path'[Len(path) + 1] = e
  BY AppendProperties, LenProperties

(* What is left of it when that closes.                                    *)
LEMMA ClosedPath ==
  ASSUME path \in Seq(Opened), path # <<>>, path' = Front(path)
  PROVE  /\ path' \in Seq(Opened)
         /\ Len(path) \in Nat \ {0} /\ Len(path') = Len(path) - 1
         /\ \A i \in 1..(Len(path) - 1) : path'[i] = path[i]
         /\ \A i \in 1..Len(path) : path[i] \in Opened
<1>1. Len(path) \in Nat \ {0} /\ \A i \in 1..Len(path) : path[i] \in Opened
  BY EmptySeq, ElementOfSeq
<1> DEFINE n == Len(path) - 1
<1>2. n \in Nat /\ \A i \in 1..n : path[i] \in Opened
  BY <1>1
<1> HIDE DEF n
<1>3. /\ SubSeq(path, 1, n) \in Seq(Opened)
      /\ Len(SubSeq(path, 1, n)) = IF 1 <= n THEN n - 1 + 1 ELSE 0
      /\ \A i \in 1..(n - 1 + 1) : SubSeq(path, 1, n)[i] = path[1 + i - 1]
  BY <1>2, SubSeqProperties
<1>4. /\ SubSeq(path, 1, n) \in Seq(Opened) /\ Len(SubSeq(path, 1, n)) = n
      /\ \A i \in 1..n : SubSeq(path, 1, n)[i] = path[i]
  BY <1>2, <1>3
<1> QED
  BY <1>1, <1>4 DEF Front, n

(* The facts about an open object or array that the definitions need.      *)
LEMMA PathType ==
  ASSUME path \in Seq(Opened)
  PROVE  /\ Len(path) \in Nat
         /\ path = <<>> <=> Len(path) = 0
         /\ \A i \in 1..Len(path) : path[i] \in Opened
  BY EmptySeq, ElementOfSeq, LenProperties

-----------------------------------------------------------------------------
(* Type correctness of the document: whatever is added to it is one of its *)
(* members, and its name one that may stand there.                         *)
LEMMA NoteType ==
  ASSUME DocTypeOK, NEW v \in Scalar \cup {"map", "array"}, Note(v)
  PROVE  /\ due' = "none" /\ members' \in SUBSET Member /\ repeated' \in BOOLEAN
         /\ Name \in Key \cup {"item"}
<1>1. Name \in Key \cup {"item"}
  BY DEF DocTypeOK, Note, ValueDue, Name
<1>2. due' = "none"
  BY DEF Note
<1>3. repeated' \in BOOLEAN
  BY DEF Note, DocTypeOK
<1>4. members' \in SUBSET Member
  <2>1. CASE Name \notin Known(Place)
    <3>1. members' = members
      BY <2>1 DEF Note
    <3> QED
      BY <3>1 DEF DocTypeOK
  <2>2. CASE Name \in Known(Place)
    <3> DEFINE x == [at |-> Place, name |-> Name, val |-> v]
    <3>1. /\ Place \in {"message", "error", "params"}
          /\ Name \in RootToken \cup ErrorToken \cup {"item"}
      BY <2>2 DEF Known
    <3>2. x \in Member
      BY <3>1 DEF Member
    <3>3. members' = members \cup {x}
      BY <2>2 DEF Note
    <3> QED
      BY <3>2, <3>3 DEF DocTypeOK
  <2> QED
    BY <2>1, <2>2
<1> QED
  BY <1>1, <1>2, <1>3, <1>4

(* The marks set on a message are parts of it.                             *)
LEMMA MarkType ==
  ASSUME ParserTypeOK, NEW t \in {"REQUEST", "ERROR"}, NEW p \in Part,
         MarkPart(t, p)
  PROVE  /\ type' \in {"NONE", "REQUEST", "RESULT", "ERROR"}
         /\ parts_seen' \in [Part -> BOOLEAN]
  BY DEF ParserTypeOK, MarkPart

(* A string is stored, or raises a local error.                            *)
LEMMA SetType ==
  ASSUME ParserTypeOK, NEW k \in {"method", "result", "message"}, SetMessage(k)
  PROVE  /\ local_error' \in BOOLEAN
         /\ body' \in {"none", "null", "method", "result", "message"}
  BY DEF ParserTypeOK, SetMessage

(* A key is looked up in the token table.                                  *)
LEMMA TokenType ==
  ASSUME NEW k
  PROVE  /\ FindToken(RootToken, "result", k) \in RootToken \cup {"none"}
         /\ FindToken(ErrorToken, "code", k) \in ErrorToken \cup {"none"}
  BY DEF FindToken, RootToken, ErrorToken

(* The verdict is one of the outcomes, and not that it goes on.            *)
LEMMA VerdictType ==
  Verdict \in {"request", "result", "error", "local", "fatal"}
  BY DEF Verdict


(* What a default rule does to the parser, whatever the value.             *)
LEMMA DefaultType ==
  ASSUME ParserTypeOK, Fatal \/ ParseValue \/ ParseEnter \/ ParseExit
  PROVE  ParserTypeOK'
<1>1. CASE Fatal
  BY <1>1 DEF Fatal, parserVars, msgVars, ParserTypeOK
<1>2. CASE ParseValue
  BY <1>1, <1>2 DEF ParseValue, Same, parserVars, msgVars, ParserTypeOK
<1>3. CASE ParseEnter
  <2>1. CASE ~Fatal
    <3>1. local_error' \in BOOLEAN
      BY <1>3, <2>1 DEF ParseEnter, ParserTypeOK
    <3>2. /\ state' \in State /\ saved_state' \in State
          /\ nesting_depth' \in Nat
      BY <1>3, <2>1 DEF ParseEnter, Enter, ParserTypeOK, State
    <3>3. UNCHANGED <<key_idx, parts_seen, type, body, outcome>>
      BY <1>3, <2>1 DEF ParseEnter, Same
    <3> QED
      BY <3>1, <3>2, <3>3 DEF ParserTypeOK
  <2> QED
    BY <1>1, <2>1
<1>4. CASE ParseExit
  BY <1>1, <1>4 DEF ParseExit, Exit, Same, msgVars, ParserTypeOK
<1> QED
  BY <1>1, <1>2, <1>3, <1>4

(* Type correctness of the values.                                         *)
LEMMA ValueType ==
  ASSUME TypeOK, HandleNull \/ HandleOther \/ HandleInteger \/ HandleString
  PROVE  TypeOK'
<1> USE DEF TypeOK
<1>1. DocTypeOK'
  <2>1. PICK v \in Scalar : Note(v) /\ UNCHANGED path
    BY DEF HandleNull, HandleOther, HandleInteger, HandleString, Scalar
  <2> QED
    BY <2>1, NoteType DEF DocTypeOK
<1>2. CASE HandleNull
  <2>1. CASE Fatal \/ ParseValue
    BY <1>1, <2>1, DefaultType
  <2>2. CASE /\ type' = "RESULT" /\ body' = "null" /\ Same
             /\ UNCHANGED <<state, key_idx, saved_state, nesting_depth,
                            parts_seen, local_error>>
    BY <1>1, <2>2 DEF ParserTypeOK, Same
  <2> QED
    BY <1>2, <2>1, <2>2 DEF HandleNull
<1>3. CASE HandleOther
  BY <1>1, <1>3, DefaultType DEF HandleOther
<1>4. CASE HandleInteger
  <2>1. CASE Fatal \/ ParseValue
    BY <1>1, <2>1, DefaultType
  <2>2. CASE /\ MarkPart("ERROR", 1) /\ Same
             /\ UNCHANGED <<state, key_idx, saved_state, nesting_depth,
                            local_error, body>>
    BY <1>1, <2>2, MarkType DEF ParserTypeOK, Same, Part
  <2> QED
    BY <1>4, <2>1, <2>2 DEF HandleInteger
<1>5. CASE HandleString
  <2>1. CASE Fatal \/ ParseValue
    BY <1>1, <2>1, DefaultType
  <2>2. CASE /\ type' = "RESULT" /\ SetMessage("result") /\ Same
             /\ UNCHANGED <<state, key_idx, saved_state, nesting_depth,
                            parts_seen>>
    BY <1>1, <2>2, SetType DEF ParserTypeOK, Same
  <2>3. ASSUME NEW t \in {"REQUEST", "ERROR"}, NEW p \in Part,
               NEW k \in {"method", "message"},
               MarkPart(t, p), SetMessage(k), Same,
               UNCHANGED <<state, key_idx, saved_state, nesting_depth>>
        PROVE  ParserTypeOK'
    BY <2>3, MarkType, SetType DEF ParserTypeOK, Same
  <2>4. CASE /\ local_error' \in {local_error, local_error \/ MayRunOut}
             /\ Same
             /\ UNCHANGED <<state, key_idx, saved_state, nesting_depth,
                            parts_seen, type, body>>
    <3>1. local_error' \in BOOLEAN
      BY <2>4, ParserAssumption DEF ParserTypeOK
    <3> QED
      BY <1>1, <2>4, <3>1 DEF ParserTypeOK, Same
  <2> QED
    BY <1>1, <1>5, <2>1, <2>2, <2>3, <2>4 DEF HandleString, Part
<1> QED
  BY <1>2, <1>3, <1>4, <1>5

(* Type correctness of the keys, the brackets and the next message.        *)
LEMMA StructureType ==
  ASSUME TypeOK,
         \/ HandleMapKey \/ HandleStartMap \/ HandleStartArray
         \/ HandleEndMap \/ HandleEndArray \/ NextMessage
  PROVE  TypeOK'
<1> USE DEF TypeOK
<1>1. CASE HandleMapKey
  <2>1. DocTypeOK'
    BY <1>1 DEF HandleMapKey, DocTypeOK
  <2>2. ParserTypeOK'
    BY <1>1, TokenType, DefaultType
    DEF HandleMapKey, Same, parserVars, msgVars, ParserTypeOK
  <2> QED
    BY <2>1, <2>2
<1>2. ASSUME NEW kind \in {"map", "array"}, Open(kind)
      PROVE  DocTypeOK'
  <2>1. path' \in Seq(Opened)
    BY <1>2, NoteType, OpenedPath DEF Open, DocTypeOK, Opened
  <2> QED
    BY <1>2, <2>1, NoteType DEF Open, DocTypeOK
<1>3. ASSUME NEW t \in {"REQUEST", "ERROR"}, NEW p \in Part,
             NEW s \in State, EnterPart(t, p, s)
      PROVE  ParserTypeOK'
  BY <1>3, MarkType, DefaultType DEF EnterPart, Same, ParserTypeOK
<1>4. CASE HandleStartMap
  <2>1. ParserTypeOK'
    <3>1. CASE Fatal \/ ParseEnter
      BY <3>1, DefaultType
    <3>2. CASE /\ MarkPart("REQUEST", 1) /\ local_error' = TRUE
               /\ key_idx' = "none" /\ Enter /\ Same /\ UNCHANGED body
      <4>1. /\ type' \in {"NONE", "REQUEST", "RESULT", "ERROR"}
            /\ parts_seen' \in [Part -> BOOLEAN]
        BY <3>2, MarkType DEF Part
      <4> QED
        BY <3>2, <4>1 DEF Enter, Same, ParserTypeOK, State
    <3>3. CASE /\ state' = "MESSAGE" /\ Same
               /\ UNCHANGED <<key_idx, saved_state, nesting_depth, parts_seen,
                              msgVars>>
      BY <3>3 DEF Same, msgVars, ParserTypeOK, State
    <3>4. CASE EnterPart("REQUEST", 2, "CONTEXT") \/ EnterPart("ERROR", 0, "ERROR")
      BY <3>4, <1>3 DEF State, Part
    <3> QED
      BY <1>4, <3>1, <3>2, <3>3, <3>4 DEF HandleStartMap, ParamsMap
  <2> QED
    BY <1>2, <1>4, <2>1 DEF HandleStartMap
<1>5. CASE HandleStartArray
  BY <1>2, <1>3, <1>5, DefaultType DEF HandleStartArray, State, Part
<1>6. ASSUME NEW kind, Close(kind)
      PROVE  DocTypeOK'
  BY <1>6, ClosedPath DEF Close, DocTypeOK
<1>7. CASE HandleEndMap
  <2>1. ParserTypeOK'
    BY <1>7, VerdictType, DefaultType
    DEF HandleEndMap, Same, msgVars, ParserTypeOK, State
  <2> QED
    BY <1>6, <1>7, <2>1 DEF HandleEndMap
<1>8. CASE HandleEndArray
  <2>1. ParserTypeOK'
    BY <1>8, DefaultType DEF HandleEndArray, Same, msgVars, ParserTypeOK, State
  <2> QED
    BY <1>6, <1>8, <2>1 DEF HandleEndArray
<1>9. CASE NextMessage
  <2>1. ParserTypeOK'
    BY <1>9 DEF NextMessage, ParserTypeOK, State
  <2>2. <<>> \in Seq(Opened)
    BY EmptySeq
  <2> QED
    BY <1>9, <2>1, <2>2 DEF NextMessage, DocTypeOK
<1> QED
  BY <1>1, <1>4, <1>5, <1>7, <1>8, <1>9

(* TypeOK is inductive on its own.                                         *)
LEMMA TypeStep == TypeOK /\ [Next]_vars => TypeOK'
<1> SUFFICES ASSUME TypeOK, [Next]_vars PROVE TypeOK'
  OBVIOUS
<1>1. CASE UNCHANGED vars
  BY <1>1 DEF vars, docVars, parserVars, msgVars, TypeOK, ParserTypeOK, DocTypeOK
<1>2. CASE Next
  BY <1>2, ValueType, StructureType DEF Next
<1> QED
  BY <1>1, <1>2

(* The initial state has the types.                                        *)
LEMMA TypeInit == Init => TypeOK
<1> SUFFICES ASSUME Init PROVE TypeOK
  OBVIOUS
<1>1. <<>> \in Seq(Opened)
  BY EmptySeq
<1>2. parts_seen \in [Part -> BOOLEAN]
  BY DEF Init
<1> QED
  BY <1>1, <1>2 DEF Init, TypeOK, ParserTypeOK, DocTypeOK, State, RootToken

(* The fields of the parser and of the message stay in range, for every set*)
(* of keys, every nesting and every number of members (json.c:536-1054).   *)
THEOREM TypeCorrect == Spec => []TypeOK
<1> QED
  BY TypeInit, TypeStep, PTL DEF Spec
-----------------------------------------------------------------------------
(* What is inductive: NestingTracked with the two facts it rests on.       *)
Nest == NestingTracked /\ Rooted /\ CounterAtRest

(* Where the parser is to be, by the depth of the document.                *)
LEMMA StateCases ==
  ASSUME NEW n \in Nat, n = Len(path)
  PROVE  /\ n = 0 => StateOfPath = "WAITING"
         /\ n = 1 => StateOfPath = "MESSAGE"
         /\ n = 2 => StateOfPath = Section
         /\ n >= 3 => StateOfPath = "COMPOSITE"
<1>1. n >= 3 => n # 0 /\ n # 1 /\ n # 2
  OBVIOUS
<1>2. 0 # 1 /\ 0 # 2 /\ 1 # 2
  OBVIOUS
<1> QED
  BY <1>1, <1>2, Zenon DEF StateOfPath

(* The same after a step.                                                  *)
LEMMA NextStateCases ==
  ASSUME NEW n \in Nat, n = Len(path')
  PROVE  /\ n = 0 => StateOfPath' = "WAITING"
         /\ n = 1 => StateOfPath' = "MESSAGE"
         /\ n = 2 => StateOfPath' = Section'
         /\ n >= 3 => StateOfPath' = "COMPOSITE"
<1>1. n >= 3 => n # 0 /\ n # 1 /\ n # 2
  OBVIOUS
<1>2. 0 # 1 /\ 0 # 2 /\ 1 # 2
  OBVIOUS
<1> QED
  BY <1>1, <1>2, Zenon DEF StateOfPath

(* A cancelled parse leaves nothing to follow.                             *)
LEMMA FatalNesting == Fatal => Nest'
  BY DEF Fatal, Nest, NestingTracked, Rooted, CounterAtRest

(* A value that neither opens nor closes anything changes no nesting.      *)
LEMMA ValueNesting ==
  ASSUME Nest, HandleNull \/ HandleOther \/ HandleInteger \/ HandleString
  PROVE  Nest'
<1>1. outcome = "parsing" /\ due' = "none" /\ UNCHANGED path
  BY DEF HandleNull, HandleOther, HandleInteger, HandleString, Note
<1>2. Fatal \/ UNCHANGED <<state, saved_state, nesting_depth, outcome>>
  BY DEF HandleNull, HandleOther, HandleInteger, HandleString, ParseValue, Same,
         parserVars, msgVars
<1>3. CASE UNCHANGED <<state, saved_state, nesting_depth, outcome>>
  BY <1>1, <1>3 DEF Nest, NestingTracked, PartTracked, KeyTracked, StateOfPath,
                    Section, Inner, Rooted, CounterAtRest
<1> QED
  BY <1>2, <1>3, FatalNesting

(* A key is looked up where the parser is.                                 *)
LEMMA KeyNesting ==
  ASSUME Nest, HandleMapKey
  PROVE  Nest'
<1>1. CASE UNCHANGED <<state, saved_state, nesting_depth, outcome, path>>
  <2>1. PartTracked' /\ Rooted' /\ CounterAtRest'
    BY <1>1 DEF HandleMapKey, Nest, NestingTracked, PartTracked, StateOfPath,
                Section, Inner, Rooted, CounterAtRest
  <2>2. KeyTracked'
    BY <1>1 DEF HandleMapKey, KeyTracked, Fatal
  <2> QED
    BY <2>1, <2>2 DEF Nest, NestingTracked
<1> QED
  BY <1>1, FatalNesting DEF HandleMapKey, Same, parserVars, msgVars

-----------------------------------------------------------------------------
(* What opens: its name is the key that was looked up, if in the message.  *)
LEMMA OpenFacts ==
  ASSUME TypeOK, Nest, NEW kind \in {"map", "array"}, Open(kind)
  PROVE  /\ outcome = "parsing" /\ due' = "none"
         /\ Len(path) \in Nat /\ Len(path') = Len(path) + 1 /\ path' # <<>>
         /\ \A i \in 1..Len(path) : path'[i] = path[i]
         /\ path'[Len(path) + 1] = [kind |-> kind, name |-> Name]
         /\ Len(path) = 1 => key_idx = FindToken(RootToken, "result", Name)
<1>1. Name \in Key \cup {"item"}
  BY NoteType DEF Open, TypeOK
<1>2. [kind |-> kind, name |-> Name] \in Opened /\ path \in Seq(Opened)
  BY <1>1 DEF Opened, TypeOK, DocTypeOK
<1>3. Len(path) = 1 => key_idx = FindToken(RootToken, "result", Name)
  <2> SUFFICES ASSUME Len(path) = 1
               PROVE  key_idx = FindToken(RootToken, "result", Name)
    OBVIOUS
  <2>1. path # <<>>
    BY <1>2, PathType
  <2>2. outcome = "parsing"
    BY DEF Open, Note
  <2>3. InMap
    BY <2>1, <2>2 DEF InMap, Last, Nest, Rooted
  <2>4. due # "none" /\ Name = due
    BY <2>3 DEF Open, Note, ValueDue, Name
  <2>5. state = "MESSAGE"
    BY <2>2 DEF Nest, NestingTracked, PartTracked, StateOfPath
  <2> QED
    BY <2>2, <2>4, <2>5 DEF Nest, NestingTracked, KeyTracked
<1> QED
  BY <1>2, <1>3, OpenedPath DEF Open, Note

(* To start or to go on ignoring follows the nesting.                      *)
LEMMA EnterNesting ==
  ASSUME TypeOK, Nest, NEW kind \in {"map", "array"}, Open(kind),
         Enter, Same, state # "WAITING",
         state = "MESSAGE" => Section' = "COMPOSITE"
  PROVE  Nest'
<1> DEFINE n == Len(path)
           m == Len(path')
<1>1. /\ outcome = "parsing" /\ outcome' = "parsing" /\ due' = "none"
      /\ n \in Nat /\ m = n + 1 /\ path' # <<>>
      /\ \A i \in 1..n : path'[i] = path[i]
  BY OpenFacts DEF Same
<1>2. m \in Nat
  BY <1>1
<1>3. nesting_depth \in Nat /\ (path = <<>> <=> n = 0)
  BY PathType DEF TypeOK, ParserTypeOK, DocTypeOK
<1>4. /\ state = StateOfPath
      /\ state # "COMPOSITE" => nesting_depth = 0
      /\ state = "COMPOSITE" =>
           IF Section = "COMPOSITE"
             THEN saved_state = "MESSAGE" /\ nesting_depth = n - 2
             ELSE saved_state = Section /\ nesting_depth = n - 3
  BY <1>1 DEF Nest, NestingTracked, PartTracked, CounterAtRest
<1>5. n >= 2 => Section' = Section
  BY <1>1 DEF Section, Inner
<1>6. /\ n = 1 => state = "MESSAGE"
      /\ n = 2 => state = Section
      /\ n >= 3 => state = "COMPOSITE"
      /\ n # 0
  BY <1>1, <1>4, StateCases
<1>7. (m = 2 => StateOfPath' = Section') /\ (m >= 3 => StateOfPath' = "COMPOSITE")
  BY <1>2, NextStateCases
<1>8. PartTracked' <=>
        /\ state' = StateOfPath'
        /\ state' = "COMPOSITE" =>
             IF Section' = "COMPOSITE"
               THEN saved_state' = "MESSAGE" /\ nesting_depth' = m - 2
               ELSE saved_state' = Section' /\ nesting_depth' = m - 3
  BY DEF PartTracked
<1>9. 1 \in 1..n /\ path'[1] = path[1]
  BY <1>1, <1>6
<1> HIDE DEF n, m
<1>10. Rooted' /\ KeyTracked'
  BY <1>1, <1>3, <1>6, <1>9 DEF Nest, Rooted, KeyTracked
<1>11. state' = "COMPOSITE" /\ CounterAtRest'
  BY <1>1 DEF Enter, CounterAtRest
<1>12. state' = StateOfPath'
  BY <1>1, <1>6, <1>7, <1>11
<1>13. CASE state = "COMPOSITE"
  <2>1. nesting_depth' = nesting_depth + 1 /\ saved_state' = saved_state
    BY <1>13 DEF Enter
  <2>2. n >= 2
    BY <1>1, <1>6, <1>13
  <2> QED
    BY <1>1, <1>3, <1>4, <1>5, <1>8, <1>10, <1>11, <1>12, <1>13, <2>1, <2>2
    DEF Nest, NestingTracked
<1>14. CASE state # "COMPOSITE"
  <2>1. saved_state' = state /\ nesting_depth' = 0
    BY <1>4, <1>14 DEF Enter
  <2>2. n = 1 \/ n = 2
    BY <1>1, <1>6, <1>14
  <2>3. PartTracked'
    BY <1>1, <1>5, <1>6, <1>8, <1>12, <1>14, <2>1, <2>2
  <2> QED
    BY <1>10, <1>11, <2>3 DEF Nest, NestingTracked
<1> QED
  BY <1>13, <1>14

(* So does to go into a part of the message.                               *)
LEMMA PartNesting ==
  ASSUME TypeOK, Nest, NEW kind \in {"map", "array"}, Open(kind),
         state = "MESSAGE", NEW s, s # "COMPOSITE", Section' = s,
         state' = s, Same, UNCHANGED <<saved_state, nesting_depth>>
  PROVE  Nest'
<1>1. /\ outcome = "parsing" /\ outcome' = "parsing" /\ due' = "none"
      /\ Len(path) \in Nat /\ Len(path') = Len(path) + 1 /\ path' # <<>>
      /\ \A i \in 1..Len(path) : path'[i] = path[i]
  BY OpenFacts DEF Same
<1>2. path = <<>> <=> Len(path) = 0
  BY PathType DEF TypeOK, DocTypeOK
<1>3. Len(path) = 1 /\ nesting_depth = 0
  BY <1>1 DEF Nest, NestingTracked, PartTracked, CounterAtRest, StateOfPath,
              Section
<1>4. Rooted' /\ KeyTracked' /\ CounterAtRest'
  BY <1>1, <1>2, <1>3 DEF Nest, Rooted, KeyTracked, CounterAtRest
<1>5. PartTracked'
  BY <1>1, <1>3 DEF PartTracked, StateOfPath
<1> QED
  BY <1>4, <1>5 DEF Nest, NestingTracked
-----------------------------------------------------------------------------
(* The tokens that have a part of their own are not ignored.               *)
LEMMA SectionNames ==
  ASSUME NEW key
  PROVE  /\ key = "params" => FindToken(RootToken, "result", key) = "params"
         /\ key = "context" => FindToken(RootToken, "result", key) = "context"
         /\ key = "error" => FindToken(RootToken, "result", key) = "error"
         /\ FindToken(RootToken, "result", key) \in {"params", "context", "error"}
              => FindToken(RootToken, "result", key) = key
  BY DEF FindToken, RootToken

(* What the parser is in the message for: nothing to open but its parts.   *)
LEMMA OpenedSection ==
  ASSUME TypeOK, Nest, NEW kind \in {"map", "array"}, Open(kind),
         state = "MESSAGE"
  PROVE  /\ path'[2] = [kind |-> kind, name |-> Name]
         /\ key_idx = FindToken(RootToken, "result", Name)
<1>1. Len(path) = 1
  BY OpenFacts DEF Nest, NestingTracked, PartTracked, StateOfPath, Section
<1> QED
  BY <1>1, OpenFacts

(* The default rules for something that opens.                             *)
LEMMA IgnoreNesting ==
  ASSUME TypeOK, Nest, NEW kind \in {"map", "array"}, Open(kind), ParseEnter
  PROVE  Nest'
<1>1. CASE ~Fatal
  <2>1. Enter /\ Same /\ (IgnoresValue \/ RaisesLocal)
    BY <1>1 DEF ParseEnter
  <2>2. state # "WAITING"
    BY <2>1 DEF IgnoresValue, RaisesLocal
  <2>3. ASSUME state = "MESSAGE" PROVE Section' = "COMPOSITE"
    <3>1. key_idx \in {"none", "result"}
      BY <2>1, <2>3 DEF IgnoresValue, RaisesLocal
    <3>2. Name \notin {"params", "context", "error"}
      BY <2>3, <3>1, OpenedSection, SectionNames
    <3> QED
      BY <2>3, <3>2, OpenedSection DEF Section, Inner
  <2> QED
    BY <2>1, <2>2, <2>3, EnterNesting
<1> QED
  BY <1>1, FatalNesting

(* The start of an object.                                                 *)
LEMMA StartMapNesting ==
  ASSUME TypeOK, Nest, HandleStartMap
  PROVE  Nest'
<1>1. Open("map")
  BY DEF HandleStartMap
<1>2. CASE Fatal
  BY <1>2, FatalNesting
<1>3. CASE ParseEnter
  BY <1>1, <1>3, IgnoreNesting
<1>4. CASE /\ state = "WAITING" /\ state' = "MESSAGE" /\ Same
           /\ UNCHANGED <<saved_state, nesting_depth>>
  <2>1. /\ outcome = "parsing" /\ outcome' = "parsing" /\ due' = "none"
        /\ Len(path) \in Nat /\ Len(path') = Len(path) + 1
        /\ path'[Len(path) + 1] = [kind |-> "map", name |-> Name]
    BY <1>1, <1>4, OpenFacts DEF Same
  <2>2. Len(path) = 0 /\ nesting_depth = 0
    BY <1>4, <2>1 DEF Nest, NestingTracked, PartTracked, CounterAtRest,
                      StateOfPath, Section
  <2> QED
    BY <1>4, <2>1, <2>2 DEF Nest, NestingTracked, PartTracked, KeyTracked,
                            StateOfPath, Rooted, CounterAtRest
<1>5. CASE state = "MESSAGE" /\ key_idx = "params" /\ ~Fatal /\ ParamsMap
  <2>1. Enter /\ Same
    BY <1>5 DEF ParamsMap
  <2>2. Name = "params" /\ path'[2] = [kind |-> "map", name |-> Name]
    BY <1>1, <1>5, OpenedSection, SectionNames
  <2>3. Section' = "COMPOSITE"
    BY <2>2 DEF Section, Inner
  <2> QED
    BY <1>1, <1>5, <2>1, <2>3, EnterNesting
<1>6. ASSUME NEW s \in {"CONTEXT", "ERROR"}, state = "MESSAGE",
             key_idx = IF s = "CONTEXT" THEN "context" ELSE "error",
             state' = s, Same, UNCHANGED <<saved_state, nesting_depth>>
      PROVE  Nest'
  <2>1. Name = key_idx /\ path'[2] = [kind |-> "map", name |-> Name]
    BY <1>1, <1>6, OpenedSection, SectionNames
  <2>2. Section' = s
    BY <1>6, <2>1 DEF Section, Inner
  <2> QED
    BY <1>1, <1>6, <2>2, PartNesting
<1> QED
  BY <1>2, <1>3, <1>4, <1>5, <1>6 DEF HandleStartMap, EnterPart

(* The start of an array.                                                  *)
LEMMA StartArrayNesting ==
  ASSUME TypeOK, Nest, HandleStartArray
  PROVE  Nest'
<1>1. Open("array")
  BY DEF HandleStartArray
<1>2. CASE Fatal
  BY <1>2, FatalNesting
<1>3. CASE ParseEnter
  BY <1>1, <1>3, IgnoreNesting
<1>4. CASE /\ state = "MESSAGE" /\ key_idx = "params" /\ state' = "PARAMS"
           /\ Same /\ UNCHANGED <<saved_state, nesting_depth>>
  <2>1. Name = "params" /\ path'[2] = [kind |-> "array", name |-> Name]
    BY <1>1, <1>4, OpenedSection, SectionNames
  <2>2. Section' = "PARAMS"
    BY <2>1 DEF Section, Inner
  <2> QED
    BY <1>1, <1>4, <2>2, PartNesting
<1> QED
  BY <1>2, <1>3, <1>4 DEF HandleStartArray, EnterPart

-----------------------------------------------------------------------------
(* What is left, when something closes.                                    *)
LEMMA CloseFacts ==
  ASSUME TypeOK, NEW kind, Close(kind)
  PROVE  /\ outcome = "parsing" /\ due = "none" /\ due' = "none"
         /\ Len(path) \in Nat \ {0} /\ Len(path') = Len(path) - 1
         /\ \A i \in 1..(Len(path) - 1) : path'[i] = path[i]
         /\ path[Len(path)].kind = kind
         /\ path' = <<>> <=> Len(path') = 0
<1>1. path \in Seq(Opened) /\ path # <<>> /\ path' = Front(path)
  BY DEF Close, TypeOK, DocTypeOK
<1>2. path' \in Seq(Opened)
  BY <1>1, ClosedPath
<1>3. path' = <<>> <=> Len(path') = 0
  BY <1>2, EmptySeq
<1> QED
  BY <1>1, <1>3, ClosedPath DEF Close, Last

(* To stop ignoring, or to go on, follows the nesting.                     *)
LEMMA ExitNesting ==
  ASSUME TypeOK, Nest, NEW kind, Close(kind), ParseExit
  PROVE  Nest'
<1> DEFINE n == Len(path)
           m == Len(path')
<1>1. /\ outcome = "parsing" /\ due' = "none"
      /\ n \in Nat /\ n # 0 /\ m = n - 1
      /\ \A i \in 1..(n - 1) : path'[i] = path[i]
      /\ path' = <<>> <=> m = 0
  BY CloseFacts
<1>2. m \in Nat
  BY <1>1
<1>3. /\ state = StateOfPath /\ nesting_depth \in Nat
      /\ state = "COMPOSITE" =>
           IF Section = "COMPOSITE"
             THEN saved_state = "MESSAGE" /\ nesting_depth = n - 2
             ELSE saved_state = Section /\ nesting_depth = n - 3
  BY <1>1 DEF Nest, NestingTracked, PartTracked, TypeOK, ParserTypeOK
<1>4. n >= 3 => Section' = Section
  BY <1>1 DEF Section, Inner
<1>5. n = 1 => state = "MESSAGE"
  BY <1>1, <1>3, StateCases
<1>6. /\ m = 1 => StateOfPath' = "MESSAGE"
      /\ m = 2 => StateOfPath' = Section'
      /\ m >= 3 => StateOfPath' = "COMPOSITE"
  BY <1>2, NextStateCases
<1>7. PartTracked' <=>
        /\ state' = StateOfPath'
        /\ state' = "COMPOSITE" =>
             IF Section' = "COMPOSITE"
               THEN saved_state' = "MESSAGE" /\ nesting_depth' = m - 2
               ELSE saved_state' = Section' /\ nesting_depth' = m - 3
  BY DEF PartTracked
<1>8. n >= 2 => path'[1] = path[1]
  BY <1>1
<1>9. path # <<>>
  BY DEF Close
<1> HIDE DEF n, m
<1>10. CASE state = "COMPOSITE"
  <2>1. Exit /\ outcome' = outcome
    BY <1>10 DEF ParseExit, Same
  <2>2. n >= 2
    BY <1>1, <1>5, <1>10
  <2>3. Rooted' /\ KeyTracked'
    BY <1>1, <1>8, <1>9, <2>1, <2>2 DEF Nest, Rooted, KeyTracked
  <2>4. CASE nesting_depth # 0
    <3>1. /\ nesting_depth' = nesting_depth - 1 /\ state' = "COMPOSITE"
          /\ saved_state' = saved_state
      BY <1>10, <2>1, <2>4 DEF Exit
    <3>2. n >= 3 /\ (Section # "COMPOSITE" => n >= 4)
      BY <1>1, <1>3, <1>10, <2>2, <2>4
    <3>3. PartTracked'
      BY <1>1, <1>3, <1>4, <1>6, <1>7, <1>10, <3>1, <3>2
    <3> QED
      BY <1>1, <2>1, <2>3, <3>1, <3>3 DEF Nest, NestingTracked, CounterAtRest
  <2>5. CASE nesting_depth = 0
    <3>1. nesting_depth' = 0 /\ state' = saved_state
      BY <2>1, <2>5 DEF Exit
    <3>2. IF Section = "COMPOSITE" THEN n = 2 ELSE n = 3
      BY <1>1, <1>3, <1>10, <2>5
    <3>3. state' = StateOfPath' /\ state' # "COMPOSITE"
      BY <1>1, <1>3, <1>4, <1>6, <1>10, <3>1, <3>2
    <3>4. PartTracked'
      BY <1>7, <3>3
    <3> QED
      BY <1>1, <2>1, <2>3, <3>1, <3>4 DEF Nest, NestingTracked, CounterAtRest
  <2> QED
    BY <2>4, <2>5
<1> QED
  BY <1>10, FatalNesting DEF ParseExit

(* The end of a part of the message.                                       *)
LEMMA LeaveNesting ==
  ASSUME TypeOK, Nest, NEW kind, Close(kind),
         state \in {"CONTEXT", "ERROR", "PARAMS"}, state' = "MESSAGE", Same,
         UNCHANGED <<saved_state, nesting_depth>>
  PROVE  Nest'
<1>1. Len(path) = 2 /\ nesting_depth = 0
  BY CloseFacts DEF Nest, NestingTracked, PartTracked, StateOfPath, CounterAtRest
<1>2. Len(path') = 1 /\ path'[1] = path[1] /\ outcome' = "parsing"
  BY <1>1, CloseFacts DEF Same
<1> QED
  BY <1>1, <1>2, CloseFacts DEF Nest, NestingTracked, PartTracked, KeyTracked,
                                StateOfPath, Rooted, CounterAtRest

(* The end of an object, of the message too.                               *)
LEMMA EndNesting ==
  ASSUME TypeOK, Nest, HandleEndMap \/ HandleEndArray
  PROVE  Nest'
<1>1. PICK kind \in {"map", "array"} : Close(kind)
  BY DEF HandleEndMap, HandleEndArray
<1>2. CASE ParseExit
  BY <1>1, <1>2, ExitNesting
<1>3. CASE state = "MESSAGE" /\ outcome' = Verdict /\ UNCHANGED nesting_depth
  <2>1. nesting_depth' = 0
    BY <1>1, <1>3, CloseFacts DEF Nest, CounterAtRest
  <2> QED
    BY <1>3, <2>1, VerdictType DEF Nest, NestingTracked, Rooted, CounterAtRest
<1>4. CASE /\ state \in {"CONTEXT", "ERROR", "PARAMS"} /\ state' = "MESSAGE"
           /\ Same /\ UNCHANGED <<saved_state, nesting_depth>>
  BY <1>1, <1>4, LeaveNesting
<1> QED
  BY <1>2, <1>3, <1>4 DEF HandleEndMap, HandleEndArray

(* Between two messages: the counter needs no reset but after a fatal one. *)
LEMMA NextNesting ==
  ASSUME Nest, NextMessage
  PROVE  Nest'
<1>1. nesting_depth' = 0
  BY DEF NextMessage, Nest, CounterAtRest
<1>2. Len(path') = 0
  BY EmptySeq DEF NextMessage
<1> QED
  BY <1>1, <1>2 DEF NextMessage, Nest, NestingTracked, PartTracked, KeyTracked,
                    StateOfPath, Rooted, CounterAtRest

(* The invariant is kept by every step.                                    *)
LEMMA NestingStep == TypeOK /\ Nest /\ [Next]_vars => Nest'
<1> SUFFICES ASSUME TypeOK, Nest, [Next]_vars PROVE Nest'
  OBVIOUS
<1>1. CASE UNCHANGED vars
  BY <1>1 DEF vars, docVars, parserVars, msgVars, Nest, NestingTracked,
              PartTracked, KeyTracked, StateOfPath, Section, Inner, Rooted,
              CounterAtRest
<1>2. CASE Next
  BY <1>2, ValueNesting, KeyNesting, StartMapNesting, StartArrayNesting,
     EndNesting, NextNesting DEF Next
<1> QED
  BY <1>1, <1>2

(* The invariant holds before the first message.                           *)
LEMMA NestingInit == Init => Nest
<1> SUFFICES ASSUME Init PROVE Nest
  OBVIOUS
<1>1. Len(path) = 0
  BY EmptySeq DEF Init
<1> QED
  BY <1>1 DEF Init, Nest, NestingTracked, PartTracked, KeyTracked, StateOfPath,
              Rooted, CounterAtRest

(* One saved state and one counter follow the nesting of every document, at*)
(* any depth and after any message before it, fatal or not (json.c:694-735)*)
THEOREM ParserTracksNesting == Spec => []NestingTracked
<1>1. TypeOK /\ Nest => NestingTracked
  BY DEF Nest
<1> QED
  BY <1>1, TypeInit, TypeStep, NestingInit, NestingStep, PTL DEF Spec
-----------------------------------------------------------------------------
(* What the message holds, member by member of its grammar: the names tell *)
(* the places apart.                                                       *)
Slot  == RootToken \cup ErrorToken \cup {"item"}
At(n) == IF n \in RootToken THEN "message"
         ELSE IF n \in ErrorToken THEN "error" ELSE "params"
Seen  == [n \in Slot |-> Values(At(n), n)]

(* A value of type v came under the name k.                                *)
Noted(k, v) ==
  /\ Seen' = [Seen EXCEPT ![k] = @ \cup {v}]
  /\ repeated' = (repeated \/ (k # "item" /\ Seen[k] # {}))

Unnoted == Seen' = Seen /\ repeated' = repeated

(* A message becomes a request at the first member of one.                 *)
Ask == {"method", "params", "context"}

Asks == Seen["method"] # {} \/ Seen["params"] # {} \/ Seen["context"] # {}

Answerable == type = "REQUEST" <=> Asks

(* It is a result or an error by its members as well, and the parts of a   *)
(* request or an error are those seen.                                     *)
Marked ==
  /\ type = "ERROR" <=> Seen["error"] # {}
  /\ type = "RESULT" => Seen["result"] # {}
  /\ Seen["result"] # {} => type = "RESULT" \/ local_error
  /\ type = "REQUEST" =>
       /\ parts_seen[0] <=> Seen["method"] # {}
       /\ parts_seen[1] <=> Seen["params"] # {}
       /\ parts_seen[2] <=> Seen["context"] # {}
  /\ type = "ERROR" =>
       /\ parts_seen[0]
       /\ parts_seen[1] <=> Seen["code"] # {}
       /\ parts_seen[2] <=> Seen["message"] # {}
  /\ type # "ERROR" => Seen["code"] = {} /\ Seen["message"] = {}
  /\ type # "REQUEST" => Seen["item"] = {}

(* The parser is in a part of the message only under its mark.             *)
Placed ==
  Len(path) >= 2 =>
    /\ Section = "ERROR" => type = "ERROR"
    /\ Section = "PARAMS" => type = "REQUEST"

(* Nothing is seen before the message is begun.                            *)
Fresh == path = <<>> => members = {}

(* The wrong types that a local error stands for, and those left.          *)
Odd ==
  \/ ~(Seen["result"] \subseteq {"null", "string"})
  \/ ~(Seen["params"] \subseteq {"array"})
  \/ ~(Seen["item"] \subseteq {"string"})

Typed ==
  /\ Seen["method"] \subseteq {"string"}
  /\ Seen["context"] \subseteq {"map"}
  /\ Seen["error"] \subseteq {"map"}
  /\ Seen["code"] \subseteq {"integer"}
  /\ Seen["message"] \subseteq {"string"}
  /\ Odd => local_error
  /\ local_error => Odd \/ MayRunOut
  /\ repeated => local_error

(* The string of the message's type was stored.                            *)
BodyKept ==
  ~local_error =>
    /\ type = "RESULT" => body \in {"null", "result"}
    /\ type = "REQUEST" /\ parts_seen[0] => body = "method"
    /\ type = "ERROR" /\ parts_seen[2] => body = "message"

(* While a message is parsed, and what is true of it from then on.         *)
Grammar == "empty" \notin Key => Marked /\ Typed

Judged ==
  /\ BodyStored /\ LocalErrorAnswered
  /\ "empty" \notin Key => ConformingAccepted /\ AcceptedConforms

Meaning ==
  IF outcome = "parsing" THEN Answerable /\ Placed /\ Fresh /\ BodyKept /\ Grammar
  ELSE Judged

-----------------------------------------------------------------------------
(* What has been seen under a name are the types of its values.            *)
LEMMA SeenType ==
  /\ Seen \in [Slot -> SUBSET { x.val : x \in members }]
  /\ \A n \in RootToken : n \in Tokens <=> Seen[n] # {}
<1>1. ASSUME NEW n \in Slot
      PROVE  Values(At(n), n) \in SUBSET { x.val : x \in members }
  BY DEF Values
<1>2. ASSUME NEW n \in RootToken
      PROVE  n \in Tokens <=> Seen[n] # {}
  <2>1. Seen[n] = Values("message", n)
    BY DEF Seen, At, Slot
  <2> QED
    BY <2>1 DEF Tokens, Values
<1> QED
  BY <1>1, <1>2 DEF Seen

(* A value counts under its name where the grammar knows that.             *)
LEMMA NoteSeen ==
  ASSUME NEW v, Note(v)
  PROVE  IF Name \in Known(Place) THEN Noted(Name, v) ELSE Unnoted
<1>1. CASE Name \notin Known(Place)
  <2>1. members' = members /\ repeated' = repeated
    BY <1>1 DEF Note
  <2> QED
    BY <1>1, <2>1 DEF Unnoted, Seen, Values
<1>2. CASE Name \in Known(Place)
  <2> DEFINE k == Name
             p == Place
  <2>1. k \in Slot /\ At(k) = p
    BY <1>2 DEF Known, Slot, At, RootToken, ErrorToken
  <2>2. /\ members' = members \cup {[at |-> p, name |-> k, val |-> v]}
        /\ repeated' = (repeated \/ \E x \in members :
                          x.at = p /\ x.name = k /\ k # "item")
    BY <1>2 DEF Note
  <2> HIDE DEF k, p
  <2>3. Seen[k] = { x.val : x \in { y \in members : y.at = p /\ y.name = k } }
    BY <2>1 DEF Seen, Values
  <2>4. repeated' = (repeated \/ (k # "item" /\ Seen[k] # {}))
    BY <2>2, <2>3
  <2>5. ASSUME NEW n \in Slot
        PROVE  Values(At(n), n)' = [Seen EXCEPT ![k] = @ \cup {v}][n]
    <3> DEFINE z == [at |-> p, name |-> k, val |-> v]
    <3>1. Values(At(n), n)' =
            { x.val : x \in { y \in members \cup {z} : y.at = At(n) /\ y.name = n } }
      BY <2>2 DEF Values
    <3>2. z.at = p /\ z.name = k /\ z.val = v
      OBVIOUS
    <3>3. Seen[n] = { x.val : x \in { y \in members : y.at = At(n) /\ y.name = n } }
      BY DEF Seen, Values
    <3>4. k \in DOMAIN Seen /\ n \in DOMAIN Seen
      BY <2>1 DEF Seen
    <3> HIDE DEF z
    <3>5. CASE n = k
      <4>1. { y \in members \cup {z} : y.at = At(n) /\ y.name = n }
              = { y \in members : y.at = At(n) /\ y.name = n } \cup {z}
        BY <2>1, <3>2, <3>5
      <4>2. Values(At(n), n)' = Seen[n] \cup {v}
        BY <3>1, <3>2, <3>3, <4>1
      <4> QED
        BY <3>4, <3>5, <4>2
    <3>6. CASE n # k
      <4>1. { y \in members \cup {z} : y.at = At(n) /\ y.name = n }
              = { y \in members : y.at = At(n) /\ y.name = n }
        BY <3>2, <3>6
      <4>2. Values(At(n), n)' = Seen[n]
        BY <3>1, <3>3, <4>1
      <4> QED
        BY <3>4, <3>6, <4>2
    <3> QED
      BY <3>5, <3>6
  <2>6. /\ Seen' = [n \in Slot |-> Values(At(n), n)']
        /\ DOMAIN Seen = Slot
    BY DEF Seen
  <2>7. Seen' = [Seen EXCEPT ![k] = @ \cup {v}]
    BY <2>5, <2>6
  <2> QED
    BY <1>2, <2>4, <2>7 DEF Noted, k
<1> QED
  BY <1>1, <1>2

-----------------------------------------------------------------------------
(* The parser takes a value for that of the member it is: what it looks at *)
(* is the place and the name of it, unless that name is the empty one.     *)
LEMMA Seat ==
  ASSUME TypeOK, Nest, NEW v, Note(v)
  PROVE  \/ state = "MESSAGE" /\ key_idx \in RootToken /\ Noted(key_idx, v)
         \/ state = "ERROR" /\ key_idx \in ErrorToken /\ Noted(key_idx, v)
         \/ state = "PARAMS" /\ Noted("item", v)
         \/ /\ Unnoted
            /\ state \in {"WAITING", "MESSAGE", "ERROR", "CONTEXT", "COMPOSITE"}
            /\ state = "WAITING" => path = <<>>
            /\ state = "MESSAGE" =>
                 key_idx = "none" \/ ("empty" \in Key /\ key_idx = "result")
            /\ state = "ERROR" =>
                 key_idx = "none" \/ ("empty" \in Key /\ key_idx = "code")
<1>1. /\ outcome = "parsing" /\ ValueDue
      /\ state = StateOfPath /\ KeyTracked
  BY DEF Note, Nest, NestingTracked, PartTracked
<1>2. path \in Seq(Opened) /\ due \in Key \cup {"none"}
  BY DEF TypeOK, DocTypeOK
<1>3. /\ Len(path) \in Nat /\ (path = <<>> <=> Len(path) = 0)
      /\ \A i \in 1..Len(path) : path[i] \in Opened
  BY <1>2, PathType
<1>4. Last(path) = path[Len(path)]
  BY DEF Last
<1>5. Key \subseteq RootToken \cup ErrorToken \cup {"other", "empty"}
  BY ParserAssumption
<1>6. IF Name \in Known(Place) THEN Noted(Name, v) ELSE Unnoted
  BY NoteSeen
<1> DEFINE n == Len(path)
<1>7. CASE n = 0
  <2>1. state = "WAITING" /\ Place = "elsewhere"
    BY <1>1, <1>7 DEF StateOfPath, Place
  <2>2. Unnoted
    BY <1>6, <2>1 DEF Known
  <2> QED
    BY <1>3, <1>7, <2>1, <2>2
<1>8. CASE n = 1
  <2>1. state = "MESSAGE" /\ Place = "message"
    BY <1>1, <1>8 DEF StateOfPath, Place
  <2>2. InMap
    BY <1>1, <1>3, <1>4, <1>8 DEF InMap, Nest, Rooted
  <2>3. Name = due /\ due \in Key /\ due # "none"
    BY <1>1, <1>2, <2>2 DEF ValueDue, Name
  <2>4. key_idx = FindToken(RootToken, "result", due)
    BY <1>1, <2>1, <2>3 DEF KeyTracked
  <2> QED
    BY <1>5, <1>6, <2>1, <2>3, <2>4 DEF Known, FindToken, RootToken, ErrorToken
<1>9. CASE n = 2
  <2>1. state = Section
    BY <1>1, <1>9 DEF StateOfPath
  <2>2. Inner = Last(path) /\ path # <<>>
    BY <1>3, <1>4, <1>9 DEF Inner
  <2>3. CASE Section = "ERROR"
    <3>1. Place = "error"
      BY <1>9, <2>3 DEF Place
    <3>2. InMap
      BY <2>2, <2>3 DEF Section, InMap
    <3>3. Name = due /\ due \in Key /\ due # "none"
      BY <1>1, <1>2, <3>2 DEF ValueDue, Name
    <3>4. key_idx = FindToken(ErrorToken, "code", due)
      BY <1>1, <2>1, <2>3, <3>3 DEF KeyTracked
    <3> QED
      BY <1>5, <1>6, <2>1, <2>3, <3>1, <3>3, <3>4
      DEF Known, FindToken, RootToken, ErrorToken
  <2>4. CASE Section = "PARAMS"
    <3>1. Place = "params"
      BY <1>9, <2>4 DEF Place
    <3>2. ~InMap
      BY <2>2, <2>4 DEF Section, InMap
    <3> QED
      BY <1>6, <2>1, <2>4, <3>1, <3>2 DEF Known, Name
  <2>5. CASE Section \notin {"ERROR", "PARAMS"}
    <3>1. Place = "elsewhere"
      BY <1>9, <2>5 DEF Place
    <3>2. Section \in {"CONTEXT", "COMPOSITE"}
      BY <2>5 DEF Section
    <3> QED
      BY <1>6, <2>1, <3>1, <3>2 DEF Known
  <2> QED
    BY <2>3, <2>4, <2>5
<1>10. CASE n >= 3
  <2>1. n # 1 /\ n # 2 /\ n # 0
    BY <1>3, <1>10
  <2>2. state = "COMPOSITE" /\ Place = "elsewhere"
    BY <1>1, <1>3, <1>10, <2>1, StateCases DEF Place
  <2> QED
    BY <1>6, <2>2 DEF Known
<1>11. n = 0 \/ n = 1 \/ n = 2 \/ n >= 3
  <2>1. n \in Nat
    BY <1>3
  <2> HIDE DEF n
  <2> QED
    BY <2>1
<1> QED
  BY <1>7, <1>8, <1>9, <1>10, <1>11

(* What is seen of the members of a request is what the parser looks at.   *)
LEMMA AskSeen ==
  ASSUME TypeOK, Nest, NEW v, Note(v)
  PROVE  Asks' <=> Asks \/ (state = "MESSAGE" /\ key_idx \in Ask)
<1>1. DOMAIN Seen = Slot
  BY DEF Seen
<1>2. ASSUME NEW k \in Slot, Noted(k, v)
      PROVE  Asks' <=> Asks \/ k \in Ask
  <2>1. \A n \in Slot : Seen'[n] = IF n = k THEN Seen[n] \cup {v} ELSE Seen[n]
    BY <1>1, <1>2 DEF Noted
  <2>2. Ask \subseteq Slot
    BY DEF Ask, Slot, RootToken
  <2> QED
    BY <2>1, <2>2 DEF Asks, Ask
<1>3. CASE state = "MESSAGE" /\ key_idx \in RootToken /\ Noted(key_idx, v)
  BY <1>2, <1>3 DEF Slot
<1>4. CASE state = "ERROR" /\ key_idx \in ErrorToken /\ Noted(key_idx, v)
  <2>1. key_idx \in Slot /\ key_idx \notin Ask
    BY <1>4 DEF Slot, ErrorToken, Ask
  <2> QED
    BY <1>2, <1>4, <2>1
<1>5. CASE state = "PARAMS" /\ Noted("item", v)
  <2>1. "item" \in Slot /\ "item" \notin Ask
    BY DEF Slot, Ask
  <2> QED
    BY <1>2, <1>5, <2>1
<1>6. CASE Unnoted /\ (state = "MESSAGE" => key_idx \in {"none", "result"})
  BY <1>6 DEF Unnoted, Asks, Ask
<1> QED
  BY <1>3, <1>4, <1>5, <1>6, Seat


-----------------------------------------------------------------------------
(* The messages of the protocol, by what has been seen.                    *)
IsRequest ==
  /\ ~repeated
  /\ Seen["result"] = {} /\ Seen["error"] = {}
  /\ Seen["method"] # {} /\ Seen["method"] \subseteq {"string"}
  /\ Seen["params"] \subseteq {"array"}
  /\ Seen["item"] \subseteq {"string"}
  /\ Seen["context"] \subseteq {"map"}

IsResult ==
  /\ ~repeated
  /\ Seen["error"] = {} /\ ~Asks
  /\ Seen["result"] # {} /\ Seen["result"] \subseteq {"null", "string"}

IsError ==
  /\ ~repeated
  /\ Seen["result"] = {} /\ ~Asks
  /\ Seen["error"] # {} /\ Seen["error"] \subseteq {"map"}
  /\ Seen["code"] # {} /\ Seen["code"] \subseteq {"integer"}
  /\ Seen["message"] # {} /\ Seen["message"] \subseteq {"string"}

(* They are those of the grammar.                                          *)
LEMMA ConformsBySeen ==
  /\ Conforms("request") <=> IsRequest
  /\ Conforms("result") <=> IsResult
  /\ Conforms("error") <=> IsError
  /\ Tokens \cap Ask # {} <=> Asks
<1>1. /\ Seen["result"] = Values("message", "result")
      /\ Seen["method"] = Values("message", "method")
      /\ Seen["params"] = Values("message", "params")
      /\ Seen["context"] = Values("message", "context")
      /\ Seen["error"] = Values("message", "error")
      /\ Seen["code"] = Values("error", "code")
      /\ Seen["message"] = Values("error", "message")
      /\ Seen["item"] = Values("params", "item")
  BY DEF Seen, At, Slot, RootToken, ErrorToken
<1>2. /\ "result" \in Tokens <=> Seen["result"] # {}
      /\ "method" \in Tokens <=> Seen["method"] # {}
      /\ "params" \in Tokens <=> Seen["params"] # {}
      /\ "context" \in Tokens <=> Seen["context"] # {}
      /\ "error" \in Tokens <=> Seen["error"] # {}
  BY SeenType DEF RootToken
<1>3. Tokens \subseteq {"result", "method", "params", "context", "error"}
  BY DEF Tokens, RootToken
<1> HIDE DEF Tokens
<1>4. Tokens \cap Ask # {} <=> Asks
  BY <1>2, <1>3 DEF Asks, Ask
<1>5. Tokens \subseteq Ask <=> "result" \notin Tokens /\ "error" \notin Tokens
  BY <1>3 DEF Ask
<1>6. Tokens = {"result"} <=>
        "result" \in Tokens /\ "error" \notin Tokens /\ Tokens \cap Ask = {}
  BY <1>3 DEF Ask
<1>7. Tokens = {"error"} <=>
        "error" \in Tokens /\ "result" \notin Tokens /\ Tokens \cap Ask = {}
  BY <1>3 DEF Ask
<1>8. Conforms("request") <=> IsRequest
  BY <1>1, <1>2, <1>5 DEF Conforms, Has, IsRequest, Ask
<1>9. Conforms("result") <=> IsResult
  BY <1>1, <1>2, <1>4, <1>6 DEF Conforms, Has, IsResult
<1>10. Conforms("error") <=> IsError
  BY <1>1, <1>2, <1>4, <1>7 DEF Conforms, Has, IsError
<1> QED
  BY <1>4, <1>8, <1>9, <1>10

(* The same after a step.                                                  *)
LEMMA NextConformsBySeen ==
  /\ Conforms("request")' <=> IsRequest'
  /\ Conforms("result")' <=> IsResult'
  /\ Conforms("error")' <=> IsError'
  /\ (Tokens \cap Ask # {})' <=> Asks'
  BY ConformsBySeen, PTL

-----------------------------------------------------------------------------
(* How the marks of a message follow its members.  Each lemma is about one *)
(* kind of member: the message remains as it was marked, or becomes it.    *)

(* What a further value does to each name.                                 *)
LEMMA NotedValues ==
  ASSUME NEW k \in Slot, NEW v, Noted(k, v)
  PROVE  /\ Seen'[k] = Seen[k] \cup {v}
         /\ \A n \in Slot \ {k} : Seen'[n] = Seen[n]
         /\ Odd => Odd'
<1>1. DOMAIN Seen = Slot
  BY DEF Seen
<1>2. \A n \in Slot : Seen'[n] = IF n = k THEN Seen[n] \cup {v} ELSE Seen[n]
  BY <1>1 DEF Noted
<1>3. {"result", "params", "item"} \subseteq Slot
  BY DEF Slot, RootToken
<1>4. Odd => Odd'
  BY <1>2, <1>3 DEF Odd
<1> QED
  BY <1>2, <1>4

(* A mark that may be set is set on that part alone.                       *)
LEMMA MarkFacts ==
  ASSUME ParserTypeOK, NEW t \in {"REQUEST", "ERROR"}, NEW p \in Part,
         CanMarkPart(t, p), MarkPart(t, p)
  PROVE  /\ type' = t /\ (type = "NONE" \/ (type = t /\ ~parts_seen[p]))
         /\ parts_seen'[0] <=> p = 0 \/ (type = t /\ parts_seen[0])
         /\ parts_seen'[1] <=> p = 1 \/ (type = t /\ parts_seen[1])
         /\ parts_seen'[2] <=> p = 2 \/ (type = t /\ parts_seen[2])
<1>1. /\ DOMAIN parts_seen = Part /\ 0 \in Part /\ 1 \in Part /\ 2 \in Part
      /\ \A q \in Part : parts_seen[q] \in BOOLEAN
  BY DEF ParserTypeOK, Part
<1>2. type' = t /\ (type = "NONE" \/ (type = t /\ ~parts_seen[p]))
  BY DEF CanMarkPart, MarkPart
<1>3. CASE type = "NONE"
  <2>1. parts_seen' = [q \in Part |-> q = p]
    BY <1>3 DEF MarkPart
  <2> QED
    BY <1>1, <1>2, <1>3, <2>1
<1>4. CASE type # "NONE"
  <2>1. parts_seen' = [parts_seen EXCEPT ![p] = TRUE]
    BY <1>4 DEF MarkPart
  <2> QED
    BY <1>1, <1>2, <1>4, <2>1
<1> QED
  BY <1>3, <1>4

(* What a string, a null or an odd type may do to the local error.         *)
LocalFollows ==
  /\ local_error' \in BOOLEAN /\ (local_error => local_error')
  /\ local_error' => local_error \/ MayRunOut \/ Odd'

(* A result.                                                               *)
LEMMA ResultMarked ==
  ASSUME Answerable, Marked, Typed, NEW v, Noted("result", v), LocalFollows,
         UNCHANGED parts_seen,
         \/ v \in {"null", "string"} /\ type = "NONE" /\ type' = "RESULT"
         \/ local_error' /\ UNCHANGED type
  PROVE  Marked' /\ Typed'
<1>1. "result" \in Slot
  BY DEF Slot, RootToken
<1>2. Slot = {"result", "method", "params", "context", "error", "code",
              "message", "item"}
  BY DEF Slot, RootToken, ErrorToken
<1>3. /\ Seen'["result"] = Seen["result"] \cup {v}
      /\ Seen'["method"] = Seen["method"] /\ Seen'["params"] = Seen["params"]
      /\ Seen'["context"] = Seen["context"] /\ Seen'["error"] = Seen["error"]
      /\ Seen'["code"] = Seen["code"] /\ Seen'["message"] = Seen["message"]
      /\ Seen'["item"] = Seen["item"] /\ (Odd => Odd')
  BY <1>1, <1>2, NotedValues
<1>4. repeated' = (repeated \/ Seen["result"] # {})
  BY DEF Noted
<1> HIDE DEF Seen
<1>5. Marked'
  BY <1>3 DEF Answerable, Asks, Marked, LocalFollows
<1>6. Typed'
  BY <1>3, <1>4 DEF Marked, Typed, LocalFollows, Odd
<1> QED
  BY <1>5, <1>6

(* A member of a request.                                                  *)
LEMMA RequestMarked ==
  ASSUME ParserTypeOK, Answerable, Marked, Typed, LocalFollows,
         NEW v, NEW k \in Ask, Noted(k, v),
         NEW p \in Part, CanMarkPart("REQUEST", p), MarkPart("REQUEST", p),
         \/ k = "method" /\ p = 0 /\ v = "string"
         \/ k = "params" /\ p = 1 /\ (v = "array" \/ local_error')
         \/ k = "context" /\ p = 2 /\ v = "map"
  PROVE  Marked' /\ Typed'
<1>1. k \in Slot
  BY DEF Slot, RootToken, Ask
<1>2. Slot = {"result", "method", "params", "context", "error", "code",
              "message", "item"}
  BY DEF Slot, RootToken, ErrorToken
<1>3. /\ Seen'[k] = Seen[k] \cup {v}
      /\ \A n \in Slot \ {k} : Seen'[n] = Seen[n]
      /\ Odd => Odd'
  BY <1>1, NotedValues
<1>4. repeated' = (repeated \/ Seen[k] # {})
  BY DEF Noted, Ask
<1>5. /\ type' = "REQUEST" /\ (type = "NONE" \/ (type = "REQUEST" /\ ~parts_seen[p]))
      /\ parts_seen'[0] <=> p = 0 \/ (type = "REQUEST" /\ parts_seen[0])
      /\ parts_seen'[1] <=> p = 1 \/ (type = "REQUEST" /\ parts_seen[1])
      /\ parts_seen'[2] <=> p = 2 \/ (type = "REQUEST" /\ parts_seen[2])
  BY MarkFacts
<1>6. /\ Seen'["result"] = Seen["result"] /\ Seen'["error"] = Seen["error"]
      /\ Seen'["code"] = Seen["code"] /\ Seen'["message"] = Seen["message"]
      /\ Seen'["item"] = Seen["item"]
  BY <1>2, <1>3 DEF Ask
<1> HIDE DEF Seen
<1>7. CASE k = "method" /\ p = 0 /\ v = "string"
  <2>1. Seen'["params"] = Seen["params"] /\ Seen'["context"] = Seen["context"]
    BY <1>2, <1>3, <1>7
  <2>2. Marked'
    BY <1>3, <1>5, <1>6, <1>7, <2>1 DEF Answerable, Asks, Marked, LocalFollows
  <2>3. Typed'
    BY <1>3, <1>4, <1>5, <1>6, <1>7, <2>1
    DEF Answerable, Asks, Marked, Typed, LocalFollows, Odd
  <2> QED
    BY <2>2, <2>3
<1>8. CASE k = "params" /\ p = 1 /\ (v = "array" \/ local_error')
  <2>1. Seen'["method"] = Seen["method"] /\ Seen'["context"] = Seen["context"]
    BY <1>2, <1>3, <1>8
  <2>2. Marked'
    BY <1>3, <1>5, <1>6, <1>8, <2>1 DEF Answerable, Asks, Marked, LocalFollows
  <2>3. Typed'
    BY <1>3, <1>4, <1>5, <1>6, <1>8, <2>1
    DEF Answerable, Asks, Marked, Typed, LocalFollows, Odd
  <2> QED
    BY <2>2, <2>3
<1>9. CASE k = "context" /\ p = 2 /\ v = "map"
  <2>1. Seen'["method"] = Seen["method"] /\ Seen'["params"] = Seen["params"]
    BY <1>2, <1>3, <1>9
  <2>2. Marked'
    BY <1>3, <1>5, <1>6, <1>9, <2>1 DEF Answerable, Asks, Marked, LocalFollows
  <2>3. Typed'
    BY <1>3, <1>4, <1>5, <1>6, <1>9, <2>1
    DEF Answerable, Asks, Marked, Typed, LocalFollows, Odd
  <2> QED
    BY <2>2, <2>3
<1> QED
  BY <1>7, <1>8, <1>9

(* An error, or one of its members.                                        *)
LEMMA ErrorMarked ==
  ASSUME ParserTypeOK, Answerable, Marked, Typed, LocalFollows,
         NEW v, NEW k \in {"error", "code", "message"}, Noted(k, v),
         NEW p \in Part, CanMarkPart("ERROR", p), MarkPart("ERROR", p),
         k # "error" => type = "ERROR",
         \/ k = "error" /\ p = 0 /\ v = "map"
         \/ k = "code" /\ p = 1 /\ v = "integer"
         \/ k = "message" /\ p = 2 /\ v = "string"
  PROVE  Marked' /\ Typed'
<1>1. k \in Slot
  BY DEF Slot, RootToken, ErrorToken
<1>2. Slot = {"result", "method", "params", "context", "error", "code",
              "message", "item"}
  BY DEF Slot, RootToken, ErrorToken
<1>3. /\ Seen'[k] = Seen[k] \cup {v}
      /\ \A n \in Slot \ {k} : Seen'[n] = Seen[n]
      /\ Odd => Odd'
  BY <1>1, NotedValues
<1>4. repeated' = (repeated \/ Seen[k] # {})
  BY DEF Noted
<1>5. /\ type' = "ERROR" /\ (type = "NONE" \/ (type = "ERROR" /\ ~parts_seen[p]))
      /\ parts_seen'[0] <=> p = 0 \/ (type = "ERROR" /\ parts_seen[0])
      /\ parts_seen'[1] <=> p = 1 \/ (type = "ERROR" /\ parts_seen[1])
      /\ parts_seen'[2] <=> p = 2 \/ (type = "ERROR" /\ parts_seen[2])
  BY MarkFacts
<1>6. /\ Seen'["result"] = Seen["result"] /\ Seen'["method"] = Seen["method"]
      /\ Seen'["params"] = Seen["params"] /\ Seen'["context"] = Seen["context"]
      /\ Seen'["item"] = Seen["item"]
  BY <1>2, <1>3
<1> HIDE DEF Seen
<1>7. CASE k = "error" /\ p = 0 /\ v = "map"
  <2>1. Seen'["code"] = Seen["code"] /\ Seen'["message"] = Seen["message"]
    BY <1>2, <1>3, <1>7
  <2>2. Marked'
    BY <1>3, <1>5, <1>6, <1>7, <2>1 DEF Answerable, Asks, Marked, LocalFollows
  <2>3. Typed'
    BY <1>3, <1>4, <1>5, <1>6, <1>7, <2>1
    DEF Answerable, Asks, Marked, Typed, LocalFollows, Odd
  <2> QED
    BY <2>2, <2>3
<1>8. CASE k = "code" /\ p = 1 /\ v = "integer"
  <2>1. Seen'["error"] = Seen["error"] /\ Seen'["message"] = Seen["message"]
    BY <1>2, <1>3, <1>8
  <2>2. Marked'
    BY <1>3, <1>5, <1>6, <1>8, <2>1 DEF Answerable, Asks, Marked, LocalFollows
  <2>3. Typed'
    BY <1>3, <1>4, <1>5, <1>6, <1>8, <2>1
    DEF Answerable, Asks, Marked, Typed, LocalFollows, Odd
  <2> QED
    BY <2>2, <2>3
<1>9. CASE k = "message" /\ p = 2 /\ v = "string"
  <2>1. Seen'["error"] = Seen["error"] /\ Seen'["code"] = Seen["code"]
    BY <1>2, <1>3, <1>9
  <2>2. Marked'
    BY <1>3, <1>5, <1>6, <1>9, <2>1 DEF Answerable, Asks, Marked, LocalFollows
  <2>3. Typed'
    BY <1>3, <1>4, <1>5, <1>6, <1>9, <2>1
    DEF Answerable, Asks, Marked, Typed, LocalFollows, Odd
  <2> QED
    BY <2>2, <2>3
<1> QED
  BY <1>7, <1>8, <1>9

(* An item of the parameters.                                              *)
LEMMA ItemMarked ==
  ASSUME Answerable, Marked, Typed, NEW v, Noted("item", v), LocalFollows,
         UNCHANGED <<type, parts_seen>>, type = "REQUEST",
         v = "string" \/ local_error'
  PROVE  Marked' /\ Typed'
<1>1. "item" \in Slot
  BY DEF Slot
<1>2. Slot = {"result", "method", "params", "context", "error", "code",
              "message", "item"}
  BY DEF Slot, RootToken, ErrorToken
<1>3. /\ Seen'["item"] = Seen["item"] \cup {v}
      /\ Seen'["method"] = Seen["method"] /\ Seen'["params"] = Seen["params"]
      /\ Seen'["context"] = Seen["context"] /\ Seen'["error"] = Seen["error"]
      /\ Seen'["code"] = Seen["code"] /\ Seen'["message"] = Seen["message"]
      /\ Seen'["result"] = Seen["result"] /\ (Odd => Odd')
  BY <1>1, <1>2, NotedValues
<1>4. repeated' => repeated
  BY DEF Noted
<1> HIDE DEF Seen
<1>5. Marked'
  BY <1>3 DEF Answerable, Asks, Marked, LocalFollows
<1>6. Typed'
  BY <1>3, <1>4 DEF Marked, Typed, LocalFollows, Odd
<1> QED
  BY <1>5, <1>6

(* Whatever the grammar does not know.                                     *)
LEMMA UnnotedMarked ==
  ASSUME Marked, Typed, Unnoted, UNCHANGED <<type, parts_seen, local_error>>
  PROVE  Marked' /\ Typed'
<1> USE DEF Unnoted
<1> HIDE DEF Seen
<1>1. Marked'
  BY DEF Marked
<1>2. Typed'
  BY DEF Typed, Odd
<1> QED
  BY <1>1, <1>2

-----------------------------------------------------------------------------
(* What is judged: a message that is fatal was none of the grammar.        *)
LEMMA Unfit ==
  ASSUME outcome' = "fatal",
         "empty" \notin Key => ~IsRequest' /\ ~IsResult' /\ ~IsError'
  PROVE  Meaning'
<1>1. BodyStored' /\ LocalErrorAnswered' /\ AcceptedConforms'
  BY DEF BodyStored, LocalErrorAnswered, AcceptedConforms
<1>2. "empty" \notin Key => ConformingAccepted'
  BY NextConformsBySeen DEF ConformingAccepted
<1> QED
  BY <1>1, <1>2 DEF Meaning, Judged

(* Why json.c cancels the parse at a value of type v.                      *)
RootFatal(v) ==
  \/ key_idx = "result"  /\ type # "NONE"
  \/ key_idx = "method"  /\ (v # "string" \/ ~CanMarkPart("REQUEST", 0))
  \/ key_idx = "params"  /\ (v # "array" \/ ~CanMarkPart("REQUEST", 1))
  \/ key_idx = "context" /\ (v # "map" \/ ~CanMarkPart("REQUEST", 2))
  \/ key_idx = "error"   /\ (v # "map" \/ ~CanMarkPart("ERROR", 0))

ErrorFatal(v) ==
  \/ key_idx = "code"    /\ (v # "integer" \/ ~CanMarkPart("ERROR", 1))
  \/ key_idx = "message" /\ (v # "string" \/ ~CanMarkPart("ERROR", 2))

WhyFatal(v) ==
  \/ state = "WAITING"
  \/ state = "MESSAGE" /\ RootFatal(v)
  \/ state = "ERROR" /\ ErrorFatal(v)

(* A member of the message that is fatal is no member of the grammar.      *)
LEMMA RootUnfit ==
  ASSUME Answerable, Marked, ParserTypeOK, NEW v, key_idx \in RootToken,
         Noted(key_idx, v), RootFatal(v)
  PROVE  ~IsRequest' /\ ~IsResult' /\ ~IsError'
<1>1. Slot = {"result", "method", "params", "context", "error", "code",
              "message", "item"}
  BY DEF Slot, RootToken, ErrorToken
<1>2. key_idx \in Slot
  BY DEF Slot
<1>3. /\ Seen'[key_idx] = Seen[key_idx] \cup {v}
      /\ \A n \in Slot \ {key_idx} : Seen'[n] = Seen[n]
  BY <1>2, NotedValues
<1>4. repeated' = (repeated \/ (key_idx # "item" /\ Seen[key_idx] # {}))
  BY DEF Noted
<1>5. type \in {"NONE", "REQUEST", "RESULT", "ERROR"}
  BY DEF ParserTypeOK
<1>6. ASSUME NEW n \in Slot, Seen[n] # {} PROVE Seen'[n] # {}
  BY <1>1, <1>3, <1>6
<1>7. Asks => Asks'
  BY <1>1, <1>6 DEF Asks
<1> HIDE DEF Seen
<1>8. CASE key_idx = "result" /\ type # "NONE"
  <2>1. Seen'["result"] # {} /\ (Seen["result"] # {} => repeated')
    BY <1>1, <1>3, <1>4, <1>8
  <2>2. Seen["error"] # {} => Seen'["error"] # {}
    BY <1>1, <1>6
  <2>3. CASE type = "REQUEST"
    BY <1>7, <2>1, <2>3 DEF Answerable, IsRequest, IsResult, IsError
  <2>4. CASE type = "RESULT"
    BY <2>1, <2>4 DEF Marked, IsRequest, IsResult, IsError
  <2>5. CASE type = "ERROR"
    BY <2>1, <2>2, <2>5 DEF Marked, IsRequest, IsResult, IsError
  <2> QED
    BY <1>5, <1>8, <2>3, <2>4, <2>5
<1>9. ASSUME NEW k \in Ask, NEW p \in Part, NEW w, key_idx = k,
             v # w \/ ~CanMarkPart("REQUEST", p),
             IsRequest' => Seen'[k] \subseteq {w},
             type = "REQUEST" => (parts_seen[p] <=> Seen[k] # {})
      PROVE  ~IsRequest' /\ ~IsResult' /\ ~IsError'
  <2>1. v \in Seen'[k] /\ (Seen[k] # {} => repeated')
    BY <1>3, <1>4, <1>9 DEF Ask
  <2>2. Asks'
    BY <1>9, <2>1 DEF Asks, Ask
  <2>3. /\ Seen["error"] # {} => Seen'["error"] # {}
        /\ Seen["result"] # {} => Seen'["result"] # {}
    BY <1>1, <1>6
  <2>4. CASE v # w
    BY <1>9, <2>1, <2>2, <2>4 DEF IsResult, IsError
  <2>5. CASE ~CanMarkPart("REQUEST", p)
    <3>1. type \in {"RESULT", "ERROR"} \/ (type = "REQUEST" /\ parts_seen[p])
      BY <1>5, <2>5 DEF CanMarkPart
    <3> QED
      BY <1>9, <2>1, <2>2, <2>3, <3>1 DEF Marked, IsRequest, IsResult, IsError
  <2> QED
    BY <1>9, <2>4, <2>5
<1>10. CASE /\ key_idx = "error"
            /\ v # "map" \/ ~CanMarkPart("ERROR", 0)
  <2>1. v \in Seen'["error"] /\ (Seen["error"] # {} => repeated')
    BY <1>1, <1>3, <1>4, <1>10
  <2>2. Seen["result"] # {} => Seen'["result"] # {}
    BY <1>1, <1>6
  <2>3. CASE v # "map"
    BY <2>1, <2>3 DEF IsRequest, IsResult, IsError
  <2>4. CASE ~CanMarkPart("ERROR", 0)
    <3>1. type \in {"RESULT", "REQUEST", "ERROR"}
      BY <1>5, <2>4 DEF CanMarkPart
    <3> QED
      BY <1>7, <2>1, <2>2, <3>1
      DEF Answerable, Marked, IsRequest, IsResult, IsError
  <2> QED
    BY <1>10, <2>3, <2>4
<1>11. CASE key_idx = "method" /\ (v # "string" \/ ~CanMarkPart("REQUEST", 0))
  BY <1>9, <1>11 DEF Ask, Part, IsRequest, Marked
<1>12. CASE key_idx = "params" /\ (v # "array" \/ ~CanMarkPart("REQUEST", 1))
  BY <1>9, <1>12 DEF Ask, Part, IsRequest, Marked
<1>13. CASE key_idx = "context" /\ (v # "map" \/ ~CanMarkPart("REQUEST", 2))
  BY <1>9, <1>13 DEF Ask, Part, IsRequest, Marked
<1> QED
  BY <1>8, <1>10, <1>11, <1>12, <1>13 DEF RootFatal

(* Nor is a member of an error.                                            *)
LEMMA ErrorUnfit ==
  ASSUME Marked, type = "ERROR", NEW v, key_idx \in ErrorToken,
         Noted(key_idx, v), ErrorFatal(v)
  PROVE  ~IsRequest' /\ ~IsResult' /\ ~IsError'
<1>1. Slot = {"result", "method", "params", "context", "error", "code",
              "message", "item"}
  BY DEF Slot, RootToken, ErrorToken
<1>2. key_idx \in Slot
  BY DEF Slot
<1>3. /\ Seen'[key_idx] = Seen[key_idx] \cup {v}
      /\ \A n \in Slot \ {key_idx} : Seen'[n] = Seen[n]
  BY <1>2, NotedValues
<1>4. repeated' = (repeated \/ (key_idx # "item" /\ Seen[key_idx] # {}))
  BY DEF Noted
<1> HIDE DEF Seen
<1>5. Seen'["error"] = Seen["error"] /\ Seen["error"] # {}
  BY <1>1, <1>3 DEF ErrorToken, Marked
<1>6. CASE key_idx = "code" /\ (v # "integer" \/ ~CanMarkPart("ERROR", 1))
  <2>1. v \in Seen'["code"] /\ (Seen["code"] # {} => repeated')
    BY <1>3, <1>4, <1>6
  <2> QED
    BY <1>5, <1>6, <2>1 DEF CanMarkPart, Marked, IsRequest, IsResult, IsError
<1>7. CASE key_idx = "message" /\ (v # "string" \/ ~CanMarkPart("ERROR", 2))
  <2>1. v \in Seen'["message"] /\ (Seen["message"] # {} => repeated')
    BY <1>3, <1>4, <1>7
  <2> QED
    BY <1>5, <1>7, <2>1 DEF CanMarkPart, Marked, IsRequest, IsResult, IsError
<1> QED
  BY <1>6, <1>7 DEF ErrorFatal

(* What a fatal value makes of the message.                                *)
LEMMA FatalMeaning ==
  ASSUME TypeOK, Nest, Meaning, NEW v, Note(v), Fatal, WhyFatal(v)
  PROVE  Meaning'
<1>1. outcome = "parsing" /\ outcome' = "fatal"
  BY DEF Note, Fatal
<1>2. Answerable /\ Placed /\ Fresh /\ Grammar
  BY <1>1 DEF Meaning
<1> SUFFICES ASSUME "empty" \notin Key
             PROVE  ~IsRequest' /\ ~IsResult' /\ ~IsError'
  BY <1>1, Unfit
<1>3. Marked
  BY <1>2 DEF Grammar
<1>4. CASE state = "WAITING"
  <2>1. Unnoted /\ path = <<>>
    BY <1>4, Seat
  <2>2. members = {}
    BY <1>2, <2>1 DEF Fresh
  <2>3. Seen["result"] = {} /\ Seen["method"] = {} /\ Seen["error"] = {}
    BY <2>2, SeenType DEF Slot, RootToken
  <2> QED
    BY <2>1, <2>3 DEF Unnoted, IsRequest, IsResult, IsError
<1>5. CASE state = "MESSAGE" /\ RootFatal(v)
  <2>1. key_idx \in RootToken /\ Noted(key_idx, v)
    BY <1>5, Seat DEF RootFatal
  <2> QED
    BY <1>2, <1>3, <1>5, <2>1, RootUnfit DEF TypeOK
<1>6. CASE state = "ERROR" /\ ErrorFatal(v)
  <2>1. key_idx \in ErrorToken /\ Noted(key_idx, v)
    BY <1>6, Seat DEF ErrorFatal
  <2>2. state = StateOfPath /\ Len(path) \in Nat
    BY <1>1, PathType DEF Nest, NestingTracked, PartTracked, TypeOK, DocTypeOK
  <2>3. Len(path) = 2 /\ Section = "ERROR"
    BY <1>6, <2>2 DEF StateOfPath
  <2>4. type = "ERROR"
    BY <1>2, <2>3 DEF Placed
  <2> QED
    BY <1>3, <1>6, <2>1, <2>4, ErrorUnfit
<1> QED
  BY <1>4, <1>5, <1>6 DEF WhyFatal

-----------------------------------------------------------------------------
(* A value that is accepted, under the name the parser has for it.         *)

(* While there is a place for a value, the document is begun.              *)
LEMMA Begun ==
  ASSUME TypeOK, Nest, outcome = "parsing"
  PROVE  /\ state = "WAITING" <=> path = <<>>
         /\ state = "MESSAGE" => Len(path) = 1
         /\ state \in {"ERROR", "PARAMS"} => Len(path) = 2 /\ Section = state
         /\ state \in {"MESSAGE", "ERROR", "CONTEXT"} => Last(path).kind = "map"
         /\ state = "PARAMS" => Last(path).kind = "array"
         /\ state \in {"WAITING", "MESSAGE", "ERROR", "CONTEXT", "PARAMS",
                       "COMPOSITE"}
<1>1. /\ state = StateOfPath /\ Len(path) \in Nat
      /\ path = <<>> <=> Len(path) = 0
  BY PathType DEF Nest, NestingTracked, PartTracked, TypeOK, DocTypeOK
<1>2. Section \in {"CONTEXT", "ERROR", "PARAMS", "COMPOSITE"}
  BY DEF Section
<1> DEFINE n == Len(path)
<1>3. n = 0 \/ n = 1 \/ n = 2 \/ n >= 3
  <2>1. n \in Nat
    BY <1>1
  <2> HIDE DEF n
  <2> QED
    BY <2>1
<1>4. /\ n = 0 => state = "WAITING"
      /\ n = 1 => state = "MESSAGE"
      /\ n = 2 => state = Section
      /\ n >= 3 => state = "COMPOSITE"
  BY <1>1, StateCases
<1>5. n = 1 => Last(path).kind = "map"
  BY <1>1 DEF Last, Nest, Rooted
<1>6. n = 2 => /\ Section \in {"ERROR", "CONTEXT"} => Last(path).kind = "map"
               /\ Section = "PARAMS" => Last(path).kind = "array"
  BY <1>1 DEF Last, Section, Inner
<1> QED
  BY <1>1, <1>2, <1>3, <1>4, <1>5, <1>6

(* What has to be shown of it: the rest is where it stands.                *)
LEMMA ValueKept ==
  ASSUME TypeOK, Nest, Meaning, NEW v, Note(v), UNCHANGED path, Same,
         state # "WAITING",
         type # "NONE" => type' = type,
         type' = "REQUEST" <=>
           type = "REQUEST" \/ (state = "MESSAGE" /\ key_idx \in Ask),
         BodyKept',
         "empty" \notin Key => Marked' /\ Typed'
  PROVE  Meaning'
<1>1. outcome = "parsing" /\ outcome' = "parsing"
  BY DEF Note, Same
<1>2. Answerable /\ Placed
  BY <1>1 DEF Meaning
<1>3. Answerable'
  BY <1>2, AskSeen DEF Answerable
<1>4. Section' = Section
  BY DEF Section, Inner
<1>5. Placed'
  BY <1>2, <1>4 DEF Placed
<1>6. Fresh'
  BY <1>1, Begun DEF Fresh
<1> QED
  BY <1>1, <1>3, <1>5, <1>6 DEF Meaning, Grammar

(* In a part of the message its mark is set.                               *)
LEMMA InPart ==
  ASSUME TypeOK, Nest, Meaning, outcome = "parsing"
  PROVE  /\ state = "ERROR" => type = "ERROR"
         /\ state = "PARAMS" => type = "REQUEST"
<1>1. Placed
  BY DEF Meaning
<1> QED
  BY <1>1, Begun DEF Placed

(* A value that is ignored, or an error in one that is not fatal.          *)
LEMMA DefaultMarked ==
  ASSUME TypeOK, Nest, Meaning, NEW v, Note(v),
         IgnoresValue \/ RaisesLocal, UNCHANGED <<type, parts_seen, body>>,
         local_error' = (local_error \/ ~IgnoresValue),
         state = "MESSAGE" /\ key_idx = "result" => v \notin {"null", "string"},
         state = "PARAMS" => v # "string"
  PROVE  /\ state # "WAITING" /\ ~(state = "MESSAGE" /\ key_idx \in Ask)
         /\ ~(state = "MESSAGE" /\ key_idx \in {"params", "error"})
         /\ BodyKept'
         /\ "empty" \notin Key => Marked' /\ Typed'
<1>1. outcome = "parsing" /\ state # "WAITING" /\ local_error \in BOOLEAN
  BY DEF Note, IgnoresValue, RaisesLocal, TypeOK, ParserTypeOK
<1>2. /\ ~(state = "MESSAGE" /\ key_idx \in Ask)
      /\ ~(state = "MESSAGE" /\ key_idx \in {"params", "error"})
  BY DEF IgnoresValue, RaisesLocal, Ask
<1>3. BodyKept'
  BY <1>1 DEF Meaning, BodyKept
<1>4. ASSUME "empty" \notin Key PROVE Marked' /\ Typed'
  <2>1. Answerable /\ Marked /\ Typed
    BY <1>1, <1>4 DEF Meaning, Grammar
  <2>2. CASE IgnoresValue
    <3>1. Unnoted
      BY <1>4, <2>2, Seat DEF IgnoresValue, RootToken, ErrorToken
    <3>2. UNCHANGED local_error
      BY <1>1, <2>2
    <3> QED
      BY <2>1, <3>1, <3>2, UnnotedMarked
  <2>3. CASE state = "PARAMS"
    <3>1. Noted("item", v) /\ local_error' /\ type = "REQUEST"
      BY <1>1, <2>3, Seat, InPart DEF IgnoresValue
    <3>2. v \in Seen'["item"]
      BY <3>1, NotedValues DEF Slot
    <3>3. LocalFollows
      BY <1>1, <2>3, <3>1, <3>2 DEF LocalFollows, Odd
    <3> QED
      BY <2>1, <3>1, <3>3, ItemMarked
  <2>4. CASE state = "MESSAGE" /\ key_idx = "result"
    <3>1. Noted("result", v) /\ local_error'
      BY <1>1, <1>4, <2>4, Seat DEF IgnoresValue
    <3>2. v \in Seen'["result"]
      BY <3>1, NotedValues DEF Slot, RootToken
    <3>3. LocalFollows
      BY <1>1, <2>4, <3>1, <3>2 DEF LocalFollows, Odd
    <3> QED
      BY <2>1, <3>1, <3>3, ResultMarked
  <2> QED
    BY <2>2, <2>3, <2>4 DEF RaisesLocal
<1> QED
  BY <1>1, <1>2, <1>3, <1>4

(* What is neither of it is fatal for a reason.                            *)
LEMMA DefaultFatal ==
  ASSUME TypeOK, Nest, NEW v, Note(v), ~IgnoresValue, ~RaisesLocal,
         state = "MESSAGE" /\ key_idx = "method" => v # "string",
         state = "MESSAGE" /\ key_idx = "params" => v # "array",
         state = "MESSAGE" /\ key_idx \in {"context", "error"} => v # "map",
         state = "ERROR" /\ key_idx = "code" => v # "integer",
         state = "ERROR" /\ key_idx = "message" => v # "string"
  PROVE  WhyFatal(v)
<1>1. \/ state = "MESSAGE" /\ key_idx \in RootToken
      \/ state = "ERROR" /\ key_idx \in ErrorToken
      \/ state = "PARAMS"
      \/ state \in {"WAITING", "CONTEXT", "COMPOSITE"}
      \/ state \in {"MESSAGE", "ERROR"} /\ key_idx = "none"
      \/ "empty" \in Key /\ state = "MESSAGE" /\ key_idx = "result"
      \/ "empty" \in Key /\ state = "ERROR" /\ key_idx = "code"
  BY Seat
<1> QED
  BY <1>1 DEF WhyFatal, RootFatal, ErrorFatal, IgnoresValue, RaisesLocal,
              RootToken, ErrorToken

(* parse_value(), on a type that no rule of its place took.                *)
LEMMA ParseMeaning ==
  ASSUME TypeOK, Nest, Meaning, NEW v, Note(v), UNCHANGED path, ParseValue,
         state = "MESSAGE" /\ key_idx = "result" => v \notin {"null", "string"},
         state = "MESSAGE" => v \notin {"map", "array"},
         state = "MESSAGE" /\ key_idx = "method" => v # "string",
         state = "ERROR" /\ key_idx = "code" => v # "integer",
         state = "ERROR" /\ key_idx = "message" => v # "string",
         state = "PARAMS" => v # "string"
  PROVE  Meaning'
<1>1. local_error \in BOOLEAN
  BY DEF TypeOK, ParserTypeOK
<1>2. CASE IgnoresValue \/ RaisesLocal
  <2>1. /\ Same /\ local_error' = (local_error \/ ~IgnoresValue)
        /\ UNCHANGED <<type, parts_seen, body>>
    BY <1>1, <1>2 DEF ParseValue, parserVars, msgVars
  <2> QED
    BY <1>2, <2>1, DefaultMarked, ValueKept
<1>3. CASE ~IgnoresValue /\ ~RaisesLocal
  <2>1. Fatal
    BY <1>3 DEF ParseValue
  <2>2. WhyFatal(v)
    BY <1>3, DefaultFatal
  <2> QED
    BY <2>1, <2>2, FatalMeaning
<1> QED
  BY <1>2, <1>3

(* A null, a number or a boolean.                                          *)
LEMMA PlainMeaning ==
  ASSUME TypeOK, Nest, Meaning, HandleNull \/ HandleOther \/ HandleInteger
  PROVE  Meaning'
<1>1. CASE HandleOther
  BY <1>1, ParseMeaning DEF HandleOther
<1>2. CASE HandleNull
  <2>1. Note("null") /\ UNCHANGED path /\ outcome = "parsing"
    BY <1>2 DEF HandleNull, Note
  <2>2. CASE ~(state = "MESSAGE" /\ key_idx = "result")
    BY <1>2, <2>1, <2>2, ParseMeaning DEF HandleNull
  <2>3. CASE state = "MESSAGE" /\ key_idx = "result" /\ ~CanMark
    <3>1. Fatal
      BY <1>2, <2>3 DEF HandleNull
    <3> QED
      BY <2>1, <2>3, <3>1, FatalMeaning DEF CanMark, WhyFatal, RootFatal
  <2>4. CASE state = "MESSAGE" /\ key_idx = "result" /\ CanMark
    <3>1. /\ type = "NONE" /\ type' = "RESULT" /\ body' = "null" /\ Same
          /\ UNCHANGED <<parts_seen, local_error>>
      BY <1>2, <2>4 DEF HandleNull, CanMark
    <3>2. BodyKept'
      BY <3>1 DEF BodyKept
    <3>3. ASSUME "empty" \notin Key PROVE Marked' /\ Typed'
      <4>1. Answerable /\ Marked /\ Typed /\ Noted("result", "null")
        BY <2>1, <2>4, <3>3, Seat DEF Meaning, Grammar
      <4>2. LocalFollows
        BY <3>1 DEF LocalFollows, TypeOK, ParserTypeOK
      <4> QED
        BY <3>1, <4>1, <4>2, ResultMarked
    <3> QED
      BY <2>1, <2>4, <3>1, <3>2, <3>3, ValueKept DEF Ask
  <2> QED
    BY <2>2, <2>3, <2>4
<1>3. CASE HandleInteger
  <2>1. Note("integer") /\ UNCHANGED path /\ outcome = "parsing"
    BY <1>3 DEF HandleInteger, Note
  <2>2. CASE ~(state = "ERROR" /\ key_idx = "code")
    BY <1>3, <2>1, <2>2, ParseMeaning DEF HandleInteger
  <2>3. CASE state = "ERROR" /\ key_idx = "code" /\ ~CanMarkPart("ERROR", 1)
    <3>1. Fatal
      BY <1>3, <2>3 DEF HandleInteger
    <3> QED
      BY <2>1, <2>3, <3>1, FatalMeaning DEF WhyFatal, ErrorFatal
  <2>4. CASE state = "ERROR" /\ key_idx = "code" /\ CanMarkPart("ERROR", 1)
    <3>1. /\ MarkPart("ERROR", 1) /\ Same
          /\ UNCHANGED <<local_error, body>>
      BY <1>3, <2>4 DEF HandleInteger
    <3>2. type = "ERROR" /\ BodyKept
      BY <2>1, <2>4, InPart DEF Meaning
    <3>3. type' = "ERROR" /\ (parts_seen'[2] <=> parts_seen[2])
      BY <2>4, <3>1, <3>2, MarkFacts DEF TypeOK, Part
    <3>4. BodyKept'
      BY <3>1, <3>2, <3>3 DEF BodyKept
    <3>5. ASSUME "empty" \notin Key PROVE Marked' /\ Typed'
      <4>1. Answerable /\ Marked /\ Typed /\ Noted("code", "integer")
        BY <2>1, <2>4, <3>5, Seat DEF Meaning, Grammar
      <4>2. LocalFollows
        BY <3>1 DEF LocalFollows, TypeOK, ParserTypeOK
      <4> QED
        BY <2>4, <3>1, <3>2, <4>1, <4>2, ErrorMarked DEF Part, TypeOK
    <3> QED
      BY <2>1, <2>4, <3>1, <3>2, <3>3, <3>4, <3>5, ValueKept
  <2> QED
    BY <2>2, <2>3, <2>4
<1> QED
  BY <1>1, <1>2, <1>3

(* A string that is stored, or that there is no memory for.                *)
LEMMA StringMeaning ==
  ASSUME TypeOK, Nest, Meaning, HandleString
  PROVE  Meaning'
<1>1. Note("string") /\ UNCHANGED path /\ outcome = "parsing"
  BY DEF HandleString, Note
<1>2. local_error \in BOOLEAN /\ MayRunOut \in BOOLEAN /\ BodyKept
  BY <1>1, ParserAssumption DEF TypeOK, ParserTypeOK, Meaning
<1>3. ASSUME NEW k, SetMessage(k)
      PROVE  LocalFollows /\ (local_error' \/ (~local_error /\ body' = k))
  <2>1. CASE (local_error \/ MayRunOut) /\ local_error' = TRUE
    <3>1. LocalFollows
      BY <1>2, <2>1 DEF LocalFollows
    <3> QED
      BY <2>1, <3>1
  <2>2. CASE ~local_error /\ body' = k /\ local_error' = local_error
    <3>1. LocalFollows
      BY <1>2, <2>2 DEF LocalFollows
    <3> QED
      BY <2>2, <3>1
  <2> QED
    BY <1>3, <2>1, <2>2 DEF SetMessage
<1>4. CASE StringResult
  <2>1. CASE ~CanMark
    <3>1. Fatal
      BY <1>4, <2>1 DEF HandleString, StringResult, StringMethod, StringError
    <3> QED
      BY <1>1, <1>4, <2>1, <3>1, FatalMeaning
      DEF CanMark, WhyFatal, RootFatal, StringResult
  <2>2. CASE CanMark
    <3>1. /\ type' = "RESULT" /\ SetMessage("result") /\ Same
          /\ UNCHANGED parts_seen /\ type = "NONE"
      <4>1. type = "NONE"
        BY <2>2 DEF CanMark
      <4> QED
        BY <1>4, <2>2, <4>1 DEF HandleString, StringResult, StringMethod, StringError
    <3>2. BodyKept'
      BY <1>3, <3>1 DEF BodyKept
    <3>3. ASSUME "empty" \notin Key PROVE Marked' /\ Typed'
      <4>1. Answerable /\ Marked /\ Typed /\ Noted("result", "string")
        BY <1>1, <1>4, <3>3, Seat DEF Meaning, Grammar, StringResult
      <4> QED
        BY <1>3, <3>1, <4>1, ResultMarked
    <3> QED
      BY <1>1, <1>4, <3>1, <3>2, <3>3, ValueKept DEF Ask, StringResult
  <2> QED
    BY <2>1, <2>2
<1>5. CASE StringMethod
  <2>1. ~StringResult
    BY <1>5 DEF StringMethod, StringResult
  <2>2. CASE ~CanMarkPart("REQUEST", 0)
    <3>1. Fatal
      BY <1>5, <2>1, <2>2 DEF HandleString, StringResult, StringMethod, StringError
    <3> QED
      BY <1>1, <1>5, <2>2, <3>1, FatalMeaning DEF WhyFatal, RootFatal, StringMethod
  <2>3. CASE CanMarkPart("REQUEST", 0)
    <3>1. MarkPart("REQUEST", 0) /\ SetMessage("method") /\ Same
      BY <1>5, <2>1, <2>3 DEF HandleString, StringResult, StringMethod, StringError
    <3>2. /\ type' = "REQUEST" /\ type \in {"NONE", "REQUEST"}
      BY <2>3, <3>1, MarkFacts DEF TypeOK, Part
    <3>3. BodyKept'
      BY <1>3, <3>1, <3>2 DEF BodyKept
    <3>4. ASSUME "empty" \notin Key PROVE Marked' /\ Typed'
      <4>1. Answerable /\ Marked /\ Typed /\ Noted("method", "string")
        BY <1>1, <1>5, <3>4, Seat DEF Meaning, Grammar, StringMethod
      <4> QED
        BY <1>3, <2>3, <3>1, <4>1, RequestMarked DEF TypeOK, Part, Ask
    <3> QED
      BY <1>1, <1>5, <3>1, <3>2, <3>3, <3>4, ValueKept DEF Ask, StringMethod
  <2> QED
    BY <2>2, <2>3
<1>6. CASE StringError
  <2>1. ~StringResult /\ ~StringMethod
    BY <1>6 DEF StringMethod, StringResult, StringError
  <2>2. CASE ~CanMarkPart("ERROR", 2)
    <3>1. Fatal
      BY <1>6, <2>1, <2>2 DEF HandleString, StringResult, StringMethod, StringError
    <3> QED
      BY <1>1, <1>6, <2>2, <3>1, FatalMeaning DEF WhyFatal, ErrorFatal, StringError
  <2>3. CASE CanMarkPart("ERROR", 2)
    <3>1. MarkPart("ERROR", 2) /\ SetMessage("message") /\ Same
      BY <1>6, <2>1, <2>3 DEF HandleString, StringResult, StringMethod, StringError
    <3>2. type = "ERROR" /\ state = "ERROR"
      BY <1>1, <1>6, InPart DEF StringError
    <3>3. type' = "ERROR"
      BY <2>3, <3>1, MarkFacts DEF TypeOK, Part
    <3>4. BodyKept'
      BY <1>3, <3>1, <3>3 DEF BodyKept
    <3>5. ASSUME "empty" \notin Key PROVE Marked' /\ Typed'
      <4>1. Answerable /\ Marked /\ Typed /\ Noted("message", "string")
        BY <1>1, <1>6, <3>5, Seat DEF Meaning, Grammar, StringError
      <4> QED
        BY <1>3, <2>3, <3>1, <3>2, <4>1, ErrorMarked DEF TypeOK, Part
    <3> QED
      BY <1>1, <3>1, <3>2, <3>3, <3>4, <3>5, ValueKept
  <2> QED
    BY <2>2, <2>3
<1>7. CASE state = "PARAMS"
  <2>1. ~StringResult /\ ~StringMethod /\ ~StringError
    BY <1>7 DEF StringMethod, StringResult, StringError
  <2>2. /\ local_error' \in {local_error, local_error \/ MayRunOut} /\ Same
        /\ UNCHANGED <<parts_seen, type, body>>
    BY <1>7, <2>1 DEF HandleString, StringResult, StringMethod, StringError
  <2>3. BodyKept'
    BY <1>2, <2>2 DEF BodyKept
  <2>4. ASSUME "empty" \notin Key PROVE Marked' /\ Typed'
    <3>1. Answerable /\ Marked /\ Typed /\ Noted("item", "string") /\ type = "REQUEST"
      BY <1>1, <1>7, <2>4, Seat, InPart DEF Meaning, Grammar
    <3>2. LocalFollows
      BY <1>2, <2>2 DEF LocalFollows
    <3> QED
      BY <2>2, <3>1, <3>2, ItemMarked
  <2> QED
    BY <1>1, <1>7, <2>2, <2>3, <2>4, ValueKept
<1>8. CASE ~StringResult /\ ~StringMethod /\ ~StringError /\ state # "PARAMS"
  <2>1. ParseValue
    BY <1>8 DEF HandleString, StringResult, StringMethod, StringError
  <2> QED
    BY <1>1, <1>8, <2>1, ParseMeaning DEF StringMethod, StringResult, StringError
<1> QED
  BY <1>4, <1>5, <1>6, <1>7, <1>8

(* A key changes nothing of the message, and is never fatal.               *)
LEMMA KeyMeaning ==
  ASSUME TypeOK, Nest, Meaning, HandleMapKey
  PROVE  Meaning'
<1>1. outcome = "parsing" /\ path # <<>> /\ Last(path).kind = "map"
  BY DEF HandleMapKey, KeyDue, InMap
<1>2. state \in {"MESSAGE", "ERROR", "CONTEXT", "COMPOSITE"}
  BY <1>1, Begun
<1>3. /\ UNCHANGED <<path, members, repeated, parts_seen, msgVars>> /\ Same
  BY <1>2 DEF HandleMapKey, parserVars, msgVars
<1>4. Seen' = Seen /\ Section' = Section
  BY <1>3 DEF Seen, Values, Section, Inner
<1> HIDE DEF Seen
<1> QED
  BY <1>1, <1>3, <1>4
  DEF Meaning, Same, msgVars, Answerable, Asks, Placed, Fresh, BodyKept, Grammar,
      Marked, Typed, Odd

-----------------------------------------------------------------------------
(* What opens: its part is entered under the mark.                         *)
LEMMA OpenKept ==
  ASSUME TypeOK, Nest, Meaning, NEW kind \in {"map", "array"}, Open(kind), Same,
         type # "NONE" => type' = type,
         type' = "REQUEST" <=>
           type = "REQUEST" \/ (state = "MESSAGE" /\ key_idx \in Ask),
         state = "MESSAGE" /\ key_idx = "error" => type' = "ERROR",
         BodyKept',
         "empty" \notin Key => Marked' /\ Typed'
  PROVE  Meaning'
<1>1. outcome = "parsing" /\ outcome' = "parsing" /\ Note(kind)
  BY DEF Open, Note, Same
<1>2. Answerable /\ Placed
  BY <1>1 DEF Meaning
<1>3. Answerable'
  BY <1>1, <1>2, AskSeen DEF Answerable
<1>4. /\ Len(path) \in Nat /\ Len(path') = Len(path) + 1 /\ path' # <<>>
      /\ \A i \in 1..Len(path) : path'[i] = path[i]
  BY OpenFacts
<1>5. Placed'
  <2>1. CASE Len(path) >= 2
    <3>1. Section' = Section
      BY <1>4, <2>1 DEF Section, Inner
    <3> QED
      BY <1>2, <2>1, <3>1 DEF Placed
  <2>2. CASE Len(path) = 1
    <3>1. state = "MESSAGE"
      BY <1>1, <2>2, StateCases DEF Nest, NestingTracked, PartTracked
    <3>2. /\ path'[2] = [kind |-> kind, name |-> Name]
          /\ key_idx = FindToken(RootToken, "result", Name)
      BY <3>1, OpenedSection
    <3>3. /\ Section' = "ERROR" => Name = "error"
          /\ Section' = "PARAMS" => Name = "params"
      BY <3>2 DEF Section, Inner
    <3>4. /\ Section' = "ERROR" => key_idx = "error"
          /\ Section' = "PARAMS" => key_idx \in Ask
      BY <3>2, <3>3, SectionNames DEF Ask
    <3> QED
      BY <3>1, <3>4 DEF Placed
  <2>3. CASE Len(path) = 0
    BY <1>4, <2>3 DEF Placed
  <2>4. Len(path) = 0 \/ Len(path) = 1 \/ Len(path) >= 2
    <3> DEFINE n == Len(path)
    <3>1. n \in Nat
      BY <1>4
    <3> HIDE DEF n
    <3>2. n = 0 \/ n = 1 \/ n >= 2
      BY <3>1
    <3> QED
      BY <3>2 DEF n
  <2> QED
    BY <2>1, <2>2, <2>3, <2>4
<1>6. Fresh'
  BY <1>4 DEF Fresh
<1> QED
  BY <1>1, <1>3, <1>5, <1>6 DEF Meaning, Grammar

(* What opens where nothing is expected.                                   *)
LEMMA EnterMeaning ==
  ASSUME TypeOK, Nest, Meaning, NEW kind \in {"map", "array"}, Open(kind),
         ParseEnter,
         state = "MESSAGE" /\ key_idx = "params" => kind # "array",
         state = "MESSAGE" /\ key_idx \in {"context", "error"} => kind # "map"
  PROVE  Meaning'
<1>1. Note(kind)
  BY DEF Open
<1>2. CASE IgnoresValue \/ RaisesLocal
  <2>1. /\ local_error' = (local_error \/ ~IgnoresValue) /\ Same
        /\ UNCHANGED <<type, parts_seen, body>>
    BY <1>2 DEF ParseEnter
  <2> QED
    BY <1>1, <1>2, <2>1, DefaultMarked, OpenKept
<1>3. CASE ~IgnoresValue /\ ~RaisesLocal
  <2>1. Fatal
    BY <1>3 DEF ParseEnter
  <2> QED
    BY <1>1, <1>3, <2>1, DefaultFatal, FatalMeaning
<1> QED
  BY <1>2, <1>3

(* The members of a request that open.                                     *)
LEMMA RequestPartMeaning ==
  ASSUME TypeOK, Nest, Meaning, NEW kind \in {"map", "array"}, Open(kind),
         state = "MESSAGE", NEW k \in Ask, key_idx = k,
         NEW p \in {1, 2}, CanMarkPart("REQUEST", p), MarkPart("REQUEST", p),
         Same, UNCHANGED body, local_error' \in {local_error, TRUE},
         \/ k = "params" /\ p = 1 /\ kind = "array" /\ UNCHANGED local_error
         \/ k = "params" /\ p = 1 /\ kind = "map" /\ local_error'
         \/ k = "context" /\ p = 2 /\ kind = "map" /\ UNCHANGED local_error
  PROVE  Meaning'
<1>1. Note(kind) /\ outcome = "parsing"
  BY DEF Open, Note
<1>2. local_error \in BOOLEAN /\ BodyKept
  BY <1>1 DEF TypeOK, ParserTypeOK, Meaning
<1>3. /\ type' = "REQUEST" /\ type \in {"NONE", "REQUEST"}
      /\ parts_seen'[0] => type = "REQUEST" /\ parts_seen[0]
  BY MarkFacts DEF TypeOK, Part
<1>4. BodyKept'
  BY <1>2, <1>3 DEF BodyKept
<1>5. ASSUME "empty" \notin Key PROVE Marked' /\ Typed'
  <2>1. Answerable /\ Marked /\ Typed /\ Noted(k, kind)
    BY <1>1, <1>5, Seat DEF Meaning, Grammar, Ask
  <2>2. kind \in Seen'[k]
    BY <2>1, NotedValues DEF Slot, RootToken, Ask
  <2>3. LocalFollows
    BY <1>2, <2>2 DEF LocalFollows, Odd
  <2> QED
    BY <2>1, <2>3, RequestMarked DEF TypeOK, Part
<1> QED
  BY <1>3, <1>4, <1>5, OpenKept DEF Ask

(* The start of an object, or of an array.                                 *)
LEMMA StartMeaning ==
  ASSUME TypeOK, Nest, Meaning, HandleStartMap \/ HandleStartArray
  PROVE  Meaning'
<1>1. PICK kind \in {"map", "array"} :
        /\ Open(kind)
        /\ kind = "map" => HandleStartMap
        /\ kind = "array" => HandleStartArray
  BY DEF HandleStartMap, HandleStartArray
<1>2. Note(kind) /\ outcome = "parsing" /\ local_error \in BOOLEAN
  BY <1>1 DEF Open, Note, TypeOK, ParserTypeOK
<1>3. CASE state = "WAITING" /\ kind = "map"
  <2>1. Same /\ UNCHANGED <<parts_seen, msgVars>>
    BY <1>1, <1>3 DEF HandleStartMap
  <2>2. BodyKept'
    BY <1>2, <2>1 DEF Meaning, BodyKept, msgVars
  <2>3. ASSUME "empty" \notin Key PROVE Marked' /\ Typed'
    <3>1. Unnoted /\ Marked /\ Typed
      BY <1>2, <1>3, <2>3, Seat DEF Meaning, Grammar
    <3> QED
      BY <2>1, <3>1, UnnotedMarked DEF msgVars
  <2> QED
    BY <1>1, <1>3, <2>1, <2>2, <2>3, OpenKept DEF msgVars
<1>4. CASE state = "MESSAGE" /\ key_idx = "params"
  <2>1. CASE ~CanMarkPart("REQUEST", 1)
    <3>1. Fatal
      BY <1>1, <1>4, <2>1
      DEF HandleStartMap, HandleStartArray, ParamsMap, EnterPart
    <3> QED
      BY <1>2, <1>4, <2>1, <3>1, FatalMeaning DEF WhyFatal, RootFatal
  <2>2. CASE CanMarkPart("REQUEST", 1)
    <3>1. /\ MarkPart("REQUEST", 1) /\ Same /\ UNCHANGED body
          /\ kind = "map" => local_error' = TRUE
          /\ kind = "array" => UNCHANGED local_error
      BY <1>1, <1>4, <2>2
      DEF HandleStartMap, HandleStartArray, ParamsMap, EnterPart
    <3> QED
      BY <1>1, <1>2, <1>4, <2>2, <3>1, RequestPartMeaning DEF Ask
  <2> QED
    BY <2>1, <2>2
<1>5. CASE state = "MESSAGE" /\ key_idx = "context" /\ kind = "map"
  <2>1. EnterPart("REQUEST", 2, "CONTEXT")
    BY <1>1, <1>5 DEF HandleStartMap
  <2>2. CASE ~CanMarkPart("REQUEST", 2)
    BY <1>2, <1>5, <2>1, <2>2, FatalMeaning DEF EnterPart, WhyFatal, RootFatal
  <2>3. CASE CanMarkPart("REQUEST", 2)
    <3>1. /\ MarkPart("REQUEST", 2) /\ Same /\ UNCHANGED <<body, local_error>>
      BY <2>1, <2>3 DEF EnterPart
    <3> QED
      BY <1>1, <1>2, <1>5, <2>3, <3>1, RequestPartMeaning DEF Ask
  <2> QED
    BY <2>2, <2>3
<1>6. CASE state = "MESSAGE" /\ key_idx = "error" /\ kind = "map"
  <2>1. EnterPart("ERROR", 0, "ERROR")
    BY <1>1, <1>6 DEF HandleStartMap
  <2>2. CASE ~CanMarkPart("ERROR", 0)
    BY <1>2, <1>6, <2>1, <2>2, FatalMeaning DEF EnterPart, WhyFatal, RootFatal
  <2>3. CASE CanMarkPart("ERROR", 0)
    <3>1. /\ MarkPart("ERROR", 0) /\ Same /\ UNCHANGED <<body, local_error>>
      BY <2>1, <2>3 DEF EnterPart
    <3>2. /\ type' = "ERROR" /\ type \in {"NONE", "ERROR"}
          /\ parts_seen'[2] => type = "ERROR" /\ parts_seen[2]
      BY <2>3, <3>1, MarkFacts DEF TypeOK, Part
    <3>3. BodyKept'
      BY <1>2, <3>1, <3>2 DEF Meaning, BodyKept
    <3>4. ASSUME "empty" \notin Key PROVE Marked' /\ Typed'
      <4>1. Answerable /\ Marked /\ Typed /\ Noted("error", "map")
        BY <1>2, <1>6, <3>4, Seat DEF Meaning, Grammar
      <4>2. LocalFollows
        BY <1>2, <3>1 DEF LocalFollows
      <4> QED
        BY <2>3, <3>1, <4>1, <4>2, ErrorMarked DEF TypeOK, Part
    <3> QED
      BY <1>1, <1>6, <3>1, <3>2, <3>3, <3>4, OpenKept DEF Ask
  <2> QED
    BY <2>2, <2>3
<1>7. CASE /\ ~(state = "WAITING" /\ kind = "map")
           /\ ~(state = "MESSAGE" /\ key_idx = "params")
           /\ ~(state = "MESSAGE" /\ key_idx \in {"context", "error"} /\ kind = "map")
  <2>1. ParseEnter
    BY <1>1, <1>7 DEF HandleStartMap, HandleStartArray
  <2> QED
    BY <1>1, <1>7, <2>1, EnterMeaning
<1> QED
  BY <1>3, <1>4, <1>5, <1>6, <1>7

-----------------------------------------------------------------------------
(* What closes, below the message itself.                                  *)
LEMMA CloseKept ==
  ASSUME TypeOK, Nest, Meaning, NEW kind, Close(kind), Same, state # "MESSAGE",
         UNCHANGED <<parts_seen, msgVars>>
  PROVE  Meaning'
<1>1. /\ outcome = "parsing" /\ outcome' = "parsing"
      /\ Answerable /\ Placed /\ BodyKept /\ Grammar
  BY DEF Close, Same, Meaning
<1>2. /\ Len(path) \in Nat \ {0} /\ Len(path') = Len(path) - 1
      /\ \A i \in 1..(Len(path) - 1) : path'[i] = path[i]
      /\ path' = <<>> <=> Len(path') = 0
  BY CloseFacts
<1>3. UNCHANGED <<members, repeated>>
  BY DEF Close
<1>4. Seen' = Seen
  BY <1>3 DEF Seen, Values
<1>5. Placed'
  <2>1. Len(path') >= 2 => Len(path) >= 2 /\ path'[2] = path[2]
    BY <1>2
  <2>2. Len(path') >= 2 => Section' = Section
    BY <2>1 DEF Section, Inner
  <2> QED
    BY <1>1, <2>1, <2>2 DEF Placed, msgVars
<1>6. Fresh'
  <2>1. Len(path) # 1
    BY <1>1, StateCases DEF Nest, NestingTracked, PartTracked
  <2>2. path' # <<>>
    BY <1>2, <2>1
  <2> QED
    BY <2>2 DEF Fresh
<1> HIDE DEF Seen
<1>7. Answerable' /\ BodyKept' /\ Grammar'
  BY <1>1, <1>3, <1>4
  DEF msgVars, Answerable, Asks, BodyKept, Grammar, Marked, Typed, Odd
<1> QED
  BY <1>1, <1>5, <1>6, <1>7 DEF Meaning

(* The end of the message: what json_server_receive() says of it is what   *)
(* the grammar does.                                                       *)
LEMMA VerdictMeaning ==
  ASSUME TypeOK, Meaning, outcome = "parsing", outcome' = Verdict,
         UNCHANGED <<parts_seen, msgVars, members, repeated>>
  PROVE  Meaning'
<1>1. Answerable /\ BodyKept /\ Grammar
  BY DEF Meaning
<1>2. /\ type \in {"NONE", "REQUEST", "RESULT", "ERROR"} /\ local_error \in BOOLEAN
      /\ \A p \in Part : parts_seen[p] \in BOOLEAN
  BY DEF TypeOK, ParserTypeOK
<1>3. /\ outcome' \in {"request", "result", "error", "local", "fatal"}
      /\ outcome' = "local" <=> local_error
      /\ ~local_error =>
           /\ outcome' = "request" <=> type = "REQUEST" /\ parts_seen[0]
           /\ outcome' = "result" <=> type = "RESULT"
           /\ outcome' = "error" <=>
                type = "ERROR" /\ parts_seen[0] /\ parts_seen[1] /\ parts_seen[2]
  BY <1>2 DEF Verdict, Part
<1>4. UNCHANGED <<type, local_error, body>>
  BY DEF msgVars
<1>5. Seen' = Seen /\ repeated' = repeated
  BY DEF Seen, Values
<1> HIDE DEF Seen
<1>6. BodyStored'
  BY <1>1, <1>3, <1>4 DEF BodyKept, BodyStored
<1>7. Asks' <=> Asks
  BY <1>5 DEF Asks
<1>8. LocalErrorAnswered'
  BY <1>1, <1>4, <1>7, NextConformsBySeen DEF Answerable, LocalErrorAnswered, Ask
<1>9. ASSUME "empty" \notin Key
      PROVE  ConformingAccepted' /\ AcceptedConforms'
  <2>1. Marked /\ Typed
    BY <1>1, <1>9 DEF Grammar
  <2>2. CASE local_error
    <3>1. IsRequest' \/ IsResult' \/ IsError' => ~Odd
      BY <1>1, <1>5, <1>7, <2>1
      DEF Answerable, Asks, Marked, IsRequest, IsResult, IsError, Odd
    <3>2. IsRequest' \/ IsResult' \/ IsError' => MayRunOut
      BY <2>1, <2>2, <3>1 DEF Typed
    <3> QED
      BY <1>3, <2>2, <3>2, NextConformsBySeen
      DEF ConformingAccepted, AcceptedConforms
  <2>3. CASE ~local_error
    <3>1. IsRequest' => type = "REQUEST" /\ parts_seen[0]
      BY <1>1, <1>5, <2>1 DEF Answerable, Asks, Marked, IsRequest
    <3>2. IsResult' => type = "RESULT"
      BY <1>1, <1>5, <2>1, <2>3 DEF Marked, IsResult
    <3>3. IsError' => type = "ERROR" /\ parts_seen[0] /\ parts_seen[1] /\ parts_seen[2]
      BY <1>1, <1>5, <2>1 DEF Marked, IsError
    <3>4. type = "REQUEST" /\ parts_seen[0] => IsRequest'
      BY <1>1, <1>5, <2>1, <2>3 DEF Marked, Typed, Odd, IsRequest
    <3>5. type = "RESULT" => IsResult'
      BY <1>1, <1>5, <1>7, <2>1, <2>3 DEF Answerable, Marked, Typed, Odd, IsResult
    <3>6. type = "ERROR" /\ parts_seen[1] /\ parts_seen[2] => IsError'
      BY <1>1, <1>5, <1>7, <2>1, <2>3 DEF Answerable, Marked, Typed, Odd, IsError
    <3>7. /\ IsRequest' <=> outcome' = "request"
          /\ IsResult' <=> outcome' = "result"
          /\ IsError' <=> outcome' = "error"
      BY <1>3, <2>3, <3>1, <3>2, <3>3, <3>4, <3>5, <3>6
    <3> QED
      BY <3>7, NextConformsBySeen DEF ConformingAccepted, AcceptedConforms
  <2> QED
    BY <2>2, <2>3
<1> QED
  BY <1>3, <1>6, <1>8, <1>9 DEF Meaning, Judged

(* The end of an object or an array; none of them is fatal.                *)
LEMMA EndMeaning ==
  ASSUME TypeOK, Nest, Meaning, HandleEndMap \/ HandleEndArray
  PROVE  Meaning'
<1>1. PICK kind \in {"map", "array"} :
        /\ Close(kind)
        /\ kind = "map" => HandleEndMap
        /\ kind = "array" => HandleEndArray
  BY DEF HandleEndMap, HandleEndArray
<1>2. outcome = "parsing" /\ path # <<>> /\ Last(path).kind = kind
  BY <1>1 DEF Close
<1>3. /\ kind = "map" => state \in {"MESSAGE", "ERROR", "CONTEXT", "COMPOSITE"}
      /\ kind = "array" => state \in {"PARAMS", "COMPOSITE"}
  BY <1>2, Begun
<1>4. CASE state = "MESSAGE"
  <2>1. /\ outcome' = Verdict
        /\ UNCHANGED <<parts_seen, msgVars, members, repeated>>
    BY <1>1, <1>3, <1>4 DEF HandleEndMap, Close
  <2> QED
    BY <1>2, <2>1, VerdictMeaning
<1>5. CASE state # "MESSAGE"
  <2>1. Same /\ UNCHANGED <<parts_seen, msgVars>>
    BY <1>1, <1>3, <1>5 DEF HandleEndMap, HandleEndArray, ParseExit
  <2> QED
    BY <1>1, <1>5, <2>1, CloseKept
<1> QED
  BY <1>4, <1>5

-----------------------------------------------------------------------------
(* A message that is not begun means nothing yet.                          *)
LEMMA BlankMeaning ==
  outcome = "parsing" /\ type = "NONE" /\ path = <<>> /\ members = {}
    /\ repeated = FALSE /\ local_error = FALSE => Meaning
<1> SUFFICES ASSUME outcome = "parsing", type = "NONE", path = <<>>, members = {},
                    repeated = FALSE, local_error = FALSE
             PROVE  Meaning
  OBVIOUS
<1>1. Len(path) = 0
  BY EmptySeq
<1>2. \A n \in Slot : Seen[n] = {}
  BY SeenType
<1>3. /\ Seen["result"] = {} /\ Seen["method"] = {} /\ Seen["params"] = {}
      /\ Seen["context"] = {} /\ Seen["error"] = {} /\ Seen["code"] = {}
      /\ Seen["message"] = {} /\ Seen["item"] = {}
  BY <1>2 DEF Slot, RootToken, ErrorToken
<1> HIDE DEF Seen
<1> QED
  BY <1>1, <1>3 DEF Meaning, Answerable, Asks, Placed, Fresh, BodyKept, Grammar,
                    Marked, Typed, Odd

(* The meaning is kept by every step.                                      *)
LEMMA MeaningStep == TypeOK /\ Nest /\ Meaning /\ [Next]_vars => Meaning'
<1> SUFFICES ASSUME TypeOK, Nest, Meaning, [Next]_vars PROVE Meaning'
  OBVIOUS
<1>1. CASE UNCHANGED vars
  <2>1. /\ UNCHANGED <<members, repeated, path, outcome, type, local_error, body,
                       parts_seen>>
    BY <1>1 DEF vars, docVars, parserVars, msgVars
  <2>2. Seen' = Seen /\ Section' = Section
    BY <2>1 DEF Seen, Values, Section, Inner
  <2>3. Judged => Judged'
    BY <2>1 DEF Judged, BodyStored, LocalErrorAnswered, ConformingAccepted,
                AcceptedConforms, Conforms, Has, Values, Tokens
  <2> HIDE DEF Seen, Judged
  <2> QED
    BY <2>1, <2>2, <2>3
    DEF Meaning, Answerable, Asks, Placed, Fresh, BodyKept, Grammar, Marked, Typed,
        Odd
<1>2. CASE NextMessage
  <2>1. (outcome = "parsing" /\ type = "NONE" /\ path = <<>> /\ members = {}
           /\ repeated = FALSE /\ local_error = FALSE)'
    BY <1>2 DEF NextMessage
  <2> QED
    BY <2>1, BlankMeaning, PTL
<1> QED
  BY <1>1, <1>2, PlainMeaning, StringMeaning, KeyMeaning, StartMeaning, EndMeaning
  DEF Next

(* It holds before the first message, and so always.                       *)
LEMMA MeaningAlways == Spec => [](TypeOK /\ Nest /\ Meaning)
<1>1. Init => Meaning
  BY BlankMeaning DEF Init
<1> QED
  BY <1>1, TypeInit, TypeStep, NestingInit, NestingStep, MeaningStep, PTL DEF Spec

(* A message of the grammar of README.txt:100-122 is received as what it   *)
(* is, with any number of members in any order, unknown ones of any depth  *)
(* among them, and after any messages before it.  The empty key, which     *)
(* find_token() takes for the first of its table, must not occur.          *)
THEOREM ConformingIsAccepted ==
  ASSUME "empty" \notin Key
  PROVE  Spec => []ConformingAccepted
<1>1. Meaning => ConformingAccepted
  BY DEF Meaning, Judged, ConformingAccepted
<1> QED
  BY <1>1, MeaningAlways, PTL

(* Nothing but a message of the grammar is received as one.                *)
THEOREM OnlyConformingIsAccepted ==
  ASSUME "empty" \notin Key
  PROVE  Spec => []AcceptedConforms
<1>1. Meaning => AcceptedConforms
  BY DEF Meaning, Judged, AcceptedConforms
<1> QED
  BY <1>1, MeaningAlways, PTL

(* The string handed to the caller was stored by this message under the key*)
(* of its type ("must exist", json.c:1486), whatever keys occur.           *)
THEOREM BodyIsStored == Spec => []BodyStored
<1>1. Meaning => BodyStored
  BY DEF Meaning, Judged, BodyStored
<1> QED
  BY <1>1, MeaningAlways, PTL

(* A local error is answered exactly if the message could be a request     *)
(* (server.c:571), whatever keys occur.                                    *)
THEOREM LocalErrorIsAnswered == Spec => []LocalErrorAnswered
<1>1. Meaning => LocalErrorAnswered
  BY DEF Meaning, Judged, LocalErrorAnswered
<1> QED
  BY <1>1, MeaningAlways, PTL
=============================================================================
