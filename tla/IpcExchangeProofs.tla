--------------------------- MODULE IpcExchangeProofs ---------------------------
(***************************************************************************)
(* Proofs about one request from end to end, for any texts, any sizes and   *)
(* any number of events before the answer: it arrives as it was made, and   *)
(* its outcome comes back.                                                  *)
(***************************************************************************)
EXTENDS IpcExchange, TLAPS

-----------------------------------------------------------------------------
(* JSON values *)

LEMMA Kinds ==
    /\ \A t : Text(t)[1] = "string" /\ Text(t)[2] = t
    /\ \A t : Number(t)[1] = "number" /\ Number(t)[2] = t
    /\ \A f : Object(f)[1] = "object" /\ Object(f)[2] = f
    /\ \A f : Array(f)[1] = "array"
    /\ \A f : Bool(f)[1] = "boolean" /\ Bool(f)[2] = f
    /\ None[1] = "none" /\ Null[1] = "null" /\ Thrown[1] = "thrown"
BY DEF Text, Number, Object, Array, Bool, None, Null, Thrown

\* A member is read with the default's kind, and given when it has it.
LEMMA MemberIsRead ==
    ASSUME NEW f, NEW key \in DOMAIN f, NEW default, f[key][1] = default[1]
    PROVE  value(Object(f), key, default) = f[key]
BY Kinds DEF value, Has, get

LEMMA TextIsRead ==
    ASSUME NEW f, NEW key \in DOMAIN f, NEW t, f[key][1] = "string"
    PROVE  value(Object(f), key, Text(t)) = f[key]
<1>1. Text(t)[1] = "string" BY Kinds
<1> QED BY <1>1, MemberIsRead

LEMMA AnyMemberIsRead ==
    ASSUME NEW f, NEW key \in DOMAIN f, NEW default
    PROVE  anyValue(Object(f), key, default) = f[key]
BY Kinds DEF anyValue, Has

LEMMA DumpOrThrow == ASSUME NEW j PROVE dump(j) = j \/ dump(j) = Thrown
BY DEF dump

LEMMA NotRefused ==
    /\ \A id, command, payload : Request(id, command, payload) # Refused
    /\ \A id, data : Success(id, data) # Refused
    /\ \A id, error : Failure(id, error) # Refused
    /\ \A type, sid, data : EventOf(type, sid, data) # Refused
<1>1. DOMAIN Refused = {"refused"} BY DEF Refused
<1>2. \A id, command, payload : "id" \in DOMAIN Request(id, command, payload) BY DEF Request
<1>3. \A id, data : "id" \in DOMAIN Success(id, data) BY DEF Success
<1>4. \A id, error : "id" \in DOMAIN Failure(id, error) BY DEF Failure
<1>5. \A type, sid, data : "data" \in DOMAIN EventOf(type, sid, data) BY DEF EventOf
<1>6. "id" \notin DOMAIN Refused /\ "data" \notin DOMAIN Refused BY <1>1
<1> QED BY <1>2, <1>3, <1>4, <1>5, <1>6

\* The names of the commands and of the events tell them apart.
LEMMA CommandIsNamed ==
    ASSUME NEW c \in DOMAIN CommandNames
    PROVE  commandTypeFromString(CommandNames[c]) = c
<1>1. ASSUME NEW d \in DOMAIN CommandNames, CommandNames[d] = CommandNames[c]
      PROVE  d = c
  BY <1>1 DEF CommandNames
<1>2. (CHOOSE d \in DOMAIN CommandNames : CommandNames[d] = CommandNames[c]) = c
  BY <1>1
<1> QED BY <1>2 DEF commandTypeFromString, Named

-----------------------------------------------------------------------------
(* Payloads *)

\* The members of the payloads, and what they default to.
LEMMA Defaults ==
    ASSUME NEW P
    PROVE  /\ P = KillPayload => DOMAIN P = {"sessionId"} /\ P["sessionId"] = Text("")
           /\ P = RenamePayload =>
                 /\ DOMAIN P = {"sessionId", "newTitle"}
                 /\ P["sessionId"] = Text("") /\ P["newTitle"] = Text("")
           /\ P = InputPayload =>
                 /\ DOMAIN P = {"sessionId", "data"}
                 /\ P["sessionId"] = Text("") /\ P["data"] = Text("")
           /\ P = ResizePayload =>
                 /\ DOMAIN P = {"sessionId", "cols", "rows"}
                 /\ P["sessionId"] = Text("") /\ P["cols"] = Number(80) /\ P["rows"] = Number(24)
           /\ P = AttachSessionPayload =>
                 /\ DOMAIN P = {"sessionId", "cols", "rows"}
                 /\ P["sessionId"] = Text("") /\ P["cols"] = None /\ P["rows"] = None
           /\ P = NewSessionPayload => \A key \in DOMAIN P : P[key] = None
<1>1. ASSUME P = KillPayload PROVE DOMAIN P = {"sessionId"} /\ P["sessionId"] = Text("")
  BY <1>1 DEF KillPayload, Session
<1>2. ASSUME P = RenamePayload
      PROVE  /\ DOMAIN P = {"sessionId", "newTitle"}
             /\ P["sessionId"] = Text("") /\ P["newTitle"] = Text("")
  BY <1>2 DEF RenamePayload
<1>3. ASSUME P = InputPayload
      PROVE  /\ DOMAIN P = {"sessionId", "data"}
             /\ P["sessionId"] = Text("") /\ P["data"] = Text("")
  BY <1>3 DEF InputPayload
<1>4. ASSUME P = ResizePayload
      PROVE  /\ DOMAIN P = {"sessionId", "cols", "rows"}
             /\ P["sessionId"] = Text("") /\ P["cols"] = Number(80) /\ P["rows"] = Number(24)
  BY <1>4 DEF ResizePayload
<1>5. ASSUME P = AttachSessionPayload
      PROVE  /\ DOMAIN P = {"sessionId", "cols", "rows"}
             /\ P["sessionId"] = Text("") /\ P["cols"] = None /\ P["rows"] = None
  BY <1>5 DEF AttachSessionPayload
<1>6. ASSUME P = NewSessionPayload PROVE \A key \in DOMAIN P : P[key] = None
  BY <1>6 DEF NewSessionPayload
<1> QED BY <1>1, <1>2, <1>3, <1>4, <1>5, <1>6

LEMMA MemberKinds ==
    ASSUME NEW P, NEW key,
           P \in {KillPayload, RenamePayload, InputPayload, ResizePayload,
                  AttachSessionPayload, NewSessionPayload},
           key \in DOMAIN P
    PROVE  P[key] = None \/ P[key][1] = KindOf(key)
<1>1. /\ KindOf("sessionId") = "string" /\ KindOf("newTitle") = "string" /\ KindOf("data") = "string"
      /\ KindOf("cols") = "number" /\ KindOf("rows") = "number"
      /\ Text("")[1] = "string" /\ Number(80)[1] = "number" /\ Number(24)[1] = "number"
  BY Kinds DEF KindOf
<1>2. CASE P = KillPayload
  <2>1. /\ key \in {"sessionId"}
        /\ P["sessionId"] = Text("")
    BY <1>2, Defaults
  <2>2. CASE key = "sessionId"
    BY <1>1, <2>1, <2>2, Zenon
  <2> QED BY <2>1, <2>2
<1>3. CASE P = RenamePayload
  <2>1. /\ key \in {"sessionId", "newTitle"}
        /\ P["sessionId"] = Text("") /\ P["newTitle"] = Text("")
    BY <1>3, Defaults
  <2>2. CASE key = "sessionId"
    BY <1>1, <2>1, <2>2, Zenon
  <2>3. CASE key = "newTitle"
    BY <1>1, <2>1, <2>3, Zenon
  <2> QED BY <2>1, <2>2, <2>3
<1>4. CASE P = InputPayload
  <2>1. /\ key \in {"sessionId", "data"}
        /\ P["sessionId"] = Text("") /\ P["data"] = Text("")
    BY <1>4, Defaults
  <2>2. CASE key = "sessionId"
    BY <1>1, <2>1, <2>2, Zenon
  <2>3. CASE key = "data"
    BY <1>1, <2>1, <2>3, Zenon
  <2> QED BY <2>1, <2>2, <2>3
<1>5. CASE P = ResizePayload
  <2>1. /\ key \in {"sessionId", "cols", "rows"}
        /\ P["sessionId"] = Text("") /\ P["cols"] = Number(80) /\ P["rows"] = Number(24)
    BY <1>5, Defaults
  <2>2. CASE key = "sessionId"
    BY <1>1, <2>1, <2>2, Zenon
  <2>3. CASE key = "cols"
    BY <1>1, <2>1, <2>3, Zenon
  <2>4. CASE key = "rows"
    BY <1>1, <2>1, <2>4, Zenon
  <2> QED BY <2>1, <2>2, <2>3, <2>4
<1>6. CASE P = AttachSessionPayload
  <2>1. /\ key \in {"sessionId", "cols", "rows"}
        /\ P["sessionId"] = Text("") /\ P["cols"] = None /\ P["rows"] = None
    BY <1>6, Defaults
  <2>2. CASE key = "sessionId"
    BY <1>1, <2>1, <2>2, Zenon
  <2>3. CASE key = "cols"
    BY <1>1, <2>1, <2>3, Zenon
  <2>4. CASE key = "rows"
    BY <1>1, <2>1, <2>4, Zenon
  <2> QED BY <2>1, <2>2, <2>3, <2>4
<1>7. CASE P = NewSessionPayload
  BY <1>7, Defaults
<1> QED BY <1>2, <1>3, <1>4, <1>5, <1>6, <1>7

LEMMA PayloadKinds ==
    ASSUME NEW c \in DOMAIN Payloads, NEW key \in DOMAIN Payloads[c]
    PROVE  Payloads[c][key] = None \/ Payloads[c][key][1] = KindOf(key)
<1>1. DOMAIN Payloads = {"Kill", "Rename", "Input", "Resize", "Attach", "Detach", "New"}
  BY DEF Payloads
<1>2. Payloads[c] \in {KillPayload, RenamePayload, InputPayload, ResizePayload,
                       AttachSessionPayload, NewSessionPayload}
  BY <1>1 DEF Payloads
<1> QED BY <1>2, MemberKinds

\* fromJson undoes toJson: what toJson leaves out is what fromJson takes for no value.
LEMMA PayloadArrives ==
    ASSUME NEW payload, NEW p \in ValuesOf(payload),
           \A key \in DOMAIN payload : payload[key] = None \/ payload[key][1] = KindOf(key)
    PROVE  fromJson(payload, toJson(p)) = p
<1> DEFINE given == {key \in DOMAIN p : p[key] # None}
           f == [key \in given |-> p[key]]
<1>1. /\ p = [key \in DOMAIN payload |-> p[key]] /\ DOMAIN p = DOMAIN payload
      /\ \A key \in DOMAIN payload :
            \/ p[key][1] = KindOf(key)
            \/ p[key] = None /\ payload[key] = None
  BY DEF ValuesOf
<1>2. \A key : KindOf(key) # "none" /\ KindOf(key) # "null"
  BY DEF KindOf
<1>3. ASSUME NEW key \in DOMAIN payload
      PROVE  (IF payload[key] = None THEN optional(toJson(p), key)
              ELSE value(toJson(p), key, payload[key])) = p[key]
  <2>1. CASE p[key][1] = KindOf(key)
    <3>1. key \in given /\ given # {} /\ p[key] # Null
      BY <1>1, <1>2, <2>1, Kinds
    <3>2. toJson(p) = Object(f)
      BY <3>1 DEF toJson
    <3>3. key \in DOMAIN f /\ f[key] = p[key]
      BY <3>1
    <3> HIDE DEF f, given
    <3>4. CASE payload[key] = None
      BY <2>1, <3>1, <3>2, <3>3, <3>4, Kinds DEF optional, Has, get
    <3>5. CASE payload[key] # None
      BY <2>1, <3>2, <3>3, <3>5, MemberIsRead
    <3> QED BY <3>4, <3>5
  <2>2. CASE p[key] = None /\ payload[key] = None
    <3>1. key \notin given
      BY <2>2
    <3>2. toJson(p) = Null \/ toJson(p) = Object(f)
      BY DEF toJson
    <3>3. ~Has(Null, key)
      BY Kinds DEF Has
    <3>4. ~Has(Object(f), key)
      <4>1. DOMAIN f = given OBVIOUS
      <4> HIDE DEF f, given
      <4> QED BY <3>1, <4>1, Kinds DEF Has
    <3> HIDE DEF f
    <3> QED BY <2>2, <3>2, <3>3, <3>4 DEF optional
  <2> QED BY <1>1, <2>1, <2>2
<1> HIDE DEF f, given
<1> QED BY <1>1, <1>3 DEF fromJson

-----------------------------------------------------------------------------
(* Lines *)

RequestLine(c) ==
    Object([type |-> Text("request"), id |-> c.id,
            command |-> Text(CommandNames[c.command]), payload |-> toJson(c.payload)])

AnswerLine(id, o) ==
    IF o.returned
    THEN Object([type |-> Text("response"), id |-> id, success |-> Bool(TRUE), data |-> o.result])
    ELSE Object([type |-> Text("response"), id |-> id, success |-> Bool(FALSE), error |-> o.result])

EventLine(type, sid, data) ==
    Object([type |-> Text("event"), eventType |-> Text(EventNames[type]),
            sessionId |-> sid, data |-> data])

\* What a line is taken for is said by its type alone.
LEMMA TypeDecides ==
    ASSUME NEW j
    PROVE  /\ deserializeRequest(j) # Refused => value(j, "type", Text("")) = Text("request")
           /\ deserializeResponse(j) # Refused => value(j, "type", Text("")) = Text("response")
           /\ deserializeEvent(j) # Refused => value(j, "type", Text("")) = Text("event")
<1>1. deserializeRequest(j) # Refused => value(j, "type", Text("")) = Text("request")
  BY DEF deserializeRequest
<1>2. deserializeResponse(j) # Refused => value(j, "type", Text("")) = Text("response")
  BY DEF deserializeResponse
<1>3. deserializeEvent(j) # Refused => value(j, "type", Text("")) = Text("event")
  BY DEF deserializeEvent
<1> QED BY <1>1, <1>2, <1>3

LEMMA TypesDiffer ==
    /\ Text("request") # Text("response") /\ Text("request") # Text("event")
    /\ Text("response") # Text("event")
BY Kinds

LEMMA CallIsTyped ==
    ASSUME NEW c \in Calls
    PROVE  /\ c.id = Text("id")
           /\ IF c.command \in DOMAIN Payloads
              THEN c.payload \in ValuesOf(Payloads[c.command]) ELSE c.payload = NoPayload
           /\ c = [id |-> c.id, command |-> c.command, payload |-> c.payload]
           /\ c.command \in DOMAIN CommandNames
<1>1. DOMAIN Payloads \subseteq DOMAIN CommandNames
  BY DEF Payloads, CommandNames
<1>2. CASE c \in CallsWithPayload
  <2>1. PICK d \in DOMAIN Payloads :
            c \in [id : {Text("id")}, command : {d}, payload : ValuesOf(Payloads[d])]
    BY <1>2 DEF CallsWithPayload
  <2> QED BY <1>1, <2>1
<1>3. CASE c = CallList
  <2>1. "List" \in DOMAIN CommandNames /\ "List" \notin DOMAIN Payloads
    BY DEF Payloads, CommandNames
  <2> QED BY <1>3, <2>1 DEF CallList
<1> QED BY <1>2, <1>3 DEF Calls

LEMMA RequestIsRead ==
    ASSUME NEW c \in Calls
    PROVE  deserializeRequest(RequestLine(c)) = Request(c.id, c.command, toJson(c.payload))
<1> DEFINE f == [type |-> Text("request"), id |-> c.id,
                 command |-> Text(CommandNames[c.command]), payload |-> toJson(c.payload)]
<1>1. c.id = Text("id") /\ c.command \in DOMAIN CommandNames
  BY CallIsTyped
<1>2. /\ {"type", "id", "command", "payload"} \subseteq DOMAIN f
      /\ f["type"] = Text("request") /\ f["id"] = c.id
      /\ f["command"] = Text(CommandNames[c.command]) /\ f["payload"] = toJson(c.payload)
  OBVIOUS
<1>3. RequestLine(c) = Object(f)
  BY DEF RequestLine
<1> HIDE DEF f
<1>4. /\ f["type"][1] = "string" /\ f["id"][1] = "string" /\ f["command"][1] = "string"
      /\ "type" \in DOMAIN f /\ "id" \in DOMAIN f /\ "command" \in DOMAIN f
  BY <1>1, <1>2, Kinds
<1>5. value(Object(f), "type", Text("")) = f["type"] /\ value(Object(f), "id", Text("")) = f["id"]
  BY <1>4, TextIsRead
<1>6. value(Object(f), "command", Text("")) = f["command"]
  BY <1>4, TextIsRead
<1>7. anyValue(Object(f), "payload", EmptyObject) = toJson(c.payload)
  BY <1>2, AnyMemberIsRead
<1>8. Thrown \notin {c.id, Text(CommandNames[c.command])}
  BY <1>1, Kinds
<1>9. commandTypeFromString(Text(CommandNames[c.command])[2]) = c.command
  BY <1>1, CommandIsNamed, Kinds
<1> QED BY <1>2, <1>3, <1>5, <1>6, <1>7, <1>8, <1>9 DEF deserializeRequest

\* The answer settles the request with what was thrown or returned, unless the data could
\* pass for an error.
LEMMA AnswerIsTaken ==
    ASSUME NEW id, NEW o, id[1] = "string",
           \/ o = Returns(o.result) /\ ~Has(o.result, "__error")
           \/ o = Throws(o.result) /\ o.result[1] = "string"
    PROVE  LET taken == processLine(AnswerLine(id, o))
           IN  taken.as = "response" /\ taken.id = id /\ requestResult(taken.given) = o
<1>1. id # Thrown /\ Bool(TRUE) # Thrown /\ Bool(FALSE) # Thrown /\ Bool(TRUE) # Bool(FALSE)
  <2>1. id # Thrown BY Kinds
  <2>2. Bool(TRUE)[1] # Thrown[1] /\ Bool(FALSE)[1] # Thrown[1] BY Kinds
  <2>3. Bool(TRUE)[2] = TRUE /\ Bool(FALSE)[2] = FALSE BY Kinds
  <2>4. Bool(TRUE) # Bool(FALSE) BY <2>3, Zenon
  <2> QED BY <2>1, <2>2, <2>4
<1>2. Text("response")[1] = "string" /\ Bool(TRUE)[1] = "boolean" /\ Bool(FALSE)[1] = "boolean"
  BY Kinds
<1>3. CASE o = Returns(o.result) /\ ~Has(o.result, "__error")
  <2> DEFINE f == [type |-> Text("response"), id |-> id, success |-> Bool(TRUE), data |-> o.result]
  <2>1. AnswerLine(id, o) = Object(f)
    BY <1>3 DEF AnswerLine, Returns
  <2>2. /\ "type" \in DOMAIN f /\ "id" \in DOMAIN f /\ "success" \in DOMAIN f /\ "data" \in DOMAIN f
        /\ f["type"] = Text("response") /\ f["id"] = id
        /\ f["success"] = Bool(TRUE) /\ f["data"] = o.result
    OBVIOUS
  <2> HIDE DEF f
  <2>3. value(Object(f), "type", Text("")) = Text("response") /\ value(Object(f), "id", Text("")) = id
    <3>1. f["type"][1] = "string" /\ f["id"][1] = "string" BY <1>2, <2>2
    <3>2. value(Object(f), "type", Text("")) = f["type"] BY <2>2, <3>1, TextIsRead
    <3>3. value(Object(f), "id", Text("")) = f["id"] BY <2>2, <3>1, TextIsRead
    <3> QED BY <2>2, <3>2, <3>3
  <2>4. value(Object(f), "success", Bool(FALSE)) = Bool(TRUE)
    <3>1. f["success"][1] = Bool(FALSE)[1] BY <1>2, <2>2
    <3>2. value(Object(f), "success", Bool(FALSE)) = f["success"] BY <2>2, <3>1, MemberIsRead
    <3> QED BY <2>2, <3>2
  <2>5. anyValue(Object(f), "data", Null) = o.result
    BY <2>2, AnyMemberIsRead
  <2>6. deserializeResponse(Object(f)) = Success(id, o.result)
    BY <1>1, <2>3, <2>4, <2>5 DEF deserializeResponse
  <2>7. processLine(Object(f)) = [as |-> "response", id |-> id, given |-> o.result]
    <3>1. Success(id, o.result) # Refused BY NotRefused
    <3>2. LET r == Success(id, o.result) IN r.id = id /\ r.success = TRUE /\ r.data = o.result
      BY DEF Success
    <3> QED BY <2>6, <3>1, <3>2 DEF processLine
  <2>8. requestResult(o.result) = o
    BY <1>3 DEF requestResult
  <2> QED BY <2>1, <2>7, <2>8
<1>4. CASE o = Throws(o.result) /\ o.result[1] = "string"
  <2> DEFINE f == [type |-> Text("response"), id |-> id, success |-> Bool(FALSE), error |-> o.result]
             e == [k \in {"__error"} |-> o.result]
  <2>1. AnswerLine(id, o) = Object(f)
    BY <1>4 DEF AnswerLine, Throws
  <2>2. /\ "type" \in DOMAIN f /\ "id" \in DOMAIN f /\ "success" \in DOMAIN f /\ "error" \in DOMAIN f
        /\ f["type"] = Text("response") /\ f["id"] = id
        /\ f["success"] = Bool(FALSE) /\ f["error"] = o.result
    OBVIOUS
  <2> HIDE DEF f
  <2>3. value(Object(f), "type", Text("")) = Text("response") /\ value(Object(f), "id", Text("")) = id
    <3>1. f["type"][1] = "string" /\ f["id"][1] = "string" BY <1>2, <2>2
    <3>2. value(Object(f), "type", Text("")) = f["type"] BY <2>2, <3>1, TextIsRead
    <3>3. value(Object(f), "id", Text("")) = f["id"] BY <2>2, <3>1, TextIsRead
    <3> QED BY <2>2, <3>2, <3>3
  <2>4. value(Object(f), "success", Bool(FALSE)) = Bool(FALSE)
    <3>1. f["success"][1] = Bool(FALSE)[1] BY <1>2, <2>2
    <3>2. value(Object(f), "success", Bool(FALSE)) = f["success"] BY <2>2, <3>1, MemberIsRead
    <3> QED BY <2>2, <3>2
  <2>5. value(Object(f), "error", Text("")) = o.result /\ o.result # Thrown
    <3>1. f["error"][1] = "string" BY <1>4, <2>2
    <3>2. value(Object(f), "error", Text("")) = f["error"] BY <2>2, <3>1, TextIsRead
    <3>3. o.result # Thrown BY <1>4, Kinds
    <3> QED BY <2>2, <3>2, <3>3
  <2>6. deserializeResponse(Object(f)) = Failure(id, o.result)
    BY <1>1, <2>3, <2>4, <2>5 DEF deserializeResponse
  <2>7. processLine(Object(f)) = [as |-> "response", id |-> id, given |-> Object(e)]
    <3>1. Failure(id, o.result) # Refused BY NotRefused
    <3>2. LET r == Failure(id, o.result) IN r.id = id /\ r.success = FALSE /\ r.error = o.result
      BY DEF Failure
    <3> QED BY <2>6, <3>1, <3>2 DEF processLine
  <2>8. requestResult(Object(e)) = o
    <3>1. "__error" \in DOMAIN e /\ e["__error"] = o.result
      OBVIOUS
    <3> HIDE DEF e
    <3>2. Has(Object(e), "__error") /\ Object(e)[2] = e
      BY <3>1, Kinds DEF Has
    <3>3. get(o.result, "string") = o.result
      BY <1>4 DEF get
    <3> QED BY <1>4, <3>1, <3>2, <3>3 DEF requestResult
  <2> QED BY <2>1, <2>7, <2>8
<1> QED BY <1>3, <1>4

\* An event is no answer.
LEMMA EventIsTaken ==
    ASSUME NEW type, NEW sid, NEW data
    PROVE  processLine(EventLine(type, sid, data)).as = "event"
<1> DEFINE f == [type |-> Text("event"), eventType |-> Text(EventNames[type]),
                 sessionId |-> sid, data |-> data]
<1>1. EventLine(type, sid, data) = Object(f)
  BY DEF EventLine
<1>2. "type" \in DOMAIN f /\ f["type"] = Text("event") /\ f["type"][1] = "string"
  BY Kinds
<1> HIDE DEF f
<1>3. value(Object(f), "type", Text("")) = Text("event")
  BY <1>2, TextIsRead
<1>4. deserializeResponse(Object(f)) = Refused
  BY <1>3, TypeDecides, TypesDiffer
<1> QED BY <1>1, <1>4 DEF processLine

-----------------------------------------------------------------------------
(* The inductive invariant *)

\* An outcome that comes back as it was: no data that could pass for an error, and a
\* text for what was thrown.
Settles(o) == \/ o = Returns(o.result) /\ ~Has(o.result, "__error")
              \/ o = Throws(o.result) /\ o.result[1] = "string"

\* Where the request is, the line in the pipe is what was written last.
Asked == /\ call = NoCall \/ call \in Calls
         /\ at = "ask" => call = NoCall
         /\ at \in {"ask", "sent"} => handled = NoCall
         /\ at = "sent" /\ call # NoCall => line = RequestLine(call)

Answered == /\ at \in {"handling", "answered"} => handled.id[1] = "string"
            /\ at = "handling" =>
                  \/ line = Null
                  \/ \E type \in DOMAIN EventNames, t \in Texts :
                        line = EventLine(type, Text("s"), t)
            /\ at = "answered" => line = AnswerLine(handled.id, outcome) /\ Settles(outcome)

Inv == Asked /\ Answered /\ RequestArrives /\ ResultIsOutcome

LEMMA InvInitially == Init => Inv
BY DEF Init, Inv, Asked, Answered, RequestArrives, ResultIsOutcome

LEMMA OutcomesSettle ==
    ASSUME NEW o \in Outcomes \cup {Throws(Text("type_error"))}
    PROVE  Settles(o)
<1>1. ASSUME NEW j \in Results PROVE ~Has(j, "__error")
  <2>1. CASE j = Null
    BY <2>1, Kinds DEF Has
  <2>2. CASE j = Object([result |-> Bool(TRUE)])
    <3>1. "__error" \notin DOMAIN [result |-> Bool(TRUE)] OBVIOUS
    <3> QED BY <2>2, <3>1, Kinds DEF Has
  <2>3. ASSUME NEW t, j = Object([sessionId |-> t, title |-> t]) PROVE ~Has(j, "__error")
    <3>1. "__error" \notin DOMAIN [sessionId |-> t, title |-> t] OBVIOUS
    <3> QED BY <2>3, <3>1, Kinds DEF Has
  <2>4. ASSUME NEW t, j = Object([history |-> Array(<<t>>)]) PROVE ~Has(j, "__error")
    <3>1. "__error" \notin DOMAIN [history |-> Array(<<t>>)] OBVIOUS
    <3> QED BY <2>4, <3>1, Kinds DEF Has
  <2>5. ASSUME NEW s, j = Array(s) PROVE ~Has(j, "__error")
    BY <2>5, Kinds DEF Has
  <2> QED BY <2>1, <2>2, <2>3, <2>4, <2>5 DEF Results
<1>2. ASSUME NEW j \in Results, o = Returns(j) PROVE Settles(o)
  <2>1. o.result = j BY <1>2 DEF Returns
  <2> QED BY <1>1, <1>2, <2>1 DEF Settles
<1>3. ASSUME NEW t, t[1] = "string", o = Throws(t) PROVE Settles(o)
  <2>1. o.result = t BY <1>3 DEF Throws
  <2> QED BY <1>3, <2>1 DEF Settles
<1>4. \A t \in Clean \cup {Text("type_error")} : t[1] = "string"
  BY Kinds DEF Clean, Texts
<1> QED BY <1>2, <1>3, <1>4 DEF Outcomes

\* What is written is the line that was meant, or dump throws and nothing is.
LEMMA PutsOrCrashes ==
    ASSUME NEW f, NEW next, Put(dump(Object(f)), next)
    PROVE  \/ line' = Object(f) /\ at' = next
           \/ line' = Null /\ at' = "crashed"
<1>1. Object(f) # Thrown BY Kinds
<1> QED BY <1>1, DumpOrThrow DEF Put

LEMMA IdIsText ==
    ASSUME NEW j, deserializeRequest(j) # Refused
    PROVE  deserializeRequest(j).id[1] = "string"
<1>1. value(j, "id", Text("")) = Thrown \/ value(j, "id", Text(""))[1] = "string"
  <2>1. Text("")[1] = "string" BY Kinds
  <2>2. \A v : get(v, "string") = Thrown \/ get(v, "string")[1] = "string" BY DEF get
  <2>3. value(j, "id", Text("")) \in {Thrown, Text(""), get(j[2]["id"], "string")}
    BY <2>1 DEF value, Has
  <2> QED BY <2>1, <2>2, <2>3
<1>2. /\ value(j, "id", Text("")) # Thrown
      /\ deserializeRequest(j).id = value(j, "id", Text(""))
  BY DEF deserializeRequest, Request
<1> QED BY <1>1, <1>2

LEMMA InvIsInductive == Inv /\ [Next]_vars => Inv'
<1> SUFFICES ASSUME Inv, [Next]_vars PROVE Inv'
  OBVIOUS
<1>1. CASE Ask
  <2>1. /\ at = "ask" /\ call' \in Calls /\ UNCHANGED <<handled, outcome, result, events>>
        /\ Put(serializeRequest(Request(call'.id, call'.command, toJson(call'.payload))), "sent")
    BY <1>1 DEF Ask
  <2>2. serializeRequest(Request(call'.id, call'.command, toJson(call'.payload)))
          = dump(RequestLine(call'))
    BY DEF serializeRequest, Request, RequestLine
  <2>3. \/ line' = RequestLine(call') /\ at' = "sent"
        \/ line' = Null /\ at' = "crashed"
    BY <2>1, <2>2, PutsOrCrashes DEF RequestLine
  <2>4. handled = NoCall /\ result = Unsettled
    BY <2>1 DEF Inv, Asked, ResultIsOutcome
  <2> QED BY <2>1, <2>3, <2>4 DEF Inv, Asked, Answered, RequestArrives, ResultIsOutcome
<1>2. CASE AskOther
  <2>1. /\ at = "ask" /\ at' = "sent" /\ UNCHANGED <<call, handled, outcome, result, events>>
    BY <1>2 DEF AskOther
  <2> QED BY <2>1 DEF Inv, Asked, Answered, RequestArrives, ResultIsOutcome
<1>3. CASE Refuse
  <2>1. /\ at = "sent" /\ at' = "refused" /\ UNCHANGED <<call, handled, outcome, result, events>>
    BY <1>3 DEF Refuse
  <2> QED BY <2>1 DEF Inv, Asked, Answered, RequestArrives, ResultIsOutcome
<1>4. CASE Dispatch
  <2> PICK r : r = deserializeRequest(line)
    OBVIOUS
  <2>1. /\ at = "sent" /\ r # Refused /\ line' = Null /\ at' = "handling"
        /\ handled' = [id |-> r.id, command |-> r.command,
                       payload |-> IF r.command \in DOMAIN Payloads
                                   THEN fromJson(Payloads[r.command], r.payload) ELSE NoPayload]
        /\ UNCHANGED <<call, outcome, result, events>>
    BY <1>4 DEF Dispatch
  <2>2. handled'.id[1] = "string"
    <3>1. handled'.id = r.id BY <2>1
    <3>2. r.id[1] = "string" BY <2>1, IdIsText
    <3> QED BY <3>1, <3>2
  <2>3. ASSUME call # NoCall PROVE handled' = call
    <3>1. call \in Calls /\ line = RequestLine(call)
      BY <2>1, <2>3 DEF Inv, Asked
    <3>2. r = Request(call.id, call.command, toJson(call.payload))
      BY <3>1, RequestIsRead
    <3>3. r.id = call.id /\ r.command = call.command /\ r.payload = toJson(call.payload)
      BY <3>2 DEF Request
    <3>4. /\ IF call.command \in DOMAIN Payloads
             THEN call.payload \in ValuesOf(Payloads[call.command])
             ELSE call.payload = NoPayload
          /\ call = [id |-> call.id, command |-> call.command, payload |-> call.payload]
      BY <3>1, CallIsTyped
    <3>5. ASSUME call.command \in DOMAIN Payloads
          PROVE  fromJson(Payloads[call.command], toJson(call.payload)) = call.payload
      <4> PICK payload, p : payload = Payloads[call.command] /\ p = call.payload
        OBVIOUS
      <4>1. \A key \in DOMAIN payload : payload[key] = None \/ payload[key][1] = KindOf(key)
        BY <3>5, PayloadKinds
      <4>2. fromJson(payload, toJson(p)) = p
        BY <3>4, <3>5, <4>1, PayloadArrives
      <4> QED BY <4>2
    <3>6. IF call.command \in DOMAIN Payloads
          THEN handled'.payload = fromJson(Payloads[call.command], toJson(call.payload))
          ELSE handled'.payload = NoPayload
      BY <2>1, <3>3
    <3>7. handled'.payload = call.payload BY <3>4, <3>5, <3>6
    <3>8. handled' = [id |-> call.id, command |-> call.command, payload |-> call.payload]
      BY <2>1, <3>3, <3>7
    <3> QED BY <3>4, <3>8
  <2>4. result = Unsettled
    BY <2>1 DEF Inv, ResultIsOutcome
  <2> QED BY <2>1, <2>2, <2>3, <2>4 DEF Inv, Asked, Answered, RequestArrives, ResultIsOutcome
<1>5. CASE Handle
  <2>1. /\ at = "handling" /\ outcome' \in Outcomes \cup {Throws(Text("type_error"))}
        /\ Put(handleRequest(handled, outcome'), "answered")
        /\ UNCHANGED <<call, handled, result, events>>
    BY <1>5 DEF Handle
  <2>2. Settles(outcome')
    BY <2>1, OutcomesSettle
  <2>3. handleRequest(handled, outcome') = dump(AnswerLine(handled.id, outcome'))
    <3>1. CASE outcome'.returned
      <4>1. handleRequest(handled, outcome') = serializeResponse(Success(handled.id, outcome'.result))
        BY <3>1 DEF handleRequest
      <4>2. LET r == Success(handled.id, outcome'.result)
            IN  r.success /\ r.id = handled.id /\ r.data = outcome'.result
        BY DEF Success
      <4> QED BY <3>1, <4>1, <4>2 DEF serializeResponse, AnswerLine
    <3>2. CASE ~outcome'.returned
      <4>1. handleRequest(handled, outcome') = serializeResponse(Failure(handled.id, outcome'.result))
        BY <3>2 DEF handleRequest
      <4>2. LET r == Failure(handled.id, outcome'.result)
            IN  ~r.success /\ r.id = handled.id /\ r.error = outcome'.result
        BY DEF Failure
      <4> QED BY <3>2, <4>1, <4>2 DEF serializeResponse, AnswerLine
    <3> QED BY <3>1, <3>2
  <2>4. \/ line' = AnswerLine(handled.id, outcome') /\ at' = "answered"
        \/ line' = Null /\ at' = "crashed"
    <3>1. \E f : AnswerLine(handled.id, outcome') = Object(f)
      BY DEF AnswerLine
    <3> QED BY <2>1, <2>3, <3>1, PutsOrCrashes
  <2>5. handled.id[1] = "string" /\ result = Unsettled
    BY <2>1 DEF Inv, Answered, ResultIsOutcome
  <2> QED BY <2>1, <2>2, <2>4, <2>5 DEF Inv, Asked, Answered, RequestArrives, ResultIsOutcome
<1>6. CASE SendEvent
  <2>1. at = "handling" /\ UNCHANGED <<call, handled, outcome, result, events>>
    BY <1>6 DEF SendEvent
  <2>2. PICK type \in DOMAIN EventNames, t \in Texts :
            Put(serializeEvent(EventOf(type, Text("s"), t)), "handling")
    BY <1>6 DEF SendEvent
  <2>3. serializeEvent(EventOf(type, Text("s"), t)) = dump(EventLine(type, Text("s"), t))
    BY DEF serializeEvent, EventOf, EventLine
  <2>4. \/ line' = EventLine(type, Text("s"), t) /\ at' = "handling"
        \/ line' = Null /\ at' = "crashed"
    BY <2>2, <2>3, PutsOrCrashes DEF EventLine
  <2> QED BY <2>1, <2>4 DEF Inv, Asked, Answered, RequestArrives, ResultIsOutcome
<1>7. CASE TakeEvent
  <2>1. /\ at = "handling" /\ line # Null /\ line' = Null
        /\ result' = IF processLine(line).as = "response"
                     THEN requestResult(processLine(line).given) ELSE result
        /\ UNCHANGED <<at, call, handled, outcome>>
    BY <1>7 DEF TakeEvent
  <2>2. processLine(line).as = "event"
    BY <2>1, EventIsTaken DEF Inv, Answered
  <2>3. result' = result
    BY <2>1, <2>2
  <2> QED BY <2>1, <2>3 DEF Inv, Asked, Answered, RequestArrives, ResultIsOutcome
<1>8. CASE TakeAnswer
  <2> PICK taken : taken = processLine(line)
    OBVIOUS
  <2>1. /\ at = "answered" /\ at' = "done" /\ line' = Null
        /\ result' = IF taken.as = "response" /\ taken.id = handled.id
                     THEN requestResult(taken.given) ELSE result
        /\ UNCHANGED <<call, handled, outcome, events>>
    BY <1>8 DEF TakeAnswer
  <2>2. line = AnswerLine(handled.id, outcome) /\ Settles(outcome) /\ handled.id[1] = "string"
    BY <2>1 DEF Inv, Answered
  <2>3. taken.as = "response" /\ taken.id = handled.id /\ requestResult(taken.given) = outcome
    BY <2>2, AnswerIsTaken DEF Settles
  <2>4. result' = outcome
    BY <2>1, <2>3
  <2> QED BY <2>1, <2>4 DEF Inv, Asked, Answered, RequestArrives, ResultIsOutcome
<1>9. CASE UNCHANGED vars
  BY <1>9 DEF vars, Inv, Asked, Answered, RequestArrives, ResultIsOutcome
<1> QED BY <1>1, <1>2, <1>3, <1>4, <1>5, <1>6, <1>7, <1>8, <1>9 DEF Next

-----------------------------------------------------------------------------
LEMMA InvHolds == Spec => []Inv
BY InvInitially, InvIsInductive, PTL DEF Spec

\* Whatever texts and sizes a command puts into its payload, or leaves out, its handler
\* reads the same (toJson, serialize, deserialize, fromJson).
THEOREM RequestsArrive == Spec => []RequestArrives
<1>1. Inv => RequestArrives BY DEF Inv
<1> QED BY <1>1, InvHolds, PTL

\* Whatever a handler returns or throws, and however many events come in between, the
\* request returns it or fails with its text.
THEOREM OutcomeReturns == Spec => []ResultIsOutcome
<1>1. Inv => ResultIsOutcome BY DEF Inv
<1> QED BY <1>1, InvHolds, PTL

\* No line at all, of whatever make, is taken for two kinds of message.
THEOREM OneKind == Spec => []OneKindPerLine
<1>1. OneKindPerLine
  BY TypeDecides, TypesDiffer DEF OneKindPerLine
<1> QED BY <1>1, PTL

=============================================================================
