------------------------------ MODULE IpcMessage ------------------------------
(***************************************************************************)
(* The lines of the pipe: IPC/IpcMessage.cpp, and what the two ends do with *)
(* a line (IpcServer::_handleRequest, IpcClient::_handleData, request).     *)
(*                                                                          *)
(* A JSON value is a pair of its kind and its content; an object is a       *)
(* function of its keys.  dump and parse undo each other, except that dump  *)
(* throws on a text that is not UTF-8.  Operators have the code's names.    *)
(***************************************************************************)
EXTENDS Integers, Sequences

CONSTANT Garbled  \* a text that is not UTF-8

Text(t) == <<"string", t>>
Number(n) == <<"number", n>>
Bool(b) == <<"boolean", b>>
Null == <<"null", "">>
Array(s) == <<"array", s>>
Object(f) == <<"object", f>>
EmptyObject == Object([k \in {} |-> Null])

None == <<"none", "">>       \* an optional without a value
Thrown == <<"thrown", "">>   \* an exception instead of a value
Refused == [refused |-> TRUE]   \* what deserialize returns of no use: std::nullopt

Has(j, key) == j[1] = "object" /\ key \in DOMAIN j[2]

\* What lies one level below the values vs.
Inside(vs) ==
    UNION {{v[2][k] : k \in DOMAIN v[2]} : v \in {w \in vs : w[1] \in {"object", "array"}}}

Depth == 4        \* bound on how deep a message is nested

Utf8(j) ==
    LET Level[d \in 0 .. Depth] == IF d = 0 THEN {j} ELSE Inside(Level[d - 1])
    IN  \A d \in 0 .. Depth : Text(Garbled) \notin Level[d]

dump(j) == IF Utf8(j) THEN j ELSE Thrown

\* A number is read from a boolean too.
get(j, kind) == CASE j[1] = kind -> j
                  [] kind = "number" /\ j[1] = "boolean" -> Number(IF j[2] THEN 1 ELSE 0)
                  [] OTHER -> Thrown

\* j.value(key, default): the kind of the default is the one that is asked for.
value(j, key, default) == CASE j[1] # "object" -> Thrown
                            [] Has(j, key) -> get(j[2][key], default[1])
                            [] OTHER -> default

\* The same where the default is itself a JSON value: any kind will do.
anyValue(j, key, default) == IF Has(j, key) THEN j[2][key] ELSE default

-----------------------------------------------------------------------------
(* Commands and events *)

CommandNames == [List |-> "list", New |-> "new", Attach |-> "attach", Detach |-> "detach",
                 Kill |-> "kill", Rename |-> "rename", Input |-> "input",
                 Resize |-> "resize", Shutdown |-> "shutdown"]

EventNames == [Output |-> "output", Exit |-> "exit", SessionAdded |-> "session_added",
               SessionRemoved |-> "session_removed", Error |-> "error"]

Named(names, str, default) ==
    IF \E n \in DOMAIN names : names[n] = str
    THEN CHOOSE n \in DOMAIN names : names[n] = str
    ELSE default

commandTypeFromString(str) == Named(CommandNames, str, "List")
eventTypeFromString(str) == Named(EventNames, str, "Error")

-----------------------------------------------------------------------------
(* Messages *)

Request(id, command, payload) == [id |-> id, command |-> command, payload |-> payload]
Success(id, data) == [id |-> id, success |-> TRUE, data |-> data, error |-> Text("")]
Failure(id, error) == [id |-> id, success |-> FALSE, data |-> Null, error |-> error]
EventOf(type, sid, data) == [eventType |-> type, sessionId |-> sid, data |-> data]

serializeRequest(r) ==
    dump(Object([type |-> Text("request"), id |-> r.id,
                 command |-> Text(CommandNames[r.command]), payload |-> r.payload]))

deserializeRequest(j) ==
    LET id == value(j, "id", Text(""))
        command == value(j, "command", Text(""))
    IN IF value(j, "type", Text("")) = Text("request") /\ Thrown \notin {id, command}
       THEN Request(id, commandTypeFromString(command[2]), anyValue(j, "payload", EmptyObject))
       ELSE Refused

serializeResponseMutant(r) ==     \* the error is sent as data
    dump(Object([type |-> Text("response"), id |-> r.id, success |-> Bool(r.success),
                 data |-> IF r.success THEN r.data ELSE r.error]))

serializeResponse(r) ==
    dump(Object(IF r.success
                THEN [type |-> Text("response"), id |-> r.id, success |-> Bool(TRUE),
                      data |-> r.data]
                ELSE [type |-> Text("response"), id |-> r.id, success |-> Bool(FALSE),
                      error |-> r.error]))

deserializeResponse(j) ==
    LET id == value(j, "id", Text(""))
        success == value(j, "success", Bool(FALSE))
        error == value(j, "error", Text(""))
    IN IF value(j, "type", Text("")) = Text("response") /\ Thrown \notin {id, success}
       THEN CASE success = Bool(TRUE) -> Success(id, anyValue(j, "data", Null))
              [] success = Bool(FALSE) /\ error # Thrown -> Failure(id, error)
              [] OTHER -> Refused
       ELSE Refused

serializeEvent(e) ==
    dump(Object([type |-> Text("event"), eventType |-> Text(EventNames[e.eventType]),
                 sessionId |-> e.sessionId, data |-> e.data]))

deserializeEventMutant(j) ==      \* takes whatever has a session for an event
    LET type == value(j, "eventType", Text("error"))
        sid == value(j, "sessionId", Text(""))
    IN IF Thrown \notin {type, sid}
       THEN EventOf(eventTypeFromString(type[2]), sid, anyValue(j, "data", Null))
       ELSE Refused

deserializeEvent(j) ==
    LET type == value(j, "eventType", Text("error"))
        sid == value(j, "sessionId", Text(""))
    IN IF value(j, "type", Text("")) = Text("event") /\ Thrown \notin {type, sid}
       THEN EventOf(eventTypeFromString(type[2]), sid, anyValue(j, "data", Null))
       ELSE Refused

-----------------------------------------------------------------------------
(* Payloads: of each member, the default it is read with; None for an optional *)

Session == [sessionId |-> Text("")]
KillPayload == Session
RenamePayload == [sessionId |-> Text(""), newTitle |-> Text("")]
InputPayload == [sessionId |-> Text(""), data |-> Text("")]
ResizePayload == [sessionId |-> Text(""), cols |-> Number(80), rows |-> Number(24)]
AttachSessionPayload == [sessionId |-> Text(""), cols |-> None, rows |-> None]
NewSessionPayload == [title |-> None, cwd |-> None, shell |-> None, cols |-> None, rows |-> None]

Payloads == [Kill |-> KillPayload, Rename |-> RenamePayload, Input |-> InputPayload,
             Resize |-> ResizePayload, Attach |-> AttachSessionPayload,
             Detach |-> AttachSessionPayload, New |-> NewSessionPayload]

KindOf(member) == IF member \in {"cols", "rows"} THEN "number" ELSE "string"

optionalMutant(j, key) == value(j, key, <<KindOf(key), "">>)   \* as if it had a default

optional(j, key) == IF Has(j, key) /\ j[2][key] # Null THEN get(j[2][key], KindOf(key)) ELSE None

fromJson(payload, j) ==
    [key \in DOMAIN payload |-> IF payload[key] = None THEN optional(j, key)
                                ELSE value(j, key, payload[key])]

\* Optionals without a value are left out, and what has no member at all is null.
toJson(p) ==
    LET given == {key \in DOMAIN p : p[key] # None}
    IN IF given = {} THEN Null ELSE Object([key \in given |-> p[key]])

-----------------------------------------------------------------------------
(* The two ends.  Every command has a handler (DaemonMain.cpp), which returns JSON or
   throws an exception with a text. *)

Returns(j) == [returned |-> TRUE, result |-> j]
Throws(text) == [returned |-> FALSE, result |-> text]

handleRequest(r, outcome) ==
    serializeResponse(IF outcome.returned THEN Success(r.id, outcome.result)
                      ELSE Failure(r.id, outcome.result))

\* What the promise of the request is set to, or the event the callback is given.
processLine(j) ==
    LET response == deserializeResponse(j)
    IN IF response = Refused THEN [as |-> "event", given |-> deserializeEvent(j)]
       ELSE [as |-> "response", id |-> response.id,
             given |-> IF response.success THEN response.data
                       ELSE Object([k \in {"__error"} |-> response.error])]

\* What IpcClient::request makes of the promise.
requestResult(answer) ==
    IF Has(answer, "__error") THEN Throws(get(answer[2]["__error"], "string"))
    ELSE Returns(answer)

=============================================================================
