------------------------------ MODULE IpcExchange ------------------------------
(***************************************************************************)
(* One request from end to end: a command fills a payload, IpcClient sends  *)
(* the line, IpcServer finds the handler, which returns or throws, and the  *)
(* answer goes the way back, with events in between.  A client of another   *)
(* make may send other lines: objects with the members of the messages, but *)
(* of other kinds or missing, and values that are no objects.               *)
(***************************************************************************)
EXTENDS IpcMessage

CONSTANTS Words,      \* the texts that are tried, Garbled among them
          Sizes,      \* the columns and rows that are tried
          MaxEvents   \* bound on the events before the answer

ASSUME InputsAssumption == /\ {"", Garbled} \subseteq Words /\ Sizes \subseteq Int
                           /\ MaxEvents \in Nat

VARIABLES at,       \* where the request is
          call,     \* what was asked: the id, the command and its payload
          line,     \* what the pipe holds, Null when nothing
          handled,  \* what the handler was called with
          outcome,  \* what the handler did
          result,   \* what request returned
          events    \* how many events the client was given

vars == <<at, call, line, handled, outcome, result, events>>

Texts == {Text(w) : w \in Words}
Clean == Texts \ {Text(Garbled)}

\* Every value a payload can have: what a member can be follows from its default.
ValuesOf(payload) ==
    {p \in [DOMAIN payload -> Texts \cup {Number(n) : n \in Sizes} \cup {None}] :
        \A key \in DOMAIN payload : \/ p[key][1] = KindOf(key)
                                    \/ p[key] = None /\ payload[key] = None}

\* List is asked for without a payload; no command of the program asks for Shutdown.
NoPayload == [key \in {} |-> None]
CallsWithPayload ==
    UNION {[id : {Text("id")}, command : {c}, payload : ValuesOf(Payloads[c])] :
               c \in DOMAIN Payloads}
CallList == [id |-> Text("id"), command |-> "List", payload |-> NoPayload]
Calls == CallsWithPayload \cup {CallList}
NoCall == [id |-> None, command |-> "List", payload |-> NoPayload]
Unsettled == Throws(None)

\* What the handlers return: nothing, a flag, a session, lines, sessions.
Results == {Null, Object([result |-> Bool(TRUE)])}
           \cup {Object([sessionId |-> t, title |-> t]) : t \in Texts}
           \cup {Object([history |-> Array(<<t>>)]) : t \in Texts}
           \cup {Array(<<Object([id |-> t])>>) : t \in Texts}
Outcomes == {Returns(j) : j \in Results} \cup {Throws(t) : t \in Clean}

\* What another client sends: each member is missing, of its kind, or of another.
Member(values) == values \cup {None, Null}
OtherObjects ==
    [type      : Member({Text("request"), Text("response"), Text("event"), Bool(TRUE)}),
     id        : Member({Text("kill")}),
     command   : Member({Text("resize"), Text("kill")}),
     payload   : Member({Object([cols |-> Bool(TRUE)])}),
     eventType : Member({Text("exit")}),
     sessionId : Member({Text("kill")}),
     success   : Member({Bool(TRUE), Bool(FALSE)}),
     error     : Member({Text("kill")})]
Given(f) == {key \in DOMAIN f : f[key] # None}
Lines == {Object([key \in Given(f) |-> f[key]]) : f \in OtherObjects}
         \cup {Text("request"), Number(0), Array(<<>>)}

Init == /\ at = "ask" /\ call = NoCall /\ line = Null /\ handled = NoCall
        /\ outcome = Unsettled /\ result = Unsettled /\ events = 0

\* An exception of dump is caught neither in a command nor on a worker.
Put(json, next) ==
    /\ line' = IF json = Thrown THEN Null ELSE json
    /\ at' = IF json = Thrown THEN "crashed" ELSE next

Ask ==
    /\ at = "ask"
    /\ call' \in Calls
    /\ Put(serializeRequest(Request(call'.id, call'.command, toJson(call'.payload))), "sent")
    /\ UNCHANGED <<handled, outcome, result, events>>

AskOther ==
    /\ at = "ask"
    /\ line' \in Lines /\ at' = "sent"
    /\ UNCHANGED <<call, handled, outcome, result, events>>

\* A line that is no request is not answered.
Refuse ==
    /\ at = "sent" /\ deserializeRequest(line) = Refused
    /\ line' = Null /\ at' = "refused"
    /\ UNCHANGED <<call, handled, outcome, result, events>>

\* Commands that take no payload are given none of it.
Dispatch ==
    /\ at = "sent" /\ deserializeRequest(line) # Refused
    /\ LET r == deserializeRequest(line)
       IN handled' = [id |-> r.id, command |-> r.command,
                      payload |-> IF r.command \in DOMAIN Payloads
                                  THEN fromJson(Payloads[r.command], r.payload) ELSE NoPayload]
    /\ line' = Null /\ at' = "handling"
    /\ UNCHANGED <<call, outcome, result, events>>

Misread == handled.command \in DOMAIN Payloads
           /\ \E key \in DOMAIN handled.payload : handled.payload[key] = Thrown

\* What fromJson throws is caught with what the handler throws.
Handle ==
    /\ at = "handling"
    /\ outcome' \in IF Misread THEN {Throws(Text("type_error"))} ELSE Outcomes
    /\ Put(handleRequest(handled, outcome'), "answered")
    /\ UNCHANGED <<call, handled, result, events>>

\* A broadcast gets its line in before the answer.
SendEvent ==
    /\ at = "handling" /\ line = Null /\ events < MaxEvents
    /\ \E type \in DOMAIN EventNames, t \in Texts :
          Put(serializeEvent(EventOf(type, Text("s"), t)), "handling")
    /\ UNCHANGED <<call, handled, outcome, result, events>>

\* The client takes the line: an event goes to the callback, an answer settles the
\* request that has its id.
TakeEvent ==
    /\ at = "handling" /\ line # Null
    /\ events' = IF processLine(line).as = "event" THEN events + 1 ELSE events
    /\ result' = IF processLine(line).as = "response" THEN requestResult(processLine(line).given)
                 ELSE result
    /\ line' = Null
    /\ UNCHANGED <<at, call, handled, outcome>>

TakeAnswer ==
    /\ at = "answered"
    /\ LET taken == processLine(line)
       IN result' = IF taken.as = "response" /\ taken.id = handled.id
                    THEN requestResult(taken.given) ELSE result
    /\ line' = Null /\ at' = "done"
    /\ UNCHANGED <<call, handled, outcome, events>>

Next == Ask \/ AskOther \/ Refuse \/ Dispatch \/ Handle \/ SendEvent \/ TakeEvent \/ TakeAnswer

Spec == Init /\ [][Next]_vars

-----------------------------------------------------------------------------
(* What holds *)

\* The handler reads of the payload what the command put into it, also where it put
\* nothing (toJson, serialize, deserialize, fromJson).
RequestArrives == call # NoCall /\ handled # NoCall => handled = call

\* The request returns what its handler returned, or fails with the text it threw, though
\* the client keeps errors among the data, and whatever events came in between
\* (_handleRequest, _handleData, request).
ResultIsOutcome == result = IF at = "done" THEN outcome ELSE Unsettled

\* A line is a request, a response or an event, never two of them, whichever of the
\* members of the messages it has.
OneKindPerLine ==
    line # Null => LET request == deserializeRequest(line) # Refused
                       response == deserializeResponse(line) # Refused
                       event == deserializeEvent(line) # Refused
                   IN /\ ~(request /\ response) /\ ~(request /\ event)
                      /\ ~(response /\ event)

-----------------------------------------------------------------------------
(* What the code does not keep *)

\* Any text can be sent: one that is not UTF-8, from argv or a terminal, makes dump
\* throw, and nothing on the way catches it (IpcMessage.cpp:80, 113 and 146).
EveryTextIsSent == at # "crashed"
=============================================================================
