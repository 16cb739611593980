----------------------------- MODULE CoapChannel -----------------------------
(***************************************************************************)
(* WebrtcCoapChannel and VirtualCoapRequest (src/library/webrtc-connection):*)
(* the client sends CoAP requests as messages on a data channel.  A message*)
(* is handled on libdatachannel's thread: what is wrong with it is answered*)
(* there, and the rest is executed by the SDK as a virtual request, whose  *)
(* future is resolved on a third thread and answered on the event queue.   *)
(* The channel closes when the client closes it, or with the connection,   *)
(* which the device closes, too (WebrtcConnection::stop).                  *)
(*                                                                         *)
(* A request under way holds itself and the channel.  The channel's pointer*)
(* to the data channel is reset when that is closed; to send through it    *)
(* then ends the program, while a send on a channel that was closed but not*)
(* yet reset throws, which sendResponse catches.                           *)
(*                                                                         *)
(* External: the virtual requests of the SDK, and rtc::DataChannel.        *)
(***************************************************************************)
EXTENDS Naturals, Sequences

CONSTANTS Requests  \* the messages the client sends

VARIABLES
    chan,       \* the data channel, and the pointer to it
    req,        \* the requests, by message
    inbox,      \* messages on their way to the device, oldest first
    queue,      \* the lambdas of resolved requests
    sent,       \* responses the client gets
    crashed     \* the program has used the null pointer

vars == <<chan, req, inbox, queue, sent, crashed>>

\* A message is no request, or a request that is refused, since it has no requestId,
\* no path or no known method, or one that can be executed.
Kinds == {"other", "refused", "valid"}

\* Content formats of a payload: the client's, and one that it never sent.
Formats == {"none", "clients", "garbage"}

Reqs == [
    kind : Kinds \cup {"unsent"},
    format : {"missing", "clients"},        \* contentType of the message
    payload : BOOLEAN,
    coap : {"none", "executing", "resolved", "freed"},   \* coap_ and its future
    ok : BOOLEAN,                           \* the SDK's result
    executedAs : Formats]                   \* the content format it was executed with

Responses == [to : Requests, what : {"error", "response"}]

TypeOK ==
    /\ chan \in [open : BOOLEAN, channel : BOOLEAN]
    /\ req \in [Requests -> Reqs]
    /\ inbox \in Seq(Requests)
    /\ queue \in Seq(Requests)
    /\ sent \in Seq(Responses)
    /\ crashed \in BOOLEAN

Init ==
    /\ chan = [open |-> TRUE, channel |-> TRUE]
    /\ req = [r \in Requests |->
                [kind |-> "unsent", format |-> "missing", payload |-> FALSE,
                 coap |-> "none", ok |-> FALSE, executedAs |-> "none"]]
    /\ inbox = <<>> /\ queue = <<>> /\ sent = <<>>
    /\ crashed = FALSE
-----------------------------------------------------------------------------
\* The client.

ClientSends(r) ==
    /\ chan.open
    /\ req[r].kind = "unsent"
    /\ \E kind \in Kinds, format \in {"missing", "clients"}, payload \in BOOLEAN :
        req' = [req EXCEPT ![r].kind = kind, ![r].format = format, ![r].payload = payload]
    /\ inbox' = Append(inbox, r)
    /\ UNCHANGED <<chan, queue, sent, crashed>>

-----------------------------------------------------------------------------
\* The close, by the client or with the connection.
Closes ==
    /\ chan.open
    /\ chan' = [chan EXCEPT !.open = FALSE]
    /\ UNCHANGED <<req, inbox, queue, sent, crashed>>

\* The callback of the closed data channel.  Messages that wait are lost; the first may be
\* in the hands of handleStringMessage, which goes on.
OnClosed ==
    /\ ~chan.open /\ chan.channel
    /\ chan' = [chan EXCEPT !.channel = FALSE]
    /\ inbox' = <<>> \/ (inbox # <<>> /\ inbox' = <<Head(inbox)>>)
    /\ UNCHANGED <<req, queue, sent, crashed>>
-----------------------------------------------------------------------------
\* WebrtcCoapChannel::sendResponse.
SendResponse(r, what) ==
    /\ crashed' = ~chan.channel
    /\ sent' = IF chan.open THEN Append(sent, [to |-> r, what |-> what]) ELSE sent

\* parsePayload: without a contentType the payload is there, and the format with
\* which it is executed is whatever the member held.
ExecutedAs(q) ==
    IF ~q.payload
    THEN {"none"}
    ELSE IF q.format = "missing"
    THEN {"clients", "garbage"}
    ELSE {q.format}

\* Mutant of CreateRequest: a request that was executed is answered as a failure
\* as well.
ExecutedAndRefused(r) ==
    /\ IF req[r].kind = "valid"
       THEN \E format \in ExecutedAs(req[r]) :
                req' = [req EXCEPT ![r].coap = "executing", ![r].executedAs = format]
       ELSE UNCHANGED req
    /\ SendResponse(r, "error")

\* createRequest, and the response when it fails.
CreateRequest(r) ==
    IF req[r].kind = "valid"
    THEN /\ \E format \in ExecutedAs(req[r]) :
                req' = [req EXCEPT ![r].coap = "executing", ![r].executedAs = format]
         /\ UNCHANGED <<sent, crashed>>
    ELSE UNCHANGED req /\ SendResponse(r, "error")

HandleStringMessage ==
    /\ inbox # <<>>
    /\ inbox' = Tail(inbox)
    /\ IF req[Head(inbox)].kind = "other"
       THEN UNCHANGED <<req, sent, crashed>>
       ELSE CreateRequest(Head(inbox))
    /\ UNCHANGED <<chan, queue>>

\* coapCallback, on the thread of the SDK.
CoapCallback(r) ==
    /\ req[r].coap = "executing"
    /\ \E ok \in BOOLEAN :
        req' = [req EXCEPT ![r].coap = "resolved", ![r].ok = ok]
    /\ queue' = Append(queue, r)
    /\ UNCHANGED <<chan, inbox, sent, crashed>>

\* The lambda of coapCallback; a request that failed is dropped.
HandleCoapResponse ==
    /\ queue # <<>>
    /\ queue' = Tail(queue)
    /\ req' = [req EXCEPT ![Head(queue)].coap = "freed"]
    /\ IF req[Head(queue)].ok
       THEN SendResponse(Head(queue), "response")
       ELSE UNCHANGED <<sent, crashed>>
    /\ UNCHANGED <<chan, inbox>>

Next ==
    /\ ~crashed
    /\ \/ \E r \in Requests : ClientSends(r) \/ CoapCallback(r)
       \/ Closes \/ OnClosed
       \/ HandleStringMessage \/ HandleCoapResponse

\* Messages are delivered, requests resolved, and the event queue runs.
Fairness ==
    /\ WF_vars(~crashed /\ HandleStringMessage)
    /\ WF_vars(~crashed /\ HandleCoapResponse)
    /\ \A r \in Requests : WF_vars(~crashed /\ CoapCallback(r))

Spec == Init /\ [][Next]_vars /\ Fairness
-----------------------------------------------------------------------------
Answered(r) == \E i \in 1..Len(sent) : sent[i].to = r

\* A request is answered at most once, whichever threads it passes, and with what
\* became of it: a response only when the SDK had one, an error only when the
\* request was never executed.
AnswersMatch ==
    /\ \A i, j \in 1..Len(sent) : sent[i].to = sent[j].to => i = j
    /\ \A i \in 1..Len(sent) :
        LET q == req[sent[i].to]
        IN  IF sent[i].what = "response" THEN q.ok ELSE q.coap = "none"

\* The pointer is used after it was reset only for a request that was under way when the
\* channel closed, on whichever side: failed requests, messages that are none and those
\* answered before end without.
CrashAfterAClose ==
    crashed =>
        /\ ~chan.open
        /\ \E r \in Requests : req[r].kind \in {"refused", "valid"} /\ ~Answered(r)
                /\ (req[r].coap = "freed" => req[r].ok)

\* A request that reaches the device is answered, unless the SDK fails it, or the
\* channel closes; an error without the requestId that the request did not
\* have counts as an answer.  A virtual request is freed, even of a client that has gone.
RequestsEnd ==
    \A r \in Requests :
        /\ req[r].kind \in Kinds \ {"other"}
             ~> Answered(r) \/ (req[r].coap = "freed" /\ ~req[r].ok) \/ ~chan.open
        /\ req[r].coap = "executing" ~> req[r].coap = "freed" \/ crashed

\* When parsing the payload fails, "there was no payload": a request is executed with
\* a content format only when the client gave one.
FormatsAreTheClients ==
    \A r \in Requests : req[r].executedAs = "none" \/ req[r].format = "clients"
=============================================================================
