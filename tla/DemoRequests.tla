---------------------------- MODULE DemoRequests ----------------------------
(***************************************************************************)
(* What the demo does for its clients on its own account                   *)
(* (src/examples/webrtc-demo/nabto_device.cpp, oauth_validator.hpp): the   *)
(* stream on which a file can be downloaded, the CoAP requests that prove  *)
(* the device's identity, and those that log a user in with a token.  The  *)
(* listeners (DemoDevice) post each as a lambda to the event queue.        *)
(*                                                                         *)
(* The steps of a download are those of DemoDownload.  A token is          *)
(* validated on the thread of a CurlAsync (src/modules/util), made for it, *)
(* which also answers the request; asyncInvoke() assigns thread_ when that *)
(* thread already runs.                                                    *)
(*                                                                         *)
(* External: streams and requests of the SDK, libcurl, jwt-cpp, OpenSSL.   *)
(***************************************************************************)
EXTENDS DemoDownload

CONSTANTS
    Requests,       \* CoAP requests
    ShortKey        \* a coordinate of the public key has a leading zero byte

ASSUME FileAssumption ==
    /\ None \notin Files \cup Requests
    /\ Blocks \in Nat \ {0} /\ FileExists \in BOOLEAN /\ ShortKey \in BOOLEAN

VARIABLES
    req,        \* the requests
    invoking,   \* the request whose asyncInvoke() the event queue is in
    crashed     \* the program was ended

vars == <<lambdas, files, req, invoking, crashed>>

\* A token, by what keeps it from being good: it cannot be parsed, names no key of the
\* server, or one that does not say its type, of which parts are missing or whose type is
\* not allowed, does not say its algorithm, is not signed for this device, or has no
\* subject.
Tokens == {"good", "malformed", "unknownKey", "untypedKey", "partialKey", "otherKey",
           "noAlgorithm", "unverified", "noSubject"}

Codes == {201, 205, 400, 401, 404, 500}

Reqs == [
    kind : {"none", "oauth", "challenge"},
    at : {"none", "queued", "performing", "silent", "performed", "called", "ended"},
    token : Tokens,             \* what is found of its token,
    fetched : BOOLEAN,          \* of the keys of the server,
    known : BOOLEAN,            \* and of its user and connection
    assigned : BOOLEAN,         \* thread_ of its CurlAsync
    answers : Seq(Codes), frees : Nat, proof : {"none", "good", "garbled"}]

TypeOK ==
    /\ lambdas \in Seq([what : {"coap"}, of : Requests] \cup [what : {"file"}, of : Files]
                       \cup {[what |-> "first"], [what |-> "next"], [what |-> "drop"]})
    /\ app \in [stream : Files \cup {None}, left : 0..Blocks, clash : BOOLEAN,
                fut : {"idle", "accept", "write", "close"}]
    /\ stream \in [Files -> {"none", "offered", "open", "freed", "left"}]
    /\ sent \in [Files -> 0..Blocks]
    /\ req \in [Requests -> Reqs]
    /\ invoking \in Requests \cup {None} /\ crashed \in BOOLEAN

Init ==
    /\ lambdas = <<>>
    /\ app = [stream |-> None, left |-> 0, clash |-> FALSE, fut |-> "idle"]
    /\ stream = [f \in Files |-> "none"] /\ sent = [f \in Files |-> 0]
    /\ req = [r \in Requests |->
                [kind |-> "none", at |-> "none", token |-> "good", fetched |-> FALSE,
                 known |-> FALSE, assigned |-> FALSE,
                 answers |-> <<>>, frees |-> 0, proof |-> "none"]]
    /\ invoking = None /\ crashed = FALSE
-----------------------------------------------------------------------------
\* The file.

StreamOpens(f) ==
    /\ stream[f] = "none"
    /\ stream' = [stream EXCEPT ![f] = "offered"]
    /\ lambdas' = Append(lambdas, [what |-> "file", of |-> f])
    /\ UNCHANGED <<app, sent, req, invoking, crashed>>

Resolves ==
    /\ app.fut # "idle"
    /\ app' = [app EXCEPT !.fut = "idle"]
    /\ \E ok \in BOOLEAN :
        \/ app.fut = "accept" /\ StreamAccepted(ok) /\ UNCHANGED stream
        \/ app.fut = "write" /\ Wrote(ok) /\ UNCHANGED stream
        \/ app.fut = "close" /\ Closed(ok)
    /\ UNCHANGED <<sent, req, invoking, crashed>>
-----------------------------------------------------------------------------
\* The requests.

RequestArrives(r) ==
    /\ req[r].at = "none"
    /\ \E kind \in {"oauth", "challenge"} :
        req' = [req EXCEPT ![r].at = "queued", ![r].kind = kind]
    /\ lambdas' = Append(lambdas, [what |-> "coap", of |-> r])
    /\ UNCHANGED <<files, invoking, crashed>>

\* A response and the end of the request.
Answer(q, code) ==
    [q EXCEPT !.answers = Append(@, code), !.frees = @ + 1]

\* handleOauthRequest: the content format or the payload is wrong, or the CurlAsync
\* cannot be set up, or its thread is started.
HandleOauth(r) ==
    \/ \E code \in {400, 500} :
        req' = [req EXCEPT ![r] = Answer(@, code)] /\ UNCHANGED invoking
    \/ req' = [req EXCEPT ![r].at = "performing"] /\ invoking' = r

\* createChallengeResponse copies the coordinates without their leading zeros into a
\* buffer of their full length, whose end it does not set.
ChallengeResponse == IF ShortKey THEN "garbled" ELSE "good"

\* handleChallengeRequest: the content format, the payload or the connection is wrong,
\* or there is a response.
HandleChallenge(r) ==
    /\ \/ req' = [req EXCEPT ![r] = Answer(@, 400)]
       \/ req' = [req EXCEPT ![r] = [Answer(@, 205) EXCEPT !.proof = ChallengeResponse]]
    /\ UNCHANGED invoking

\* The statement of asyncInvoke() that started the thread.
ThreadAssigned ==
    /\ invoking # None
    /\ req' = [req EXCEPT ![invoking].assigned = TRUE]
    /\ invoking' = None
    /\ UNCHANGED <<lambdas, files, crashed>>

\* threadRunner: the request to the server, which may fail, or be silent; no timeout is
\* set.
Performs(r) ==
    /\ req[r].at = "performing"
    /\ \/ \E fetched \in BOOLEAN, token \in Tokens :
            req' = [req EXCEPT ![r].at = "performed", ![r].fetched = fetched,
                               ![r].token = token]
       \/ req' = [req EXCEPT ![r].at = "silent"]
    /\ UNCHANGED <<lambdas, files, invoking, crashed>>

\* keyToRsa and keyToEcdsa: without a key the verifier allows no algorithm.
Verifies(token) == token \notin {"partialKey", "otherKey", "unverified"}

\* validateToken: a token whose key the server does not have, or that names none, and a
\* key or a token without its type or algorithm make a lookup throw what nobody catches.
Verdict(q) ==
    IF ~q.fetched \/ q.token = "malformed" THEN "invalid"
    ELSE IF q.token \in {"unknownKey", "untypedKey", "noAlgorithm"} THEN "escapes"
    ELSE IF Verifies(q.token) /\ q.token # "noSubject" THEN "valid" ELSE "invalid"

\* The callback of handleOauthRequest.
Respond(q) ==
    IF Verdict(q) = "valid" THEN Answer(q, IF q.known THEN 201 ELSE 404) ELSE Answer(q, 401)

CallsBack(r) ==
    /\ req[r].at = "performed"
    /\ IF Verdict(req[r]) = "escapes"
       THEN crashed' = TRUE /\ UNCHANGED req
       ELSE /\ \E known \in BOOLEAN :
                req' = [req EXCEPT ![r] =
                        Respond([@ EXCEPT !.known = known, !.at = "called"])]
            /\ UNCHANGED crashed
    /\ UNCHANGED <<lambdas, files, invoking>>

\* The thread detaches itself and lets its object go; one that was not assigned yet
\* cannot be detached, which throws.
Detaches(r) ==
    /\ req[r].at = "called"
    /\ req' = [req EXCEPT ![r].at = "ended"]
    /\ crashed' = ~req[r].assigned
    /\ UNCHANGED <<lambdas, files, invoking>>
-----------------------------------------------------------------------------
RunsEvent ==
    /\ lambdas # <<>> /\ invoking = None
    /\ lambdas' = Tail(lambdas)
    /\ LET event == Head(lambdas)
       IN  \/ event.what = "coap" /\ req[event.of].kind = "oauth" /\ HandleOauth(event.of)
               /\ UNCHANGED files
           \/ event.what = "coap" /\ req[event.of].kind = "challenge"
               /\ HandleChallenge(event.of) /\ UNCHANGED files
           \/ event.what = "file" /\ FileStream(event.of) /\ UNCHANGED <<req, invoking>>
           \/ event.what = "first" /\ DoStreamFile(Blocks) /\ UNCHANGED <<req, invoking>>
           \/ event.what = "next" /\ DoStreamFile(app.left) /\ UNCHANGED <<req, invoking>>
           \/ event.what = "drop" /\ DropStream /\ UNCHANGED <<req, invoking>>
    /\ UNCHANGED crashed

Worker(r) == Performs(r) \/ CallsBack(r) \/ Detaches(r)

Next ==
    /\ ~crashed
    /\ \/ \E f \in Files : StreamOpens(f)
       \/ \E r \in Requests : RequestArrives(r) \/ Worker(r)
       \/ Resolves \/ RunsEvent \/ ThreadAssigned

\* The three kinds of threads run; nothing is assumed of the server.
Fairness ==
    /\ WF_vars(~crashed /\ Resolves)
    /\ WF_vars(~crashed /\ (RunsEvent \/ ThreadAssigned))
    /\ \A r \in Requests : WF_vars(~crashed /\ Worker(r))

Spec == Init /\ [][Next]_vars /\ Fairness
-----------------------------------------------------------------------------
\* A request is answered once and then freed, whichever thread does it.  It is a login
\* exactly when the keys were fetched, the token is good and the user is known, and the
\* user hears of it.
AnsweredOnce ==
    \A r \in Requests :
        LET q == req[r]
        IN  /\ Len(q.answers) = q.frees /\ q.frees <= 1
            /\ q.answers = <<201>> <=>
                /\ q.at \in {"called", "ended"}
                /\ q.known /\ Verdict(q) = "valid"
            /\ q.at \in {"called", "ended"} => q.answers # <<>>

\* A request that arrived is answered, unless its server is silent, and a download that
\* was begun ends, unless the program was ended.
RequestsEnd ==
    /\ \A r \in Requests :
        req[r].at = "queued" ~> req[r].frees > 0 \/ req[r].at = "silent" \/ crashed
    /\ \A f \in Files :
        stream[f] = "offered" ~> stream[f] \in {"freed", "left"} \/ crashed

\* Every request gets its one answer: both of these (nabto_device.cpp:461).  The
\* variables keep their types.
RequestsAreAnswered == [](TypeOK /\ AnsweredOnce) /\ RequestsEnd

\* Only a token that cannot be judged ends the program (oauth_validator.hpp:66).  It does
\* not hold: a CurlAsync that ends before its thread_ is assigned cannot detach (util.cpp:91).
LoginsEndNothing ==
    crashed => \E r \in Requests : req[r].fetched /\ Verdict(req[r]) = "escapes"

\* Every login is answered; one whose server is silent is not.
LoginsAreAnswered ==
    \A r \in Requests : req[r].at = "queued" ~> req[r].frees > 0 \/ crashed

\* The response to a challenge can be verified with the key that it names.
ChallengeIsProof == \A r \in Requests : req[r].proof # "garbled"
=============================================================================
