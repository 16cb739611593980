---------------------------- MODULE DemoDownload ----------------------------
(***************************************************************************)
(* The stream on which the demo lets a file be downloaded                  *)
(* (src/examples/webrtc-demo/nabto_device.cpp).  A download runs by turns  *)
(* on the event queue, which reads and writes a block, and the SDK's       *)
(* thread, which resolves fileStreamFut_.  These are its parts;            *)
(* DemoRequests runs them beside what else is on that queue.               *)
(*                                                                         *)
(* External: the streams of the SDK.                                       *)
(***************************************************************************)
EXTENDS Naturals, Sequences

CONSTANTS
    Files,          \* streams that clients open for the file
    None,
    Blocks,         \* reads until the end of the file
    FileExists      \* nabto.png is there

VARIABLES
    lambdas,    \* what waits on the event queue
    app,        \* fileStream_, fileStreamFut_ and inputFile_
    stream,     \* by stream, what became of it
    sent        \* by stream, the blocks that were written

files == <<app, stream, sent>>
-----------------------------------------------------------------------------
\* A call of the SDK that is to resolve fileStreamFut_.
Call(fut) == [app EXCEPT !.fut = fut, !.clash = @ \/ app.fut # "idle"]

\* Mutant of FileStream: a second stream is taken beside the first.
TakesAnother(f) ==
    /\ app' = [Call("accept") EXCEPT !.stream = f]
    /\ stream' = [stream EXCEPT ![f] = "open"]
    /\ UNCHANGED sent

\* The callback of the listener; IAM may reject the stream.
FileStream(f) ==
    /\ \/ /\ app.stream = None
          /\ app' = [Call("accept") EXCEPT !.stream = f]
          /\ stream' = [stream EXCEPT ![f] = "open"]
       \/ /\ stream' = [stream EXCEPT ![f] = "freed"]
          /\ UNCHANGED app
    /\ UNCHANGED sent

\* doStreamFile; a file that is not there has no end.
DoStreamFile(left) ==
    /\ app' = IF left > 0
              THEN [Call("write") EXCEPT !.left = IF FileExists THEN left - 1 ELSE left]
              ELSE [Call("close") EXCEPT !.left = 0]
    /\ sent' = IF left > 0 /\ FileExists THEN [sent EXCEPT ![app.stream] = @ + 1] ELSE sent
    /\ UNCHANGED stream

\* The lambdas of a call that failed, which forget the stream and do not free it.
DropStream ==
    /\ stream' = [stream EXCEPT ![app.stream] = "left"]
    /\ app' = [app EXCEPT !.stream = None]
    /\ UNCHANGED sent

Next1(what) == lambdas' = Append(lambdas, [what |-> what])

\* Mutant of StreamAccepted: nothing is posted for a stream that was accepted.
AcceptForgotten(ok) == IF ok THEN UNCHANGED lambdas ELSE Next1("drop")

\* fileStreamAccepted and writeFileStreamCb, on the SDK's thread.
StreamAccepted(ok) == Next1(IF ok THEN "first" ELSE "drop")
Wrote(ok) == Next1(IF ok THEN "next" ELSE "drop")

\* closeFileStreamCb: the stream that was closed is freed and fileStream_ is kept.
Closed(ok) ==
    /\ IF ok THEN UNCHANGED lambdas ELSE Next1("drop")
    /\ stream' = IF ok THEN [stream EXCEPT ![app.stream] = "freed"] ELSE stream
-----------------------------------------------------------------------------
\* Of the streams one is served at a time: the future of the download is used again
\* only when it was resolved, a call or a lambda of it finds its stream open, and a
\* stream that was closed has had the whole file.
Turns == {i \in 1..Len(lambdas) : lambdas[i].what \in {"first", "next", "drop"}}
DownloadIsWhole ==
    /\ ~app.clash
    /\ app.fut # "idle" \/ Turns # {} =>
        app.stream # None /\ stream[app.stream] = "open"
    /\ app.fut # "idle" => Turns = {}
    /\ \A i, j \in Turns : i = j
    /\ \A f \in Files : stream[f] = "freed" => sent[f] \in {0, Blocks}

\* "if we don't already have an open file stream": a stream is refused only while
\* another one is open, or by IAM.
NextDownload ==
    app.stream # None => stream[app.stream] = "open"
=============================================================================
