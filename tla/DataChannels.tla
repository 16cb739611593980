---------------------------- MODULE DataChannels ----------------------------
(***************************************************************************)
(* The data channels of a WebRTC connection: handleDatachannelEvent of     *)
(* src/library/webrtc-connection/webrtc_connection.cpp looks at the label  *)
(* of a channel that the client opened, and makes it a stream channel, a   *)
(* CoAP channel or one of the application.  The three share nothing but    *)
(* the connection and the virtual Nabto connection, so that a behaviour    *)
(* here is one of channels of one kind.                                    *)
(***************************************************************************)
EXTENDS StreamChannel

CONSTANTS
    Requests,       \* the messages of a client on a CoAP channel
    MaxMessages     \* bound on those on a channel of the application

ASSUME MessagesAssumption == MaxMessages \in Nat

VARIABLES
    label,                                      \* the kind of label
    coapChan, req, inbox, coapQueue, responses, coapCrashed,
    open, closed, channel, cb, messages, next, handling, echoed, appCrashed

Coap == INSTANCE CoapChannel WITH
            chan <- coapChan, queue <- coapQueue, sent <- responses, crashed <- coapCrashed
App == INSTANCE AppChannel WITH inbox <- messages, crashed <- appCrashed

coapVars == <<coapChan, req, inbox, coapQueue, responses, coapCrashed>>
appVars == <<open, closed, channel, cb, messages, next, handling, echoed, appCrashed>>
channelVars == <<label, vars, coapVars, appVars>>

ChannelsInit == label \in {"stream", "coap", "other"} /\ Init /\ Coap!Init /\ App!Init

OfStream == label = "stream" /\ UNCHANGED <<label, coapVars, appVars>>
OfCoap == label = "coap" /\ UNCHANGED <<label, vars, appVars>>
OfApp == label = "other" /\ UNCHANGED <<label, vars, coapVars>>

ChannelsNext == (Next /\ OfStream) \/ (Coap!Next /\ OfCoap) \/ (App!Next /\ OfApp)

\* The event queue runs, the SDK resolves what was started, and libdatachannel delivers.
ChannelsFairness ==
    /\ WF_channelVars(crashed = "no" /\ EventLoop /\ OfStream)
    /\ \A d \in Channels : WF_channelVars(crashed = "no" /\ SDK(d) /\ OfStream)
    /\ WF_channelVars(~coapCrashed /\ Coap!HandleStringMessage /\ OfCoap)
    /\ WF_channelVars(~coapCrashed /\ Coap!HandleCoapResponse /\ OfCoap)
    /\ \A r \in Requests : WF_channelVars(~coapCrashed /\ Coap!CoapCallback(r) /\ OfCoap)
    /\ WF_channelVars(appCrashed = "no" /\ (App!OnMessage \/ App!SendMessage) /\ OfApp)

ChannelsSpec == ChannelsInit /\ [][ChannelsNext]_channelVars /\ ChannelsFairness
-----------------------------------------------------------------------------
TypesOK == TypeOK /\ Coap!TypeOK /\ App!TypeOK

\* A request on the CoAP channel is answered at most once, whichever threads it passes,
\* with what became of it, and messages to the application are echoed in their order.
AnswersMatch == Coap!AnswersMatch /\ App!EchoesAreInOrder

\* A channel that is gone is used (webrtc_stream_channel.cpp:71, :83,
\* webrtc_coap_channel.cpp:245, datachannel_impl.hpp:27) only when the channel or the
\* connection was closed, by the client or by the device, and then only for a transfer
\* that has not failed, a request that was not answered, or a message of the application
\* whose connection is closed; the end of a stream, a failure and a second channel
\* never get there.  The variables keep their types.
CrashNeedsAClose ==
    TypesOK /\ CrashAfterAClose /\ Coap!CrashAfterAClose /\ App!CrashAfterAClose

\* A stream that is not interrupted comes to its end and the client sees it; a request
\* that reaches the device is answered, or the SDK failed it, and is freed; and a
\* message to the application is echoed.
TransfersEnd == TransferEnds /\ Coap!RequestsEnd /\ App!MessagesAreEchoed

\* What a comment of webrtc_coap_channel.cpp says, and the code does not do: see the
\* README.
FormatsAreTheClients == Coap!FormatsAreTheClients
=============================================================================
