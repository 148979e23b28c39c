----------------------------- MODULE DnsServer -----------------------------
(***************************************************************************)
(* The life of a gotun-dns server: ListenAndServe with its two listener    *)
(* goroutines, and Shutdown, next to the handlers of DnsForwarder and the  *)
(* gateway whose ways the queries take.                                    *)
(***************************************************************************)
EXTENDS DnsForwarder

VARIABLES serve,    \* where ListenAndServe is
          sock,     \* sock[net]: the sockets
          loop,     \* loop[net]: serveUDP and serveTCP
          errCh,    \* the channel their results go to
          result,   \* what ListenAndServe returns
          shut      \* Shutdown has cancelled the context

serverVars == << serve, sock, loop, errCh, result, shut >>
vars == << gatewayVars, h, ctx, serverVars >>

Nets == {"udp", "tcp"}

DnsTypeOK ==
  /\ DnsForwarderTypeOK
  /\ serve \in {"start", "bind udp", "bind tcp", "serving", "waiting", "returned"}
  /\ sock \in [Nets -> {"none", "open", "closed"}]
  /\ loop \in [Nets -> {"off", "on", "ended"}]
  /\ errCh \in Seq({"canceled", "closed", "fatal"}) /\ Len(errCh) <= 2
  /\ result \in {"none", "nil", "error"}
  /\ shut \in BOOLEAN

Init ==
  /\ GatewayInit
  /\ h = [c \in Clients |-> Quiet]
  /\ ctx = "live"
  /\ serve = "start"
  /\ sock = [net \in Nets |-> "none"]
  /\ loop = [net \in Nets |-> "off"]
  /\ errCh = << >>
  /\ result = "none"
  /\ shut = FALSE

-----------------------------------------------------------------------------
(* ListenAndServe stores cancel, binds both sockets and starts both loops. *)
StoreCancel ==
  /\ serve = "start" /\ serve' = "bind udp"
  /\ UNCHANGED << sock, loop, result >>

BindUDP ==
  /\ serve = "bind udp"
  /\ \/ sock' = [sock EXCEPT !["udp"] = "open"] /\ serve' = "bind tcp" /\ UNCHANGED result
     \/ serve' = "returned" /\ result' = "error" /\ UNCHANGED sock
  /\ UNCHANGED loop

BindTCP ==
  /\ serve = "bind tcp"
  /\ \/ /\ sock' = [sock EXCEPT !["tcp"] = "open"]
        /\ loop' = [net \in Nets |-> "on"]
        /\ serve' = "serving" /\ UNCHANGED result
     \/ /\ sock' = [sock EXCEPT !["udp"] = "closed"]
        /\ serve' = "returned" /\ result' = "error" /\ UNCHANGED loop

(* The first loop that ends is reported; the context is cancelled and the  *)
(* sockets are closed, which ends the other.                               *)
ReturnFor(err) == IF err \in {"closed", "canceled"} THEN "nil" ELSE "error"

(* Cancelling alone does not reach a loop that is busy.                    *)
FirstErrorLeavesOpen ==
  /\ serve = "serving" /\ errCh # << >>
  /\ result' = ReturnFor(Head(errCh))
  /\ errCh' = Tail(errCh)
  /\ ctx' = "cancelled"
  /\ serve' = "waiting"
  /\ UNCHANGED << sock, loop >>

FirstError ==
  /\ serve = "serving" /\ errCh # << >>
  /\ result' = ReturnFor(Head(errCh))
  /\ errCh' = Tail(errCh)
  /\ ctx' = "cancelled"
  /\ sock' = [net \in Nets |-> "closed"]
  /\ serve' = "waiting"
  /\ UNCHANGED loop

(* Only the loops are waited for.  gotun-dns ends with ListenAndServe, and *)
(* its handlers with it; in a caller that goes on they live out their time. *)
WaitLoops ==
  /\ serve = "waiting"
  /\ \A net \in Nets : loop[net] = "ended"
  /\ serve' = "returned"
  /\ UNCHANGED h \/ h' = [c \in Clients |-> Quiet]
  /\ UNCHANGED << sock, loop, result >>

Listen ==
  /\ \/ (StoreCancel \/ BindUDP \/ BindTCP) /\ UNCHANGED << h, errCh, ctx >>
     \/ FirstError /\ UNCHANGED h
     \/ WaitLoops /\ UNCHANGED << errCh, ctx >>
  /\ UNCHANGED << gatewayVars, shut >>

(* Shutdown: without effect as long as cancel is nil, or when the context  *)
(* is cancelled already.                                                   *)
Shutdown ==
  /\ serve # "start" /\ ctx = "live"
  /\ ctx' = "cancelled" /\ shut' = TRUE
  /\ UNCHANGED << gatewayVars, h, serve, sock, loop, errCh, result >>

-----------------------------------------------------------------------------
(* serveUDP and serveTCP.  A loop looks at the context only when reading   *)
(* or accepting has failed: after a second without a client, on an error,  *)
(* or because the socket was closed.                                       *)
Pending(net) == \E c \in Clients : h[c].st = "sent" /\ h[c].net = net

(* A loop that took the end of the context for the cause of any error.     *)
LoopEndsQuietly(net, err) ==
  /\ loop' = [loop EXCEPT ![net] = "ended"]
  /\ errCh' = Append(errCh, "canceled")

(* A loop that reports an error and goes on.                               *)
LoopReports(net, err) == errCh' = Append(errCh, err) /\ UNCHANGED loop

LoopEnds(net, err) ==
  /\ loop' = [loop EXCEPT ![net] = "ended"]
  /\ errCh' = Append(errCh, IF ctx = "cancelled" THEN "canceled" ELSE err)

Accept(c) ==
  LET net == h[c].net
  IN /\ loop[net] = "on" /\ sock[net] = "open"
     /\ h[c].st = "sent"
     /\ h' = IF net = "udp" THEN Received(c) ELSE [h EXCEPT ![c].st = "read"]
     /\ UNCHANGED << gatewayVars, ctx, serverVars >>

(* A deadline that passes without a client; the loop goes on if the        *)
(* context is live.                                                        *)
DeadlineIgnored(net) ==
  /\ loop[net] = "on" /\ sock[net] = "open" /\ ~Pending(net)
  /\ UNCHANGED << loop, errCh >>

DeadlinePasses(net) ==
  /\ loop[net] = "on" /\ sock[net] = "open" /\ ~Pending(net)
  /\ ctx = "cancelled"
  /\ LoopEnds(net, "canceled")

SocketClosed(net) ==
  /\ loop[net] = "on" /\ sock[net] = "closed"
  /\ LoopEnds(net, "closed")

AcceptFails(net) ==
  /\ loop[net] = "on" /\ sock[net] = "open"
  /\ LoopEnds(net, "fatal")

LoopStep(net) ==
  /\ DeadlinePasses(net) \/ SocketClosed(net) \/ AcceptFails(net)
  /\ UNCHANGED << gatewayVars, h, ctx, serve, sock, result, shut >>

(* A client asks.  What is sent to a socket that is not open is lost, and  *)
(* so is what is not read before the socket is closed.                     *)
Ask(c) ==
  /\ \E net \in Nets : sock[net] = "open" /\ Send(c, net)
  /\ UNCHANGED << gatewayVars, serverVars >>

Unheard(c) ==
  /\ h[c].st = "sent"
  /\ sock[h[c].net] = "closed"
  /\ Finish(c)
  /\ UNCHANGED << gatewayVars, ctx, serverVars >>

-----------------------------------------------------------------------------
HandlerStep(c) ==
  /\ ReadExpires(c) \/ ProcessQuery(c) \/ ExchangeExpires(c)
        \/ WriteReply(c)
  /\ UNCHANGED << gatewayVars, serverVars >>

NetworkStep(c) ==
  /\ ReadQuery(c) \/ UpstreamAnswers(c) \/ UpstreamTruncates(c)
  /\ UNCHANGED << gatewayVars, serverVars >>

TimePasses == Tick /\ UNCHANGED << gatewayVars, serverVars >>

GatewayStep == GatewayNext /\ UNCHANGED << h, ctx, serverVars >>

Next ==
  \/ Listen \/ Shutdown \/ TimePasses \/ GatewayStep
  \/ \E net \in Nets : LoopStep(net)
  \/ \E c \in Clients : Ask(c) \/ Accept(c) \/ Unheard(c) \/ HandlerStep(c) \/ NetworkStep(c)

Spec == Init /\ [][Next]_vars

(* Goroutines that can go on do, and time passes however busy they are.    *)
(* Clients, upstreams, the gateway and the caller of Shutdown do what they *)
(* like.                                                                   *)
FairSpec ==
  /\ Spec
  /\ WF_vars(Listen) /\ SF_vars(TimePasses)
  /\ \A net \in Nets :
       WF_vars((DeadlinePasses(net) \/ SocketClosed(net))
                 /\ UNCHANGED << gatewayVars, h, ctx, serve, sock, result, shut >>)
  /\ \A c \in Clients : WF_vars(Accept(c) \/ Unheard(c) \/ HandlerStep(c))

-----------------------------------------------------------------------------
(* A reply is about the question its client asked, however many datagrams  *)
(* have gone through the one buffer in the meantime.                       *)
ReplyMatchesQuery ==
  \A c \in Clients : At(c, "reply") =>
     /\ h[c].out.name = h[c].ask.name
     /\ h[c].out.rcode = "formerr" <=> h[c].ask.form = "multi"

(* The resolver of a name sees the source its path stands for: the uplink  *)
(* for a direct name, and the exit for every other one, first attempt or   *)
(* retry, whenever the gateway had promised it.                            *)
GeoEgressIdentity ==
  \A c \in Clients : Waiting(c) =>
     h[c].src \in IF Classify(h[c].ask.name) = "direct" THEN {"isp"}
                                                        ELSE {"wg-exit", "unguarded"}

(* A TCP client that sent its query at once, and whose answer was not      *)
(* truncated, gets its reply before the deadline of its connection, even   *)
(* SERVFAIL after an exchange that has used up Timeout.                    *)
PromptClientAnswered ==
  \A c \in Clients :
     (At(c, "reply") /\ h[c].net = "tcp" /\ ~h[c].late) => h[c].age < ClientDeadline

(* No handler that has its query, not even one whose server was shut down, *)
(* outlives the deadline of its client and two exchanges.                  *)
HandlerBounded == \A c \in Clients : ~At(c, "read") => h[c].age <= LongestRun(h[c].net)

(* ListenAndServe returns without an error only if Shutdown was called.    *)
NoSilentExit == result = "nil" => shut

(* Every query that is accepted is dealt with, and every connection ends,  *)
(* also one whose client stays silent.                                     *)
HandlerEnds == \A c \in Clients : InHandler(c) ~> At(c, "quiet")

(* After Shutdown the server returns, unless both sockets are kept busy    *)
(* for ever: then neither loop looks at the context.                       *)
ShutdownStops ==
  \/ []<>Pending("udp") /\ []<>Pending("tcp")
  \/ shut ~> serve = "returned"

(* After Shutdown the server returns, however much it is asked.            *)
ShutdownReturns == shut ~> serve = "returned"

(* When one listener has ended the other does, and the server returns.     *)
OneDownAllDown == (\E net \in Nets : loop[net] = "ended") ~> (serve = "returned")
=============================================================================
