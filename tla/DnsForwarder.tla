---------------------------- MODULE DnsForwarder ----------------------------
(***************************************************************************)
(* The queries gotun-dns handles, each in a goroutine of its own: reading  *)
(* a query, choosing its path (SuffixClassifier), the exchange over UDP    *)
(* and, after a truncated reply, over TCP (Forwarder.Forward), and the     *)
(* reply.  A packet takes the way the gateway has for it, see Gateway.     *)
(*                                                                         *)
(* Time is counted in seconds.  It passes only while a handler waits for   *)
(* the network: what it computes itself takes none.  A name is the         *)
(* sequence of its labels, in the form dnsutil.Canonical gives them.       *)
(***************************************************************************)
EXTENDS Naturals, Sequences, Gateway

CONSTANTS Clients,          \* the queries that may be in flight at once
          Asks,             \* Asks[c]: what client c asks, over which transport
          Names,            \* names asked for
          DirectSuffixes,   \* SuffixClassifier.DirectSuffixes
          Configured,       \* the paths that have an upstream address
          Mark,             \* -mark, the SO_MARK of the exit dialer
          GatewayMark,      \* the mark the ip rule of the gateway looks for
          Timeout,          \* Forwarder.Timeout
          Grace             \* what a TCP client is given on top of Timeout

Paths    == {"direct", "exit"}
NoName   == CHOOSE n \in Names : TRUE
Messages == [form: {"garbage", "multi"}, name: {NoName}] \cup [form: {"query"}, name: Names]

ASSUME DnsAssumption ==
  /\ Asks \in [Clients -> SUBSET (Messages \X {"udp", "tcp"})]
  /\ Names \subseteq Seq(STRING) /\ Names # {}
  /\ DirectSuffixes \subseteq Seq(STRING)
  /\ Configured \subseteq Paths
  /\ Mark \in Nat /\ GatewayMark \in Nat
  /\ Timeout \in Nat \ {0} /\ Grace \in Nat \ {0}

VARIABLES h,      \* h[c]: the handler of client c
          ctx     \* the context of the server: live or cancelled

(* The deadline of a TCP client, which leaves time for the reply after an  *)
(* exchange that has taken all of its own, and a bound no handler outlives.*)
WithoutGrace == Timeout

ClientDeadline == Timeout + Grace
LongestRun(net) == 2 * Timeout + (IF net = "tcp" THEN ClientDeadline ELSE 0)

Handler == [st: {"quiet", "sent", "read", "query", "udp", "tcp", "reply"},
            net: {"udp", "tcp"},       \* how the client asks
            ask: Messages,             \* what it asks
            raw: Messages,             \* what the handler works on
            age: Nat,                  \* time since the query was accepted
            spent: 0 .. Timeout,       \* time spent in the exchange
            late: BOOLEAN,             \* the client was slow, or TCP was tried
            src: Ways \cup {"none", "unguarded"},           \* way of the exchange
            out: [rcode: {"none", "answer", "servfail", "formerr"}, name: Names]]

NoMessage == [form |-> "garbage", name |-> NoName]
Nothing == [rcode |-> "none", name |-> NoName]

Quiet == [st |-> "quiet", net |-> "udp", ask |-> NoMessage, raw |-> NoMessage,
          age |-> 0, spent |-> 0, late |-> FALSE, src |-> "none", out |-> Nothing]

DnsForwarderTypeOK ==
  /\ h \in [Clients -> Handler]
  /\ ctx \in {"live", "cancelled"}

-----------------------------------------------------------------------------
(* SuffixClassifier.Classify: a name that equals a suffix or ends with it. *)
HasSuffix(name, suf) ==
  /\ Len(suf) <= Len(name)
  /\ SubSeq(name, Len(name) - Len(suf) + 1, Len(name)) = suf

Classify(name) ==
  IF \E suf \in DirectSuffixes : HasSuffix(name, suf) THEN "direct" ELSE "exit"

(* NewDirectDialer and NewExitDialer: the mark a packet of a path carries. *)
(* For the gateway a packet of its own is one to the resolver of that path *)
(* with or without the mark its ip rule looks for, and has a way of its    *)
(* own.  What goes to the direct resolver without a mark is plain.         *)
SOMark(path) == IF path = "exit" THEN Mark ELSE 0

Sent(path) == << path, SOMark(path) = GatewayMark /\ GatewayMark # 0 >>

Resolver == << "exit", TRUE >>

ASSUME SentAssumption ==
  /\ Resolver \in Destinations
  /\ \A path \in Paths : Sent(path) \in Destinations
  /\ << "direct", FALSE >> \in Plain

Way(path) == route[Sent(path)]

(* The way an exchange is remembered by: whether a promise of the gateway  *)
(* was in force when it was dialled.                                       *)
Source(path) ==
  IF path = "exit" /\ Resolver \notin promise THEN "unguarded" ELSE Way(path)

-----------------------------------------------------------------------------
At(c, st) == h[c].st = st

Finish(c) == h' = [h EXCEPT ![c] = Quiet]

(* serveUDP reads every datagram into one buffer, and gives a handler a    *)
(* copy of it.  A slice of the buffer would show the handlers that are     *)
(* still at work whatever was received last.                               *)
ReceivedInPlace(c) ==
  [d \in Clients |-> IF d = c THEN [h[c] EXCEPT !.st = "query", !.raw = h[c].ask]
                     ELSE IF h[d].net = "udp" THEN [h[d] EXCEPT !.raw = h[c].ask] ELSE h[d]]

Received(c) == [h EXCEPT ![c].st = "query", ![c].raw = h[c].ask]

Answer(c, rcode) ==
  h' = [h EXCEPT ![c].st = "reply", ![c].spent = 0, ![c].src = "none",
                 ![c].out = [rcode |-> rcode, name |-> h[c].raw.name]]

Path(c) == Classify(h[c].raw.name)

(* Dialling fails at once when the gateway drops the packets, and may fail *)
(* for want of the capability SO_MARK needs.                               *)
DialFails(path) == Way(path) \in {"blackhole", "unreachable"} \/ path = "exit"

Dial(c, net) ==
  /\ Way(Path(c)) \notin {"blackhole", "unreachable"}
  /\ h' = [h EXCEPT ![c].st = net, ![c].spent = 0, ![c].src = Source(Path(c)),
                    ![c].late = @ \/ net = "tcp"]

(* A client asks.                                                          *)
Send(c, net) ==
  /\ At(c, "quiet")
  /\ \E m \in Messages : << m, net >> \in Asks[c] /\
       h' = [h EXCEPT ![c].st = "sent", ![c].net = net, ![c].ask = m]
  /\ UNCHANGED ctx

(* handleTCP: the query comes in before the deadline, or the client closes *)
(* the connection, sends a length of zero, or is too late.                 *)
ReadQuery(c) ==
  /\ At(c, "read")
  /\ h[c].age < ClientDeadline
  /\ \/ h' = [h EXCEPT ![c].st = "query", ![c].raw = h[c].ask, ![c].late = h[c].age > 0]
     \/ Finish(c)
  /\ UNCHANGED ctx

(* Without a deadline a connection could stay open and silent for ever.    *)
NeverOverdue(c) == FALSE

Overdue(c) == At(c, "read") /\ h[c].age >= ClientDeadline

ReadExpires(c) ==
  /\ Overdue(c)
  /\ Finish(c)
  /\ UNCHANGED ctx

(* processQuery up to the first exchange of Forward.                       *)
ProcessQuery(c) ==
  LET path == Path(c)
  IN /\ At(c, "query")
     /\ \/ h[c].raw.form = "garbage" /\ Finish(c)
        \/ h[c].raw.form = "multi" /\ Answer(c, "formerr")
        \/ /\ h[c].raw.form = "query"
           /\ path \notin Configured \/ ctx = "cancelled" \/ DialFails(path)
           /\ Answer(c, "servfail")
        \/ /\ h[c].raw.form = "query" /\ path \in Configured /\ ctx = "live"
           /\ Dial(c, "udp")
     /\ UNCHANGED ctx

(* The retry over TCP is dialled for the same path.  Its context is not    *)
(* the server's any more, but has a timeout of its own.                    *)
RetryUnmarked(c) ==
  h' = [h EXCEPT ![c].st = "tcp", ![c].spent = 0, ![c].src = Way("direct"), ![c].late = TRUE]

Retry(c) ==
  \/ Dial(c, "tcp")
  \/ DialFails(Path(c)) /\ Answer(c, "servfail")

Waiting(c) == At(c, "udp") \/ At(c, "tcp")

(* Upstream answers, or the exchange fails or gives no usable reply.       *)
UpstreamAnswers(c) ==
  /\ Waiting(c) /\ h[c].spent < Timeout
  /\ \E rcode \in {"answer", "servfail"} : Answer(c, rcode)
  /\ UNCHANGED ctx

UpstreamTruncates(c) ==
  /\ At(c, "udp") /\ h[c].spent < Timeout
  /\ Retry(c)
  /\ UNCHANGED ctx

(* Forward gives each exchange its timeout, not only the first.            *)
ExpiredOverUDP(c) == At(c, "udp") /\ h[c].spent = Timeout

Expired(c) == Waiting(c) /\ h[c].spent = Timeout

ExchangeExpires(c) ==
  /\ Expired(c)
  /\ Answer(c, "servfail")
  /\ UNCHANGED ctx

(* The reply is written.  That it may not arrive - after the deadline of a *)
(* TCP client, on a closed socket, an answer that came over TCP and is too *)
(* long for a datagram - is not looked at.                                 *)
WriteReply(c) ==
  /\ At(c, "reply")
  /\ Finish(c)
  /\ UNCHANGED ctx

(* A second passes.  Nothing that is due is put off.                       *)
Due(c) == At(c, "query") \/ At(c, "reply") \/ Overdue(c) \/ Expired(c)

InHandler(c) == ~At(c, "quiet") /\ ~At(c, "sent")

Tick ==
  /\ \E c \in Clients : InHandler(c)
  /\ \A c \in Clients : ~Due(c)
  /\ h' = [c \in Clients |->
             IF InHandler(c)
             THEN [h[c] EXCEPT !.age = IF @ <= LongestRun(h[c].net) THEN @ + 1 ELSE @,
                               !.spent = IF Waiting(c) /\ @ < Timeout THEN @ + 1 ELSE @]
             ELSE h[c]]
  /\ UNCHANGED ctx
=============================================================================
