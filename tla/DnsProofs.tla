----------------------------- MODULE DnsProofs -----------------------------
(***************************************************************************)
(* Theorems about gotun-dns, for any number of queries in flight, every    *)
(* set of names and suffixes, and every Timeout and Grace: the invariants  *)
(* of DnsServer.                                                           *)
(***************************************************************************)
EXTENDS DnsServer, TLAPS, SequenceTheorems

(* When the query may at the latest have come in: at once over UDP, before *)
(* the deadline of the connection over TCP.                                *)
Opened(net) == IF net = "tcp" THEN ClientDeadline ELSE 0

(* What holds of a handler r, wherever it is.                              *)
Works(r) == r.st \in {"query", "udp", "tcp", "reply"}

HandlerMessage(r) ==
  /\ Works(r) => r.raw = r.ask
  /\ r.st \in {"udp", "tcp"} => r.raw.form = "query"
  /\ r.st = "reply" => /\ r.out.name = r.ask.name
                       /\ r.out.rcode = "formerr" <=> r.ask.form = "multi"

HandlerTime(r) ==
  /\ r.st \in {"quiet", "sent"} => r.age = 0
  /\ r.st = "read" => r.net = "tcp" /\ r.age <= ClientDeadline
  /\ r.st = "query" => r.age <= Opened(r.net)
  /\ r.st = "udp" => r.age <= Opened(r.net) + r.spent
  /\ r.st = "tcp" => r.age <= Opened(r.net) + Timeout + r.spent
  /\ r.st = "reply" => r.age <= LongestRun(r.net)

(* A TCP client that sent its query at once and needs no second exchange.  *)
HandlerPrompt(r) ==
  (r.net = "tcp" /\ ~r.late) =>
    /\ r.st = "query" => r.age = 0
    /\ r.st = "udp" => r.age <= r.spent
    /\ r.st # "tcp"
    /\ r.st = "reply" => r.age <= Timeout

HandlerSource(r) ==
  r.st \in {"udp", "tcp"} =>
     r.src \in IF Classify(r.ask.name) = "direct" THEN {"isp"} ELSE {"wg-exit", "unguarded"}

HandlerOK(r) == r \in Handler /\ HandlerMessage(r) /\ HandlerTime(r) /\ HandlerPrompt(r)

(* What is promised is kept from the uplink, and what is plain uses it.    *)
PromiseKept ==
  /\ route \in Routings
  /\ promise \subseteq { d \in Destinations : route[d] \in Closed }

(* A loop that has ended has reported once.                                *)
Ended(net) == IF loop[net] = "ended" THEN 1 ELSE 0

ServerInv ==
  /\ Len(errCh) <= Ended("udp") + Ended("tcp")
  /\ serve \notin {"waiting", "returned"} => /\ result = "none"
                                             /\ ctx = "cancelled" => shut
                                             /\ \A net \in Nets : sock[net] # "closed"
  /\ serve \in {"start", "bind udp", "bind tcp"} => \A net \in Nets : loop[net] = "off"
  /\ (serve = "serving" /\ ~shut) => \A k \in 1 .. Len(errCh) : errCh[k] = "fatal"
  /\ result = "nil" => shut
  /\ serve = "returned" => \A net \in Nets : loop[net] # "on"

(* The dialer of the exit path sets the mark the gateway looks for, as it  *)
(* does by default.                                                        *)
MarkAgrees == Mark = GatewayMark /\ GatewayMark # 0

Good(r) == HandlerOK(r) /\ (MarkAgrees => HandlerSource(r))
HandlersInv == h \in [Clients -> Handler] /\ \A c \in Clients : Good(h[c])

-----------------------------------------------------------------------------
(* Constants.                                                              *)

(* The empty values have the types of the others.                          *)
LEMMA NameFacts ==
  /\ NoName \in Names
  /\ NoMessage \in Messages
  /\ \A m \in Messages : m.name \in Names /\ m.form \in {"garbage", "multi", "query"}
  /\ Nothing \in [rcode: {"none", "answer", "servfail", "formerr"}, name: Names]
<1>1. NoName \in Names
  BY DnsAssumption DEF NoName
<1> QED BY <1>1 DEF NoMessage, Messages, Nothing

(* The deadlines are naturals, and what LongestRun adds up.                *)
LEMMA TimeFacts ==
  /\ Timeout \in Nat /\ Grace \in Nat /\ Timeout > 0 /\ Grace > 0
  /\ ClientDeadline = Timeout + Grace /\ ClientDeadline \in Nat
  /\ \A net \in Nets : LongestRun(net) = 2 * Timeout + Opened(net) /\ LongestRun(net) \in Nat
  /\ Opened("tcp") = ClientDeadline /\ Opened("udp") = 0
BY DnsAssumption DEF ClientDeadline, LongestRun, Opened, Nets

-----------------------------------------------------------------------------
(* What the steps make of a handler.                                       *)

(* A client without a query satisfies the invariant of a handler.          *)
LEMMA QuietOK == HandlerOK(Quiet) /\ Quiet.st = "quiet"
<1>1. Quiet \in Handler
  BY NameFacts, TimeFacts DEF Quiet, Handler
<1> QED BY <1>1 DEF HandlerOK, Works, HandlerMessage, HandlerTime, HandlerPrompt, Quiet

(* A client sends a query.                                                 *)
LEMMA SentOK ==
  ASSUME NEW r, HandlerOK(r), r.st = "quiet", NEW net \in Nets, NEW m \in Messages
  PROVE  HandlerOK([r EXCEPT !.st = "sent", !.net = net, !.ask = m])
<1> DEFINE q == [r EXCEPT !.st = "sent", !.net = net, !.ask = m]
<1>1. r \in Handler /\ r.age = 0
  BY DEF HandlerOK, HandlerTime
<1>2. q \in Handler /\ q.st = "sent" /\ q.age = 0
  BY <1>1 DEF Handler, Nets
<1> HIDE DEF q
<1> QED BY <1>2 DEF q, HandlerOK, Works, HandlerMessage, HandlerTime, HandlerPrompt

(* A datagram is copied from the buffer, a connection is accepted.         *)
LEMMA AcceptedOK ==
  ASSUME NEW r, HandlerOK(r), r.st = "sent"
  PROVE  /\ r.net = "udp" => HandlerOK([r EXCEPT !.st = "query", !.raw = r.ask])
         /\ r.net = "tcp" => HandlerOK([r EXCEPT !.st = "read"])
<1>1. r \in Handler /\ r.age = 0
  BY DEF HandlerOK, HandlerTime
<1>2. ASSUME r.net = "udp" PROVE HandlerOK([r EXCEPT !.st = "query", !.raw = r.ask])
  <2> DEFINE q == [r EXCEPT !.st = "query", !.raw = r.ask]
  <2>1. q \in Handler /\ q.st = "query" /\ q.age = 0 /\ q.net = "udp" /\ q.raw = q.ask
    BY <1>1, <1>2 DEF Handler
  <2> HIDE DEF q
  <2>2. HandlerOK(q)
    BY <2>1, TimeFacts DEF HandlerOK, Works, HandlerMessage, HandlerTime, HandlerPrompt
  <2> QED BY <2>2 DEF q
<1>3. ASSUME r.net = "tcp" PROVE HandlerOK([r EXCEPT !.st = "read"])
  <2> DEFINE q == [r EXCEPT !.st = "read"]
  <2>1. q \in Handler /\ q.st = "read" /\ q.age = 0 /\ q.net = "tcp"
    BY <1>1, <1>3 DEF Handler
  <2> HIDE DEF q
  <2>2. HandlerOK(q)
    BY <2>1, TimeFacts DEF HandlerOK, Works, HandlerMessage, HandlerTime, HandlerPrompt
  <2> QED BY <2>2 DEF q
<1> QED BY <1>2, <1>3

(* handleTCP reads the query before the deadline of the connection.        *)
LEMMA ReadOK ==
  ASSUME NEW r, HandlerOK(r), r.st = "read", r.age < ClientDeadline
  PROVE  HandlerOK([r EXCEPT !.st = "query", !.raw = r.ask, !.late = r.age > 0])
<1> DEFINE l == r.age > 0
           q == [r EXCEPT !.st = "query", !.raw = r.ask, !.late = l]
<1>1. r \in Handler /\ r.net = "tcp" /\ r.age \in Nat
  BY DEF HandlerOK, HandlerTime, Handler
<1>2. l \in BOOLEAN /\ (~l => r.age = 0)
  BY <1>1
<1> HIDE DEF l
<1>3. /\ q \in Handler /\ q.st = "query" /\ q.age = r.age /\ q.net = "tcp"
      /\ q.raw = q.ask /\ q.late = l
  BY <1>1, <1>2 DEF Handler
<1> HIDE DEF q
<1>4. HandlerOK(q)
  <2>1. HandlerTime(q)
    BY <1>1, <1>3, TimeFacts DEF HandlerTime
  <2>2. HandlerPrompt(q)
    BY <1>2, <1>3 DEF HandlerPrompt
  <2> QED BY <1>3, <2>1, <2>2 DEF HandlerOK, Works, HandlerMessage
<1> QED BY <1>4 DEF q, l

(* The record of a handler that answers.                                   *)
Answered(r, rcode) ==
  [r EXCEPT !.st = "reply", !.spent = 0, !.src = "none",
            !.out = [rcode |-> rcode, name |-> r.raw.name]]

(* A reply is made from the query the handler holds.                       *)
LEMMA AnsweredOK ==
  ASSUME NEW r, HandlerOK(r), r.st \in {"query", "udp", "tcp"},
         NEW rcode \in {"answer", "servfail", "formerr"},
         rcode = "formerr" <=> r.raw.form = "multi"
  PROVE  HandlerOK(Answered(r, rcode))
<1> DEFINE q == Answered(r, rcode)
<1>1. /\ r \in Handler /\ r.age \in Nat /\ r.spent \in 0 .. Timeout /\ r.net \in Nets
      /\ r.raw \in Messages /\ r.late \in BOOLEAN
      /\ r.raw = r.ask
  BY DEF HandlerOK, HandlerMessage, Works, Handler, Nets
<1>2. /\ q \in Handler /\ q.st = "reply" /\ q.age = r.age /\ q.net = r.net /\ q.late = r.late
      /\ q.raw = q.ask /\ q.ask = r.ask
      /\ q.out.name = q.raw.name /\ q.out.rcode = rcode
  <2>1. [rcode |-> rcode, name |-> r.raw.name]
            \in [rcode: {"none", "answer", "servfail", "formerr"}, name: Names]
    BY <1>1, NameFacts
  <2> DEFINE o == [rcode |-> rcode, name |-> r.raw.name]
  <2>2. o.rcode = rcode /\ o.name = r.raw.name
    OBVIOUS
  <2>3. q = [r EXCEPT !.st = "reply", !.spent = 0, !.src = "none", !.out = o]
    BY DEF Answered
  <2> HIDE DEF o, q
  <2>4. 0 \in 0 .. Timeout
    BY TimeFacts
  <2> QED BY <1>1, <2>1, <2>2, <2>3, <2>4 DEF Handler, o
<1>3. HandlerMessage(q)
  BY <1>1, <1>2 DEF HandlerMessage, Works
<1>4. HandlerTime(q)
  <2>1. q.age <= LongestRun(q.net)
    BY <1>1, <1>2, TimeFacts DEF HandlerOK, HandlerTime, Nets
  <2> QED BY <1>2, <2>1 DEF HandlerTime
<1>5. HandlerPrompt(q)
  BY <1>1, <1>2, TimeFacts DEF HandlerOK, HandlerPrompt
<1> QED BY <1>2, <1>3, <1>4, <1>5 DEF HandlerOK

(* The record of a handler that dials over the transport t.                *)
Dialled(r, t, src) ==
  [r EXCEPT !.st = t, !.spent = 0, !.src = src, !.late = r.late \/ t = "tcp"]

(* An exchange is begun: the first one over UDP, the retry over TCP.       *)
LEMMA DialledOK ==
  ASSUME NEW r, HandlerOK(r), r.raw.form = "query",
         NEW t, (r.st = "query" /\ t = "udp") \/ (r.st = "udp" /\ t = "tcp"),
         NEW src \in Ways \cup {"unguarded"}
  PROVE  HandlerOK(Dialled(r, t, src))
<1> DEFINE q == Dialled(r, t, src)
<1>1. /\ r \in Handler /\ r.age \in Nat /\ r.spent \in 0 .. Timeout /\ r.net \in Nets
      /\ r.late \in BOOLEAN
      /\ r.raw = r.ask
  BY DEF HandlerOK, HandlerMessage, Works, Handler, Nets
<1>2. /\ q \in Handler /\ q.st = t /\ q.age = r.age /\ q.net = r.net /\ q.spent = 0
      /\ q.raw = q.ask /\ q.raw.form = "query"
      /\ q.late \in BOOLEAN /\ (~q.late => ~r.late /\ t # "tcp")
  <2> DEFINE l == r.late \/ t = "tcp"
  <2>1. l \in BOOLEAN /\ (~l => ~r.late /\ t # "tcp")
    BY <1>1
  <2>2. q = [r EXCEPT !.st = t, !.spent = 0, !.src = src, !.late = l]
    BY DEF Dialled
  <2> HIDE DEF l, q
  <2>3. 0 \in 0 .. Timeout
    BY TimeFacts
  <2> QED BY <1>1, <2>1, <2>2, <2>3 DEF Handler
<1>3. HandlerMessage(q)
  BY <1>1, <1>2 DEF HandlerMessage, Works
<1>4. HandlerTime(q)
  BY <1>1, <1>2, TimeFacts DEF HandlerOK, HandlerTime, Nets
<1>5. HandlerPrompt(q)
  BY <1>1, <1>2, TimeFacts DEF HandlerOK, HandlerPrompt
<1> QED BY <1>2, <1>3, <1>4, <1>5 DEF HandlerOK

(* The record of a handler after a second.                                 *)
Ticked(r) ==
  [r EXCEPT !.age = IF r.age <= LongestRun(r.net) THEN r.age + 1 ELSE r.age,
            !.spent = IF r.st \in {"udp", "tcp"} /\ r.spent < Timeout THEN r.spent + 1
                      ELSE r.spent]

(* A second passes for a handler that waits and may still wait.            *)
LEMMA TickedOK ==
  ASSUME NEW r, HandlerOK(r),
         \/ r.st = "read" /\ r.age < ClientDeadline
         \/ r.st \in {"udp", "tcp"} /\ r.spent # Timeout
  PROVE  HandlerOK(Ticked(r))
<1> DEFINE q == Ticked(r)
<1>1. /\ r \in Handler /\ r.age \in Nat /\ r.spent \in 0 .. Timeout /\ r.net \in Nets
      /\ r.late \in BOOLEAN
      /\ LongestRun(r.net) \in Nat
  BY TimeFacts DEF HandlerOK, Handler, Nets
<1>2. /\ q \in Handler /\ q.st = r.st /\ q.net = r.net
      /\ q.raw = r.raw /\ q.ask = r.ask /\ q.late = r.late /\ q.out = r.out
      /\ q.age \in Nat /\ q.age <= r.age + 1
      /\ r.st \in {"udp", "tcp"} => q.spent = r.spent + 1
  <2> DEFINE a == IF r.age <= LongestRun(r.net) THEN r.age + 1 ELSE r.age
             u == IF r.st \in {"udp", "tcp"} /\ r.spent < Timeout THEN r.spent + 1 ELSE r.spent
  <2>1. a \in Nat /\ a <= r.age + 1
    BY <1>1
  <2>2. u \in 0 .. Timeout /\ (r.st \in {"udp", "tcp"} => u = r.spent + 1)
    BY <1>1, TimeFacts
  <2>3. q = [r EXCEPT !.age = a, !.spent = u]
    BY DEF Ticked
  <2> HIDE DEF a, u, q
  <2> QED BY <1>1, <2>1, <2>2, <2>3 DEF Handler
<1>3. HandlerMessage(q)
  BY <1>2 DEF HandlerMessage, Works, HandlerOK
<1>4. HandlerTime(q)
  BY <1>1, <1>2, TimeFacts DEF HandlerOK, HandlerTime, Nets
<1>5. HandlerPrompt(q)
  BY <1>1, <1>2, TimeFacts DEF HandlerOK, HandlerPrompt
<1> QED BY <1>2, <1>3, <1>4, <1>5 DEF HandlerOK

-----------------------------------------------------------------------------
(* The handlers, step by step.                                             *)

(* Only exchanges have a source.                                           *)
LEMMA GoodIdle ==
  ASSUME NEW r, HandlerOK(r), r.st \notin {"udp", "tcp"}
  PROVE  Good(r)
BY DEF Good, HandlerSource

(* A step that replaces the record of one client by a good one keeps the   *)
(* handlers good.                                                          *)
LEMMA OneHandler ==
  ASSUME HandlersInv, NEW c \in Clients, NEW r, Good(r), h' = [h EXCEPT ![c] = r]
  PROVE  HandlersInv'
<1>1. h' \in [Clients -> Handler]
  BY DEF HandlersInv, Good, HandlerOK
<1>2. ASSUME NEW d \in Clients PROVE Good(h'[d])
  BY DEF HandlersInv
<1>3. ASSUME NEW d \in Clients PROVE Good(h[d])'
  BY <1>2 DEF Good, HandlerOK, HandlerSource, HandlerMessage, HandlerTime, HandlerPrompt,
              Works, Opened
<1> QED BY <1>1, <1>3 DEF HandlersInv

(* A handler that has returned leaves no trace.                            *)
LEMMA FinishOK ==
  ASSUME HandlersInv, NEW c \in Clients, Finish(c)
  PROVE  HandlersInv'
BY QuietOK, GoodIdle, OneHandler DEF Finish

(* Writing down a reply keeps the handlers good.                           *)
LEMMA AnswerOK ==
  ASSUME HandlersInv, NEW c \in Clients, h[c].st \in {"query", "udp", "tcp"},
         NEW rcode \in {"answer", "servfail", "formerr"},
         rcode = "formerr" <=> h[c].raw.form = "multi",
         Answer(c, rcode)
  PROVE  HandlersInv'
<1>1. h[c] \in Handler /\ HandlerOK(h[c]) /\ h \in [Clients -> Handler]
  BY DEF HandlersInv, Good
<1>2. h' = [h EXCEPT ![c] = Answered(h[c], rcode)]
  BY <1>1 DEF Answer, Answered
<1>3. HandlerOK(Answered(h[c], rcode))
  BY <1>1, AnsweredOK
<1>4. Answered(h[c], rcode).st = "reply"
  BY <1>1 DEF Answered, Handler
<1> QED BY <1>2, <1>3, <1>4, GoodIdle, OneHandler

(* The source of an exchange that is dialled.                              *)
LEMMA DialSource ==
  ASSUME PromiseKept, NEW path \in Paths, Way(path) \notin {"blackhole", "unreachable"}
  PROVE  /\ Source(path) \in Ways \cup {"unguarded"}
         /\ path = "direct" => Source(path) = "isp"
         /\ MarkAgrees /\ path = "exit" => Source(path) \in {"wg-exit", "unguarded"}
<1>1. Sent(path) \in Destinations /\ Way(path) = route[Sent(path)]
  BY SentAssumption DEF Way
<1>2. Way(path) \in Ways
  BY <1>1 DEF PromiseKept, Routings
<1>3. path = "direct" => Way(path) = "isp"
  <2> SUFFICES ASSUME path = "direct" PROVE Way(path) = "isp"
    OBVIOUS
  <2>1. Sent(path) = << "direct", FALSE >>
    BY DEF Sent, SOMark
  <2> QED BY <1>1, <2>1, SentAssumption DEF PromiseKept, Routings
<1>4. MarkAgrees /\ path = "exit" /\ Resolver \in promise => Way(path) = "wg-exit"
  <2> SUFFICES ASSUME MarkAgrees, path = "exit", Resolver \in promise PROVE Way(path) = "wg-exit"
    OBVIOUS
  <2>1. Sent(path) = Resolver
    BY DEF Sent, SOMark, MarkAgrees, Resolver
  <2> QED BY <1>1, <2>1 DEF PromiseKept, Closed
<1> QED BY <1>2, <1>3, <1>4 DEF Source, Paths

(* Beginning an exchange keeps the handlers good: the way it takes is the  *)
(* one the gateway has promised.                                           *)
LEMMA DialOK ==
  ASSUME HandlersInv, PromiseKept, NEW c \in Clients, h[c].raw.form = "query",
         NEW t, (h[c].st = "query" /\ t = "udp") \/ (h[c].st = "udp" /\ t = "tcp"),
         Dial(c, t)
  PROVE  HandlersInv'
<1>1. h[c] \in Handler /\ HandlerOK(h[c]) /\ h \in [Clients -> Handler]
  BY DEF HandlersInv, Good
<1> DEFINE src == Source(Path(c))
           r == Dialled(h[c], t, src)
<1>2. Path(c) \in Paths
  BY DEF Path, Classify, Paths
<1>3. /\ src \in Ways \cup {"unguarded"}
      /\ Path(c) = "direct" => src = "isp"
      /\ MarkAgrees /\ Path(c) = "exit" => src \in {"wg-exit", "unguarded"}
  BY <1>2, DialSource DEF Dial
<1>4. h' = [h EXCEPT ![c].st = t, ![c].spent = 0, ![c].src = src,
                     ![c].late = @ \/ t = "tcp"]
  BY DEF Dial
<1> HIDE DEF src
<1>5. h' = [h EXCEPT ![c] = r]
  BY <1>1, <1>4 DEF Dialled
<1>6. HandlerOK(r)
  BY <1>1, <1>3, DialledOK
<1>7. r.src = src /\ r.ask = h[c].ask /\ h[c].ask = h[c].raw
  BY <1>1 DEF Dialled, Handler, HandlerOK, HandlerMessage, Works
<1>8. Classify(r.ask.name) = Path(c)
  BY <1>7 DEF Path
<1> HIDE DEF r
<1>9. MarkAgrees => HandlerSource(r)
  BY <1>2, <1>3, <1>7, <1>8 DEF HandlerSource, Paths
<1> QED BY <1>5, <1>6, <1>9, OneHandler DEF Good

(* A step of a client, or of its handler.                                  *)
LEMMA ClientStep ==
  ASSUME HandlersInv, PromiseKept, NEW c \in Clients,
         Ask(c) \/ Accept(c) \/ Unheard(c) \/ HandlerStep(c) \/ NetworkStep(c)
  PROVE  HandlersInv'
<1>1. h[c] \in Handler /\ HandlerOK(h[c]) /\ h \in [Clients -> Handler]
  BY DEF HandlersInv, Good
<1>2. ASSUME NEW net \in Nets, Send(c, net) PROVE HandlersInv'
  <2>1. PICK m \in Messages :
          h' = [h EXCEPT ![c].st = "sent", ![c].net = net, ![c].ask = m]
    BY <1>2 DEF Send
  <2> DEFINE r == [h[c] EXCEPT !.st = "sent", !.net = net, !.ask = m]
  <2>2. h' = [h EXCEPT ![c] = r]
    BY <1>1, <2>1
  <2>3. HandlerOK(r) /\ r.st = "sent"
    BY <1>1, <1>2, SentOK DEF Send, At, Handler
  <2> HIDE DEF r
  <2> QED BY <2>2, <2>3, GoodIdle, OneHandler
<1>3. CASE Accept(c)
  <2>1. CASE h[c].net = "udp"
    <3> DEFINE r == [h[c] EXCEPT !.st = "query", !.raw = h[c].ask]
    <3>1. h' = [h EXCEPT ![c] = r]
      BY <1>1, <1>3, <2>1 DEF Accept, Received
    <3>2. HandlerOK(r) /\ r.st = "query"
      BY <1>1, <1>3, <2>1, AcceptedOK DEF Accept, Handler
    <3> HIDE DEF r
    <3> QED BY <3>1, <3>2, GoodIdle, OneHandler
  <2>2. CASE h[c].net = "tcp"
    <3> DEFINE r == [h[c] EXCEPT !.st = "read"]
    <3>1. h' = [h EXCEPT ![c] = r]
      BY <1>1, <1>3, <2>2 DEF Accept
    <3>2. HandlerOK(r) /\ r.st = "read"
      BY <1>1, <1>3, <2>2, AcceptedOK DEF Accept, Handler
    <3> HIDE DEF r
    <3> QED BY <3>1, <3>2, GoodIdle, OneHandler
  <2> QED BY <1>1, <2>1, <2>2 DEF Handler
<1>4. CASE ReadQuery(c)
  <2>1. CASE Finish(c)
    BY <2>1, FinishOK
  <2>2. CASE h' = [h EXCEPT ![c].st = "query", ![c].raw = h[c].ask, ![c].late = h[c].age > 0]
    <3> DEFINE r == [h[c] EXCEPT !.st = "query", !.raw = h[c].ask, !.late = h[c].age > 0]
    <3>1. h' = [h EXCEPT ![c] = r]
      BY <1>1, <2>2
    <3>2. HandlerOK(r) /\ r.st = "query"
      BY <1>1, <1>4, ReadOK DEF ReadQuery, At, Handler
    <3> HIDE DEF r
    <3> QED BY <3>1, <3>2, GoodIdle, OneHandler
  <2> QED BY <1>4, <2>1, <2>2 DEF ReadQuery
<1>5. CASE ReadExpires(c) \/ WriteReply(c) \/ Unheard(c)
  BY <1>5, FinishOK DEF ReadExpires, WriteReply, Unheard
<1>6. CASE ProcessQuery(c)
  <2>1. h[c].st = "query"
    BY <1>6 DEF ProcessQuery, At
  <2>2. CASE Finish(c)
    BY <2>2, FinishOK
  <2>3. CASE h[c].raw.form = "multi" /\ Answer(c, "formerr")
    BY <2>1, <2>3, AnswerOK
  <2>4. CASE h[c].raw.form = "query" /\ Answer(c, "servfail")
    BY <2>1, <2>4, AnswerOK
  <2>5. CASE h[c].raw.form = "query" /\ Dial(c, "udp")
    BY <2>1, <2>5, DialOK
  <2> QED BY <1>6, <2>2, <2>3, <2>4, <2>5 DEF ProcessQuery
<1>7. ASSUME h[c].st \in {"udp", "tcp"}, NEW rcode \in {"answer", "servfail"}, Answer(c, rcode)
      PROVE  HandlersInv'
  <2>1. h[c].raw.form = "query"
    BY <1>1, <1>7 DEF HandlerOK, HandlerMessage
  <2> QED BY <1>7, <2>1, AnswerOK
<1>8. CASE UpstreamAnswers(c)
  BY <1>7, <1>8 DEF UpstreamAnswers, Waiting, At
<1>9. CASE ExchangeExpires(c)
  BY <1>7, <1>9 DEF ExchangeExpires, Expired, Waiting, At
<1>10. CASE UpstreamTruncates(c)
  <2>1. h[c].st = "udp" /\ h[c].raw.form = "query"
    BY <1>1, <1>10 DEF UpstreamTruncates, At, HandlerOK, HandlerMessage
  <2>2. CASE Dial(c, "tcp")
    BY <2>1, <2>2, DialOK
  <2>3. CASE Answer(c, "servfail")
    BY <1>7, <2>1, <2>3
  <2> QED BY <1>10, <2>2, <2>3 DEF UpstreamTruncates, Retry
<1> QED
  BY <1>2, <1>3, <1>4, <1>5, <1>6, <1>8, <1>9, <1>10 DEF Ask, HandlerStep, NetworkStep

(* The passing of a second keeps the handlers good: nobody waits who has   *)
(* run out of time.                                                        *)
LEMMA TickOK ==
  ASSUME HandlersInv, Tick
  PROVE  HandlersInv'
<1>1. h \in [Clients -> Handler]
  BY DEF HandlersInv
<1>2. ASSUME NEW c \in Clients, InHandler(c)
      PROVE  Good(Ticked(h[c])) /\ Ticked(h[c]) \in Handler
  <2>1. /\ h[c] \in Handler /\ HandlerOK(h[c]) /\ ~Due(c)
        /\ MarkAgrees => HandlerSource(h[c])
    BY DEF HandlersInv, Good, Tick
  <2>2. \/ h[c].st = "read" /\ h[c].age < ClientDeadline
        \/ h[c].st \in {"udp", "tcp"} /\ h[c].spent # Timeout
    BY <1>2, <2>1, TimeFacts DEF InHandler, Due, Overdue, Expired, Waiting, At, Handler
  <2>3. HandlerOK(Ticked(h[c]))
    BY <2>1, <2>2, TickedOK
  <2>4. /\ Ticked(h[c]).src = h[c].src /\ Ticked(h[c]).ask = h[c].ask
        /\ Ticked(h[c]).st = h[c].st
    BY <2>1 DEF Ticked, Handler
  <2> QED BY <2>1, <2>3, <2>4 DEF Good, HandlerSource, HandlerOK
<1>3. ASSUME NEW c \in Clients
      PROVE  h'[c] = IF InHandler(c) THEN Ticked(h[c]) ELSE h[c]
  <2>1. h[c] \in Handler
    BY <1>1
  <2> QED BY <2>1 DEF Tick, Ticked, Waiting, At
<1>4. ASSUME NEW c \in Clients PROVE Good(h'[c]) /\ h'[c] \in Handler
  BY <1>2, <1>3 DEF HandlersInv
<1>5. h' \in [Clients -> Handler]
  <2>1. h' = [c \in Clients |-> h'[c]]
    BY DEF Tick
  <2> QED BY <1>4, <2>1
<1>6. ASSUME NEW c \in Clients PROVE Good(h[c])'
  BY <1>4 DEF Good, HandlerOK, HandlerSource, HandlerMessage, HandlerTime, HandlerPrompt,
              Works, Opened
<1> QED BY <1>5, <1>6 DEF HandlersInv

-----------------------------------------------------------------------------
(* The gateway and the server.                                             *)

(* Whatever the gateway does, what it promises is closed to the uplink.    *)
LEMMA PromiseStep ==
  ASSUME PromiseKept, GatewayNext \/ UNCHANGED gatewayVars
  PROVE  PromiseKept'
<1>1. CASE Operate
  BY <1>1 DEF Operate, PromiseKept
<1>2. CASE Install
  BY <1>2 DEF Install, PromiseKept
<1>3. CASE TunnelLost
  BY <1>3 DEF TunnelLost, PromiseKept, Closed
<1>4. CASE UNCHANGED gatewayVars
  BY <1>4 DEF gatewayVars, PromiseKept
<1> QED BY <1>1, <1>2, <1>3, <1>4 DEF GatewayNext

(* The types of the server's own variables.                                *)
ServerTypes ==
  /\ ctx \in {"live", "cancelled"}
  /\ serve \in {"start", "bind udp", "bind tcp", "serving", "waiting", "returned"}
  /\ sock \in [Nets -> {"none", "open", "closed"}]
  /\ loop \in [Nets -> {"off", "on", "ended"}]
  /\ errCh \in Seq({"canceled", "closed", "fatal"})
  /\ result \in {"none", "nil", "error"}
  /\ shut \in BOOLEAN

(* Steps that do not touch the server.                                     *)
LEMMA ServerRests ==
  ASSUME ServerTypes, ServerInv, UNCHANGED serverVars, UNCHANGED ctx
  PROVE  ServerTypes' /\ ServerInv'
BY DEF ServerTypes, ServerInv, serverVars, Ended

(* ListenAndServe after both sockets are bound, or the second is not.      *)
LEMMA BindTCPOK ==
  ASSUME ServerTypes, ServerInv, BindTCP, UNCHANGED << errCh, ctx, shut >>
  PROVE  ServerTypes' /\ ServerInv'
<1>1. /\ serve = "bind tcp" /\ result = "none" /\ (ctx = "cancelled" => shut)
      /\ loop["udp"] = "off" /\ loop["tcp"] = "off"
      /\ sock["udp"] # "closed"
  BY DEF BindTCP, ServerInv, Nets
<1>2. Len(errCh) = 0
  <2>1. Len(errCh) \in Nat
    BY LenProperties DEF ServerTypes
  <2>2. Ended("udp") = 0 /\ Ended("tcp") = 0
    BY <1>1 DEF Ended
  <2>3. Len(errCh) <= Ended("udp") + Ended("tcp")
    BY DEF ServerInv
  <2> QED BY <2>1, <2>2, <2>3
<1>3. 1 .. Len(errCh) = {}
  BY <1>2
<1>4. ServerTypes'
  BY DEF ServerTypes, BindTCP
<1>5. Len(errCh)' <= Ended("udp")' + Ended("tcp")'
  <2>1. Len(errCh') = 0 /\ Ended("udp")' \in 0 .. 1 /\ Ended("tcp")' \in 0 .. 1
    BY <1>2 DEF Ended
  <2> QED BY <2>1
<1>6. CASE serve' = "serving"
  <2>1. /\ \A net \in Nets : sock'[net] # "closed" /\ loop'[net] = "on"
        /\ result' = "none"
    BY <1>1, <1>6 DEF BindTCP, ServerTypes, Nets
  <2> QED BY <1>1, <1>3, <1>4, <1>5, <1>6, <2>1 DEF ServerInv
<1>7. CASE serve' # "serving"
  <2>1. serve' = "returned" /\ result' = "error" /\ loop' = loop
    BY <1>7 DEF BindTCP
  <2> QED BY <1>1, <1>4, <1>5, <2>1 DEF ServerInv, Nets
<1> QED BY <1>6, <1>7

(* Every step of ListenAndServe preserves the invariant of the server.     *)
LEMMA ListenOK ==
  ASSUME ServerTypes, ServerInv, Listen
  PROVE  ServerTypes' /\ ServerInv'
<1> USE DEF ServerTypes, ServerInv, Ended, Nets
<1>1. CASE StoreCancel /\ UNCHANGED << h, errCh, ctx >>
  BY <1>1 DEF StoreCancel, Listen
<1>2. CASE BindUDP /\ UNCHANGED << h, errCh, ctx >>
  BY <1>2 DEF BindUDP, Listen
<1>3. CASE BindTCP /\ UNCHANGED << h, errCh, ctx >>
  BY <1>3, BindTCPOK DEF Listen
<1>4. CASE FirstError
  <2>1. /\ serve = "serving" /\ errCh # << >> /\ Len(errCh) > 0
        /\ result' = ReturnFor(Head(errCh)) /\ errCh' = Tail(errCh)
        /\ ctx' = "cancelled" /\ sock' = [net \in Nets |-> "closed"]
        /\ serve' = "waiting" /\ loop' = loop /\ shut' = shut
    BY <1>4, EmptySeq DEF FirstError, Listen
  <2>2. Tail(errCh) \in Seq({"canceled", "closed", "fatal"}) /\ Len(Tail(errCh)) = Len(errCh) - 1
    BY <2>1, HeadTailProperties
  <2>3. Head(errCh) = errCh[1]
    BY <2>1
  <2>4. Len(errCh) \in Nat /\ 1 \in 1 .. Len(errCh)
    BY <2>1, LenProperties
  <2>5. ~shut => result' = "error"
    BY <2>1, <2>3, <2>4 DEF ReturnFor
  <2>6. result' \in {"nil", "error"}
    BY <2>1 DEF ReturnFor
  <2>7. ServerTypes'
    BY <2>1, <2>2, <2>6
  <2>8. Len(errCh)' <= Ended("udp")' + Ended("tcp")'
    BY <2>1, <2>2, <2>4
  <2> QED BY <2>1, <2>5, <2>7, <2>8
<1>5. CASE WaitLoops /\ UNCHANGED << errCh, ctx >>
  BY <1>5 DEF WaitLoops, Listen
<1> QED BY <1>1, <1>2, <1>3, <1>4, <1>5 DEF Listen

(* So does Shutdown, at any moment.                                        *)
LEMMA ShutdownOK ==
  ASSUME ServerTypes, ServerInv, Shutdown
  PROVE  ServerTypes' /\ ServerInv'
BY DEF ServerTypes, ServerInv, Ended, Shutdown

(* So do the loops serveUDP and serveTCP: each writes to errCh once.       *)
LEMMA LoopOK ==
  ASSUME ServerTypes, ServerInv, NEW net \in Nets, LoopStep(net)
  PROVE  ServerTypes' /\ ServerInv'
<1>1. /\ UNCHANGED << ctx, serve, sock, result, shut >>
      /\ loop[net] = "on" /\ serve # "returned"
      /\ loop' = [loop EXCEPT ![net] = "ended"]
      /\ serve \notin {"start", "bind udp", "bind tcp"}
  BY DEF LoopStep, DeadlinePasses, SocketClosed, AcceptFails, LoopEnds, ServerInv
<1>2. PICK e \in {"canceled", "closed", "fatal"} :
        /\ errCh' = Append(errCh, e)
        /\ (serve = "serving" /\ ~shut) => e = "fatal"
  BY DEF LoopStep, DeadlinePasses, SocketClosed, AcceptFails, LoopEnds, ServerInv, ServerTypes
<1> DEFINE Errors == {"canceled", "closed", "fatal"}
<1>3. /\ errCh' \in Seq(Errors) /\ Len(errCh') = Len(errCh) + 1
      /\ \A k \in 1 .. Len(errCh) : errCh'[k] = errCh[k]
      /\ errCh'[Len(errCh) + 1] = e
      /\ Len(errCh) \in Nat
  <2>1. errCh \in Seq(Errors) /\ e \in Errors
    BY DEF ServerTypes
  <2> HIDE DEF Errors
  <2> QED BY <1>2, <2>1, AppendProperties, LenProperties
<1>4. ServerTypes'
  BY <1>1, <1>3 DEF ServerTypes
<1>5. Len(errCh)' <= Ended("udp")' + Ended("tcp")'
  <2>1. /\ Len(errCh) <= Ended("udp") + Ended("tcp")
        /\ Ended("udp") \in Nat /\ Ended("tcp") \in Nat
    BY DEF ServerInv, Ended
  <2>2. Ended(net) = 0 /\ loop'[net] = "ended"
    BY <1>1 DEF ServerTypes, Ended
  <2>3. \A m \in Nets : m # net => loop'[m] = loop[m]
    BY <1>1 DEF ServerTypes
  <2>4. CASE net = "udp"
    <3>1. Ended("udp")' = 1 /\ Ended("tcp")' = Ended("tcp")
      BY <2>2, <2>3, <2>4 DEF Ended, Nets
    <3> QED BY <1>3, <2>1, <2>2, <2>4, <3>1
  <2>5. CASE net = "tcp"
    <3>1. Ended("tcp")' = 1 /\ Ended("udp")' = Ended("udp")
      BY <2>2, <2>3, <2>5 DEF Ended, Nets
    <3> QED BY <1>3, <2>1, <2>2, <2>5, <3>1
  <2> QED BY <2>4, <2>5 DEF Nets
<1>6. (serve = "serving" /\ ~shut)' => \A k \in 1 .. Len(errCh') : errCh'[k] = "fatal"
  <2> SUFFICES ASSUME serve = "serving", ~shut, NEW k \in 1 .. Len(errCh')
               PROVE  errCh'[k] = "fatal"
    BY <1>1
  <2>1. k \in 1 .. Len(errCh) \/ k = Len(errCh) + 1
    BY <1>3
  <2> QED BY <1>2, <1>3, <2>1 DEF ServerInv
<1> QED BY <1>1, <1>4, <1>5, <1>6 DEF ServerInv

-----------------------------------------------------------------------------
Inv == HandlersInv /\ PromiseKept /\ ServerTypes /\ ServerInv

(* The invariant holds before ListenAndServe is called.                    *)
LEMMA InvInitially == Init => Inv
<1> SUFFICES ASSUME Init PROVE Inv
  OBVIOUS
<1>1. HandlersInv
  <2>1. Good(Quiet) /\ Quiet \in Handler
    BY QuietOK, GoodIdle DEF HandlerOK
  <2> QED BY <2>1 DEF Init, HandlersInv
<1>2. PromiseKept
  BY DEF Init, GatewayInit, PromiseKept
<1>3. ServerTypes
  BY EmptySeq DEF Init, ServerTypes
<1>4. ServerInv
  BY EmptySeq DEF Init, ServerInv, Ended, Nets
<1> QED BY <1>1, <1>2, <1>3, <1>4 DEF Inv

(* A step that leaves the handlers alone keeps them good.                  *)
LEMMA HandlersRest ==
  ASSUME HandlersInv, UNCHANGED h
  PROVE  HandlersInv'
BY DEF HandlersInv, Good, HandlerOK, HandlerSource, HandlerMessage, HandlerTime, HandlerPrompt,
       Works, Opened

(* The invariant is inductive.                                             *)
LEMMA InvStep == Inv /\ [Next]_vars => Inv'
<1> SUFFICES ASSUME Inv, [Next]_vars PROVE Inv'
  OBVIOUS
<1> USE DEF Inv
<1>1. CASE Listen
  <2>1. HandlersInv'
    <3>1. CASE UNCHANGED h
      BY <3>1, HandlersRest
    <3>2. CASE h' = [c \in Clients |-> Quiet]
      <4>1. Good(Quiet) /\ Quiet \in Handler
        BY QuietOK, GoodIdle DEF HandlerOK
      <4>2. h' \in [Clients -> Handler] /\ \A c \in Clients : h'[c] = Quiet
        BY <3>2, <4>1
      <4>3. ASSUME NEW c \in Clients PROVE Good(h[c])'
        BY <4>1, <4>2 DEF Good, HandlerOK, HandlerSource, HandlerMessage, HandlerTime,
                          HandlerPrompt, Works, Opened
      <4> QED BY <4>2, <4>3 DEF HandlersInv
    <3> QED BY <1>1, <3>1, <3>2 DEF Listen, WaitLoops
  <2> QED BY <1>1, <2>1, ListenOK, PromiseStep DEF Listen
<1>2. CASE Shutdown
  BY <1>2, ShutdownOK, HandlersRest, PromiseStep DEF Shutdown
<1>3. CASE TimePasses
  BY <1>3, TickOK, ServerRests, PromiseStep DEF TimePasses, Tick
<1>4. CASE GatewayStep
  BY <1>4, HandlersRest, ServerRests, PromiseStep DEF GatewayStep
<1>5. ASSUME NEW net \in Nets, LoopStep(net) PROVE Inv'
  BY <1>5, LoopOK, HandlersRest, PromiseStep DEF LoopStep
<1>6. ASSUME NEW c \in Clients,
             Ask(c) \/ Accept(c) \/ Unheard(c) \/ HandlerStep(c) \/ NetworkStep(c)
      PROVE  Inv'
  <2>1. UNCHANGED << gatewayVars, ctx, serverVars >>
    BY <1>6 DEF Ask, Send, Accept, Unheard, HandlerStep, NetworkStep, ReadExpires, ProcessQuery,
                ExchangeExpires, WriteReply, ReadQuery, UpstreamAnswers, UpstreamTruncates
  <2> QED BY <1>6, <2>1, ClientStep, ServerRests, PromiseStep
<1>7. CASE UNCHANGED vars
  BY <1>7, HandlersRest, ServerRests, PromiseStep DEF vars
<1> QED BY <1>1, <1>2, <1>3, <1>4, <1>5, <1>6, <1>7 DEF Next

(* Hence it always holds.                                                  *)
LEMMA InvAlways == Spec => []Inv
BY InvInitially, InvStep, PTL DEF Spec

-----------------------------------------------------------------------------
(* All values are in their range; in particular errCh, which has room for  *)
(* two, is never full when a loop writes to it.                            *)
THEOREM DnsTypeCorrect == Spec => []DnsTypeOK
<1>1. Inv => DnsTypeOK
  <2> SUFFICES ASSUME Inv PROVE DnsTypeOK
    OBVIOUS
  <2>1. Len(errCh) \in Nat /\ Len(errCh) <= 2
    <3>1. Len(errCh) \in Nat
      BY LenProperties DEF Inv, ServerTypes
    <3>2. Len(errCh) <= Ended("udp") + Ended("tcp")
      BY DEF Inv, ServerInv
    <3>3. Ended("udp") \in 0 .. 1 /\ Ended("tcp") \in 0 .. 1
      BY DEF Ended
    <3> QED BY <3>1, <3>2, <3>3
  <2> QED BY <2>1 DEF Inv, HandlersInv, ServerTypes, DnsTypeOK, DnsForwarderTypeOK
<1> QED BY InvAlways, <1>1, PTL

(* A reply is about the question its client asked, however many queries    *)
(* are in flight and share the buffer serveUDP reads into.                 *)
THEOREM ReplyMatches == Spec => []ReplyMatchesQuery
<1>1. Inv => ReplyMatchesQuery
  BY DEF Inv, HandlersInv, Good, HandlerOK, HandlerMessage, ReplyMatchesQuery, At
<1> QED BY InvAlways, <1>1, PTL

(* A direct name is resolved from the uplink and every other one from the  *)
(* exit, first attempt or retry, whenever the gateway had promised it: if  *)
(* the exit dialer is given the mark the gateway looks for.                *)
THEOREM EgressIdentity ==
  ASSUME MarkAgrees
  PROVE  Spec => []GeoEgressIdentity
<1>1. Inv => GeoEgressIdentity
  BY DEF Inv, HandlersInv, Good, HandlerSource, GeoEgressIdentity, Waiting, At
<1> QED BY InvAlways, <1>1, PTL

(* A TCP client that sent its query at once, and whose answer was not      *)
(* truncated, gets its reply before the deadline of its connection.        *)
THEOREM PromptAnswered == Spec => []PromptClientAnswered
<1>1. Inv => PromptClientAnswered
  <2> SUFFICES ASSUME Inv, NEW c \in Clients, At(c, "reply"), h[c].net = "tcp", ~h[c].late
               PROVE  h[c].age < ClientDeadline
    BY DEF PromptClientAnswered
  <2>1. h[c] \in Handler /\ h[c].age <= Timeout
    BY DEF Inv, HandlersInv, Good, HandlerOK, HandlerPrompt, At
  <2>2. h[c].age \in Nat
    BY <2>1 DEF Handler
  <2> QED BY <2>1, <2>2, TimeFacts
<1> QED BY InvAlways, <1>1, PTL

(* No handler that has its query outlives the deadline of its client and   *)
(* two exchanges, shut down or not.                                        *)
THEOREM HandlersBounded == Spec => []HandlerBounded
<1>1. Inv => HandlerBounded
  <2> SUFFICES ASSUME Inv, NEW c \in Clients, ~At(c, "read")
               PROVE  h[c].age <= LongestRun(h[c].net)
    BY DEF HandlerBounded
  <2>1. h[c] \in Handler /\ HandlerTime(h[c])
    BY DEF Inv, HandlersInv, Good, HandlerOK
  <2>2. h[c].age \in Nat /\ h[c].spent \in 0 .. Timeout /\ h[c].net \in Nets
    BY <2>1 DEF Handler, Nets
  <2> QED BY <2>1, <2>2, TimeFacts DEF HandlerTime, Handler, At, Nets
<1> QED BY InvAlways, <1>1, PTL

(* ListenAndServe returns nil only if Shutdown was called.                 *)
THEOREM NoSilentExits == Spec => []NoSilentExit
<1>1. Inv => NoSilentExit
  BY DEF Inv, ServerInv, NoSilentExit
<1> QED BY InvAlways, <1>1, PTL
=============================================================================
