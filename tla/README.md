# gotun: TLA+ specification and proofs

gotun is a split-tunnel gateway. `gotun apply` compiles a policy into a desired
kernel state and reconciles the kernel with it by running `sysctl`, `nft`, `ip`
and `wg`; `gotun clear` removes what it owns. Destinations in the direct list
leave by the uplink, all others through the WireGuard interface `wg-exit` or not
at all, and clients that connect through `wg-clients` are kept from the home
networks. `gotun fetch` makes the direct list from a country database, and
`gotun-dns` answers names over the path their traffic will take. This directory
models all four: the commands one by one, what they do to the kernel, what can go
wrong between them, and the path a packet then takes; how the list is loaded,
collapsed, written and read; and the DNS server with its queries in flight.

Contents: [inventory](#inventory), [modules](#modules), [abstractions](#what-is-abstracted),
[runs](#runs), [findings](#findings), [proofs](#proofs), [left out](#not-modelled), [plan](#plan).

## Inventory

| Component (source) | State | Operations | Talks to |
|---|---|---|---|
| policy (`internal/policy`) | none | `validate`, `Compile`, `routesForTunnel` | called by apply |
| apply (`internal/apply`) | the change count | `Reconcile`, `Clear` | the four reconcilers, in order |
| sysctl (`internal/linux/sysctl`) | 3 kernel keys | `Reconcile`: read, write, write again, read again | runner |
| nftables (`internal/linux/nftables`) | table `inet gotun`: sets, chains, rules | `Reconcile`: list, compare, replace in one batch; `Clear` | runner |
| WireGuard (`internal/wireguard`) | links and devices `wg-exit`, `wg-clients`; routes of main | `Reconcile`: show, add, compare, set, up or down; `Clear` | runner |
| routing (`internal/linux/routing`) | the ip rule, table 100 | `Reconcile`: compare, delete/add, flush/add; `Clear` | runner |
| runner (`internal/linux/runner.go`) | none | run one command: output or error | the kernel |
| command line (`internal/cli`, `cmd/gotun`) | none | `apply`, `clear`, `fetch`, `amnezia` | apply, prefixes |
| prefix sources (`internal/prefixes`) | the list, a download | read MMDB, download and read CSV, write and parse the list | command line, MaxMind |
| prefix collapsing (`internal/prefixes/collapse.go`) | none | `CollapseIPv4` | fetch, amnezia, apply |
| Amnezia export (`internal/amnezia`) | the sites file | `ParseFormat`, `WriteSites` | command line |
| DNS forwarder (`internal/dnsproxy`, `cmd/gotun-dns`) | context, two sockets and loops, queries in flight | `ListenAndServe`, `Shutdown`, classify, forward over UDP then TCP | upstream resolvers; the gateway, by SO_MARK |
| lab servers, harness | - | - | - |

The state of apply lives in the kernel and is shared: nothing locks it, so two
gotun processes, an administrator and the kernel itself change it between any two
commands. The list is a file that fetch rewrites in place while an apply may read it.
The DNS server has a goroutine per listener and per query. What is hard here:

* an apply is some twenty commands without a transaction; it can fail or be
  killed after each, and the next one starts from what is left;
* almost every command follows a listing that may be out of date when it acts;
* the comparison with the live state decides whether anything is done at all, so
  an incomplete one leaves a wrong state, and a too strict one rewrites a right one;
* `wg-exit` can disappear at any time, and traffic must then be dropped;
* errors of several commands are ignored on purpose;
* a list that was cut short, or whose last line was, looks like any other list;
* collapsing must not change a single address, in four loops over shared slices;
* the DNS handlers share a buffer and a context, wait for up to two timeouts, and the
  gateway may change its mind in between; the loops see a shutdown only when idle.

The properties that make it correct: a successful apply leaves the datapath the
policy describes and the devices it gives, whatever came before (`SuccessConverges`,
`DeviceConverges`); tunnelled
destinations never leave by the uplink afterwards (`FailClosed`); clients never
reach home (`HomeIsolation`); a repeated apply does nothing (`ReapplyTouchesNothing`,
`ZeroChangesOnReapply`); an apply recovers from anything (`RecoveryByApply`). A
collapsed list covers what was given (`SameCoverage`) and is the least that does
(`Minimal`); a fetch that succeeds has written the country (`SuccessIsComplete`), one
that fails to load it leaves the old list (`OldListSurvives`), and none sends more
direct than the country (`DirectOnlyInCountry`). A name is resolved over its path
(`GeoEgressIdentity`), a reply is its client's (`ReplyMatchesQuery`), every query ends
(`HandlerEnds`, `HandlerBounded`), and so does the server (`ShutdownStops`,
`OneDownAllDown`), never without a reason (`NoSilentExit`).
`PROJECT.json` lists the hazards line by line.

## Modules

    Policy <- Kernel <- Runner <- Sysctl, Nftables, WireGuard, Routing <- Apply
    Apply <- GatewayRefinement <- MCApply        Gateway <- DnsForwarder <- DnsServer <- MCDns
    GatewayRefinement ..implements.. Gateway     Prefixes <- Collapse <- MCCollapse
                                                 Prefixes <- PrefixSource <- PrefixList <- MCPrefixList

    Apply <- ApplyProofs <- IsolationProofs      Prefixes <- PrefixProofs
    ApplyProofs, GatewayRefinement               Collapse, PrefixProofs <- CollapseProofs
      <- FailClosedProofs <- ConvergenceProofs   PrefixList, PrefixProofs <- PrefixListProofs
    DnsServer <- DnsProofs

* **Policy**: `Policy`, `Validate` and the desired state: `NftSpec`,
  `RoutesForTunnel`, `WGSpec`, `SysctlSpecs`, `OwnedRule`. No variables.
* **Kernel**: the live objects (`sysctl`, `nft`, `link`, `wg`, `rules`, `t100`,
  `main`) and the effect of the commands on them. External to the repository. The
  second half is the path of a packet: `Marked` (prerouting), `Egress` (rule,
  table 100, main by longest prefix), `Isolated` (forward chain). The safety
  properties are stated over this path, not over the objects.
* **Runner**: the processes. `pc[p]` is the command process `p` runs next,
  `phase[p]` the subsystem it is in, `res`, `changes`, `seen`, `n` and `todo` the
  local variables of the Go functions. `Ok` and `Fault(kind)` are the two outcomes
  of `Runner.Run`.
* **Sysctl, Nftables, WireGuard, Routing**: one module per reconciler, one action
  per command it runs, named after it, guarded by what the code has read so far.
  `SemanticMatch`, `DumpMatches`, `RuleListed` and the test in `TableShow` are the
  four comparisons. Each module has the `Clear` of its package.
* **Apply**: `Reconcile` (`StartApply`, `NextSubsystem`, `ReturnError`, `ReturnOk`),
  `Clear` (`StartClear`, `ClearStep`), the events outside gotun (`Kill`, `LinkLost`,
  `LinkForcedDown`, `Roam`), the specification and the properties. Three history
  variables record what an operator knows: `installed` and `stable` (the last
  successful apply, and whether anything has happened since), and `run` (whether
  the apply in progress was interfered with, or is a repetition).
* **Gateway**: the abstract specification of what apply and clear mean for packets:
  the way each destination has now (`route`), and those that are promised not to leave
  by the uplink (`promise`). A promise is made by a successful apply and is off while
  another command runs; as long as it is on, a destination may only go from the tunnel
  to the blackhole, and a new promise takes a command in between (`Install` is possible
  only while there is none). Destinations no policy has a say in (`Plain`) use the uplink
  at all times.
* **GatewayRefinement**: `Apply` with a refinement mapping to `Gateway`: `route` is
  `Egress` of the forwarded packets, and the lookup of the packets the gateway sends
  itself: marked ones, as gotun-dns sends to its exit resolver (`MarkedLocal`), and
  unmarked ones to the direct resolver, which use table main (`PlainLocal`, the plain
  destination); `promise` is what the installed policies tunnel while no command runs or
  has failed.
* **DnsForwarder**: the handlers. `h[c]` is the goroutine that deals with the query of
  client `c`, by the point it has reached: `ReadQuery` and `ReadExpires` (`handleTCP`),
  `ProcessQuery`, `UpstreamAnswers`, `UpstreamTruncates` and `Retry`, `ExchangeExpires`
  (`Forward`), `WriteReply`. `Way(path)` is the gateway's `route` of what the dialer of the
  path sends, with its mark or without. `ctx` is the server's context, `Tick` the passing
  of a second.
* **DnsServer**: `ListenAndServe` (`StoreCancel`, `BindUDP`, `BindTCP`, `FirstError`,
  `WaitLoops`), `Shutdown`, the two loops (`Accept`, `DeadlinePasses`, `SocketClosed`,
  `AcceptFails`), composed with the handlers and with `Gateway`, whose steps interleave
  with theirs: a tunnel may be lost or a policy cleared between a query and its retry.
  `ListenAndServe` waits for the loops only; the handlers then end with gotun-dns, or live
  on in a caller that does (`WaitLoops` has both).
* **Prefixes**: prefixes over addresses of `W` bits, what they cover (`Coverage`), and
  the least set of blocks with a coverage (`Best`). No variables.
* **Collapse**: `CollapseIPv4`; each loop is a value of `pc`, each iteration a step. `list`
  is the slice a loop ranges over, `i` its index, `n` the length of `deduped`, which
  shares the array, and `out` the slice or stack being built.
* **PrefixSource**: a release of the database, and what the two readers take from its
  two forms. No variables.
* **PrefixList**: fetch and amnezia step by step, from `Start` to `Close` or `WriteSites`,
  with their failures and `Kill`; what an apply reads from the list at any moment
  (`DirectFromFile`, `DirectFromDir`).
* **MCApply, MCDns, MCCollapse, MCPrefixList**: the instances of the runs.
* **ApplyProofs, IsolationProofs, FailClosedProofs, ConvergenceProofs, DnsProofs,
  PrefixProofs, CollapseProofs, PrefixListProofs**: the theorems, and the lemmas about the operators
  of the models (`PrefixProofs` has lemmas only).

Definitions with a comment about a mistake (`RoutesWithoutBlackhole`,
`SubsystemsNftLast`, `NftListAlwaysDelete`, ...) are variants of the definition that
follows them. No action uses them; each shows, when put in its place, that a
property of a run notices the mistake.

## What is abstracted

* A prefix is the set of destinations it covers; `Addr4` is 0.0.0.0/0. A destination
  is a block of addresses with one fate, or a single address (`Hosts`).
  `DirectPrefixes` are what `CollapseIPv4` returns, kept as the set they cover.
  In `Prefixes` and the modules built on it a prefix is its bits and its length.
* Mark, table, priority and metrics are the defaults, which the command line always
  uses. The mark of a live rule and the hook and priority of a live chain are
  therefore always the wanted ones; `liveHasRule` and `semanticMatchJSON` compare
  them and the model does not repeat it.
* `changes` is a Boolean: whether a change was counted, not how many.
* A loop over AllowedIPs visits them in any order.
* A command succeeds or fails as a whole. Parsers are modelled by what they read
  from a listing: `elemToCIDR` and `setNameFromMatch` accept only some of the forms
  nft prints (`Hosts`, `SetReference`), `RuleListed` is the substring search.
* The nft batch is atomic. On a table that was not deleted first it extends the sets
  and appends to the chains, which is what happens when the listing failed.
  Overlapping elements of `home_nets` are refused; elements of `ru_nets` that overlap
  with live ones are not modelled, as sets of addresses have no such overlaps.
* Keys, endpoints and addresses are texts that are equal or not, and AllowedIPs and LANs
  are listed as they were given. A host name as endpoint, or a prefix that is not masked,
  would be listed differently (`config.go:124`, `nftables.go:116`) and never match.
* A policy that cannot be loaded or parsed (`commands.go:56-132`) is one that does not
  validate: either ends the apply before its first command.
* LANs are IPv4 prefixes. The port a device chooses when it has no `ListenPort` is
  not modelled: `semanticMatch` does not look at it then.
* DNS: a message is unreadable, has other than one question, or asks for a name; a name
  is the sequence of its labels, as suffixes match at dots only. Time is counted in
  seconds and passes only while a handler waits. An exchange is one step that answers,
  truncates, fails or expires. A query is kept until its reply is written; whether that
  reply arrives is stated as being in time (`PromptClientAnswered`). What is sent to a
  socket that is not open leaves no trace.
* Collapse: `sort.Slice` is a sequence of exchanges of neighbours in the wrong order, which
  stands for its result only. Prefixes that compare equal are equal, so any sort gives the
  same list. Adding the
  size of a half to a parent sets one bit and cannot carry.
* Prefix list: a file is the sequence of what its lines read as. A write puts down a
  line, nothing, or a part of it; a part reads as garbage, as the prefix (only the
  newline is missing), or as a prefix with the first digit of its length. Lengths are
  written in base `Base`. An apply reads the list in one step, at any moment of a
  fetch. `CollapseIPv4` is taken by its result there, which `collapse` checks. Rows are
  a set: the order of the files does not matter once they are collapsed.

## Runs

The destinations are a direct block, a direct single address, a foreign block, two
LANs, two endpoints and an IPv6 address: one for each way a packet can be treated,
and a second LAN and endpoint so that policies differ in them.

| Run | Processes | Faults | Checks | Distinct states |
|---|---|---|---|---|
| `apply_single` | 1 | 2 | `TypeOK`, `SuccessConverges`, `DeviceConverges`, `FailClosed`, `HomeIsolation`, `ReapplyTouchesNothing`, `RecoveryByApply`, `ImplementsGateway` | 456 thousand |
| `apply_concurrent` | 2 | 1 | `FailClosed`, `HomeIsolation` | 1.1 million |
| `apply_repeat` | 1 | 2 | `ZeroChangesOnReapply` | 71 thousand |

| Run | Instance | Checks | Distinct states |
|---|---|---|---|
| `dns` | two queries, `Timeout` 1, `Grace` 1 | `DnsTypeOK`, `ReplyMatchesQuery`, `GeoEgressIdentity`, `PromptClientAnswered`, `HandlerBounded`, `NoSilentExit`, `HandlerEnds`, `ShutdownStops`, `OneDownAllDown` | 126 thousand |
| `collapse` | 3 bits, lists of 2 prefixes, sets of 5 blocks | `CollapseTypeOK`, `SameCoverage`, `Minimal` | 143 thousand |
| `prefix_list` | 3 bits, base 2, four releases | `ListTypeOK`, `SuccessIsComplete`, `OldListSurvives`, `DirectOnlyInCountry`, `SourcesAgree`, `NoPanic` | 189 thousand |

Applies and clears may follow each other without bound: the state space is finite
without a bound on their number. `MaxFaults` is the only bound. Two faults are enough
for one to leave a partial state and a second to hit the apply that repairs it (in a
subsystem, or by losing a link behind it); a third would only repeat this, as an
apply compares each object on its own. With two processes one fault is enough for
an interleaving that neither a fault nor the other process causes alone.

* `apply_single` uses five policies: the lab's, without direct prefixes, with another exit
  peer, a moved endpoint and another LAN, with the tunnel down, and one `validate` rejects. wg-exit
  exists at the start or not.
* `apply_concurrent` toggles the tunnel in two processes. The processes are
  interchangeable (symmetry). `SuccessConverges` is not checked there: an apply that
  ran next to another is not expected to have the last word.
* `apply_repeat` has a tunnel that is up, and also an IPv6 endpoint and nested LANs,
  which nft refuses.
* The passing runs suppose that nft prints a reference to a set as an object, the form the
  repository's tests use (`SetReference = "object"`). With the string libnftables prints,
  a table with `home_nets`, that is one for a policy with clients, never matches
  (`listing_forms`): then an apply replaces it each time, and `ReapplyTouchesNothing` and
  `ZeroChangesOnReapply` hold for policies without clients only.

* `ImplementsGateway` in `apply_single`: whatever the commands do step by step, and
  whatever fails, the packets see the abstract gateway. `DnsServer` builds on `Gateway`,
  so `GeoEgressIdentity` rests on what the run, and `GatewayImplemented`, show of apply: its
  half about direct names on `Plain`, which holds of table main only as long as no policy
  has the direct resolver among its AllowedIPs (`ResolverOutside`; `full_tunnel` shows what
  happens else). What the DNS model adds to it is that a direct name is dialled without the
  mark, the retry included.
* `dns`: handlers meet in the context, the buffer of `serveUDP` and the time only, so two
  queries are enough for one to disturb another. Every form of query is asked over one
  of the transports, as the transport has no part in the choice of the path. With
  `Timeout` and `Grace` of one second an exchange, a late client and a retry each fall
  on either side of each deadline. Queries may follow each other without bound.
* `collapse`: three bits have blocks of four lengths, the whole space and single
  addresses included; five blocks are enough for a cascade of merges from the longest
  length to length 0 next to one that is not part of it. Lists of two cover prefixes
  that are not masked, equal, nested and in the wrong order.
* `prefix_list`: in base 2 the lengths 2 and 3 have two digits, as 10 to 32 have in the
  code. The releases are a common one, one with more blocks (so a list may be replaced
  by a longer or a shorter one), one with a block used on a continent, and one with a
  malformed row; each has blocks with a place, with a registration only, of another
  country, and IPv6. Commands follow each other without bound.

Every command may fail in some run, but not in each: `apply_single` excludes failures
of `nft -j list`, of the flush of table 100 and of the deletion of wg-clients by clear.
The configurations `failed_listing`, `failed_flush` and `clear_fails` of the next section
have one of these failures each, and show which property it breaks.

**Fairness.** `FairSpec` has weak fairness of `Process(self)`: a process that has begun
a command runs on, as the Go code does without waiting for anything but the command it
has started. Nothing forces an operator to start a command, a fault to happen, or a
process not to be killed. `RecoveryByApply` speaks of an apply that begins when no
faults are left. In `DnsServer` the goroutines run on when they can (weak fairness of
`Listen`, of the ends of the loops, of accepting and of the steps of a handler) and time
passes however busy they are (strong fairness of `TimePasses`: a second does not wait
for a moment without work). Clients, upstreams, the gateway and whoever calls
`Shutdown` are under no fairness: a client may never send its query, and an upstream
may never answer.

**Mutants.** For each property of each run one definition is replaced by a mistake that
would be easy to make, and TLC finds the property violated: the blackhole left out, nft
run after WireGuard, the `ru_nets` comparison forgotten, `delete table` issued always,
a failed listing taken for a match, a dump compared by its keys only, an untrimmed value; a datagram that is not copied, a
retry without the mark, a deadline without grace, a timeout for the first exchange only,
sockets left open; siblings by size, a merge without the
next; a write whose error is dropped, a list opened before the new one is at hand, or
appended to.

## Findings

Six runs check what a document, comment or test says and find a counterexample.

* `blackhole_reapply` (`BlackholeStays`): with an unmanaged wg-exit that is gone, an
  apply flushes table 100, fails to add the device route, and returns before it adds
  the blackhole. Marked traffic then uses main. Adding the blackhole first avoids it.
* `full_tunnel` (`EndpointNotViaTunnel`): AllowedIPs = 0.0.0.0/0 become the default
  route of main, so direct traffic and the encapsulated packets enter wg-exit.
* `drop_inbound` (`HomeIsolation`): an apply without a clients config, and with another
  direct list, removes the isolation and leaves wg-clients up. With the same list, endpoint
  and LANs the comparison overlooks the extra set and chain, and the isolation stays.
* `lookalike_rule` (`FailClosed`): a foreign rule `5100: fwmark 0x10 lookup 1000`
  passes for the owned one.
* `listing_forms` (`ZeroChangesOnReapply`): a /32 is listed as a bare address and a set
  reference as a string; neither is recognised, so the table is replaced on each apply.
  The forms are those of libnftables-json; the unit tests use others.
* `dropped_host` (`FailClosed`): a single address that is dropped from the direct list stays
  direct: `elemToCIDR` does not see the bare address nft lists, so the live table still
  matches. Met in proving `FailClosed`, as the hypothesis `KnownFirewall` could not be
  done without.

The passing runs and the theorems except some cases on purpose: by a hypothesis, an
exception in a property, or a command that does not fail. For each there is a configuration
that lets the case happen, and TLC finds the counterexample in seconds. The hazards in
`PROJECT.json` name them.

| Configuration | Module | Violates | What happens |
|---|---|---|---|
| `clear_fails` | MCApply | `HomeIsolation` | a clear that cannot delete wg-clients deletes the isolation all the same and reports success |
| `clear_races` | MCApply | `HomeIsolation` | a clear deletes the nft table behind an apply that has passed it and then brings wg-clients up |
| `failed_listing` | MCApply | `FailClosed` | a listing that fails counts as a missing table; the batch extends the live sets, and what was dropped from the direct list stays direct |
| `failed_flush` | MCApply | `SuccessConverges` | the error of the flush of table 100 is dropped; with an unmanaged wg-exit the route of the tunnel outlives an apply that turns it off, against README.md:50 |
| `repeat_down` | MCApply | `ZeroChangesOnReapply` | with the tunnel down each apply sets wg-exit down and counts it, against README.md:70 |
| `roamed_peer` | MCApply | `ZeroChangesOnReapply` | once a client has connected its endpoint is learned, the policy has none, and `wg set` cannot remove it |
| `rotated_peer` | MCApply | `ZeroChangesOnReapply` | after the key of the exit was changed the old peer is still the first of the dump, the only one compared |
| `cut_line` | MCPrefixList | `PartOfListInCountry` | a short write within the last length widens a prefix, 10.0.0.0/16 to 10.0.0.0/1; a temporary file that is renamed would rule this out. `DirectOnlyInCountry` excepts it |
| `late_errors` | MCPrefixList | `SuccessIsComplete` | the error of `Close` is dropped, so a fetch succeeds whose writes fail as late as that |
| `busy_shutdown` | MCDns | `ShutdownReturns` | a shutdown is not seen while both sockets have a client within every second, against the comment at `server.go:70` |

`ShutdownStops`, which passes, excepts sockets that are asked again and again for ever; as
it does not count the time between two clients, it also excepts traffic so sparse that the
code would stop.

Also met while modelling:

* a block used on a continent counts for its registration in the MMDB and not in the CSV
  (`Located` in `SourcesAgree`);
* the reply after a TCP retry may come after the deadline of a TCP client (`~h[c].late` in
  `PromptClientAnswered`);
* a shutdown before `cancel` is stored has no effect;
* a tar.gz under the zip address is not handled, although `maxmind.go:30` says so;
* an empty `-country` is not rejected, and selects the blocks that have no country
  (`WantNamed` in the theorems about the list).

## Proofs

TLAPS checks every proof; the constants are arbitrary but for the named assumptions
(`PolicyAssumption`, `PrefixAssumption`, `RunnerAssumption`, `SetReferenceAssumption`,
`ApplyAssumption`, `ResolverAssumption`, `WidthAssumption`, `InputsAssumption`,
`NetworksAssumption`, `ListAssumption`, `DnsAssumption`, `SentAssumption`), which TLC evaluates in the
runs that extend the module. What a theorem needs beyond them is a hypothesis with a name, and each is met by the instance of the run that checks the
property. The inductive invariants were checked with TLC on the same instances; they are
not properties of a run, since the theorems cover them.

| Theorem | States | Hypotheses |
|---|---|---|
| `TypeCorrect` | `TypeOK` | |
| `HomeIsolationHolds` | `HomeIsolation` | `Isolating`, `ClearSafe` |
| `FailClosedHolds` | `FailClosed` | `ClearAlone`, `NoLookalike`, `SameFirewall` or `KnownFirewall` |
| `GatewayImplemented` | `ImplementsGateway` | the same, `ResolverOutside` |
| `SuccessConvergesHolds` | `SuccessConverges` | `NoLookalike`, `SameFirewall` or `KnownFirewall`, `FlushSafe`, `CarriesTunnelled` |
| `ReapplyTouchesNothingHolds` | `ReapplyTouchesNothing` | `NoLookalike`, `SameFirewall` or `KnownFirewall`, `FlushSafe`, `Listable`, `SeparateRoutes` |
| `DeviceConvergesHolds` | `DeviceConverges` | the same |
| `ZeroChangesOnReapplyHolds` | `ZeroChangesOnReapply` | the same, `AlwaysUp`, `OnePeer` |
| `DnsTypeCorrect`, `ReplyMatches`, `PromptAnswered`, `HandlersBounded`, `NoSilentExits` | `DnsTypeOK`, `ReplyMatchesQuery`, `PromptClientAnswered`, `HandlerBounded`, `NoSilentExit` | |
| `EgressIdentity` | `GeoEgressIdentity` | `MarkAgrees` |
| `CollapseTypeCorrect`, `CoverageKept`, `ResultMinimal` | `CollapseTypeOK`, `SameCoverage`, `Minimal` | |
| `ListTypeCorrect`, `ListSurvives`, `NeverPanics` | `ListTypeOK`, `OldListSurvives`, `NoPanic` | |
| `SourcesGiveSame`, `DirectInCountry` | `SourcesAgree`, `DirectOnlyInCountry` | `WantNamed` |
| `SuccessComplete` | `SuccessIsComplete` | `WantNamed`, no `LateErrors` |

**`TypeCorrect`**. `TypeOK` is not inductive: that `SysctlSpecs[n]`
and the n-th route exist, and that `wg[phase]` is a device, depends on where the process
is. `Control` adds this: the label belongs to the phase, `n` is within the list being
walked. The proof goes by subsystem. For each, a summary of what its commands do to a
process (`Effect`) is enough for types and control, and the kernel objects it changes
are typed by lemmas about the operators (`NftBatchType`, `WGSetPeerType`, ...).

**`HomeIsolationHolds`**, if all policies manage wg-clients
(`Isolating`) and clears are not run next to another command and can delete wg-clients
(`ClearSafe`). `drop_inbound` shows that the first hypothesis is needed, `clear_fails` and
`clear_races` that the second is. `HomeIsolation` says nothing about the
moments before the link is up, so `IsolationInv` records what makes it come true: a
process in a WireGuard phase, or past a successful `nftables.Reconcile`, has seen or
made a table that isolates (`MatchIsolates`, `BatchIsolates`), only a clear undoes this,
and a clear that has passed the links finds wg-clients gone. It holds for any number of
processes, policies and faults, failing listings and lost links included; the runs
check it for two processes.

**`FailClosedHolds`**. `FailClosed` speaks of moments at which nobody is at work, so the
invariant has to say what the others will still do, in two parts.

* `FirewallInv`: who is past `nftables.Reconcile` has a live table that serves its
  policy, that is, one with a mark rule and no exclusion or element of `ru_nets` that
  covers a tunnelled destination; the installed policies are served unless somebody is
  at work or has failed. The listing (`MatchServes`) and the transaction (`BatchServes`)
  each establish it. That they do takes one of two hypotheses: all policies want the same
  of the prerouting chain (`SameFirewall`, then the table may even be extended after a
  listing that failed, in any interleaving), or applies follow each other, can list the
  table, and name no single address (`KnownFirewall`, then the live table is always one
  compiled from some policy, and `semanticMatchJSON` tells two of those apart).
* `RoutingInv`: whoever has passed the ip rule or table 100 leaves `OwnedRule` and the
  blackhole in place, unless some process has still to see to them or has failed. Another
  apply may delete the rule or flush the table behind the back of one that succeeded, but
  only on the way to adding it again, and then the command is still running. `NoLookalike`
  makes what `strings.Contains` finds the owned rule (`lookalike_rule` shows the need), and
  `ClearAlone` keeps a clear from removing what an apply next to it reports as done.

`apply_single` meets `KnownFirewall` and `apply_concurrent` `SameFirewall`. Without them
there are counterexamples: two applies of policies with different lists, `failed_listing`
and `dropped_host`.

**`GatewayImplemented`**. The initial state maps to an initial state, and every step to one
of `Operate` (no promise after it), `Install` or `TunnelLost`. From the invariants above
a promised destination leaves by table 100 (`PromiseKept`); from one quiet state to
another leads no step of a process (`QuietStep`), and a lost link takes its own routes
and not the blackhole, so a promise is closed and never opened. That every packet has one
of the gateway's ways needs `MainInv`: main has finitely many routes, all of prefixes, so
longest-prefix match picks one (`LongestPrefix`). For the unmarked packets to the direct
resolver it has to pick the default route: all other routes of main are AllowedIPs of some
policy (`MainInv`), none of which covers the resolver (`ResolverOutside`), so none replaces
the default either (`DefaultInv`). DnsProofs assumes no more of the gateway than this specification.

**`SuccessConvergesHolds`**. The three theorems of ConvergenceProofs are about an apply that
was not interfered with; that it then runs alone, and that a policy is `stable` only while
nobody is at work, is `SoleInv`. `ConvergedInv` has two layers.

* What holds of every state, whoever made it: the live table says nothing that a
  policy does not say, or is one compiled from a policy (`TableInv`), routes of main through wg-exit are AllowedIPs of some
  policy (`CarriedInv`), routes lead only through a link that is up (`LinkInv`), and a
  process works on an interface as its policy wants (`ModeInv`).
* What the undisturbed apply has achieved in the subsystems behind it (`ProgressInv`):
  forwarding, a table that filters as the policy says (`Filters`), the ip rule, and table
  100 with exactly the routes of the policy (`Routed`). Each comparison and each command
  that sets something establishes its part, no later subsystem disturbs it, and at
  `ReturnOk` the parts together are `Converged` (`StableConverged`).

`SuccessConverges` is stronger than `FailClosed`, direct traffic must not enter the tunnel
either, and this is where the two new hypotheses come from. AllowedIPs become routes of
main and stay there when another policy is applied, so every policy must tunnel them
(`CarriesTunnelled`; `full_tunnel` breaks it). The error of the flush of table 100 is
dropped, which leaves the route of a tunnel that the policy no longer has, unless wg-exit
is managed and has been taken down before (`FlushSafe`; `failed_flush`). A clear next to
an apply needs no hypothesis here: it makes the apply one that was interfered with.

**`ReapplyTouchesNothingHolds`**. `FixedInv` follows `ProgressInv` subsystem by subsystem and
says that the state each leaves behind is a fixed point of the commands of a second apply:
a comparison succeeds, or the command it leads to writes what is there already (a key, a
peer, an address, a route of main, a link set down). The two WireGuard phases share main,
so what wg-exit has settled must survive wg-clients (`SeparateRoutes`: a prefix given to
both interfaces would go from one to the other in each apply). `Listable` is what
`listing_forms` lacks: no single direct address, and set references listed as objects
unless no valid policy has clients. Without it the table is deleted and made again, so for
a moment it is not there.
`CarriesTunnelled` is not needed, since nothing is said of what the packets do.

**`DeviceConvergesHolds`**. In a fixed point the peer of the policy has all it was given: a dump
that matches shows it (`MatchIsPeered`), and `wg set`, if it changes nothing, finds it there
(`SetIsPeered`). That no other peer has one of its AllowedIPs takes `ApartInv`: `wg set` takes
them from the others, and nothing gives them back.

**`ZeroChangesOnReapplyHolds`**. A command that writes what is there is counted all the same, so
here every comparison must succeed: `ReadOnlyInv` says that a repeated apply is at a command
that reads and has counted nothing. `ip link set down` is run and counted without
comparison (`AlwaysUp`; `repeat_down`). `wg set` removes no peer, and what a policy leaves
out of a peer stays, while the comparison wants one peer that is equal, so a policy that
follows another with a different peer, or with less of it, is never seen as applied
(`OnePeer`, which also covers the learned endpoint; `rotated_peer`, `roamed_peer`); `PeersInv` is what
`OnePeer` makes of the devices.

**DnsProofs**. One invariant, in three parts: `HandlersInv` (a property of the record of
one client, so the number of clients does not matter: what its handler holds is what the
client asked, how old it can be at each point, and which way its exchange took),
`PromiseKept` (what the gateway promises is closed) and `ServerInv` (context, sockets,
loops and error channel of `ListenAndServe` at each of its points). `MarkAgrees` says that
the mark of the dialer is the one of the ip rule; both have the same default and neither
checks the other.

**CollapseProofs**. The coverage of what the loops hold (`Live`) is the same after every
step: removing a duplicate or a contained block covers the same, and the parent covers
exactly the two siblings (`MergeCovers`). That the result is minimal takes the order:
`OrderInv` says that the stack is sorted, disjoint and has no siblings, and that what is
still to come is not before its top, so that a merge can only be with the top; that no
smaller set has this coverage follows from the bits of an address (`PrefixProofs`).
Induction over lists and bits is not available to the provers; each such
argument takes the least or greatest index with a property instead (`LeastNatural`,
`GreatestNatural`), or a well-founded order.

**PrefixListProofs**. `TypeInv` has what each point of a command knows (the list is open for
writing only after the country is loaded, and untouched before); `CountryInv` that the
prefixes loaded, the lines to be written, and every line of the file but a last one that
was cut, cover addresses of the country. The two readers agree by `CSVGivesCountry` and
`MMDBGivesCountry`; the lines written are those of the collapsed list, in order, as the
rank of a prefix in a finite set is a bijection (`SortedElements`).

Only model-checked: liveness (`RecoveryByApply`, `HandlerEnds`, `ShutdownStops`,
`OneDownAllDown`), which is out of the prover's reach. Every
invariant of a passing run is proved, and so are `ReapplyTouchesNothing` and
`ImplementsGateway`.

## Not modelled

`SemanticEqual`, `SwapSetElements`, `CountSetElements`, `RecordingRunner` and
`wireguard.SetDown` have no caller outside tests; `FetchFromMMDB`, `FetchGeoLite2CountryCSV`
and `LoadCountryPrefixes` are the same steps as `FetchPrefixes` under other names. Parsing
of flags and of wg-quick files gives the policies that are inputs here. The contents of
archives, the columns of CSV files and the layout of the Amnezia JSON are formats without
control of their own: what they make fail is modelled, not how they look. Lengths of DNS
messages are not modelled, nor are two fetches at once, nor an apply that reads the list
in pieces while it is replaced. Lab servers and harness are test infrastructure.

## Plan

1. Done: Policy, Kernel, Runner, the four reconcilers, Apply; type correctness and home
   isolation proved.
2. Done: the abstract gateway and the refinement, the DNS server on top of it, collapsing,
   and the prefix list.
3. Done: all invariants of the DNS server, of collapsing and of the prefix list, and
   `FailClosed` and the refinement, proved.
4. Done: `SuccessConverges`, and on top of it `ReapplyTouchesNothing` and
   `ZeroChangesOnReapply`, proved; the devices, and a configuration for each case a
   property excepts.
