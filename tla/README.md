# A verification project for OpenGFW

OpenGFW is a censorship firewall in user space: the kernel queues packets to it
(nfqueue), worker goroutines reassemble the streams and feed them to protocol
analyzers, rules written as expressions are matched against the properties the
analyzers report, and each packet gets a verdict that lets it through, drops it,
rewrites it, or settles its whole stream. This directory models that program in
TLA+, checks the models with TLC and proves theorems about them with TLAPS.

## The system

| component | state it keeps | operations | talks to |
|---|---|---|---|
| engine (`engine/engine.go`) | the workers, the contexts, one error | `Run`, `dispatch`, `UpdateRuleset` | registers a callback with the IO, sends packets to the workers' channels |
| worker (`engine/worker.go`) | a bounded channel, the TCP assembler and pool, the UDP stream manager | `Feed`, `Run`, `handle`, `UpdateRuleset` | the stream factories; answers each packet through its `SetVerdict` |
| TCP streams (`engine/tcp.go`) | per factory the ruleset; per stream active and done entries with quotas, properties, last verdict, `virgin` | `New`, `Accept`, `ReassembledSG`, `ReassemblyComplete`, `UpdateRuleset` | gopacket's assembler calls them; they call the analyzers and the ruleset |
| UDP streams (`engine/udp.go`) | as TCP, and an LRU cache of streams by conntrack ID | `MatchWithContext`, `Match`, `New`, `Accept`, `Feed`, `Close`, `UpdateRuleset` | analyzers, ruleset, modifiers |
| packet IO (`io/nfqueue.go`) | whether its kernel rules are set; the kernel's rules, marks and queue | `Register`, `SetVerdict`, `Close`, protected dialling | the kernel, the nfqueue library |
| ruleset (`ruleset/expr.go`) | compiled rules (immutable) | `CompileExprRules`, `Analyzers`, `Match` | analyzers by name, modifiers, geo matcher, built-in functions |
| geo (`ruleset/builtins/geo`) | the databases, matchers by condition, the downloaded files | `MatchGeoIp`, `MatchGeoSite`, `LoadGeoIP`, `LoadGeoSite` | files, the network |
| analyzers (`analyzer/**`) | parser position, buffers, what was found | `Feed`, `Close` | only the engine calls them |
| modifiers (`modifier/udp/dns.go`) | their arguments (immutable) | `New`, `Process` | UDP streams call them |
| command (`cmd/root.go`) | the context, two goroutines that wait for signals | start, reload on SIGHUP, stop on SIGINT and SIGTERM | engine, ruleset, IO |

Hard behaviour: several goroutines (dispatcher, workers, reload, shutdown) and
bounded channels between them; a ruleset that is replaced while streams live;
an analyzer protocol (feed, done, limit, close) spread over four functions and
two lists; verdicts that are remembered and replayed; a cache that forgets live
streams and IDs that are used again; packets lost to a full queue; kernel rules
and half downloaded databases that survive a crash; a rules file that is read while
somebody writes it. What makes each part correct is listed with its module below; `PROJECT.json` lists every hazard at its line.

## Modules

| module | models | abstract specification |
|---|---|---|
| `Verdicts` | actions, verdicts, their translations, property updates | |
| `TCPStream` | `engine/tcp.go` and the TCP half of `worker.go` | `StreamVerdict` |
| `TCPStreamProofs` | theorems about `TCPStream` | |
| `UDPStream` | `engine/udp.go` and the UDP half of `worker.go` | |
| `UDPStreamProofs` | theorems about `UDPStream` | |
| `Engine` | `engine/engine.go`, the goroutines and channels of `worker.go` | `PacketOrder` |
| `EngineProofs` | theorems about `Engine` | |
| `NFQueue` | `io/nfqueue.go` and the kernel around it | |
| `NFQueueProofs` | theorems about `NFQueue` | |
| `Reload` | `runMain` of `cmd/root.go`, its reload goroutine, `UpdateRuleset` of engine and workers | |
| `GeoLoader` | `geo_loader.go`, `v2geo/load.go`: download, age and parsing of a database | |
| `ReloadProofs` | theorems about `Reload` with `GeoLoader` | |
| `ExprRuleset` | `ruleset/expr.go`: compiling rules, and matching them | |
| `GeoMatcher` | `geo_matcher.go`, `matchers_v2geo.go` | |
| `RulesetProofs` | theorems about `ExprRuleset` and `GeoMatcher` | |
| `LSM` | `analyzer/utils`: buffers, steps and their answers; running them, and the `Feed` made of that | |
| `StreamParser`, `DatagramParser` | the life of an analyzer, as the engine calls it | |
| `HTTP`, `TLS`, `SSH`, `SOCKS`, `OpenVPNTCP`, `DNS` | the analyzers that read a stream of bytes | |
| `OpenVPNUDP`, `WireGuard`, `QUIC`, `Trojan`, `FET` | the analyzers to which each packet is one | |
| `DNSUDP` | the DNS analyzer over UDP, a rule on it, and the DNS modifier behind them | |
| `OpenVPN`, `TLSHello` | what two of them share; the parser of a hello, and its format | |
| `StreamParsers` | SSH, OpenVPN and DNS over TCP, one of them in each behaviour | |
| `StreamProofs` | theorems about `StreamParsers` | |
| `DatagramParsers` | OpenVPN, WireGuard and DNS over UDP, Trojan and FET, one of them in each behaviour | |
| `DatagramProofs` | theorems about `DatagramParsers` | |
| `MCTCPStream`, `MCUDPStream`, `MCNFQueue`, `MCRuleset` | small instances for TLC; `Engine` and `Reload` need no more than a `.cfg` | |
| `MCStreamParsers`, `MCDatagramParsers` | all analyzers of one kind, in one run, with what `MCTLS` and `MCSOCKS` feed to two of them | |

How they fit together. `Engine` carries a packet from the IO to a worker and back
and says nothing of its contents; `TCPStream` and `UDPStream` are what that worker
does with it, one packet a step. They may be so because a worker is one goroutine:
between `Take` and `SetVerdict` of `Engine` nobody else touches its streams but
`UpdateRuleset`, which the stream modules let come between any two packets. (In the
code it takes a lock that only `New` shares, so it never comes between two
statements of `New` either, and other functions use the ruleset their stream was
born with.) Which factory has which ruleset at which moment is `Reload`; what a ruleset
answers is any function in the stream modules and is computed in `ExprRuleset`, whose
geo functions are `GeoMatcher`'s, on a database that `GeoLoader` has loaded. An analyzer
is any answer in the stream modules; the analyzers' own modules say which answers
there are, under the calls that `EntryProtocol` allows. `NFQueue` has the kernel's
side of a verdict.

### TCPStream

One worker's TCP half. `ruleset` is the factory's, `pool` the stream of each flow
the assembler knows, `closed` the directions it has seen the end of, `ctx` the
`tcpContext` of the packet handled last. A step is one packet: `Replay` (`Accept`
refuses it), `Hold` (the assembler keeps or ignores its bytes), `Reassembled` and
`ReassemblyComplete` (one scatter-gather is delivered; with the second FIN or RST
the stream is also closed and forgotten), or a reload (`UpdateRuleset`). The
assembler is external and modelled from how it calls the stream. Payload is its
length; what an analyzer makes of it is any outcome of `analyzer.TCPStream`. `obs`
is history that no action reads: the calls an analyzer got and how its service
ended, and the properties reported while analyzers were running.

Correct means: an analyzer that is done is neither fed nor closed again
(`EntryProtocol`); no limit is exceeded (`LimitRespected`); the rules have seen what
was reported, at the latest when the last analyzer is done (`NothingMissed`); a
settled stream stays as it is (`StickyVerdict`). `StreamVerdict` is the promise: a
flow is open or judged, a judged flow gets its judgement with every packet.

### UDPStream

As TCPStream, with the LRU cache (`streams`, `recency`) in front. `IDOf` gives a
flow's conntrack ID, so two flows may share one. Modifiers may fail, and so may
serialising what they made; `given` is what `SetVerdict` gets for the packet.
A limit is met in whole packets: an analyzer that is still served is below it, which
`EntryProtocol` says here. `Isolation` says that no stream was fed a packet of another
flow, and `DirectionKept` that a flow's direction does not turn round. `StickyVerdict`
holds of a settled stream until the cache forgets it or a flow with the same ID
displaces it.

### Engine

`run`, `io` and `worker` are program counters of the goroutines, `queue` the
channels, `verdicts` the order of the answers, `passed` what `dispatch` lets through
itself. A packet is its place in the order of arrival and its stream ID.
`EachPacketOnce` says that the places a packet can be in (the dispatcher, the
channels, the workers, answered) are a partition of all that came. `PacketOrder` is
the promise: the packets of a stream stand in one line and are answered first come,
first served.

### NFQueue

`chains` are the program's rules in the kernel, `mark` the conntrack marks, `pending`
the packets in the queue, `pc`, `rSet` and `todo` the process on its way through
`Register` and `Close`. `Arrives` sends a packet through the rules of its chain in
their order, `SetVerdict` leaves a mark, `ProtectedDialContext` opens a connection
while a packet waits. A process may fail in its setup or removal, or be killed
anywhere, and another starts with what is left in the kernel. nft installs its rules
in one step, iptables appends them one by one.

`setupNft` deletes the table first, "to make sure no leftover rules" (`io/nfqueue.go:286`),
but ignores the error of that command, and the new rules go behind what is still there
(`nftDeleteFails`, `nftAdd`). After a kill a chain may so hold the rules of several
processes. `left` remembers that, for what is then not true: `RulesComplete` says that a
chain ends with the rules of the configuration, and that it has no others unless `left`;
`BlockedStaysBlocked` that what is blocked stays blocked, and with a reset, where one is
configured, unless `left`, since the older rules come first. `SettledNotQueued` holds all
the same.

### Reload and GeoLoader

`process`, `pc` (`runMain` at the start, the reload goroutine later), `signal` (the
buffered `reloadChan`), `file`, and the ruleset of each of the `2 * N` factories in
the order they are reached. The file is edited meanwhile; a read in the middle of an
edit finds anything. An error ends the process at its start and leaves the old rules
later. Rules with a geo function are compiled only when their database is there:
`GeoLoader` looks at the file (`shouldDownload`), fetches it step by step (`Get`,
`Write`, `WriteLast`) over a network that may fail or answer with anything else, and
parses it. The process may be killed between any two of these steps and is started
again with the files as they are.

`download` does not look at the status of an answer. An error page is stored without an
error; most do not parse, but an empty one is an empty database to `v2geo`, and is
accepted. So is the beginning of a database from a server that marks no end of it.
`sent` tells those apart from the database sent with its length.

A download cut short leaves a file that is new: for a week it is used, when it happens
to end between two entries, or its parser fails. `OnlyGoodRules` says how much of that
can reach the factories (when the server sends the database itself, with its length, all
of it is there or the rules are not installed), `Recovers` that it is not for good. `ReloadsLastEdit` is that no signal is lost that
matters, although `reloadChan` has one place.

### ExprRuleset and GeoMatcher

`ExprRuleset` compiles one list of rules, rule by rule, and then matches it against
any set of analyzers that have reported. An expression is what expr-lang shows of it:
the names in it, its variables, and its value for each such set. `FirstTrueRuleDecides`
compares `Match` with the list as it is written: the first rule with an action whose
expression is true, errors being passed over and rules without an action only logged.
`NoLoadInMatch` says that a stream never waits for a database: it was loaded when the
rules were compiled. An identifier that is neither an analyzer's name nor a function's
nor a variable's is passed over; a variable that hides an analyzer's name keeps it out
of what the streams are given.

`GeoMatcher` has the sort of a list's networks and the binary search over them, the
domain matcher with its attributes, and the matchers kept by condition.
`AddressesByTheList` and `SitesByTheList` compare the answers with the lists, for the
first question and for every later one. A network may be written with any of its
addresses; networks of one list do not overlap, which the search takes for granted.

### The analyzers

`LSM` is the code all parsers of streams share: the rounds of the machine are a function of
how many there were, so that theorems can speak of them; the two steps of `OpenVPN`,
which never start again, it runs by itself. In `StreamParser` a conversation is
cut into chunks at every place, fed in every order of its two directions, and may
have a gap; in `DatagramParser` any sequence of packets is fed. `shown` is what the
rules know: the map of a parser is the engine's too, but rules are asked only when
it is reported. Each module defines, next to the code, what its format is, as sets
and relations over the bytes fed so far, and states that the two agree at every
moment:

| module | property | says |
|---|---|---|
| `HTTP` | `ReportsWhatWasSent` | the rules know the first line and the headers that have come whole |
| `TLS` | `ShowsTheHello` | the rules know the hello the bytes contain, and no other |
| `SSH` | `ReadsVersionLines` | a version line is recognised and taken apart, and only one |
| `SOCKS` | `KnowsWhatWasSaid` | the rules know what both sides have said in the client's version |
| `OpenVPNTCP` | `EveryPacketCountedOnce` | counted and waiting packets are those that came whole; the client began |
| `OpenVPNUDP` | `CountsWhatFitsIn` | packets are counted that belong to the session |
| `DNS` | `ShowsTheLast`, `ReadsOnUntilGarbage` | a chunk that completes messages shows the last of them; only garbage or a gap ends the inspection |
| `DNSUDP` | `RewritesAnswers`, `KnowsTheLastMessage` | answers to the name in question are rewritten, by what they say themselves, and nothing else is |
| `WireGuard` | `KnowsTheSession`, `GivesUpAfterGarbage` | kind of the last message, whose index its receiver is; when a stream is given up |
| `Trojan` | `JudgesWholeTurns` | four turns are judged by their lengths, however they are cut |
| `FET` | `JudgesFirstChunk` | the first chunk with data is judged, once, by the five measures of all of it |
| `QUIC` | `ReportsTheHello` | the first hello that comes whole is reported |

`JudgesTraffic` is the properties of `Trojan` and `FET`. When an analyzer says that it is
done, `ReadsOnUntilGarbage` says of DNS; of HTTP, TLS and SOCKS it is the second half of
the property of that analyzer (`FinishedWhenParsed`, `ReadToTheEnd`). Analyzers share no
state, so the two `MC...Parsers` modules put one of them into each behaviour: what an
analyzer does in company is what it does alone.

## Runs

| run | instance | what it shows |
|---|---|---|
| `tcp_stream` | one flow, two analyzers (one limited to 2 bytes), rulesets that decide on properties, never, or on sight; up to 2 bytes per segment | analyzer protocol, limits, rules asked in time, verdicts kept; `StreamVerdict` implemented |
| `udp_stream` | in depth: one flow, two analyzers, rules for all five actions, modifiers that may fail; shared: four flows, three IDs, room for two | analyzer protocol, whole-packet limits, rules asked in time, direction kept; no stream sees another flow's packets, settled streams stay settled while they are cached |
| `engine` | two workers, three streams, one place per channel, four packets, fair | no packet lost or answered twice, one worker per stream, order; packets answered, `Run` returns, workers stop |
| `nfqueue` | one forwarded, one local, one protected connection, room for two packets, nft and iptables, faults | rules complete after any history, also behind rules that could not be deleted, settled connections not queued, blocked ones blocked, protected ones past the queue |
| `reload` | two workers, two edits, a geo database, a network that fails, kills and restarts | only good rules, one reload at a time, the last edit arrives, a broken download is replaced |
| `ruleset` | all lists of up to two rules of a few dozen, and of three that compile; all lists of networks over three bits; all pairs of eleven site entries | rules decide as written, no load while matching, geo functions say what the lists say |
| `stream_parsers` | conversations of at most a few dozen bytes or words per side | the stream analyzers |
| `datagram_parsers` | all sequences of up to six (OpenVPN, Trojan), five (WireGuard), three (DNS) or two (QUIC, FET) packets | the packet analyzers, and the DNS modifier |
| `udp_modify`, `udp_drop` | as `udp_stream` | disagreements with the documentation, below |
| `nfq_partial` | one local connection, iptables | as above |
| `trojan_tls` | one chunk | as above |

### Bounds

A limit of two with segments of up to two bytes (`MaxData`) meets, misses and exceeds
it in one step and in two; one mark distinguishes every property set that merge,
replace and delete can produce; streams are born, settled, completed and born again
without bound, and rulesets change without bound. One flow is enough for
`StreamVerdict` because flows share nothing but the ruleset; the theorem has any
number. The shared part of `udp_stream` has two more flows than places (`MaxStreams`) and two that
collide on an ID. Four packets (`MaxPackets`) fill a channel (`ChanSize`), a worker
and the dispatcher at once. `MaxEdits` is two: the second edit comes at every
moment of the reload of the first, and of a download.
In `ruleset` two rules show every pair of an earlier and a later one, a third has a rule
that is passed over between them; three bits have every shape of search over up to
eight networks, with an address before, in, between and behind them. The chunks of
`FET` stand at both sides of each threshold, and runs of printable bytes at both ends
and in the middle. `MaxQueueLen` is two: the queue is empty, has
room, or is full. `MaxLeft` is five, as many rules as one process has in a chain: rules
of two processes with any two configurations stand one behind the other; those of a
third would come behind both and settle nothing that the first do not (`Guards` in
`NFQueueProofs`). The analyzers' runs shorten what is only copied: a hello's random
value (`RandomLen`, 1 and 2 for 32), addresses (`Inet4Len` 2 for 4, `Inet6Len` 3 for
16), the least length of an OpenVPN packet over TCP (`MinPktLen` 2 for 6); and what is only
counted: `PktLimit` 2 for 256, `RememberedIndexCount` 3 for 6, `InvalidThreshold` and
`quicInvalidCountThreshold` 2 for 4, with `MaxFed` greater than what fills them.

### Fairness

`Engine` assumes weak fairness of `Run`, of the dispatcher's send, of the library's
check of its context, and of each worker: the Go scheduler runs every goroutine that
can run, and a select whose cases stay ready takes each of them eventually. Packets,
errors and signals may never come. `Reload` assumes weak fairness of `runMain` and the
reload goroutine (`Loader`), for the same reason; edits, signals, exits and answers of
the network need never come. `http.Get` has no timeout, so that requests end is no
fairness of the code: `ReloadsLastEdit` has it as a condition (`RequestsEnd`).
`Recovers` is about a calm end of every history (`CalmSince`): the network works, the
file is left alone, weeks pass, signals keep coming, and somebody starts the process
when it is down. All this is the environment's; it may do so from every state on.

### Deadlock

It is checked but where the system may stop: `Engine` does when `Run` has returned,
`Reload` when the process has exited, an analyzer when it is done or has been fed all
there is.

### Disagreements with the documentation

* `udp_modify`: a UDP stream may replay `VerdictAcceptModify` with no packet.
* `udp_drop`: a UDP stream may replay `VerdictDrop` for ever, although a drop
  concerns one packet.
* `nfq_partial`: rules set by an iptables setup that fails half way are not removed,
  because `rSet` does not tell of them.
* `trojan_tls`: the check that a connection is TLS is never made, because `first` is
  never set.

Seen while modelling, without a run of their own: the IO goroutine may wait for ever
in `worker.Feed` when the context is cancelled, although `io/interface.go:37` says a
callback should stop; a QUIC hello is not checked to be as long as
`analyzer/internal/tls.go:30` takes for granted; a SOCKS name above 250 bytes
overflows the byte its end is computed in (`analyzer/tcp/socks.go:306` and `:401`); a
rule with a name nobody knows is compiled, although `ruleset/expr.go:100` has it
among the errors, and one with a single argument of `cidr` panics
(`ruleset/expr.go:326`); leftover rules of nft are not made sure to be gone, though
`io/nfqueue.go:286` says so, because an error of the command is ignored.

## Proofs

Eight modules hold theorems, each for every value of the constants; the named
assumption of the module they are about is all they take for granted.

**`TCPStreamProofs`** (`ConstantsAssumption`: any flows, analyzers, limits, rulesets and
sizes) proves every invariant of `tcp_stream`, the action property `StickyVerdict` and
that `TCPStream` implements `StreamVerdict`. The inductive invariant is one fact about
one stream and its history, `StreamInv`: a quota is what is missing to the limit, the
properties of a stream under inspection are those its rules were last asked about, and
no entry of such a stream was closed early. Without these three the properties are not
inductive. `ReassembledSG` is shown to preserve it once; each action chooses a stream
and applies it. `SettledIsFinal`, that only verdicts which end a stream are replayed,
is a theorem only: the refinement run fails where it would.

**`UDPStreamProofs`** (the same, and any conntrack IDs and any capacity of the cache)
proves every property of `udp_stream`. `StreamInv` is here that of one stream of the
cache, and `FeedInv` says that `Feed` preserves it, whatever the analyzers answer, the
rules say and the modifier does. What is new is the cache: what it lists is what is
alive, each once (`TypeOK`), and `CacheInv` says that while there is room and an ID for
every flow, each flow that has begun has its stream, with the direction it began with.
Its step is a pigeonhole argument: the cache is full of IDs of flows that have begun,
so the one that falls out would be the one that is used.

**`EngineProofs`** (`EngineAssumption`: any workers, streams and packets, any capacity of
the channels) proves `EachPacketOnce`, that no two workers ever hold packets of one
stream, and that `Engine` implements `PacketOrder`. The first is a partition kept by
moving one packet from one place to another; the strengthening for the last is that
every queue is in the order of arrival, behind the packet its worker holds, which is
behind all that worker has answered, and before the one the dispatcher holds.

**`ReloadProofs`** (`ReloadAssumption`: any workers and edits) proves `OnlyGoodRules` and
`OneReloadAtATime`. Rules are good once they are compiled (`RulesInv`); when the server
sent the database and nothing failed, the file is whole when it is parsed (`LoaderInv`);
and the factories before `upcoming` have what is being handed out, the others what they
had (`FactoryInv`).

**`NFQueueProofs`** (`NFQueueAssumption`: any connections, packets, configurations, faults
and length of the queue) proves every property of `nfqueue`. All of them rest on what
a chain may look like. With nft it is empty or begins with all rules of a configuration
that settle packets (`Guards`), to which what is appended adds nothing (`GuardsGrow`), and
of a process that is set up it ends with its own rules (`NftInv`); a process that found no
rules queues nothing before it has its own, by when its connections have the mark
(`BypassInv`). With iptables a chain has the first rules of
the four, while they are removed the last (`IptInv`); what is appended or deleted next
is at its place because the list that is left is the rest of the generated one
(`Done`). That part needs `IptablesKept`: no reset rule, and nothing goes wrong in
`Close`. The configurations and faults of the run meet it; without it the properties
are false, see below.

**`RulesetProofs`** (`RulesetAssumption`: any lists of rules, expressions, analyzers,
modifiers and databases) proves both invariants of `ExprRuleset`. The invariant is that
of every rule compiled so far the analyzers it names are among those the streams are
given, and the databases it needs have been loaded. From it `NoLoadInMatch` follows,
and that what analyzers tell a stream is all that its rules could ask. The loop of
`Match` is a recursive function; what it returns, and that its log is in order, is
proved by induction on the rule it starts from.

In the same module, under `GeoAssumption` (any lists, any width of an address, any
conditions), both invariants of `GeoMatcher` are proved. The invariant is about the cache: a
matcher that is kept is the one its condition would be given now. Sorting puts
every network at the place that the number of those before it says (`Ranks`), and a
round of the binary search answers for its window if smaller windows are answered for
(`RoundFinds`): what it leaves out of a window begins behind the address, or ends before
it, since networks do not overlap. Induction on the length of the window does the rest
(`SearchExists`, `SearchFinds`). For names, a domain and its parents are what is left
behind each of its dots.

**`DatagramProofs`** (`DatagramAssumption`: any packets and chunks, in any number, any
thresholds and limits, any size of the ring) proves `RewritesAnswers`, `KnowsTheSession`,
`CountsWhatFitsIn` and `JudgesTraffic`: what five analyzers tell of every history of
packets, from the little they keep of it. The invariant says what that is. `OpenVPNInv`:
as long as every packet had its place, a counter is one less than the packets of its
side, the machine of a side is at its second step if the side has sent one, and the
opcode that is kept is a client's from the client's reset to the server's; this makes a
place in the parser a place in the session (`Takes`, `HasPlace`). `DNSInv` and `WireGuardInv`: the
counter is how many packets in a row, up to the last, were not the protocol's
(`Streak`), and what is shown is told by the last message, or by the last of each kind
in the session. `RingInv`: the place n before the present one has the n-th last index
that was announced, however often the ring has come round. `TrojanInv`: the parser is
in the turn of the last chunk that counts, where turns are told apart by the changes of
direction before a chunk, and has the sums of the first four. FET keeps nothing; here
the work is in its measures: the count of ones by halving a byte is the number of its
bits that are one (`PopCount`, by taking the recursion apart eight times), and the
longest printable run that the scan finds is above 20 exactly when 21 printable bytes
stand in a row somewhere (an invariant of the scan, `ContiguousPrintable`).

**`StreamProofs`** (`StreamAssumption`: any conversations of bytes or words, of any
length, any least length of a packet and any limit) proves the properties of
`StreamParsers`: `EveryPacketCountedOnce` of OpenVPN, `ReadsOnUntilGarbage` and
`ShowsTheLastMessage` of DNS, `ReadsVersionLines` of SSH. A behaviour cuts a conversation
into chunks anywhere and interleaves its two sides, so the invariants (`OpenVPNInv`,
`DNSInv`, `SSHInv`) speak of all bytes that came in a direction, not of chunks: the
analyzer has taken the first so many messages of them, and its buffer has what is behind
them, all of it. Where messages end is a recursive function of the bytes (`IsEnds`),
which more bytes do not change; a round of the machine takes a message if the next one is
whole, and stops at the end that the last round reached if it is not. By induction over
rounds, a chunk leaves the machine where its bytes end, and since every message takes
bytes the bounded number of rounds in `RunSteps` is enough, so that the bound of the
model hides nothing. For OpenVPN the invariant says besides that the counters are the
packets taken and that the side that has begun is the client's; for DNS that a message is
read in two steps (length, body) and the parser stands before one of them, and that what
it shows is the last message of those the last chunk completed. `SSHInv` says of each
side that what is shown is what the first line of all that came says, once that line has
its end, that until then the buffer has all that came, and that the analyzer has left
exactly when both lines were told, one is no version line, or bytes were skipped. What
the code cuts out between spaces is what the format names (`VersionKnown`), as both are
longest runs without a space, and two such runs that meet are the same (`RunsMeet`).

The four modules about data do their inductions on sets: `NatInduct` says that a set
with 0 and with the successor of each member has all numbers, and a loop is a recursive
function whose existence and value are proved with it (`Recursion` in
`DatagramProofs`, `IteratesUpto` in `StreamProofs`). So an induction over data is possible
where the code is modelled without RECURSIVE.

Only model-checked: the properties of HTTP, TLS, SOCKS and QUIC (`ReportsWhatWasSent`,
`ShowsTheHello`, `KnowsWhatWasSaid`, `ReportsTheHello`), whose formats or steps are
RECURSIVE operators or lean on those of `TLSHello`; and all liveness
(`EveryPacketAnswered`, `RunAndWorkersStop`, `ReloadsLastEdit`, `Recovers`), as fairness
and ENABLED are out of the prover's reach.

## Not modelled

Logging, configuration, flags and YAML; cryptography and the headers of QUIC (a packet
is one that can be unprotected or not); the generated protobuf code; gopacket,
golang-lru, expr-lang, regular expressions, the nfqueue, netlink and iptables libraries
and the kernel except as seen from the code. Within the modules:

* `NFQueue`: `ProtectedBypass` is about nft without rules of a killed process. With
  iptables in local mode INPUT queues packets a moment before OUTPUT protects the
  program's own connections. For iptables the run has no faults in `Close` and no
  reset rule: a next process that appends to half a chain, or wants a rule in its
  middle, gets another order. Reads from netlink are not retried.
* `UDPStream`: `DirectionKept` is for a cache with room for every flow. Every
  analyzer is given the same payload; that QUIC decrypts in place, and the next
  analyzer sees that, is not modelled.
* `TCPStream`: the assembler's pool is never flushed by the code, so a new
  connection may be given an old stream of the same 4-tuple; connections are not
  told apart.
* `ExprRuleset`: what `cidr` and `lookup` compute is part of an expression's value.
* `GeoMatcher`: networks that overlap, of which the search finds any; regular expressions are given by
  the names they match.
* `SOCKS`: names of less than 251 bytes. `HTTP` and `SSH`: text is words.
* `Trojan`: what the decision tree says of four lengths is any function.
* `WireGuard`: the counter of a data message is left out.
* `QUIC`: a hello that goes on in another packet is left out.
* `DNS`, `DNSUDP`: decoding and writing of messages is gopacket's.

## Next

Proofs about the analyzers whose formats are RECURSIVE operators, once those are
functions. A model of sequence numbers for the assembler, to tell connections of one
4-tuple apart; payloads that analyzers change, in `UDPStream`.
