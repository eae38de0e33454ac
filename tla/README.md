# A TLA+ model of the Azure Batch software entitlement SDK

Azure Batch lets a task run a commercial application when it has been *entitled* to: a **token** (a JWT) says
which application may run, from which address and until when. This repository is the SDK of that mechanism: a library
that makes and verifies tokens, a server for tests (`sestest`) that stands in for the service, and a native client
library that an application links to ask for its entitlement. The client carries a JSON library in two headers, one of
them cut down for old compilers, which is most of its code.

This directory holds TLA+ modules translated from that code, configurations with which TLC checks them on small
instances, and proofs checked by TLAPS. `PROJECT.json` lists the components, runs, hazards, findings, theorems and,
definition by definition, the lines of source each one models.

    tlc -workers 2 -config ServerRequests.cfg MCEntitlementServer.tla
    tlapm EntitlementServerProofs.tla

## The system

| Component | State it keeps | Operations | Modules |
|---|---|---|---|
| `EntitlementStore`, `EntitlementProperties` | a dictionary from identifiers to immutable objects | store, find, renew, release (compare and swap) | `EntitlementStore` |
| Acquire, Renew, Release handlers | the locals of a request; the store is shared | three chains of steps, a thread each | `EntitlementServer`, `EntitlementLedger` |
| `sestest server`, controller, routing | host and listeners, whether it was told to stop | route by api-version, handle, stop after a request | `SestestServer`, `Connections` |
| Native client library | list of certificates, one mutex, locals of a call | `GetEntitlement`, `AddSslCertificate` | `NativeClient`, `Connections` |
| Application with a server | both of the above, and crashes | | `EndToEnd` |
| Token generation | none but the clock | `sestest generate` | `Tokens` |
| Token verification | none but the clock and the keys | `TokenVerifier`, `JwtPropertyParser`, Approve handlers | `Tokens` |
| `Result`, `ErrorSet` | pure | `With`, `Join`, `OnOk`, `Reduce` | `Results` |
| `sestest` commands | logger, exit code | parse, set up logging, evaluate options, execute | `CommandLine` |
| JSON in the client | the response as it comes in | body of a request, response to an `Entitlement` or an exception | `JsonClient` |
| `json.hpp` | a value; a scanner with its buffer, a parser with its depth | parse, dump, access, iterators, modifiers, pointers, patches, CBOR, MessagePack, `==`, `<` | `JsonValue`, `JsonOrder`, `JsonNumbers`, `JsonScanner`, `JsonEscape`, `JsonSteps`, `JsonLexer`, `JsonParser`, `JsonSerializer`, `JsonElements`, `JsonContainer`, `JsonPointer`, `JsonBinary`, `JsonDocument` |
| `json_vc11.hpp` | the same, without arrays, numbers, Booleans | parse, dump | `JsonLimited` |
| Certificate store, list of certificates | stores of the machine | find, list | outcome only, in `CommandLine` |
| Logging, small helpers, scripts | | | not modelled, see below |

**How they interact.** `sestest generate` writes a token that an application reads from its environment. The native
client posts it with libcurl (`Connections` is one exchange); Kestrel and MVC hand the request to an action of
`SoftwareEntitlementsController`, which runs a handler and, with `--exit-after-request`, tells the host to stop in a
`finally`. An Approve handler only verifies. Acquire verifies and stores an entitlement that Renew and Release later
find by its identifier; those three share the singleton `EntitlementStore`, and nothing serialises them.

**What is hard about it**, and so what the properties are for:

- *Concurrency on the store.* A Renew finds the entitlement, checks that it is not released, reads the clock, reads
  the entitlement again and swaps it: five moments at which another request may come between. Updates must not be
  lost, a release must not be undone, and a conflict must end in an error instead of a wait.
- *The end of the server.* The host is told to stop before the response is written, other requests are under way, and
  the handler may have thrown.
- *Retries and the mutex of the client.* Timeouts of the connection phase are retried with growing pauses, with the
  mutex held; what has reached the server must not be repeated, and every way out must release the mutex.
- *Two programs that share only a token.* Defaults, trimmed names, case, addresses and the clock skew have to agree.
- *Combining failures.* Queries over results must keep the errors of all clauses and never build a value from some.
- *Buffers of the scanner.* The generated lexer looks at bytes ahead and asks for more only in some of its states; a text
  comes as one block or line by line, and may end anywhere.
- *Edges of strings and numbers.* Surrogates in escapes, bytes that are no UTF-8, -0, leading zeros, 2^64, exponents out
  of reach; the length an escaped string gets is computed by one function and written by another.
- *Two headers.* The compiler decides which one reads a response, and one of them throws values away as it parses.
- *Order of changes.* A patch is applied one operation at a time and each one shifts what later ones point to; a change
  through a pointer may fail half way; iterators returned by `erase` and `insert` must point where the caller expects.
- *Sizes in binary.* Every width of a number or length has a head of its own, in two formats, and a text may be cut off.

## The modules

**`EntitlementStore`** `store` is `_entitlements`, a partial function. `ConcurrentDictionary` compares the objects by
reference, so an entitlement carries the number of its object under its identifier; `SameObject` is that comparison.
`CreateNew`, `WithRenewal`, `WithRelease` are the methods of `EntitlementProperties`.

**`EntitlementServer`** (EXTENDS it) runs `Requests` concurrently. `pc[r]` is how far a handler has come; a step is one
access to the store or the clock with the local computation around it: `Receive` (the controller), `RefuseAcquire`,
`PrepareAcquire`, `StoreAcquire`, `RefuseRenew`, `FindForRenew`, `TimeRenewal`, `FindForRelease`, `TimeRelease`,
`ReadCurrent` (the `TryGetValue` of `TryUpdate`), `TryUpdate` (its compare and swap, and the response). `AcquireRefusal`,
`RenewRefusal` and `DurationRefusal` keep the order of the checks, the exceptions included. Whether a token is valid is
an input (`entitled`); `Tokens` is about that. `before` is a history variable: which requests were answered when this
one arrived.

**`EntitlementLedger`** is the abstract specification: each request takes effect in one step, recording exactly one
event and succeeding, or recording nothing. `EntitlementServer!ImplementsLedger` is the refinement: identities of objects and
all locals are hidden.

**`Connections`** is an exchange between a client and a server, with libcurl's errors. **`SestestServer`** models
`SoftwareEntitlementServer.Run`, the routing by attributes (`Candidates`: the set of actions that accept a request),
`HandleApiVersionError`, `HandleRequest` and the stages of the host (starting, listening, told, stopping, stopped). The host
may end at any time once it has closed its listeners, also with requests under way, whose connections then break
(`BreakExchanges`): that is its shutdown timeout, which lies outside this code and may be over at any moment.
**`NativeClient`** models `GetEntitlement` from the mutex to its exceptions (`Lock`, `CheckUrl`, `Connect`,
`TransferFailed`, `Sleep`, `PopulateRoots`, `TransferDone`), `AddSslCertificate` and the verification of the certificate
chain against the list. **`EndToEnd`** EXTENDS both on one wire and adds crashes and restarts of the server. `cut` is a history variable: whose request
was read and then given up, by a crash or by the shutdown timeout.

**`Results`** models `Result` and its operators: a query (`from .. join .. select`) is the closed form `Query`, and `QueryIsJoin` in
`TokenProofs` proves that it is the chain of `Join`s the code runs. **`Tokens`** EXTENDS it: `Execute(order, id)` is
`GenerateCommand.Execute`, from the options (an *order*) to the token; `Respond(request, token)` is an Approve handler, with
`ExtractJwt` standing for `JwtSecurityTokenHandler` under the parameters the parser gives it. The actions are `Generate`,
`Approve` and `Tick`; everything is repeated at any time. **`CommandLine`** EXTENDS `Results` too: one run of `Main`, in which
each option is absent, blank, usable or not, and a certificate store may throw; the way an exception hides the errors of other options is kept.

The JSON library is a set of pure modules and state machines above them. Texts are sequences of bytes. TLC takes the
first arm of a `CASE` that holds, and in the modules that only runs use the arms are written in that order, the order of the tests in the
code. TLA+ itself leaves the choice open, so in the modules that theorems rest on, `JsonEscape`, `JsonElements` and `JsonContainer`, the
arms exclude each other.

**`JsonValue`** is a value: its type and contents, 64-bit integers as their eight bytes and doubles as exact decimals.
**`JsonOrder`** has `==` and `<` of values without elements,
**`JsonNumbers`** the conversions of numbers and `==` and `<` of all values. **`JsonScanner`** is the re2c automaton of the scanner as tables from states
and bytes to states, with the bytes each state asks for (`Lookahead`) and the two ways the buffer is refilled;
**`JsonEscape`** has the bytes of strings: `Extra` and `EscapedByte` are a step of `extra_space` and of `dump_escaped`, which write a string
(`Written`), and `TookNext` is a step of `get_string`, which reads one; `ToUnicode` makes UTF-8 of an escape or of two.
**`JsonLexer`** makes tokens of what the scanner stops at: the values of strings and numbers.
**`JsonParser`** is the recursive descent with its callback, its depth and its errors; **`JsonLimited`** is the parser,
`dump` and access of `json_vc11.hpp`, with the same scanner. **`JsonSerializer`** is `dump`, which folds the steps of
`JsonEscape` over a string. **`JsonElements`** has iterators, access and modifiers, **`JsonContainer`** a
variable of type `json` and a program that changes it by them; `outcome` is what the last change returned or threw. **`JsonPointer`** has pointers, `flatten`, `unflatten`, `patch`
and `diff`, **`JsonBinary`** CBOR and MessagePack, read and written. **`JsonGrammar`** and **`Utf8`** model no code: they are RFC 7159 as a
definition of what a text is, written without a lexer, and RFC 3629; the parsers and the bytes of strings are compared with them.

**`JsonSteps`** runs the loops over a text a step at a time, from the definitions of `JsonScanner` and `JsonEscape` that the runs of JSON use: `ScanSpec` is the scanner
alone, `StringSpec` follows one string through `extra_space` (`CountByte`), `dump_escaped` (`WriteByte`), the scanner (`ScanByte`, to `ScanEnds` or to no token)
and `get_string` (`ReadPiece`), or begins with any bytes behind a quote. Any bytes may follow the string. It has no run of its own: its texts
are unbounded, and what it is for is what theorems can say of texts of every length.

**`JsonClient`** is one call of the client in either build: `PostBody` writes the body, `Sent` and `WriteCallback` are libcurl's side, the latter
appending a piece to the response, `Return` makes an `Entitlement` or an exception of it, `Break` ends a failed exchange.
**`JsonDocument`** is the variable of `JsonContainer` that a program changes by pointers and patches as well. What is recursive in the
library (a value in a value) is in `JsonPointer`, `JsonBinary` and `JsonDocument`; `JsonScanner`, `JsonEscape`, `JsonElements` and
`JsonContainer` look at one byte or one level at a time, which is what theorems can be about.

Each component has an `MC...` module that gives its constants values, and each property a *faulty variant* of some
definition of the code, next to it and so named, under which the property fails: what a plausible bug would be.

## What the runs check

| Run | Instance | States | What it shows |
|---|---|---|---|
| `ServerRequests` | 3 requests, 2 entitlements, every kind of body, clock of 2, calendar of 4 | 396 000 | no update lost or invented (`EveryAnswerAccounted`), `ReleaseSticks`, `HistoryOnlyGrows`, a 500 has a winner (`ConflictHasWinner`), `LateRenewalRefused`, refinement of the ledger, `EveryRequestAnswered`; `TypeOK`, `ExpiryMatchesRecord`, `IssuedIsFound`: refused requests leave no trace |
| `ServerReleasedRenewal` | 3 requests | 3 000, violation | a renewal is recorded after a release (finding) |
| `SestestOneRequest` | the server alone, 2 clients, any request | 16 000, violation | a second request is handled (finding) |
| `ClientCalls` | 2 threads on Windows, 2 calls each, URLs and chains of every shape, any server | 482 000 | serialised calls, stable certificates, number of attempts and pauses, accepted URLs, every call returns |
| `EndToEndExit` | 1 thread, 1 visitor with 15 requests, exit after a request, interrupts, 1 crash | 491 000 | routing is total and unambiguous, a token is verified at most once per call, the verdict of a server that lives to give it reaches the caller, every call returns, a process that has handled a request ends with 0 |
| `EndToEndNoVmid` | 1 thread | 230, violation | a token without a vmid makes the client throw another type (finding) |
| `TokenVerdicts` | 28 orders, 6 foreign tokens, 3 servers, times 0..4 | 100 000 | the verdict agrees with what was ordered, with two exceptions; all faults reported, expiry is final |
| `TokenUnprotected` | same | 1 400, violation | a server with `--sign` and `--encrypt` approves a token that is neither signed nor encrypted (findings) |
| `SestestCommands` | every verb, 4 texts per option, 3 log levels, stores that throw or not | 69 000 | exit codes, usable options only, all faults logged |
| `JsonText` | both headers, responses of up to 3 pieces, 4 statuses, 7 sets of refused events | 37 000 | the scanner stays in its buffer, exactly the texts of the grammar are accepted, what is written is read back, what is dropped disturbs nothing, only a whole response makes an entitlement |
| `JsonRefusedStarts` | json.hpp, objects within an array refused at their start | 5 000, violation | a refused start makes the parser lose count of the depth (finding) |
| `JsonDocument` | values of weight 3, indices up to 2, patches, pointers | 13 000 | patches of `diff` lead there, binary forms read back and never when cut, all ways to an element agree, `==` and `<` are an order, a failed change keeps what was there, iterators point right |

**Why the bounds are enough.** Three requests hold an Acquire and two updates of it: two renewals of which one loses, or a
renewal with a release before, after or between its steps; that more of them change nothing is what the theorems say. Two
identifiers are enough to see one handed out while the other is used. The calendar
`0 .. LastTime` is small enough that a duration leaves it at either end. Two clients are one more than the server means
to handle. `retries` is 0 or 2 and every failed attempt is kept with the pause after it (`failures`), so one more or
less shows. One token at a time is
enough in `TokenVerdicts`, because an answer depends on one token; the skew (1) and the default life (2) are small
so that every edge of a life time lies inside the run. One crash lies at every moment of a call.
The pieces of `JsonText` are chosen so that joined they form texts with every token, cut inside tokens, escapes and numbers:
what the scanner does depends on its state and a few bytes ahead, and `MaxChunks = 3` covers a token that begins in one
piece and ends two later. `ThreeParts` bounds the nodes of a changed value (a container with two elements, or nested
twice) and `MaxIndex = 2` the indices given to it, one behind the last. Doubles are those with exact decimal forms; lengths stay below
2^24 and indices of pointers below ten digits, for the heads of longer ones differ in width only.

The state space of the JSON runs serves to enumerate texts, values and changes; their invariants are properties of the pure
operators at the text or value reached, next to the action properties, which relate a change to what it left.

**Deadlock** is checked in every run; where a system rests (a program has exited, all calls are made) it does so in an
explicit action (`Finished`, `Idle`, `AllDone`, `Exited`).

**Fairness.** `FairSpec` of the server has weak fairness on each handler's steps: the thread pool runs every handler,
and no step waits for another one. `ServerFairness` adds the host, which ends by itself once told, whether or not
requests are still under way.
`ClientFairness` schedules threads inside a call; the mutex is not assumed to be fair, threads
make finitely many calls. `FairClientSpec` needs the server to answer or break a connection that is up: the library
sets a timeout for the connection phase only, so nothing else ends a transfer. No fairness on crashes, interrupts
or new requests.

## What is proved

TLAPS, for every value of the constants that satisfies the named assumptions. Each invariant below is what had to be added
to the property to make it inductive.

**The store and its handlers** (`EntitlementServerProofs`; `InputsAssumption`, `UnissuedAssumption`, `ClockAssumption`, and for
the last item `RequestsAssumption`: there are finitely many requests):

- `TypeCorrect`, from `TypeInv == TypeOK /\ LocalsOK`: `TypeOK` alone is not inductive, since the expiry a handler is about
  to send must be known to be in the calendar from the moment it was computed.
- `ReleasesStick` and `HistoryGrows`, from `StoreInv`, which adds `SnapshotsOld`: what a request has read has an object number not above
  the one stored, and the same number only if it is that object. That is what makes the compare and swap
  sound: a stale snapshot, taken before a release, can never be published over it.
- `IssuedAlwaysFound` from `ReachInv` (what a request is about to update is stored).
- `LateRenewalsRefused` from `OrderInv` (a Renew that arrived after a successful Release finds a released entitlement in its only check).
- `ConflictsHaveWinners` from `WinnerInv` (whenever a snapshot is outdated, some request has succeeded with that very snapshot).
- `ServerImplementsLedger` from `FreshInv` (an identifier that was drawn is stored only by the request that drew it):
  initial states map to initial states; each of the actions maps to one action of the ledger or to a stutter.
- `ExpiriesAreRecorded` from `RecordInv` (who has succeeded has a stored entitlement that holds the time it answered) and
  the lemma `RecordGrows` (a record loses nothing).
- `AnswersAreAccounted` from `AccountInv`: a step either makes one request succeed and changes one record by what that
  request was for, or changes neither; the cardinality theorems do the counting.

**The server process** (`SestestServerProofs`, `FlagAssumption`): `RequestsRouted` by splitting on the version
and method of a request; `ServerTypeCorrect` from the types of the exchanges.

**The client** (`NativeClientProofs`; `ThreadsAssumption`, `CallsAssumption`, `CertificatesAssumption`, `PathsAssumption`): `GetsAreSerialised` and
`CertsAreStable` from `LockOK`: a thread is at one of the steps inside the mutex exactly when it is the holder. Every way out of
a call, the exceptions included, keeps that. `ClientTypeCorrect` with it.

`GivesUpAfterAllAttempts` and `AcceptedUrlsReachServer` are from `AttemptInv`, three parts per thread: `ExchangeOK` (between the
connection and the end of a transfer the wire carries this call's request), `RoundOK` (at the n-th attempt there are n - 1 failures behind
it, the i-th of them followed by i seconds if it was a timeout and by none otherwise) and `GaveUp` (the same when the loop has ended). With `retries` at the largest
`unsigned int` the loop never ends (`RoundOK` then says nothing, for the counter wraps to zero). What
an accepted URL may hold is the lemma `FewNames`: a path with few slashes has few names, because every name but the first has a
slash of its own before it, an injection counted by the cardinality theorems.

**The two together** (`EndToEndProofs`; also `TokensAssumption`, `VisitorsAssumption`): `ReadAtMostOnce`,
`EntitlementsAreGranted`, `VerdictsArrive` from `ThreadInv`, three parts per thread: `ExchangeOfCall` (only a call that transfers has an
exchange, and that one carries its token), `ReadOnce` (errors that are retried come before the request is read; a reset after
that means that the request is in `cut`), `OutcomeOK` (what the result tells). One step per action of either side and of the wire.

**Tokens** (`TimesAssumption`, `CertificatesAssumption`, `OrdersAssumption`, `TokenIdsAssumption`). `TokenProofs`: `ExpiryIsFinal`,
from `ExpiryInv` (a token in `lapsed` has an expiry more than the skew before the clock, which only moves forward) and the
lemma that an error "expired" comes from that check alone; `ApprovalsAreComplete`, by following an approval back through
`Verify`, `Parse`, `Query` and `Reduce`; `FaultsComeTogether`, each wrong option being a clause of a query that keeps the
errors of all; `VerdictsMatchOrders`, from `CarriesOrder` (each claim of a generated token is a function of
its order and of the time it was made), which ties the half that writes to the half that reads. What the server lets in although
its options should keep it out is written as exceptions in `Fits`, and is not proved to be right: `ProtectedTokensOnly` says what
the documents promise, and a run refutes it.

**Commands** (`CommandLineProofs`, no assumption): `ExitCodesTell`, `OptionsComeFirst`, `FaultsAreLogged` from `StageOK`, what the
variables are at each stage of `Main`; nothing is done before all options are usable.

`QueryIsJoin`, also in `TokenProofs`, needs no assumption.

**The scanner** (`JsonTextProofs`, no assumption). `ScannerStaysInside` is about `ScanSpec`, the scanner alone: it begins with any
text, or any stream with any lines, and takes bytes and tokens for ever. The scanner checks what the buffer holds in a few states only, so
"the next byte is there" is not inductive; `Inside` is: the buffer holds the `Need` of the state, the bytes of
the longest way to a state that refills, unless the state refills itself. Each move of the automaton lessens the `Need`, or leads
to such a state or to one without moves (`MoveOK`, for every line of the tables). A stream refills by lines and may give fewer bytes than
were asked for; then the buffer ends with the end of a line, behind which only blanks go on, and the scan ends in time.
`BufferUnseen` says more: that text and stream give the same value, through the parser, and that stays with TLC.

**Strings** (`JsonTextProofs`, no assumption), about `StringSpec`. Strings are what a response is made of, and each is handled by four loops that
have to agree. `EscapesFitTheirRoom`: `dump_escaped` writes every escape inside the room that `extra_space` counted and ends at
its end, which is what the code asserts. `StringsReadBack`: a string that was written is read back byte for byte, with no exception,
whatever stands behind it; the scanner may refuse one, and then it is no UTF-8. `StringsReadAreUtf8`: what `get_string`
makes of any token, of whatever bytes and escapes, is UTF-8, or the exception is 102, and it stays within the token.
These are the cores of `WrittenReadsBack` and, for strings, of `AcceptsJustJson`, without their bounds. The inductive invariant is `Strings`:

- `Counts` and `Writes`: `Place(string, k)` is where the escape of the k-th byte ends. It is stated by cardinalities (the bytes with short escapes and with
  long ones among the first k), so that one more byte is the cardinality of one more element. `extra_space` has counted `Place`, and `dump_escaped`
  has written up to it; `Escaped` says that each byte's escape stands between its places.
- `Scans`: `Runs`, the states of the scanner follow from the bytes; `Sync`, in a string that was written it is between two bytes of the string or in the
  escape of one, never further and never ended early by a quote of the string; `Apace`, for every way to cut the string into characters of UTF-8, it waits
  for the rest of one (`IsRest`) or stands at the border of two. `Apace` is what tells that a string in UTF-8 is not refused: a character takes up to four states, and
  the first bytes E0, ED, F0 and F4 have states of their own, which the ranges of `Utf8` must match.
- `ReadsOn`: `Reads`, what has been read together with any `IsRest` of the scanner's state at that byte is UTF-8 (what has been read alone may end in
  half a character, so that would not be inductive), and escapes begin only where the scanner was between characters; `Back`, it is the string up to some byte.

**Containers** (`JsonContainerProofs`; `MaxIndexAssumption`, `NamesAssumption`, `ItemsAssumption`: names are strings of bytes, and the values given
are sequences or finite maps). The model keeps an object as a function and an iterator into it as a place in `Keys`, the names in order, so
every theorem needs that `Keys` has each name once and that erasing a member moves only the places behind it. From the
order of strings (`LessIrreflexive`, `LessTransitive`, `LessTotal`) it follows that a finite set of names has exactly one
increasing sequence, and how it grows by a name. The invariant is `Shaped(doc)`: an array holds a sequence, an object finitely many
names of bytes; one step per operation. `ErasingAndInsertingTell` is an action property under it. `WaysToElementsAgree` is `ElementsAgree`, the part of
`AccessAgrees` about iterators, indices and names; `RefusalsChangeNothing` is the same for `FailureKeepsParts`. These are about
`ElementsSpec`, that is all operations of the program of `JsonDocument` but assignment through a pointer, `patch` and `unflatten`, which are recursive.
`ScalarsAreOrdered`, at the end of this module, takes the order of strings on to words in two's complement, doubles (sign, then magnitude, the two
zeros equal) and the ranks of types. Integers and doubles are ordered each among themselves, and no unsigned number is 2^63 or more: next to a signed one
`<` takes it for a negative number, so it is less than 0 and 0 is less than its equal of type double.

Only model-checked, and why:

- Liveness (`EveryRequestAnswered`, the returns of calls, the end of processes): fairness is out of the prover's reach.
- `AcceptsJustJson` and `WrittenReadsBack` beyond one string, `DroppedAsUnread`, `AnswersFitResponses`, `BinaryReadsBack`, and `BufferUnseen` beyond
  the scanner: parser, serializer and grammar are recursive, and what they do for every text is an induction over it. That `JsonSerializer` and
  `JsonLexer` repeat the very steps of `JsonEscape` that `StringSpec` takes is read off their definitions.
- `PatchesLeadThere`, `FailureKeepsParts`, and `AccessAgrees` beyond `ElementsAgree`: pointers and patches go down a value, also by recursion.
- `OrderIsTotal` for arrays, objects, and integers next to doubles: `<` compares values by the values in them, and converts integers digit by digit.

## Where code and documents disagree

Each of these is shown by a run that TLC ends with a counterexample (4 and 5 by the same one); `PROJECT.json` quotes both sides.

1. A Renew that overlaps a Release is recorded after it and answered 200 (`RenewRequestHandler.cs:30`).
2. `--exit-after-request` may handle more than one request.
3. A token without a vmid, which the documents allow, is approved by the server, and `GetEntitlement` throws an exception
   of the JSON library.
4. `--encrypt` makes the server able to read encrypted tokens, and it goes on to approve others (`JwtPropertyParser.cs:68`); its
   help text and the readme say that all tokens must be encrypted.
5. `--sign` with a certificate that has no private key in its store makes no key, and then no signature is required
   (`SoftwareEntitlementServer.cs:160`, `JwtPropertyParser.cs:64`); the help text says that all tokens must be signed.
6. When a callback refuses `object_start` or `array_start`, the parser of `json.hpp` counts the depth up and not down again
   (line 12097, with 12165 and 12221): the values behind it come one level too deep, where the comment of the callback says that
   a discarded value is as if it was never read. `DroppedAsUnread` has what holds: such starts
   may be refused, when the callback refuses them at every depth and goes by the depth of nothing else.

Read in the code and in no run:

- An Acquire without a body ends in a `NullReferenceException`, before the check meant for it
  (`AcquireRequestHandler.cs:44`); the model has it as an answer `Exception`.
- Every `--log-level` is refused: `TryParseLogLevel` parses its other parameter (`Program.cs:193`); the model keeps that.
- `find-certificate` ends with -1 when it finds nothing, and `list-certificates` for a bad `--show` or `--extra-columns`
  (`FindCertificateCommand.cs:34`, `ListCertificatesCommand.cs:41`), where `sestest/readme.md:95` and `:105` promise 0 unless the
  application crashes. `ExitCodeTellsOutcome` leaves the exit code of these two open, but for a crash and for a search that succeeds.
- Requests refused for their api-version do not end a server with `--exit-after-request`; a token is
  accepted for 60 seconds after its expiry, which the Server project's readme does not mention.
- A response of status 200 that is no JSON ends in an exception of the JSON library, of another type than the header of the
  client promises.
- In `json.hpp`: `patch` with "copy" replaces an element of an array where "add" inserts, "add" below a value that is no
  container does nothing and says nothing; array indices go through `stoi`, which takes "1a" and " 1" and
  throws exceptions of the standard library for others; `value(ptr, default)` catches only `out_of_range`; `json(-1)` equals
  `json(2^64 - 1)`; `dump` rounds to 15 digits; CBOR integers below -2^63 wrap; the comment of `unflatten`
  (`json.hpp:13210`) does not say that a member "0" makes an array of its object, or an exception with a second
  name next to it. The properties state these as exceptions, where they meet one, in their comments.

## What is left out

- The text of errors, logs and pages; HTTP formats; TLS itself. No property is about them.
- `JwtSecurityTokenHandler`, libcurl, Kestrel, MVC's selection of actions and `ConcurrentDictionary` are external: modelled by
  what this code gives them and expects of them, and marked so.
- Kestrel's timeouts for idle connections; how long its shutdown timeout is (it may be over at any time).
- `Init` of the client library happens before there are threads, as its header demands.
- A log file that cannot be opened; it would end `Main` before a command runs.
- `Where`, `Merge` and the variants over tasks of `ResultExtensions`.
- Of `json.hpp`: the templates that convert from and to C++ types, allocators, hashing, the texts of its exceptions, and
  doubles without an exact decimal form (rounding in `strtod` and `snprintf`). Of `json_vc11.hpp`: what it keeps of iterators and
  conversions, which the client never calls; two of its constructors (lines 3035 and 4596) leave members uninitialised,
  and the client calls neither.
- C++ leaves the order of `result.at(ptr) = get_value(...)` and `result[ptr] = result.at(from)` open before C++17; the
  model takes the order of C++17.
- Scripts, tests, images.

## Plan

Done: the store and its handlers with the ledger, the server process, the client, the two together, results, tokens,
commands, the JSON library and the client's use of it; proofs about all of these, for JSON about the scanner, strings and the
containers. What would come next, in this order:

1. `CertificateStore`: the search for a thumbprint over the stores of the machine, its order, duplicates
   and the expiry of certificates; with it the selection of `list-certificates`.
2. The whole service: Acquire with the verification of `Tokens` in place of the input `entitled`, so that the life of a
   token and that of an entitlement meet.
3. The arguments of `sesclient.native`.
4. For JSON: the other facts about one level, which are the heads of CBOR and MessagePack, and the digits of integers.
