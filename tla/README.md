# A verification of iotex-arduino

TLA+ models of the IoTeX client library for Arduino boards and for the desktop:
`src/src/` holds the library, `src/tests/src/` its tests, `src/examples/` the
sketches that use it. Paths below are relative to `src/src/` unless they start
with `src/`. The modules are checked by TLC on small instances and, where the
tables below say so, proved for every value of their constants with TLAPS.

The library is single-threaded. What makes it hard is what happens around it:
a network that delivers late, in part or never while a sketch polls; a server
whose reply may be anything; state that outlives a call (a socket, an HTTP
client object, a caller's string, the RAM copy of an EEPROM, file descriptors);
processes that are killed and boards that lose power in the middle of a save;
and functions whose results nobody looks at, so that half of a job passes for
all of it. The properties are about those.

## 1. The system

    sketch -> Connection -> Wallets -> rpc.cpp      request text
                               |
                               +-----> IHTTP::post  one of three platforms (makeHTTP)
                               |
                               +-----> pb_api.cpp   response fields
    sketch -> Account  -> Encoder, Signer -> random, ecdsa
                  |  +--> Wallets::sendTokenTransfer / sendExecution
                  +-----> Storage           file or EEPROM
    sketch -> Contract -> abi.cpp, generateCallData

    sketch -> Xrc20Contract, bech32   texts in, texts out

Everything is a synchronous call; the only callbacks are the two libcurl makes
into the OS transport.

| component | state it keeps | operations | correct when |
|---|---|---|---|
| HTTP interface (`http/http.h`) | none | `post`, `get` | SUCCESS gives what came, without a gap, of the reply to this very request, from the body or the first `{` on; an error gives nothing to use |
| Nano 33 IoT transport (`http/nano33`) | the `WiFiClient` and its socket, across posts | `post`: connect, print, poll, read, stop | no byte of an earlier reply gets in; what is handed over begins at the first `{`; every post returns |
| OS transport (`http/os`) | none of its own; libcurl handles, header lists and global initialisations | `post`, with a header and a body callback | only a whole body is a success; a refused request is an error; what a post leaves behind is known |
| ESP transport (`http/esp`) | the `HTTPClient` and the headers it collected, across posts | `post` | the status of one reply never decides about another |
| Wallet API (`api/wallet`) | the caller's out parameters | six calls | what passes for an answer is whole but for the known exceptions, failure changes nothing |
| JSON responses (`protobuf/pb_api`) | a local response object | `fromJson` of four responses | all or nothing |
| Request bodies (`api/rpc`) | buffers on the stack | one builder per call | what is posted is what was signed |
| Account (`account`) | private and public key, addresses | make, restore, sign, send | the key came from the source of randomness, or memory of zeros was taken for one; the chain takes what was asked for, once |
| Encoder, Signer (`encoder`, `signer`) | none | protobuf, base64, hex, hash, sign | what is signed is the whole action |
| Contract (`contract`) | the functions of its ABI | `generateCallData` | the Ethereum encoding, in the order of the inputs |
| ABI parser (`abi`) | none | `parseContract`, `getSignature` | every function, in order, with its canonical signature |
| OS randomness (`random/os`, `random/platformRand32.cpp`) | open descriptors | `fillRandom`, `random32` | a key that was really read; every signature returns |
| OS key storage (`storage/os`) | a file | save, read | a read gives the whole key saved last or an error |
| Board key storage (`storage/esp`, `storage/nano33iot`) | RAM copy, flash, flag | initialize, save, read | a committed key reads back |
| Connection and Host (`connection`, `host`, `api/abstract.h`) | host name, port and base URL in two char arrays | `setHost`, `toString` | every request goes where the latest `setHost` that was not refused said |
| ESP8266 randomness (`random/esp8266`) | none | raw bit, two whitenings, words, a number below a bound, `fillRandom` | numbers in range, made of the bits drawn for them; every loop that can end ends |
| XRC20 contract (`contract/xrc20Contract`) | none | the data of three calls | recipient and amount as typed, each in its word |
| Bech32 (`encoder/bech32`, `encoder.cpp`) | none | `Encode`, `Decode`, groups of 5 bits | an address says the bytes it was made of; a wrong one is refused |
| Hex texts (`signer/signer`) | none | `str2hex`, `hex2str` | a text that is typed right is read as its bytes and nothing else is touched |
| Sketches (`src/examples`) | the account meta of one pass, the program's place | ask for the nonce, send, report | what is shown is what the chain did; nothing is paid without a nonce that was read |
| JSON helpers, logging, protobuf tables, vendored code | | see section 8 | |

### What is hard, and where it bites

`PROJECT.json` lists each hazard at its line. In short:

- **Interleaving with the network** (`http/nano33/http.cpp`): units of a reply
  arrive between any two steps of the sketch, the reader stops at the first
  moment nothing is buffered, and a post that times out leaves its socket open
  for a reply that may come while the next post is under way.
- **Order of callbacks** (`http/os/http.cpp`): a `grpc-status` may be a header,
  a trailer behind the body, or both; a transfer may fail between any two.
- **Memory that was never written**: `grpcStatus.code` without a status line,
  the one-byte buffer `headerCallback` measures with `strlen`, the private key
  behind a `fillRandom` that failed (the one unread key that gets out is zero), the
  word of an integer wider than 8 bytes, the type of an ABI input no branch
  matches. Each is a choice over what can be there.
- **State across calls**: the ESP client's headers, the Nano's socket, the
  caller's `out` string of `generateCallData`, the size of the EEPROM copy that
  the first `Initialize` fixes for good.
- **Results nobody looks at**: `pb_encode`, `str2hex`, `fwrite`, `fclose`,
  `EEPROM.commit`, `open`, `read`, `HTTPClient::POST`, `parseContract`.
- **Crashes** between `fopen` and `fclose`, between erasing and programming; a
  commit that fails in either half, which nobody hears of.
- **A brace anywhere**: the Nano takes the first `{` of header and body for the
  start of the body, so a JSON-valued header or a page with a script in it is a
  SUCCESS of the transport.
- **Lost replies** of an action the chain has already taken, and **requests given
  up** that still get there, behind others.
- **Steps that go on after a failure**: every sketch sends when `getAccount`
  failed, the command line signs a message whose key did not parse,
  `Connection` drops the refusal of `Host::set`.
- **Texts of the wrong shape**: a `0x` that half of the conversions strip and
  half count, odd lengths, letters behind `f`, a size that is that of another
  array or of a pointer.
- **Loops that wait for the right bits** (`random/esp8266`): two whitenings and
  a number drawn again when it is too big, over longs that wrap around.
- **Limits**: 1024 bytes of `encodedCore`, twice the data for its base64 text,
  the size of the EEPROM, the descriptors of the process.

## 2. The modules

| module | models | its state corresponds to |
|---|---|---|
| `Transport` | what the three transports share: replies, the variables of a post, the refinement of `HttpPost` | the place in `post`, the reply to it, the out response, the ResultCode |
| `HttpPost` | `IHTTP::post` as its caller may rely on it (abstract) | the call under way, the reply, the response string, the ResultCode |
| `NanoPost` | `PlatformHTTP::post`, `http/nano33/http.cpp` | program counter of `post`, socket and receive buffer of `client`, `elapsed` of `waitForResponse`, the local and then the out response |
| `CurlPost` | `PlatformHTTP::post`, `http/os/http.cpp` | `grpcStatus.code`, the response string, easy handles, header lists and global initialisations held |
| `EspPost` | `PlatformHTTP::post`, `http/esp/http.cpp` | the collected header of `_httpClient`, how much of the reply came, the response |
| `PlatformHttp` | `makeHTTP`: the transport the program is built with | which of the three it is |
| `Wallets` | `api/wallet/wallets.cpp` over `protobuf/pb_api.cpp`, composed with `HttpPost` | the call under way and, per call, what its out parameter holds |
| `ActionSend` | `account.h/.cpp`, the action part of `encoder.cpp`, `rpc.cpp`, and the chain | the core being sent, what was signed of it, the requests given up, what the chain took |
| `RandomSource` | `random/os/random.cpp`, `platformRand32.cpp`, their consumers in `ecdsa.c` and `account.cpp` | descriptors left open, words drawn, where keys came from and whether they are zero, in range or too big |
| `Storage` | what the storages share, `storage/storage.h` | the key saved last, what `readPrivateKey` gave |
| `FileStorage` | `storage/os/storage.cpp` | the bytes of the file, the buffer of the stream |
| `EepromStorage` | `storage/esp/storage.cpp`, `storage/nano33iot/storage.cpp` | flash, RAM copy and its size, flag byte |
| `PlatformStorage` | the `#ifdef`s of `storage/` | which of the two it is |
| `CallData` | `Contract::generateCallData`, `contract.cpp` | loop index, parts, `contractData`, the caller's `out` |
| `AbiParser` | `abi.cpp`: `parseContract`, `parseInputOutput`, `getSignature` | element under way, types parsed, `_functions` |
| `Connection` | `connection.h`, `host.cpp`, `api/abstract.h`, the URLs of `rpc.cpp`, and the splitting of a URL in `http/nano33/http.cpp`, over `Wallets` | the two arrays and the port of the `Host`, the URL of the call under way |
| `Session` | the sketches `SendTransfer`, `ContractAddData`, `Xrc20TokenTransfer*`, the send commands of `IotexCommandLine`, and any other application, over `ActionSend` | the place in `loop()`, `pendingNonce` of the `AccountMeta`, the result printed |
| `TrueRandom` | `ESP8266TrueRandom.cpp`, `random/esp8266/random.cpp` | the half pair of the whitening, the loop variables, the buffer of `fillRandom` |
| `PlatformRandom` | the `#ifdef`s of `random/` | which of the two it is |
| `HexText` | `str2hex`, `hex2str`, `value` of `signer.cpp` | (operators) |
| `Bech32` | `encoder/bech32.cpp` | (operators) |
| `Conversions` | the commands of `IotexCommandLine` that turn texts into bytes and back, over `account.cpp`, `encoder.cpp`, `signer.cpp`, `contract.cpp`, `xrc20Contract.cpp` | the stack a command finds, the key in it, the addresses of the account, what was hashed, the call data |
| `RecursionLemmas` | induction and recursion over the natural numbers, of which the other proofs are made | |
| `Transport_proofs`, `Wallets_proofs` (with `Connection`), `Session_proofs` (with `ActionSend`), `Contract_proofs`, `Random_proofs`, `Storage_proofs`, `Conversions_proofs` (with `Bech32`, `HexText`) | theorems | |
| `MC*` | the small instances | |

How they fit: the three transports extend `Transport` and each implement
`HttpPost` (refinement, `HttpPostSpec` of `Transport`, with `phase` and
`response` as the refinement mapping); `PlatformHttp` puts the three behind the
choice of `makeHTTP`, as `PlatformRandom` and `PlatformStorage` do with what
their `#ifdef`s choose from, and what a run or a theorem says of these it says of
the program on any platform. `Wallets` extends `HttpPost` and uses its actions as its transport, so what
holds of `Wallets` holds over each platform. `Connection` extends `Wallets`:
each of its calls is one of `Wallets` with a URL, and `setHost` steps come
between. `Session` extends `ActionSend` in the same way, and `Conversions`
extends `Bech32`, which extends `HexText`. `AbiParser` yields the functions
`CallData` starts from. `ActionSend` has its own abstraction of the transport
(request given up, reply lost) because it is about the chain behind it.

Conventions. Actions bear the name of the function or of the step of it they
stand for. A step boundary is put where something outside can happen: a byte
arrives, a callback is made, the power fails, memory is shared with a caller.
Data is abstracted to what a property tells apart: a reply to post `q` is a run
of units `<<q, k>>`, so a stale, mixed or reordered response shows; byte `i` of
key `k` is `<<k, i>>`, so a torn key shows; a word of call data is named for
the value and the part of it that it holds. A definition whose comment
starts with "Fault:" is not part of the model: it is the next definition with a
plausible mistake in it, kept to show that a property notices. `PROJECT.json`
pairs every property with such a fault under `mutants`.

### Correspondence, module by module

**NanoPost.** `NanoBegin` enters `post`; `ConnectFails`, `ConnectSucceeds` are
`initialize()` (`client.connect` closes what the client still holds);
`SendRequest` the `client.print` calls; `Poll` and `Ready` the loop of
`waitForResponse`, whose last turn gives up without another look; `Read` one
`client.read()`; `Finish` is the end of the loop, `client.stop()`, the test for
`{` (`HasBrace`) and the cut in front of it (`FromBrace`). `Arrive` is the
network. A reply is `HeaderLen` header units and `BodyLen` body units, and
`Start[k]` is where the first `{` of a reply of kind `k` is: in a header, at the
start of the body, in the middle of a page, or nowhere.

**CurlPost.** `CurlBegin`, `EasyInit` (with the list of headers, which nothing
frees), `EasyInitFails`, then the callbacks (`HeaderCallback`, `WriteCallback`)
in any order, then `PerformOk` or `PerformFails` (which returns before both
cleanups), then `Cleanup` with the judgement by `grpcStatus.code`.
`ParsedStatus` is what `headerCallback` makes of a line: two bytes copied behind
the colon, `strlen`, `isdigit`, `atoi`. With no easy handle `post` goes on to
judge the code that nobody wrote, so it may return SUCCESS with an empty
response; the abstract promise allows that, and in `Wallets` it does not parse.

**EspPost.** `EspBegin` enters `post`; `Initialize` is `begin` and
`collectHeaders`; `PostAnswered` and `PostFails` are `HTTPClient::POST`, whose
result is dropped; `GetString`;
`JudgeStatus` reads the collected header, where none counts as zero. A POST may
fail before the line of the status came, or after it, when the end of the headers
did not come in time; then that line decides all the same.

**PlatformHttp.** The steps of one of the three, the variables of the others
unchanged.

**Wallets.** One call is `Call` (build and post), `PostSucceeds`/`PostFails`,
`DecodeOk`/`DecodeFails`. `Fields` is the order in which each `fromJson` reads;
`StopsParse` says which fault ends it with an error and `Unfilled` which fields
a SUCCESS leaves unread. A reply has one fault, of its fields or of its headers
(`HeaderFaults`: a `{` in a header, of JSON or of other text). Whether the
response parses (`Parses`) goes by where it begins (`FromHeader`): JSON out of a
header is read to its end and what follows is ignored, as `cJSON_Parse` does, so
`fromJson` sees an object without any of its fields (`Seen`).

**ActionSend.** `Send`, `Sign` (protobuf into `Capacity` bytes, then hash and
signature), `Post` (JSON and base64), the chain with what it asks of a request
(`Taken`), `Reply`, `ReplyLost`, `RequestLost`. A request that was given up stays
in `late`, and `LateArrives` lets the chain look at it at any later point, behind
requests sent after it; nobody sees the reply. `Converted` is `str2hex` into
`length()/2` zeroed bytes, as `encoder.cpp` and `rpc.cpp` both call it; of an odd
text it writes a byte behind the array, which in `rpc.cpp` may fall on the texts
of the signature or of the key (`Spoilt`).

**RandomSource.** Every `fillRandom` opens `/dev/random` and closes nothing.
`NewAccount` fills a key (`FillKey`: what cannot be read stays what the memory
held), `RestoreAccount` is given one, and both derive its public key: `DeriveZero`
is done at once, since the multiple of 0 is the point at infinity before any
number is drawn; `DeriveInRange` needs one number, `DeriveTooBig` meets the
assertion on the order, or goes on in a build without assertions. `Sign` needs
two numbers. A number is `Words` words (`generate_k_random`), drawn again while it
is zero or too big.

**FileStorage.** `OpenTruncates`, `Write`, `Close`; `Killed` anywhere in
between; `Close` may write only part. `FRead` is the whole of `readPrivateKey`,
which runs between saves. `NoFile` is the state of a machine that has none.

**EepromStorage.** `Save`, one `WriteByte` per turn of the loop,
`CommitErases`, `CommitPrograms`, or `CommitFails` (nothing erased) and
`ProgramFails` (erased, and programmed in part), `Read`, `SketchInitialize`,
`PowerFails`. The variable `flagged` is the board. The library of the Nano checks
no address, so storage ids are assumed to leave room for a key in the flash.

**CallData.** The loop over `_functions` (`SkipFunction`, `EnterFunction`), the
loop over inputs (`EncodeParameter`, `MissingParameter`), `Assemble`, `Return`.
`ParameterWords` and the operators above it are the `generateBytesFor...`
functions; an element of unknown type ends the loop over an array
(`StaticElements`) and leaves the offsets behind it unset (`ElementHead`). The
Ethereum encoding is written a second time, from its own rules, as `AbiCall`
(`CallOf` with the heads).

**Connection.** `SetHost`, `SetHostRefused`, `SetHostNull` are the outcomes of
`Api::setHost`; `Copied` is the `memset` and `memcpy` of `Host::set`, `toString`
is `Host::toString` with the cut of `port_str`, `CCall` puts the method of
`rpc.cpp` behind it. `Split` is the Nano's `initialize()`. The second `Host` of
a `Connection` is set by its constructor and never read, so it is left out.

**Session.** `Connected`, `AskAnswered` or `AskFails` (`getAccount`, by what a
sketch sees of it), one `...Sends` action per sketch, `SendStep` (a step of
`ActionSend`), `Report`, `OwnSends` for an application that is none of the
sketches. `meta` is `atoi` of `pendingNonce`, which is empty, so 0, when
`getAccount` failed.

**TrueRandom.** One action per call (`RandomWord`, `RandomBelow`,
`RandomBetween`, `FillRandom`, `Memfill`), one per raw pair of bits (`RawPair`),
one per turn of a loop that uses a bit (`UseBit`) and `ReturnNumber`; `NextTurn`
is the body of each loop as a function of its variables.
`leftFirst` is the order in which the compiler evaluates the two draws of
`a << 1 | b`, which the language leaves open.

**HexText, Bech32, Conversions.** The functions, by their names, as operators on
sequences of characters and of bytes; `Conversions` has an action for each
command that uses them, over a stack that holds what earlier commands left.
`CopyAddress`, `Mistype`, `ReadAddress` are a person with an address. That
person and the hash of a public key are external; `Decode` has no caller in the
library.

**AbiParser.** One action per step of the loops of `parseContract` (`SkipElement`,
`BeginFunction`, `EndFunction`, `EndOfAbi`, and what stops it) and of
`parseFunction` (`Parse`, `Refuse`, `BeginOutputs`); `Parsed` is `parseInputOutput` with
`getTypeAndSizeFromString`, which looks at the first pair of brackets only, so that
an array of arrays (`nested`) passes for an array; `InputText` is `getSignature`.
`Canonical` is what the Ethereum ABI asks for. A size has at most three digits:
the ABI has none above 256, and `sizeBuf` has no room for more with its NUL.

## 3. The runs

Twelve runs, eight that pass and four in which TLC finds what a comment or a test
of the repository says violated. "States" are distinct states of the passing
ones.

| run | module | states | question | properties |
|---|---|---|---|---|
| `platform_http` | `MCPlatformHttp` | 3324 | what does a post hand over, what decides about it, what does it leave behind, and does it come back, on each platform? | `ReadIsOurs`, `NanoFromBrace`, `OpenSocketTimedOut`, `OsWholeOrNothing`, `RefusalIsError`, `HeldPerPost`, `EspOwnReply`, `PostReturns`, `HttpPostSpec` |
| `connection` | `MCConnection` | 314010 | which replies pass for an answer that are none, what does a failure leave, and where does each request go? | `CTypeOK`, `AccountIsWhole`, `GoesWhereConfigured`, `FailureKeepsOutput` |
| `session` | `MCSession` | 1161362 | does the chain take what was asked for and nothing else, is anything paid without a nonce, and does every command end? | `CutIsNeverAccepted`, `AcceptedWasAsked`, `SuccessOnly`, `RefusedForAReason`, `PaidOnlyIfRead`, `CommandEnds` |
| `platform_random` | `MCPlatformRandom` | 105044 | what happens as the descriptors of the OS build run out; are the numbers of the ESP8266 in range and made of their own bits, and which loops end? | `UnreadIsZero`, `HungForEver`, `ReturnsOrExhausts`, `InRangeAndFair`, `CanReturn`, `BitComes` |
| `platform_storage` | `MCPlatformStorage` | 92600 | can a torn or old key be read from a file after a crash or on a full disk; does a committed key read back from flash, on both boards, after restarts, power failures, failed commits and neighbours? | `OsNoTornKey`, `BoardReadsBack` |
| `call_data` | `MCCallData` | 6853 | is the call data of static inputs the Ethereum encoding? | `StaticCallIsAbi` |
| `abi_parser` | `MCAbiParser` | 58271 | does the contract know its functions, in order and with their selectors? | `FunctionsInOrder`, `SelectorIsCanonical` |
| `conversions` | `MCConversions` | 281774 | is what is signed, sent and shown what was typed, and is a mistyped address refused? | `TypeOK`, `TypedIsRead`, `AddressNamesBytes`, `TypoIsCaught`, `TransferIsAsTyped`, `SignedIsTyped` |

| run | module, cfg | what is said | property that fails |
|---|---|---|---|
| `os_cleanup` | `MCPlatformHttp`, `MCOsCleanup.cfg` | `http/os/http.cpp:123` "always cleanup" | `AlwaysCleanup` |
| `base64_room` | `MCSession`, `MCBase64Room.cfg` | `api/rpc.cpp:123` "Double the size is enough" | `DoubleIsEnough` |
| `new_account` | `MCPlatformRandom`, `MCNewAccount.cfg` | `account.h:19` "a new randomly generated address" | `NewAccountIsRandom` |
| `call_data_heads` | `MCCallData`, `MCCallDataHeads.cfg` | `src/tests/src/contract/contractTests.cpp:597` and `:556`, the head words of dynamic inputs | `CallIsAbi` |

The type invariants of the modules with proofs are theorems (section 5) and
conjuncts of their inductive invariants, so no run repeats them but `CTypeOK`,
which says that nothing is written beside the two arrays.

What the runs show, property by property, is in the comment above each
property. The ones a reader would least expect:

- `ReadIsOurs`: the Nano's open socket after a timeout is harmless, and only
  because `connect` drops it and its buffer before the next request goes out.
- `NanoFromBrace`: what a Nano hands over begins at the first `{` of the reply,
  wherever that is, and may end anywhere behind it. So `HttpPostSpec` promises no
  body: a caller gets a run of units of the reply to its own request, from the
  body or from that `{` on. Which of these pass for an answer is for the wallet
  calls to say.
- `AccountIsWhole`: of everything a reply can lack, and of everything in front of
  it, only four things pass for a SUCCESS of a call that has not read all its
  fields: a nonce or a gas limit of an action that is no number, the hash of a send
  that is no hash, and no account object for `getBalance`, which the JSON out of a
  header (`Report-To: {...}`) is as well. None of them does in `getAccount`, from
  which the nonce of the next action comes.
- `HeldPerPost`: the OS transport leaves the list of its request headers behind
  with every post that got a handle, whatever came of it, and a handle and a global
  initialisation besides with every transfer that failed.
- `EspOwnReply`: a POST that failed counts as a SUCCESS without a body, unless the
  line that refuses it had come; the status of an earlier reply never decides.
- `GoesWhereConfigured`: a refused `setHost` goes unnoticed and leaves the host
  before it in force, whole; what `Host::toString` puts together the Nano takes
  apart into the same three parts.
- `PaidOnlyIfRead`: a sketch whose `getAccount` failed sends with nonce 0, and
  an account is never at nonce 0, so the chain refuses it. Nothing in the
  sketches would stop it.
- `SuccessOnly` is about success alone: after a lost reply "failed" is shown for
  an action that was taken, and after a request that was given up for one that
  may be taken later. `AcceptedWasAsked` shows that sending it again pays once, for
  the nonce has moved, whichever of the two gets there first; and while "sent"
  stands there nothing given up before can be taken any more.
- `CutIsNeverAccepted`: an action too long for the buffer is signed without
  its body. Two such actions of one size and nonce have the same signature;
  still nothing is accepted on it, because the chain encodes in full.
- `UnreadIsZero`: a new account whose key could not be read holds what the memory
  of the object held. If that is zero the account comes out, with the key zero
  (the run `new_account` shows how). Any other such key needs a number for its
  public key, which no descriptor is left to draw: the price is `HungForEver`.
- `OsNoTornKey`: the file storage is safe although it truncates first and looks
  at no result, because the reader insists on the full length.
- `StaticCallIsAbi`: a call with static inputs only is right word for word. With
  dynamic inputs it lacks the words that say where they are (`call_data_heads`),
  and nothing else: that is the theorem `OnlyHeadsLost`.
- `CanReturn`: the loops below a bound end with probability one but for bounds
  at the two ends of a `long`, where none of them ever can.
- `AddressNamesBytes`: an address of at most 90 characters, which is what
  `Decode` takes, is right for all of its bytes only because 20
  bytes are 32 groups with nothing left over; the lines for a rest drop it.
- `TypoIsCaught`: a mistyped address is not always refused by `Decode`. It ends
  the prefix at the last "1", and a "1" typed for another character may move that
  end: the checksum is then of a shorter text, which nothing keeps from fitting.
  What is left is that the prefix is no longer "io". Without such a "1" any two
  wrong characters are refused.
- `TypedIsRead`: a key read with the size of a signature is still read right;
  the two bytes more that may be written lie behind it.

### Bounds

| bound | value | why it is enough |
|---|---|---|
| `MaxPosts` (transports) | 3 | state that outlives a post is overwritten by the next: one post to leave something, one to be hit by it, one after that |
| `MaxPosts` (`Connection`) | 2 | an out parameter left by one call meets one later call of any kind |
| `MaxSets` | 2 | one host to leave characters behind, one that is shorter, refused or without a base |
| `MaxLen`, `PortChars`, `UIntSize` | 3, 2, 1000 | names and bases below, at and above the limit; ports of one digit and of two, and the -1 of a host that was never set, which is cut |
| `HeaderLen`, `BodyLen` (transports) | 2, 2 | a body can be absent, partial or whole; the header has an inside, so that a `{` can be in the middle of either and an off-by-one shows; six kinds of reply have the first `{` in each of these places or nowhere, and their status in a header, in a trailer, in both or not at all |
| `HeaderLen`, `BodyLen` (`Connection`) | 1, 2 | a reply is cut in front of, inside or behind the body; a page has its `{` in the middle |
| `Timeout` | 2 | a poll that is not the last and one that is |
| `Capacity`, `HeadSize` | 6, 2 | 4 bytes of data fit exactly, 5 do not; 3 with a prefix fit, 4 with one do not; odd and bad texts of a size that fits |
| `MaxSends`, `MaxOthers` | 3, 1 | a nonce before, at and after the one the account is at; a retry of what was taken; one action of another board at any point |
| `Nonces` (`OwnSends`) | 1..2 | what an application that is no sketch may pass; a sketch passes 0 as well |
| `FdLimit`, `Words`, `MaxOps` | 11, 3, 5 | a new account takes at least 4 descriptors and a signature 6, so the limit falls in every step of an operation, in the middle of a number as well; a redraw uses up the rest; keys are zero, in range or too big |
| `LongBits`, `ByteBits`, `WordSizes` | 5, 3, {3, 4} | the smallest `long` with bounds below, at and above its half and its quarter, powers of 2 and not, of both signs; the loops move one bit at a time, so that width adds turns and no new step |
| `Sizes` | 1, 2 | a buffer with a last byte and one that is not the last |
| `KeyLen` (storage) | 2 | the shortest key that can be torn |
| `FlashSize`, `DefaultSize`, sketch size | 6, 5, 4 | three different sizes of the copy; storage ids that fit in all (0, 2) and in some (3), adjacent and overlapping keys |
| `MaxSaves` | 3 | a key, one beside or over it, and one after that |
| `MaxCalls` (`CallData`) | 2 | an `out` string left by one call meets one later call |
| `Abis` | up to two elements over 45 types | a function behind a skipped element, behind a complete function, behind an error; every base as a value and in both kinds of array, lengths of 1, 2 and 3 digits |
| `KeyLen`, `KeyLimit`, `MessageLen`, `AddressLen`, `WordLen`, `UintLen` (`Conversions`) | 2, 5, 11, 5, 8, 2 | `KeyLimit` is 65 for a key of 32: above the key, so that texts fit neither, one or both; a message length of two digits; bytes that fill groups of 5 evenly, as 20 do; a word longer than both of its contents |
| `MaxTypos` | 2 | one wrong character, two, and two neighbours swapped, anywhere in an address |

Real data is looked at too: `MCConversions` states as an ASSUME, which TLC
evaluates, that `Decode` accepts two IoTeX addresses of `src/tests/src` as 32
groups behind "io", and that `Encode` gives them back.

Deadlock is checked in `conversions`, where commands follow each other without
end. The other instances stop when their bounded number of posts, saves, sends,
operations or calls is used up (and `AbiParser` when its one ABI is parsed), and
their cfgs say so.

### Fairness

- `PlatformHttp`: weak fairness of `PostStep` on a Nano and of `EspStep` on an
  ESP. The sketch runs on, and the `HTTPClient` of an ESP gives up after the timeout
  that is set; nothing is asked of the network, so `PostReturns` holds for a server
  that never answers. Nothing is asked of libcurl, which is given no timeout, so
  nothing is said of the OS build.
- `Session`: weak fairness of the answer or failure of `getAccount` in a sketch
  that has no menu, of the send that follows, of `SendStep` and of `Report`:
  `loop()` runs on, and a post comes back, which is `PostReturns`. Nothing is
  asked of the WiFi, of the user at the menu, or of the other board.
- `RandomSource` (`Fairness`, on the OS build): `WF_vars(Step)`, an operation under way runs on;
  `SF_vars(NextNumber)` and `SF_vars(Return)`, a number drawn again and again
  from a source that works is in range in the end. Both need a word that was
  really read (`drawn`), so the fairness says nothing of an exhausted process.
- `TrueRandom` (`TrueFairness`, on the ESP8266): `SF_trueVars(RawDiffers)` and
  `SF_trueVars(WhiteDiffers)`: an input that is asked for bits again and again does not give equal pairs for ever.
  `CanReturn` takes the place of liveness for the loops above, for which no
  fairness of single bits would be honest.
- All others are safety only.

## 4. Departures from the documents

These were met while modelling. They are in the models as the code has them. The
first four are runs of their own, in which what the document says is violated, and
findings in `PROJECT.json`; of the others the properties are stated so that the
exception is visible:

| the code | the document | in the model |
|---|---|---|
| `http/os/http.cpp:121`: a failed `curl_easy_perform` returns before both cleanups | `http/os/http.cpp:123` "always cleanup" | `PerformFails`; the run `os_cleanup`; `HeldPerPost` counts what is left |
| `rpc.cpp:128`: the base64 of 0, 1, 2 or 4 bytes is longer than its buffer | `rpc.cpp:123` "Double the size is enough" | `Post`; the run `base64_room` |
| `random/os/random.cpp:16`: out of descriptors, a new key is what the memory held | `account.h:19` "a new randomly generated address" | `FillKey`, `DeriveZero`; the run `new_account`; `UnreadIsZero` says which key it can be |
| `contract.cpp:116`: the head of a dynamic input is computed into a buffer that goes nowhere | `src/tests/src/contract/contractTests.cpp:597` expects the word | `Assemble`; the run `call_data_heads`; `OnlyHeadsLost` says that this is all that is missing |
| `pb_api.cpp:119`: no `accountMeta`, no balance, SUCCESS | `wallets.h:40` "The account balance if successful" | `StopsParse`, `Unfilled`; an exception in `AccountIsWhole` |
| `pb_api.cpp:304`: a nonce that is no number ends the parser with SUCCESS | `wallets.h:50` "The action data if successful" | `Unfilled`; an exception in `AccountIsWhole` |
| `wallets.cpp:108`: a hash that is not hex, SUCCESS | `wallets.h:72-73` "if successful" | `Unfilled`; an exception in `AccountIsWhole` |
| `random/os/random.cpp:16`: out of descriptors no signature returns | `account.h:93` "The signed message as a byte array" | `ReturnsOrExhausts` has the exception, `HungForEver` is what follows |
| `storage/os/storage.cpp:28`: a full disk, SUCCESS, a short file | `storage.h:33` "Success or an error code" | `Close`; `OsNoTornKey` is about reads |
| `storage/esp/storage.cpp:32`: a key near the end is cut, SUCCESS | `StorePrivateKey.ino:27` "any number between 0 and eepromSize" | `Fits` in `BoardReadsBack` |
| `contract.cpp:136`: unknown function, SUCCESS, `out` as it was | `contract.h:46` "The encoded data as a hex string if successful" | `Return`; `StaticCallIsAbi` is about functions that exist |
| `contract.cpp:265`: every bool is true (address of the value) | `contract.h:42` "Ethereum encoded data" | `SimpleWord`; `Plain` excludes false |
| `abi.cpp:279`: an array size loses every other digit | `abi.h:62` "Parses the size and type" | `ArraySize`; `LongArray` in `SelectorIsCanonical` |
| `abi.cpp:253`: `uint[]` has no size in its signature | `abi.cpp:309-310` "the size is required even if the parameter is uint or int" | `SizeBytes`; `UnsizedIntArray` |
| `abi.cpp:218`: the type name `tuple` is accepted with a type nobody wrote | `abi.cpp:148` "Unsupported type: Tuple" | `Parsed`; `Known` |
| `encoder.cpp:202`: a core that does not fit is signed without its action | `encoder.cpp:200` "This assumes maxOutSize is always enough" | `Encoded`; `CutIsNeverAccepted` |
| `encoder.cpp:191`: data with a `0x` prefix gets a zero byte behind it | `account.h:167` "The action data" | `Converted` |

And these contradict no document, but a reader of the models will meet them:

- `api/abstract.h:15` drops the false of `Host::set`, and `host.cpp:28` measures
  a null `baseUrl`, the default of every caller (`SetHostRefused`,
  `SetHostNull`). `connection.h` sets a second host that nothing reads.
  `host.cpp` prints the port as unsigned into five characters (`PortText`).
- The Nano's test for `https` compares the NUL as well and never holds (`Split`).
- `ESP8266TrueRandom.cpp`: a bound above 2^30 that is no power of 2, and
  `LONG_MIN`, never end (`CanReturn`); `fillRandom` of the ESP8266 draws 1..254.
- `account.cpp:66` passes the size of a pointer, so that
  `getEthereumAddressBytes` converts nothing (`ERROR_BAD_PARAMETER`, dropped).
- The Nano takes a `{` of a header for the start of the body, so that a good answer
  behind such a header is refused, and by `getBalance` taken without its balance
  (`HasBrace`, `FromHeader`).
- `http/os/http.cpp` never frees the list of headers of a post (`get` frees its
  own), and `http/esp/http.cpp` does not look at what `POST` returns (`PostFails`).
- A commit of the ESP8266 that fails half way loses every key, and
  `savePrivateKey` says SUCCESS (`ProgramFails`).
- An array of arrays, `uint8[3][2]`, is parsed as `uint8[3]` (`Parsed`), though
  `contract.h` says that nested arrays are not supported; an array element of
  unknown type ends an array early (`StaticElements`).
- `str2hex` writes one byte more than half of an odd text; the sketches pass the
  size of a signature, 65, for a key of 32 (`KeyLimit`); a bad digit leaves the
  bytes before it (`TypedIsRead` says how far a text reaches).
- `CreateAccount` makes a new key, without a word, of a text that is not 64
  characters long; `bech32_encodeHexString` counts a `0x` that `str2hex` skips;
  `SignMessage` signs what lies behind its array when the message is longer.
- `encoder.cpp:125-136` puts the bits that are left over into the wrong array.
- Two sketches read a 41-character address into an array of 41 with its NUL,
  and `StorePrivateKey.ino` prints one byte more than the key has.

## 5. What is proved

Eight modules of theorems. Every theorem about a specification rests on an
inductive invariant, and none of the properties is inductive alone.

`Transport_proofs`, about the three transports and the program that has one:

- The Nano's, for every reply length, timeout, number of posts, kinds of reply and
  places of their first `{`: `NanoInvariant`, `NanoTypeCorrect`, `ResponseIsOurs`
  (`ReadIsOurs`), `SocketClosed` (`OpenSocketTimedOut`) and `NanoKeepsPromise`:
  `NanoSpec => HttpPostSpec`. That a response belongs to this post depends on whose
  socket is open and on what it has delivered, so `SocketInv` says that the buffer
  is the run of units that ends with the last that arrived, and `PostInv` ties the
  program counter to the socket and to what has been read: while reading, read
  units and buffer together are the reply so far. The lemmas on `Units` (a run is
  extended at its end, read at its front, cut at the first `{`) are all the
  sequence reasoning there is. The refinement maps a successful `Finish` to
  `Succeed` with as many units from the `{` on as were read, a failing one,
  `ConnectFails` and the last `Poll` to `Fail`, and everything else to a stutter.
- The one on libcurl, for every set of replies with any status lines:
  `CurlInvariant`, `CurlTypeCorrect`, `RefusalReported` (`RefusalIsError`),
  `PostsLeak` (`HeldPerPost`) and `CurlKeepsPromise`. `CodeInv` says that the code
  is OK only if the latest line allows it, or if there was none; `ResponseInv` that
  what left curl without an error is whole or empty; `ResourceInv` counts one list
  of headers per post with a handle, and one handle and one global initialisation
  per failure and for the transfer under way.
- The one of the ESP boards, for every set of replies: `EspInvariant`,
  `EspTypeCorrect` and `EspKeepsPromise`. Its invariant says that the header that
  is collected, once the request is out, is of this reply or empty, as far as the
  reply has come.
- The program, whatever it is built for: `PlatformInvariant` (the invariant of its
  own transport), `BraceDecides` (`NanoFromBrace`), `WholeOrNothing`
  (`OsWholeOrNothing`), `OwnReplyDecides` (`EspOwnReply`) and
  `PlatformKeepsPromise`: `PlatformSpec => HttpPostSpec`.

`Wallets_proofs`, about the calls and the host they go to:

- For every set of replies that fits `KindsAssumption` and any number of calls:
  `WalletsTypeCorrect`, `AccountsAreWhole`
  (`AccountIsWhole`), `OutputKept` (`FailureKeepsOutput`), over every post that
  `HttpPost` allows, from a `{` in a header on as well.
  The invariant `WInv` adds `StageInv`: a call under way has not returned, its
  reply is one a server may give to that call, and a call that decodes had a
  post that succeeded. `ConnectionCalls` is `CSpec => WSpec`: a `Connection`
  makes the calls of `Wallets` and nothing else, so that all of it holds of a
  `Connection` too.
- For names and bases of any length, arrays of any size and ports of any number
  of digits: `ConnectionTypeCorrect` (`CTypeOK`) and `RequestsGoWhereConfigured`
  (`GoesWhereConfigured`). `ConfigInv` says that what stands before the NUL of
  each array is the text set last, whatever the array held before
  (`CopiedReadsBack`), and that the URL under way is made of these
  (`Host::toString`). That the Nano takes it apart into the same parts is
  `UrlSplits`, which rests on `AtoiDigits`: the digits of a number are read back
  as that number.

`Session_proofs`, for every set of actions, nonces and sketches, every capacity,
number of sends and of actions of others, and requests that come late in any order:
`SessionTypeCorrect`, `CutRefused` (`CutIsNeverAccepted`), `TakenWasAsked`
(`AcceptedWasAsked`), `SuccessIsTrue` (`SuccessOnly`), `RefusalsHaveReasons`
(`RefusedForAReason`), `PaidWasRead` (`PaidOnlyIfRead`). The invariant is in two
layers. `AInv` is about the sends, whoever makes them: `NonceInv` says that the
chain has moved past the nonces of all that it took, so that it takes none twice,
in whatever order requests come; `LateInv` that a request that was given up has
the signature of its own send; `SendInv` that what is posted is what was signed of
the core asked last. `SInv` adds `CommandInv`: a sketch that has no account holds
0, and what it sends has the nonce it holds; and `ReadInv`: a nonce that a sketch
sent with is never ahead of the chain, and behind it once the action of a command
was taken, which is why nothing given up before can follow. `PendingType` (the
account is never at 0) is what keeps a send without a nonce from being accepted.

`Contract_proofs`, about the two halves of a contract:

- The parser, for every ABI that `AbisAssumption` calls one (any number of
  elements, inputs and outputs, sizes of up to three digits, lengths of any number
  of digits, arrays of arrays):
  `ParserInvariant`, `FunctionsKnown` (`FunctionsInOrder`), `SelectorsCanonical`
  (`SelectorIsCanonical`). `ParsedInv` says that the types parsed so far come,
  each at its place, of the inputs and then the outputs of the element under
  way; `KnownInv` that each function of the contract was made of its
  declaration, and of its inputs alone. From that the signature follows, type
  by type (`TextKept`): a size and a length of one digit come back as the
  numbers they were.
- The encoder, for every contract, any values of the dictionary and any number
  of calls: `CallInvariant`, `OnlyHeadsLost` (`OnlyHeadsAreLost`: the call data is
  the ABI's without the heads of its dynamic inputs) and, from it,
  `StaticCallsAreAbi` (`StaticCallIsAbi`). `PartsInv`
  says that the parts are the words of the inputs passed, `BufferInv` what is
  in the buffer before, at and after the one function that is asked for,
  whatever earlier calls left in `out`. The rest is about words:
  `SupportedWords`, that the code's words of a value are the ABI's, and
  `AssembledIsAbi`, that the static parts and then the dynamic ones are the
  ABI's tuple without its heads. They rest on what flattening a sequence of
  sequences gives when its members are empty, single or of one type.

`Random_proofs`, about the two sources of randomness that are code:

- The one of the OS build, for every number of descriptors, words and
  operations: `RandomTypeCorrect`, so no descriptor beyond the limit,
  `UnreadKeysAreZero` (`UnreadIsZero`), `HangsForEver` (`HungForEver`). `RInv` adds
  that a key that was never read and is not zero is in an operation that is hung
  or was ended (`UnreadInv`): it came from a `fillRandom` with no descriptor left,
  none comes back, and without one no word of the number it needs can be read.
- The one of the ESP8266, for a `long` and a byte of every width, all bounds a
  `long` can hold and every size of a buffer: `TrueRandomInvariant`,
  `NumbersAreFair` (`InRangeAndFair`), `CanEnd` (`CanReturn`). `TrueInv` sorts
  the loops into four: a word, whose value is the number of its bits
  (`WordInv`); a loop below a bound, whose value is the number of its bits times
  their weight and stays below the bound (`BelowInv`); one below a negative
  bound, asked for or come of a difference that wrapped around, which draws
  nothing (`NegativeInv`); and the ones that never end (`EndlessInv`). That
  every loop begins as one of these (`BelowBegins`) is where the arithmetic of
  `howBig & (howBig - 1)` and of the smeared top bit is, and where the bounds at
  the ends of a `long` come out. `CanEnd` follows a loop from wherever it is
  through bits that are 0.
- `PlatformHasBoth`: a behaviour of the program is one of `RandomSource` and one of
  `TrueRandom`, of which that of the other platform stays as it began.

`Storage_proofs`, about the two kinds of key storage, and the program that has
one:

- The EEPROM of the boards, for every size of flash and copy, every set of
  storage ids and keys and any number of saves, on both boards:
  `EepromTypeCorrect`, `KeysReadBack` (`SavedReadsBack`). `FlashInv` says that
  the flash holds every key that it should and that fits, but while it is
  programmed; `CopyInv` that the copy does, but for those the save under way
  writes over; `WriteInv` how far that save is; `FlagInv` that the flag of the
  Nano was set before the first key.
- The file of the OS build, for every set of keys, key length and number of
  saves: `FileTypeCorrect`, `ReadsAreWhole` (`NoTornKey`). `FInv` says that the
  file never holds anything but a start of the key of the latest save begun
  (`FileInv`), which `fopen` with truncation makes true and no crash, full disk
  or failed `fopen` makes false. `FlushFInv` treats a completed, a short and an
  interrupted write as one case.
- The program: `PlatformHasOne` (on the OS build it behaves as `FileStorage`, on a
  board as `EepromStorage`), and from it `FileReadsAreWhole` (`OsNoTornKey`) and
  `BoardsReadBack` (`BoardReadsBack`).

`Conversions_proofs`, about the texts of a command line, for every size of a key,
a message, an address and a word, every limit `KeyLimit`, every text, amount and
stack left by earlier commands: `ConversionsInvariant`, `TypesCorrect`
(`TypeOK`), `TypedCorrect` (`TypedIsRead`), `AddressesCorrect`
(`AddressNamesBytes`), `TyposCaught` (`TypoIsCaught`), `TransferCorrect`
(`TransferIsAsTyped`), `SignedCorrect` (`SignedIsTyped`). The properties do not
say where an address in hand came from; `NamesAgree` does: the addresses are the
two texts of the hash of the account, the copy is as long as the IoTeX one, and
what was decoded is `Decode` of the copy. `FewTypos` says that a copy differs from
the address in at most two places, after a swap as after two wrong keys. TLC
checked the invariant on the instance of `conversions` first. The rest is
arithmetic on texts:

- `Str2HexReads`, `Hex2StrWrites`: each reads what the other writes; a prefix is
  skipped, capitals count, what lies behind the bytes stays.
- `ChecksumVerifies`, `DecodeReads`: `PolyMod` of a text with its six checksum
  groups is the constant of its encoding. The remainder of six more groups is
  the remainder of six zeros plus these groups (`SixMoreAdds`), because six
  places leave room for them; the rest is that the sum of a group and itself is
  zero. So `Decode` accepts what `Encode` wrote and takes it apart again, in
  capitals too.
- `TwoWrong`: two texts that differ in one group, or in two, among the last 87,
  have remainders whose difference is neither zero nor that of the constants of
  the two encodings, so a text that passes the checksum does not pass as either
  with one or two groups changed. A step of the checksum is additive
  (`MultipliedAdds`) and can be undone (`MultipliedInjective`). So the difference
  of the first wrong group goes on with zeros until the second, which changes one
  coefficient of six, and with zeros from there to the end. `Steps` is the table of
  where the group 1 goes in 86 steps and `StepsGo` its proof; `Mark` is made of the
  other five coefficients by what multiplication with an element of the field
  leaves alone, so that one row speaks for 31 groups (`EveryRunMarked`). `Back` is
  the table of what goes to the difference of the constants in as many steps, and
  none of its rows, nor zero, has a mark of the first table (`BackUnmarked`). 87
  groups are all that 90 characters leave after "io1".
- `TypoRefused`: a character that is none of the 32 is refused, one that is
  changes one group; a wrong character of the prefix leaves an address whose
  prefix is not "io".
- `ConvertKeepsBits`: no bit of the bytes is lost or moved by the groups of 5 but
  those that do not fill a group.
- `DigitsSayLength`: the digits that `sprintf` writes in front of a message say
  its length; `WordSaysNumber`: the word of a `uint64_t` holds its value,
  `TransferData`: the call data is the selector and the two words.

`RecursionLemmas` is what the proofs about texts, numbers and lists stand on.
The induction theorems of the library take an operator as a parameter, which the
provers installed here cannot instantiate; `Induction`, `InductionUpTo` and
`StrongInduction` are stated of a set instead, and proved from the well-founded
order of the natural numbers. `Recursion` and `ListRecursion` say that a
definition in which each value comes of an earlier one has a function that
satisfies it; with them every recursive function of the models (the digits of a
port, `atoi`, the number of a sequence of digits or of bits, the functions among
the elements of an ABI, the flattening of parts, the turns of a loop) is
unfolded once, in a lemma whose name ends in `Def`, and used by that lemma.

The assumptions are the named ASSUMEs of the modules, and TLC evaluates them on
every run. They say what the code's types and limits say: lengths and bounds are
natural numbers, a body has at least one unit, a timeout at least one poll, a
set of replies is what it is said to be, texts are sequences of characters that
are not NUL and an array has a place more than its limit, a port is less than
2^32, a `{` of a reply is inside of it, and that of a JSON body at its start, ABIs
and contracts are made of sequences, a size in a type has at most three digits, a
value has a size, a storage id leaves room for a key in the flash, a byte is
two bits shorter than a `long`, an address and a `uint64_t` fit a word, the
length of a message has at most ten digits, as a `size_t` of these boards does,
and a user makes at most two typos.

Together: `PlatformKeepsPromise`, the theorems on `Wallets` and `ConnectionCalls`
say that on every platform a wallet call that fails changes nothing, and one that
succeeds without having read all of its fields is one of the exceptions of
`AccountIsWhole`, whatever the network delays and wherever a `{` is; and
`RequestsGoWhereConfigured` that it was asked of the right host. The composition is
by hand: `Wallets` uses the actions of `HttpPost`, which the program refines. In
the same way `SelectorsCanonical` and `OnlyHeadsLost` together say what the bytes
of a call are, from the ABI and the values to the last word, but for the heads;
the functions of `CallData` are those `AbiParser` yields, again by hand.

The proofs changed a few definitions. Where two arms of a CASE overlapped
(`SizeBytes` and `Parsed` of `AbiParser`, `Converted` of `ActionSend`, `Unfilled`
of `Wallets`), TLC takes the first and the language leaves it open, so a guard
now says which. `Supported` of `CallData` says that the elements of an array are
all static or all dynamic, without which the offsets the code writes are not
the ABI's. The powers of two of `TrueRandom`, `PolyMod` of `Bech32` and the number and
the replacing of `Conversions` are recursive functions where they were folds, and
the exclusive or of two groups is written bit by bit (`Xor5`) where it came from
`Bitwise`. `AddressNamesBytes` now says that the address has at most 90
characters, since `Decode` refuses a longer one: true of all of 20 bytes, and
false without it for an `AddressLen` that is large. `TypoIsCaught` now has the
exception of a prefix that is no longer "io". Nothing on the instance of
`conversions` needs it; that the argument stops there showed in the proof.

## 6. What is only model-checked

Liveness (`PostReturns`, `ReturnsOrExhausts`, `CommandEnds`, `BitComes`) is out
of the provers' reach. Every other property of the passing runs is a theorem. The
properties of the other four (`AlwaysCleanup`, `DoubleIsEnough`,
`NewAccountIsRandom`, `CallIsAbi`) are false of the code, and TLC shows a behaviour
in which they fail.

## 7. The plan

The order was: the transports and their promise; the wallet calls over it; the
sends and the chain; storage and randomness; the encodings of a contract; the
sketches and the host over the calls; the conversions of texts. All of it is
there. What would come next, by what it is worth:

1. The heads of dynamic inputs, once `contract.cpp` writes them: `AbiCall` is
   there to compare with, the run `call_data_heads` then passes, and `OnlyHeadsLost`
   becomes a theorem about `CallIsAbi`.
2. Three and four wrong characters. The distance of the code is said to allow
   it; the argument behind `TwoWrong` would need the sums of two rows of its
   table, some 3500 of them, instead of the rows.
3. The storage sketches over `EepromStorage`, if they come to save more than one
   key.

## 8. What is not modelled, and why

- `get()` of the transports: the library never calls it.
- The layout of the JSON text of requests, and log output: wording. The 1024
  bytes a request is printed into are left out as well: every field of an action
  has a fixed size but the data, whose size is added to them.
- Hash functions and elliptic curve arithmetic: vendored, with published test
  vectors. A hash is taken to be as good as what was hashed.
- JSON helpers (`helpers/`): nothing in the library uses them.
- The protobuf tables: generated; `ActionSend` models what nanopb makes of them.
- The draws of the ESP32 and the Nano: one line each over the hardware. `mac`
  and `uuid` of `ESP8266TrueRandom` are `memfill`, which is modelled; `yield()`
  calls nothing that touches the state of this library.
- The `MakeParam` helpers of `abi.cpp`: each fills a struct.
- The sketches that only read, and the storage ones: a single call of what other
  modules model.
- Vendored libraries (`extern/`): modelled only where the code here depends on
  what they do (draws of `ecdsa.c`, size of `base64.c`, what nanopb writes).
  WiFiNINA, libcurl, HTTPClient, the EEPROM libraries, `/dev/random` and the
  chain are external and modelled from how this code uses them; the head of
  each module says what is taken of them.
