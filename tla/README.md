# xmmrpc in TLA+

Specifications of `xmmrpc`, the program that brings up an Intel XMM7360 modem over
the `iosm` driver's RPC port: TLA+ modules translated from the Rust source and from
the unit that runs it, TLC configurations that check them on small instances, and
theorems that TLAPS checks for every value of the constants. Source files are named as
in `PROJECT.json`, where the repository's root is called `src/` (so
`src/src/transport.rs` is the repository's `src/transport.rs`); `PROJECT.json` maps
every definition to the lines it stands for, and lists what is hard to test, line by
line, with the properties about it.

## 1. The system

One process, one thread, one open port. `main` resolves the settings, opens the port,
takes the modem through its bring-up, configures the host's network and exits with
code 0, 1 or 2; a systemd unit (`nix/module.nix`) starts it again when it fails.

| Component | State | Operations | What makes it correct |
| --- | --- | --- | --- |
| transport (`transport.rs`) | open file, `inbuf`, `attach_allowed` | `open`, `reopen`, `execute`, `execute_with_timeout`, `recv`; inside: framing, parsing, classification | frames are cut where the firmware cut them; a response answers a request that is waiting; nothing from before a reopen survives it; timeouts end calls; an attach permission is not lost |
| modem (`modem.rs`) | none between calls; the place in the bring-up | `wait_ready`, `initialize`, `fcc_unlock`, `set_mode`, `firmware_version`, `attach`, `wait_for_ip`, `open_data_channel` | requests are made in an order the modem can serve; what is concluded is true of the modem; every wait ends, or is one of the two without a deadline |
| main (`main.rs`), error (`error.rs`) | settings, exit code | `main`, `run`, `exit_code` | the exit code says what happened |
| config (`config.rs`) | none; reads files a user may be editing | `Settings::resolve`, `load_file`, `read_config` | command line over one file over default, and no file passed over for another |
| net (`net.rs`) | the kernel's addresses and routes, `resolv.conf` | `configure`, `append_resolv_conf` | the host is touched only for a connection there is; a success leaves what was asked for, whatever earlier runs left |
| codec, requests, apn | none | `pack`, `unpack`, `decode_values`, request bodies, decoders of answers | decoding inverts encoding; decoders stop, inside the payload and in step; addresses and servers are the right ones |
| service (`nix/module.nix`) | systemd's | wait for the port, start, restart, resume | restarts are for failures, not for missing service; they end; an active unit has a connection |
| call_ids, unsolicited | none | tables of names | only logged |

The interactions: `run` calls the functions of `modem.rs` in a row, each of which calls
the transport; the transport writes requests and reads one stream of bytes that holds
responses, acknowledgements and indications; between `wait_for_ip` and
`open_data_channel`, `run` speaks netlink and appends to the resolver file. What one run
leaves on the host, and its exit code, meet the next one through the unit.

What is hard here is not concurrency inside the program but the other sides. The
firmware answers late, never, or in an unexpected place; indications arrive at any time;
responses carry nothing the program compares with its requests; frames arrive in pieces,
and a call may time out in the middle of one; payloads have nested lengths; the port may
go away; every step may fail, or be the last before a kill, with the earlier ones done;
the machine suspends whenever it likes.

## 2. Modules

| Module | What it is | State and actions against the code |
| --- | --- | --- |
| `Calls` | what a client may count on: one call at a time, each response for an unsettled request, a reopen settles all | `sent`, `settled`, `busy`; no code of its own |
| `Rpc` | the transport with whole messages, the driver's queue and any firmware; any client | `inbuf`, `attachAllowed` are the fields of `Rpc`; `call`, `limit`, `left` the call in progress and its deadline; `wire` and `fwq` the driver and the firmware; `Kind` is `Message::parse`; `TakeMessage` is `recv_inner` with `handle_unsolicited`; `Answered` and `Skipped` the two ways round the loop of `execute_with_timeout`; `ReopenOpens` and `ReopenCloses` the two halves of the assignment in `reopen` |
| `Framing`, `FramingMC` | `read_message` over the byte stream: what `Rpc` takes for granted | positions in the stream: taken, received (`inbuf` is what is between), arrived, sent; one action per branch of the loop; `FramingMC` says which length every position claims |
| `Bringup` | `run`, `modem.rs` and the order of `net.rs` as the client of an instance of `Rpc`, with the modem itself | `step`, `issued` say where the program is; `Request` is the table of its `execute` calls; one action per decision on a result; `modem` is the truth the program cannot see |
| `Codec` | `codec.rs` as operators on sequences of bytes | `PackInt`, `LengthField`, `PackString`, `Pack` encode; `IntAt`, `HeaderAt`, `StringAt` are the three `take` functions, with the arithmetic of lengths modulo the width of a usize |
| `Payloads` | the requests of `requests.rs` and `apn.rs`, those `modem.rs` packs itself (`pack_u32`, `set_mode`) and the answers, through both decoders of `codec.rs` | `data`, `pos` are the `Reader`, `values` what it has given; `TakeField`, `FieldFails` and `Panic` are one round of either loop; `Alter`, `Cut` and `WriteLength` what may happen to a payload; `query_ip` and `parse_dns` what the program takes from it |
| `Config` | `config.rs`: how settings are found and put together while files are edited | `candidate` is the loop variable of `load_file`, which asks whether a file exists and then reads it: `PassOver`, `Found`, `Exhausted` and `ReadSucceeds`, `ReadFails`, with `Edit` between |
| `Host`, `HostMC` | runs of the program on one host, extending `Config` | `link`, `foreign`, `resolv` are the host; `at`, `index`, `address`, `servers`, `written` the process; one action per netlink request and per line written, `RequestFails` and `Kill` anywhere; `HostMC` gives what files and command lines say |
| `Service` | the unit with its timers, restarts, start limit and resume commands, around the program | `unit`, `timer`, `window`, `result` are systemd's; `stage`, `spent` the program, as far as it takes time and decides on its exit code |
| `RpcProofs`, `FramingProofs`, `HostProofs`, `ServiceProofs` | theorems about `Rpc`, `Framing`, `Host` with `Config`, and `Service` | |
| `RpcEffects` | what each step of `Rpc` does to what can still be handed back: the facts its clients need of it | |
| `BringupTransport` | the bring-up runs the transport of `Rpc`, so all theorems on `Rpc` hold inside it | |
| `BringupProofs` | the theorems about `Bringup` | |
| `PayloadsProofs` | lemmas about the operators of `Codec`, and the theorems about `Payloads` | |

`Rpc` rests on `Framing` and promises `Calls`; `Bringup` is the client of `Rpc`;
`Payloads` and `Codec` are the inside of the payloads that `Rpc` and `Bringup` carry as
one integer; `Host` takes `Bringup` as the one step `Connect` between the settings and
the address, with its three outcomes; `Service` takes it as five stages.

A message carries the identity `req` of the request that caused it. The wire has no such
field, and no action of the client reads it: it is there to state correlation. The same
goes for `settled`, `failed`, `age` and `announced` in `Rpc`, `intact` in `Payloads`,
`seen`, `steady` and `before` in `Host`, `connected` and `fault` in `Service`.

What is external, and what is assumed of it:

- The firmware, the driver and the network may do whatever the code has to cope with. A
  request may be answered, acknowledged first, ignored, or served without an answer;
  requests are answered in order; any message may be malformed, in its frame, its
  payload or the echoed id. In `Bringup` the modem refuses attaches, denies addresses
  and lets the network allow an attach later.
- The kernel: an interface that loses its last address, or goes, loses its routes; two
  default routes do not have one metric; an interface that comes back has another index.
- systemd: the start limit counts starts in an interval that begins with the first one
  counted, a restart and `try-restart` among them; `TimeoutStartSec` runs for each
  process of the unit; `try-restart` does nothing to a failed unit.
- Overflow: a build with overflow checks panics, one without wraps; both are allowed.

## 3. What is checked

| Run | Question | Result |
| --- | --- | --- |
| `RpcAnyClient` | any client, any firmware: are responses handed back in order, once, and never from before a reopen (`ImplementsCalls`); are they right until an execute fails (`Correlated`); is an attach permission kept (`FlagFollowsFirmware`) | hold; no deadlock |
| `RpcReturns` | does `execute` return, whatever was received before the firmware fell silent | holds |
| `RpcStaleAnswer` | "Send `cmd` and wait for its response" without a condition | violated: after a timeout the next call gets the late response |
| `RpcLateTimeout` | "fails after `timeout`" | violated: each skipped message starts the timeout afresh |
| `RpcReopen` | "Close and reopen the port, discarding any buffered or in-flight state" with a driver that resets the channel at its last close | violated: the new handle is opened before the old one is closed |
| `BringupSafety` | the whole bring-up: exit codes against the truth, order of requests, the host untouched before there is a connection | hold |
| `BringupEnds` | does it end but for its two waits without a deadline, and do the attach permission and the report of the mode end those | hold |
| `Framing` | frames in pieces, wrong lengths, timeouts half-way, reopens | hold |
| `Payloads` | is what is decoded what was encoded; do the decoders stay in step and inside a payload that was cut or altered; are the address and the servers the right ones | hold |
| `Host` | runs that fail or are killed anywhere, with files edited, the driver reloaded and other routes coming: are the settings those of one file, and is the host as a successful run asked | hold |
| `Service` | failing and hanging runs, and suspends in every state: does the unit come to rest, is it active over a dead connection, is exit code 2 the end | hold |
| `ServiceNoNetwork` | "Exit code 2 means the network never gave us an IP ... so don't reset and reload the modem over and over for it", with a network that refuses the attach | violated: the refusal is waited out without a deadline, systemd kills the program after three minutes, and starts it again |

The violations are those the source's own comments invite; `PROJECT.json` quotes them.
What holds instead is stated and, but for liveness, proved.

`BringupSafety` also follows what happens after the version query failed, which `run`
steps over: every later response is one behind. The second attach may then be judged by
the answer to the first (so `NoServiceMeansNone` claims nothing about a refusal once an
execute failed), but the response to the attach does not decode where the addresses are
expected, so the shift is found out before the host is touched (`HostFollowsModem`) and
never passes for success (`SuccessMeansUp`), both without any condition.

`Payloads` shows where encoder and decoder part: the length of a string of 128 elements
and more is written big-endian and read little-endian. At 128 to 255 elements that is one
byte and the same; from 256 on the decoder reports an error, never another string, unless
the bytes read the same both ways. All requests the program sends are on the good side
(`Readable`), the longest strings being those of the attach configuration; a path for
the data channel that is too long for its field is refused before it is encoded. A length of up
to 15 bytes leaves a usize; a string whose count then comes out right by wrapping still
takes up as many bytes as it says (`TakesItsCount`).

`Service` shows that three starts of the full three minutes each, with the pauses between
them, still hit the limit of three in fifteen minutes (`Settles`); its mutant is an
interval of nine.

`BringupEnds` leaves two waits out of `Ends`, as nothing in the code bounds them: `attach`
waits for the network's permission (`modem.rs:172-174`), `set_mode` for the firmware's
report of the mode (`modem.rs:149-150`), which may never come, or may overtake the answer
to the request, in which case `execute` has skipped it (`transport.rs:176-179`) and
`set_mode` waits in vain. The run explores all of that. `PermissionWakes` and
`ModeReportWakes` say how far the waits can be relied on: a permission ends its wait
whenever it came, a report only if it is still unread when the wait begins, or comes later.

Two passages of the repository go further than the unit does. The comment on exit code 2
is the finding of `ServiceNoNetwork`. And `README.md:93` says that the module "restarts the
service after resume", where `try-restart` starts no unit that has failed: after exit code
2 (`ExitTwoIsFinal`), which is what the module is for, but also after the start limit was
hit, when the unit stays failed over any number of resumes (`Settles` counts that as rest).

### Bounds

- `MaxReq`: 2 requests in `Rpc`: one may be late while the other is waiting, and a
  third adds only another late one; the theorems drop the bound. 1 in `RpcReturns`, as
  the property is about one call. 40 in `Bringup`, more than a bring-up makes here.
- `MaxNoise`: indications and malformed messages in a behaviour, 2 in `RpcAnyClient`
  (two permissions, the later one revoking, or one of them malformed), 1 in `Bringup`,
  where a permission to attach costs nothing (`Costs` is what an indication may count: 1
  alone in the runs of `Rpc`, 0 or 1 in `Bringup`). The theorems drop the bound.
- Timeouts of 1 or 2 ticks; `ReadyTimeout` 2 for two probes, `IpWait` 1 for a second
  address query.
- `Framing`: a length field of 2 bytes, frames of 3 to 5 where 3 and 4 are accepted,
  reads of up to 2 and 11 bytes in all: three frames, with every way of cutting them; said
  lengths below, in and above the accepted range. So a call may also fail for a frame
  that is well-formed and too long, as `NoFrameRefused` needs.
- `BringupEnds` takes a locked modem only, which the unlocked one's steps are part of, and
  of malformed messages those with a bad payload, to keep the liveness check short.
- `Payloads`: `IntWidth` 2 and `UsizeWidth` 3 bytes for a u32 and a usize, so that their
  overflow fits TLC's integers; bytes, tags and the first byte of a length are the code's.
  Strings of 0, 1, 127, 128, 255, 256, 257, 258 and 514 elements, around each change of
  the length field and with 257 and 514, whose bytes read the same both ways. A payload
  is altered in one byte, or cut, within its first `MaxAltered` = 16 bytes, which reach
  into the second field, and only if it has at most 160: longer ones (the attach
  configuration) go through unaltered. Server lists differ in the entries 1, 2 and 16.
- `Host`: two runs (what one leaves and the other meets), one reload, one edit of a file,
  two candidate paths, two addresses, two metrics. The theorems drop all of these.
- `Service`: a tick is 30 s, which divides every time of the unit and of the program; 3
  suspends, as the third in an interval meets the start limit, and 2 other changes of the
  modem, the network or the port. None of these in `ServiceNoNetwork`.
- `CHECK_DEADLOCK FALSE` in `Bringup` (the program exits, and may wait forever for a
  network that never allows an attach), `Payloads` (a decoder ends), `Host` (the runs
  are used up) and `Service` (an active or failed unit rests). In `Rpc` and `Framing`
  deadlock is checked.

### Fairness

- `Rpc`: the thread runs whenever it can (`Progress`), and time passes while it is
  blocked in `poll` (`Tick`). Nothing is assumed of the firmware; it falls silent because
  its indications are bounded.
- `Bringup`: the same of the program (`Program \/ Tick`). Nothing is assumed of the
  firmware or the network: they need not answer, report a mode or allow an attach, and
  may do so early. The two waits this leaves open are in `Ends`.
- `Service`: `WF_vars(System)`: systemd, the program and the clock go on. Suspends and
  changes need not happen, and are bounded: a machine that suspends for ever need not
  come to rest.

## 4. What is proved

All by TLAPS, for any constants that satisfy the assumptions named in the modules
(`RpcAssumption`, `BringupAssumption`, `FramingAssumption`, `CodecAssumption` and
`PayloadsAssumption`, `ConfigAssumption` and `HostAssumption`, `ServiceAssumption`).

Transport:

- `TypeCorrect`: `Spec => []TypeOK`. Inductive with the requests and messages in flight
  restricted to requests already written, and with two handles exactly during a reopen
  (`TypeInv`).
- `CorrelatedAlways`: while no execute has failed since the port was opened, an execute
  returns the response to its own request. The invariant `OrderInv` says that what is in
  flight, the responses read or unread and then the requests not yet answered, is in
  the order of the requests, and all of it later than `settled`; and that, unless an
  execute failed, only the request being executed is unsettled. So there is just one
  response it can be.
- `CallsImplemented`: `Rpc` implements `Calls`, from the same invariant, one step of
  `Calls` or a stutter for each action.
- `CleanSlateAlways`: no response from before a reopen after it.
- `FlagAlwaysFollows`: the attach permission, with a driver of either kind. What the
  queue makes of the flag is the last permission in it; the lemma `OneAfterOther`, that
  two queues one after the other make of it what the second makes of what the first
  does, carries every step. That a finite set of indices has a last one comes from the
  well-founded order on finite sets, without an induction.
- `FramingTypeCorrect`, `InSyncAlways`, `ReturnsFramesAlways`, `BufferAlwaysBounded`,
  `NoFrameEverRefused`, `ErrorAlwaysSticks`: the framing. `FramingInv` adds that frames
  are laid end to end, that all frames ahead of the reader are well-formed unless `garbled`, and that a
  refused length is still the first thing in the buffer.

The theorems on order assume `ResetOn = "open"`: opening the port resets the channel, as
the comment on `reopen` trusts it to. `RpcReopen` shows that they fail without it, and
the code cannot tell: whether `iosm` does so is for the driver to say.

Bring-up (`BringupInv`), for any timeouts, any number of requests and indications, and
any malformed messages:

- `TransportImplemented`: `Bringup` implements `Rpc!Spec` for the instance of `Rpc` inside
  it, in which an open resets the channel. Every step of the program or the modem is a
  step of the transport or leaves it alone; the one invariant this takes is that the
  initialisation stays inside its list of commands. So `TransportHolds`: every invariant
  of `RpcProofs` and `RpcEffects` holds inside the bring-up.
- `BringupInvariant`: the inductive invariant. `Control` ties the call in
  progress to the step it was made in. `OneBehind` is the heart of it: the program is at
  most one request ahead of the answers, and which request was left behind is known
  (`Leftover`), as only the version query is stepped over; every other failure ends the
  program or reopens the port. `Truthful` says that whatever is in flight or was returned
  is true of the modem, the newest answer being as good as the modem's present state
  (`Honest`, `UpToDate`). `InTurn` says which commands have been served when the program
  has come to a step, unless an execute failed or the port is gone, `Concluded` what its
  place says of the radio, the attach and the address, and `ExitsTrue` holds the
  properties about how it ends.
  None of the properties is inductive by itself: an exit follows from an answer, an
  answer from the state of the modem when it was given, and that state from the order
  of the requests before. TLC has checked `Control`, `OneBehind`, `Truthful`,
  `InTurn` and `Concluded` on the instance of `BringupSafety` (1.2 million states): run
  module `BringupProofs` with that configuration and these as its invariants.
- `BringupTypeCorrect`, `NoServiceCorrect`, `SuccessCorrect`, `HostUntouchedBefore` and
  `OrderOfService` from it: the exit codes are true of the modem, the host is touched
  only for a connection there is, the modem is asked for things in an order it can serve.
- `ReturnsRemembered`: a response handed back settles its own request, and an execute that
  returned without one has left its request behind, or had no port to write to. It is the
  fact about `Rpc` from which `OneBehind` goes on.

Payloads (`IInv`), for a u32 of two to four bytes and any wider usize of up to eight, so
for those of the program too, for paths and APNs of any length, other strings of any
length whose padded field is counted by a u32, and any alterations. `PayloadsAssumption`
also says that a payload, being in memory, is shorter than a usize can count.

- The codec inverts itself: `IntDecodes` and `StringDecodes` say what `take_asn_int` and
  `take_string` make of the bytes that `pack` puts somewhere in a payload, for every
  number, width, element size and length. `BothOrders` says when length bytes read the
  same both ways: when they are a palindrome, as an or of bytes in disjoint places is
  their sum. What is shown by cases over the number of length bytes goes up to the four
  of a u32.
- `Fitting` are the fields with values that can be encoded, `Sound` those that can be
  read back. `MessagesFit` goes through the requests and the answers, the attach
  configuration with its 203 fields for every length of an APN (`AttachRequest`), and the
  answer with the servers for whatever entries (`NegDns`). `Setup` shows that the request
  `open_data_channel` puts together from two answers, cutting the last integer off the
  first, is what `pack` would make of its fields, `Shorthand` that the same holds of `pack_u32`,
  as its comment says (`codec.rs:76`).
- The invariant: `Shape` types the payload and bounds its length by a usize; `Progress`
  says of a payload that nothing happened to that there is a sequence of prefixes
  (`Reads`), one for each field packed, and that the reader stands at the end of the one
  for the fields it has given. `Forward` and `TakesItsCount` need only `Shape`: they hold
  of any bytes. `RoundTripAlways`, `TypeOKAlways`, `AddressIsIPv4Always` and
  `ServersCompleteAlways` need `Progress`, as a value is what was encoded only if the
  reader was in step at each field before it.
- The recursive functions (`Pack`, `NumberBE`, `NumberLE`, `parse_dns`) are reasoned about
  by their equations. That a function satisfies its equation follows from `Recursion`,
  whose step is a function on a set, not an operator; it rests on the least element of a
  set of numbers (`Least`), and so does `Induction` over a set that stands for the
  hypothesis. The induction theorems of the library, which take an operator, are not
  needed.

Host (`HostInv`):

- `HostTypeCorrect`, with the settings typed by the defaults (`ResolveType`).
- `SettingsAlwaysOfOneFile`: `Searching` says that the search has not passed over a file
  that was there all the time, and that `seen` holds all that files have said; what is
  read is then one of those.
- `RouteAlwaysHasAddress` and `SuccessLeavesHostAsAsked`: `Progressed` says what the
  requests up to each step have made of the interface, unless it was reloaded since its
  index was read, by which the later requests name it.
- `ServersAlwaysListed`: `Appended` says that the file is what it was before and the
  lines written so far.

Service (`ServiceInv`):

- `ServiceTypeCorrect`: each state that ends by the clock ends in time (`Timely`).
- `ActiveAlwaysConnected` and `ExitTwoAlwaysFinal`; the latter because the result of exit
  code 2 is only ever seen in a failed unit (`TwoIsFailed`), which neither a restart nor
  `try-restart` leaves.

Only model-checked:

- Liveness (`ExecuteReturns`, `Ends`, `PermissionWakes`, `ModeReportWakes`, `Settles`),
  which is out of this prover's reach under fairness.

## 5. What is not modelled

- `call_ids.rs` and the names of `unsolicited.rs`: tables that are only logged. The two
  codes that are acted upon are constants of `Rpc` and `Bringup`.
- The parsing of the command line (`palc`), `--version`, the set-up of logging; TOML,
  beyond a file that is readable or not; keys that are merged like the four modelled.
- The digest in the answer to the FCC challenge; the options of the NixOS module, which
  write the configuration file; packaging.
- Writes cut short: a request, or a line of the resolver file, is written whole or fails.
  The code writes a line with `writeln!` to an unbuffered file (`net.rs:90,93`), in several
  writes: a kill between two of them leaves the beginning of a line, to which the next
  run's first line is appended. `ServersListed` says nothing about that.
- Why `exists()` is false (`config.rs:204`): a file whose metadata cannot be read counts
  as missing, as it does for the code, and `SettingsOfOneFile` takes it for such.
- A port that comes back under an open handle (the old handle stays dead, and the unit
  starts a new process); signals other than a kill; the netlink library's own tasks.
- A modem that dies without a suspend while the unit is active: nothing in the unit looks
  at it, and no property is about it.
- The overflow of the deadline of `wait_for_ip` for an `ip_wait` that no `Instant` holds.

## 6. Plan

What could still be added, the first two as proofs:

- An abstract specification of what `Rpc` takes for granted of the framing, a reader
  that returns the frames of the stream whole and in order until a length is refused,
  implemented by `Framing`: the invariants of `FramingProofs` hold what its steps need.
- What `execute` promises the bring-up (`ReturnsRemembered`) and the properties of
  `Bringup` at its exits, put together with those of `Host`, whose `Connect` is that
  bring-up: a statement on one run from its settings to its exit code.
- The command codes of `call_ids.rs` as a table, once something depends on more of them
  than the two codes acted upon.
