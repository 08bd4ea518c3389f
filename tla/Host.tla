-------------------------------- MODULE Host --------------------------------
(***************************************************************************)
(* What runs of the program leave behind on the host: the kernel's         *)
(* addresses and routes of the interface, under `configure` of             *)
(* src/src/net.rs, and the resolver file, under `append_resolv_conf`.      *)
(* Any request may fail, the process may be killed between any two, the    *)
(* driver may be reloaded, and the unit starts the program again, with     *)
(* whatever the configuration files (module Config) then say.              *)
(*                                                                         *)
(* The kernel is external: an interface that loses its last address, or    *)
(* goes down, loses its routes; two default routes do not have one metric. *)
(* What the modem is asked for between the settings and the address, and   *)
(* for the data channel afterwards, is module Bringup's.                   *)
(***************************************************************************)
EXTENDS Config, Sequences, SequencesExt

CONSTANTS
    Addresses, ServerLists, \* what the network may assign
    Lines, Resolvers,       \* lines of text; what the resolver file may be at first
    Metrics,                \* of default routes
    MaxRuns, MaxReloads     \* bounds: processes, reloads of the driver

VARIABLES
    link,       \* the interface: its index, up or not, addresses, and the
                \* metrics of default routes through it
    foreign,    \* metrics of default routes through other interfaces
    resolv,     \* lines of the resolver file
    at, index, address, servers, written, exit, port,   \* the process
    before,     \* what the resolver file was when the process began
    runs, reloads

vars == <<configVars, link, foreign, resolv, at, index, address, servers, written, exit, port,
          before, runs, reloads>>
process == <<at, index, address, servers, written, exit, port, before>>
environment == <<foreign, runs, reloads>>

Header == <<"", "# Added by xmmrpc">>
Section(list) == Header \o list

NewLink(i) == [index |-> i, up |-> FALSE, addresses |-> {}, routes |-> {}]

Steps == {"search", "read", "connect", "link_index", "flush_addresses", "link_up", "add_address",
          "add_route", "append", "datachannel", "exited"}

ASSUME HostAssumption ==
    /\ MaxRuns \in Nat /\ MaxReloads \in Nat
    /\ {Header} \cup ServerLists \cup Resolvers \subseteq Seq(Lines)
    /\ \A c \in Configs \cup CommandLines : c.metric \in Metrics \cup {None}

TypeOK ==
    /\ ConfigTypeOK
    /\ link \in [index : 0..MaxReloads, up : BOOLEAN, addresses : SUBSET Addresses,
                 routes : SUBSET (Metrics \cup {DefaultMetric})]
    /\ foreign \subseteq Metrics
    /\ \A i \in DOMAIN resolv : resolv[i] \in Lines
    /\ at \in Steps /\ index \in 0..MaxReloads /\ address \in Addresses
    /\ servers \in ServerLists /\ written \in Nat
    /\ exit \in {"running", "success", "failure", "no_service", "killed"}
    /\ port \in BOOLEAN
    /\ runs \in 0..MaxRuns /\ reloads \in 0..MaxReloads

Init ==
    /\ ConfigInit
    /\ link = NewLink(0) /\ foreign = {} /\ resolv \in Resolvers
    /\ at = "exited" /\ index = 0 /\ address \in Addresses /\ servers \in ServerLists
    /\ written = 0 /\ exit = "killed" /\ port = TRUE /\ before = resolv
    /\ runs = 0 /\ reloads = 0

-----------------------------------------------------------------------------
(* The environment. *)

Start ==
    /\ exit # "running" /\ runs < MaxRuns
    /\ runs' = runs + 1
    /\ BeginSearch
    /\ at' = "search" /\ exit' = "running" /\ port' = TRUE /\ written' = 0 /\ before' = resolv
    /\ UNCHANGED <<link, foreign, resolv, index, address, servers, reloads>>

Kill ==
    /\ exit = "running"
    /\ at' = "exited" /\ exit' = "killed"
    /\ UNCHANGED <<configVars, link, foreign, resolv, index, address, servers, written, port,
                   before, runs, reloads>>

\* A resume takes the interface and the port away and brings new ones.
Reload ==
    /\ reloads < MaxReloads /\ reloads' = reloads + 1
    /\ link' = NewLink(link.index + 1) /\ port' = FALSE
    /\ UNCHANGED <<configVars, foreign, resolv, at, index, address, servers, written, exit, before,
                   runs>>

UserEdits == Edit(at \in {"search", "read"}) /\ UNCHANGED <<link, resolv, process, environment>>

\* Another interface gets a default route; not one there is already.
OtherRoute ==
    /\ \E metric \in Metrics \ (foreign \cup link.routes) : foreign' = {metric}
    /\ UNCHANGED <<configVars, link, resolv, process, runs, reloads>>

-----------------------------------------------------------------------------
(* The program. *)

GoOn(step) ==
    /\ at' = step
    /\ UNCHANGED <<index, address, servers, written, exit, port, before, environment>>
Stop(code) ==
    /\ at' = "exited" /\ exit' = code
    /\ UNCHANGED <<index, address, servers, written, port, before, environment>>

Search ==
    /\ at = "search"
    /\ \/ PassOver /\ GoOn("search")
       \/ (Found \/ Exhausted) /\ GoOn("read") /\ UNCHANGED configVars
    /\ UNCHANGED <<link, resolv>>

ReadSettings ==
    /\ at = "read"
    /\ \/ ReadSucceeds /\ GoOn("connect")
       \/ ReadFails /\ Stop("failure")
    /\ UNCHANGED <<link, resolv>>

\* From Rpc::open to the address.
Connect ==
    /\ at = "connect"
    /\ \/ /\ port
          /\ address' \in Addresses /\ servers' \in ServerLists
          /\ at' = "link_index"
          /\ UNCHANGED <<index, written, exit, port, before, environment>>
       \/ Stop("failure")
       \/ Stop("no_service")
    /\ UNCHANGED <<configVars, link, resolv>>

\* Mutant: addresses of an earlier run are left there.
LinkIndexNoFlush ==
    /\ at = "link_index"
    /\ at' = "link_up" /\ index' = link.index
    /\ UNCHANGED <<configVars, link, resolv, address, servers, written, exit, port, before,
                   environment>>

LinkIndex ==
    /\ at = "link_index"
    /\ at' = "flush_addresses" /\ index' = link.index
    /\ UNCHANGED <<configVars, link, resolv, address, servers, written, exit, port, before,
                   environment>>

\* Requests name the interface by the index it had.
Same == index = link.index

WithoutAddress(a) ==
    LET rest == link.addresses \ {a}
    IN [link EXCEPT !.addresses = rest, !.routes = IF rest = {} THEN {} ELSE @]

\* One address at a time; and none is left of a reloaded interface.
FlushAddresses ==
    /\ at = "flush_addresses"
    /\ \/ /\ Same
          /\ \E a \in link.addresses : link' = WithoutAddress(a)
          /\ GoOn("flush_addresses")
       \/ /\ Same => link.addresses = {}
          /\ link' = link /\ GoOn("link_up")
    /\ UNCHANGED <<configVars, resolv>>

\* Mutant: the route before the address it belongs to.
AfterRouteFirst(step) ==
    CASE step = "link_up" -> IF settings.default_route THEN "add_route" ELSE "add_address"
      [] step = "add_route" -> "add_address"
      [] step = "add_address" -> IF settings.write_resolv THEN "append" ELSE "datachannel"
      [] OTHER -> "datachannel"

After(step) ==
    IF step = "link_up" THEN "add_address"
    ELSE IF step = "add_address" /\ settings.default_route THEN "add_route"
    ELSE IF step # "append" /\ settings.write_resolv THEN "append"
    ELSE "datachannel"

LinkUp ==
    /\ at = "link_up" /\ Same
    /\ link' = [link EXCEPT !.up = TRUE]
    /\ GoOn(After("link_up"))
    /\ UNCHANGED <<configVars, resolv>>

AddAddress ==
    /\ at = "add_address" /\ Same /\ address \notin link.addresses
    /\ link' = [link EXCEPT !.addresses = @ \cup {address}]
    /\ GoOn(After("add_address"))
    /\ UNCHANGED <<configVars, resolv>>

AddRoute ==
    /\ at = "add_route" /\ Same /\ link.up
    /\ settings.metric \notin link.routes \cup foreign
    /\ link' = [link EXCEPT !.routes = @ \cup {settings.metric}]
    /\ GoOn(After("add_route"))
    /\ UNCHANGED <<configVars, resolv>>

\* Mutant: the file is opened for writing, not for appending.
AppendTruncating ==
    /\ at = "append"
    /\ IF written < Len(Section(servers))
       THEN /\ resolv' = Append(IF written = 0 THEN <<>> ELSE resolv, Section(servers)[written + 1])
            /\ written' = written + 1
            /\ UNCHANGED <<at, index, address, servers, exit, port, before, environment>>
       ELSE resolv' = resolv /\ GoOn(After("append"))
    /\ UNCHANGED <<configVars, link>>

\* append_resolv_conf, line by line.
AppendLine ==
    /\ at = "append"
    /\ IF written < Len(Section(servers))
       THEN /\ resolv' = Append(resolv, Section(servers)[written + 1])
            /\ written' = written + 1
            /\ UNCHANGED <<at, index, address, servers, exit, port, before, environment>>
       ELSE resolv' = resolv /\ GoOn(After("append"))
    /\ UNCHANGED <<configVars, link>>

OpenDataChannel ==
    /\ at = "datachannel" /\ port
    /\ Stop("success")
    /\ UNCHANGED <<configVars, link, resolv>>

\* Any request or write may fail, and ends the program where it is.
RequestFails ==
    /\ at \in Steps \ {"search", "read", "connect", "exited"}
    /\ Stop("failure")
    /\ UNCHANGED <<configVars, link, resolv>>

Next ==
    \/ Start \/ Kill \/ Reload \/ UserEdits \/ OtherRoute
    \/ Search \/ ReadSettings \/ Connect \/ LinkIndex \/ FlushAddresses \/ LinkUp
    \/ AddAddress \/ AddRoute \/ AppendLine \/ OpenDataChannel \/ RequestFails
Spec == Init /\ [][Next]_vars

-----------------------------------------------------------------------------
\* The settings a process runs with are those of one file: see Config.
SettingsOfOneFile == at \notin {"search", "read", "exited"} => OfOneFile

\* There is a default route through the interface only while it is up and has
\* an address, whatever failed or was killed before (net.rs:29-55).
RouteNeedsAddress == link.routes # {} => link.up /\ link.addresses # {}

\* After a success the interface has exactly the address assigned and the route
\* asked for, whatever earlier runs left on it (net.rs:27, 68-83).
HostAsAsked ==
    exit = "success" /\ Same =>
        /\ link.up /\ link.addresses = {address}
        /\ link.routes = IF settings.default_route THEN {settings.metric} ELSE {}

\* The resolver file loses nothing, and after a success it ends with the servers
\* of this connection, if it was to be written (net.rs:86-96).
ServersListed ==
    /\ IsPrefix(before, resolv)
    /\ exit = "success" =>
        resolv = before \o IF settings.write_resolv THEN Section(servers) ELSE <<>>
=============================================================================
