----------------------------- MODULE HostProofs -----------------------------
(***************************************************************************)
(* What TLAPS proves about module Host, for any settings, files, addresses *)
(* and servers, and any number of runs, reloads and edits.                 *)
(***************************************************************************)
EXTENDS Host, SequenceTheorems, TLAPS

\* The text before what the process appends is kept as a sequence of lines.
LinesTyped == resolv \in Seq(Lines) /\ before \in Seq(Lines)

\* The metric of a route is one that was configured, or the default.
MetricTyped == settings.metric \in Metrics \cup {DefaultMetric}

\* Every reload of the driver brings an interface with another index.
Counted == link.index = reloads

\* A process runs until it has exited.
Running == exit = "running" <=> at # "exited"

\* What the search knows: the candidate is the path given, or no file that was
\* there all the time has been passed over.
Searching ==
    at \in {"search", "read"} =>
        /\ Said(files) \subseteq seen
        /\ steady \subseteq Present(files)
        /\ IF explicit # 0 THEN candidate = explicit ELSE \A p \in steady : candidate <= p

\* What the requests up to the step `at` have made of the interface, unless it was
\* taken away since its index was read; at the end it is as asked.
Progressed ==
    /\ index <= link.index
    /\ Same =>
        /\ at = "link_up" => link.addresses = {}
        /\ at = "add_address" => link.up /\ link.addresses = {}
        /\ at = "add_route" => /\ settings.default_route
                               /\ link.up /\ link.addresses = {address} /\ link.routes = {}
        /\ at \in {"append", "datachannel"} =>
            /\ link.up /\ link.addresses = {address}
            /\ link.routes = IF settings.default_route THEN {settings.metric} ELSE {}

\* What the process has added to the resolver file.
Added ==
    CASE at = "append" -> SubSeq(Section(servers), 1, written)
      [] at = "datachannel" /\ settings.write_resolv -> Section(servers)
      [] OTHER -> <<>>
Appended ==
    /\ at = "append" => settings.write_resolv /\ written <= Len(Section(servers))
    /\ at \notin {"append", "datachannel", "exited"} => written = 0
    /\ at # "exited" => resolv = before \o Added

HostInv ==
    /\ TypeOK /\ LinesTyped /\ MetricTyped /\ Counted
    /\ Running
    /\ Searching /\ SettingsOfOneFile
    /\ Progressed /\ RouteNeedsAddress /\ HostAsAsked
    /\ Appended /\ ServersListed

-----------------------------------------------------------------------------
(* Settings. *)

\* Settings put together from well-formed parts are well-formed, defaults
\* included.
LEMMA ResolveType ==
    ASSUME NEW line \in CommandLines, NEW file \in Configs \cup {Unset}
    PROVE  LET s == Resolve(line, file)
           IN /\ DOMAIN s = Keys
              /\ {s.default_route, s.write_resolv} \subseteq BOOLEAN
              /\ s.metric # None
              /\ s.metric \in Metrics \cup {DefaultMetric}
<1> DEFINE s == Resolve(line, file)
<1>1. /\ DOMAIN line = Keys
      /\ {line.default_route, line.write_resolv} \subseteq BOOLEAN \cup {None}
      /\ line.metric \in Metrics \cup {None}
  BY ConfigAssumption, HostAssumption
<1>2. /\ DOMAIN file = Keys
      /\ {file.default_route, file.write_resolv} \subseteq BOOLEAN \cup {None}
      /\ file.metric \in Metrics \cup {None}
  BY ConfigAssumption, HostAssumption DEF Unset, Keys
<1>3. /\ s.default_route = Or(Or(line.default_route, file.default_route), TRUE)
      /\ s.write_resolv = Or(Or(line.write_resolv, file.write_resolv), TRUE)
      /\ s.metric = Or(Or(line.metric, file.metric), DefaultMetric)
  BY DEF Resolve, Keys, Default
<1>4. DOMAIN s = Keys
  BY DEF Resolve
<1>5. s.default_route \in BOOLEAN /\ s.write_resolv \in BOOLEAN
  BY <1>1, <1>2, <1>3 DEF Or
<1>6. s.metric # None /\ s.metric \in Metrics \cup {DefaultMetric}
  BY <1>1, <1>2, <1>3, ConfigAssumption DEF Or
<1> QED BY <1>4, <1>5, <1>6

\* The defaults are settings.
LEMMA DefaultType ==
    /\ DOMAIN Default = Keys
    /\ {Default.default_route, Default.write_resolv} \subseteq BOOLEAN
    /\ Default.metric # None /\ Default.metric \in Metrics \cup {DefaultMetric}
BY ConfigAssumption DEF Default, Keys

-----------------------------------------------------------------------------
(* Sequences. *)

\* A sequence is a prefix of what is appended to it.
LEMMA PrefixOfConcat ==
    ASSUME NEW s \in Seq(Lines), NEW t \in Seq(Lines)
    PROVE  s \o t \in Seq(Lines) /\ IsPrefix(s, s \o t) /\ IsPrefix(s, s)
BY DEF IsPrefix

\* The beginning of a sequence is one, and grows by its next element.
LEMMA GrowsByOne ==
    ASSUME NEW s \in Seq(Lines), NEW t \in Seq(Lines), NEW k \in Nat, k < Len(t)
    PROVE  Append(s \o SubSeq(t, 1, k), t[k + 1]) = s \o SubSeq(t, 1, k + 1)
<1>1. t[k + 1] \in Lines /\ SubSeq(t, 1, k) \in Seq(Lines)
  BY ElementOfSeq, SubSeqProperties
<1>2. SubSeq(t, 1, k + 1) = SubSeq(t, 1, k) \o <<t[k + 1]>>
  BY SubSeqRecursiveSecond
<1>3. s \o SubSeq(t, 1, k + 1) = (s \o SubSeq(t, 1, k)) \o <<t[k + 1]>>
  BY <1>1, <1>2, ConcatAssociative
<1>4. s \o SubSeq(t, 1, k) \in Seq(Lines)
  BY <1>1, ConcatProperties
<1> QED BY <1>1, <1>3, <1>4, AppendIsConcat

\* Nothing is the beginning of every sequence, and all of it is another.
LEMMA Beginnings ==
    ASSUME NEW s \in Seq(Lines), NEW t \in Seq(Lines)
    PROVE  /\ s \o SubSeq(t, 1, 0) = s /\ s \o <<>> = s
           /\ SubSeq(t, 1, Len(t)) = t
BY ConcatEmptySeq, SubSeqEmpty, SubSeqFull

\* What is appended is a sequence of lines.
LEMMA SectionType ==
    ASSUME NEW list \in ServerLists
    PROVE  Section(list) \in Seq(Lines)
BY HostAssumption, ConcatProperties DEF Section

-----------------------------------------------------------------------------
(* The initial states. *)

\* The invariant holds before anything ran.
LEMMA InitHost == Init => HostInv
<1> SUFFICES ASSUME Init PROVE HostInv
  OBVIOUS
<1> USE HostAssumption, ConfigAssumption, DefaultType
<1>1. LinesTyped /\ MetricTyped /\ Running /\ Counted
  BY DEF Init, ConfigInit, LinesTyped, MetricTyped, Running, Counted, NewLink
<1>2. TypeOK
  <2>1. ConfigTypeOK
    BY DEF Init, ConfigInit, ConfigTypeOK, Contents, Paths
  <2>2. \A i \in DOMAIN resolv : resolv[i] \in Lines
    BY <1>1, ElementOfSeq DEF LinesTyped
  <2>3. link \in [index : 0..MaxReloads, up : BOOLEAN, addresses : SUBSET Addresses,
                  routes : SUBSET (Metrics \cup {DefaultMetric})]
    BY DEF Init, NewLink
  <2> QED BY <2>1, <2>2, <2>3 DEF Init, TypeOK, Steps
<1>3. Searching /\ SettingsOfOneFile
  BY DEF Init, Searching, SettingsOfOneFile
<1>4. Progressed /\ RouteNeedsAddress /\ HostAsAsked
  BY DEF Init, NewLink, Progressed, Same, RouteNeedsAddress, HostAsAsked
<1>5. Appended /\ ServersListed
  BY PrefixOfConcat, <1>1 DEF Init, Appended, ServersListed, LinesTyped
<1> QED BY <1>1, <1>2, <1>3, <1>4, <1>5 DEF HostInv

-----------------------------------------------------------------------------
(* Types. *)

\* What a process is about and what is unchanged, by action.
LEMMA StepConfigType == TypeOK /\ MetricTyped /\ Next => ConfigTypeOK' /\ MetricTyped'
<1> SUFFICES ASSUME TypeOK, MetricTyped, Next PROVE ConfigTypeOK' /\ MetricTyped'
  OBVIOUS
<1> USE DEF TypeOK
<1>1. CASE Start
  <2>1. candidate' \in 1..(NPaths + 1) /\ steady' \subseteq Paths
    BY <1>1, ConfigAssumption DEF Start, BeginSearch, ConfigTypeOK, Paths, Present
  <2>2. seen' \subseteq Paths \X Configs
    BY <1>1 DEF Start, BeginSearch, ConfigTypeOK, Said
  <2>3. UNCHANGED <<cli, explicit, files, edits>> /\ settings' = Default
    BY <1>1 DEF Start, BeginSearch
  <2> QED BY <2>1, <2>2, <2>3, DefaultType DEF ConfigTypeOK, MetricTyped
<1>2. CASE UserEdits
  <2>1. /\ edits' \in 0..MaxEdits /\ files' \in [Paths -> Contents]
        /\ UNCHANGED <<cli, explicit, candidate, settings>>
    BY <1>2, ConfigAssumption DEF UserEdits, Edit, ConfigTypeOK
  <2>2. seen' \subseteq Paths \X Configs /\ steady' \subseteq Paths
    BY <1>2, <2>1 DEF UserEdits, Edit, ConfigTypeOK, Said
  <2> QED BY <2>1, <2>2 DEF ConfigTypeOK, MetricTyped
<1>3. CASE Search
  <2>1. candidate' \in 1..(NPaths + 1)
    BY <1>3, ConfigAssumption DEF Search, PassOver, configVars, ConfigTypeOK, Paths
  <2>2. UNCHANGED <<cli, explicit, files, edits, settings, seen, steady>>
    BY <1>3 DEF Search, PassOver, configVars
  <2> QED BY <2>1, <2>2 DEF ConfigTypeOK, MetricTyped
<1>4. CASE ReadSettings
  <2>1. CASE ReadSucceeds
    BY <2>1, ResolveType DEF ReadSucceeds, ConfigTypeOK, MetricTyped
  <2>2. CASE ReadFails
    BY <2>2 DEF ReadFails, configVars, ConfigTypeOK, MetricTyped
  <2> QED BY <1>4, <2>1, <2>2 DEF ReadSettings
<1>5. CASE UNCHANGED configVars
  BY <1>5 DEF configVars, ConfigTypeOK, MetricTyped
<1>6. CASE \/ Kill \/ Reload \/ OtherRoute \/ Connect \/ LinkIndex \/ FlushAddresses \/ LinkUp
           \/ AddAddress \/ AddRoute \/ AppendLine \/ OpenDataChannel \/ RequestFails
  BY <1>5, <1>6 DEF Kill, Reload, OtherRoute, Connect, LinkIndex, FlushAddresses, LinkUp,
     AddAddress, AddRoute, AppendLine, OpenDataChannel, RequestFails
<1> QED BY <1>1, <1>2, <1>3, <1>4, <1>6 DEF Next

\* The interface keeps its shape, and its index only grows.
LEMMA StepLinkType ==
    TypeOK /\ MetricTyped /\ Counted /\ Next =>
        /\ link' \in [index : 0..MaxReloads, up : BOOLEAN, addresses : SUBSET Addresses,
                      routes : SUBSET (Metrics \cup {DefaultMetric})]
        /\ reloads' \in 0..MaxReloads
        /\ Counted'
<1> SUFFICES ASSUME TypeOK, MetricTyped, Counted, Next
             PROVE  /\ link' \in [index : 0..MaxReloads, up : BOOLEAN, addresses : SUBSET Addresses,
                                  routes : SUBSET (Metrics \cup {DefaultMetric})]
                    /\ reloads' \in 0..MaxReloads
                    /\ Counted'
  OBVIOUS
<1> USE HostAssumption DEF TypeOK, Counted
<1>1. CASE Reload
  BY <1>1 DEF Reload, NewLink
<1>2. CASE FlushAddresses
  BY <1>2 DEF FlushAddresses, WithoutAddress, GoOn, environment
<1>3. CASE LinkUp
  BY <1>3 DEF LinkUp, GoOn, environment
<1>4. CASE AddAddress
  BY <1>4 DEF AddAddress, GoOn, environment
<1>5. CASE AddRoute
  BY <1>5 DEF AddRoute, MetricTyped, GoOn, environment
<1>6. CASE UNCHANGED <<link, reloads>>
  BY <1>6
<1>7. CASE \/ Start \/ Kill \/ UserEdits \/ OtherRoute \/ Search \/ ReadSettings \/ Connect
           \/ LinkIndex \/ AppendLine \/ OpenDataChannel \/ RequestFails
  BY <1>6, <1>7 DEF Start, Kill, UserEdits, OtherRoute, Search, ReadSettings, Connect, LinkIndex,
     AppendLine, OpenDataChannel, RequestFails, GoOn, Stop, environment
<1> QED BY <1>1, <1>2, <1>3, <1>4, <1>5, <1>7 DEF Next

\* The resolver file stays a sequence of lines.
LEMMA StepLines == TypeOK /\ LinesTyped /\ Next => LinesTyped' /\ written' \in Nat
<1> SUFFICES ASSUME TypeOK, LinesTyped, Next PROVE LinesTyped' /\ written' \in Nat
  OBVIOUS
<1> USE DEF TypeOK, LinesTyped
<1>1. CASE AppendLine
  <2>1. Section(servers) \in Seq(Lines)
    BY SectionType
  <2>2. written < Len(Section(servers)) => Section(servers)[written + 1] \in Lines
    BY <2>1, ElementOfSeq
  <2>3. \/ /\ resolv' = Append(resolv, Section(servers)[written + 1])
           /\ written < Len(Section(servers)) /\ written' = written + 1
        \/ UNCHANGED <<resolv, written>>
    BY <1>1 DEF AppendLine, GoOn
  <2>4. UNCHANGED before
    BY <1>1 DEF AppendLine, GoOn
  <2>5. \A line \in Lines : Append(resolv, line) \in Seq(Lines)
    BY AppendProperties
  <2>6. resolv' \in Seq(Lines)
    BY <2>2, <2>3, <2>5
  <2> QED BY <2>3, <2>4, <2>6
<1>2. CASE Start
  BY <1>2 DEF Start
<1>3. CASE UNCHANGED <<resolv, before, written>>
  BY <1>3
<1>4. CASE \/ Kill \/ Reload \/ UserEdits \/ OtherRoute \/ Search \/ ReadSettings \/ Connect
           \/ LinkIndex \/ FlushAddresses \/ LinkUp \/ AddAddress \/ AddRoute
           \/ OpenDataChannel \/ RequestFails
  BY <1>3, <1>4 DEF Kill, Reload, UserEdits, OtherRoute, Search, ReadSettings, Connect, LinkIndex,
     FlushAddresses, LinkUp, AddAddress, AddRoute, OpenDataChannel, RequestFails, GoOn, Stop, process
<1> QED BY <1>1, <1>2, <1>4 DEF Next

\* The process, and what else there is.
LEMMA StepProcessType ==
    TypeOK /\ Running /\ Next =>
        /\ foreign' \subseteq Metrics
        /\ at' \in Steps /\ index' \in 0..MaxReloads /\ address' \in Addresses
        /\ servers' \in ServerLists
        /\ exit' \in {"running", "success", "failure", "no_service", "killed"}
        /\ port' \in BOOLEAN /\ runs' \in 0..MaxRuns
        /\ Running'
<1> SUFFICES ASSUME TypeOK, Running, Next
             PROVE  /\ foreign' \subseteq Metrics
                    /\ at' \in Steps /\ index' \in 0..MaxReloads /\ address' \in Addresses
                    /\ servers' \in ServerLists
                    /\ exit' \in {"running", "success", "failure", "no_service", "killed"}
                    /\ port' \in BOOLEAN /\ runs' \in 0..MaxRuns
                    /\ Running'
  OBVIOUS
<1> USE HostAssumption DEF TypeOK, Running, Steps
<1>1. CASE Start
  BY <1>1 DEF Start
<1>2. CASE Kill \/ Reload \/ UserEdits \/ OtherRoute
  BY <1>2 DEF Kill, Reload, UserEdits, OtherRoute, process, environment
<1>3. CASE Search \/ ReadSettings
  BY <1>3 DEF Search, ReadSettings, GoOn, Stop, environment
<1>4. CASE Connect \/ LinkIndex
  BY <1>4 DEF Connect, LinkIndex, Stop, environment
<1>5. CASE FlushAddresses \/ LinkUp \/ AddAddress \/ AddRoute
  BY <1>5 DEF FlushAddresses, LinkUp, AddAddress, AddRoute, After, GoOn, environment
<1>6. CASE AppendLine \/ OpenDataChannel \/ RequestFails
  BY <1>6 DEF AppendLine, OpenDataChannel, RequestFails, After, GoOn, Stop, environment
<1> QED BY <1>1, <1>2, <1>3, <1>4, <1>5, <1>6 DEF Next

\* Every step keeps every type.
LEMMA StepTypes ==
    ASSUME TypeOK, LinesTyped, MetricTyped, Counted, Running, Next
    PROVE  TypeOK' /\ LinesTyped' /\ MetricTyped' /\ Counted' /\ Running'
<1>1. ConfigTypeOK' /\ MetricTyped'
  BY StepConfigType
<1>2. LinesTyped' /\ written' \in Nat
  BY StepLines
<1>3. \A i \in DOMAIN resolv' : resolv'[i] \in Lines
  BY <1>2, ElementOfSeq DEF LinesTyped
<1> QED BY <1>1, <1>2, <1>3, StepLinkType, StepProcessType DEF TypeOK

-----------------------------------------------------------------------------
(* Settings. *)

\* The search keeps what it knows, also when files change under it, and what is
\* read in the end is what one file said.
LEMMA StepSearching ==
    ASSUME TypeOK, Running, Searching, SettingsOfOneFile, Next
    PROVE  Searching' /\ SettingsOfOneFile'
<1> USE DEF TypeOK, ConfigTypeOK
<1>1. CASE Start
  <2>1. /\ at' = "search" /\ UNCHANGED <<explicit, files>>
        /\ seen' = Said(files) /\ steady' = {p \in Present(files) : p >= candidate'}
        /\ candidate' \in IF explicit = 0 THEN {1, 2} ELSE {explicit}
    BY <1>1 DEF Start, BeginSearch
  <2>2. steady' \subseteq Present(files') /\ \A p \in steady' : candidate' <= p
    BY <2>1
  <2>3. Searching'
    BY <2>1, <2>2 DEF Searching
  <2> QED BY <2>1, <2>3 DEF SettingsOfOneFile
<1>2. CASE UserEdits
  <2>1. UNCHANGED <<at, explicit, candidate, settings, cli>>
    BY <1>2 DEF UserEdits, Edit, process
  <2>2. CASE at \in {"search", "read"}
    <3>1. seen' = seen \cup Said(files') /\ steady' = steady \cap Present(files')
      BY <1>2, <2>2 DEF UserEdits, Edit
    <3> QED BY <2>1, <2>2, <3>1 DEF Searching, SettingsOfOneFile
  <2>3. CASE at \notin {"search", "read"}
    <3>1. UNCHANGED <<seen, steady>>
      BY <1>2, <2>3 DEF UserEdits, Edit
    <3> QED BY <2>1, <2>3, <3>1 DEF Searching, SettingsOfOneFile, OfOneFile
  <2> QED BY <2>2, <2>3
<1>3. CASE Search
  <2>1. at = "search" /\ at' \in {"search", "read"}
    BY <1>3 DEF Search, GoOn
  <2>2. CASE PassOver
    <3>1. \A p \in steady : candidate' <= p
      BY <2>1, <2>2 DEF PassOver, Searching, Present, Paths
    <3> QED BY <2>1, <2>2, <3>1 DEF PassOver, Searching, SettingsOfOneFile
  <2>3. CASE UNCHANGED configVars
    BY <2>1, <2>3 DEF configVars, Searching, SettingsOfOneFile
  <2> QED BY <1>3, <2>2, <2>3 DEF Search
<1>4. CASE ReadSettings
  <2>1. at = "read" /\ at' \in {"connect", "exited"}
    BY <1>4 DEF ReadSettings, GoOn, Stop
  <2>2. CASE ReadFails
    BY <1>4, <2>1, <2>2, ConfigAssumption
    DEF ReadSettings, ReadSucceeds, ReadFails, configVars, GoOn, Stop, Searching, SettingsOfOneFile
  <2>3. CASE ReadSucceeds
    <3>1. UNCHANGED <<cli, explicit, candidate, seen, steady>> /\ settings' = Resolve(cli, Read)
      BY <2>3 DEF ReadSucceeds
    <3>2. CASE candidate \in Paths
      <4>1. Read = files[candidate] /\ Read \in Configs
        BY <2>3, <3>2, ConfigAssumption DEF ReadSucceeds, Read, Contents
      <4>2. <<candidate, Read>> \in seen
        BY <2>1, <3>2, <4>1 DEF Searching, Said
      <4>3. IF explicit # 0 THEN candidate = explicit ELSE \A p \in steady : candidate <= p
        BY <2>1 DEF Searching
      <4>4. OfOneFile'
        BY <3>1, <4>2, <4>3 DEF OfOneFile
      <4> QED BY <2>1, <4>4 DEF Searching, SettingsOfOneFile
    <3>3. CASE candidate \notin Paths
      <4>1. Read = Unset /\ explicit = 0
        BY <2>1, <3>3 DEF Read, Searching
      <4>2. steady = {}
        BY <2>1, <3>3, <4>1, ConfigAssumption DEF Searching, Paths
      <4>3. OfOneFile'
        BY <3>1, <4>1, <4>2 DEF OfOneFile
      <4> QED BY <2>1, <4>3 DEF Searching, SettingsOfOneFile
    <3> QED BY <3>2, <3>3
  <2> QED BY <1>4, <2>2, <2>3 DEF ReadSettings
<1>5. CASE UNCHANGED configVars /\ (at' \in {"search", "read"} => at' = at)
            /\ (at \in {"search", "read", "exited"} => at' \in {at, "exited"})
  BY <1>5 DEF configVars, Searching, SettingsOfOneFile, OfOneFile
<1>6. CASE Kill \/ Reload \/ OtherRoute \/ Connect \/ LinkIndex
  BY <1>5, <1>6 DEF Kill, Reload, OtherRoute, Connect, LinkIndex, Stop, process
<1>7. CASE FlushAddresses \/ LinkUp \/ AddAddress \/ AddRoute
  BY <1>5, <1>7 DEF FlushAddresses, LinkUp, AddAddress, AddRoute, GoOn, After
<1>8. CASE AppendLine \/ OpenDataChannel \/ RequestFails
  BY <1>5, <1>8 DEF AppendLine, OpenDataChannel, RequestFails, GoOn, Stop, After, Steps
<1> QED BY <1>1, <1>2, <1>3, <1>4, <1>6, <1>7, <1>8 DEF Next

-----------------------------------------------------------------------------
(* The interface. *)

\* Taking an address away takes the routes when it was the last.
LEMMA WithoutAddressProperties ==
    ASSUME TypeOK, RouteNeedsAddress, NEW a \in link.addresses
    PROVE  LET rest == WithoutAddress(a)
           IN /\ rest.index = link.index
              /\ rest.routes # {} => rest.up /\ rest.addresses # {}
BY DEF TypeOK, RouteNeedsAddress, WithoutAddress

\* Nothing but the process that configures it and a reload touch the interface.
LEMMA StepProgressed ==
    ASSUME TypeOK, Running, Counted, Progressed, RouteNeedsAddress, HostAsAsked, Next
    PROVE  Progressed' /\ RouteNeedsAddress' /\ HostAsAsked'
<1>t. /\ link \in [index : Nat, up : BOOLEAN, addresses : SUBSET Addresses,
                   routes : SUBSET (Metrics \cup {DefaultMetric})]
      /\ index \in Nat /\ settings.default_route \in BOOLEAN
      /\ exit = "running" <=> at # "exited"
  BY HostAssumption DEF TypeOK, ConfigTypeOK, Running
<1> USE DEF Progressed, RouteNeedsAddress, HostAsAsked, Same
<1>1. CASE Start
  BY <1>1, <1>t DEF Start
<1>2. CASE Reload
  <2>1. link' = NewLink(link.index + 1) /\ index' = index
    BY <1>2 DEF Reload
  <2>2. link'.index = link.index + 1 /\ link'.routes = {}
    BY <2>1 DEF NewLink
  <2>3. index' <= link'.index /\ ~Same'
    BY <2>1, <2>2, <1>t
  <2> QED BY <2>2, <2>3, <1>t
<1>3. CASE UNCHANGED <<link, index, settings, address>>
           /\ (at' = at \/ at' \in {"search", "read", "connect", "flush_addresses", "exited"})
           /\ (at' = at \/ exit' # "success")
           /\ (at' = at => exit' = exit)
  BY <1>3, <1>t
<1>4. CASE Kill \/ UserEdits \/ OtherRoute \/ Search \/ RequestFails
  BY <1>3, <1>4 DEF Kill, UserEdits, Edit, OtherRoute, Search, PassOver, RequestFails, GoOn, Stop,
     configVars, process
<1>5. CASE ReadSettings
  <2>1. /\ at = "read" /\ at' \in {"connect", "exited"} /\ UNCHANGED <<link, index, address>>
        /\ exit' # "success"
    BY <1>5, <1>t DEF ReadSettings, GoOn, Stop
  <2> QED BY <2>1, <1>t
<1>6. CASE Connect
  <2>1. at' \in {"link_index", "exited"} /\ UNCHANGED <<link, index>> /\ exit' # "success"
    BY <1>6, <1>t DEF Connect, Stop
  <2> QED BY <2>1, <1>t
<1>7. CASE LinkIndex
  <2>1. /\ at' = "flush_addresses" /\ UNCHANGED <<link, exit>> /\ index' = link.index
        /\ exit # "success"
    BY <1>7, <1>t DEF LinkIndex
  <2> QED BY <2>1, <1>t
<1>8. CASE FlushAddresses
  <2>1. at = "flush_addresses" /\ UNCHANGED <<index, exit>> /\ exit # "success"
    BY <1>8, <1>t DEF FlushAddresses, GoOn
  <2>2. CASE \E a \in link.addresses : link' = WithoutAddress(a) /\ at' = "flush_addresses"
    <3> PICK a \in link.addresses : link' = WithoutAddress(a) /\ at' = "flush_addresses"
      BY <2>2
    <3> QED BY <2>1, <1>t, WithoutAddressProperties
  <2>3. CASE (Same => link.addresses = {}) /\ link' = link /\ at' = "link_up"
    BY <2>1, <2>3, <1>t
  <2> QED BY <1>8, <2>2, <2>3 DEF FlushAddresses, GoOn
<1>9. CASE LinkUp
  <2>1. /\ at = "link_up" /\ at' = "add_address" /\ UNCHANGED <<index, exit>>
        /\ exit # "success" /\ Same
        /\ link' = [link EXCEPT !.up = TRUE]
    BY <1>9, <1>t DEF LinkUp, GoOn, After
  <2>2. /\ link'.index = link.index /\ link'.up /\ link'.addresses = link.addresses
        /\ link'.routes = link.routes
    BY <2>1, <1>t
  <2> QED BY <2>1, <2>2, <1>t
<1>10. CASE AddAddress
  <2>1. /\ at = "add_address" /\ UNCHANGED <<index, exit, settings, address>> /\ Same
        /\ exit # "success"
        /\ link' = [link EXCEPT !.addresses = @ \cup {address}]
        /\ at' = After("add_address")
    BY <1>10, <1>t DEF AddAddress, GoOn, configVars
  <2>2. /\ link'.index = link.index /\ link'.up /\ link'.addresses = {address}
        /\ link'.routes = {}
    BY <2>1, <1>t
  <2>3. \/ at' = "add_route" /\ settings.default_route
        \/ at' \in {"append", "datachannel"} /\ ~settings.default_route
    BY <2>1, <1>t DEF After
  <2>4. CASE at' = "add_route" /\ settings.default_route
    BY <2>1, <2>2, <2>4, <1>t
  <2>5. CASE at' \in {"append", "datachannel"} /\ ~settings.default_route
    BY <2>1, <2>2, <2>5, <1>t
  <2> QED BY <2>3, <2>4, <2>5
<1>11. CASE AddRoute
  <2>1. /\ at = "add_route" /\ UNCHANGED <<index, exit, settings, address>> /\ Same
        /\ exit # "success"
        /\ link' = [link EXCEPT !.routes = @ \cup {settings.metric}]
        /\ at' \in {"append", "datachannel"}
    BY <1>11, <1>t DEF AddRoute, GoOn, configVars, After
  <2>2. /\ link'.index = link.index /\ link'.up /\ link'.addresses = {address}
        /\ link'.routes = {settings.metric} /\ settings.default_route
    BY <2>1, <1>t
  <2> QED BY <2>1, <2>2, <1>t
<1>12. CASE AppendLine
  <2>1. /\ at = "append" /\ at' \in {"append", "datachannel"}
        /\ UNCHANGED <<link, index, settings, address, exit>> /\ exit # "success"
    BY <1>12, <1>t DEF AppendLine, GoOn, After, configVars
  <2> QED BY <2>1, <1>t
<1>13. CASE OpenDataChannel
  <2>1. /\ at = "datachannel" /\ at' = "exited"
        /\ UNCHANGED <<link, index, settings, address>>
    BY <1>13 DEF OpenDataChannel, Stop, configVars
  <2> QED BY <2>1, <1>t
<1> QED BY <1>1, <1>2, <1>4, <1>5, <1>6, <1>7, <1>8, <1>9, <1>10, <1>11, <1>12, <1>13 DEF Next

-----------------------------------------------------------------------------
(* The resolver file. *)

\* What the process appends comes after what was there, line by line.
LEMMA StepAppended ==
    ASSUME TypeOK, LinesTyped, Running, Appended, ServersListed, Next
    PROVE  Appended' /\ ServersListed'
<1>t. /\ written \in Nat /\ settings.write_resolv \in BOOLEAN
      /\ resolv \in Seq(Lines) /\ before \in Seq(Lines) /\ Section(servers) \in Seq(Lines)
      /\ Len(Section(servers)) \in Nat
      /\ exit = "running" <=> at # "exited"
  BY SectionType DEF TypeOK, ConfigTypeOK, LinesTyped, Running
<1> USE DEF Appended, Added, ServersListed
<1>1. CASE Start
  <2>1. at' = "search" /\ exit' = "running" /\ written' = 0 /\ before' = resolv /\ resolv' = resolv
    BY <1>1 DEF Start
  <2> QED BY <2>1, <1>t, PrefixOfConcat, ConcatEmptySeq
<1>2. CASE /\ UNCHANGED <<resolv, written, before>>
           /\ at' = "exited" /\ exit' # "success"
  BY <1>2, <1>t
<1>3. CASE /\ UNCHANGED <<resolv, written, before, exit>>
           /\ \/ UNCHANGED <<at, settings, servers>>
              \/ {at, at'} \cap {"append", "datachannel", "exited"} = {}
  BY <1>3, <1>t
<1>4. CASE UNCHANGED <<resolv, written, before, exit>> /\ at \in {"add_address", "add_route"}
           /\ at' = After(at) /\ UNCHANGED <<settings, servers>>
  <2>1. resolv = before /\ written = 0 /\ exit = "running"
    BY <1>4, <1>t, ConcatEmptySeq DEF TypeOK
  <2>2. \/ at' = "add_route"
        \/ at' = "append" /\ settings.write_resolv
        \/ at' = "datachannel" /\ ~settings.write_resolv
    BY <1>4, <1>t DEF After
  <2> QED BY <1>4, <2>1, <2>2, <1>t, Beginnings
<1>5. CASE AppendLine
  <2>1. /\ at = "append" /\ UNCHANGED <<settings, servers, before, exit>> /\ exit = "running"
        /\ settings.write_resolv /\ written <= Len(Section(servers))
        /\ resolv = before \o SubSeq(Section(servers), 1, written)
    BY <1>5, <1>t DEF AppendLine, GoOn, configVars, TypeOK
  <2>2. CASE written < Len(Section(servers))
    <3>1. at' = "append" /\ written' = written + 1
          /\ resolv' = Append(resolv, Section(servers)[written + 1])
      BY <1>5, <2>1, <2>2 DEF AppendLine
    <3>2. resolv' = before \o SubSeq(Section(servers), 1, written + 1)
      <4>1. Append(before \o SubSeq(Section(servers), 1, written), Section(servers)[written + 1])
            = before \o SubSeq(Section(servers), 1, written + 1)
        BY <2>2, <1>t, GrowsByOne
      <4> QED BY <2>1, <3>1, <4>1
    <3>3. SubSeq(Section(servers), 1, written + 1) \in Seq(Lines)
      <4>1. \A i \in 1..(written + 1) : Section(servers)[i] \in Lines
        BY <2>2, <1>t, ElementOfSeq
      <4> QED BY <4>1, <1>t, SubSeqProperties
    <3>4. IsPrefix(before, resolv')
      BY <3>2, <3>3, <1>t, PrefixOfConcat
    <3>5. exit' # "success" /\ before' = before /\ servers' = servers
          /\ settings'.write_resolv = settings.write_resolv
      BY <2>1, <1>t
    <3>6. Added' = SubSeq(Section(servers), 1, written + 1) /\ written' <= Len(Section(servers'))
      BY <2>2, <3>1, <3>5, <1>t
    <3>7. ServersListed'
      BY <3>4, <3>5
    <3> HIDE DEF Added, ServersListed
    <3> QED BY <2>1, <3>1, <3>2, <3>5, <3>6, <3>7
  <2>3. CASE ~(written < Len(Section(servers)))
    <3>1. at' = "datachannel" /\ UNCHANGED <<resolv, written>>
      BY <1>5, <2>1, <2>3 DEF AppendLine, GoOn, After
    <3>2. resolv = before \o Section(servers)
      <4>1. written = Len(Section(servers))
        BY <2>1, <2>3, <1>t
      <4>2. SubSeq(Section(servers), 1, Len(Section(servers))) = Section(servers)
        BY <1>t, SubSeqFull
      <4> QED BY <2>1, <4>1, <4>2
    <3> QED BY <2>1, <3>1, <3>2, <1>t
  <2> QED BY <2>2, <2>3
<1>6. CASE OpenDataChannel
  <2>1. /\ at = "datachannel" /\ at' = "exited"
        /\ UNCHANGED <<resolv, before, settings, servers, written>>
    BY <1>6 DEF OpenDataChannel, Stop, configVars
  <2>2. resolv = before \o IF settings.write_resolv THEN Section(servers) ELSE <<>>
    BY <2>1, <1>t
  <2> QED BY <2>1, <2>2, <1>t
<1>7. CASE AddAddress \/ AddRoute
  BY <1>4, <1>7 DEF AddAddress, AddRoute, GoOn, configVars
<1>8. CASE Kill \/ RequestFails
  BY <1>2, <1>8 DEF Kill, RequestFails, Stop
<1>9. CASE Reload \/ UserEdits \/ OtherRoute
  BY <1>3, <1>9 DEF Reload, UserEdits, Edit, OtherRoute, configVars, process
<1>10. CASE Search \/ LinkIndex \/ FlushAddresses \/ LinkUp
  BY <1>3, <1>10 DEF Search, LinkIndex, FlushAddresses, LinkUp, GoOn, After
<1>11. CASE ReadSettings \/ Connect
  BY <1>2, <1>3, <1>11 DEF ReadSettings, Connect, GoOn, Stop
<1> QED BY <1>1, <1>5, <1>6, <1>7, <1>8, <1>9, <1>10, <1>11 DEF Next

-----------------------------------------------------------------------------
(* The theorems. *)

\* The invariant is inductive.
LEMMA NextHost == HostInv /\ [Next]_vars => HostInv'
<1> SUFFICES ASSUME HostInv, [Next]_vars PROVE HostInv'
  OBVIOUS
<1>1. CASE Next
  BY <1>1, StepTypes, StepSearching, StepProgressed, StepAppended DEF HostInv
<1>2. CASE UNCHANGED vars
  BY <1>2 DEF vars, configVars, HostInv, TypeOK, ConfigTypeOK, LinesTyped, MetricTyped, Counted,
     Running, Searching, SettingsOfOneFile, OfOneFile, Progressed, Same, RouteNeedsAddress,
     HostAsAsked, Appended, Added, ServersListed
<1> QED BY <1>1, <1>2

\* Hence the invariant holds of every behaviour.
LEMMA HostInvAlways == Spec => []HostInv
<1>1. Init => HostInv
  BY InitHost
<1>2. HostInv /\ [Next]_vars => HostInv'
  BY NextHost
<1> QED BY <1>1, <1>2, PTL DEF Spec

\* Every variable keeps its type, the settings theirs by the defaults
\* (config.rs:153-184).
THEOREM HostTypeCorrect == Spec => []TypeOK
<1>1. HostInv => TypeOK
  BY DEF HostInv
<1> QED BY <1>1, HostInvAlways, PTL

\* However files are edited during the search, the settings are the command line
\* over one file, and no file is passed over for another (config.rs:198-209).
THEOREM SettingsAlwaysOfOneFile == Spec => []SettingsOfOneFile
<1>1. HostInv => SettingsOfOneFile
  BY DEF HostInv
<1> QED BY <1>1, HostInvAlways, PTL

\* A default route is never left without the address and the link it needs
\* (net.rs:27-55).
THEOREM RouteAlwaysHasAddress == Spec => []RouteNeedsAddress
<1>1. HostInv => RouteNeedsAddress
  BY DEF HostInv
<1> QED BY <1>1, HostInvAlways, PTL

\* A success leaves just the address and the route asked for, whatever was there
\* before (net.rs:17-58).
THEOREM SuccessLeavesHostAsAsked == Spec => []HostAsAsked
<1>1. HostInv => HostAsAsked
  BY DEF HostInv
<1> QED BY <1>1, HostInvAlways, PTL

\* No run takes a line out of the resolver file, and a success has added all its
\* servers (net.rs:86-96).
THEOREM ServersAlwaysListed == Spec => []ServersListed
<1>1. HostInv => ServersListed
  BY DEF HostInv
<1> QED BY <1>1, HostInvAlways, PTL
=============================================================================
