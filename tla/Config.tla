------------------------------- MODULE Config -------------------------------
(***************************************************************************)
(* src/src/config.rs: how the settings of a run are put together from the  *)
(* command line, a configuration file and defaults, while the user may be  *)
(* editing the files.  All keys are merged alike; here are those that the  *)
(* configuration of the host (module Host) depends on, and the APN.        *)
(***************************************************************************)
EXTENDS Naturals

CONSTANTS
    None,           \* a key that is not given
    Missing, Bad,   \* a file whose metadata cannot be read, as a rule because
                    \* it is not there: exists() is false; one that is there but
                    \* not readable, not TOML, or with an unknown key
    EmptyApn, DefaultMetric,
    Configs,        \* what files may say
    CommandLines,   \* what command lines may say
    NPaths,         \* number of candidates of default_config_paths
    MaxEdits        \* bound: edits of files in a behaviour

Keys == {"apn", "default_route", "metric", "write_resolv"}
Default == [apn |-> None, default_route |-> TRUE, metric |-> DefaultMetric, write_resolv |-> TRUE]
Unset == [k \in Keys |-> None]

ASSUME ConfigAssumption ==
    /\ NPaths \in Nat \ {0} /\ MaxEdits \in Nat
    /\ DefaultMetric # None
    /\ {Missing, Bad} \cap (Configs \cup {Unset}) = {}
    /\ \A c \in Configs \cup CommandLines : DOMAIN c = Keys
    /\ \A c \in Configs \cup CommandLines :
        {c.default_route, c.write_resolv} \subseteq BOOLEAN \cup {None}

VARIABLES
    cli, explicit,  \* the command line; the path after --config, or 0
    files,          \* by path: Missing, Bad, or what it says
    edits,
    candidate,      \* the path being looked at
    settings,
    seen, steady    \* since the search began: what files said, and which were
                    \* there all the time

configVars == <<cli, explicit, files, edits, candidate, settings, seen, steady>>

Paths == 1..NPaths
Contents == Configs \cup {Missing, Bad}
Present(fs) == {p \in DOMAIN fs : fs[p] # Missing}
Said(fs) == {<<p, fs[p]>> : p \in {p \in DOMAIN fs : fs[p] \in Configs}}

Or(a, b) == IF a # None THEN a ELSE b
\* Mutant: no defaults where a file was read.
ResolveNoDefaults(line, file) ==
    [k \in Keys |-> IF file = Unset THEN Or(line[k], Default[k]) ELSE Or(line[k], file[k])]

Resolve(line, file) == [k \in Keys |-> Or(Or(line[k], file[k]), Default[k])]

HasApn(s) == s.apn \notin {None, EmptyApn}

ConfigTypeOK ==
    /\ cli \in CommandLines /\ explicit \in Paths \cup {0}
    /\ files \in [Paths -> Contents] /\ edits \in 0..MaxEdits
    /\ candidate \in 1..(NPaths + 1)
    /\ DOMAIN settings = Keys
    /\ {settings.default_route, settings.write_resolv} \subseteq BOOLEAN
    /\ settings.metric # None
    /\ seen \subseteq Paths \X Configs /\ steady \subseteq Paths

ConfigInit ==
    /\ cli \in CommandLines /\ explicit \in Paths \cup {0}
    /\ files \in [Paths -> Contents] /\ edits = 0
    /\ candidate = 1 /\ settings = Default
    /\ seen = {} /\ steady = {}

\* The user creates, changes, breaks or removes a file.
Edit(searching) ==
    /\ edits < MaxEdits /\ edits' = edits + 1
    /\ \E p \in Paths, c \in Contents : files' = [files EXCEPT ![p] = c]
    /\ IF searching THEN seen' = seen \cup Said(files') /\ steady' = steady \cap Present(files')
       ELSE UNCHANGED <<seen, steady>>
    /\ UNCHANGED <<cli, explicit, candidate, settings>>

\* A process starts with its search, past the first path if there is no working
\* directory, or at the path it was given.
BeginSearch ==
    /\ candidate' \in IF explicit = 0 THEN {1, 2} ELSE {explicit}
    /\ settings' = Default
    /\ seen' = Said(files) /\ steady' = {p \in Present(files) : p >= candidate'}
    /\ UNCHANGED <<cli, explicit, files, edits>>

\* load_file: a path where exists() is false is passed over, except an explicit one.
\* That is also so of a file in a directory the process may not search.
PassOver ==
    /\ explicit = 0 /\ candidate \in Paths /\ files[candidate] = Missing
    /\ candidate' = candidate + 1
    /\ UNCHANGED <<cli, explicit, files, edits, settings, seen, steady>>

Found == explicit # 0 \/ (candidate \in Paths /\ files[candidate] # Missing)
Exhausted == explicit = 0 /\ candidate \notin Paths

\* Mutant: an unreadable file is as good as none.
ReadOrUnset ==
    IF candidate \in Paths /\ files[candidate] \in Configs THEN files[candidate] ELSE Unset

\* read_config, some time after the path was found; at the end of the search
\* there is nothing to read.
Read == IF candidate \in Paths THEN files[candidate] ELSE Unset

ReadSucceeds ==
    /\ Read \in Configs \cup {Unset}
    /\ settings' = Resolve(cli, Read)
    /\ HasApn(settings')
    /\ UNCHANGED <<cli, explicit, files, edits, candidate, seen, steady>>

ReadFails ==
    /\ Read \in Configs \cup {Unset} => ~HasApn(Resolve(cli, Read))
    /\ UNCHANGED configVars

\* Settings are the command line over what one file said at one moment since
\* the search began, or over nothing; and no file that was there all the time
\* was passed over for it, were its contents unreadable (config.rs:202-207).  There
\* means that exists() would have said so.
OfOneFile ==
    \/ \E said \in seen :
        /\ settings = Resolve(cli, said[2])
        /\ IF explicit # 0 THEN said[1] = explicit ELSE \A p \in steady : said[1] <= p
    \/ settings = Resolve(cli, Unset) /\ explicit = 0 /\ steady = {}
=============================================================================
