------------------------------- MODULE HostMC -------------------------------
(* What the command line and the files say, for TLC. *)
EXTENDS Host

Config(apn, route, metric, resolver) ==
    [apn |-> apn, default_route |-> route, metric |-> metric, write_resolv |-> resolver]

Files == {Config("apn", None, None, None), Config(None, FALSE, 7, FALSE)}
Given == {Config(None, None, None, None), Config("cli", None, None, TRUE),
          Config(EmptyApn, TRUE, None, None)}
Lists == {<<"nameserver 1", "nameserver 2">>, <<"nameserver 3">>}
Existing == {<<"nameserver 3">>}
=============================================================================
