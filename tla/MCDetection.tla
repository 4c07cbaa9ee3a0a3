---------------------------- MODULE MCDetection ----------------------------
(* Instances of Detection for TLC: a honeypot, a log, an event log, and IIS. *)
EXTENDS Detection

CONSTANTS pot, iis, event, log, api, e1, e2, e3, e4

\* The api plug-in is started last: the worst case for early attempts.
MCOrder == <<pot, log, iis, event, api>>
MCKindOf ==
    [p \in Plugins |-> CASE p = pot -> "honeypot" [] p = iis -> "iis"
                         [] p = event -> "eventmonitor" [] p = log -> "linuxlog"
                         [] OTHER -> "api"]
MCSourceOf ==
    [e \in Events |-> CASE e = e1 -> pot [] e = e2 -> log [] e = e3 -> iis [] OTHER -> event]

=============================================================================
