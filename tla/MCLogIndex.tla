------------------------------- MODULE MCLogIndex -------------------------------
(* LogIndex for TLC: two files of up to two lines each, of lines that each of *)
(* the parsers accepts, that all reject, and that one leaves by an exception. *)
EXTENDS LogIndex

Client == <<"ip", "sp", "-", "sp", "user", "sp", "[", "time", "]">>
Request == <<"quote", "GET", "sp", "/", "quote", "sp", "200", "sp", "5">>
MCAccess  == Client \o <<"sp">> \o Request
MCTight   == Client \o Request
MCCutWeb  == Client \o <<"quote", "GET", "quote">>
MCJson    == <<"{", "quote", "msg", "quote", ":", "quote", "x", "quote", "}">>
MCCutJson == <<"{", "quote", "msg", "}">>
MCSyslog  == <<"Jan", "sp", "1", "sp", "now", "sp", "cron", "sp", "cron", "sp", "ran">>
MCSyslog2 == <<"Jan", "sp", "1", "sp", "now", "sp", "host", "sp", "sp", "cron", "sp", "ran">>
MCLines == {MCAccess, MCTight, MCCutWeb, MCJson, MCCutJson, MCSyslog, MCSyslog2, <<"junk">>, <<"sp">>}
MCContents == BoundedSeq(MCLines, 2)
===============================================================================
