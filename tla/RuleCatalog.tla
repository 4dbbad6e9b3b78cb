------------------------------- MODULE RuleCatalog -------------------------------
(***************************************************************************)
(* The table of src/core/rule_catalog.cpp: 39 rows written by hand and,    *)
(* below them, 10,500 rows that are generated from 58 words and 16         *)
(* categories by their number; and the lookup that logredact makes in it.  *)
(* A name is the sequence of its words, which the code joins by            *)
(* underscores.                                                            *)
(***************************************************************************)
EXTENDS Integers, Sequences, SequencesExt, TLC

CONSTANT GeneratedRows  \* 10,500 in the code

ASSUME CatalogAssumption == GeneratedRows \in Nat

Rule(name, category, value, weight) ==
  [name |-> name, category |-> category, value |-> value, weight |-> weight]

HandWritten ==
  <<Rule(<<"password">>, "sensitive", "password", 100),
    Rule(<<"passwd">>, "sensitive", "password", 100), Rule(<<"pwd">>, "sensitive", "password", 95),
    Rule(<<"token">>, "sensitive", "token", 100),
    Rule(<<"api", "key">>, "sensitive", "api_key", 100),
    Rule(<<"authorization">>, "sensitive", "authorization", 100),
    Rule(<<"cookie">>, "sensitive", "cookie", 90),
    Rule(<<"set", "cookie">>, "sensitive", "cookie", 90),
    Rule(<<"email">>, "personal", "email", 80), Rule(<<"client", "ip">>, "personal", "ip", 70),
    Rule(<<"remote", "addr">>, "personal", "ip", 70),
    Rule(<<"ssn">>, "personal", "identifier", 100), Rule(<<"panic">>, "severity", "critical", 100),
    Rule(<<"fatal">>, "severity", "critical", 95), Rule(<<"error">>, "severity", "error", 80),
    Rule(<<"warn">>, "severity", "warning", 60), Rule(<<"notice">>, "severity", "notice", 40),
    Rule(<<"info">>, "severity", "info", 20), Rule(<<"debug">>, "severity", "debug", 10),
    Rule(<<"trace">>, "severity", "trace", 5), Rule(<<"GET">>, "http_method", "GET", 10),
    Rule(<<"POST">>, "http_method", "POST", 10), Rule(<<"PUT">>, "http_method", "PUT", 10),
    Rule(<<"DELETE">>, "http_method", "DELETE", 10), Rule(<<"PATCH">>, "http_method", "PATCH", 10),
    Rule(<<"status">>, "field_alias", "status", 10),
    Rule(<<"status", "code">>, "field_alias", "status", 10),
    Rule(<<"http", "status">>, "field_alias", "status", 10),
    Rule(<<"message">>, "field_alias", "message", 10),
    Rule(<<"msg">>, "field_alias", "message", 10),
    Rule(<<"timestamp">>, "field_alias", "timestamp", 10),
    Rule(<<"time">>, "field_alias", "timestamp", 10),
    Rule(<<"ts">>, "field_alias", "timestamp", 10),
    Rule(<<"service">>, "field_alias", "service", 10),
    Rule(<<"logger">>, "field_alias", "service", 10), Rule(<<"host">>, "field_alias", "host", 10),
    Rule(<<"hostname">>, "field_alias", "host", 10), Rule(<<"path">>, "field_alias", "path", 10),
    Rule(<<"uri">>, "field_alias", "path", 10)>>

CatalogWords ==
  <<"account", "actor", "address", "agent", "application", "backend", "bucket", "cache",
    "category", "client", "cluster", "component", "connection", "container", "correlation",
    "database", "duration", "endpoint", "environment", "exception", "facility", "file", "group",
    "instance", "job", "latency", "level", "module", "node", "operation", "owner", "partition",
    "peer", "pid", "principal", "process", "queue", "region", "request", "resource", "response",
    "role", "route", "scope", "session", "shard", "source", "span", "status", "subject",
    "tenant", "thread", "trace", "transaction", "unit", "user", "version", "worker">>

CatalogCategories ==
  <<"field_alias", "sensitive", "personal", "severity", "http_method", "http_status",
    "syslog_facility", "syslog_severity", "json_key", "csv_header", "ini_key", "stream_marker",
    "timeline_hint", "retention_hint", "redaction_hint", "service_hint">>

\* The row with number i below the rows written by hand.
Generated(i) ==
  Rule(<<CatalogWords[(i % 58) + 1], ToString(i)>>, CatalogCategories[(i % 16) + 1],
       CatalogWords[((7 * i) % 58) + 1], i % 100)

RuleTable == HandWritten \o [n \in 1..GeneratedRows |-> Generated(n - 1)]

NamesOf(rules) == [i \in 1..Len(rules) |-> rules[i].name]

\* The names of a category, in the order of the table.
TokensForCategory(category) ==
  NamesOf(SelectSeq(RuleTable, LAMBDA rule : rule.category = category))
=================================================================================
