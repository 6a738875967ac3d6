---------------------------- MODULE MCDetection -----------------------------
(* TLC instance of Detection: a scanning client with requests out of order *)
(* and one from the future, an attacker who encodes twice, and two clients *)
(* that fill the map; the second snapshot enables one rule more.           *)
EXTENDS Detection

CONSTANTS c1, c2, c3, page, form, asset, union, scanner, browser

Query(value) == [query |-> value]
Agent(value) == [user_agent |-> value]

Request(client, second, path, error, fields) ==
  [client |-> client, second |-> second, path |-> path, error |-> error, fields |-> fields]

Requests ==
  { Request(c1, 0, form, FALSE, Query(<<Percent, Entity, Percent, Comment, union>>)),
    Request(c1, 1, page, TRUE, Agent(<<scanner>>)),
    Request(c1, 2, page, FALSE, Query(<<Percent, union>>)),
    Request(c2, 1, asset, TRUE, Agent(<<browser>>)),
    Request(c3, 6, page, FALSE, Query(<<Percent, Percent, Percent, union>>)) }

Rule(id, enabled, targets, score, normalizers, pattern) ==
  [id |-> id, enabled |-> enabled, targets |-> targets, score |-> score,
   normalizers |-> normalizers, pattern |-> pattern]

Document(all) ==
  { Rule("SQLI_UNION_SELECT", TRUE, {"url", "query"}, 95, {"url_decode", "sql_canonical"}, {<<union>>}),
    Rule("ENCODED", TRUE, {"url", "query"}, 65, {}, {<<Percent, union>>}),
    Rule("SCANNER_UA", all, {"headers"}, 85, {}, {<<scanner>>}) }

Snapshots == <<Document(FALSE), Document(TRUE)>>
=============================================================================
