----------------------------- MODULE RuleMatching -----------------------------
(***************************************************************************)
(* What the rules of the detector find in a request:                       *)
(* RuleEngineServiceImpl.match and RequestNormalizer.  A text is a model   *)
(* value; a value of a field is a text inside layers of encoding, as a     *)
(* sequence, the outermost layer first and the text last.  A pattern is    *)
(* the set of the values it is found in.                                   *)
(***************************************************************************)
EXTENDS Sequences

CONSTANTS
  Percent,      \* the layer of %xx
  Entity,       \* the layer of &lt; and the like
  Comment       \* the layer of /**/ between the words of a text

Strip(value, layer) == IF Head(value) = layer THEN Tail(value) ELSE value

\* One round of RequestNormalizer.normalize; the second one is the last.
Round(value) == Strip(Strip(value, Percent), Entity)

\* Either of the two decoders asks for both.
Normalized(value, normalizers) ==
  LET decoded == IF normalizers \cap {"url_decode", "html_decode"} # {}
                 THEN Round(Round(value)) ELSE value IN
  IF "sql_canonical" \in normalizers THEN Strip(decoded, Comment) ELSE decoded

\* A header is a target by its own name or as one of the headers.
Targets(rule, field) ==
  field \in rule.targets \/ (field \in {"user_agent", "referer"} /\ "headers" \in rule.targets)

\* The enabled rules that find something in a field they target; fields[f] is the value of f.
Match(rules, fields) ==
  {r \in rules : r.enabled /\ \E f \in DOMAIN fields :
     Targets(r, f) /\ Normalized(fields[f], r.normalizers) \in r.pattern}
=============================================================================
