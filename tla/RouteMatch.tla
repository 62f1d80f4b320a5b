----------------------------- MODULE RouteMatch -----------------------------
(* How a request for a grpc-json service finds its route and the fields of its *)
(* message: matchPattern, matchTemplatedRoute, mergeQueryParams and coerceType *)
(* (internal/proxy/proxy.go). Paths and patterns are sequences of segments,    *)
(* what strings.Split makes of them after the first slash: "/users/" is        *)
(* <<"users", "">> and "/" is <<"">>.                                          *)
EXTENDS Integers, Sequences, SequencesExt

CONSTANTS
  Texts,   \* of which the segments of paths and the values of queries consist
  Types,   \* the types a template or a mapping can name
  Reads    \* by type, what strconv reads each text as, the way JSON writes it

ASSUME RouteMatchAssumption ==
  /\ "" \in Texts
  /\ "string" \in Types
  /\ DOMAIN Reads = Types
  /\ \A type \in Types : DOMAIN Reads[type] \subseteq Texts
  /\ Reads["string"] = [text \in Texts |-> text]

(* Mutation of Coerce: the error of strconv is dropped, and its zero kept.      *)
CoerceOrZero(text, type) ==
  [text |-> IF text \in DOMAIN Reads[type] THEN Reads[type][text] ELSE "0", type |-> type]

(* coerceType: the value read, or the text itself. "007" is read as the number *)
(* 7, "t" as true.                                                             *)
Coerce(text, type) ==
  IF text \in DOMAIN Reads[type] THEN [text |-> Reads[type][text], type |-> type]
                                 ELSE [text |-> text, type |-> "string"]

(* A value that is the text, or that strconv reads the text as.                *)
Denotes(text, value) ==
  \/ value.type = "string" /\ value.text = text
  \/ text \in DOMAIN Reads[value.type] /\ Reads[value.type][text] = value.text

(* A segment of a pattern: a text, or {key:type}; size is its length.          *)
Segments == [template : BOOLEAN, text : STRING, type : Types, size : Nat]

Segment(text, size) ==
  [template |-> FALSE, text |-> text, type |-> "string", size |-> size]

Template(key, type, size) ==
  [template |-> TRUE, text |-> key, type |-> type, size |-> size]

(* TrimSuffix of one slash. "/" stays.                                         *)
TrimPath(path) ==
  IF Len(path) > 1 /\ path[Len(path)] = "" THEN Front(path) ELSE path

IsEmpty(seg) == ~seg.template /\ seg.text = ""

TrimPattern(pattern) ==
  IF Len(pattern) > 1 /\ IsEmpty(pattern[Len(pattern)]) THEN Front(pattern) ELSE pattern

(* matchPattern, its second result: as many segments, each of them the same,   *)
(* or a template that has a key.                                               *)
Matches(pattern, path) ==
  LET ps == TrimPattern(pattern)
      us == TrimPath(path)
  IN /\ Len(ps) = Len(us)
     /\ \A i \in DOMAIN ps :
          IF ps[i].template THEN ps[i].text # "" ELSE ps[i].text = us[i]

(* matchPattern, its first result: the map from keys to segments, in which the *)
(* later of two equal keys stays.                                              *)
TemplatesOf(pattern) ==
  {i \in DOMAIN TrimPattern(pattern) : TrimPattern(pattern)[i].template}

KeysOf(pattern) == {TrimPattern(pattern)[i].text : i \in TemplatesOf(pattern)}

LastOf(positions) == CHOOSE i \in positions : \A j \in positions : j <= i

Params(pattern, path) ==
  LET ps == TrimPattern(pattern)
  IN [k \in KeysOf(pattern) |->
        LET i == LastOf({j \in TemplatesOf(pattern) : ps[j].text = k})
        IN Coerce(TrimPath(path)[i], ps[i].type)]

(* len(rt.Path): the segments and the slash before each of them.               *)
PatternLength(pattern) ==
  LET sum[n \in 0..Len(pattern)] == IF n = 0 THEN 0 ELSE sum[n - 1] + pattern[n].size + 1
  IN sum[Len(pattern)]

NoRoute == 0

(* Mutation of Better: of equally long patterns the later one.                 *)
LaterOrLonger(list, i, best) ==
  best = NoRoute \/ PatternLength(list[i].pattern) >= PatternLength(list[best].pattern)

Better(list, i, best) ==
  best = NoRoute \/ PatternLength(list[i].pattern) > PatternLength(list[best].pattern)

(* The condition under which the loop makes rt, at position i, the best route. *)
Takes(list, method, path, i, best) ==
  /\ list[i].method = method
  /\ Matches(list[i].pattern, path)
  /\ Better(list, i, best)

(* matchTemplatedRoute: the loop over the list ListRoutes returned, which keeps*)
(* the position of the best route so far.                                      *)
MatchTemplatedRoute(list, method, path) ==
  LET best[n \in 0..Len(list)] ==
        IF n = 0 THEN NoRoute
        ELSE IF Takes(list, method, path, n, best[n - 1]) THEN n ELSE best[n - 1]
  IN best[Len(list)]

(* mergeQueryParams: the mapping goes from query parameters to fields and is   *)
(* ranged over in any order, so that of two parameters for one field either    *)
(* may come last. A field of the path is overwritten.                          *)
MappedTo(mapping, query, field) ==
  {qp \in DOMAIN mapping \cap DOMAIN query : mapping[qp].field = field}

MappedFields(mapping, query) ==
  {mapping[qp].field : qp \in DOMAIN mapping \cap DOMAIN query} \ {""}

MergeQueryParams(params, mapping, query) ==
  LET fields == MappedFields(mapping, query)
      picks == {pick \in [fields -> DOMAIN mapping] :
                  \A f \in fields : pick[f] \in MappedTo(mapping, query, f)}
  IN {[k \in DOMAIN params \cup fields |->
         IF k \in fields THEN Coerce(query[pick[k]], mapping[pick[k]].type)
                         ELSE params[k]] : pick \in picks}

=============================================================================
