----------------------------- MODULE EventMatch -----------------------------
(***************************************************************************)
(* event_match.py: which patterns of the event rules match which events,   *)
(* and which patterns the API takes.                                       *)
(*                                                                         *)
(* A JSON value is a record of its type and, under the name of the type,   *)
(* what it holds: a string is a sequence of letters, an array a sequence   *)
(* of values, an object a function on its keys.  A pattern is a function   *)
(* from keys to lists of elements, a bare element being the list of it; an *)
(* element is a literal, an operator with its argument, or a pattern for   *)
(* the object beneath.  Both modules recurse into nested patterns: what    *)
(* those match is a recursive function on them.                            *)
(***************************************************************************)
EXTENDS Naturals, Sequences

Strings == INSTANCE SequencesExt

CONSTANTS Value, Element    \* what an event may hold under a key, what a pattern may say of it

Operators == {"prefix", "suffix", "exists", "anything-but", "numeric"}
Comparisons == {"<", "<=", ">", ">=", "=", "!="}

\* Both sets hold what their members hold; there are no arrays of arrays.
MatchAssumption ==
  /\ \A v \in Value : v.type = "array" =>
       \A i \in DOMAIN v.array : v.array[i] \in Value /\ v.array[i].type # "array"
  /\ \A e \in Element :
       /\ e.is \in {"literal", "operator", "pattern"}
       /\ e.is = "operator" => e.op \in Operators
       /\ e.is = "pattern" => \A key \in DOMAIN e.p : \A k \in DOMAIN e.p[key] : e.p[key][k] \in Element

ASSUME MatchAssumed == MatchAssumption

VARIABLE match    \* a value and an element of a pattern that meet

Null == [type |-> "null"]
Boolean(b) == [type |-> "boolean", boolean |-> b]
Literal(v) == [is |-> "literal", v |-> v]
Operator(op, arg) == [is |-> "operator", op |-> op, arg |-> arg]
Nested(p) == [is |-> "pattern", p |-> p]

ObjectValue == {v \in Value : v.type = "object"}
NestedPattern == {e.p : e \in {f \in Element : f.is = "pattern"}}

\* no coercion between types
SameLiteral(a, b) == a = b

Compares(x, op, n) ==
  CASE op = "<" -> x < n [] op = "<=" -> x <= n [] op = ">" -> x > n
    [] op = ">=" -> x >= n [] op = "=" -> x = n [] op = "!=" -> x # n [] OTHER -> FALSE

\* one or two pairs of a comparison and a number
InRange(v, spec) ==
  /\ v.type = "number" /\ Len(spec) \in {1, 2}
  /\ \A i \in DOMAIN spec : spec[i].n.type = "number" /\ Compares(v.number, spec[i].op, spec[i].n.number)

OperatorMatches(v, op, arg) ==
  CASE op = "exists" -> IF v.type = "null" THEN arg = Boolean(FALSE) ELSE arg = Boolean(TRUE)
    [] op = "prefix" -> v.type = "string" /\ arg.type = "string" /\ Strings!IsPrefix(arg.string, v.string)
    [] op = "suffix" -> v.type = "string" /\ arg.type = "string" /\ Strings!IsSuffix(arg.string, v.string)
    [] op = "anything-but" -> v.type # "null" /\ \A i \in DOMAIN arg.array : ~SameLiteral(v, arg.array[i])
    [] op = "numeric" -> arg.type = "array" /\ InRange(v, arg.array)

\* the objects that the pattern matches, or an array that has one
ObjectMatches(v, found) ==
  LET matches(w) == w.type = "object" /\ w \in found
  IN  matches(v) \/ (v.type = "array" /\ \E i \in DOMAIN v.array : matches(v.array[i]))

\* An element on a value that is there, Null among them; "beneath" gives the
\* objects that each nested pattern matches.
ElementMatches(v, e, beneath) ==
  CASE e.is = "literal" -> SameLiteral(v, e.v)
    [] e.is = "operator" -> OperatorMatches(v, e.op, e.arg)
    [] e.is = "pattern" -> ObjectMatches(v, beneath[e.p])

AsAWhole == {"exists", "anything-but"}
Elementwise(e) == e.is = "literal" \/ (e.is = "operator" /\ e.op \notin AsAWhole)

FieldMatches_First(v, es, beneath) ==    \* mutant: looks at the first element of the event's array only
  \E k \in DOMAIN es :
    \/ ElementMatches(v, es[k], beneath)
    \/ v.type = "array" /\ v.array # <<>> /\ Elementwise(es[k]) /\ ElementMatches(v.array[1], es[k], beneath)

\* any element of the pattern, on the value or on any element of an array
FieldMatches(v, es, beneath) ==
  \E k \in DOMAIN es :
    \/ ElementMatches(v, es[k], beneath)
    \/ v.type = "array" /\ Elementwise(es[k]) /\ \E i \in DOMAIN v.array : ElementMatches(v.array[i], es[k], beneath)

\* A key that is not there counts as absent to "exists" and to nothing else.
MissingMatches(es) ==
  \E k \in DOMAIN es : es[k].is = "operator" /\ es[k].op = "exists" /\ es[k].arg = Boolean(FALSE)

MatchesGiven(p, event, beneath) ==
  \A key \in DOMAIN p :
    IF key \in DOMAIN event THEN FieldMatches(event[key], p[key], beneath) ELSE MissingMatches(p[key])

matched[p \in NestedPattern] == {v \in ObjectValue : MatchesGiven(p, v.object, matched)}

Matches(p, event) == MatchesGiven(p, event, matched)

-----------------------------------------------------------------------------
(* validate_pattern *)

ValidArgument(op, arg) ==
  CASE op = "exists" -> arg.type = "boolean"
    [] op \in {"prefix", "suffix"} -> arg.type = "string"
    [] op = "anything-but" -> \A i \in DOMAIN arg.array : arg.array[i].type \notin {"array", "object"}
    [] op = "numeric" ->
         /\ arg.type = "array" /\ Len(arg.array) \in {1, 2}
         /\ \A i \in DOMAIN arg.array : arg.array[i].op \in Comparisons /\ arg.array[i].n.type = "number"

ValidElement(e, beneath) ==
  CASE e.is = "literal" -> e.v.type # "array"
    [] e.is = "operator" -> ValidArgument(e.op, e.arg)
    [] e.is = "pattern" -> beneath[e.p]

ValidGiven(p, beneath) ==
  /\ DOMAIN p # {}
  /\ \A key \in DOMAIN p : p[key] # <<>> /\ \A k \in DOMAIN p[key] : ValidElement(p[key][k], beneath)

validated[p \in NestedPattern] == ValidGiven(p, validated)

Valid(p) == ValidGiven(p, validated)

-----------------------------------------------------------------------------
MatchInit == match \in [v : Value, e : Element]

MatchSpec == MatchInit /\ [][UNCHANGED match]_match

\* The event holds nothing but the value, the pattern says nothing but the element.
Meets(v, e) == Matches([key |-> <<e>>], [key |-> v])
MeetsNothing(e) == Matches([key |-> <<e>>], <<>>)

WholeArray(e) == e.is = "operator" /\ e.op \in AsAWhole

\* Laws that a rule's author counts on, whatever the value and the element: an
\* array matches exactly if one of its elements does, but for the two operators
\* that see it whole and for a literal that is an array; of "exists" true and
\* false exactly one holds, of a value that is there, is null, or is not there;
\* only "exists" false holds of a key that is not there; "anything-but" is the
\* opposite of its literals on a scalar that is there; and an element that
\* validate_pattern turns down matches nothing, as the module says ("malformed
\* operators simply don't match"), "anything-but" of arrays and objects excepted.
MatchingLaws ==
  LET v == match.v
      e == match.e
      exists(b) == Operator("exists", Boolean(b))
  IN  /\ v.type = "array" /\ ~WholeArray(e) /\ (e.is = "literal" => e.v.type # "array") =>
           (Meets(v, e) <=> \E i \in DOMAIN v.array : Meets(v.array[i], e))
      /\ Meets(v, exists(TRUE)) # Meets(v, exists(FALSE))
      /\ MeetsNothing(e) => Valid([key |-> <<e>>]) /\ Meets(Null, e)
      /\ e.is = "operator" /\ e.op = "anything-but" /\ v.type \notin {"array", "null"} =>
           (Meets(v, e) <=> \A i \in DOMAIN e.arg.array : ~Meets(v, Literal(e.arg.array[i])))
      /\ e.is = "operator" /\ e.op # "anything-but" /\ ~Valid([key |-> <<e>>]) => ~Meets(v, e)
=============================================================================
