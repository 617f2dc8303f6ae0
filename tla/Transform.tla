----------------------------- MODULE Transform -----------------------------
(***************************************************************************)
(* What a route does with an event: the filter that decides whether it     *)
(* applies (transform/filter.py), the pipeline that rewrites the body      *)
(* (transform/engine.py), what the API accepts of both (schemas/api.py),   *)
(* and the checks on the url it is sent to (core/url_security.py).         *)
(*                                                                         *)
(* JSON values are records with a kind; a dict's "entries" is a function   *)
(* on its keys.  A JMESPath expression is a path, or a function applied to *)
(* one; whether it compiles and how long it is are attributes of it.       *)
(***************************************************************************)
EXTENDS Integers, Sequences, FiniteSets, SequencesExt

CONSTANTS
    MAX_EXPRESSION_LEN,  \* schemas/api.py and engine.py: 2048
    MAX_TEMPLATE_KEYS,   \* schemas/api.py: 64
    MAX_FLOAT            \* integers up to this have a float that stands for them

ASSUME CapsAssumption == MAX_EXPRESSION_LEN \in Nat /\ MAX_TEMPLATE_KEYS \in Nat
ASSUME FloatAssumption == MAX_FLOAT \in Nat

Null == [kind |-> "null"]
Num(n) == [kind |-> "num", num |-> n]
Str(s) == [kind |-> "str", str |-> s]
Dict(f) == [kind |-> "dict", entries |-> f]

(* str(v) of a value that is no string, and of a quotient of numbers. *)
Rendered(v) == [kind |-> "text", of |-> v]
Quotient(n, d) == [kind |-> "quotient", num |-> n, divisor |-> d]

IsDict(v) == v.kind = "dict"
HasKey(v, k) == IsDict(v) /\ k \in DOMAIN v.entries

Truthy(v) ==
    CASE v.kind = "null" -> FALSE
      [] v.kind = "num"  -> v.num # 0
      [] v.kind = "str"  -> v.str # ""
      [] v.kind = "dict" -> DOMAIN v.entries # {}
      [] OTHER           -> TRUE

-----------------------------------------------------------------------------
(* jmespath: a field of anything but a dict that has it is null. *)
Field(v, k) == IF HasKey(v, k) THEN v.entries[k] ELSE Null

FieldAt(v, path) == FoldLeft(Field, v, path)

(* length() is defined on strings and dicts and raises on the rest. *)
Measurable(v) == v.kind \in {"str", "text", "dict"}
LengthOf(v) == Num(IF Truthy(v) THEN 1 ELSE 0)  \* zero or not, no more is needed

SearchRaises(expr, v) ==
    \/ ~expr.compiles
    \/ expr.fn = "length" /\ ~Measurable(FieldAt(v, expr.path))

Search(expr, v) ==
    IF expr.fn = "length" THEN LengthOf(FieldAt(v, expr.path)) ELSE FieldAt(v, expr.path)

-----------------------------------------------------------------------------
(* _eval_expr: dict.get(part, "") down the path; a value that is no dict    *)
(* ends the walk there, with the division left undone.                      *)
Walk(at, k) ==
    CASE at.ended         -> at
      [] ~IsDict(at.value) -> [at EXCEPT !.ended = TRUE]
      [] OTHER -> [at EXCEPT !.value = IF HasKey(@, k) THEN @.entries[k] ELSE Str("")]

WalkAlong(path, payload) == FoldLeft(Walk, [value |-> payload, ended |-> FALSE], path)

Divides(hole) == hole.kind = "hole" /\ hole.divisor \notin {"none", "zero", "word"}

(* current / divisor: an OverflowError if the integer has no float, which   *)
(* the except clause does not name.                                         *)
EvalRaises(hole, payload) ==
    LET at == WalkAlong(hole.path, payload)
    IN  /\ Divides(hole)
        /\ ~at.ended /\ at.value.kind = "num"
        /\ at.value.num \notin (-MAX_FLOAT)..MAX_FLOAT

AsText(v) == IF v.kind \in {"str", "text"} THEN v ELSE Rendered(v)

Eval(hole, payload) ==
    LET at == WalkAlong(hole.path, payload)
    IN  CASE hole.divisor = "none" \/ at.ended \/ at.value.kind # "num" -> AsText(at.value)
          [] hole.divisor = "zero" -> Str("0")
          [] hole.divisor = "word" -> AsText(at.value)
          [] OTHER                 -> AsText(Quotient(at.value.num, hole.divisor))

TemplateRaises(template, payload) ==
    \E k \in DOMAIN template : template[k].kind = "hole" /\ EvalRaises(template[k], payload)

(* _apply_template: only strings with a hole in them are rewritten. *)
ApplyTemplate(template, payload) ==
    Dict([k \in DOMAIN template |->
            IF template[k].kind = "hole" THEN Eval(template[k], payload) ELSE template[k]])

-----------------------------------------------------------------------------
(* "JMESPathError": any exception that comes out of the library. *)
Raise(err) == [error |-> err, value |-> Null]
Return(v) == [error |-> "none", value |-> v]

(* The engine's cap is one less than the schema's. *)
JmespathCapOffByOne(expr, payload) ==
    CASE expr.len >= MAX_EXPRESSION_LEN -> Raise("ValueError")
      [] SearchRaises(expr, payload)    -> Raise("JMESPathError")
      [] Search(expr, payload) = Null   -> Return(payload)
      [] OTHER                          -> Return(Search(expr, payload))

Jmespath(expr, payload) ==
    CASE expr.len > MAX_EXPRESSION_LEN -> Raise("ValueError")
      [] SearchRaises(expr, payload)   -> Raise("JMESPathError")
      [] Search(expr, payload) = Null  -> Return(payload)
      [] OTHER                         -> Return(Search(expr, payload))

ApplyStep(step, payload) ==
    CASE step.type = "passthrough" -> Return(payload)
      [] step.type = "template" ->
            IF "body" \notin DOMAIN step THEN Raise("KeyError")
            ELSE IF TemplateRaises(step.body, payload) THEN Raise("OverflowError")
            ELSE Return(ApplyTemplate(step.body, payload))
      [] step.type = "jmespath" ->
            IF "expression" \in DOMAIN step
            THEN Jmespath(step.expression, payload) ELSE Raise("KeyError")
      [] OTHER -> Raise("ValueError")

(* apply_pipeline: step after step, until one raises. *)
Continue(result, step) ==
    IF result.error = "none" THEN ApplyStep(step, result.value) ELSE result

ApplyPipeline(pipeline, payload) ==
    LET after[n \in 0..Len(pipeline)] ==
            IF n = 0 THEN Return(payload) ELSE Continue(after[n - 1], pipeline[n])
    IN  after[Len(pipeline)]

-----------------------------------------------------------------------------
(* build_filter_context: a body's own "body" and "headers" stay below body. *)
FilterContext(body, headers) ==
    LET own == IF IsDict(body) THEN body.entries ELSE <<>>
    IN  Dict([k \in {"body", "headers"} \cup DOMAIN own |->
                CASE k = "body"    -> IF Truthy(body) THEN body ELSE Dict(<<>>)
                  [] k = "headers" -> headers
                  [] OTHER         -> own[k]])

(* route_matches_event: no filter, or a blank one, lets everything through; *)
(* one that raises lets nothing through.                                    *)
RouteMatches(filter, body, headers) ==
    \/ filter.blank
    \/ /\ ~filter.blank
       /\ ~SearchRaises(filter, FilterContext(body, headers))
       /\ Truthy(Search(filter, FilterContext(body, headers)))

-----------------------------------------------------------------------------
(* The pipeline and filter validators of schemas/api.py. *)
AcceptsStep(step) ==
    CASE step.type = "passthrough" -> TRUE
      [] step.type = "template" ->
            "body" \in DOMAIN step /\ Cardinality(DOMAIN step.body) <= MAX_TEMPLATE_KEYS
      [] step.type = "jmespath" ->
            /\ "expression" \in DOMAIN step
            /\ step.expression.len <= MAX_EXPRESSION_LEN
            /\ step.expression.compiles
      [] OTHER -> FALSE

AcceptsPipeline(pipeline) == \A i \in DOMAIN pipeline : AcceptsStep(pipeline[i])

(* What an accepted pipeline may still do, depending on the event. *)
HasDivision(step) ==
    step.type = "template" /\ \E k \in DOMAIN step.body : Divides(step.body[k])

EventErrors(pipeline) ==
    {"none", "JMESPathError"}
        \cup IF \E i \in DOMAIN pipeline : HasDivision(pipeline[i])
             THEN {"OverflowError"} ELSE {}

AcceptsFilter(filter) == filter.blank \/ filter.compiles

-----------------------------------------------------------------------------
(* validate_delivery_url, with RELAY_ALLOW_INSECURE_DELIVERY_URLS or not.   *)
(* A host is a name, a blocked name, or an address; an address is private   *)
(* (loopback, link-local, reserved, ... included) or public.                *)
AcceptsUrl(url, insecure) ==
    /\ url.scheme \in {"http", "https"} /\ url.host # "none"
    /\ url.scheme = "https" \/ insecure
    /\ ~url.credentials
    /\ url.host \notin {"localhost", "private"}

(* validate_delivery_url_for_request, with what the host resolves to. *)
AcceptsRequest(url, insecure, addresses) ==
    /\ AcceptsUrl(url, insecure)
    /\ insecure \/ "private" \notin addresses

=============================================================================
