------------------------------- MODULE JsonSchema ------------------------------
(***************************************************************************)
(* utils/validation.rs: what fits a JSON schema, what a value is coerced   *)
(* to for the sake of one, and the validation of a call's arguments.       *)
(*                                                                         *)
(* A schema is a record of keywords; an absent one has the value it has in *)
(* Open.  least and most stand for all bounds: minimum, minLength,         *)
(* minItems, minProperties and their opposites.  closed says that          *)
(* additionalProperties is false, which the code heeds only where          *)
(* properties are declared; others holds their schema if they have one.    *)
(* each is the schema of all items, tuple a list of schemas of the first.  *)
(*                                                                         *)
(* A number is a count of halves, so that some are no integers, and        *)
(* remembers whether it is held as a float.                                *)
(***************************************************************************)
EXTENDS Naturals, SequencesExt, FiniteSetsExt

Null == [type |-> "null"]
Bool(b) == [type |-> "boolean", flag |-> b]
Num(halves, float) == [type |-> "number", halves |-> halves, float |-> float]
Str(s) == [type |-> "string", text |-> s]
Arr(s) == [type |-> "array", items |-> s]
Obj(f) == [type |-> "object", members |-> f]

Open ==
  [types |-> <<>>, only |-> {}, least |-> 0, most |-> 9,
   props |-> <<>>, required |-> {}, closed |-> FALSE, others |-> <<>>,
   each |-> <<>>, tuple |-> <<>>, unique |-> FALSE,
   allOf |-> <<>>, anyOf |-> <<>>, oneOf |-> <<>>]

\* What the texts that occur say as numbers: str::parse.
Floats == "0" :> 0 @@ "1" :> 2 @@ "1.5" :> 3 @@ "1.0" :> 2
Integral == {"0", "1"}
TextOf(v) ==
  CASE v.float /\ v.halves % 2 = 0 -> IF v.halves = 0 THEN "0.0" ELSE "1.0"
    [] v.halves % 2 = 1 -> "1.5"
    [] OTHER -> IF v.halves = 0 THEN "0" ELSE "1"
Letters(s) == CASE s = "" -> 0 [] s \in {"0", "1", "x"} -> 1 [] OTHER -> 3

\* matches_json_type
HasType(v, t) ==
  IF t = "integer" THEN v.type = "number" /\ ~v.float ELSE v.type = t
HasOneOf(v, types) == \E k \in DOMAIN types : HasType(v, types[k])

\* json_schema_equal: numbers are equal whatever holds them.
Same(v, w) ==
  IF v.type = "number" /\ w.type = "number" THEN v.halves = w.halves ELSE v = w

-----------------------------------------------------------------------------
(* validate_value finds no error.                                          *)

Size(v) ==
  CASE v.type = "number" -> v.halves
    [] v.type = "string" -> Letters(v.text)
    [] v.type = "array" -> Len(v.items)
    [] v.type = "object" -> Cardinality(DOMAIN v.members)
    [] OTHER -> 0

\* Numbers and strings are measured whatever the schema says of their type.
Measured(v, s) ==
  v.type \in {"number", "string"} \/ (v.type \in {"array", "object"} /\ v.type \in ToSet(s.types))

RECURSIVE Fits(_, _)

FitsMembers(f, s) ==
  /\ s.required \subseteq DOMAIN f
  /\ \A key \in DOMAIN f :
       IF key \in DOMAIN s.props THEN Fits(f[key], s.props[key])
       ELSE /\ s.closed => DOMAIN s.props = {}
            /\ \A k \in DOMAIN s.others : Fits(f[key], s.others[k])

FitsItems(items, s) ==
  /\ s.unique => \A j, k \in DOMAIN items : j # k => ~Same(items[j], items[k])
  /\ \A k \in DOMAIN items :
       /\ k \in DOMAIN s.tuple => Fits(items[k], s.tuple[k])
       /\ \A j \in DOMAIN s.each : Fits(items[k], s.each[j])

Fits(v, s) ==
  /\ \A k \in DOMAIN s.allOf : Fits(v, s.allOf[k])
  /\ s.anyOf # <<>> => \E k \in DOMAIN s.anyOf : Fits(v, s.anyOf[k])
  /\ s.oneOf # <<>> => Cardinality({k \in DOMAIN s.oneOf : Fits(v, s.oneOf[k])}) = 1
  /\ s.only # {} => \E w \in s.only : Same(v, w)
  /\ s.types # <<>> => HasOneOf(v, s.types)
  /\ Measured(v, s) => Size(v) \in s.least..s.most
  /\ v.type = "object" /\ "object" \in ToSet(s.types) => FitsMembers(v.members, s)
  /\ v.type = "array" /\ "array" \in ToSet(s.types) => FitsItems(v.items, s)

-----------------------------------------------------------------------------
(* coerce_with_json_schema.                                                *)

\* coerce_primitive_by_type
CoercedTo(v, t) ==
  CASE t = "number" /\ v.type = "null" -> Num(0, TRUE)
    [] t = "number" /\ v.type = "boolean" -> Num(IF v.flag THEN 2 ELSE 0, TRUE)
    [] t = "number" /\ v.type = "string" /\ v.text \in DOMAIN Floats -> Num(Floats[v.text], TRUE)
    [] t = "integer" /\ v.type = "null" -> Num(0, FALSE)
    [] t = "integer" /\ v.type = "boolean" -> Num(IF v.flag THEN 2 ELSE 0, FALSE)
    [] t = "integer" /\ v.type = "string" /\ v.text \in Integral -> Num(Floats[v.text], FALSE)
    [] t = "boolean" /\ v.type = "null" -> Bool(FALSE)
    [] t = "boolean" /\ v.type = "string" /\ v.text \in {"true", "false"} -> Bool(v.text = "true")
    [] t = "boolean" /\ v.type = "number" /\ ~v.float /\ v.halves \in {0, 2} -> Bool(v.halves = 2)
    [] t = "string" /\ v.type = "null" -> Str("")
    [] t = "string" /\ v.type = "number" -> Str(TextOf(v))
    [] t = "string" /\ v.type = "boolean" -> Str(IF v.flag THEN "true" ELSE "false")
    [] t = "null" /\ v \in {Str(""), Num(0, FALSE), Bool(FALSE)} -> Null
    [] OTHER -> v

\* A list of types leaves alone what has one of them.  The mutant does not
\* look.
CoercedByTypeAlways(v, types) ==
  LET changing == {k \in DOMAIN types : CoercedTo(v, types[k]) # v}
  IN IF changing = {} THEN v ELSE CoercedTo(v, types[Min(changing)])
CoercedByType(v, types) ==
  LET changing == {k \in DOMAIN types : CoercedTo(v, types[k]) # v}
  IN IF changing = {} \/ (Len(types) > 1 /\ HasOneOf(v, types)) THEN v
     ELSE CoercedTo(v, types[Min(changing)])

RECURSIVE Coerced(_, _)

\* coerce_with_union_schema: the first member that the value can be brought to.
CoercedByUnion(v, members) ==
  LET good == {k \in DOMAIN members : Fits(Coerced(v, members[k]), members[k])}
  IN IF good = {} THEN v ELSE Coerced(v, members[Min(good)])

CoercedMembers(f, s) ==
  [key \in DOMAIN f |->
     IF key \in DOMAIN s.props THEN Coerced(f[key], s.props[key])
     ELSE FoldLeft(Coerced, f[key], s.others)]

CoercedItems(items, s) ==
  [k \in DOMAIN items |->
     FoldLeft(Coerced, items[k], IF k \in DOMAIN s.tuple THEN <<s.tuple[k]>> ELSE s.each)]

CoercedChildren(v, s) ==
  CASE v.type = "object" /\ "object" \in ToSet(s.types) -> Obj(CoercedMembers(v.members, s))
    [] v.type = "array" /\ "array" \in ToSet(s.types) -> Arr(CoercedItems(v.items, s))
    [] OTHER -> v

Coerced(v, s) ==
  LET Unions(w) == CoercedByUnion(CoercedByUnion(w, s.anyOf), s.oneOf)
  IN CoercedChildren(CoercedByType(Unions(FoldLeft(Coerced, v, s.allOf)), s.types), s)

-----------------------------------------------------------------------------
(* Where coercion may make something else of arguments that fit: at unions. *)

RECURSIVE HasUnion(_)
HasUnion(s) ==
  \/ s.anyOf # <<>> \/ s.oneOf # <<>>
  \/ \E key \in DOMAIN s.props : HasUnion(s.props[key])
  \/ \E sub \in ToSet(s.allOf \o s.others \o s.each \o s.tuple) : HasUnion(sub)

\* Some value may have the types of two of the schemas.
Overlap(members) ==
  LET typesOf(s) == IF s.types = <<>> THEN {"any"} ELSE ToSet(s.types)
  IN \E j, k \in DOMAIN members :
       /\ j # k
       /\ \E t \in typesOf(members[j]), u \in typesOf(members[k]) :
            t = u \/ "any" \in {t, u} \/ {t, u} = {"integer", "number"}

\* What a union makes of a value has to satisfy more than the member it was
\* made for: the members of a oneOf exclude each other, other keywords stand
\* beside the union, or one above it looks at the value too.
RECURSIVE Contested(_)
Contested(s) ==
  \/ Overlap(s.oneOf)
  \/ /\ s.anyOf # <<>> \/ s.oneOf # <<>>
     /\ Open \notin {[s EXCEPT !.anyOf = <<>>], [s EXCEPT !.oneOf = <<>>]}
  \/ HasUnion(s) /\ (s.allOf # <<>> \/ s.only # {} \/ s.unique)
  \/ \E key \in DOMAIN s.props : Contested(s.props[key])
  \/ \E sub \in ToSet(s.others \o s.each \o s.tuple) : Contested(sub)

-----------------------------------------------------------------------------
(* The arguments of a tool call are coerced towards the schema of the      *)
(* tool, then validated, and the tool is given the coerced ones.           *)

VARIABLES
  schema,
  given,    \* the arguments of the call
  passed,   \* what the tool is given
  verdict   \* unread, accepted or refused

vars == <<schema, given, passed, verdict>>

\* Calls are pairs of a schema and arguments.
Init(calls) ==
  /\ \E call \in calls : schema = call[1] /\ given = call[2]
  /\ passed = given /\ verdict = "unread"

\* validate_tool_arguments
Validate ==
  /\ verdict = "unread"
  /\ passed' = Coerced(given, schema)
  /\ verdict' = IF Fits(passed', schema) THEN "accepted" ELSE "refused"
  /\ UNCHANGED <<schema, given>>

Validated == verdict # "unread" /\ UNCHANGED vars

Next == Validate \/ Validated

-----------------------------------------------------------------------------
\* Coercion is harmless where no union is contested.  There, arguments that fit
\* as they are are never refused for what was made of them, and arguments that
\* were accepted are accepted when they come back.  Where there is no union, they
\* also reach the tool as they were, both times.  (coerce_with_union_schema takes
\* the first member a value can be brought to: null becomes 0 where an integer is
\* optional, and where a oneOf offers a number, or else a number or a string, "1"
\* becomes 1, which fits both and is refused.)
CoercionIsHarmless ==
  LET again == Coerced(passed, schema)
  IN /\ Fits(given, schema) /\ verdict = "refused" => Contested(schema)
     /\ verdict = "accepted" => Fits(again, schema) \/ Contested(schema)
     /\ ~HasUnion(schema) => /\ Fits(given, schema) => passed = given
                             /\ verdict = "accepted" => again = passed

=============================================================================
