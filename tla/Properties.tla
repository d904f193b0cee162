----------------------------- MODULE Properties -----------------------------
(***************************************************************************)
(* FromProperties, pkg/props/base.go, on the models of the package: a      *)
(* field of the model after the other is set from the properties, and      *)
(* CustomMapping comes last, which for ComLinear computes the prices,      *)
(* pkg/props/com.go.  A program may load a model several times.            *)
(***************************************************************************)
EXTENDS Integers, Sequences, SequencesExt

CONSTANTS
    Coeffs,    \* the coefficient lists in the properties, sequences of numbers
               \* and of Word, which is no number
    Word,
    Counters,
    Usages,    \* the usage lists, sequences of counters
    Text,      \* a string where a list is expected
    Number,    \* something that is neither a list nor a string
    None       \* no value: a key that is absent, a price that is not set

\* What a property may be but for the lists, and how a load may end: the last two
\* outcomes end the process.
Scalars == {"zero", "good", "bad", "wrong"}
Outcomes == {"ok", "missing", "invalid", "unlisted", "short", "word", "panic", "fatal"}

ASSUME PropertiesAssumption ==
    /\ Word \notin Int /\ None \notin Int \cup Scalars \cup Outcomes \cup {Word}
    /\ Coeffs \subseteq Seq(Int \cup {Word}) /\ Usages \subseteq Seq(Counters)

VARIABLES
    values,     \* the fields of each model: "zero", "good" or, for an enum, "bad"
    fixedPrice, \* FixedPrice and
    priceFor,   \* PriceFor of the ComLinear, set of <<counter, coefficient>>
    props,      \* the properties that are loaded
    model,      \* the model they are loaded into
    at,         \* the field, or the coefficient, that comes next
    loading,    \* "no", "fields", "mapping", "prices" or "returned"
    prices,     \* the local priceFor
    before,     \* the fields of the models as they were when the load began
    outcome     \* of the last load, or None

loadVars == <<values, fixedPrice, priceFor, props, model, at, loading, prices, before, outcome>>

\* What getFields finds, in this order; "optional" is the tag.  An embedded
\* struct's fields are among those of the whole.  A decimal and a time are taken
\* apart, so that none of their keys is ever asked for.
Field(key, kind, optional, embedded) ==
    [key |-> key, kind |-> kind, optional |-> optional, embedded |-> embedded]

Fields(m) ==
    CASE m = "NodeInfo" ->
           << Field("name", "string", TRUE, FALSE), Field("subnet", "string", TRUE, FALSE) >>
      [] m = "Activity" ->
           << Field("costCap", "struct", TRUE, FALSE), Field("costWarning", "struct", TRUE, FALSE),
              Field("timeoutSecs", "float", TRUE, FALSE), Field("expiration", "struct", TRUE, FALSE),
              Field("multiActivity", "bool", TRUE, FALSE) >>
      [] m = "ComLinear" ->
           << Field("scheme", "enum", TRUE, TRUE), Field("priceModel", "enum", TRUE, TRUE) >>
      [] m = "VMRequest" ->
           << Field("packageUrl", "string", FALSE, TRUE),
              Field("packageFormat", "enum", FALSE, FALSE) >>

Models == {"NodeInfo", "Activity", "ComLinear", "VMRequest"}
FieldsOf(m) == ToSet(Fields(m))
Keys == {f.key : f \in UNION {FieldsOf(m) : m \in Models}}

\* The zero value of these enums is one of theirs.
Valid(f, v) == f.kind = "enum" => v = "good" \/ (v = "zero" /\ f.key = "packageFormat")

\* A model that was just made.
Fresh == [k \in Keys |-> "zero"]

LoadInit ==
    /\ values = Fresh
    /\ fixedPrice = None /\ priceFor = {}
    /\ props = None /\ model = None /\ at = 0
    /\ loading = "no"
    /\ prices = {}
    /\ before = Fresh
    /\ outcome = None

-----------------------------------------------------------------------------
FromProperties(m, p) ==
    /\ loading = "no"
    /\ loading' = "fields"
    /\ model' = m /\ props' = p /\ at' = 1
    /\ before' = values
    /\ UNCHANGED <<values, fixedPrice, priceFor, prices, outcome>>

Return(result) ==
    /\ outcome' = result
    /\ loading' = "returned"
    /\ UNCHANGED <<props, model, before>>

\* The call is over, and its locals are gone.
Leave ==
    /\ loading = "returned"
    /\ loading' = "no"
    /\ props' = None /\ model' = None /\ at' = 0 /\ prices' = {}
    /\ UNCHANGED <<values, fixedPrice, priceFor, before, outcome>>

Skip == at' = at + 1 /\ UNCHANGED <<values, outcome, loading>>

\* A value of another Go type panics.  An enum is set first and validated then.
SetField(f, v) ==
    \/ v = "wrong" /\ Return("panic") /\ UNCHANGED <<values, at>>
    \/ /\ v # "wrong"
       /\ values' = [values EXCEPT ![f.key] = v]
       /\ IF Valid(f, v)
          THEN at' = at + 1 /\ UNCHANGED <<outcome, loading>>
          ELSE Return("invalid") /\ UNCHANGED at

Load ==
    /\ loading = "fields" /\ at <= Len(Fields(model))
    /\ LET f == Fields(model)[at]
       IN  \/ f.kind = "struct" /\ Skip
           \/ f.kind # "struct" /\ props[f.key] = None /\ f.optional /\ Skip
           \/ /\ f.kind # "struct" /\ props[f.key] = None /\ ~f.optional
              /\ Return("missing") /\ UNCHANGED <<values, at>>
           \/ f.kind # "struct" /\ props[f.key] # None /\ SetField(f, props[f.key])
    /\ UNCHANGED <<fixedPrice, priceFor, props, model, prices, before>>

Loaded ==
    /\ loading = "fields" /\ at > Len(Fields(model))
    /\ loading' = "mapping"
    /\ UNCHANGED <<values, fixedPrice, priceFor, props, model, at, prices, before, outcome>>

\* CustomMapping of VMRequest; that of NodeInfo and of Activity is the one of the
\* Model that they embed, which is nil.
MapNothing ==
    /\ loading = "mapping" /\ model # "ComLinear"
    /\ Return(IF model = "VMRequest" THEN "ok" ELSE "panic")
    /\ UNCHANGED <<values, fixedPrice, priceFor, at, prices>>

-----------------------------------------------------------------------------
(* CustomMapping of ComLinear. *)

Popped == Front(props.coeffs)

\* The lists are compared before the fixed price is popped.
Short == Len(props.coeffs) < Len(props.usages)

\* The test of PriceModel, and a mutant without it.
AnyModel == TRUE
Linear == values["priceModel"] = "good"

\* The errors, in the order of the tests.
Refusal ==
    IF ~Linear THEN "fatal"
    ELSE IF props.coeffs = None \/ props.usages = None THEN "missing"
    ELSE IF props.coeffs = Number THEN "panic"
    ELSE IF props.coeffs = Text THEN "unlisted"
    ELSE IF props.usages = Number THEN "panic"
    ELSE IF props.usages = Text THEN "unlisted"
    ELSE IF props.coeffs = <<>> \/ Short THEN "short"
    ELSE IF Last(props.coeffs) = Word THEN "word"
    ELSE None

MapLinear ==
    /\ loading = "mapping" /\ model = "ComLinear"
    /\ \/ Refusal # None /\ Return(Refusal) /\ UNCHANGED <<at, prices>>
       \/ /\ Refusal = None
          /\ loading' = "prices" /\ at' = 1 /\ prices' = {}
          /\ UNCHANGED <<props, model, before, outcome>>
    /\ UNCHANGED <<values, fixedPrice, priceFor>>

\* A counter that occurs again takes the later coefficient.  The mutant keeps the
\* first.
PricedOnce(u, c) == IF \E p \in prices : p[1] = u THEN prices ELSE prices \cup {<<u, c>>}
Priced(u, c) == {p \in prices : p[1] # u} \cup {<<u, c>>}

PriceNext ==
    /\ loading = "prices" /\ at <= Len(Popped)
    /\ LET c == Popped[at]
       IN  \/ c = Word /\ Return("word") /\ UNCHANGED <<at, prices>>
           \/ c = 0 /\ at' = at + 1 /\ UNCHANGED <<prices, outcome, loading, props, model, before>>
           \/ /\ c \notin {Word, 0} /\ at > Len(props.usages)
              /\ Return("short") /\ UNCHANGED <<at, prices>>
           \/ /\ c \notin {Word, 0} /\ at <= Len(props.usages)
              /\ prices' = Priced(props.usages[at], c)
              /\ at' = at + 1
              /\ UNCHANGED <<outcome, loading, props, model, before>>
    /\ UNCHANGED <<values, fixedPrice, priceFor>>

SetPrices ==
    /\ loading = "prices" /\ at > Len(Popped)
    /\ fixedPrice' = Last(props.coeffs)
    /\ priceFor' = prices
    /\ Return("ok")
    /\ UNCHANGED <<values, at, prices>>

LoadStep == Leave \/ Load \/ Loaded \/ MapNothing \/ MapLinear \/ PriceNext \/ SetPrices

-----------------------------------------------------------------------------
(* Properties. *)

\* A ComLinear that was loaded prices every usage that has a coefficient by the
\* last one it has, zeros apart, and nothing else; its fixed price is the end of
\* the list.  Only the last usage may be without a coefficient.
PricesAreRead ==
    loading = "returned" /\ outcome = "ok" /\ model = "ComLinear" =>
       LET coeffs == Popped
           usages == props.usages
           indices == {i \in DOMAIN coeffs : coeffs[i] # 0}
       IN  /\ fixedPrice = Last(props.coeffs)
           /\ indices \subseteq DOMAIN usages
           /\ priceFor = {<<usages[i], coeffs[i]>> : i \in
                 {j \in indices : \A k \in indices : k > j => usages[k] # usages[j]}}
           /\ Len(usages) <= Len(coeffs) + 1

\* Prices are read from properties that name the linear model; or that name none,
\* if the same ComLinear was loaded before with one, be it in vain.
PriceModelIsKnown ==
    loading = "returned" /\ outcome = "ok" /\ model = "ComLinear" =>
       "good" = IF props.priceModel = None THEN before["priceModel"] ELSE props.priceModel
=============================================================================
