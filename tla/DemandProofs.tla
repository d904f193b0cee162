---------------------------- MODULE DemandProofs ----------------------------
(***************************************************************************)
(* What loads of the property models read, and what a demand is, for any   *)
(* price lists, any counters and any number of constraints.                *)
(***************************************************************************)
EXTENDS Demand, SequenceTheorems, TLAPS

USE PropertiesAssumption, DemandAssumption

-----------------------------------------------------------------------------
(* The fields of the models. *)

LEMMA FieldKeys ==
  ASSUME NEW m \in Models
  PROVE  /\ Len(Fields(m)) \in Nat
         /\ \A i \in 1..Len(Fields(m)) : Fields(m)[i] \in FieldsOf(m) /\ Fields(m)[i].key \in Keys
<1>1. Len(Fields(m)) \in Nat /\ DOMAIN Fields(m) = 1..Len(Fields(m))
  <2>1. CASE m = "NodeInfo"
    BY <2>1 DEF Fields
  <2>2. CASE m = "Activity"
    BY <2>2 DEF Fields
  <2>3. CASE m = "ComLinear"
    BY <2>3 DEF Fields
  <2>4. CASE m = "VMRequest"
    BY <2>4 DEF Fields
  <2> QED
    BY <2>1, <2>2, <2>3, <2>4 DEF Models
<1>2. ASSUME NEW i \in 1..Len(Fields(m)) PROVE Fields(m)[i] \in FieldsOf(m)
  BY <1>1 DEF FieldsOf, ToSet
<1>3. ASSUME NEW f \in FieldsOf(m) PROVE f.key \in Keys
  BY DEF Keys
<1> QED
  BY <1>1, <1>2, <1>3

\* The fields that the proofs are about.
LEMMA LinearFields ==
  /\ Len(Fields("ComLinear")) = 2
  /\ Fields("ComLinear")[1] = Field("scheme", "enum", TRUE, TRUE)
  /\ Fields("ComLinear")[2] = Field("priceModel", "enum", TRUE, TRUE)
  BY DEF Fields

LEMMA VMFields ==
  /\ Len(Fields("VMRequest")) = 2
  /\ Fields("VMRequest")[1] = Field("packageUrl", "string", FALSE, TRUE)
  /\ Fields("VMRequest")[2] = Field("packageFormat", "enum", FALSE, FALSE)
  BY DEF Fields

LEMMA FieldsAre ==
  ASSUME NEW m \in Models, NEW f \in FieldsOf(m)
  PROVE  \/ m = "NodeInfo" /\ f.key \in {"name", "subnet"}
         \/ m = "Activity" /\ f.key \in {"costCap", "costWarning", "timeoutSecs", "expiration", "multiActivity"}
         \/ m = "ComLinear" /\ f.key \in {"scheme", "priceModel"} /\ f.embedded
         \/ m = "VMRequest" /\ f.key = "packageUrl" /\ f.embedded
         \/ m = "VMRequest" /\ f.key = "packageFormat" /\ ~f.embedded
<1>1. PICK i \in DOMAIN Fields(m) : f = Fields(m)[i]
  BY DEF FieldsOf, ToSet
<1>2. CASE m = "NodeInfo"
  <2>1. Fields(m) = << Field("name", "string", TRUE, FALSE), Field("subnet", "string", TRUE, FALSE) >>
    BY <1>2 DEF Fields
  <2>2. i \in 1..2
    BY <1>1, <2>1
  <2> QED
    BY <1>1, <1>2, <2>1, <2>2 DEF Field
<1>3. CASE m = "Activity"
  <2>1. Fields(m) = << Field("costCap", "struct", TRUE, FALSE), Field("costWarning", "struct", TRUE, FALSE),
              Field("timeoutSecs", "float", TRUE, FALSE), Field("expiration", "struct", TRUE, FALSE),
              Field("multiActivity", "bool", TRUE, FALSE) >>
    BY <1>3 DEF Fields
  <2>2. i \in 1..5
    BY <1>1, <2>1
  <2> QED
    BY <1>1, <1>3, <2>1, <2>2 DEF Field
<1>4. CASE m = "ComLinear"
  <2>1. i \in 1..2
    BY <1>1, <1>4 DEF Fields
  <2> QED
    BY <1>1, <1>4, <2>1, LinearFields DEF Field
<1>5. CASE m = "VMRequest"
  <2>1. i \in 1..2
    BY <1>1, <1>5 DEF Fields
  <2> QED
    BY <1>1, <1>5, <2>1, VMFields DEF Field
<1> QED
  BY <1>2, <1>3, <1>4, <1>5 DEF Models

LEMMA KeysAre ==
  /\ {"scheme", "priceModel", "packageUrl", "packageFormat"} \subseteq Keys
  /\ "coeffs" \notin Keys /\ "usages" \notin Keys
<1>1. ASSUME NEW m \in Models, NEW i \in 1..Len(Fields(m)) PROVE Fields(m)[i].key \in Keys
  BY FieldKeys
<1>2. "ComLinear" \in Models /\ "VMRequest" \in Models
  BY DEF Models
<1>3. {"scheme", "priceModel"} \subseteq Keys
  BY <1>1, <1>2, LinearFields DEF Field
<1>4. {"packageUrl", "packageFormat"} \subseteq Keys
  BY <1>1, <1>2, VMFields DEF Field
<1>5. ASSUME NEW k \in Keys PROVE k # "coeffs" /\ k # "usages"
  <2>1. PICK m \in Models : \E f \in FieldsOf(m) : f.key = k
    BY DEF Keys
  <2> QED
    BY <2>1, FieldsAre
<1> QED
  BY <1>3, <1>4, <1>5

\* What Add does not see: the fields of embedded structs, and what is no field.
Unseen == {"packageUrl", "scheme", "priceModel", "coeffs", "usages"}

LEMMA AddSees ==
  /\ \A m \in Models : \A f \in OwnFields(m) : f.key \notin Unseen
  /\ \E f \in OwnFields("VMRequest") : f.key = "packageFormat"
<1>1. ASSUME NEW m \in Models, NEW f \in OwnFields(m) PROVE f.key \notin Unseen
  <2>1. f \in FieldsOf(m) /\ ~f.embedded
    BY DEF OwnFields
  <2> QED
    BY <2>1, FieldsAre DEF Unseen
<1>2. Fields("VMRequest")[2] \in FieldsOf("VMRequest")
  BY FieldKeys, VMFields DEF Models
<1> QED
  BY <1>1, <1>2, VMFields DEF OwnFields, Field

-----------------------------------------------------------------------------
(* The invariant. *)

AllKeys == Keys \cup {"coeffs", "usages"}

IsProps(p) ==
    /\ DOMAIN p = AllKeys
    /\ \A k \in Keys : p[k] \in Scalars \cup {None}
    /\ p["coeffs"] \in Coeffs \cup {None, Text, Number}
    /\ p["usages"] \in Usages \cup {None, Text, Number}

Places == {"no", "fields", "mapping", "prices", "returned"}
Prices == Counters \X Int
Rules == {[names |-> {"own"}, open |-> FALSE], VmConstraint}

ModelsOK ==
    /\ values \in [Keys -> Scalars] /\ before \in [Keys -> Scalars]
    /\ fixedPrice \in Int \cup {None} /\ priceFor \subseteq Prices

LoadOK ==
    /\ loading \in Places /\ at \in Nat /\ outcome \in Outcomes \cup {None}
    /\ prices \subseteq Prices
    /\ loading # "no" => model \in Models /\ IsProps(props) /\ at > 0

BuilderOK ==
    /\ IsProps(demand)
    /\ constraints \in Seq(Rules) /\ Len(constraints) <= MaxConstraints
    /\ added \subseteq Models
    /\ decorated \in BOOLEAN /\ ownLoad \in BOOLEAN

TypeOK == ModelsOK /\ LoadOK /\ BuilderOK

\* What Add does not see stays out of the demand.
UnseenOK == \A k \in Unseen : demand[k] = None

DecoratedOK ==
    decorated => /\ demand["packageFormat"] # None
                 /\ \E i \in 1..Len(constraints) : constraints[i] = VmConstraint

\* A load of the demand itself has it before it, and does not get far.
OwnOK ==
    ownLoad /\ loading # "no" =>
       /\ props = demand
       /\ model = "VMRequest" => (loading = "fields" /\ at = 1) \/ loading = "returned"
       /\ loading # "prices"
       /\ loading = "returned" => outcome # "ok"

\* What a load makes of a field.
Kept(k) == IF props[k] = None THEN before[k] ELSE props[k]

KeptOK ==
    loading # "no" /\ model = "ComLinear" =>
       /\ loading = "fields" =>
             values["priceModel"] = IF at > 2 THEN Kept("priceModel") ELSE before["priceModel"]
       /\ loading = "mapping" => values["priceModel"] = Kept("priceModel")
       /\ loading = "prices" => Kept("priceModel") = "good"

\* The coefficients among the first n of c that count, and the prices they give the
\* usages u: of each usage, the last one.
Indices(c, n) == {i \in 1..n : c[i] # 0}
Latest(u, c, n) == {j \in Indices(c, n) : \A k \in Indices(c, n) : k > j => u[k] # u[j]}
LastPrices(u, c, n) == {<<u[i], c[i]>> : i \in Latest(u, c, n)}

\* The lists that were not refused.
Accepted ==
    /\ model = "ComLinear"
    /\ props.coeffs \in Seq(Int \cup {Word}) /\ props.usages \in Seq(Counters)
    /\ props.coeffs # <<>> /\ Len(props.usages) <= Len(props.coeffs)
    /\ Last(props.coeffs) \in Int

\* The loop over them has come to `at`.
ListsOK ==
    loading = "prices" =>
       /\ Accepted
       /\ at <= Len(Popped) + 1
       /\ \A i \in 1..at - 1 : Popped[i] \in Int
       /\ Indices(Popped, at - 1) \subseteq 1..Len(props.usages)
       /\ prices = LastPrices(props.usages, Popped, at - 1)

IInv ==
    /\ TypeOK /\ UnseenOK /\ DecoratedOK /\ OwnOK /\ KeptOK /\ ListsOK
    /\ PricesAreRead /\ PriceModelIsKnown

-----------------------------------------------------------------------------
LEMMA NoPropsAreProps == IsProps(NoProps) /\ \A k \in AllKeys : NoProps[k] = None
  BY DEF IsProps, NoProps, AllKeys

LEMMA OffersAreProps == \A p \in Offers : IsProps(p)
<1> TAKE p \in Offers
<1>1. PICK s \in {None, "good", "wrong"}, m \in {None, "good", "bad"},
           c \in Coeffs \cup {None, Text, Number}, u \in Usages \cup {None, Text, Number} :
           p = Offer(s, m, c, u)
  BY DEF Offers
<1>2. DOMAIN p = AllKeys
  BY <1>1 DEF Offer, NoProps, AllKeys
<1>3. p["coeffs"] = c /\ p["usages"] = u
  BY <1>1 DEF Offer, NoProps
<1>4. ASSUME NEW k \in Keys PROVE p[k] \in {None, s, m}
  BY <1>1, KeysAre DEF Offer, NoProps
<1> QED
  BY <1>2, <1>3, <1>4 DEF IsProps, Scalars

LEMMA InitIInv == Init => IInv
<1> SUFFICES ASSUME Init PROVE IInv
  OBVIOUS
<1> USE DEF Init, LoadInit
<1>1. TypeOK
  <2>1. Fresh \in [Keys -> Scalars]
    BY DEF Fresh, Scalars
  <2>2. <<>> \in Seq(Rules) /\ Len(<<>>) = 0
    OBVIOUS
  <2>3. ModelsOK
    BY <2>1 DEF ModelsOK
  <2>4. LoadOK
    BY DEF LoadOK, Places
  <2>5. BuilderOK
    <3>1. IsProps(demand)
      BY NoPropsAreProps
    <3>2. constraints \in Seq(Rules) /\ Len(constraints) <= MaxConstraints
      BY <2>2
    <3> QED
      BY <3>1, <3>2 DEF BuilderOK
  <2> QED
    BY <2>3, <2>4, <2>5 DEF TypeOK
<1>2. UnseenOK
  BY NoPropsAreProps, KeysAre DEF UnseenOK, Unseen, AllKeys
<1> QED
  BY <1>1, <1>2 DEF IInv, DecoratedOK, OwnOK, KeptOK, ListsOK, PricesAreRead, PriceModelIsKnown

-----------------------------------------------------------------------------
(* Building a demand. *)

\* What Add puts into the demand.
LEMMA ExtendedDemand ==
  ASSUME IInv, NEW m \in Models, NEW given, demand' = Extended(m, given)
  PROVE  /\ IsProps(demand') /\ UnseenOK'
         /\ demand["packageFormat"] # None => demand'["packageFormat"] # None
         /\ m = "VMRequest" => demand'["packageFormat"] # None
<1>1. IsProps(demand) /\ UnseenOK
  BY DEF IInv, TypeOK, BuilderOK
<1>2. DOMAIN demand' = AllKeys
  BY <1>1 DEF Extended, IsProps
<1>3. ASSUME NEW k \in AllKeys
      PROVE  demand'[k] = IF \E f \in OwnFields(m) : f.key = k
                          THEN IF k \in given THEN "good" ELSE "zero"
                          ELSE demand[k]
  BY <1>1 DEF Extended, IsProps
<1>4. ASSUME NEW k \in Unseen PROVE demand'[k] = demand[k] /\ k \in AllKeys
  BY <1>3, AddSees, KeysAre DEF Unseen, AllKeys
<1>5. IsProps(demand')
  <2>1. \A k \in Keys : demand'[k] \in Scalars \cup {None}
    BY <1>1, <1>3 DEF IsProps, AllKeys, Scalars
  <2>2. demand'["coeffs"] = demand["coeffs"] /\ demand'["usages"] = demand["usages"]
    BY <1>4 DEF Unseen
  <2> QED
    BY <1>1, <1>2, <2>1, <2>2 DEF IsProps
<1>6. UnseenOK'
  BY <1>1, <1>4 DEF UnseenOK
<1>7. "packageFormat" \in AllKeys
  BY KeysAre DEF AllKeys
<1>8. "good" # None /\ "zero" # None
  BY DEF Scalars
<1>9. demand["packageFormat"] # None => demand'["packageFormat"] # None
  BY <1>3, <1>7, <1>8
<1>10. m = "VMRequest" => demand'["packageFormat"] # None
  BY <1>3, <1>7, <1>8, AddSees
<1> QED
  BY <1>5, <1>6, <1>9, <1>10

\* A step outside a load, which leaves the models as they are, has only the demand to
\* care for.
LEMMA BuildingStep ==
  ASSUME IInv, loading = "no", UNCHANGED <<ownLoad, loadVars>>,
         BuilderOK', UnseenOK', DecoratedOK'
  PROVE  IInv'
<1>1. UNCHANGED <<values, fixedPrice, priceFor, props, model, at, loading, prices, before, outcome>>
  BY DEF loadVars
<1>2. ModelsOK' /\ LoadOK'
  BY <1>1 DEF IInv, TypeOK, ModelsOK, LoadOK
<1>3. loading' = "no"
  BY <1>1
<1>4. OwnOK' /\ KeptOK' /\ ListsOK' /\ PricesAreRead' /\ PriceModelIsKnown'
  BY <1>3 DEF OwnOK, KeptOK, ListsOK, PricesAreRead, PriceModelIsKnown
<1> QED
  BY <1>2, <1>4 DEF IInv, TypeOK

LEMMA Added ==
  ASSUME IInv, NEW m \in Models, NEW given, Add(m, given)
  PROVE  IInv'
<1>1. /\ loading = "no" /\ demand' = Extended(m, given) /\ added' = added \cup {m}
      /\ UNCHANGED <<constraints, decorated, ownLoad, loadVars>>
  BY DEF Add, Building
<1>2. /\ IsProps(demand') /\ UnseenOK'
      /\ demand["packageFormat"] # None => demand'["packageFormat"] # None
  BY <1>1, ExtendedDemand
<1>3. BuilderOK'
  BY <1>1, <1>2 DEF IInv, TypeOK, BuilderOK
<1>4. DecoratedOK'
  BY <1>1, <1>2 DEF IInv, DecoratedOK
<1> QED
  BY <1>1, <1>2, <1>3, <1>4, BuildingStep

LEMMA Ensured ==
  ASSUME IInv, NEW c \in Rules, Ensure(c)
  PROVE  /\ constraints' \in Seq(Rules) /\ Len(constraints') <= MaxConstraints
         /\ \A i \in 1..Len(constraints) : i \in 1..Len(constraints') /\ constraints'[i] = constraints[i]
         /\ \E i \in 1..Len(constraints') : constraints'[i] = c
<1>1. constraints \in Seq(Rules) /\ constraints' = Append(constraints, c) /\ Len(constraints) < MaxConstraints
  BY DEF IInv, TypeOK, BuilderOK, Ensure
<1>2. /\ constraints' \in Seq(Rules) /\ Len(constraints') = Len(constraints) + 1
      /\ \A i \in 1..Len(constraints) : constraints'[i] = constraints[i]
      /\ constraints'[Len(constraints) + 1] = c
  BY <1>1, AppendProperties
<1>3. Len(constraints) \in Nat
  BY <1>1
<1>4. Len(constraints') \in 1..Len(constraints')
  BY <1>2, <1>3
<1> QED
  BY <1>1, <1>2, <1>3, <1>4

LEMMA EnsuredOwn == ASSUME IInv, EnsureOwn PROVE IInv'
<1>1. /\ loading = "no" /\ Ensure([names |-> {"own"}, open |-> FALSE])
      /\ UNCHANGED <<demand, added, decorated, ownLoad, loadVars>>
  BY DEF EnsureOwn, Building
<1>2. [names |-> {"own"}, open |-> FALSE] \in Rules
  BY DEF Rules
<1>3. /\ constraints' \in Seq(Rules) /\ Len(constraints') <= MaxConstraints
      /\ \A i \in 1..Len(constraints) : i \in 1..Len(constraints') /\ constraints'[i] = constraints[i]
  BY <1>1, <1>2, Ensured
<1>4. BuilderOK' /\ UnseenOK'
  BY <1>1, <1>3 DEF IInv, TypeOK, BuilderOK, IsProps, UnseenOK
<1>5. DecoratedOK'
  BY <1>1, <1>3 DEF IInv, DecoratedOK
<1> QED
  BY <1>1, <1>4, <1>5, BuildingStep

LEMMA Decorated == ASSUME IInv, DecorateDemand PROVE IInv'
<1> DEFINE given == {"packageUrl", "packageFormat"}
<1>1. /\ loading = "no" /\ Ensure(VmConstraint) /\ demand' = Extended("VMRequest", given)
      /\ added' = added \cup {"VMRequest"} /\ decorated' = TRUE
      /\ UNCHANGED <<ownLoad, loadVars>>
  BY DEF DecorateDemand, Building
<1>2. VmConstraint \in Rules /\ "VMRequest" \in Models
  BY DEF Rules, Models
<1> HIDE DEF given
<1>3. IsProps(demand') /\ UnseenOK' /\ demand'["packageFormat"] # None
  BY <1>1, <1>2, ExtendedDemand
<1>4. /\ constraints' \in Seq(Rules) /\ Len(constraints') <= MaxConstraints
      /\ \E i \in 1..Len(constraints') : constraints'[i] = VmConstraint
  BY <1>1, <1>2, Ensured
<1>5. BuilderOK'
  BY <1>1, <1>2, <1>3, <1>4 DEF IInv, TypeOK, BuilderOK
<1>6. DecoratedOK'
  BY <1>3, <1>4 DEF DecoratedOK
<1> QED
  BY <1>1, <1>3, <1>5, <1>6, BuildingStep

-----------------------------------------------------------------------------
(* Loading: the fields. *)

\* Nothing that a load does concerns the demand.
LEMMA BuilderStays ==
  ASSUME IInv, UNCHANGED builderVars, ownLoad' \in BOOLEAN
  PROVE  BuilderOK' /\ UnseenOK' /\ DecoratedOK'
  BY DEF IInv, TypeOK, BuilderOK, IsProps, UnseenOK, DecoratedOK, builderVars

LEMMA Begun ==
  ASSUME IInv, NEW m \in Models, NEW p, IsProps(p), FromProperties(m, p),
         UNCHANGED builderVars, ownLoad' \in BOOLEAN, ownLoad' => p = demand
  PROVE  IInv'
<1>1. /\ loading' = "fields" /\ model' = m /\ props' = p /\ at' = 1 /\ before' = values
      /\ UNCHANGED <<values, fixedPrice, priceFor, prices, outcome>>
  BY DEF FromProperties
<1>2. BuilderOK' /\ UnseenOK' /\ DecoratedOK'
  BY BuilderStays
<1>3. ModelsOK'
  BY <1>1 DEF IInv, TypeOK, ModelsOK
<1>4. LoadOK'
  <2>1. IsProps(props)'
    BY <1>1 DEF IsProps
  <2> QED
    BY <1>1, <2>1 DEF IInv, TypeOK, LoadOK, Places
<1>5. OwnOK' /\ KeptOK' /\ ListsOK' /\ PricesAreRead' /\ PriceModelIsKnown'
  BY <1>1 DEF OwnOK, KeptOK, ListsOK, PricesAreRead, PriceModelIsKnown, builderVars
<1> QED
  BY <1>2, <1>3, <1>4, <1>5 DEF IInv, TypeOK

\* A load that returns an error may leave anything in the fields.
LEMMA Failed ==
  ASSUME IInv, loading # "no", UNCHANGED <<builderVars, ownLoad>>,
         NEW result \in Outcomes \ {"ok"}, Return(result),
         ModelsOK', UNCHANGED <<at, prices>>
  PROVE  IInv'
<1>1. /\ loading' = "returned" /\ outcome' = result
      /\ UNCHANGED <<props, model, before, at, prices>>
  BY DEF Return
<1>2. BuilderOK' /\ UnseenOK' /\ DecoratedOK'
  BY BuilderStays DEF IInv, TypeOK, BuilderOK
<1>3. LoadOK'
  BY <1>1 DEF IInv, TypeOK, LoadOK, Places, IsProps
<1>4. OwnOK'
  BY <1>1 DEF IInv, OwnOK, builderVars
<1>5. KeptOK' /\ ListsOK' /\ PricesAreRead' /\ PriceModelIsKnown'
  BY <1>1 DEF KeptOK, ListsOK, PricesAreRead, PriceModelIsKnown
<1> QED
  BY <1>2, <1>3, <1>4, <1>5 DEF IInv, TypeOK

LEMMA Left == ASSUME IInv, Leave, UNCHANGED <<builderVars, ownLoad>> PROVE IInv'
<1>1. /\ loading' = "no" /\ at' = 0 /\ prices' = {}
      /\ UNCHANGED <<values, fixedPrice, priceFor, before, outcome>>
  BY DEF Leave
<1>2. BuilderOK' /\ UnseenOK' /\ DecoratedOK'
  BY BuilderStays DEF IInv, TypeOK, BuilderOK
<1>3. ModelsOK' /\ LoadOK'
  BY <1>1 DEF IInv, TypeOK, ModelsOK, LoadOK, Places
<1>4. OwnOK' /\ KeptOK' /\ ListsOK' /\ PricesAreRead' /\ PriceModelIsKnown'
  BY <1>1 DEF OwnOK, KeptOK, ListsOK, PricesAreRead, PriceModelIsKnown
<1> QED
  BY <1>2, <1>3, <1>4 DEF IInv, TypeOK

\* A field that is skipped or set: the load goes on with the next one.
LEMMA NextField ==
  ASSUME IInv, UNCHANGED <<builderVars, ownLoad>>,
         loading = "fields", at <= Len(Fields(model)),
         UNCHANGED <<fixedPrice, priceFor, props, model, prices, before, outcome, loading>>,
         at' = at + 1, values' \in [Keys -> Scalars],
         model = "VMRequest" /\ at = 1 => props["packageUrl"] # None,
         model = "ComLinear" =>
            values'["priceModel"] = IF at = 2 THEN Kept("priceModel") ELSE values["priceModel"]
  PROVE  IInv'
<1>1. BuilderOK' /\ UnseenOK' /\ DecoratedOK'
  BY BuilderStays DEF IInv, TypeOK, BuilderOK
<1>2. ModelsOK'
  BY DEF IInv, TypeOK, ModelsOK
<1>3. LoadOK'
  BY DEF IInv, TypeOK, LoadOK, Places, IsProps
<1>4. OwnOK'
  <2>1. ownLoad => model # "VMRequest"
    BY DEF IInv, OwnOK, UnseenOK, Unseen
  <2> QED
    BY <2>1 DEF IInv, OwnOK, builderVars
<1>5. KeptOK'
  <2> SUFFICES ASSUME model = "ComLinear"
               PROVE  values'["priceModel"] =
                         IF at + 1 > 2 THEN Kept("priceModel") ELSE before["priceModel"]
    BY DEF KeptOK, Kept
  <2>1. at \in {1, 2}
    <3>1. at \in Nat /\ at > 0
      BY DEF IInv, TypeOK, LoadOK
    <3>2. at <= 2
      BY LinearFields
    <3> QED
      BY <3>1, <3>2
  <2>2. values["priceModel"] = before["priceModel"]
    BY <2>1 DEF IInv, KeptOK
  <2> QED
    BY <2>1, <2>2
<1>6. ListsOK' /\ PricesAreRead' /\ PriceModelIsKnown'
  BY DEF ListsOK, PricesAreRead, PriceModelIsKnown
<1> QED
  BY <1>1, <1>2, <1>3, <1>4, <1>5, <1>6 DEF IInv, TypeOK

LEMMA FieldLoaded == ASSUME IInv, Load, UNCHANGED <<builderVars, ownLoad>> PROVE IInv'
<1> DEFINE f == Fields(model)[at]
<1>1. /\ loading = "fields" /\ at <= Len(Fields(model)) /\ at \in Nat \ {0} /\ model \in Models
      /\ UNCHANGED <<fixedPrice, priceFor, props, model, prices, before>>
  BY DEF IInv, TypeOK, LoadOK, Load
<1>2. at \in 1..Len(Fields(model)) /\ f.key \in Keys
  BY <1>1, FieldKeys
<1>3. /\ model = "VMRequest" /\ at = 1 => f.key = "packageUrl" /\ f.kind = "string" /\ ~f.optional
      /\ model = "ComLinear" => /\ at \in {1, 2} /\ f.kind = "enum"
                                /\ f.key = "priceModel" <=> at = 2
  BY <1>1, LinearFields, VMFields DEF Field
<1> HIDE DEF f
<1>4. values \in [Keys -> Scalars] /\ props[f.key] \in Scalars \cup {None}
  BY <1>1, <1>2 DEF IInv, TypeOK, ModelsOK, LoadOK, IsProps
<1>5. ASSUME Skip, f.kind = "struct" \/ (props[f.key] = None /\ f.optional)
      PROVE  IInv'
  <2>1. at' = at + 1 /\ UNCHANGED <<values, outcome, loading>>
    BY <1>5 DEF Skip
  <2>2. ~(model = "VMRequest" /\ at = 1)
    BY <1>3, <1>5
  <2>3. model = "ComLinear" /\ at = 2 => values["priceModel"] = Kept("priceModel")
    <3> SUFFICES ASSUME model = "ComLinear", at = 2 PROVE values["priceModel"] = Kept("priceModel")
      OBVIOUS
    <3>1. props["priceModel"] = None
      BY <1>3, <1>5
    <3>2. values["priceModel"] = before["priceModel"]
      BY <1>1 DEF IInv, KeptOK
    <3> QED
      BY <3>1, <3>2 DEF Kept
  <2> QED
    BY <1>1, <1>4, <2>1, <2>2, <2>3, NextField
<1>6. ASSUME props[f.key] = None, Return("missing"), UNCHANGED <<values, at>>
      PROVE  IInv'
  <2>1. ModelsOK'
    BY <1>1, <1>6 DEF IInv, TypeOK, ModelsOK
  <2> QED
    BY <1>1, <1>6, <2>1, Failed DEF Outcomes
<1>7. ASSUME props[f.key] # None, SetField(f, props[f.key])
      PROVE  IInv'
  <2>1. props[f.key] \in Scalars
    BY <1>4, <1>7
  <2>2. CASE Return("panic") /\ UNCHANGED <<values, at>>
    <3>1. ModelsOK'
      BY <1>1, <2>2 DEF IInv, TypeOK, ModelsOK
    <3> QED
      BY <1>1, <2>2, <3>1, Failed DEF Outcomes
  <2>3. CASE /\ values' = [values EXCEPT ![f.key] = props[f.key]]
             /\ Return("invalid") /\ UNCHANGED at
    <3>1. ModelsOK'
      BY <1>1, <1>4, <2>1, <2>3 DEF IInv, TypeOK, ModelsOK, Return
    <3> QED
      BY <1>1, <2>3, <3>1, Failed DEF Outcomes
  <2>4. CASE /\ values' = [values EXCEPT ![f.key] = props[f.key]]
             /\ at' = at + 1 /\ UNCHANGED <<outcome, loading>>
    <3>1. values' \in [Keys -> Scalars]
      BY <1>4, <2>1, <2>4
    <3>2. model = "VMRequest" /\ at = 1 => props["packageUrl"] # None
      BY <1>3, <1>7
    <3>3. ASSUME model = "ComLinear"
          PROVE  values'["priceModel"] = IF at = 2 THEN Kept("priceModel") ELSE values["priceModel"]
      <4>1. CASE at = 2
        <5>1. f.key = "priceModel"
          BY <1>3, <3>3, <4>1
        <5> QED
          BY <1>2, <1>4, <1>7, <2>4, <4>1, <5>1 DEF Kept
      <4>2. CASE at # 2
        <5>1. f.key # "priceModel"
          BY <1>3, <3>3, <4>2
        <5> QED
          BY <1>4, <2>4, <4>2, <5>1, KeysAre
      <4> QED
        BY <4>1, <4>2
    <3> QED
      BY <1>1, <2>4, <3>1, <3>2, <3>3, NextField
  <2> QED
    BY <1>7, <2>2, <2>3, <2>4 DEF SetField
<1> QED
  BY <1>5, <1>6, <1>7 DEF Load, f

LEMMA AllLoaded == ASSUME IInv, Loaded, UNCHANGED <<builderVars, ownLoad>> PROVE IInv'
<1>1. /\ loading = "fields" /\ at > Len(Fields(model)) /\ loading' = "mapping"
      /\ UNCHANGED <<values, fixedPrice, priceFor, props, model, at, prices, before, outcome>>
  BY DEF Loaded
<1>2. BuilderOK' /\ UnseenOK' /\ DecoratedOK'
  BY BuilderStays DEF IInv, TypeOK, BuilderOK
<1>3. ModelsOK' /\ LoadOK'
  BY <1>1 DEF IInv, TypeOK, ModelsOK, LoadOK, Places, IsProps
<1>4. OwnOK'
  BY <1>1, VMFields DEF IInv, OwnOK, builderVars
<1>5. KeptOK'
  BY <1>1, LinearFields DEF IInv, KeptOK, Kept
<1>6. ListsOK' /\ PricesAreRead' /\ PriceModelIsKnown'
  BY <1>1 DEF ListsOK, PricesAreRead, PriceModelIsKnown
<1> QED
  BY <1>2, <1>3, <1>4, <1>5, <1>6 DEF IInv, TypeOK

LEMMA NothingMapped == ASSUME IInv, MapNothing, UNCHANGED <<builderVars, ownLoad>> PROVE IInv'
<1>1. /\ loading = "mapping" /\ model # "ComLinear"
      /\ Return(IF model = "VMRequest" THEN "ok" ELSE "panic")
      /\ UNCHANGED <<values, fixedPrice, priceFor, at, prices>>
  BY DEF MapNothing
<1>2. CASE model = "VMRequest"
  <2>1. /\ outcome' = "ok" /\ loading' = "returned"
        /\ UNCHANGED <<values, fixedPrice, priceFor, at, prices, props, model, before>>
    BY <1>1, <1>2 DEF Return
  <2>2. BuilderOK' /\ UnseenOK' /\ DecoratedOK'
    BY BuilderStays DEF IInv, TypeOK, BuilderOK
  <2>3. ModelsOK' /\ LoadOK'
    BY <1>1, <2>1 DEF IInv, TypeOK, ModelsOK, LoadOK, Places, Outcomes, IsProps
  <2>4. ~ownLoad
    BY <1>1, <1>2 DEF IInv, OwnOK
  <2>5. OwnOK' /\ KeptOK' /\ ListsOK' /\ PricesAreRead' /\ PriceModelIsKnown'
    BY <1>2, <2>1, <2>4 DEF OwnOK, KeptOK, ListsOK, PricesAreRead, PriceModelIsKnown
  <2> QED
    BY <2>2, <2>3, <2>5 DEF IInv, TypeOK
<1>3. CASE model # "VMRequest"
  <2>1. ModelsOK'
    BY <1>1 DEF IInv, TypeOK, ModelsOK, Return
  <2> QED
    BY <1>1, <1>3, <2>1, Failed DEF Outcomes
<1> QED
  BY <1>2, <1>3

-----------------------------------------------------------------------------
(* Loading: the prices. *)

\* A counter takes its latest coefficient: one more of them replaces the price of its
\* usage, unless it is zero.
LEMMA OnePriceMore ==
  ASSUME NEW u, NEW c, NEW n \in Nat \ {0}
  PROVE  /\ c[n] = 0 => Indices(c, n) = Indices(c, n - 1) /\ LastPrices(u, c, n) = LastPrices(u, c, n - 1)
         /\ c[n] # 0 => /\ Indices(c, n) = Indices(c, n - 1) \cup {n}
                            /\ LastPrices(u, c, n) =
                                  {p \in LastPrices(u, c, n - 1) : p[1] # u[n]}
                                  \cup {<<u[n], c[n]>>}
<1>1. 1..n = (1..n - 1) \cup {n} /\ n \notin 1..n - 1 /\ \A i \in 1..n - 1 : i < n
  OBVIOUS
<1>2. ASSUME c[n] = 0
      PROVE  Indices(c, n) = Indices(c, n - 1) /\ LastPrices(u, c, n) = LastPrices(u, c, n - 1)
  <2>1. Indices(c, n) = Indices(c, n - 1)
    BY <1>1, <1>2 DEF Indices
  <2> QED
    BY <2>1 DEF LastPrices, Latest
<1>3. ASSUME c[n] # 0
      PROVE  /\ Indices(c, n) = Indices(c, n - 1) \cup {n}
             /\ LastPrices(u, c, n) =
                   {p \in LastPrices(u, c, n - 1) : p[1] # u[n]} \cup {<<u[n], c[n]>>}
  <2>1. Indices(c, n) = Indices(c, n - 1) \cup {n}
    BY <1>1, <1>3 DEF Indices
  <2>2. \A i \in Indices(c, n - 1) : i \in Nat /\ i < n
    BY <1>1 DEF Indices
  <2>3. Latest(u, c, n) = {i \in Latest(u, c, n - 1) : u[i] # u[n]} \cup {n}
    <3>1. ASSUME NEW i \in Indices(c, n - 1)
          PROVE  i \in Latest(u, c, n) <=> i \in Latest(u, c, n - 1) /\ u[i] # u[n]
      BY <2>1, <2>2 DEF Latest
    <3>2. n \in Latest(u, c, n)
      BY <2>1, <2>2 DEF Latest
    <3>3. \A i \in Latest(u, c, n) : i \in Indices(c, n - 1) \/ i = n
      BY <2>1 DEF Latest
    <3>4. \A i \in Latest(u, c, n - 1) : i \in Indices(c, n - 1)
      BY DEF Latest
    <3> QED
      BY <3>1, <3>2, <3>3, <3>4
  <2>4. ASSUME NEW i PROVE <<u[i], c[i]>>[1] = u[i]
    OBVIOUS
  <2>5. {<<u[i], c[i]>> : i \in {j \in Latest(u, c, n - 1) : u[j] # u[n]}}
           = {p \in LastPrices(u, c, n - 1) : p[1] # u[n]}
    BY <2>4 DEF LastPrices
  <2> QED
    BY <2>1, <2>3, <2>5 DEF LastPrices
<1> QED
  BY <1>2, <1>3

LEMMA PoppedList ==
  ASSUME Accepted
  PROVE  /\ Len(Popped) \in Nat /\ DOMAIN Popped = 1..Len(Popped)
         /\ Len(Popped) + 1 = Len(props.coeffs)
         /\ \A i \in 1..Len(Popped) : Popped[i] \in Int \cup {Word}
         /\ Len(props.usages) \in Nat /\ DOMAIN props.usages = 1..Len(props.usages)
         /\ \A i \in 1..Len(props.usages) : props.usages[i] \in Counters
<1> DEFINE c == props.coeffs
<1>1. c \in Seq(Int \cup {Word}) /\ c # <<>> /\ props.usages \in Seq(Counters)
  BY DEF Accepted
<1>2. Len(c) \in Nat /\ Len(c) > 0
  BY <1>1
<1>3. Popped = SubSeq(c, 1, Len(c) - 1)
  BY DEF Popped, Front
<1>4. /\ Len(Popped) = Len(c) - 1
      /\ \A i \in 1..Len(Popped) : Popped[i] = c[i]
      /\ DOMAIN Popped = 1..Len(Popped)
  BY <1>1, <1>2, <1>3
<1>5. \A i \in 1..Len(c) : c[i] \in Int \cup {Word}
  BY <1>1
<1> QED
  BY <1>1, <1>2, <1>4, <1>5

\* Why lists are refused, and which ones are not.
LEMMA Refused ==
  /\ Refusal \in Outcomes \cup {None} /\ Refusal # "ok"
  /\ props.coeffs = None => Refusal # None
  /\ Refusal = None =>
        /\ Linear
        /\ props.coeffs \notin {None, Text, Number, <<>>} /\ props.usages \notin {None, Text, Number}
        /\ ~Short /\ Last(props.coeffs) # Word
<1>1. \A o \in Outcomes : o # None
  OBVIOUS
<1>2. "ok" # None
  BY <1>1 DEF Outcomes
<1> QED
  BY <1>1, <1>2 DEF Refusal, Outcomes

LEMMA NotRefused ==
  ASSUME IInv, loading = "mapping", model = "ComLinear", Refusal = None
  PROVE  Accepted /\ Kept("priceModel") = "good" /\ ~ownLoad
<1>1. IsProps(props) /\ values["priceModel"] = Kept("priceModel")
  BY DEF IInv, TypeOK, LoadOK, KeptOK
<1>2. props.coeffs \in Coeffs /\ props.usages \in Usages
  BY <1>1, Refused DEF IsProps
<1>3. props.coeffs \in Seq(Int \cup {Word}) /\ props.usages \in Seq(Counters) /\ props.coeffs # <<>>
  BY <1>2, Refused
<1>4. Len(props.usages) <= Len(props.coeffs)
  BY <1>3, Refused DEF Short
<1>5. Last(props.coeffs) \in Int
  <2>1. Last(props.coeffs) = props.coeffs[Len(props.coeffs)] /\ Len(props.coeffs) \in 1..Len(props.coeffs)
    BY <1>3 DEF Last
  <2> QED
    BY <1>3, <2>1, Refused
<1>6. Kept("priceModel") = "good"
  BY <1>1, Refused DEF Linear
<1>7. ~ownLoad
  BY Refused DEF IInv, OwnOK, UnseenOK, Unseen
<1> QED
  BY <1>3, <1>4, <1>5, <1>6, <1>7 DEF Accepted

LEMMA LinearMapped == ASSUME IInv, MapLinear, UNCHANGED <<builderVars, ownLoad>> PROVE IInv'
<1>1. /\ loading = "mapping" /\ model = "ComLinear"
      /\ UNCHANGED <<values, fixedPrice, priceFor>>
  BY DEF MapLinear
<1>2. CASE Refusal # None /\ Return(Refusal) /\ UNCHANGED <<at, prices>>
  <2>1. ModelsOK'
    BY <1>1, <1>2 DEF IInv, TypeOK, ModelsOK, Return
  <2>2. Refusal \in Outcomes \ {"ok"}
    BY <1>2, Refused
  <2> QED
    BY <1>1, <1>2, <2>1, <2>2, Failed
<1>3. CASE /\ Refusal = None
           /\ loading' = "prices" /\ at' = 1 /\ prices' = {}
           /\ UNCHANGED <<props, model, before, outcome>>
  <2>1. Accepted /\ Kept("priceModel") = "good" /\ ~ownLoad
    BY <1>1, <1>3, NotRefused
  <2>2. BuilderOK' /\ UnseenOK' /\ DecoratedOK'
    BY BuilderStays DEF IInv, TypeOK, BuilderOK
  <2>3. ModelsOK' /\ LoadOK'
    BY <1>1, <1>3 DEF IInv, TypeOK, ModelsOK, LoadOK, Places, IsProps
  <2>4. OwnOK' /\ KeptOK'
    BY <1>1, <1>3, <2>1 DEF OwnOK, KeptOK, Kept
  <2>5. ListsOK'
    <3>1. Accepted'
      BY <1>3, <2>1 DEF Accepted
    <3>2. Popped' = Popped /\ Len(Popped) \in Nat
      BY <1>3, <2>1, PoppedList DEF Popped
    <3>3. Indices(Popped', 0) = {} /\ LastPrices(props'.usages, Popped', 0) = {}
      BY DEF Indices, LastPrices, Latest
    <3> QED
      BY <1>3, <3>1, <3>2, <3>3 DEF ListsOK
  <2>6. PricesAreRead' /\ PriceModelIsKnown'
    BY <1>3 DEF PricesAreRead, PriceModelIsKnown
  <2> QED
    BY <2>2, <2>3, <2>4, <2>5, <2>6 DEF IInv, TypeOK
<1> QED
  BY <1>1, <1>2, <1>3 DEF MapLinear

\* The loop goes on with the next coefficient.
LEMMA NextPrice ==
  ASSUME IInv, UNCHANGED <<builderVars, ownLoad>>,
         loading = "prices", at <= Len(Popped), Popped[at] # Word,
         UNCHANGED <<values, fixedPrice, priceFor, props, model, before, outcome, loading>>,
         at' = at + 1,
         \/ Popped[at] = 0 /\ prices' = prices
         \/ /\ Popped[at] # 0 /\ at <= Len(props.usages)
            /\ prices' = Priced(props.usages[at], Popped[at])
  PROVE  IInv'
<1>1. /\ Accepted /\ at \in Nat \ {0} /\ prices \subseteq Prices
      /\ \A i \in 1..at - 1 : Popped[i] \in Int
      /\ Indices(Popped, at - 1) \subseteq 1..Len(props.usages)
      /\ prices = LastPrices(props.usages, Popped, at - 1)
  BY DEF IInv, TypeOK, LoadOK, ListsOK
<1>2. Popped' = Popped /\ Accepted'
  BY <1>1 DEF Popped, Accepted
<1>3. /\ Len(Popped) \in Nat /\ Popped[at] \in Int
      /\ Len(props.usages) \in Nat
      /\ \A i \in 1..Len(props.usages) : props.usages[i] \in Counters
  BY <1>1, PoppedList
<1>4. /\ Indices(Popped, at) \subseteq 1..Len(props.usages)
      /\ prices' = LastPrices(props.usages, Popped, at)
      /\ prices' \subseteq Prices
  <2>1. CASE Popped[at] = 0 /\ prices' = prices
    <3>1. /\ Indices(Popped, at) = Indices(Popped, at - 1)
          /\ LastPrices(props.usages, Popped, at) = LastPrices(props.usages, Popped, at - 1)
      BY <1>1, <2>1, OnePriceMore
    <3> QED
      BY <1>1, <2>1, <3>1
  <2>2. CASE /\ Popped[at] # 0 /\ at <= Len(props.usages)
             /\ prices' = Priced(props.usages[at], Popped[at])
    <3>1. /\ Indices(Popped, at) = Indices(Popped, at - 1) \cup {at}
          /\ LastPrices(props.usages, Popped, at) =
                {p \in LastPrices(props.usages, Popped, at - 1) : p[1] # props.usages[at]}
                \cup {<<props.usages[at], Popped[at]>>}
      BY <1>1, <2>2, OnePriceMore
    <3>2. at \in 1..Len(props.usages)
      BY <1>1, <1>3, <2>2
    <3>3. <<props.usages[at], Popped[at]>> \in Prices
      BY <1>3, <3>2 DEF Prices
    <3>4. prices' = {p \in prices : p[1] # props.usages[at]} \cup {<<props.usages[at], Popped[at]>>}
      BY <2>2 DEF Priced
    <3> QED
      BY <1>1, <3>1, <3>2, <3>3, <3>4
  <2> QED
    BY <2>1, <2>2
<1>5. BuilderOK' /\ UnseenOK' /\ DecoratedOK'
  BY BuilderStays DEF IInv, TypeOK, BuilderOK
<1>6. ModelsOK'
  BY DEF IInv, TypeOK, ModelsOK
<1>7. LoadOK'
  BY <1>4 DEF IInv, TypeOK, LoadOK, Places, IsProps
<1>8. OwnOK' /\ KeptOK'
  BY DEF IInv, OwnOK, KeptOK, Kept, builderVars
<1>9. ListsOK'
  <2>1. at' <= Len(Popped) + 1 /\ at' - 1 = at
    BY <1>1, <1>3
  <2>2. \A i \in 1..at : Popped[i] \in Int
    BY <1>1, <1>3
  <2> QED
    BY <1>2, <1>4, <2>1, <2>2 DEF ListsOK
<1>10. PricesAreRead' /\ PriceModelIsKnown'
  BY DEF PricesAreRead, PriceModelIsKnown
<1> QED
  BY <1>5, <1>6, <1>7, <1>8, <1>9, <1>10 DEF IInv, TypeOK

LEMMA OnePriced == ASSUME IInv, PriceNext, UNCHANGED <<builderVars, ownLoad>> PROVE IInv'
<1>1. /\ loading = "prices" /\ at <= Len(Popped)
      /\ UNCHANGED <<values, fixedPrice, priceFor>>
  BY DEF PriceNext
<1>2. ASSUME NEW result \in {"word", "short"}, Return(result), UNCHANGED <<at, prices>>
      PROVE  IInv'
  <2>1. ModelsOK'
    BY <1>1, <1>2 DEF IInv, TypeOK, ModelsOK, Return
  <2> QED
    BY <1>1, <1>2, <2>1, Failed DEF Outcomes
<1>3. CASE /\ Popped[at] = 0 /\ at' = at + 1
           /\ UNCHANGED <<prices, outcome, loading, props, model, before>>
  <2>1. Popped[at] # Word
    BY <1>3
  <2> QED
    BY <1>1, <1>3, <2>1, NextPrice
<1>4. CASE /\ Popped[at] \notin {Word, 0} /\ at <= Len(props.usages)
           /\ prices' = Priced(props.usages[at], Popped[at])
           /\ at' = at + 1
           /\ UNCHANGED <<outcome, loading, props, model, before>>
  BY <1>1, <1>4, NextPrice
<1> QED
  BY <1>2, <1>3, <1>4 DEF PriceNext

LEMMA PricesSet == ASSUME IInv, SetPrices, UNCHANGED <<builderVars, ownLoad>> PROVE IInv'
<1>1. /\ loading = "prices" /\ at > Len(Popped)
      /\ fixedPrice' = Last(props.coeffs) /\ priceFor' = prices
      /\ outcome' = "ok" /\ loading' = "returned"
      /\ UNCHANGED <<values, at, prices, props, model, before>>
  BY DEF SetPrices, Return
<1>2. /\ Accepted /\ at \in Nat /\ prices \subseteq Prices /\ at <= Len(Popped) + 1
      /\ Indices(Popped, at - 1) \subseteq 1..Len(props.usages)
      /\ prices = LastPrices(props.usages, Popped, at - 1)
      /\ Kept("priceModel") = "good" /\ ~ownLoad /\ model = "ComLinear"
  BY <1>1 DEF IInv, TypeOK, LoadOK, ListsOK, KeptOK, OwnOK, Accepted
<1>3. /\ Len(Popped) \in Nat /\ DOMAIN Popped = 1..Len(Popped)
      /\ Len(Popped) + 1 = Len(props.coeffs)
      /\ DOMAIN props.usages = 1..Len(props.usages)
  BY <1>2, PoppedList
<1>4. at - 1 = Len(Popped)
  BY <1>1, <1>2, <1>3
<1>5. BuilderOK' /\ UnseenOK' /\ DecoratedOK'
  BY BuilderStays DEF IInv, TypeOK, BuilderOK
<1>6. ModelsOK'
  BY <1>1, <1>2 DEF IInv, TypeOK, ModelsOK, Accepted
<1>7. LoadOK'
  BY <1>1, <1>2 DEF IInv, TypeOK, LoadOK, Places, Outcomes, IsProps
<1>8. OwnOK' /\ KeptOK' /\ ListsOK'
  BY <1>1, <1>2 DEF OwnOK, KeptOK, ListsOK
<1>9. PricesAreRead'
  <2> DEFINE indices == {i \in DOMAIN Popped : Popped[i] # 0}
  <2>1. indices = Indices(Popped, at - 1)
    BY <1>3, <1>4 DEF Indices
  <2>2. indices \subseteq DOMAIN props.usages
    BY <1>2, <1>3, <2>1
  <2>3. prices = {<<props.usages[i], Popped[i]>> : i \in
                    {j \in indices : \A k \in indices : k > j => props.usages[k] # props.usages[j]}}
    BY <1>2, <2>1 DEF LastPrices, Latest
  <2>4. Len(props.usages) <= Len(Popped) + 1
    BY <1>2, <1>3 DEF Accepted
  <2>5. Popped' = Popped
    BY <1>1 DEF Popped
  <2> QED
    BY <1>1, <2>2, <2>3, <2>4, <2>5 DEF PricesAreRead
<1>10. PriceModelIsKnown'
  BY <1>1, <1>2 DEF PriceModelIsKnown, Kept
<1> QED
  BY <1>5, <1>6, <1>7, <1>8, <1>9, <1>10 DEF IInv, TypeOK

-----------------------------------------------------------------------------
LEMMA NextIInv == IInv /\ [Next]_vars => IInv'
<1> SUFFICES ASSUME IInv, [Next]_vars PROVE IInv'
  OBVIOUS
<1>1. ASSUME NEW m \in Models, NEW given, Add(m, given) PROVE IInv'
  BY <1>1, Added
<1>2. CASE LoadOffer
  <2>1. PICK p \in Offers : FromProperties("ComLinear", p)
    BY <1>2 DEF LoadOffer
  <2>2. ownLoad' = FALSE /\ UNCHANGED builderVars /\ "ComLinear" \in Models
    BY <1>2 DEF LoadOffer, Models
  <2> QED
    BY <2>1, <2>2, OffersAreProps, Begun
<1>3. CASE LoadDemand
  <2>1. PICK m \in added : FromProperties(m, demand)
    BY <1>3 DEF LoadDemand
  <2>2. m \in Models /\ IsProps(demand)
    BY DEF IInv, TypeOK, BuilderOK
  <2>3. ownLoad' = TRUE /\ UNCHANGED builderVars
    BY <1>3 DEF LoadDemand
  <2> QED
    BY <2>1, <2>2, <2>3, Begun
<1>4. CASE Loading
  <2>1. LoadStep /\ UNCHANGED <<builderVars, ownLoad>>
    BY <1>4 DEF Loading
  <2> QED
    BY <2>1, Left, FieldLoaded, AllLoaded, NothingMapped, LinearMapped, OnePriced, PricesSet
       DEF LoadStep
<1>5. CASE UNCHANGED vars
  <2>1. UNCHANGED <<builderVars, ownLoad, loadVars>>
    BY <1>5 DEF vars
  <2>2. BuilderOK' /\ UnseenOK' /\ DecoratedOK'
    BY <2>1, BuilderStays DEF IInv, TypeOK, BuilderOK
  <2>3. UNCHANGED <<values, fixedPrice, priceFor, props, model, at, loading, prices, before, outcome, demand>>
    BY <2>1 DEF loadVars, builderVars
  <2>4. ModelsOK' /\ LoadOK'
    BY <2>3 DEF IInv, TypeOK, ModelsOK, LoadOK, IsProps
  <2>5. OwnOK' /\ KeptOK'
    BY <2>1, <2>3 DEF IInv, OwnOK, KeptOK, Kept
  <2>6. ListsOK' /\ PricesAreRead' /\ PriceModelIsKnown'
    BY <2>3 DEF IInv, ListsOK, Accepted, Popped, PricesAreRead, PriceModelIsKnown
  <2> QED
    BY <2>2, <2>4, <2>5, <2>6 DEF IInv, TypeOK
<1> QED
  BY <1>1, <1>2, <1>3, <1>4, <1>5, EnsuredOwn, Decorated DEF Next

THEOREM Invariance == Spec => []IInv
  BY InitIInv, NextIInv, PTL DEF Spec

\* Every variable of a demand and of the loads keeps its type.
THEOREM TypeCorrect == Spec => []TypeOK
<1>1. IInv => TypeOK
  BY DEF IInv
<1> QED
  BY <1>1, Invariance, PTL

\* A ComLinear that was loaded has the prices of the lists, the last of each usage.
THEOREM PricesOfTheLists == Spec => []PricesAreRead
<1>1. IInv => PricesAreRead
  BY DEF IInv
<1> QED
  BY <1>1, Invariance, PTL

\* No prices without the name of the linear model, in these properties or in those of
\* an earlier load.
THEOREM KnownPriceModel == Spec => []PriceModelIsKnown
<1>1. IInv => PriceModelIsKnown
  BY DEF IInv
<1> QED
  BY <1>1, Invariance, PTL

\* No model is read back from a demand.
THEOREM NothingReadBack == Spec => []NoRoundTrip
<1>1. IInv => NoRoundTrip
  BY DEF IInv, OwnOK, NoRoundTrip
<1> QED
  BY <1>1, Invariance, PTL

\* A decorated demand names no package and constrains nothing, with a bracket open.
THEOREM HollowDecoration == Spec => []DecorationIsHollow
<1>1. VmConstraint = [names |-> {""}, open |-> TRUE]
  <2>1. \A n \in Asked : InfVmKeys(n) = ""
    BY DEF Asked, InfVmKeys
  <2>2. {InfVmKeys(n) : n \in Asked} = {""}
    BY <2>1 DEF Asked
  <2> QED
    BY <2>2 DEF VmConstraint
<1>2. IInv => DecorationIsHollow
  <2> SUFFICES ASSUME IInv, decorated PROVE DecorationIsHollow
    BY DEF DecorationIsHollow
  <2>1. demand["packageFormat"] # None /\ demand["packageUrl"] = None
    BY DEF IInv, DecoratedOK, UnseenOK, Unseen
  <2>2. DOMAIN constraints = 1..Len(constraints) /\ \A i \in DOMAIN constraints : constraints[i] \in Rules
    BY DEF IInv, TypeOK, BuilderOK
  <2>3. \A c \in Rules : c.names \subseteq {"", "own"}
    <3>1. VmConstraint.names = {""} /\ [names |-> {"own"}, open |-> FALSE].names = {"own"}
      BY <1>1
    <3> QED
      BY <3>1 DEF Rules
  <2>4. Constraints.names \subseteq {"", "own"}
    BY <2>2, <2>3 DEF Constraints
  <2>5. \E i \in DOMAIN constraints : constraints[i].open
    <3>1. VmConstraint.open
      BY <1>1
    <3> QED
      BY <2>2, <3>1 DEF IInv, DecoratedOK
  <2> QED
    BY <2>1, <2>4, <2>5 DEF DecorationIsHollow, Constraints
<1> QED
  BY <1>2, Invariance, PTL
=============================================================================
