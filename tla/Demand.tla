------------------------------- MODULE Demand -------------------------------
(***************************************************************************)
(* DemandBuilder, pkg/props/builder.go, and the VM package that decorates  *)
(* a demand, pkg/package/vm.go.  What was put into a demand, or what an    *)
(* offer says, is loaded by module Properties.                             *)
(***************************************************************************)
EXTENDS Properties

CONSTANTS
    MaxConstraints  \* the bound on the constraints of the demand

ASSUME DemandAssumption == MaxConstraints \in Nat

VARIABLES
    demand,      \* properties
    constraints, \* constraints: each [names, open], the names of the properties
                 \* in its rules and whether it leaves a bracket open
    added,       \* the models that were added
    decorated,   \* did DecorateDemand return no error?
    ownLoad      \* is the load, or was the last one, of the demand itself?

builderVars == <<demand, constraints, added, decorated>>
vars == <<builderVars, ownLoad, loadVars>>

NoProps == [k \in Keys \cup {"coeffs", "usages"} |-> None]

\* What a ComLinear may find in the properties of an offer.
Offer(scheme, priceModel, coeffs, usages) ==
    [NoProps EXCEPT !["scheme"] = scheme, !["priceModel"] = priceModel,
                    !["coeffs"] = coeffs, !["usages"] = usages]

Offers ==
    {Offer(s, m, c, u) : s \in {None, "good", "wrong"}, m \in {None, "good", "bad"},
       c \in Coeffs \cup {None, Text, Number}, u \in Usages \cup {None, Text, Number}}

Init ==
    /\ LoadInit
    /\ demand = NoProps
    /\ constraints = <<>>
    /\ added = {}
    /\ decorated = FALSE
    /\ ownLoad = FALSE

-----------------------------------------------------------------------------
\* The bound on what one program does: it builds a demand, and loads it, or it loads
\* offers.
Building == loading = "no" /\ (ownLoad \/ outcome = None)
Reading == added = {} /\ constraints = <<>>

\* structs.Map keeps an embedded struct as a map of its own, in which Add does not
\* look.  The mutant has it flattened.
Everything(m) == FieldsOf(m)
OwnFields(m) == {f \in FieldsOf(m) : ~f.embedded}

\* Every field that is seen is added, its zero value too.
Extended(m, given) ==
    [k \in DOMAIN demand |->
        IF \E f \in OwnFields(m) : f.key = k
        THEN IF k \in given THEN "good" ELSE "zero"
        ELSE demand[k]]

Add(m, given) ==
    /\ Building
    /\ demand' = Extended(m, given)
    /\ added' = added \cup {m}
    /\ UNCHANGED <<constraints, decorated, ownLoad, loadVars>>

Ensure(c) ==
    /\ Len(constraints) < MaxConstraints
    /\ constraints' = Append(constraints, c)

\* A constraint of the caller's.
EnsureOwn ==
    /\ Building
    /\ Ensure([names |-> {"own"}, open |-> FALSE])
    /\ UNCHANGED <<demand, added, decorated, ownLoad, loadVars>>

\* InfVmKeys has "Mem", "Storage" and "Runtime", and the constraint asks it for
\* names in lower case, all of which are "".  The mutant writes them as they are.
Capitals == {"Mem", "Storage", "Runtime"}
Asked == {"mem", "storage", "runtime"}
InfVmKeys(name) == IF name \in {"Mem", "Storage", "Runtime", "Transfers", "Cores"} THEN name ELSE ""

VmConstraint == [names |-> {InfVmKeys(n) : n \in Asked}, open |-> TRUE]

\* The URL is resolved before the demand is touched.
DecorateDemand ==
    /\ Building
    /\ Ensure(VmConstraint)
    /\ demand' = Extended("VMRequest", {"packageUrl", "packageFormat"})
    /\ added' = added \cup {"VMRequest"}
    /\ decorated' = TRUE
    /\ UNCHANGED <<ownLoad, loadVars>>

\* Constraints() puts brackets around several, and only then.
Constraints ==
    [names |-> UNION {constraints[i].names : i \in DOMAIN constraints},
     open  |-> \E i \in DOMAIN constraints : constraints[i].open]

\* A ComLinear is loaded from an offer, or any model from the demand.
LoadOffer ==
    /\ Reading
    /\ \E p \in Offers : FromProperties("ComLinear", p)
    /\ ownLoad' = FALSE
    /\ UNCHANGED builderVars

LoadDemand ==
    /\ Building
    /\ \E m \in added : FromProperties(m, demand)
    /\ ownLoad' = TRUE
    /\ UNCHANGED builderVars

Loading == LoadStep /\ UNCHANGED <<builderVars, ownLoad>>

Next ==
    /\ outcome \in {"panic", "fatal"} => loading # "no"
    /\ \/ \E m \in Models : \E given \in {{}, {f.key : f \in FieldsOf(m)}} : Add(m, given)
       \/ EnsureOwn \/ DecorateDemand
       \/ LoadOffer \/ LoadDemand \/ Loading

Spec == Init /\ [][Next]_vars

-----------------------------------------------------------------------------
(* Properties. *)

\* What Add puts into a demand no model of the package reads back: the load of a
\* fresh one fails, panics or ends the process.
NoRoundTrip ==
    ownLoad /\ loading = "returned" => outcome # "ok"

\* A demand that was decorated for a VM names no package, and its constraints name
\* no property but the caller's and do not close their brackets.
DecorationIsHollow ==
    decorated =>
       /\ demand["packageFormat"] # None /\ demand["packageUrl"] = None
       /\ Constraints.names \subseteq {"", "own"}
       /\ Constraints.open
=============================================================================
