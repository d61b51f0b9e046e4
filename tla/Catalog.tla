------------------------------ MODULE Catalog ------------------------------
(***************************************************************************)
(* The reference data the ledger is recorded against: the categories of a  *)
(* user and the goals of a month, as the dashboard's handlers              *)
(* (apps/dashboard-api/internal/finance/categories.go, goals.go) and the   *)
(* agent's tools (packages/finance/tools.go) change them.                  *)
(*                                                                         *)
(* Every request is one step and every write is an unconditional put, so   *)
(* whoever reads first and writes afterwards decides on what may be gone.  *)
(* A read that is not consistent is a read that was made earlier.          *)
(***************************************************************************)
EXTENDS Integers, FiniteSets, Sequences

CONSTANTS Turns,              \* handlers and agent turns that run at once
          DefaultCategories,  \* the definitions in the code, in their order
          Asked,              \* categories a caller may ask for, as NewCategory
                              \* builds them from a label and a type
          Months,             \* months a goal may be set for
          Targets,            \* targets a caller may ask for, in centavos
          MaxUserCategories,  \* maxUserCategories
          Absent,             \* no such item, and a field that was left out
          MaxTurns            \* bound: calls ever begun

Category == [slug : STRING, label : STRING, type : {"expense", "income"},
             default : BOOLEAN]

(* The code defines each default once, marked, and fewer than the cap.     *)
CatalogAssumption ==
    /\ MaxUserCategories \in Nat /\ MaxTurns \in Nat
    /\ IsFiniteSet(Turns) /\ Turns # {}
    /\ Absent \notin Targets /\ Targets \subseteq Int
    /\ Absent \notin Category /\ Asked \subseteq Category
    /\ DefaultCategories \in Seq(Category)
    /\ Len(DefaultCategories) <= MaxUserCategories
    /\ \A k \in DOMAIN DefaultCategories : DefaultCategories[k].default
    /\ \A k, l \in DOMAIN DefaultCategories :
          DefaultCategories[k].slug = DefaultCategories[l].slug => k = l

VARIABLES cats,     \* cats[slug]: the stored category, or Absent
          goals,    \* goals[month]: the stored goal, or Absent
          turns,    \* turns[t]: what turn t is in the middle of
          added,    \* history: categories that POST /categories added
          begun     \* turns begun

catalogVars == <<cats, goals, turns, added, begun>>

Defaults == {DefaultCategories[k] : k \in DOMAIN DefaultCategories}
Slugs    == {d.slug : d \in Defaults \cup Asked}
Fields   == {"revenue", "expense"}
NoGoal   == [f \in Fields |-> 0]
Resting  == [at |-> "rest"]

Init == /\ cats = [s \in Slugs |-> Absent]
        /\ goals = [m \in Months |-> Absent]
        /\ turns = [t \in Turns |-> Resting]
        /\ added = {}
        /\ begun = 0

Begin(t) == turns[t] = Resting /\ begun < MaxTurns /\ begun' = begun + 1
Now(t, what) == turns' = [turns EXCEPT ![t] = what]

-----------------------------------------------------------------------------
(* GET /categories: every read brings the stored defaults up to date.      *)

SameMeaning(c, d) == c.label = d.label /\ c.type = d.type

(* Broken variant of Drifted: compares the stored label with the slug.     *)
DriftedFromSlug(c, d) == c.label # d.slug \/ c.type # d.type

(* needsCategoryUpdate, for a stored category that is marked as a default. *)
Drifted(c, d) == ~SameMeaning(c, d)

(* Which defaults must be written over what is stored: a missing one, one  *)
(* that drifted, and one that has lost its mark and nothing else.          *)
MustWrite(have, d) ==
    LET c == have[d.slug]
    IN  \/ c = Absent
        \/ c # Absent /\ c.default /\ Drifted(c, d)
        \/ c # Absent /\ ~c.default /\ SameMeaning(c, d)

(* By their place among the definitions.                                   *)
ReconcileDefaultCategories(have) ==
    {k \in DOMAIN DefaultCategories : MustWrite(have, DefaultCategories[k])}

Browse(t) == /\ Begin(t)
             /\ Now(t, [at |-> "reconcile", read |-> cats,
                        changes |-> ReconcileDefaultCategories(cats)])
             /\ UNCHANGED <<cats, goals, added>>

(* One SaveCategory per change, in their order; an error of one is ignored.*)
Reconcile(t) ==
    /\ turns[t].at = "reconcile"
    /\ \E k \in turns[t].changes :
         LET d == DefaultCategories[k]
         IN  /\ \A l \in turns[t].changes : k <= l
             /\ cats' \in {cats, [cats EXCEPT ![d.slug] = d]}
             /\ Now(t, [turns[t] EXCEPT !.changes = @ \ {k}])
    /\ UNCHANGED <<goals, added, begun>>

Answered(t) == /\ turns[t].at = "reconcile"
               /\ turns[t].changes = {}
               /\ Now(t, Resting)
               /\ UNCHANGED <<cats, goals, added, begun>>

-----------------------------------------------------------------------------
(* POST /categories: a put, whatever was there.                            *)
Create(t) == \E c \in Asked :
    /\ Begin(t)
    /\ cats' = [cats EXCEPT ![c.slug] = c]
    /\ added' = IF cats[c.slug] = Absent THEN added \cup {c.slug} ELSE added
    /\ UNCHANGED <<goals, turns>>

(* loadCatalog: what is stored over what is defined.                       *)
bySlug(have) == [s \in {r \in Slugs : \/ have[r] # Absent
                                      \/ \E d \in Defaults : d.slug = r} |->
                    IF have[s] # Absent THEN have[s]
                    ELSE CHOOSE d \in Defaults : d.slug = s]

MayCreate(have, c) == /\ c.slug \notin DOMAIN bySlug(have)
                      /\ Cardinality(DOMAIN bySlug(have)) < MaxUserCategories

(* create_category: the catalog is read, then the category is put.  One    *)
(* that exists and one too many end the call.                              *)
CreateByTool(t) == \E c \in Asked :
    /\ Begin(t)
    /\ MayCreate(cats, c)
    /\ Now(t, [at |-> "create", read |-> cats, new |-> c])
    /\ UNCHANGED <<cats, goals, added>>

SaveCategory(t) == /\ turns[t].at = "create"
                   /\ cats' = [cats EXCEPT ![turns[t].new.slug] = turns[t].new]
                   /\ Now(t, Resting)
                   /\ UNCHANGED <<goals, added, begun>>

-----------------------------------------------------------------------------
(* Goals.  An asked goal is a record in which Absent is a target that was  *)
(* left out.                                                               *)

AskedGoals == {g \in [Fields -> Targets \cup {Absent}] : \E f \in Fields : g[f] # Absent}

(* PUT /goals replaces the goal; what was left out becomes zero.           *)
Save(t) == \E m \in Months, g \in AskedGoals :
    /\ Begin(t)
    /\ \A f \in Fields : g[f] # Absent => g[f] >= 0
    /\ goals' = [goals EXCEPT ![m] = [f \in Fields |-> IF g[f] = Absent THEN 0 ELSE g[f]]]
    /\ UNCHANGED <<cats, turns, added>>

(* The tool cannot tell a zero from a target that was left out.            *)
Given(g, f) == g[f] # Absent /\ g[f] > 0

Merge(g, existing) == [f \in Fields |-> IF Given(g, f) THEN g[f] ELSE existing[f]]

(* definir_meta reads the goal only when one of the two is missing, and    *)
(* takes a goal that it could not read for one that is not there.          *)
DefinirMeta(t) == \E m \in Months, g \in AskedGoals, readable \in BOOLEAN :
    LET existing == IF goals[m] = Absent \/ ~readable THEN NoGoal ELSE goals[m]
    IN  /\ Begin(t)
        /\ \E f \in Fields : Given(g, f)
        /\ (\A f \in Fields : Given(g, f)) => readable
        /\ Now(t, [at |-> "goal", month |-> m, read |-> goals[m], readable |-> readable,
                   asked |-> g, new |-> Merge(g, existing)])
        /\ UNCHANGED <<cats, goals, added>>

SaveGoal(t) == /\ turns[t].at = "goal"
               /\ goals' = [goals EXCEPT ![turns[t].month] = turns[t].new]
               /\ Now(t, Resting)
               /\ UNCHANGED <<cats, added, begun>>

(* A request that fails, or a caller that dies.                            *)
Abandon(t) == /\ turns[t] # Resting
              /\ Now(t, Resting)
              /\ UNCHANGED <<cats, goals, added, begun>>

Step(t) == \/ Browse(t)      \/ Reconcile(t)     \/ Answered(t)
           \/ Create(t)      \/ CreateByTool(t)  \/ SaveCategory(t)
           \/ Save(t)        \/ DefinirMeta(t)   \/ SaveGoal(t)
           \/ Abandon(t)

Next == \E t \in Turns : Step(t)

Spec == Init /\ [][Next]_catalogVars

-----------------------------------------------------------------------------
(* The shape of the state.                                                 *)
TypeOK == /\ \A s \in Slugs : cats[s] = Absent \/ cats[s] \in Defaults \cup Asked
          /\ \A m \in Months : goals[m] = Absent \/ goals[m] \in [Fields -> {x \in Targets \cup {0} : x >= 0}]
          /\ \A t \in Turns : turns[t].at \in {"rest", "reconcile", "create", "goal"}
          /\ added \subseteq Slugs
          /\ begun \in 0..MaxTurns

(* Reading the categories settles: once its changes are written the next   *)
(* read has none, whatever users have made of the slugs of the defaults    *)
(* (ReconcileDefaultCategories), so that GET does not write for ever.      *)
ReconcileConverges ==
    LET after == [s \in Slugs |-> IF \E d \in Defaults : d.slug = s /\ MustWrite(cats, d)
                                  THEN CHOOSE d \in Defaults : d.slug = s
                                  ELSE cats[s]]
    IN  ReconcileDefaultCategories(after) = {}

Own(c) == /\ c # Absent
          /\ ~c.default
          /\ ~\E d \in Defaults : d.slug = c.slug /\ SameMeaning(c, d)

(* A category that the user created is preserved by the reconciliation of  *)
(* every read that saw it; only one that was created while the read was    *)
(* under way is lost (categories.go List).                                 *)
OwnCategoriesArePreserved ==
    [][\A t \in Turns, s \in Slugs :
         /\ turns[t].at = "reconcile"
         /\ turns'[t] # turns[t]
         /\ Own(cats[s])
         /\ cats'[s] # cats[s]
         => turns[t].read[s] # cats[s]]_catalogVars

(* The cap holds for the tools up to the turns that were past the check    *)
(* together; what POST /categories adds comes on top, for it has none      *)
(* (maxUserCategories).                                                    *)
CapIsOvershotByConcurrencyOnly ==
    Cardinality(DOMAIN bySlug(cats) \ added) <= MaxUserCategories + Cardinality(Turns) - 1

(* The target that a call to definir_meta did not name is kept, unless the *)
(* goal was unreadable or has changed since it was read.                   *)
OtherTargetIsKept ==
    [][\A t \in Turns :
         /\ turns[t].at = "goal"
         /\ goals' # goals /\ turns'[t] # turns[t]
         /\ turns[t].readable
         /\ goals[turns[t].month] = turns[t].read
         => \A f \in Fields :
              \/ Given(turns[t].asked, f)
              \/ goals'[turns[t].month][f] =
                   (IF turns[t].read = Absent THEN 0 ELSE turns[t].read[f])]_catalogVars

(* The catalog is sound: it settles, and it is no larger than its cap and  *)
(* the race for the last place allow.                                      *)
CatalogInv == TypeOK /\ ReconcileConverges /\ CapIsOvershotByConcurrencyOnly
=============================================================================
