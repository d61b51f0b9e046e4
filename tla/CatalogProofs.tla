--------------------------- MODULE CatalogProofs ---------------------------
(***************************************************************************)
(* Theorems about Catalog, proved for any set of turns, categories and     *)
(* targets.                                                                *)
(*                                                                         *)
(* The invariant says of every turn what it has read and what it is going  *)
(* to write because of it; that is enough for what may be lost to a race.  *)
(* The cap takes an argument of its own: a turn that passed the check      *)
(* holds a place, and the places held and taken never exceed the cap and   *)
(* the turns there are.                                                    *)
(***************************************************************************)
EXTENDS Catalog, FiniteSetTheorems, TLAPS

-----------------------------------------------------------------------------
(* What is stored, and what a turn holds.                                  *)

Stored    == Defaults \cup Asked
Catalogs  == [Slugs -> Stored \cup {Absent}]
Goals     == [Fields -> {x \in Targets \cup {0} : x >= 0}]
Changes   == SUBSET (DOMAIN DefaultCategories)

Reconciling == [at : {"reconcile"}, read : Catalogs, changes : Changes]
Creating    == [at : {"create"}, read : Catalogs, new : Asked]
Aiming      == [at : {"goal"}, month : Months, read : Goals \cup {Absent},
                readable : BOOLEAN, asked : AskedGoals, new : Goals]

Rest == {Resting}
Turn == Rest \cup Reconciling \cup Creating \cup Aiming

Filed(have) == \A s \in Slugs : have[s] # Absent => have[s].slug = s

(* What a turn is going to write is what its read calls for.               *)
Follows(x) ==
    /\ x.at = "reconcile" => \A k \in x.changes : MustWrite(x.read, DefaultCategories[k])
    /\ x.at = "goal" /\ x.readable =>
         x.new = Merge(x.asked, IF x.read = Absent THEN NoGoal ELSE x.read)

ShelfInv == /\ cats \in Catalogs /\ Filed(cats)
            /\ goals \in [Months -> Goals \cup {Absent}]
            /\ turns \in [Turns -> Turn]
            /\ \A t \in Turns : Follows(turns[t])
            /\ added \subseteq Slugs /\ begun \in 0 .. MaxTurns

LEMMA DefaultsAreFiled ==
  ASSUME CatalogAssumption, NEW k \in DOMAIN DefaultCategories
  PROVE  /\ DefaultCategories[k] \in Defaults /\ DefaultCategories[k] \in Category
         /\ DefaultCategories[k].slug \in Slugs /\ DefaultCategories[k].default
         /\ DefaultCategories[k] # Absent
<1>1. DefaultCategories[k] \in Category /\ DefaultCategories[k].default
  BY DEF CatalogAssumption
<1>2. DefaultCategories[k] \in Defaults
  BY DEF Defaults
<1> QED
  BY <1>1, <1>2 DEF CatalogAssumption, Slugs

LEMMA StoredAreCategories ==
  ASSUME CatalogAssumption
  PROVE  Stored \subseteq Category /\ Absent \notin Stored /\ \A c \in Stored : c.slug \in Slugs
<1>1. Defaults \subseteq Category
  BY DefaultsAreFiled DEF Defaults
<1>2. Asked \subseteq Category /\ Absent \notin Category
  BY DEF CatalogAssumption
<1> QED
  BY <1>1, <1>2 DEF Stored, Slugs

LEMMA TurnIsOneOf ==
  ASSUME NEW x \in Turn
  PROVE  /\ x.at \in {"rest", "reconcile", "create", "goal"}
         /\ x.at = "rest" <=> x = Resting
         /\ x.at = "reconcile" => x \in Reconciling
         /\ x.at = "create" => x \in Creating
         /\ x.at = "goal" => x \in Aiming
BY DEF Turn, Rest, Resting, Reconciling, Creating, Aiming

LEMMA RestFollows == Resting \in Turn /\ Follows(Resting) /\ Resting.at = "rest"
BY DEF Turn, Rest, Resting, Follows

-----------------------------------------------------------------------------
LEMMA ShelfInit == CatalogAssumption /\ Init => ShelfInv
<1> SUFFICES ASSUME CatalogAssumption, Init
             PROVE  ShelfInv
  OBVIOUS
<1>1. cats \in Catalogs /\ Filed(cats)
  BY DEF Init, Catalogs, Filed
<1>2. turns \in [Turns -> Turn] /\ \A t \in Turns : Follows(turns[t])
  BY RestFollows DEF Init
<1>3. goals \in [Months -> Goals \cup {Absent}] /\ added \subseteq Slugs /\ begun \in 0 .. MaxTurns
  BY DEF Init, CatalogAssumption
<1> QED
  BY <1>1, <1>2, <1>3 DEF ShelfInv

(* What a step does to one turn, when it keeps what is stored in order.    *)
LEMMA OneTurnMoves ==
  ASSUME ShelfInv, NEW t \in Turns, NEW x \in Turn, Follows(x),
         turns' = [turns EXCEPT ![t] = x],
         cats' \in Catalogs, Filed(cats'), goals' \in [Months -> Goals \cup {Absent}],
         added' \subseteq Slugs, begun' \in 0 .. MaxTurns
  PROVE  ShelfInv'
<1>1. turns' \in [Turns -> Turn] /\ \A u \in Turns : Follows(turns'[u])
  BY DEF ShelfInv
<1> QED
  BY <1>1 DEF ShelfInv, Follows

LEMMA PutKeepsOrder ==
  ASSUME CatalogAssumption, cats \in Catalogs, Filed(cats), NEW c \in Stored,
         cats' = [cats EXCEPT ![c.slug] = c]
  PROVE  cats' \in Catalogs /\ Filed(cats')
<1>1. c.slug \in Slugs
  BY StoredAreCategories
<1> QED
  BY <1>1 DEF Catalogs, Filed

LEMMA BegunCounts ==
  ASSUME CatalogAssumption, ShelfInv, NEW t \in Turns, Begin(t)
  PROVE  begun' \in 0 .. MaxTurns /\ turns[t] = Resting
BY DEF Begin, ShelfInv, CatalogAssumption

LEMMA BrowseKeeps ==
  ASSUME CatalogAssumption, ShelfInv, NEW t \in Turns, Browse(t)
  PROVE  ShelfInv'
<1> DEFINE ch == ReconcileDefaultCategories(cats)
           x  == [at |-> "reconcile", read |-> cats, changes |-> ch]
<1>1. ch \in Changes /\ \A k \in ch : MustWrite(cats, DefaultCategories[k])
  BY DEF ReconcileDefaultCategories, Changes
<1>2. turns' = [turns EXCEPT ![t] = x] /\ UNCHANGED <<cats, goals, added>>
  BY DEF Browse, Now
<1> HIDE DEF ch
<1>3. x \in Turn /\ Follows(x)
  BY <1>1 DEF Turn, Reconciling, Follows, ShelfInv
<1> QED
  BY <1>2, <1>3, BegunCounts, OneTurnMoves DEF ShelfInv, Browse

LEMMA ReconcileKeeps ==
  ASSUME CatalogAssumption, ShelfInv, NEW t \in Turns, Reconcile(t)
  PROVE  ShelfInv'
<1>1. turns[t] \in Reconciling /\ Follows(turns[t])
  BY TurnIsOneOf DEF Reconcile, ShelfInv
<1>2. PICK k \in turns[t].changes :
        /\ cats' \in {cats, [cats EXCEPT ![DefaultCategories[k].slug] = DefaultCategories[k]]}
        /\ turns' = [turns EXCEPT ![t] = [turns[t] EXCEPT !.changes = @ \ {k}]]
  BY DEF Reconcile, Now
<1> DEFINE x == [turns[t] EXCEPT !.changes = @ \ {k}]
<1>3. /\ x \in Reconciling /\ x.at = "reconcile" /\ x.read = turns[t].read
      /\ x.changes = turns[t].changes \ {k}
  BY <1>1 DEF Reconciling, Changes
<1>4. DefaultCategories[k] \in Stored
  BY <1>1, <1>2, DefaultsAreFiled DEF Reconciling, Changes, Stored
<1>5. cats' \in Catalogs /\ Filed(cats')
  BY <1>2, <1>4, PutKeepsOrder DEF ShelfInv
<1> HIDE DEF x
<1>6. x \in Turn /\ Follows(x)
  BY <1>1, <1>3 DEF Turn, Follows, Reconciling
<1> QED
  BY <1>2, <1>5, <1>6, OneTurnMoves DEF ShelfInv, Reconcile, x

LEMMA RestsKeep ==
  ASSUME CatalogAssumption, ShelfInv, NEW t \in Turns, Answered(t) \/ Abandon(t)
  PROVE  ShelfInv'
BY RestFollows, OneTurnMoves DEF Answered, Abandon, Now, ShelfInv

LEMMA PutsKeep ==
  ASSUME CatalogAssumption, ShelfInv, NEW t \in Turns, Create(t) \/ SaveCategory(t)
  PROVE  ShelfInv'
<1>1. CASE Create(t)
  <2>1. PICK c \in Asked : /\ cats' = [cats EXCEPT ![c.slug] = c]
                           /\ added' = IF cats[c.slug] = Absent THEN added \cup {c.slug} ELSE added
    BY <1>1 DEF Create
  <2>2. c \in Stored /\ c.slug \in Slugs
    BY DEF Stored, Slugs
  <2>3. cats' \in Catalogs /\ Filed(cats') /\ added' \subseteq Slugs
    BY <2>1, <2>2, PutKeepsOrder DEF ShelfInv
  <2>4. begun' \in 0 .. MaxTurns /\ turns' = turns /\ goals' = goals
    BY <1>1, BegunCounts DEF Create
  <2> QED
    BY <2>3, <2>4 DEF ShelfInv, Follows
<1>2. CASE SaveCategory(t)
  <2>1. turns[t] \in Creating
    BY <1>2, TurnIsOneOf DEF SaveCategory, ShelfInv
  <2>2. turns[t].new \in Stored
    BY <2>1 DEF Creating, Stored
  <2>3. cats' \in Catalogs /\ Filed(cats')
    BY <1>2, <2>2, PutKeepsOrder DEF SaveCategory, ShelfInv
  <2> QED
    BY <1>2, <2>3, RestFollows, OneTurnMoves DEF SaveCategory, Now, ShelfInv
<1> QED
  BY <1>1, <1>2

LEMMA ToolDecides ==
  ASSUME CatalogAssumption, ShelfInv, NEW t \in Turns, CreateByTool(t)
  PROVE  ShelfInv'
<1>1. PICK c \in Asked : turns' = [turns EXCEPT ![t] = [at |-> "create", read |-> cats, new |-> c]]
  BY DEF CreateByTool, Now
<1> DEFINE x == [at |-> "create", read |-> cats, new |-> c]
<1>2. x \in Turn /\ Follows(x)
  BY DEF Turn, Creating, Follows, ShelfInv
<1>3. UNCHANGED <<cats, goals, added>> /\ begun' \in 0 .. MaxTurns
  BY BegunCounts DEF CreateByTool
<1> QED
  BY <1>1, <1>2, <1>3, OneTurnMoves DEF ShelfInv

LEMMA MergedGoals ==
  ASSUME CatalogAssumption, NEW g \in AskedGoals, NEW existing \in Goals
  PROVE  Merge(g, existing) \in Goals
<1>1. ASSUME NEW f \in Fields
      PROVE  (IF Given(g, f) THEN g[f] ELSE existing[f]) \in {x \in Targets \cup {0} : x >= 0}
  <2>1. existing[f] \in {x \in Targets \cup {0} : x >= 0}
    BY DEF Goals
  <2>2. Given(g, f) => g[f] \in Targets /\ g[f] \in Int /\ g[f] > 0
    BY DEF Given, AskedGoals, CatalogAssumption
  <2>3. Given(g, f) => g[f] \in Targets \cup {0} /\ g[f] >= 0
    BY <2>2
  <2> QED
    BY <2>1, <2>3
<1> QED
  BY <1>1 DEF Merge, Goals

LEMMA NoGoalIsAGoal == NoGoal \in Goals
BY DEF NoGoal, Goals

LEMMA GoalsKeep ==
  ASSUME CatalogAssumption, ShelfInv, NEW t \in Turns, Save(t) \/ DefinirMeta(t) \/ SaveGoal(t)
  PROVE  ShelfInv'
<1>1. CASE Save(t)
  <2>1. PICK m \in Months, g \in AskedGoals :
          /\ \A f \in Fields : g[f] # Absent => g[f] >= 0
          /\ goals' = [goals EXCEPT ![m] = [f \in Fields |-> IF g[f] = Absent THEN 0 ELSE g[f]]]
    BY <1>1 DEF Save
  <2> DEFINE saved == [f \in Fields |-> IF g[f] = Absent THEN 0 ELSE g[f]]
  <2>2. saved \in Goals
    BY <2>1 DEF AskedGoals, Goals
  <2>3. goals' \in [Months -> Goals \cup {Absent}]
    BY <2>1, <2>2 DEF ShelfInv
  <2>4. begun' \in 0 .. MaxTurns /\ UNCHANGED <<cats, turns, added>>
    BY <1>1, BegunCounts DEF Save
  <2> QED
    BY <2>3, <2>4 DEF ShelfInv, Follows
<1>2. CASE DefinirMeta(t)
  <2>1. PICK m \in Months, g \in AskedGoals, readable \in BOOLEAN :
          turns' = [turns EXCEPT ![t] =
            [at |-> "goal", month |-> m, read |-> goals[m], readable |-> readable, asked |-> g,
             new |-> Merge(g, IF goals[m] = Absent \/ ~readable THEN NoGoal ELSE goals[m])]]
    BY <1>2 DEF DefinirMeta, Now
  <2> DEFINE existing == IF goals[m] = Absent \/ ~readable THEN NoGoal ELSE goals[m]
             new == Merge(g, existing)
             x == [at |-> "goal", month |-> m, read |-> goals[m], readable |-> readable,
                   asked |-> g, new |-> new]
  <2>2. goals[m] \in Goals \cup {Absent}
    BY DEF ShelfInv
  <2>3. existing \in Goals
    BY <2>2, NoGoalIsAGoal
  <2>4. new \in Goals
    BY <2>3, MergedGoals
  <2>5. readable => new = Merge(g, IF goals[m] = Absent THEN NoGoal ELSE goals[m])
    OBVIOUS
  <2>6. turns' = [turns EXCEPT ![t] = x]
    BY <2>1
  <2> HIDE DEF existing, new
  <2>7. x \in Aiming
    BY <2>2, <2>4 DEF Aiming
  <2>8. x.at = "goal" /\ x.readable = readable /\ x.new = new /\ x.asked = g /\ x.read = goals[m]
    OBVIOUS
  <2> HIDE DEF x
  <2>9. x \in Turn /\ Follows(x)
    BY <2>5, <2>7, <2>8 DEF Turn, Follows
  <2>10. begun' \in 0 .. MaxTurns /\ UNCHANGED <<cats, goals, added>>
    BY <1>2, BegunCounts DEF DefinirMeta
  <2> QED
    BY <2>6, <2>9, <2>10, OneTurnMoves DEF ShelfInv
<1>3. CASE SaveGoal(t)
  <2>1. turns[t] \in Aiming
    BY <1>3, TurnIsOneOf DEF SaveGoal, ShelfInv
  <2>2. goals' \in [Months -> Goals \cup {Absent}]
    BY <1>3, <2>1 DEF SaveGoal, ShelfInv, Aiming
  <2> QED
    BY <1>3, <2>2, RestFollows, OneTurnMoves DEF SaveGoal, Now, ShelfInv
<1> QED
  BY <1>1, <1>2, <1>3

LEMMA ShelfNext ==
  ASSUME CatalogAssumption, ShelfInv, [Next]_catalogVars
  PROVE  ShelfInv'
<1>1. CASE UNCHANGED catalogVars
  BY <1>1 DEF catalogVars, ShelfInv, Follows
<1>2. CASE Next
  BY <1>2, BrowseKeeps, ReconcileKeeps, RestsKeep, PutsKeep, ToolDecides, GoalsKeep DEF Next, Step
<1> QED
  BY <1>1, <1>2

LEMMA ShelfInvariant ==
  ASSUME CatalogAssumption
  PROVE  Spec => []ShelfInv
<1>1. Init => ShelfInv
  BY ShelfInit
<1>2. ShelfInv /\ [Next]_catalogVars => ShelfInv'
  BY ShelfNext
<1> QED
  BY <1>1, <1>2, PTL DEF Spec

-----------------------------------------------------------------------------
(* Reading settles.                                                        *)

LEMMA DefaultOfASlug ==
  ASSUME CatalogAssumption, NEW k \in DOMAIN DefaultCategories, NEW d \in Defaults,
         d.slug = DefaultCategories[k].slug
  PROVE  d = DefaultCategories[k]
BY DEF CatalogAssumption, Defaults

LEMMA ReadingSettles ==
  ASSUME CatalogAssumption
  PROVE  ReconcileConverges
<1> DEFINE after == [s \in Slugs |-> IF \E d \in Defaults : d.slug = s /\ MustWrite(cats, d)
                                     THEN CHOOSE d \in Defaults : d.slug = s
                                     ELSE cats[s]]
<1>1. ASSUME NEW k \in DOMAIN DefaultCategories
      PROVE  ~MustWrite(after, DefaultCategories[k])
  <2> DEFINE d == DefaultCategories[k]
  <2>1. d \in Defaults /\ d.slug \in Slugs /\ d.default /\ d # Absent
    BY DefaultsAreFiled
  <2>2. CASE MustWrite(cats, d)
    <3>1. after[d.slug] = CHOOSE e \in Defaults : e.slug = d.slug
      BY <2>1, <2>2
    <3>2. (CHOOSE e \in Defaults : e.slug = d.slug) = d
      BY <2>1, DefaultOfASlug
    <3>3. after[d.slug] = d
      BY <3>1, <3>2
    <3> QED
      BY <2>1, <3>3 DEF MustWrite, Drifted, SameMeaning
  <2>3. CASE ~MustWrite(cats, d)
    <3>1. ~\E e \in Defaults : e.slug = d.slug /\ MustWrite(cats, e)
      BY <2>3, DefaultOfASlug
    <3>2. after[d.slug] = cats[d.slug]
      BY <2>1, <3>1
    <3> QED
      BY <2>3, <3>2 DEF MustWrite
  <2> QED
    BY <2>2, <2>3
<1>2. ReconcileDefaultCategories(after) = {}
  BY <1>1 DEF ReconcileDefaultCategories
<1> QED
  BY <1>2 DEF ReconcileConverges

-----------------------------------------------------------------------------
(* The cap.                                                                *)

Listed == DOMAIN bySlug(cats)
Capped == Listed \ added
Placed == {t \in Turns : turns[t].at = "create"}

CapInv == /\ IsFiniteSet(Listed)
          /\ Cardinality(Capped) + Cardinality(Placed)
               <= MaxUserCategories + Cardinality(Turns) - 1

LEMMA ListedAre ==
  ASSUME NEW have
  PROVE  DOMAIN bySlug(have) =
           {s \in Slugs : have[s] # Absent \/ \E d \in Defaults : d.slug = s}
BY DEF bySlug

LEMMA PlacesAreFinite ==
  ASSUME CatalogAssumption
  PROVE  /\ Cardinality(Turns) \in Nat /\ Cardinality(Turns) >= 1
         /\ IsFiniteSet(Placed) /\ Cardinality(Placed) \in Nat
         /\ Cardinality(Placed) <= Cardinality(Turns)
<1>1. IsFiniteSet(Turns) /\ Cardinality(Turns) \in Nat /\ Cardinality(Turns) # 0
  BY FS_CardinalityType, FS_EmptySet DEF CatalogAssumption
<1>2. Placed \in SUBSET Turns
  BY DEF Placed
<1>3. IsFiniteSet(Placed) /\ Cardinality(Placed) <= Cardinality(Turns)
  BY <1>1, <1>2, FS_Subset
<1> QED
  BY <1>1, <1>3, FS_CardinalityType

LEMMA CappedIsFinite ==
  ASSUME IsFiniteSet(Listed)
  PROVE  /\ IsFiniteSet(Capped) /\ Cardinality(Capped) \in Nat
         /\ Cardinality(Capped) <= Cardinality(Listed) /\ Cardinality(Listed) \in Nat
<1>1. Capped \in SUBSET Listed
  BY DEF Capped
<1>2. IsFiniteSet(Capped) /\ Cardinality(Capped) <= Cardinality(Listed)
  BY <1>1, FS_Subset
<1> QED
  BY <1>2, FS_CardinalityType

(* The defaults fit, before anybody has asked for anything.                *)
LEMMA CapInit == CatalogAssumption /\ Init => CapInv
<1> SUFFICES ASSUME CatalogAssumption, Init
             PROVE  CapInv
  OBVIOUS
<1> DEFINE n == Len(DefaultCategories)
           f == [k \in 1 .. n |-> DefaultCategories[k].slug]
<1>1. n \in Nat /\ n <= MaxUserCategories /\ DOMAIN DefaultCategories = 1 .. n
  BY DEF CatalogAssumption
<1>2. Listed = {f[k] : k \in 1 .. n}
  <2>1. Listed = {s \in Slugs : \E d \in Defaults : d.slug = s}
    <3>1. Listed = {s \in Slugs : cats[s] # Absent \/ \E d \in Defaults : d.slug = s}
      BY ListedAre DEF Listed
    <3>2. \A s \in Slugs : cats[s] = Absent
      BY DEF Init
    <3> QED
      BY <3>1, <3>2
  <2>2. Listed = {d.slug : d \in Defaults}
    BY <2>1 DEF Slugs
  <2> QED
    BY <1>1, <2>2 DEF Defaults
<1>3. f \in Surjection(1 .. n, Listed)
  BY <1>2 DEF Surjection
<1>4. IsFiniteSet(1 .. n) /\ Cardinality(1 .. n) = n
  <2>1. 1 \in Int /\ n \in Int
    BY <1>1
  <2>2. IsFiniteSet(1 .. n) /\ Cardinality(1 .. n) = IF 1 > n THEN 0 ELSE n - 1 + 1
    BY <2>1, FS_Interval
  <2> QED
    BY <1>1, <2>2
<1>5. IsFiniteSet(Listed) /\ Cardinality(Listed) <= n
  BY <1>3, <1>4, FS_Surjection
<1>6. Placed = {}
  BY RestFollows DEF Init, Placed
<1>7. Cardinality(Placed) = 0
  BY <1>6, FS_EmptySet
<1> HIDE DEF n
<1>8. Cardinality(Capped) \in Nat /\ Cardinality(Capped) <= MaxUserCategories
  BY <1>1, <1>5, CappedIsFinite DEF CatalogAssumption
<1>9. Cardinality(Turns) \in Nat /\ Cardinality(Turns) >= 1
  BY PlacesAreFinite
<1> QED
  BY <1>5, <1>7, <1>8, <1>9 DEF CapInv, CatalogAssumption

LEMMA NothingIsPlaced ==
  ASSUME CatalogAssumption, CapInv, IsFiniteSet(Listed'), Capped' \subseteq Capped,
         Placed' \subseteq Placed
  PROVE  CapInv'
<1>1. IsFiniteSet(Capped) /\ Cardinality(Capped) \in Nat
  BY CappedIsFinite DEF CapInv
<1>2. IsFiniteSet(Placed) /\ Cardinality(Placed) \in Nat /\ Cardinality(Turns) \in Nat
  BY PlacesAreFinite
<1>3. Capped' \in SUBSET Capped /\ Placed' \in SUBSET Placed
  OBVIOUS
<1>4. IsFiniteSet(Capped') /\ Cardinality(Capped') <= Cardinality(Capped)
  BY <1>1, <1>3, FS_Subset
<1>5. IsFiniteSet(Placed') /\ Cardinality(Placed') <= Cardinality(Placed)
  BY <1>2, <1>3, FS_Subset
<1>6. Cardinality(Capped') \in Nat /\ Cardinality(Placed') \in Nat
  BY <1>4, <1>5, FS_CardinalityType
<1> QED
  BY <1>1, <1>2, <1>4, <1>5, <1>6 DEF CapInv, CatalogAssumption

(* The check of the tool: there was room, for as many as are on their way. *)
LEMMA PlaceIsHeld ==
  ASSUME CatalogAssumption, ShelfInv, CapInv, NEW t \in Turns, CreateByTool(t)
  PROVE  CapInv'
<1>1. Listed' = Listed /\ Capped' = Capped /\ Cardinality(Listed) < MaxUserCategories
  BY DEF CreateByTool, MayCreate, Listed, Capped, bySlug
<1>2. /\ Cardinality(Capped) \in Nat /\ Cardinality(Capped) <= Cardinality(Listed)
      /\ Cardinality(Listed) \in Nat
  BY CappedIsFinite DEF CapInv
<1>3. Placed' \in SUBSET Turns /\ IsFiniteSet(Turns)
  BY DEF Placed, CatalogAssumption
<1>4. IsFiniteSet(Placed') /\ Cardinality(Placed') <= Cardinality(Turns)
  BY <1>3, FS_Subset
<1>5. Cardinality(Placed') \in Nat /\ Cardinality(Turns) \in Nat
  BY <1>3, <1>4, FS_CardinalityType
<1>6. IsFiniteSet(Listed')
  BY <1>1 DEF CapInv
<1> QED
  BY <1>1, <1>2, <1>4, <1>5, <1>6 DEF CapInv, CatalogAssumption

(* The place is taken: one category more, one turn less on its way.        *)
LEMMA PlaceIsTaken ==
  ASSUME CatalogAssumption, ShelfInv, CapInv, NEW t \in Turns, SaveCategory(t)
  PROVE  CapInv'
<1> DEFINE s == turns[t].new.slug
<1>1. cats' = [cats EXCEPT ![s] = turns[t].new] /\ added' = added
      /\ turns' = [turns EXCEPT ![t] = Resting]
  BY DEF SaveCategory, Now
<1>2. \A r \in Slugs : r # s => cats'[r] = cats[r]
  BY <1>1 DEF ShelfInv, Catalogs
<1> HIDE DEF s
<1>3. Listed' \subseteq Listed \cup {s} /\ Capped' \subseteq Capped \cup {s}
  <2>1. Listed' = {r \in Slugs : cats'[r] # Absent \/ \E d \in Defaults : d.slug = r}
    BY ListedAre DEF Listed
  <2>2. Listed' \subseteq Listed \cup {s}
    BY <1>2, <2>1, ListedAre DEF Listed
  <2> QED
    BY <1>1, <2>2 DEF Capped
<1>4. Placed' = Placed \ {t} /\ t \in Placed
  BY <1>1, RestFollows DEF Placed, ShelfInv, SaveCategory
<1>5. IsFiniteSet(Listed \cup {s})
  BY FS_AddElement DEF CapInv
<1>6. IsFiniteSet(Listed')
  BY <1>3, <1>5, FS_Subset
<1>7. IsFiniteSet(Capped) /\ Cardinality(Capped) \in Nat
  BY CappedIsFinite DEF CapInv
<1>8. /\ IsFiniteSet(Capped \cup {s})
      /\ Cardinality(Capped \cup {s}) = Cardinality(Capped)
         \/ Cardinality(Capped \cup {s}) = Cardinality(Capped) + 1
  BY <1>7, FS_AddElement
<1>9. IsFiniteSet(Capped') /\ Cardinality(Capped') <= Cardinality(Capped \cup {s})
  BY <1>3, <1>8, FS_Subset
<1>10. IsFiniteSet(Placed) /\ Cardinality(Placed) \in Nat /\ Cardinality(Turns) \in Nat
  BY PlacesAreFinite
<1>11. Cardinality(Placed') = Cardinality(Placed) - 1
  BY <1>4, <1>10, FS_RemoveElement
<1>12. Cardinality(Capped') \in Nat
  BY <1>9, FS_CardinalityType
<1> QED
  BY <1>6, <1>7, <1>8, <1>9, <1>10, <1>11, <1>12 DEF CapInv, CatalogAssumption

(* What a page adds is counted apart, and a default has its place.         *)
LEMMA OthersTakeNoPlace ==
  ASSUME CatalogAssumption, ShelfInv, CapInv, NEW t \in Turns,
         Step(t), ~CreateByTool(t), ~SaveCategory(t)
  PROVE  CapInv'
<1>1. Placed' \subseteq Placed
  <2>1. \/ turns' = turns
        \/ \E x : turns' = [turns EXCEPT ![t] = x] /\ x.at # "create"
    <3>1. CASE Browse(t)
      <4> DEFINE x == [at |-> "reconcile", read |-> cats, changes |-> ReconcileDefaultCategories(cats)]
      <4>1. turns' = [turns EXCEPT ![t] = x] /\ x.at # "create"
        BY <3>1 DEF Browse, Now
      <4> QED
        BY <4>1
    <3>2. CASE Reconcile(t)
      <4>1. PICK k : turns' = [turns EXCEPT ![t] = [turns[t] EXCEPT !.changes = @ \ {k}]]
        BY <3>2 DEF Reconcile, Now
      <4> DEFINE x == [turns[t] EXCEPT !.changes = @ \ {k}]
      <4>2. turns[t] \in Reconciling
        BY <3>2, TurnIsOneOf DEF Reconcile, ShelfInv
      <4>3. turns' = [turns EXCEPT ![t] = x] /\ x.at # "create"
        BY <4>1, <4>2 DEF Reconciling
      <4> QED
        BY <4>3
    <3>3. CASE Answered(t) \/ SaveGoal(t) \/ Abandon(t)
      BY <3>3, RestFollows DEF Answered, SaveGoal, Abandon, Now
    <3>4. CASE Create(t) \/ Save(t)
      BY <3>4 DEF Create, Save
    <3>5. CASE DefinirMeta(t)
      <4>1. PICK m \in Months, g \in AskedGoals, readable \in BOOLEAN : turns' = [turns EXCEPT ![t] =
              [at |-> "goal", month |-> m, read |-> goals[m], readable |-> readable, asked |-> g,
               new |-> Merge(g, IF goals[m] = Absent \/ ~readable THEN NoGoal ELSE goals[m])]]
        BY <3>5 DEF DefinirMeta, Now
      <4> DEFINE n == Merge(g, IF goals[m] = Absent \/ ~readable THEN NoGoal ELSE goals[m])
                 x == [at |-> "goal", month |-> m, read |-> goals[m], readable |-> readable,
                       asked |-> g, new |-> n]
      <4>2. turns' = [turns EXCEPT ![t] = x] /\ x.at # "create"
        BY <4>1
      <4> QED
        BY <4>2
    <3> QED
      BY <3>1, <3>2, <3>3, <3>4, <3>5 DEF Step
  <2> QED
    BY <2>1 DEF Placed, ShelfInv
<1>2. Listed' \subseteq Listed \cup added' /\ IsFiniteSet(Listed') /\ added \subseteq added'
  <2>1. CASE UNCHANGED <<cats, added>>
    BY <2>1 DEF CapInv, Listed, bySlug
  <2>2. CASE Create(t)
    <3>1. PICK c \in Asked : /\ cats' = [cats EXCEPT ![c.slug] = c]
                             /\ added' = IF cats[c.slug] = Absent THEN added \cup {c.slug} ELSE added
      BY <2>2 DEF Create
    <3>2. \A r \in Slugs : r # c.slug => cats'[r] = cats[r]
      BY <3>1 DEF ShelfInv, Catalogs
    <3>3. Listed' = {r \in Slugs : cats'[r] # Absent \/ \E d \in Defaults : d.slug = r}
      BY ListedAre DEF Listed
    <3>4. Listed' \subseteq Listed \cup {c.slug}
      BY <3>2, <3>3, ListedAre DEF Listed
    <3>5. c.slug \in Slugs /\ (cats[c.slug] # Absent => c.slug \in Listed)
      BY ListedAre DEF Listed, Slugs
    <3>6. IsFiniteSet(Listed \cup {c.slug})
      BY FS_AddElement DEF CapInv
    <3>7. IsFiniteSet(Listed')
      BY <3>4, <3>6, FS_Subset
    <3> QED
      BY <3>1, <3>4, <3>5, <3>7
  <2>3. CASE Reconcile(t)
    <3>1. turns[t] \in Reconciling
      BY <2>3, TurnIsOneOf DEF Reconcile, ShelfInv
    <3>2. PICK k \in turns[t].changes :
            cats' \in {cats, [cats EXCEPT ![DefaultCategories[k].slug] = DefaultCategories[k]]}
      BY <2>3 DEF Reconcile
    <3>3. k \in DOMAIN DefaultCategories
      BY <3>1 DEF Reconciling, Changes
    <3>4. \A r \in Slugs : cats'[r] = cats[r] \/ \E d \in Defaults : d.slug = r
      <4>1. \A r \in Slugs : r # DefaultCategories[k].slug => cats'[r] = cats[r]
        BY <3>2 DEF ShelfInv, Catalogs
      <4>2. DefaultCategories[k] \in Defaults
        BY <3>3, DefaultsAreFiled
      <4> QED
        BY <4>1, <4>2
    <3>5. Listed' = {r \in Slugs : cats'[r] # Absent \/ \E d \in Defaults : d.slug = r}
      BY ListedAre DEF Listed
    <3>6. Listed' \subseteq Listed /\ added' = added
      <4>1. Listed = {r \in Slugs : cats[r] # Absent \/ \E d \in Defaults : d.slug = r}
        BY ListedAre DEF Listed
      <4>2. added' = added
        BY <2>3 DEF Reconcile
      <4> QED
        BY <3>4, <3>5, <4>1, <4>2
    <3>7. IsFiniteSet(Listed')
      BY <3>6, FS_Subset DEF CapInv
    <3> QED
      BY <3>6, <3>7
  <2> QED
    BY <2>1, <2>2, <2>3 DEF Step, Browse, Answered, Save, DefinirMeta, SaveGoal, Abandon
<1>3. Capped' \subseteq Capped
  BY <1>2 DEF Capped
<1> QED
  BY <1>1, <1>2, <1>3, NothingIsPlaced

LEMMA CapNext ==
  ASSUME CatalogAssumption, ShelfInv, CapInv, [Next]_catalogVars
  PROVE  CapInv'
<1>1. CASE UNCHANGED catalogVars
  BY <1>1 DEF catalogVars, CapInv, Capped, Listed, Placed, bySlug
<1>2. CASE Next
  BY <1>2, PlaceIsHeld, PlaceIsTaken, OthersTakeNoPlace DEF Next
<1> QED
  BY <1>1, <1>2

(* The categories settle and keep within the cap and the race for its last *)
(* place, for any categories, any cap and any number of turns              *)
(* (ReconcileDefaultCategories, maxUserCategories).                        *)
THEOREM CatalogIsSound ==
  ASSUME CatalogAssumption
  PROVE  Spec => []CatalogInv
<1>1. Init => CapInv
  BY CapInit
<1>2. ShelfInv /\ CapInv /\ [Next]_catalogVars => CapInv'
  BY CapNext
<1>3. ShelfInv /\ CapInv => CatalogInv
  <2> SUFFICES ASSUME ShelfInv, CapInv
               PROVE  CatalogInv
    OBVIOUS
  <2>1. TypeOK
    BY TurnIsOneOf DEF TypeOK, ShelfInv, Catalogs, Goals, Stored
  <2>2. CapIsOvershotByConcurrencyOnly
    BY CappedIsFinite, PlacesAreFinite
    DEF CapIsOvershotByConcurrencyOnly, CapInv, Capped, Listed, CatalogAssumption
  <2> QED
    BY <2>1, <2>2, ReadingSettles DEF CatalogInv
<1> QED
  BY <1>1, <1>2, <1>3, ShelfInvariant, PTL DEF Spec

-----------------------------------------------------------------------------
(* What is lost is lost to a race.                                         *)

(* A step that moves turn t is a step of turn t.                           *)
LEMMA MovedByItself ==
  ASSUME ShelfInv, Next, NEW t \in Turns, turns'[t] # turns[t]
  PROVE  Step(t) /\ ~Create(t) /\ ~Save(t)
<1>1. PICK u \in Turns : Step(u)
  BY DEF Next
<1>2. turns' = turns \/ \E x : turns' = [turns EXCEPT ![u] = x]
  BY <1>1 DEF Step, Browse, Reconcile, Answered, Create, CreateByTool, SaveCategory, Save,
              DefinirMeta, SaveGoal, Abandon, Now
<1>3. u = t
  BY <1>2 DEF ShelfInv
<1> QED
  BY <1>1, <1>3 DEF Create, Save

LEMMA OwnIsKept ==
  ASSUME CatalogAssumption, ShelfInv, Next, NEW t \in Turns, NEW s \in Slugs,
         turns[t].at = "reconcile", turns'[t] # turns[t], Own(cats[s]), cats'[s] # cats[s]
  PROVE  turns[t].read[s] # cats[s]
<1>1. Step(t) /\ turns[t] \in Reconciling /\ Follows(turns[t])
  BY MovedByItself, TurnIsOneOf DEF ShelfInv
<1>2. Reconcile(t)
  BY <1>1, RestFollows
  DEF Step, Browse, Answered, Create, CreateByTool, SaveCategory, Save, DefinirMeta, SaveGoal,
      Abandon, Begin
<1>3. PICK k \in turns[t].changes :
        cats' \in {cats, [cats EXCEPT ![DefaultCategories[k].slug] = DefaultCategories[k]]}
  BY <1>2 DEF Reconcile
<1> DEFINE d == DefaultCategories[k]
<1>4. d \in Defaults /\ MustWrite(turns[t].read, d)
  BY <1>1, DefaultsAreFiled DEF Reconciling, Changes, Follows
<1>5. d.slug = s
  BY <1>3 DEF ShelfInv, Catalogs
<1>6. cats[s].slug = s /\ cats[s] # Absent /\ ~cats[s].default /\ ~SameMeaning(cats[s], d)
  BY <1>4, <1>5 DEF Own, ShelfInv, Filed
<1> QED
  BY <1>4, <1>5, <1>6 DEF MustWrite

LEMMA TargetIsKept ==
  ASSUME CatalogAssumption, ShelfInv, Next, NEW t \in Turns, turns[t].at = "goal",
         goals' # goals, turns'[t] # turns[t], turns[t].readable, NEW f \in Fields
  PROVE  \/ Given(turns[t].asked, f)
         \/ goals'[turns[t].month][f] = (IF turns[t].read = Absent THEN 0 ELSE turns[t].read[f])
<1>1. Step(t) /\ ~Save(t) /\ turns[t] \in Aiming /\ Follows(turns[t])
  BY MovedByItself, TurnIsOneOf DEF ShelfInv
<1>2. SaveGoal(t)
  BY <1>1 DEF Step, Browse, Reconcile, Answered, Create, CreateByTool, SaveCategory, DefinirMeta,
              Abandon
<1> DEFINE m == turns[t].month
           old == IF turns[t].read = Absent THEN NoGoal ELSE turns[t].read
<1>3. m \in Months /\ goals'[m] = turns[t].new
  BY <1>1, <1>2 DEF SaveGoal, ShelfInv, Aiming
<1>4. turns[t].new = Merge(turns[t].asked, old)
  BY <1>1 DEF Follows
<1>5. turns[t].new[f] = IF Given(turns[t].asked, f) THEN turns[t].asked[f] ELSE old[f]
  BY <1>4 DEF Merge
<1>6. old[f] = IF turns[t].read = Absent THEN 0 ELSE turns[t].read[f]
  BY DEF NoGoal
<1> QED
  BY <1>3, <1>5, <1>6

(* A category of the user's own is overwritten only by a read that did not *)
(* see it, and the target a call to definir_meta left out changes only     *)
(* where the goal could not be read or was changed meanwhile, for any      *)
(* number of turns at once (categories.go List, definir_meta).             *)
THEOREM LossNeedsARace ==
  ASSUME CatalogAssumption
  PROVE  Spec => OwnCategoriesArePreserved /\ OtherTargetIsKept
<1>1. ShelfInv /\ [Next]_catalogVars =>
        [\A t \in Turns, s \in Slugs :
           /\ turns[t].at = "reconcile"
           /\ turns'[t] # turns[t]
           /\ Own(cats[s])
           /\ cats'[s] # cats[s]
           => turns[t].read[s] # cats[s]]_catalogVars
  BY OwnIsKept
<1>2. ShelfInv /\ [Next]_catalogVars =>
        [\A t \in Turns :
           /\ turns[t].at = "goal"
           /\ goals' # goals /\ turns'[t] # turns[t]
           /\ turns[t].readable
           /\ goals[turns[t].month] = turns[t].read
           => \A f \in Fields :
                \/ Given(turns[t].asked, f)
                \/ goals'[turns[t].month][f] =
                     (IF turns[t].read = Absent THEN 0 ELSE turns[t].read[f])]_catalogVars
  BY TargetIsKept
<1> QED
  BY <1>1, <1>2, ShelfInvariant, PTL DEF Spec, OwnCategoriesArePreserved, OtherTargetIsKept
=============================================================================
