------------------------ MODULE CrcsSelection_proofs ------------------------
(* Type correctness, that both walks end with exactly the capabilities they  *)
(* are for, and that the path between them suffices.                         *)
EXTENDS CrcsSelection, FiniteSetTheorems, TLAPS

\* The facets a walk has taken from its queue.
Taken == visited \ queue

\* Before the walk back, nothing is needed.
BeforeBackward == phase \in {"called", "forward"} => needed = {}

\* During the walk forward: each capability's count is of the inputs not yet
\* taken, those that lack none are the ones activated, each of their outputs
\* has been queued, and none of them could be left out.
ForwardExact ==
  phase = "forward" =>
    /\ remaining =
         [c \in Active |-> Cardinality(catalog[c].inputs \ Taken)]
    /\ reached = {c \in Active : catalog[c].inputs \subseteq Taken}
    /\ visited = request.start \cup OutputsOf(reached)
    /\ \A S \in SUBSET Active : ClosedForward(S) => reached \subseteq S

\* During the walk back: the needed capabilities are the producers of what was
\* taken, each of their inputs has been queued, and none could be left out.
BackwardExact ==
  phase = "backward" =>
    /\ needed = {c \in Active : catalog[c].outputs \cap Taken # {}}
    /\ visited = Targets \cup InputsOf(needed)
    /\ \A S \in SUBSET Active : ClosedBackward(S) => needed \subseteq S

\* What the walk forward found is kept.
ForwardKept == phase = "backward" => reached = Suppliable

IInv ==
  /\ TypeOK
  /\ BeforeBackward
  /\ ForwardExact
  /\ BackwardExact
  /\ ForwardKept
  /\ SelectionIsExact
-----------------------------------------------------------------------------
(* The catalog, and what a step of a walk does to its facets.                *)

\* Each active capability has a place and finitely many facets of the catalog.
LEMMA CatalogFacts ==
  ASSUME catalog \in Catalogs
  PROVE  /\ Active \subseteq Nat
         /\ \A c \in Active :
              /\ catalog[c].inputs \subseteq Facet
              /\ catalog[c].outputs \subseteq Facet
              /\ IsFiniteSet(catalog[c].inputs)
<1>1. Active \subseteq Nat /\ catalog \in [Active -> Capability]
  BY CatalogAssumption DEF Active
<1>2. ASSUME NEW c \in Active
      PROVE  /\ catalog[c].inputs \subseteq Facet
             /\ catalog[c].outputs \subseteq Facet
             /\ IsFiniteSet(catalog[c].inputs)
  <2>1. catalog[c] \in Capability
    BY <1>1
  <2>2. catalog[c].inputs \subseteq Facet /\ catalog[c].outputs \subseteq Facet
    BY <2>1 DEF Capability
  <2> QED
    BY <2>2, FacetAssumption, FS_Subset
<1> QED
  BY <1>1, <1>2

\* A request's facets are the catalog's.
LEMMA RequestFacts ==
  ASSUME request \in Requests
  PROVE  /\ request.start \subseteq Facet
         /\ Targets \subseteq Facet
         /\ GoalFacets \subseteq Facet
         /\ request.required \subseteq Nat
<1>1. request \in RequestType
  BY RequestAssumption
<1> QED
  BY <1>1 DEF RequestType, Targets, GoalFacets

\* A step takes one facet from the queue and puts only new ones into it.
LEMMA StepTakes ==
  ASSUME queue \subseteq visited, NEW f \in queue, NEW found,
         found \cap visited = {},
         visited' = visited \cup found,
         queue' = (queue \ {f}) \cup found
  PROVE  /\ queue' \subseteq visited'
         /\ f \notin Taken
         /\ Taken' = Taken \cup {f}
BY DEF Taken

\* Counting down the inputs not yet taken.
LEMMA CountDown ==
  ASSUME NEW In, IsFiniteSet(In), NEW Got, NEW f, f \notin Got
  PROVE  /\ Cardinality(In \ Got) \in Nat
         /\ Cardinality(In \ Got) = 0 <=> In \subseteq Got
         /\ f \in In =>
              /\ Cardinality(In \ Got) > 0
              /\ Cardinality(In \ (Got \cup {f})) = Cardinality(In \ Got) - 1
         /\ f \notin In =>
              Cardinality(In \ (Got \cup {f})) = Cardinality(In \ Got)
<1> DEFINE Left == In \ Got
<1>1. IsFiniteSet(Left)
  BY FS_Subset
<1>2. Cardinality(Left) \in Nat
  BY <1>1, FS_CardinalityType
<1>3. Cardinality(Left) = 0 <=> Left = {}
  BY <1>1, FS_EmptySet
<1>4. Left = {} <=> In \subseteq Got
  OBVIOUS
<1>5. CASE f \in In
  <2>1. f \in Left /\ In \ (Got \cup {f}) = Left \ {f}
    BY <1>5
  <2>2. Cardinality(Left \ {f}) = Cardinality(Left) - 1
    BY <1>1, <2>1, FS_RemoveElement
  <2>3. Cardinality(Left) > 0
    <3>1. Cardinality(Left) # 0
      BY <1>3, <2>1
    <3> HIDE DEF Left
    <3> QED
      BY <1>2, <3>1
  <2>4. Cardinality(In \ (Got \cup {f})) = Cardinality(Left) - 1
    BY <2>1, <2>2
  <2>5. Cardinality(Left) = 0 <=> In \subseteq Got
    BY <1>3, <1>4
  <2> QED
    BY <1>2, <1>5, <2>3, <2>4, <2>5, Zenon
<1>6. CASE f \notin In
  <2>1. In \ (Got \cup {f}) = Left
    BY <1>6
  <2>2. Cardinality(Left) = 0 <=> In \subseteq Got
    BY <1>3, <1>4
  <2> QED
    BY <1>2, <1>6, <2>1, <2>2, Zenon
<1> QED
  BY <1>5, <1>6
-----------------------------------------------------------------------------
(* The reference definitions.                                                *)

\* What can be supplied is itself closed: a capability whose inputs it brings
\* is in every closed set, since it is within each of them.
LEMMA SuppliableClosed == ClosedForward(Suppliable)
<1> SUFFICES ASSUME NEW c \in Active,
                    catalog[c].inputs
                      \subseteq request.start \cup OutputsOf(Suppliable),
                    NEW S \in SUBSET Active, ClosedForward(S)
             PROVE  c \in S
  BY DEF ClosedForward, Suppliable
<1>1. Suppliable \subseteq S
  BY DEF Suppliable
<1>2. OutputsOf(Suppliable) \subseteq OutputsOf(S)
  BY <1>1 DEF OutputsOf
<1> QED
  BY <1>2 DEF ClosedForward

\* So is what helps: whatever produces one of its inputs helps too.
LEMMA HelpfulClosed == ClosedBackward(Helpful)
<1> SUFFICES ASSUME NEW c \in Active,
                    catalog[c].outputs \cap (Targets \cup InputsOf(Helpful)) # {},
                    NEW S \in SUBSET Active, ClosedBackward(S)
             PROVE  c \in S
  BY DEF ClosedBackward, Helpful
<1>1. Helpful \subseteq S
  BY DEF Helpful
<1>2. InputsOf(Helpful) \subseteq InputsOf(S)
  BY <1>1 DEF InputsOf
<1> QED
  BY <1>2 DEF ClosedBackward
-----------------------------------------------------------------------------
(* Type correctness.                                                         *)

\* The facets of capabilities are the catalog's.
LEMMA FacetsOfCapabilities ==
  ASSUME catalog \in Catalogs, NEW S \in SUBSET Active
  PROVE  InputsOf(S) \subseteq Facet /\ OutputsOf(S) \subseteq Facet
BY CatalogFacts DEF InputsOf, OutputsOf

LEMMA TypeInit == Init => TypeOK
<1> SUFFICES ASSUME Init PROVE TypeOK
  OBVIOUS
<1>1. remaining \in [Active -> Nat]
  BY DEF Init
<1>2. missing \in [capabilities : SUBSET Nat, facets : SUBSET Facet]
  BY DEF Init, NoneMissing
<1> QED
  BY <1>1, <1>2 DEF Init, TypeOK

\* Each step keeps the types: walks queue facets of the catalog, counts stay
\* natural numbers, and what is reported is of the registry or of the request.
LEMMA TypeStep == TypeOK /\ [Next]_vars => TypeOK'
<1> SUFFICES ASSUME TypeOK, [Next]_vars PROVE TypeOK'
  OBVIOUS
<1> USE DEF TypeOK
<1>1. CASE ReturnEmpty
  BY <1>1 DEF ReturnEmpty, inputVars, resultVars, Active
<1>2. CASE StartForward
  <2>1. UNCHANGED <<catalog, request, needed, rows, missing>> /\ Active' = Active
    BY <1>2 DEF StartForward, inputVars, resultVars, Active
  <2>2. reached' \subseteq Active
    BY <1>2 DEF StartForward
  <2>3. remaining' \in [Active -> Nat]
    <3>1. \A c \in Active : Cardinality(catalog[c].inputs) \in Nat
      BY CatalogFacts, FS_CardinalityType
    <3> QED
      BY <1>2, <3>1 DEF StartForward
  <2>4. visited' \subseteq Facet
    <3>1. visited' = request.start \cup OutputsOf(reached')
      BY <1>2 DEF StartForward
    <3>2. OutputsOf(reached') \subseteq Facet
      BY <2>2, FacetsOfCapabilities
    <3> QED
      BY <3>1, <3>2, RequestFacts
  <2>5. queue' = visited' /\ phase' = "forward"
    BY <1>2 DEF StartForward
  <2> QED
    BY <2>1, <2>2, <2>3, <2>4, <2>5
<1>3. CASE StartBackward
  BY <1>3, RequestFacts DEF StartBackward, inputVars, resultVars, Active
<1>4. CASE Select
  <2>1. UNCHANGED <<catalog, request, queue, visited, remaining, reached, needed>>
        /\ Active' = Active
    BY <1>4 DEF Select, inputVars, Active
  <2>2. rows' \subseteq Active
    BY <1>4 DEF Select, FirstOf, Path
  <2>3. missing' \in [capabilities : SUBSET Nat, facets : SUBSET Facet]
    <3>1. \A f \in GoalFacets : Producers(f) \subseteq Nat
      BY CatalogFacts DEF Producers
    <3>2. Pinned \subseteq Nat
      BY <3>1, RequestFacts DEF Pinned
    <3>3. Unowned \subseteq Facet
      BY RequestFacts DEF Unowned
    <3> QED
      BY <1>4, <3>2, <3>3 DEF Select
  <2>4. phase' \in {"planning", "rejected"}
    BY <1>4 DEF Select
  <2> QED
    BY <2>1, <2>2, <2>3, <2>4
<1>5. CASE \E f \in Facet : WalkForward(f)
  <2> PICK f \in Facet : WalkForward(f)
    BY <1>5
  <2>1. UNCHANGED <<catalog, request, phase, needed, rows, missing>>
        /\ Active' = Active
    BY DEF WalkForward, inputVars, resultVars, Active
  <2> DEFINE found == OutputsOf(Activated(f)) \ visited
  <2>2. Activated(f) \subseteq Active
    BY DEF Activated, Consumers
  <2>3. found \subseteq Facet
    BY <2>2, FacetsOfCapabilities
  <2>4. f \in queue /\ visited' = visited \cup found
        /\ queue' = (queue \ {f}) \cup found
    BY DEF WalkForward
  <2>5. reached' \subseteq Active
    BY <2>2 DEF WalkForward
  <2>6. remaining' \in [Active -> Nat]
    BY DEF WalkForward, Counted
  <2> QED
    BY <2>1, <2>3, <2>4, <2>5, <2>6
<1>6. CASE \E f \in Facet : WalkBackward(f)
  <2> PICK f \in Facet : WalkBackward(f)
    BY <1>6
  <2>1. UNCHANGED <<catalog, request, phase, remaining, reached, rows, missing>>
        /\ Active' = Active
    BY DEF WalkBackward, inputVars, resultVars, Active
  <2> DEFINE fresh == Producers(f) \ needed
             found == InputsOf(fresh) \ visited
  <2>2. fresh \subseteq Active
    BY DEF Producers
  <2>3. found \subseteq Facet
    BY <2>2, FacetsOfCapabilities
  <2>4. f \in queue /\ visited' = visited \cup found
        /\ queue' = (queue \ {f}) \cup found /\ needed' = needed \cup fresh
    BY DEF WalkBackward
  <2> QED
    BY <2>1, <2>2, <2>3, <2>4
<1>7. CASE UNCHANGED vars
  BY <1>7 DEF vars, Active
<1> QED
  BY <1>1, <1>2, <1>3, <1>4, <1>5, <1>6, <1>7 DEF Next

\* The catalog and the request stay what the call was given, and every facet
\* that waits has been queued.
THEOREM TypeCorrect == Spec => []TypeOK
BY TypeInit, TypeStep, PTL DEF Spec
-----------------------------------------------------------------------------
(* The walk forward.                                                         *)

\* The walk starts with nothing taken: only capabilities without inputs lack
\* none, and these are in every closed set.
LEMMA ForwardStarts ==
  ASSUME TypeOK, StartForward
  PROVE  ForwardExact'
<1>1. UNCHANGED <<catalog, request>> /\ Taken' = {}
  BY DEF StartForward, inputVars, Taken
<1>2. remaining' = [c \in Active |-> Cardinality(catalog[c].inputs \ {})]
  <2>1. \A c \in Active : catalog[c].inputs \ {} = catalog[c].inputs
    OBVIOUS
  <2> QED
    BY <2>1 DEF StartForward
<1>3. reached' = {c \in Active : catalog[c].inputs \subseteq {}}
  BY DEF StartForward
<1>4. visited' = request.start \cup OutputsOf(reached')
  BY DEF StartForward
<1>5. ASSUME NEW S \in SUBSET Active, ClosedForward(S) PROVE reached' \subseteq S
  BY <1>3, <1>5 DEF ClosedForward
<1> QED
  BY <1>1, <1>2, <1>3, <1>4, <1>5
     DEF ForwardExact, Active, OutputsOf, ClosedForward

\* A step of the walk takes one facet. The counts are again of the inputs not
\* taken, so the capabilities it activates are those whose last input this is;
\* that input was on hand or produced by a capability activated before, which
\* is in every closed set.
LEMMA ForwardGoes ==
  ASSUME TypeOK, ForwardExact, NEW f \in Facet, WalkForward(f)
  PROVE  ForwardExact'
<1> DEFINE fresh == Activated(f)
           found == OutputsOf(fresh) \ visited
<1>1. /\ phase = "forward" /\ f \in queue /\ queue \subseteq visited
      /\ UNCHANGED <<catalog, request>>
      /\ remaining' = Counted(f) /\ reached' = reached \cup fresh
      /\ visited' = visited \cup found /\ queue' = (queue \ {f}) \cup found
  BY DEF WalkForward, inputVars, TypeOK
<1>2. f \notin Taken /\ Taken' = Taken \cup {f} /\ Taken \cup {f} \subseteq visited
  <2>1. found \cap visited = {}
    OBVIOUS
  <2> HIDE DEF found
  <2>2. f \notin Taken /\ Taken' = Taken \cup {f}
    BY <1>1, <2>1, StepTakes
  <2> QED
    BY <1>1, <2>2 DEF Taken
<1>3. /\ remaining = [c \in Active |-> Cardinality(catalog[c].inputs \ Taken)]
      /\ reached = {c \in Active : catalog[c].inputs \subseteq Taken}
      /\ visited = request.start \cup OutputsOf(reached)
      /\ \A S \in SUBSET Active : ClosedForward(S) => reached \subseteq S
  BY <1>1 DEF ForwardExact
<1>4. ASSUME NEW c \in Active
      PROVE  /\ Counted(f)[c] = Cardinality(catalog[c].inputs \ (Taken \cup {f}))
             /\ Counted(f)[c] = 0 <=> catalog[c].inputs \subseteq Taken \cup {f}
  <2> DEFINE In == catalog[c].inputs
  <2>1. IsFiniteSet(In)
    BY CatalogFacts DEF TypeOK
  <2>2. remaining[c] = Cardinality(In \ Taken)
    BY <1>3
  <2>3. Counted(f)[c] = IF f \in In /\ remaining[c] > 0
                          THEN remaining[c] - 1 ELSE remaining[c]
    BY DEF Counted, Consumers
  <2>4. f \in In => remaining[c] > 0
    <3> HIDE DEF In
    <3> QED
      BY <1>2, <2>1, <2>2, CountDown
  <2>5. Counted(f)[c] = Cardinality(In \ (Taken \cup {f}))
    <3> HIDE DEF In
    <3> QED
      BY <1>2, <2>1, <2>2, <2>3, <2>4, CountDown
  <2>6. Cardinality(In \ (Taken \cup {f})) = 0 <=> In \subseteq Taken \cup {f}
    <3>1. IsFiniteSet(In \ (Taken \cup {f}))
      BY <2>1, FS_Subset
    <3>2. Cardinality(In \ (Taken \cup {f})) = 0 <=> In \ (Taken \cup {f}) = {}
      BY <3>1, FS_EmptySet
    <3>3. In \ (Taken \cup {f}) = {} <=> In \subseteq Taken \cup {f}
      OBVIOUS
    <3> QED
      BY <3>2, <3>3, Zenon
  <2> QED
    BY <2>5, <2>6
<1>5. remaining' = [c \in Active |-> Cardinality(catalog[c].inputs \ (Taken \cup {f}))]
  <2>1. Counted(f) = [c \in Active |-> Counted(f)[c]]
    BY DEF Counted
  <2> QED
    BY <1>1, <1>4, <2>1
<1>6. reached' = {c \in Active : catalog[c].inputs \subseteq Taken \cup {f}}
  <2>1. ASSUME NEW c \in Active
        PROVE  c \in fresh <=> /\ catalog[c].inputs \subseteq Taken \cup {f}
                               /\ ~ (catalog[c].inputs \subseteq Taken)
    BY <1>3, <1>4 DEF Activated, Consumers
  <2>2. fresh \subseteq Active /\ reached \subseteq Active
    BY DEF Activated, Consumers, TypeOK
  <2> HIDE DEF fresh
  <2>3. \A c \in Active : c \in reached <=> catalog[c].inputs \subseteq Taken
    BY <1>3
  <2> QED
    BY <1>1, <2>1, <2>2, <2>3
<1>7. visited' = request.start \cup OutputsOf(reached')
  <2>1. OutputsOf(reached \cup fresh) = OutputsOf(reached) \cup OutputsOf(fresh)
    BY DEF OutputsOf
  <2> QED
    BY <1>1, <1>3, <2>1
<1>8. ASSUME NEW S \in SUBSET Active, ClosedForward(S) PROVE reached' \subseteq S
  <2>1. reached \subseteq S
    BY <1>3, <1>8
  <2>2. OutputsOf(reached) \subseteq OutputsOf(S)
    BY <2>1 DEF OutputsOf
  <2>3. ASSUME NEW c \in reached' PROVE c \in S
    <3>1. c \in Active /\ catalog[c].inputs \subseteq Taken \cup {f}
      BY <1>6
    <3>2. catalog[c].inputs \subseteq request.start \cup OutputsOf(S)
      BY <1>2, <1>3, <2>2, <3>1
    <3> QED
      BY <1>8, <3>1, <3>2 DEF ClosedForward
  <2> QED
    BY <2>3
<1>9. catalog' = catalog /\ request' = request
  BY <1>1
<1> HIDE DEF fresh, found
<1>10. (remaining = [c \in Active |-> Cardinality(catalog[c].inputs \ Taken)])'
  BY <1>2, <1>5, <1>9 DEF Active
<1>11. (reached = {c \in Active : catalog[c].inputs \subseteq Taken})'
  BY <1>2, <1>6, <1>9 DEF Active
<1>12. (visited = request.start \cup OutputsOf(reached))'
  BY <1>7, <1>9 DEF OutputsOf
<1>13. (\A S \in SUBSET Active : ClosedForward(S) => reached \subseteq S)'
  <2>1. \A S : ClosedForward(S)' => ClosedForward(S)
    BY <1>9 DEF ClosedForward, Active, OutputsOf
  <2> QED
    BY <1>8, <1>9, <2>1 DEF Active
<1> QED
  BY <1>10, <1>11, <1>12, <1>13 DEF ForwardExact

\* When all queued facets have been taken, the activated capabilities are a
\* closed set, and so the least one.
LEMMA ForwardEnds ==
  ASSUME TypeOK, ForwardExact, phase = "forward", queue = {}
  PROVE  reached = Suppliable
<1>1. /\ Taken = request.start \cup OutputsOf(reached)
      /\ reached = {c \in Active : catalog[c].inputs \subseteq Taken}
      /\ \A S \in SUBSET Active : ClosedForward(S) => reached \subseteq S
  BY DEF ForwardExact, Taken
<1>2. reached \in SUBSET Active /\ ClosedForward(reached)
  BY <1>1 DEF ClosedForward
<1>3. Suppliable \subseteq reached
  BY <1>2 DEF Suppliable
<1>4. reached \subseteq Suppliable
  BY <1>1, <1>2 DEF Suppliable
<1> QED
  BY <1>3, <1>4
-----------------------------------------------------------------------------
(* The walk back.                                                            *)

\* The walk starts from the targets with nothing needed.
LEMMA BackwardStarts ==
  ASSUME BeforeBackward, needed = {}, StartBackward
  PROVE  BackwardExact'
<1>1. /\ catalog' = catalog /\ request' = request /\ needed' = {}
      /\ Taken' = {} /\ visited' = Targets
  BY DEF StartBackward, inputVars, resultVars, Taken
<1>2. (needed = {c \in Active : catalog[c].outputs \cap Taken # {}})'
  BY <1>1
<1>3. (visited = Targets \cup InputsOf(needed))'
  BY <1>1 DEF Targets, InputsOf
<1>4. (\A S \in SUBSET Active : ClosedBackward(S) => needed \subseteq S)'
  BY <1>1
<1> QED
  BY <1>2, <1>3, <1>4 DEF BackwardExact

\* A step of the walk takes one facet, which is a target or an input of a
\* needed capability, so whatever produces it is in every closed set.
LEMMA BackwardGoes ==
  ASSUME TypeOK, BackwardExact, NEW f \in Facet, WalkBackward(f)
  PROVE  BackwardExact'
<1> DEFINE fresh == Producers(f) \ needed
           found == InputsOf(fresh) \ visited
<1>1. /\ phase = "backward" /\ f \in queue /\ queue \subseteq visited
      /\ catalog' = catalog /\ request' = request
      /\ needed' = needed \cup fresh
      /\ visited' = visited \cup found /\ queue' = (queue \ {f}) \cup found
  BY DEF WalkBackward, inputVars, TypeOK
<1>2. Taken' = Taken \cup {f} /\ f \in visited
  <2>1. found \cap visited = {}
    OBVIOUS
  <2> HIDE DEF found
  <2> QED
    BY <1>1, <2>1, StepTakes
<1>3. /\ needed = {c \in Active : catalog[c].outputs \cap Taken # {}}
      /\ visited = Targets \cup InputsOf(needed)
      /\ \A S \in SUBSET Active : ClosedBackward(S) => needed \subseteq S
  BY <1>1 DEF BackwardExact
<1>4. needed' = {c \in Active : catalog[c].outputs \cap (Taken \cup {f}) # {}}
  BY <1>1, <1>3 DEF Producers
<1>5. visited' = Targets \cup InputsOf(needed')
  <2>1. InputsOf(needed \cup fresh) = InputsOf(needed) \cup InputsOf(fresh)
    BY DEF InputsOf
  <2> QED
    BY <1>1, <1>3, <2>1
<1>6. ASSUME NEW S \in SUBSET Active, ClosedBackward(S) PROVE needed' \subseteq S
  <2>1. needed \subseteq S
    BY <1>3, <1>6
  <2>2. InputsOf(needed) \subseteq InputsOf(S)
    BY <2>1 DEF InputsOf
  <2>3. f \in Targets \cup InputsOf(S)
    BY <1>2, <1>3, <2>2
  <2>4. Producers(f) \subseteq S
    BY <1>6, <2>3 DEF ClosedBackward, Producers
  <2> QED
    BY <1>1, <2>1, <2>4
<1> HIDE DEF fresh, found
<1>7. (needed = {c \in Active : catalog[c].outputs \cap Taken # {}})'
  BY <1>1, <1>2, <1>4 DEF Active
<1>8. (visited = Targets \cup InputsOf(needed))'
  BY <1>1, <1>5 DEF Targets, InputsOf
<1>9. (\A S \in SUBSET Active : ClosedBackward(S) => needed \subseteq S)'
  <2>1. \A S : ClosedBackward(S)' => ClosedBackward(S)
    BY <1>1 DEF ClosedBackward, Active, Targets, InputsOf
  <2> QED
    BY <1>1, <1>6, <2>1 DEF Active
<1> QED
  BY <1>7, <1>8, <1>9 DEF BackwardExact

\* When all queued facets have been taken, the needed capabilities are a
\* closed set, and so the least one.
LEMMA BackwardEnds ==
  ASSUME TypeOK, BackwardExact, phase = "backward", queue = {}
  PROVE  needed = Helpful
<1>1. /\ Taken = Targets \cup InputsOf(needed)
      /\ needed = {c \in Active : catalog[c].outputs \cap Taken # {}}
      /\ \A S \in SUBSET Active : ClosedBackward(S) => needed \subseteq S
  BY DEF BackwardExact, Taken
<1>2. needed \in SUBSET Active /\ ClosedBackward(needed)
  BY <1>1 DEF ClosedBackward
<1>3. Helpful \subseteq needed
  BY <1>2 DEF Helpful
<1>4. needed \subseteq Helpful
  BY <1>1, <1>2 DEF Helpful
<1> QED
  BY <1>3, <1>4
-----------------------------------------------------------------------------
(* Both walks.                                                               *)

LEMMA InvInit == Init => IInv
<1> SUFFICES ASSUME Init PROVE IInv
  OBVIOUS
<1>1. phase = "called" /\ needed = {}
  BY DEF Init
<1> QED
  BY <1>1, TypeInit
     DEF IInv, BeforeBackward, ForwardExact, BackwardExact, ForwardKept,
         SelectionIsExact, Selected

\* What the walks should find does not change while they run.
LEMMA ReferenceKept ==
  ASSUME UNCHANGED <<catalog, request>>
  PROVE  Suppliable' = Suppliable /\ Helpful' = Helpful /\ Active' = Active
<1>1. \A S : /\ ClosedForward(S)' <=> ClosedForward(S)
             /\ ClosedBackward(S)' <=> ClosedBackward(S)
  BY DEF ClosedForward, ClosedBackward, Active, InputsOf, OutputsOf, Targets
<1> QED
  BY <1>1 DEF Suppliable, Helpful, Active

LEMMA InvStep == IInv /\ [Next]_vars => IInv'
<1> SUFFICES ASSUME IInv, [Next]_vars PROVE IInv'
  OBVIOUS
<1>1. TypeOK /\ TypeOK'
  BY TypeStep DEF IInv
<1> USE DEF IInv, BeforeBackward, ForwardKept, SelectionIsExact, Selected
<1>2. CASE ReturnEmpty
  BY <1>1, <1>2
     DEF ReturnEmpty, ForwardExact, BackwardExact, inputVars, Active
<1>3. CASE StartForward
  <2>1. phase' = "forward" /\ needed' = {}
    BY <1>3 DEF StartForward
  <2>2. ForwardExact'
    BY <1>1, <1>3, ForwardStarts
  <2> QED
    BY <1>1, <2>1, <2>2 DEF BackwardExact
<1>4. CASE \E f \in Facet : WalkForward(f)
  <2> PICK f \in Facet : WalkForward(f)
    BY <1>4
  <2>1. phase = "forward" /\ phase' = "forward" /\ needed' = needed
    BY DEF WalkForward
  <2>2. ForwardExact'
    BY <1>1, ForwardGoes
  <2> QED
    BY <1>1, <2>1, <2>2 DEF BackwardExact
<1>5. CASE StartBackward
  <2>1. /\ phase = "forward" /\ queue = {} /\ phase' = "backward"
        /\ UNCHANGED <<catalog, request, reached>>
    BY <1>5 DEF StartBackward, inputVars
  <2>2. reached = Suppliable
    BY <1>1, <2>1, ForwardEnds
  <2>3. BackwardExact'
    BY <1>5, <2>1, BackwardStarts
  <2> QED
    BY <1>1, <2>1, <2>2, <2>3, ReferenceKept DEF ForwardExact
<1>6. CASE \E f \in Facet : WalkBackward(f)
  <2> PICK f \in Facet : WalkBackward(f)
    BY <1>6
  <2>1. /\ phase = "backward" /\ phase' = "backward"
        /\ UNCHANGED <<catalog, request, reached>>
    BY DEF WalkBackward, inputVars
  <2>2. BackwardExact'
    BY <1>1, BackwardGoes
  <2> QED
    BY <1>1, <2>1, <2>2, ReferenceKept DEF ForwardExact
<1>7. CASE Select
  <2>1. /\ phase = "backward" /\ queue = {}
        /\ phase' \in {"planning", "rejected"}
        /\ UNCHANGED <<catalog, request, reached, needed>>
    BY <1>7 DEF Select, inputVars
  <2>2. reached = Suppliable /\ needed = Helpful
    BY <1>1, <2>1, BackwardEnds
  <2> QED
    BY <1>1, <2>1, <2>2, ReferenceKept DEF ForwardExact, BackwardExact
<1>8. CASE UNCHANGED vars
  <2>1. UNCHANGED <<catalog, request, phase, queue, visited, remaining,
                    reached, needed>>
    BY <1>8 DEF vars
  <2>2. \A S : /\ ClosedForward(S)' <=> ClosedForward(S)
               /\ ClosedBackward(S)' <=> ClosedBackward(S)
    BY <2>1 DEF ClosedForward, ClosedBackward, Active, InputsOf, OutputsOf, Targets
  <2>3. ForwardExact'
    BY <2>1, <2>2 DEF ForwardExact, Active, OutputsOf, Taken
  <2>4. BackwardExact'
    BY <2>1, <2>2 DEF BackwardExact, Active, InputsOf, Targets, Taken
  <2> QED
    BY <1>1, <2>1, <2>3, <2>4, ReferenceKept
<1> QED
  BY <1>2, <1>3, <1>4, <1>5, <1>6, <1>7, <1>8 DEF Next

\* For any catalog, request and order of the queues, the two walks end with
\* exactly what can be supplied and what helps to produce a target.
THEOREM SelectionExact == Spec => []SelectionIsExact
<1>1. IInv => SelectionIsExact
  BY DEF IInv
<1> QED
  BY InvInit, InvStep, <1>1, PTL DEF Spec
-----------------------------------------------------------------------------
(* What the path between the walks is good for.                              *)

\* A set closed within the path, with the capabilities that can be supplied
\* but help nothing, is closed: these others bring a capability of the path
\* nothing, since whatever brings it an input helps.
LEMMA PathIsClosed ==
  ASSUME reached = Suppliable, needed = Helpful,
         NEW S \in SUBSET Path,
         \A c \in Path :
           catalog[c].inputs \subseteq request.start \cup OutputsOf(S) => c \in S
  PROVE  ClosedForward(S \cup (reached \ needed))
<1> DEFINE T == S \cup (reached \ needed)
<1>1. ClosedForward(reached) /\ ClosedBackward(needed)
  BY SuppliableClosed, HelpfulClosed
<1>2. S \subseteq reached /\ T \subseteq reached /\ needed \subseteq Active
      /\ reached \subseteq Active
  BY DEF Path, Suppliable, Helpful
<1> SUFFICES ASSUME NEW c \in Active,
                    catalog[c].inputs \subseteq request.start \cup OutputsOf(T)
             PROVE  c \in T
  BY DEF ClosedForward
<1>3. c \in reached
  <2>1. OutputsOf(T) \subseteq OutputsOf(reached)
    BY <1>2 DEF OutputsOf
  <2> QED
    BY <1>1, <2>1 DEF ClosedForward
<1>4. CASE c \notin needed
  BY <1>3, <1>4
<1>5. CASE c \in needed
  <2>1. c \in Path
    BY <1>3, <1>5 DEF Path
  <2>2. ASSUME NEW f \in catalog[c].inputs, f \notin request.start
        PROVE  f \in OutputsOf(S)
    <3>1. PICK d \in T : f \in catalog[d].outputs
      BY <2>2 DEF OutputsOf
    <3>2. d \in Active /\ f \in InputsOf(needed)
      BY <1>2, <1>5, <3>1 DEF InputsOf
    <3>3. d \in needed
      BY <1>1, <3>1, <3>2 DEF ClosedBackward
    <3> QED
      BY <3>1, <3>3 DEF OutputsOf
  <2>3. catalog[c].inputs \subseteq request.start \cup OutputsOf(S)
    BY <2>2
  <2> QED
    BY <2>1, <2>3
<1> QED
  BY <1>4, <1>5

\* Capabilities that produce a target help, so the path has all of them that
\* can be supplied.
LEMMA PathReachesTargets ==
  ASSUME reached = Suppliable, needed = Helpful
  PROVE  Targets \cap OutputsOf(Suppliable) \subseteq OutputsOf(Path)
<1> SUFFICES ASSUME NEW f \in Targets, NEW c \in Suppliable,
                    f \in catalog[c].outputs
             PROVE  f \in OutputsOf(Path)
  BY DEF OutputsOf
<1>1. c \in Active
  BY DEF Suppliable
<1>2. c \in Helpful
  BY <1>1, HelpfulClosed DEF ClosedBackward
<1>3. c \in Path
  BY <1>2 DEF Path
<1> QED
  BY <1>3 DEF OutputsOf

\* Narrowing the registry to the path loses nothing.
LEMMA ExactSuffices == SelectionIsExact => PathSuffices
<1> SUFFICES ASSUME SelectionIsExact, Selected
             PROVE  /\ \A S \in SUBSET Path :
                         (\A c \in Path :
                            catalog[c].inputs
                              \subseteq request.start \cup OutputsOf(S)
                            => c \in S)
                         => S = Path
                    /\ Targets \cap OutputsOf(Suppliable)
                         \subseteq OutputsOf(Path)
  BY DEF PathSuffices
<1>1. reached = Suppliable /\ needed = Helpful
  BY DEF SelectionIsExact
<1>2. ASSUME NEW S \in SUBSET Path,
             \A c \in Path :
               catalog[c].inputs \subseteq request.start \cup OutputsOf(S)
               => c \in S
      PROVE  S = Path
  <2> DEFINE T == S \cup (reached \ needed)
  <2>1. ClosedForward(T)
    BY <1>1, <1>2, PathIsClosed
  <2>2. T \in SUBSET Active
    BY <1>1 DEF Path, Suppliable
  <2>3. reached \subseteq T
    BY <1>1, <2>1, <2>2 DEF Suppliable
  <2> QED
    BY <2>3 DEF Path
<1> QED
  BY <1>1, <1>2, PathReachesTargets

\* Whatever the registry offers, the capabilities on the path can be supplied
\* by each other alone and reach every target the registry can reach.
THEOREM PathEnough == Spec => []PathSuffices
<1>1. IInv => PathSuffices
  BY ExactSuffices DEF IInv
<1> QED
  BY InvInit, InvStep, <1>1, PTL DEF Spec
-----------------------------------------------------------------------------
(* The walks end, and what a plan may count on.                              *)

\* Every step within a walk takes a facet that the walk has not taken before,
\* so a walk has at most as many steps as there are facets: none is queued
\* twice (the visitedFacets of both walks).
TakesNewFacets == phase' = phase => \E f \in Facet \ Taken : Taken' = Taken \cup {f}

LEMMA StepTakesNew == TypeOK /\ Next => TakesNewFacets
<1> SUFFICES ASSUME TypeOK, Next, phase' = phase
             PROVE  \E f \in Facet \ Taken : Taken' = Taken \cup {f}
  BY DEF TakesNewFacets
<1>1. CASE \E f \in Facet : WalkForward(f)
  <2> PICK f \in Facet : WalkForward(f)
    BY <1>1
  <2> DEFINE found == OutputsOf(Activated(f)) \ visited
  <2>1. f \in queue /\ queue \subseteq visited /\ visited' = visited \cup found
        /\ queue' = (queue \ {f}) \cup found
    BY DEF WalkForward, TypeOK
  <2>2. found \cap visited = {}
    OBVIOUS
  <2> HIDE DEF found
  <2> QED
    BY <2>1, <2>2, StepTakes
<1>2. CASE \E f \in Facet : WalkBackward(f)
  <2> PICK f \in Facet : WalkBackward(f)
    BY <1>2
  <2> DEFINE found == InputsOf(Producers(f) \ needed) \ visited
  <2>1. f \in queue /\ queue \subseteq visited /\ visited' = visited \cup found
        /\ queue' = (queue \ {f}) \cup found
    BY DEF WalkBackward, TypeOK
  <2>2. found \cap visited = {}
    OBVIOUS
  <2> HIDE DEF found
  <2> QED
    BY <2>1, <2>2, StepTakes
<1> QED
  BY <1>1, <1>2 DEF Next, ReturnEmpty, StartForward, StartBackward, Select

THEOREM WalksTakeNew == Spec => [][TakesNewFacets]_vars
<1>1. TypeOK /\ [Next]_vars => [TakesNewFacets]_vars
  BY StepTakesNew
<1> QED
  BY TypeCorrect, <1>1, PTL DEF Spec

\* The planner is called only for goals that can be met: unless the registry
\* is empty, each facet of a goal condition has a producer on the path, and no
\* capability a policy names is off it (MissingPinnedCapabilitiesError).
PlannedIsReachable ==
  phase = "planning" /\ Active # {} =>
    /\ request.required \subseteq Suppliable \cap Helpful
    /\ \A f \in GoalFacets :
         \E c \in Suppliable \cap Helpful : f \in catalog[c].outputs

\* The check of the pins, and what was on the path when it was made.
PinsChecked ==
  phase = "planning" /\ Active # {} => Pinned \subseteq Path /\ Unowned = {}

LEMMA PinsStep == PinsChecked /\ [Next]_vars => PinsChecked'
<1> SUFFICES ASSUME PinsChecked, [Next]_vars, (phase = "planning" /\ Active # {})'
             PROVE  (Pinned \subseteq Path /\ Unowned = {})'
  BY DEF PinsChecked
<1> USE DEF Pinned, Path, Unowned, Producers, Active, GoalFacets
<1>1. CASE Select
  <2>1. /\ catalog' = catalog /\ request' = request
        /\ reached' = reached /\ needed' = needed
    BY <1>1 DEF Select, inputVars
  <2>2. [capabilities |-> Pinned \ Path, facets |-> Unowned] = NoneMissing
    BY <1>1 DEF Select
  <2>3. Pinned \ Path = {} /\ Unowned = {}
    <3> HIDE DEF Pinned, Path, Unowned
    <3> QED
      BY <2>2 DEF NoneMissing
  <2> QED
    BY <2>1, <2>3
<1>2. CASE UNCHANGED vars
  BY <1>2 DEF vars, PinsChecked
<1> QED
  BY <1>1, <1>2
     DEF Next, ReturnEmpty, StartForward, StartBackward, WalkForward,
         WalkBackward, inputVars

THEOREM PlannedReachable == Spec => []PlannedIsReachable
<1>1. Init => PinsChecked
  BY DEF Init, PinsChecked
<1>2. SelectionIsExact /\ PinsChecked => PlannedIsReachable
  <2> SUFFICES ASSUME SelectionIsExact, PinsChecked, phase = "planning", Active # {}
               PROVE  /\ request.required \subseteq Suppliable \cap Helpful
                      /\ \A f \in GoalFacets :
                           \E c \in Suppliable \cap Helpful :
                             f \in catalog[c].outputs
    BY DEF PlannedIsReachable
  <2>1. Path = Suppliable \cap Helpful
    BY DEF SelectionIsExact, Selected, Path
  <2>2. Pinned \subseteq Path /\ Unowned = {}
    BY DEF PinsChecked
  <2>3. ASSUME NEW f \in GoalFacets
        PROVE  \E c \in Path : f \in catalog[c].outputs
    <3>1. Producers(f) # {}
      BY <2>2 DEF Unowned
    <3>2. Producers(f) \subseteq Path
      BY <2>2 DEF Pinned
    <3> QED
      BY <3>1, <3>2 DEF Producers
  <2> QED
    BY <2>1, <2>2, <2>3 DEF Pinned
<1> QED
  BY SelectionExact, PinsStep, <1>1, <1>2, PTL DEF Spec
=============================================================================
