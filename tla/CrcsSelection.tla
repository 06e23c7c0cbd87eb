--------------------------- MODULE CrcsSelection ---------------------------
(* How the planner's view of the registry is narrowed: computeCrcsSnapshot   *)
(* walks from the facets a run has to the capabilities they can supply, from *)
(* the facets it owes back to the capabilities that help produce them, and   *)
(* lists those on both walks; buildPlan refuses to plan when a capability    *)
(* that a policy or a goal condition pins is not among them.                 *)
(*                                                                           *)
(* A capability is its place in the registry's list, so that "<" is the      *)
(* order of the rows. The two queues are sets: a walk takes any facet that   *)
(* waits, whatever the order facets were queued in.                          *)
EXTENDS Naturals, FiniteSets

CONSTANTS
  Facet,      \* the facets of the catalog
  Catalogs,   \* active capabilities, as functions to their facets
  Requests,   \* what a planning call brings
  RowCap      \* FLEX_PLANNER_CRCS_MAX_ROWS

Capability == [inputs : SUBSET Facet, outputs : SUBSET Facet]

\* What is on hand, what is owed, the facets of the goal conditions and of
\* those that failed, and the capabilities policies name, active or not.
RequestType == [start : SUBSET Facet, owed : SUBSET Facet,
                goals : SUBSET Facet, failed : SUBSET Facet,
                required : SUBSET Nat]

ASSUME FacetAssumption == IsFiniteSet(Facet)
ASSUME CatalogAssumption ==
  \A k \in Catalogs :
    /\ DOMAIN k \subseteq Nat
    /\ IsFiniteSet(DOMAIN k)
    /\ k \in [DOMAIN k -> Capability]
ASSUME RequestAssumption == Requests \subseteq RequestType
ASSUME RowCapAssumption == RowCap \in Nat \ {0}

VARIABLES
  catalog,    \* the active capabilities of the snapshot, by place
  request,    \* the arguments of the call
  phase,      \* "called", "forward", "backward", "planning" or "rejected"
  queue,      \* the facets the current walk has still to take
  visited,    \* the facets it has queued so far
  remaining,  \* remainingInputs: how many inputs a capability still lacks
  reached,    \* forwardCaps
  needed,     \* backwardCaps
  rows,       \* the capabilities the planner is shown
  missing     \* missingPinnedCapabilityIds: capabilities and goal facets

vars == <<catalog, request, phase, queue, visited, remaining, reached,
          needed, rows, missing>>
inputVars == <<catalog, request>>
resultVars == <<rows, missing>>

Active == DOMAIN catalog
InputsOf(S) == UNION {catalog[c].inputs : c \in S}
OutputsOf(S) == UNION {catalog[c].outputs : c \in S}
Consumers(f) == {c \in Active : f \in catalog[c].inputs}
Producers(f) == {c \in Active : f \in catalog[c].outputs}

Targets == request.owed \cup request.goals
Path == reached \cap needed

\* The capabilities that a policy names or that produce a facet of a goal, and
\* the goal facets that nothing produces.
GoalFacets == request.goals \cup request.failed
Pinned == request.required \cup UNION {Producers(f) : f \in GoalFacets}
Unowned == {f \in GoalFacets : Producers(f) = {}}

\* The first n members of S in registry order.
FirstOf(S, n) == {c \in S : Cardinality({d \in S : d < c}) < n}

NoneMissing == [capabilities |-> {}, facets |-> {}]

Init ==
  /\ catalog \in Catalogs
  /\ request \in Requests
  /\ phase = "called"
  /\ queue = {} /\ visited = {}
  /\ remaining = [c \in Active |-> 0]
  /\ reached = {} /\ needed = {} /\ rows = {}
  /\ missing = NoneMissing

\* With no active capability the call returns at once, and reports no pin
\* missing: the planner goes on with an empty table.
ReturnEmpty ==
  /\ phase = "called" /\ Active = {}
  /\ phase' = "planning"
  /\ UNCHANGED <<inputVars, queue, visited, remaining, reached, needed,
                 resultVars>>

\* Capabilities without inputs are activated before the first facet is taken.
StartForward ==
  /\ phase = "called" /\ Active # {}
  /\ phase' = "forward"
  /\ remaining' = [c \in Active |-> Cardinality(catalog[c].inputs)]
  /\ reached' = {c \in Active : catalog[c].inputs = {}}
  /\ visited' = request.start \cup OutputsOf(reached')
  /\ queue' = visited'
  /\ UNCHANGED <<inputVars, needed, resultVars>>

\* A facet is there: its consumers lack one input less, and those that lack
\* none are activated, which brings their outputs.
Counted(f) ==
  [c \in Active |-> IF c \in Consumers(f) /\ remaining[c] > 0
                      THEN remaining[c] - 1 ELSE remaining[c]]

\* Mutant: the first input that is there activates a consumer.
Activated_AnyInput(f) == Consumers(f) \ reached

Activated(f) == {c \in Consumers(f) : Counted(f)[c] = 0} \ reached

WalkForward(f) ==
  /\ phase = "forward"
  /\ f \in queue
  /\ remaining' = Counted(f)
  /\ reached' = reached \cup Activated(f)
  /\ LET found == OutputsOf(Activated(f)) \ visited
     IN /\ visited' = visited \cup found
        /\ queue' = (queue \ {f}) \cup found
  /\ UNCHANGED <<inputVars, phase, needed, resultVars>>

StartBackward ==
  /\ phase = "forward" /\ queue = {}
  /\ phase' = "backward"
  /\ visited' = Targets
  /\ queue' = Targets
  /\ UNCHANGED <<inputVars, remaining, reached, needed, resultVars>>

\* A facet is wanted: whatever produces it is needed, with its inputs.
WalkBackward(f) ==
  /\ phase = "backward"
  /\ f \in queue
  /\ LET fresh == Producers(f) \ needed
         found == InputsOf(fresh) \ visited
     IN /\ needed' = needed \cup fresh
        /\ visited' = visited \cup found
        /\ queue' = (queue \ {f}) \cup found
  /\ UNCHANGED <<inputVars, phase, remaining, reached, resultVars>>

\* Both walks have ended: the table is cut to its cap, and the planner is
\* called only if no pin is missing.
Select ==
  /\ phase = "backward" /\ queue = {}
  /\ rows' = FirstOf(Path, RowCap)
  /\ missing' = [capabilities |-> Pinned \ Path, facets |-> Unowned]
  /\ phase' = IF missing' = NoneMissing THEN "planning" ELSE "rejected"
  /\ UNCHANGED <<inputVars, queue, visited, remaining, reached, needed>>

Next ==
  \/ ReturnEmpty \/ StartForward \/ StartBackward \/ Select
  \/ \E f \in Facet : WalkForward(f) \/ WalkBackward(f)

Spec == Init /\ [][Next]_vars
-----------------------------------------------------------------------------
(* What the walks should find, said without a queue.                         *)

\* Nothing outside S could run with what is on hand and what S produces.
ClosedForward(S) ==
  \A c \in Active :
    catalog[c].inputs \subseteq request.start \cup OutputsOf(S) => c \in S

\* Whatever produces a target, or an input of a member of S, is in S.
ClosedBackward(S) ==
  \A c \in Active :
    catalog[c].outputs \cap (Targets \cup InputsOf(S)) # {} => c \in S

Suppliable ==
  {c \in Active : \A S \in SUBSET Active : ClosedForward(S) => c \in S}
Helpful ==
  {c \in Active : \A S \in SUBSET Active : ClosedBackward(S) => c \in S}

Selected == phase \in {"planning", "rejected"} /\ Active # {}
-----------------------------------------------------------------------------
TypeOK ==
  /\ catalog \in Catalogs
  /\ request \in Requests
  /\ phase \in {"called", "forward", "backward", "planning", "rejected"}
  /\ queue \subseteq visited
  /\ visited \subseteq Facet
  /\ remaining \in [Active -> Nat]
  /\ reached \subseteq Active
  /\ needed \subseteq Active
  /\ rows \subseteq Active
  /\ missing \in [capabilities : SUBSET Nat, facets : SUBSET Facet]

\* The walks find what they are for. In whatever order facets are queued, and
\* though inputs are only counted, the forward walk ends with exactly the
\* capabilities that can be supplied in some order (none activated for a facet
\* counted twice, none forgotten in a cycle) and the backward walk with exactly
\* those that help to produce a target (resolveForwardReachableCaps,
\* resolveBackwardReachableCaps).
SelectionIsExact == Selected => reached = Suppliable /\ needed = Helpful

\* Taking only the capabilities on both walks loses nothing: they can be
\* supplied in some order by what is on hand and by each other alone, and they
\* produce every target that the whole registry could produce
\* (computeCrcsSnapshot's pathCaps).
PathSuffices ==
  Selected =>
    /\ \A S \in SUBSET Path :
         (\A c \in Path :
            catalog[c].inputs \subseteq request.start \cup OutputsOf(S)
              => c \in S)
           => S = Path
    /\ Targets \cap OutputsOf(Suppliable) \subseteq OutputsOf(Path)
=============================================================================
