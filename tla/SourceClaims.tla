---------------------------- MODULE SourceClaims ----------------------------
(* What the ingestion promises about a discovery source: whoever fetches it  *)
(* has it alone, from the claim to the release; a claim may be lost with its *)
(* holder, and then nobody ever has the source again.                        *)
CONSTANTS Source, Owner, None, Lost

VARIABLE holder

Init == holder = [s \in Source |-> None]

Claim(s, o) ==
  /\ holder[s] = None
  /\ holder' = [holder EXCEPT ![s] = o]

Release(s, o) ==
  /\ holder[s] = o
  /\ holder' = [holder EXCEPT ![s] = None]

\* An owner's process ends: all it holds is lost. A release that fails loses
\* one source.
Lose(o) ==
  \E gone \in SUBSET {s \in Source : holder[s] = o} :
    holder' = [s \in Source |-> IF s \in gone THEN Lost ELSE holder[s]]

Next == \E o \in Owner : Lose(o) \/ \E s \in Source : Claim(s, o) \/ Release(s, o)

Spec == Init /\ [][Next]_holder
=============================================================================
