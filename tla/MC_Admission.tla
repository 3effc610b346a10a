--------------------------- MODULE MC_Admission ---------------------------
(* An instance of Admission for TLC: three routes at two providers, one    *)
(* task.  Local clocks are an hour behind UTC: the second month starts at 7 *)
(* and an hour later they are set back, so that its first hour comes twice.*)
EXTENDS Admission, TLC

MCProviderOf == [r \in Routes |-> IF r = 3 THEN "p2" ELSE "p1"]

MCSnapshot(enabled, listed, ppm, quality) ==
  [enabled |-> enabled, listed |-> listed, ppm |-> ppm, quality |-> [t \in Tasks |-> quality],
   capabilities |-> IF ppm = 0 THEN {} ELSE Needs, unsupported |-> {}]

\* A good route, a cheap one, and a free one the provider no longer lists.
MCDirectory == 1 :> MCSnapshot(TRUE, TRUE, 2, 90) @@ 2 :> MCSnapshot(TRUE, TRUE, 1, 80)
                 @@ 3 :> MCSnapshot(TRUE, FALSE, 0, Missing)

MCModelChoices == {MCSnapshot(FALSE, TRUE, 0, 80)}

MCUsers == [u \in Users |-> [allow |-> {}, credits |-> 3]]
MCUserChoices == {[allow |-> {2, 3}, credits |-> 5]}

MCProviderChoices ==
  {[active |-> {"p1", "p2"}, unavailable |-> {}], [active |-> {"p1"}, unavailable |-> {"p1"}]}

MCClass == [task |-> "general", complexity |-> "low", confidence |-> 80]

MCRequest(mode, requested, needs) ==
  [mode |-> mode, requested |-> requested, class |-> MCClass,
   capabilities |-> needs, modalities |-> {}]

MCRequests ==
  {MCRequest("manual", 3, {}), MCRequest("auto", 1, Needs), MCRequest("quality_first", 1, {})}

\* Fallback on and off, and fallback on in local mode.
MCSettings ==
  {[routing |-> [minimum |-> 85, onNoMatch |-> "quality_first", confidence |-> 70,
                 thresholds |-> [c \in Complexities |-> 75], fallback |-> "credit_first"],
    fallbackOn |-> choice[1], local |-> choice[2]] :
       choice \in (BOOLEAN \X {NoUser}) \cup ({TRUE} \X Users)}

Symmetry == Permutations(Sessions) \cup Permutations(Users)

MCOffset == [t \in 0 .. 12 |-> IF t < 8 THEN -1 ELSE -2]

ASSUME OffsetsAreRead
===========================================================================
