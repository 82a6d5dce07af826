----------------------------- MODULE MCNurseRoster -----------------------------
(* Two weeks, two nurses, two shift types of which the late one may not be   *)
(* followed by the early one, five slots.                                   *)
EXTENDS NurseRoster, TLC

CONSTANTS ann, bo

MCTypes == [t \in {"E", "L"} |-> IF t = "E" THEN <<1, 2>> ELSE <<2, 3>>]
MCContract(complete) ==
    [minimum |-> 2, maximum |-> 3, work |-> <<2, 3>>, off |-> <<1, 4>>,
     weekends |-> 1, complete |-> complete]
MCHistory(last, assignments, run) ==
    [last |-> last, assignments |-> assignments, weekends |-> assignments,
     shifts |-> IF last = NoShift THEN 0 ELSE run,
     working |-> IF last = NoShift THEN 0 ELSE run,
     off |-> IF last = NoShift THEN run ELSE 0]
MCNeed(minimum, optimal) == [minimum |-> minimum, optimal |-> optimal]
MCInstance(covers, annHistory, boSkills, requests) ==
    [nurses |-> {ann, bo}, types |-> MCTypes,
     successors |-> [t \in {"E", "L"} |-> IF t = "L" THEN {"E"} ELSE {}],
     skills |-> [n \in {ann, bo} |-> IF n = ann THEN {"head", "nurse"} ELSE boSkills],
     contract |-> [n \in {ann, bo} |-> MCContract(n = ann)],
     history |-> [n \in {ann, bo} |-> IF n = ann THEN annHistory
                                      ELSE MCHistory(NoShift, 1, 5)],
     requirements |-> covers, requests |-> requests]

MCRequests == << [nurse |-> ann, day |-> 2, type |-> AnyShift],
                 [nurse |-> ann, day |-> 2, type |-> "E"],
                 [nurse |-> bo, day |-> 13, type |-> "L"] >>
(* Early after late within the week, and a nurse wanted twice on a day.     *)
MCWeek == (<<"L", "nurse", 1>> :> MCNeed(1, 1)) @@ (<<"E", "nurse", 2>> :> MCNeed(1, 2))
          @@ (<<"L", "head", 2>> :> MCNeed(0, 1)) @@ (<<"E", "nurse", 13>> :> MCNeed(0, 1))
(* The first day against the history, both days of a weekend, and a         *)
(* succession from one week's file into the next.                           *)
MCEdges == (<<"E", "nurse", 1>> :> MCNeed(1, 1)) @@ (<<"L", "nurse", 6>> :> MCNeed(0, 1))
           @@ (<<"L", "head", 7>> :> MCNeed(0, 1)) @@ (<<"E", "nurse", 8>> :> MCNeed(1, 2))
           @@ (<<"E", "nurse", 13>> :> MCNeed(0, 1))
(* A skill nobody has: no slot of it, an optional one and a required one.   *)
MCUnasked == (<<"L", "nurse", 1>> :> MCNeed(1, 1)) @@ (<<"E", "surgeon", 2>> :> MCNeed(0, 0))
             @@ (<<"E", "head", 3>> :> MCNeed(0, 1))
MCOptional == (<<"E", "nurse", 2>> :> MCNeed(1, 1)) @@ (<<"L", "surgeon", 3>> :> MCNeed(0, 1))
MCMissing == (<<"E", "nurse", 2>> :> MCNeed(0, 1)) @@ (<<"L", "surgeon", 3>> :> MCNeed(1, 1))

MCInstances ==
    {MCInstance(MCWeek, MCHistory("E", 1, 1), {"nurse"}, MCRequests),
     MCInstance(MCUnasked, MCHistory("L", 1, 2), {"nurse", "head"}, MCRequests),
     MCInstance(MCWeek, MCHistory(NoShift, 0, 2), {"nurse"}, << >>),
     MCInstance(MCEdges, MCHistory("L", 1, 2), {"nurse", "head"}, MCRequests),
     MCInstance(MCOptional, MCHistory("L", 2, 3), {"nurse"}, << >>),
     MCInstance(MCMissing, MCHistory("E", 0, 1), {"nurse"}, MCRequests)}
=============================================================================
