------------------------------- MODULE MC_Race -------------------------------
(***************************************************************************)
(* The async client on a small instance: two tasks that race three nodes,  *)
(* or one that fetches a range of blocks.  The two share nothing but the   *)
(* client, so a behaviour is of the one kind or of the other.              *)
(***************************************************************************)
EXTENDS NodeRace, BlockWindow

CONSTANTS a, b

MCRanges == {<<1, 4>>, <<3, 3>>, <<2, 5>>, <<4, 1>>, <<0, 1>>}

NoRaces ==
    /\ HealthInit /\ failed = [n \in Nodes |-> 0]
    /\ race = [t \in Tasks |-> NoRace] /\ races = [t \in Tasks |-> MaxRaces]
NoWindow ==
    /\ from = 1 /\ to = 0 /\ concurrency = 1 /\ next = 1
    /\ pending = {} /\ fetched = <<>> /\ window = [pc |-> "error", blocks |-> <<>>]

AsyncInit == (RaceInit /\ NoWindow) \/ (NoRaces /\ WindowInit)
AsyncNext ==
    \/ RaceNext /\ UNCHANGED window_vars
    \/ WindowNext /\ UNCHANGED race_vars

AsyncSpec ==
    /\ AsyncInit /\ [][AsyncNext]_<<race_vars, window_vars>>
    /\ RaceFairness /\ WindowFairness
=============================================================================
