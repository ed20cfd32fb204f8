---------------------------- MODULE PickCandidate ----------------------------
(***************************************************************************)
(* pickCandidate: the loop that chooses the session the agent tracks, one  *)
(* step per candidate, against the order of preference its comment gives.  *)
(***************************************************************************)
EXTENDS Candidates, Sequences

CONSTANT MaxLen   \* bound: sessions of the user

ASSUME PickAssumption == MaxLen \in Nat

VARIABLES
    cands,      \* the candidates, in logind's order
    i,          \* the candidate looked at next
    best,       \* index of the best so far, None if there is none
    bestScore

vars == <<cands, i, best, bestScore>>

None == 0      \* best < 0 in the code, whose indices start at 0
Lists == UNION {[1 .. n -> Candidate] : n \in 0 .. MaxLen}

Init ==
    /\ cands \in Lists
    /\ i = 1
    /\ best = None
    /\ bestScore = -1

(* A later candidate replaces the best only when it ranks above it.  The   *)
(* mutation lets it replace an equal.                                      *)
MutLastOfEquals(c) == IsLockable(c) /\ Score(c) >= bestScore
Better(c) == IsLockable(c) /\ Score(c) > bestScore

Look ==
    /\ i <= Len(cands)
    /\ i' = i + 1
    /\ IF Better(cands[i])
       THEN best' = i /\ bestScore' = Score(cands[i])
       ELSE UNCHANGED <<best, bestScore>>
    /\ UNCHANGED cands

Next == Look

Spec == Init /\ [][Next]_vars

Done == i > Len(cands)

-----------------------------------------------------------------------------
(* Type correctness of the loop's variables.                               *)
TypeOK ==
    /\ cands \in Seq(Candidate)
    /\ i \in 1 .. Len(cands) + 1
    /\ best \in 0 .. i - 1
    /\ bestScore \in -1 .. 3
    /\ best # None => cands[best].class = "user"

(* The reference: the first of the most preferred kind that occurs.        *)
First(j, Kind(_)) ==
    /\ j \in DOMAIN cands /\ Kind(cands[j])
    /\ \A k \in 1 .. j - 1 : ~Kind(cands[k])
Occurs(Kind(_)) == \E j \in DOMAIN cands : Kind(cands[j])

User(c) == c.class = "user"
UserGraphical(c) == User(c) /\ c.graphical
UserActive(c) == User(c) /\ c.active
UserActiveGraphical(c) == User(c) /\ c.active /\ c.graphical

Preferred(j) ==
    IF Occurs(UserActiveGraphical) THEN First(j, UserActiveGraphical)
    ELSE IF Occurs(UserActive) THEN First(j, UserActive)
    ELSE IF Occurs(UserGraphical) THEN First(j, UserGraphical)
    ELSE First(j, User)

(* pickCandidate's comment, over every list: it ignores sessions that      *)
(* cannot be locked, prefers an active graphical one, then any active, then*)
(* any graphical, then the first; and it reports none only if there is none.*)
PicksPreferred ==
    Done => IF Occurs(User) THEN Preferred(best) ELSE best = None
=============================================================================
