-------------------------- MODULE PickCandidateProofs --------------------------
(***************************************************************************)
(* Proofs about the selection loop, for lists of any length.               *)
(***************************************************************************)
EXTENDS PickCandidate, TLAPS

(* The loop invariant: best ranks above every lockable candidate before it *)
(* and at least as high as every one between it and i.                     *)
Leads ==
    /\ bestScore = IF best = None THEN -1 ELSE Score(cands[best])
    /\ \A k \in 1 .. i - 1 : IsLockable(cands[k]) => Score(cands[k]) <= bestScore
    /\ \A k \in 1 .. best - 1 : IsLockable(cands[k]) => Score(cands[k]) < bestScore

LoopInv == TypeOK /\ Leads

LEMMA ScoreRange ==
    ASSUME NEW c \in Candidate
    PROVE  Score(c) \in 0 .. 3
  BY DEF Score, Candidate

LEMMA InitLoop == Init => LoopInv
<1> SUFFICES ASSUME Init PROVE LoopInv
    OBVIOUS
<1>1. cands \in Seq(Candidate)
  <2>1. PICK n \in 0 .. MaxLen : cands \in [1 .. n -> Candidate]
    BY DEF Init, Lists
  <2>2. n \in Nat
    BY PickAssumption
  <2> QED
    BY <2>1, <2>2
<1> QED
    BY <1>1 DEF Init, LoopInv, TypeOK, Leads, None

LEMMA StepLoop == LoopInv /\ [Next]_vars => LoopInv'
<1> SUFFICES ASSUME LoopInv, [Next]_vars PROVE LoopInv'
    OBVIOUS
<1> USE DEF LoopInv, None
<1>1. CASE Look
  <2> DEFINE c == cands[i]
  <2>1. /\ cands' = cands /\ i' = i + 1
        /\ i \in 1 .. Len(cands) /\ Len(cands) \in Nat
        /\ c \in Candidate
    BY <1>1 DEF Look, TypeOK
  <2>2. Score(c) \in 0 .. 3
    BY <2>1, ScoreRange
  <2>3. CASE Better(c)
    <3>1. best' = i /\ bestScore' = Score(c)
      BY <1>1, <2>3 DEF Look
    <3>2. IsLockable(c) /\ Score(c) > bestScore
      BY <2>3 DEF Better
    <3>3. TypeOK'
      BY <2>1, <2>2, <3>1, <3>2 DEF TypeOK, IsLockable
    <3>4. Leads'
      <4>1. \A k \in 1 .. i - 1 :
               IsLockable(cands[k]) => Score(cands[k]) < Score(c)
        <5> SUFFICES ASSUME NEW k \in 1 .. i - 1, IsLockable(cands[k])
                     PROVE  Score(cands[k]) < Score(c)
          OBVIOUS
        <5>1. Score(cands[k]) <= bestScore
          BY DEF Leads
        <5>2. cands[k] \in Candidate
          BY <2>1 DEF TypeOK
        <5>3. Score(cands[k]) \in 0 .. 3
          BY <5>2, ScoreRange
        <5> QED
          BY <5>1, <5>3, <2>2, <3>2 DEF TypeOK
      <4>2. \A k \in 1 .. i :
               IsLockable(cands[k]) => Score(cands[k]) <= Score(c)
        <5> SUFFICES ASSUME NEW k \in 1 .. i, IsLockable(cands[k])
                     PROVE  Score(cands[k]) <= Score(c)
          OBVIOUS
        <5>1. CASE k = i
          BY <5>1, <2>2
        <5>2. CASE k # i
          <6>1. k \in 1 .. i - 1
            BY <5>2, <2>1
          <6>2. cands[k] \in Candidate
            BY <2>1, <6>1 DEF TypeOK
          <6>3. Score(cands[k]) \in 0 .. 3
            BY <6>2, ScoreRange
          <6> QED
            BY <6>1, <6>3, <4>1, <2>2
        <5> QED
          BY <5>1, <5>2
      <4>3. i # 0 /\ i' - 1 = i
        BY <2>1
      <4> QED
        BY <4>1, <4>2, <4>3, <3>1, <2>1 DEF Leads
    <3> QED
      BY <3>3, <3>4
  <2>4. CASE ~Better(c)
    <3>1. best' = best /\ bestScore' = bestScore
      BY <1>1, <2>4 DEF Look
    <3>2. IsLockable(c) => Score(c) <= bestScore
      BY <2>2, <2>4 DEF Better, TypeOK
    <3>3. TypeOK'
      BY <2>1, <3>1 DEF TypeOK
    <3>4. Leads'
      <4>1. ASSUME NEW k \in 1 .. i, IsLockable(cands[k])
            PROVE  Score(cands[k]) <= bestScore
        <5>1. CASE k = i
          BY <5>1, <4>1, <3>2
        <5>2. CASE k # i
          <6>1. k \in 1 .. i - 1
            BY <5>2, <2>1
          <6> QED
            BY <6>1, <4>1 DEF Leads
        <5> QED
          BY <5>1, <5>2
      <4>2. i' - 1 = i
        BY <2>1
      <4> QED
        BY <4>1, <4>2, <3>1, <2>1 DEF Leads
    <3> QED
      BY <3>3, <3>4
  <2> QED
    BY <2>3, <2>4
<1>2. CASE UNCHANGED vars
  BY <1>2 DEF vars, TypeOK, Leads
<1> QED
    BY <1>1, <1>2 DEF Next

LEMMA LeaderIsPreferred == LoopInv => PicksPreferred
<1> SUFFICES ASSUME LoopInv, Done
             PROVE  IF Occurs(User) THEN Preferred(best) ELSE best = None
    BY DEF PicksPreferred
<1> USE DEF LoopInv, None, User, UserActive, UserGraphical, UserActiveGraphical
<1>1. Len(cands) \in Nat /\ i = Len(cands) + 1 /\ DOMAIN cands = 1 .. Len(cands)
    BY DEF TypeOK, Done
<1>2. \A k \in DOMAIN cands : cands[k] \in Candidate
    BY DEF TypeOK
<1>3. CASE ~Occurs(User)
  BY <1>1, <1>3 DEF Occurs, TypeOK
<1>4. CASE Occurs(User)
  <2>1. PICK j \in DOMAIN cands : User(cands[j])
    BY <1>4 DEF Occurs
  <2>2. Score(cands[j]) \in 0 .. 3 /\ Score(cands[j]) <= bestScore
    BY <2>1, <1>1, <1>2, ScoreRange DEF Leads, IsLockable
  <2>3. best # None
    BY <2>2 DEF Leads
  <2>4. best \in DOMAIN cands /\ User(cands[best]) /\ bestScore = Score(cands[best])
    BY <2>3, <1>1 DEF TypeOK, Leads
  <2>5. \A k \in DOMAIN cands : User(cands[k]) => Score(cands[k]) <= Score(cands[best])
    BY <2>4, <1>1 DEF Leads, IsLockable
  <2>6. \A k \in 1 .. best - 1 : User(cands[k]) => Score(cands[k]) < Score(cands[best])
    BY <2>4 DEF Leads, IsLockable
  <2>7. cands[best] \in Candidate
    BY <2>4, <1>2
  <2>8. \A k \in 1 .. best - 1 : k \in DOMAIN cands
    BY <2>4, <1>1
  <2>9. CASE Occurs(UserActiveGraphical)
    <3>1. PICK k \in DOMAIN cands : UserActiveGraphical(cands[k])
      BY <2>9 DEF Occurs
    <3>2. UserActiveGraphical(cands[best])
      BY <3>1, <2>5, <2>4, <2>7, <1>2 DEF Score, Candidate
    <3>3. \A m \in 1 .. best - 1 : ~UserActiveGraphical(cands[m])
      BY <3>2, <2>6, <2>8, <1>2 DEF Score, Candidate
    <3> QED
      BY <3>2, <3>3, <2>4, <2>9, <1>4 DEF Preferred, First
  <2>10. CASE ~Occurs(UserActiveGraphical) /\ Occurs(UserActive)
    <3>1. PICK k \in DOMAIN cands : UserActive(cands[k])
      BY <2>10 DEF Occurs
    <3>2. UserActive(cands[best])
      BY <3>1, <2>5, <2>4, <2>7, <1>2 DEF Score, Candidate
    <3>3. ~UserActiveGraphical(cands[best])
      BY <2>10, <2>4 DEF Occurs
    <3>4. \A m \in 1 .. best - 1 : ~UserActive(cands[m])
      BY <3>2, <3>3, <2>6, <2>8, <1>2 DEF Score, Candidate
    <3> QED
      BY <3>2, <3>4, <2>4, <2>10, <1>4 DEF Preferred, First
  <2>11. CASE ~Occurs(UserActiveGraphical) /\ ~Occurs(UserActive) /\ Occurs(UserGraphical)
    <3>1. PICK k \in DOMAIN cands : UserGraphical(cands[k])
      BY <2>11 DEF Occurs
    <3>2. ~UserActive(cands[best])
      BY <2>11, <2>4 DEF Occurs
    <3>3. UserGraphical(cands[best])
      BY <3>1, <3>2, <2>5, <2>4, <2>7, <1>2 DEF Score, Candidate
    <3>4. \A m \in 1 .. best - 1 : ~UserGraphical(cands[m])
      BY <3>2, <3>3, <2>6, <2>8, <1>2 DEF Score, Candidate
    <3> QED
      BY <3>3, <3>4, <2>4, <2>11, <1>4 DEF Preferred, First
  <2>12. CASE ~Occurs(UserActiveGraphical) /\ ~Occurs(UserActive) /\ ~Occurs(UserGraphical)
    <3>1. ~cands[best].active /\ ~cands[best].graphical
      BY <2>12, <2>4 DEF Occurs
    <3>2. \A m \in 1 .. best - 1 : ~User(cands[m])
      BY <3>1, <2>6, <2>8, <1>2 DEF Score, Candidate
    <3> QED
      BY <3>2, <2>4, <2>12, <1>4 DEF Preferred, First
  <2> QED
    BY <2>9, <2>10, <2>11, <2>12
<1> QED
    BY <1>3, <1>4

(* The loop's variables have their types, whatever the list (pick.go).     *)
THEOREM TypeCorrect == Spec => []TypeOK
<1>1. LoopInv => TypeOK
    BY DEF LoopInv
<1> QED
    BY InitLoop, StepLoop, <1>1, PTL DEF Spec

(* The link to Logind, which does not know logind's order: the loop's      *)
(* choice is one of Best, the first in the order it was given.             *)
PicksFirstBest ==
    Done => IF Best(cands) = {} THEN best = None
            ELSE best \in Best(cands) /\ \A j \in Best(cands) : best <= j

LEMMA LeaderIsFirstBest == LoopInv => PicksFirstBest
<1> SUFFICES ASSUME LoopInv, Done
             PROVE  IF Best(cands) = {} THEN best = None
                    ELSE best \in Best(cands) /\ \A j \in Best(cands) : best <= j
    BY DEF PicksFirstBest
<1>1. /\ Len(cands) \in Nat /\ i = Len(cands) + 1 /\ DOMAIN cands = 1 .. Len(cands)
      /\ \A k \in DOMAIN cands : cands[k] \in Candidate /\ Score(cands[k]) \in 0 .. 3
    BY ScoreRange DEF LoopInv, TypeOK, Done
<1>2. CASE best = None
  <2>1. \A k \in DOMAIN cands : ~IsLockable(cands[k])
    BY <1>1, <1>2 DEF LoopInv, Leads
  <2> QED
    BY <1>2, <2>1 DEF Best
<1>3. CASE best # None
  <2>1. best \in DOMAIN cands /\ IsLockable(cands[best]) /\ bestScore = Score(cands[best])
    BY <1>1, <1>3 DEF LoopInv, TypeOK, Leads, IsLockable, None
  <2>2. best \in Best(cands)
    BY <1>1, <2>1 DEF LoopInv, Leads, Best
  <2>3. ASSUME NEW j \in Best(cands) PROVE best <= j
    <3>1. j \in DOMAIN cands /\ IsLockable(cands[j]) /\ Score(cands[best]) <= Score(cands[j])
      BY <2>1 DEF Best
    <3>2. j < best => Score(cands[j]) < Score(cands[best])
      BY <1>1, <2>1, <3>1 DEF LoopInv, Leads
    <3> QED
      BY <1>1, <2>1, <3>1, <3>2
  <2> QED
    BY <2>2, <2>3
<1> QED
    BY <1>2, <1>3

(* pickCandidate chooses as its comment says, for every list of sessions:  *)
(* an active graphical one, else any active, else any graphical, else the  *)
(* first that can be locked, and none only when none can.                  *)
THEOREM ChoosesPreferred == Spec => []PicksPreferred
<1> QED
    BY InitLoop, StepLoop, LeaderIsPreferred, PTL DEF Spec

(* What Logind takes of pick.go: the choice is one of those that rank      *)
(* highest, the first in the order it was given.                           *)
THEOREM ChoosesFirstBest == Spec => []PicksFirstBest
<1> QED
    BY InitLoop, StepLoop, LeaderIsFirstBest, PTL DEF Spec
=============================================================================
