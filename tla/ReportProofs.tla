---------------------------- MODULE ReportProofs ----------------------------
(***************************************************************************)
(* The report of the evaluation program (EvalRun) counts what was run, for *)
(* every command line, every endpoint and every number of threads.         *)
(***************************************************************************)
EXTENDS EvalProofs, FiniteSetTheorems

-----------------------------------------------------------------------------
(* Counts. *)

(* There are as many units as the list of them is long.                    *)
LEMMA UnitsCount ==
    ASSUME NEW g, GroupIsSound(g)
    PROVE  /\ IsFiniteSet(Range(Units(g)))
           /\ Cardinality(Range(Units(g))) = Len(Units(g))
<1>. DEFINE us == Units(g)
            m == Len(us)
            U == Range(us)
<1>1. m \in Nat /\ DOMAIN us = 1 .. m /\ \A j, k \in 1 .. m : us[j] = us[k] => j = k
  BY UnitsOf, Zenon
<1>2. us \in [1 .. m -> U]
  <2>1. us \in Seq(U)
    BY UnitsOf, Zenon
  <2>. HIDE DEF us, U
  <2>. QED  BY <2>1
<1>3. \A u \in U : \E k \in 1 .. m : us[k] = u
  BY <1>1, Zenon DEF Range
<1>. HIDE DEF us, U
<1>4. us \in Bijection(1 .. m, U)
  BY <1>1, <1>2, <1>3, Zenon DEF Bijection, Injection, Surjection, IsInjective
<1>5. ExistsBijection(1 .. m, U)
  BY <1>4, Zenon DEF ExistsBijection
<1>6. IsFiniteSet(1 .. m) /\ Cardinality(1 .. m) = m
  <2>. HIDE DEF m
  <2>1. 1 \in Int /\ m \in Int /\ m = IF 1 > m THEN 0 ELSE m - 1 + 1
    BY <1>1
  <2>. QED  BY <2>1, FS_Interval, Zenon
<1>. HIDE DEF m
<1>7. IsFiniteSet(U) /\ Cardinality(U) = Cardinality(1 .. m)
  BY <1>5, <1>6, FS_Bijection, Zenon
<1>. QED  BY <1>6, <1>7, Zenon DEF U, m, us

(* Counting a set case by case counts it all.                              *)
LEMMA CountByCase ==
    ASSUME NEW P, IsFiniteSet(P), NEW n \in Nat, \A v \in P : v[1] \in 1 .. n,
           NEW s, s = [i \in 1 .. n |-> Cardinality({v \in P : v[1] = i})]
    PROVE  Sum(s) = Cardinality(P)
<1>. DEFINE Upto(i) == {v \in P : v[1] <= i}
            Only(i) == {v \in P : v[1] = i}
            T == {i \in 0 .. n : Summed(s)[i] = Cardinality(Upto(i))}
<1>0. Len(s) = n /\ \A i \in 1 .. n : s[i] = Cardinality(Only(i))
  <2>1. Len(s) = n
    BY ListMade, Zenon
  <2>. QED  BY <2>1, Zenon
<1>1. \A i \in 0 .. n : IsFiniteSet(Upto(i)) /\ Cardinality(Upto(i)) \in Nat
  <2>. SUFFICES ASSUME NEW i \in 0 .. n
       PROVE  IsFiniteSet(Upto(i)) /\ Cardinality(Upto(i)) \in Nat
    BY Zenon
  <2>1. Upto(i) \in SUBSET P
    BY Zenon
  <2>. HIDE DEF Upto
  <2>. QED  BY <2>1, FS_Subset, FS_CardinalityType, Zenon
<1>2. 0 \in T
  <2>1. Upto(0) = {}
    OBVIOUS
  <2>2. Cardinality(Upto(0)) = 0
    BY <2>1, FS_EmptySet, Zenon
  <2>3. Summed(s)[0] = 0
    BY <1>0, SummedStep, Zenon
  <2>. HIDE DEF Upto
  <2>. QED  BY <2>2, <2>3
<1>3. ASSUME NEW i \in 1 .. n, i - 1 \in T PROVE i \in T
  <2>1. Upto(i) = Upto(i - 1) \cup Only(i) /\ Upto(i - 1) \cap Only(i) = {}
    OBVIOUS
  <2>2. IsFiniteSet(Only(i)) /\ Cardinality(Only(i)) \in Nat
    <3>1. Only(i) \in SUBSET P
      BY Zenon
    <3>. HIDE DEF Only
    <3>. QED  BY <3>1, FS_Subset, FS_CardinalityType, Zenon
  <2>3. Summed(s)[i - 1] = Cardinality(Upto(i - 1))
    BY <1>3, Zenon
  <2>. HIDE DEF Upto, Only
  <2>4. Summed(s)[i] = Summed(s)[i - 1] + Cardinality(Only(i))
    <3>1. Summed(s)[i] = Summed(s)[i - 1] + s[i]
      BY <1>0, SummedStep, Zenon
    <3>. QED  BY <1>0, <3>1, Zenon
  <2>5. i - 1 \in 0 .. n /\ i \in 0 .. n
    OBVIOUS
  <2>6. Cardinality(Upto(i)) = Cardinality(Upto(i - 1)) + Cardinality(Only(i))
    <3>. DEFINE A == Upto(i - 1)
                B == Only(i)
    <3>1. IsFiniteSet(A) /\ IsFiniteSet(B) /\ A \cap B = {}
      BY <1>1, <2>1, <2>2, <2>5, Zenon
    <3>2. Cardinality(A) \in Nat /\ Cardinality(B) \in Nat
      BY <1>1, <2>2, <2>5, Zenon
    <3>3. Upto(i) = A \cup B
      BY <2>1, Zenon
    <3>. HIDE DEF A, B
    <3>4. Cardinality(A \cup B) = Cardinality(A) + Cardinality(B) - Cardinality(A \cap B)
      BY <3>1, FS_Union, Zenon
    <3>5. Cardinality(A \cap B) = 0
      BY <3>1, FS_EmptySet, Zenon
    <3>6. Cardinality(A \cup B) = Cardinality(A) + Cardinality(B)
      BY <3>2, <3>4, <3>5
    <3>. QED  BY <3>3, <3>6, Zenon DEF A, B
  <2>. QED  BY <2>3, <2>4, <2>5, <2>6, Zenon
<1>. HIDE DEF T
<1>4. 0 .. n \subseteq T
  BY <1>2, <1>3, BoundedInduction, Zenon
<1>5. Summed(s)[n] = Cardinality(Upto(n))
  <2>. HIDE DEF Upto
  <2>. QED  BY <1>4 DEF T
<1>6. Upto(n) = P
  OBVIOUS
<1>. QED  BY <1>0, <1>5, <1>6, Zenon DEF Sum

-----------------------------------------------------------------------------
(* The report. *)

Ended(of) == {u \in DOMAIN of : of[u].state = "done"}

Line(g, of, u) == <<g, u, of[u].success, of[u].errored>>

LinesOf(g) == {l \in lines : l[1] = g}

(* The transcript file has one line for every unit that ended, in the      *)
(* group it belongs to.                                                    *)
LineInv ==
    /\ \A l \in lines : l[1] \in 1 .. at
    /\ cmd.transcripts /\ ~cmd.legacy /\ Working =>
         LinesOf(at) = {Line(at, results, u) : u \in Ended(results)}
    /\ CountsAgree

(* The lines of units are as many as the units.                            *)
LEMMA LinesCount ==
    ASSUME NEW S, IsFiniteSet(S), NEW g, NEW of
    PROVE  Cardinality({Line(g, of, u) : u \in S}) = Cardinality(S)
<1>. DEFINE T == {Line(g, of, u) : u \in S}
            f == [u \in S |-> Line(g, of, u)]
<1>1. f \in [S -> T] /\ \A l \in T : \E u \in S : f[u] = l
  BY Zenon
<1>2. \A u \in S : f[u][2] = u
  BY Zenon DEF Line
<1>. HIDE DEF T, f
<1>3. f \in Bijection(S, T)
  BY <1>1, <1>2 DEF Bijection, Injection, Surjection, IsInjective
<1>4. ExistsBijection(S, T)
  BY <1>3, Zenon DEF ExistsBijection
<1>5. Cardinality(T) = Cardinality(S)
  BY <1>4, FS_Bijection, Zenon
<1>. QED  BY <1>5, Zenon DEF T

OutcomeIs(o, i) ==
    /\ o.runs = Cardinality({v \in DOMAIN results : v[1] = i})
    /\ o.passed = Cardinality({v \in {u \in DOMAIN results : results[u].success} : v[1] = i})
    /\ o.errored = Cardinality({v \in {u \in DOMAIN results : results[u].errored} : v[1] = i})

(* The results of a case are those of its units: its name is its own.      *)
LEMMA OutcomesAre ==
    ASSUME NEW g, GroupIsSound(g), \A v \in DOMAIN results : v[1] \in DOMAIN g.cases,
           NEW i \in DOMAIN g.cases
    PROVE  OutcomeIs(Outcomes(g)[i], i)
<1>. DEFINE V == {v \in DOMAIN results : v[1] = i}
            rs == [u \in V |-> results[u]]
<1>1. {v \in DOMAIN results : g.cases[v[1]].name = g.cases[i].name} = V
  BY Zenon DEF GroupIsSound
<1>2. Outcomes(g)[i] = CombineRepeats(rs)
  BY <1>1, Zenon DEF Outcomes
<1>3. /\ CombineRepeats(rs).runs = Cardinality(V)
      /\ CombineRepeats(rs).passed = Cardinality({u \in V : rs[u].success})
      /\ CombineRepeats(rs).errored = Cardinality({u \in V : rs[u].errored})
  BY Zenon DEF CombineRepeats
<1>4. /\ {u \in V : rs[u].success} = {v \in {u \in DOMAIN results : results[u].success} : v[1] = i}
      /\ {u \in V : rs[u].errored} = {v \in {u \in DOMAIN results : results[u].errored} : v[1] = i}
  BY Zenon
<1>. QED  BY <1>2, <1>3, <1>4, Zenon DEF OutcomeIs

(* The result of a suite counts its units, the passed and the errored.     *)
LEMMA GroupCounts ==
    ASSUME NEW g, GroupIsSound(g), DOMAIN results = Range(Units(g)),
           \A u \in DOMAIN results : u[1] \in DOMAIN g.cases
    PROVE  LET res == SuiteResult(Outcomes(g)) IN
           /\ res.total = Cardinality(DOMAIN results) /\ res.total = Len(Units(g))
           /\ res.passed = Cardinality({u \in DOMAIN results : results[u].success})
           /\ res.errors = Cardinality({u \in DOMAIN results : results[u].errored})
           /\ res.failed = res.total - res.passed - res.errors
<1>. DEFINE n == Len(g.cases)
            U == DOMAIN results
            P == {u \in U : results[u].success}
            E == {u \in U : results[u].errored}
            o == Outcomes(g)
            res == SuiteResult(o)
            s == [i \in 1 .. n |-> Cardinality({v \in U : v[1] = i})]
            p == [i \in 1 .. n |-> Cardinality({v \in P : v[1] = i})]
            e == [i \in 1 .. n |-> Cardinality({v \in E : v[1] = i})]
<1>1. n \in Nat /\ DOMAIN g.cases = 1 .. n
  BY ListIs, Zenon DEF GroupIsSound
<1>2. IsFiniteSet(U) /\ Cardinality(U) = Len(Units(g))
  BY UnitsCount, Zenon
<1>3. P \subseteq U /\ E \subseteq U
  BY Zenon
<1>4. ASSUME NEW i \in 1 .. n
      PROVE  o[i].runs = s[i] /\ o[i].passed = p[i] /\ o[i].errored = e[i]
  <2>1. i \in DOMAIN g.cases
    BY <1>1, Zenon
  <2>2. OutcomeIs(Outcomes(g)[i], i)
    BY <2>1, OutcomesAre, Zenon
  <2>. QED  BY <2>2, Zenon DEF OutcomeIs
<1>5. DOMAIN o = 1 .. n
  BY <1>1, Zenon DEF Outcomes
<1>6. /\ s = [i \in 1 .. n |-> Cardinality({v \in U : v[1] = i})]
      /\ p = [i \in 1 .. n |-> Cardinality({v \in P : v[1] = i})]
      /\ e = [i \in 1 .. n |-> Cardinality({v \in E : v[1] = i})]
  BY Zenon
<1>. HIDE DEF n, U, P, E, o, s, p, e
<1>7. /\ [i \in DOMAIN o |-> o[i].runs] = s /\ [i \in DOMAIN o |-> o[i].passed] = p
      /\ [i \in DOMAIN o |-> o[i].errored] = e
  <2>1. /\ s = [i \in 1 .. n |-> s[i]] /\ p = [i \in 1 .. n |-> p[i]] /\ e = [i \in 1 .. n |-> e[i]]
    BY <1>6, Zenon
  <2>. QED  BY <1>4, <1>5, <2>1, Zenon
<1>8. /\ res.total = Sum(s) /\ res.passed = Sum(p) /\ res.errors = Sum(e)
      /\ res.failed = res.total - res.passed - res.errors
  BY <1>7, Zenon DEF SuiteResult
<1>9. \A v \in U : v[1] \in 1 .. n
  BY <1>1, Zenon DEF U
<1>10. IsFiniteSet(P) /\ IsFiniteSet(E)
  BY <1>2, <1>3, FS_Subset, Zenon
<1>11. Sum(s) = Cardinality(U)
  BY <1>1, <1>2, <1>6, <1>9, CountByCase, Zenon
<1>12. Sum(p) = Cardinality(P)
  BY <1>1, <1>3, <1>6, <1>9, <1>10, CountByCase, Zenon
<1>13. Sum(e) = Cardinality(E)
  BY <1>1, <1>3, <1>6, <1>9, <1>10, CountByCase, Zenon
<1>14. /\ res.total = Cardinality(U) /\ res.total = Len(Units(g)) /\ res.passed = Cardinality(P)
       /\ res.errors = Cardinality(E) /\ res.failed = res.total - res.passed - res.errors
  BY <1>2, <1>8, <1>11, <1>12, <1>13, Zenon
<1>. QED  BY <1>14, Zenon DEF res, U, P, E, o

(* What is counted of a group: a conjunct of CountsAgree.                  *)
Agrees(g, res, told) ==
    /\ res.total = Len(Units(groups[g]))
    /\ res.passed >= 0 /\ res.failed >= 0 /\ res.errors >= 0
    /\ res.total = res.passed + res.failed + res.errors
    /\ cmd.transcripts /\ ~cmd.legacy =>
         /\ Cardinality(told) = res.total
         /\ Cardinality({l \in told : l[3]}) = res.passed
         /\ Cardinality({l \in told : l[4]}) = res.errors

(* CountsAgree, group by group.                                            *)
LEMMA CountsAgreeIs == CountsAgree <=> \A g \in DOMAIN tally : Agrees(g, tally[g], LinesOf(g))
BY Zenon DEF CountsAgree, Agrees, LinesOf

(* When all units of a group are done, its result and its lines agree.     *)
LEMMA GroupAgrees ==
    ASSUME StageInv, PoolInv, LineInv, stage = "run",
           \A u \in DOMAIN results : results[u].state = "done"
    PROVE  Agrees(at, SuiteResult(Outcomes(groups[at])), LinesOf(at))
<1>. DEFINE g == groups[at]
            U == DOMAIN results
            P == {u \in U : results[u].success}
            E == {u \in U : results[u].errored}
            res == SuiteResult(Outcomes(g))
            told == LinesOf(at)
<1>1. at \in 1 .. Len(groups) /\ Working /\ Asked /\ at # 0
  BY DEF StageInv, Working
<1>2. GroupIsSound(g) /\ U = Range(Units(g))
  BY <1>1, AskedSound, Zenon DEF StageInv, PoolInv
<1>3. \A u \in U : u[1] \in DOMAIN g.cases
  BY UnitIsSound, Zenon
<1>4. /\ res.total = Cardinality(U) /\ res.total = Len(Units(g)) /\ res.passed = Cardinality(P)
      /\ res.errors = Cardinality(E) /\ res.failed = res.total - res.passed - res.errors
  BY <1>2, <1>3, GroupCounts, Zenon
<1>5. \A u \in U : /\ results[u].success \in BOOLEAN /\ results[u].errored \in BOOLEAN
                   /\ ~(results[u].success /\ results[u].errored)
  BY PoolIsDone, Zenon DEF IsDone
<1>6. P \cap E = {} /\ P \subseteq U /\ E \subseteq U /\ P \cup E \subseteq U
  BY <1>5, Zenon
<1>7. IsFiniteSet(U) /\ Cardinality(U) \in Nat
  BY <1>2, UnitsCount, FS_CardinalityType, Zenon
<1>8. U = Ended(results)
  BY Zenon DEF Ended
<1>9. cmd.transcripts /\ ~cmd.legacy => told = {Line(at, results, u) : u \in U}
  BY <1>1, <1>8, Zenon DEF LineInv
<1>10. /\ {l \in {Line(at, results, u) : u \in U} : l[3]} = {Line(at, results, u) : u \in P}
       /\ {l \in {Line(at, results, u) : u \in U} : l[4]} = {Line(at, results, u) : u \in E}
  BY DEF Line
<1>. HIDE DEF U, P, E, res, told
<1>11. /\ IsFiniteSet(P) /\ Cardinality(P) \in Nat
       /\ IsFiniteSet(E) /\ Cardinality(E) \in Nat
  BY <1>6, <1>7, FS_Subset, FS_CardinalityType, Zenon
<1>12. Cardinality(P) + Cardinality(E) <= Cardinality(U)
  <2>1. Cardinality(P \cup E) = Cardinality(P) + Cardinality(E) - Cardinality({})
    BY <1>6, <1>11, FS_Union, Zenon
  <2>2. Cardinality({}) = 0
    BY FS_EmptySet, Zenon
  <2>3. Cardinality(P \cup E) <= Cardinality(U)
    BY <1>6, <1>7, FS_Subset, Zenon
  <2>. QED  BY <1>11, <2>1, <2>2, <2>3
<1>13. ASSUME cmd.transcripts, ~cmd.legacy
       PROVE  /\ Cardinality(told) = res.total
              /\ Cardinality({l \in told : l[3]}) = res.passed
              /\ Cardinality({l \in told : l[4]}) = res.errors
  <2>1. told = {Line(at, results, u) : u \in U}
    BY <1>9, <1>13, Zenon
  <2>2. /\ {l \in told : l[3]} = {Line(at, results, u) : u \in P}
        /\ {l \in told : l[4]} = {Line(at, results, u) : u \in E}
    BY <1>10, <2>1, Zenon
  <2>3. Cardinality(told) = Cardinality(U)
    BY <1>7, <2>1, LinesCount
  <2>4. Cardinality({l \in told : l[3]}) = Cardinality(P)
    BY <1>11, <2>2, LinesCount
  <2>5. Cardinality({l \in told : l[4]}) = Cardinality(E)
    BY <1>11, <2>2, LinesCount
  <2>. QED  BY <1>4, <2>3, <2>4, <2>5, Zenon
<1>14. /\ res.passed >= 0 /\ res.failed >= 0 /\ res.errors >= 0
       /\ res.total = res.passed + res.failed + res.errors
  BY <1>4, <1>7, <1>11, <1>12
<1>. QED  BY <1>4, <1>13, <1>14, Zenon DEF Agrees, res, told

LEMMA LineInvInit == EvalInit => LineInv
BY DEF EvalInit, LineInv, CountsAgree, Working

(* Neither the lines of a group that has ended nor its counts change.      *)
LEMMA CountsStay ==
    ASSUME CountsAgree, UNCHANGED <<cmd, groups, tally>>,
           \A g \in DOMAIN tally : LinesOf(g)' = LinesOf(g)
    PROVE  CountsAgree'
<1>1. \A g \in DOMAIN tally : Agrees(g, tally[g], LinesOf(g))
  BY CountsAgreeIs, Zenon
<1>2. \A g \in DOMAIN tally' : Agrees(g, tally[g], LinesOf(g))'
  BY <1>1, Zenon DEF Agrees, Units
<1>. QED  BY <1>2, Zenon DEF CountsAgree, Agrees, LinesOf

(* A group that starts has no line yet.                                    *)
LEMMA StartGroupLines ==
    ASSUME StageInv, UNCHANGED <<cmd, lines>>, \A l \in lines : l[1] \in 1 .. at,
           StartGroup(at + 1)
    PROVE  /\ \A l \in lines' : l[1] \in 1 .. at'
           /\ LinesOf(at)' = {Line(at', results', u) : u \in Ended(results')}
<1>1. at \in Nat /\ at' = at + 1
  BY Zenon DEF StageInv, StartGroup
<1>2. LinesOf(at)' = {}
  BY <1>1 DEF LinesOf
<1>3. \A u \in DOMAIN results' : results'[u] = Pending
  BY Zenon DEF StartGroup
<1>4. Ended(results') = {}
  BY <1>3 DEF Ended, Pending
<1>. QED  BY <1>1, <1>2, <1>4

(* A unit that ends adds its line, and the other groups keep theirs.       *)
LEMMA LineInvFinish ==
    ASSUME StageInv, PoolInv, LineInv, NEW t \in 1 .. Threads, Finish(t)
    PROVE  LineInv'
<1>. DEFINE u == run[t].unit
            v == ResultOf(run[t])
            one == <<at, u, v.success, v.errored>>
<1>1. UNCHANGED <<cmd, stage, groups, at, tally>> /\ Working /\ run[t] # Idle
  BY Zenon DEF Finish, PoolInv
<1>2. at \in Nat \ {0} /\ IsList(tally) /\ Len(tally) = at - 1
  BY <1>1 DEF StageInv
<1>3. u \in DOMAIN results /\ results[u] = Pending
  BY <1>1, Zenon DEF PoolInv, Waits
<1>4. \A g \in DOMAIN tally : g # at
  BY <1>2, ListIs
<1>5. CASE lines' = lines \cup {one} /\ results' = [results EXCEPT ![u] = v]
  <2>. HIDE DEF u
  <2>1. v.state = "done"
    BY ResultIsDone, Zenon
  <2>. HIDE DEF v
  <2>2. /\ DOMAIN results' = DOMAIN results /\ results'[u] = v
        /\ \A w \in DOMAIN results : w # u => results'[w] = results[w]
    BY <1>3, <1>5, Zenon
  <2>3. Ended(results') = Ended(results) \cup {u} /\ u \notin Ended(results)
    BY <1>3, <2>1, <2>2 DEF Ended, Pending
  <2>4. /\ Line(at, results', u) = one
        /\ \A w \in Ended(results) : Line(at, results', w) = Line(at, results, w)
    BY <2>2, <2>3, Zenon DEF Line, Ended
  <2>5. one[1] = at
    BY Zenon
  <2>. HIDE DEF one
  <2>6. {Line(at, results', w) : w \in Ended(results')} =
          {Line(at, results, w) : w \in Ended(results)} \cup {one}
    BY <2>3, <2>4
  <2>7. LinesOf(at)' = LinesOf(at) \cup {one} /\ \A g \in DOMAIN tally : LinesOf(g)' = LinesOf(g)
    BY <1>1, <1>4, <1>5, <2>5, Zenon DEF LinesOf
  <2>8. CountsAgree'
    BY <1>1, <2>7, CountsStay, Zenon DEF LineInv
  <2>9. \A l \in lines' : l[1] \in 1 .. at'
    BY <1>1, <1>2, <1>5, <2>5 DEF LineInv
  <2>. QED  BY <1>1, <2>6, <2>7, <2>8, <2>9, Zenon DEF LineInv, Working
<1>6. CASE lines' = lines /\ (~cmd.transcripts \/ cmd.legacy)
  <2>1. CountsAgree'
    BY <1>1, <1>6, CountsStay, Zenon DEF LineInv, LinesOf
  <2>. QED  BY <1>1, <1>6, <2>1, Zenon DEF LineInv
<1>7. CASE lines' = lines /\ results' = [results EXCEPT ![u] = Raised]
  <2>. HIDE DEF u
  <2>1. Ended(results') = Ended(results)
    BY <1>3, <1>7 DEF Ended, Pending, Raised
  <2>2. \A w \in Ended(results) : Line(at, results', w) = Line(at, results, w)
    BY <1>3, <1>7, <2>1 DEF Line, Ended, Pending
  <2>3. {Line(at, results', w) : w \in Ended(results')} = {Line(at, results, w) : w \in Ended(results)}
    BY <2>1, <2>2, Zenon
  <2>4. CountsAgree'
    BY <1>1, <1>7, CountsStay, Zenon DEF LineInv, LinesOf
  <2>5. LinesOf(at)' = LinesOf(at)
    BY <1>1, <1>7, Zenon DEF LinesOf
  <2>6. Working' = Working
    BY <1>1, Zenon DEF Working
  <2>7. \A l \in lines' : l[1] \in 1 .. at'
    BY <1>1, <1>7, Zenon DEF LineInv
  <2>8. cmd.transcripts' /\ ~cmd.legacy' /\ Working'
        => LinesOf(at)' = {Line(at, results', w) : w \in Ended(results')}
    BY <1>1, <2>3, <2>5, <2>6, Zenon DEF LineInv
  <2>. QED  BY <1>1, <2>4, <2>7, <2>8, Zenon DEF LineInv
<1>. QED  BY <1>5, <1>6, <1>7, Zenon DEF Finish

(* A group that ends is counted, and the counted ones stay as they are.    *)
LEMMA LineInvEndGroup ==
    ASSUME StageInv, PoolInv, LineInv, EndGroup
    PROVE  LineInv'
<1>. DEFINE res == SuiteResult(Outcomes(groups[at]))
<1>1. UNCHANGED <<cmd, groups, lines>> /\ tally' = Append(tally, res) /\ stage = "run"
  BY Zenon DEF EndGroup
<1>2. at \in Nat \ {0} /\ IsList(tally) /\ Len(tally) = at - 1
  BY <1>1 DEF StageInv, Working
<1>3. Agrees(at, res, LinesOf(at))
  BY <1>1, GroupAgrees, Zenon DEF EndGroup
<1>. HIDE DEF res
<1>4. /\ DOMAIN tally' = DOMAIN tally \cup {at} /\ tally'[at] = res
      /\ \A g \in DOMAIN tally : tally'[g] = tally[g]
  <2>1. /\ IsList(tally') /\ Len(tally') = Len(tally) + 1 /\ tally'[Len(tally) + 1] = res
        /\ \A g \in 1 .. Len(tally) : tally'[g] = tally[g]
    BY <1>1, <1>2, ListAppended
  <2>2. DOMAIN tally = 1 .. at - 1 /\ DOMAIN tally' = 1 .. at /\ Len(tally) + 1 = at
    BY <1>2, <2>1, ListIs
  <2>. QED  BY <1>2, <2>1, <2>2
<1>5. \A g \in DOMAIN tally : Agrees(g, tally[g], LinesOf(g))
  BY CountsAgreeIs, Zenon DEF LineInv
<1>6. \A g \in DOMAIN tally' : Agrees(g, tally[g], LinesOf(g))'
  <2>1. \A g \in DOMAIN tally' : Agrees(g, tally'[g], LinesOf(g))
    BY <1>3, <1>4, <1>5, Zenon
  <2>. QED  BY <1>1, <2>1, Zenon DEF Agrees, LinesOf, Units
<1>7. CountsAgree'
  BY <1>6, Zenon DEF CountsAgree, Agrees, LinesOf
<1>8. CASE StartGroup(at + 1)
  BY <1>1, <1>7, <1>8, StartGroupLines, Zenon DEF LineInv
<1>9. CASE ~Working' /\ at' = at
  BY <1>1, <1>7, <1>9, Zenon DEF LineInv
<1>. QED  BY <1>8, <1>9, Zenon DEF EndGroup, Working

(* Every step keeps lines and counts in agreement.                         *)
LEMMA LineInvNext == StageInv /\ PoolInv /\ LineInv /\ [EvalNext]_evalVars => LineInv'
<1>. SUFFICES ASSUME StageInv, PoolInv, LineInv, [EvalNext]_evalVars PROVE LineInv'
  BY Zenon
<1>1. ASSUME UNCHANGED <<cmd, groups, at, lines, tally, results>>, Working' => Working PROVE LineInv'
  <2>1. CountsAgree'
    BY <1>1, CountsStay, Zenon DEF LineInv, LinesOf
  <2>. QED  BY <1>1, <2>1, Zenon DEF LineInv, LinesOf
<1>2. CASE Load
  <2>1. UNCHANGED <<at, lines, tally>> /\ ~Working' /\ tally = <<>>
    BY <1>2, Zenon DEF Load, Blocked, Working, StageInv
  <2>2. CountsAgree'
    BY <2>1 DEF CountsAgree
  <2>. QED  BY <2>1, <2>2, Zenon DEF LineInv
<1>3. CASE Preflight
  <2>1. UNCHANGED <<cmd, groups, lines, tally>> /\ ~Working
    BY <1>3, Zenon DEF Preflight, Working
  <2>2. CountsAgree'
    BY <2>1, CountsStay, Zenon DEF LineInv, LinesOf
  <2>3. CASE StartGroup(at + 1)
    BY <2>1, <2>2, <2>3, StartGroupLines, Zenon DEF LineInv
  <2>4. CASE ~Working' /\ at' = at
    BY <2>1, <2>2, <2>4, Zenon DEF LineInv
  <2>. QED  BY <1>3, <2>3, <2>4, Zenon DEF Preflight, Blocked, Working
<1>4. ASSUME NEW t \in 1 .. Threads, Worker(t) PROVE LineInv'
  <2>1. CASE Finish(t)
    BY <2>1, LineInvFinish, Zenon
  <2>2. CASE Take(t) \/ Turn(t)
    <3>1. UNCHANGED <<cmd, stage, groups, at, lines, tally, results>>
      BY <2>2, Zenon DEF Take, Turn
    <3>. QED  BY <1>1, <3>1, Zenon DEF Working
  <2>. QED  BY <1>4, <2>1, <2>2, Zenon DEF Worker
<1>5. CASE Cancel
  BY <1>1, <1>5, Zenon DEF Cancel, Working
<1>6. CASE Unwind
  BY <1>1, <1>6, Zenon DEF Unwind, Working
<1>7. CASE EndGroup
  BY <1>7, LineInvEndGroup, Zenon
<1>8. CASE Report
  BY <1>1, <1>8, Zenon DEF Report, Working
<1>9. CASE UNCHANGED evalVars
  BY <1>1, <1>9, Zenon DEF evalVars, Working
<1>. QED  BY <1>2, <1>3, <1>4, <1>5, <1>6, <1>7, <1>8, <1>9, Zenon DEF EvalNext, Main

(* What the program reports is so, for every command line, every endpoint  *)
(* and every number of threads: each run is counted once, the transcripts  *)
(* tell the same numbers, and the exit code is 0 only when every suite     *)
(* asked for was run, is written down and met the threshold.               *)
THEOREM ReportsAreRight == EvalSpec => []EvalReportIsRight
<1>. DEFINE Inv == StageInv /\ PoolInv /\ LineInv
<1>1. EvalInit => Inv
  BY StageInvInit, PoolInvInit, LineInvInit, Zenon
<1>2. Inv /\ [EvalNext]_evalVars => Inv'
  BY StageInvNext, PoolInvNext, LineInvNext, Zenon
<1>3. Inv => EvalReportIsRight
  <2>. SUFFICES ASSUME StageInv, LineInv PROVE EvalReportIsRight
    BY Zenon
  <2>1. ASSUME exit = 2 PROVE benchmark = <<>> /\ (~cmd.legacy => at = 0 /\ lines = {})
    BY <2>1 DEF StageInv, ExitIsEarned, LineInv
  <2>2. ASSUME exit = 0, ~cmd.legacy
        PROVE  /\ tally # <<>> /\ Len(tally) = Len(groups) /\ benchmark = tally
               /\ \A g \in DOMAIN tally :
                    tally[g].total > 0 /\ tally[g].passed * 100 >= cmd.threshold * tally[g].total
    <3>1. Asked /\ Len(tally) = Len(groups) /\ benchmark = tally /\ ExitCode(tally, cmd.threshold) = 0
      BY <2>2, Zenon DEF StageInv, ExitIsEarned
    <3>2. /\ Len(groups) \in Nat /\ Len(groups) # 0
          /\ \A g \in 1 .. Len(groups) : SuiteIsSound(groups[g])
      BY <2>2, <3>1, AskedSound, Zenon DEF StageInv
    <3>3. tally # <<>> /\ DOMAIN tally = 1 .. Len(groups)
      BY <3>1, <3>2, ListIs, Zenon DEF StageInv
    <3>4. \A g \in DOMAIN tally : Meets(tally[g], cmd.threshold)
      BY <3>1 DEF ExitCode
    <3>5. ASSUME NEW g \in DOMAIN tally PROVE tally[g].total > 0
      <4>1. tally[g].total = Len(Units(groups[g]))
        BY Zenon DEF LineInv, CountsAgree
      <4>2. GroupIsSound(groups[g]) /\ groups[g].cases # <<>>
        BY <3>2, <3>3, Zenon DEF SuiteIsSound
      <4>. QED  BY <4>1, <4>2, UnitsOf, Zenon
    <3>6. ASSUME NEW g \in DOMAIN tally
          PROVE  tally[g].passed * 100 >= cmd.threshold * tally[g].total
      BY <3>4, <3>5 DEF Meets
    <3>. QED  BY <3>1, <3>3, <3>5, <3>6, Zenon
  <2>. QED  BY <2>1, <2>2, Zenon DEF EvalReportIsRight, LineInv
<1>. QED  BY <1>1, <1>2, <1>3, PTL DEF EvalSpec
=============================================================================
