----------------------------- MODULE EvalProofs -----------------------------
(***************************************************************************)
(* The evaluation program (EvalRun) passes only what earned it and feeds   *)
(* refusals back, for every command line, every endpoint and every number  *)
(* of threads.                                                             *)
(***************************************************************************)
EXTENDS EvalRun, LoopProofs

(* Lists. *)

(* A sequence over any set is a list.                                      *)
LEMMA ListOf ==
    ASSUME NEW S, NEW s \in Seq(S)
    PROVE  IsList(s)
BY DEF IsList, Range

(* What a list is: a sequence over the set of its own elements.            *)
LEMMA ListIs ==
    ASSUME NEW s, IsList(s)
    PROVE  /\ Len(s) \in Nat /\ DOMAIN s = 1 .. Len(s) /\ (s = <<>> <=> Len(s) = 0)
           /\ s \in Seq(Range(s))
BY DEF IsList

(* A function on 1 .. n is a list.                                         *)
LEMMA ListMade ==
    ASSUME NEW n \in Nat, NEW s, s = [i \in 1 .. n |-> s[i]]
    PROVE  IsList(s) /\ Len(s) = n
<1>. DEFINE S == {s[i] : i \in 1 .. n}
<1>1. s \in [1 .. n -> S]
  <2>1. \A i \in 1 .. n : s[i] \in S
    BY Zenon
  <2>. HIDE DEF S
  <2>. QED  BY <2>1, Zenon
<1>. HIDE DEF S
<1>2. s \in Seq(S) /\ Len(s) = n
  BY <1>1
<1>3. IsList(s)
  BY <1>2, ListOf, Zenon
<1>. QED  BY <1>2, <1>3, Zenon

(* Two lists in a row are a list of both.                                  *)
LEMMA ListsJoined ==
    ASSUME NEW a, NEW b, IsList(a), IsList(b)
    PROVE  /\ IsList(a \o b) /\ Len(a \o b) = Len(a) + Len(b)
           /\ \A i \in 1 .. Len(a) : (a \o b)[i] = a[i]
           /\ \A i \in 1 .. Len(b) : (a \o b)[Len(a) + i] = b[i]
<1>. DEFINE S == Range(a) \cup Range(b)
<1>1. a \in Seq(S) /\ b \in Seq(S)
  <2>1. Range(a) \subseteq S /\ Range(b) \subseteq S
    BY Zenon
  <2>. HIDE DEF S
  <2>. QED  BY <2>1 DEF IsList
<1>. HIDE DEF S
<1>2. /\ a \o b \in Seq(S) /\ Len(a \o b) = Len(a) + Len(b)
      /\ \A i \in 1 .. Len(a) : (a \o b)[i] = a[i]
      /\ \A i \in 1 .. Len(b) : (a \o b)[Len(a) + i] = b[i]
  BY <1>1
<1>3. IsList(a \o b)
  BY <1>2, ListOf, Zenon
<1>. QED  BY <1>2, <1>3, Zenon

(* A list with one more element.                                           *)
LEMMA ListAppended ==
    ASSUME NEW s, IsList(s), NEW x
    PROVE  /\ IsList(Append(s, x)) /\ Len(Append(s, x)) = Len(s) + 1
           /\ \A i \in 1 .. Len(s) : Append(s, x)[i] = s[i]
           /\ Append(s, x)[Len(s) + 1] = x
<1>. DEFINE S == Range(s) \cup {x}
<1>1. s \in Seq(S) /\ x \in S
  <2>1. Range(s) \subseteq S /\ x \in S
    BY Zenon
  <2>. HIDE DEF S
  <2>. QED  BY <2>1 DEF IsList
<1>. HIDE DEF S
<1>2. Append(s, x) \in Seq(S)
  BY <1>1
<1>3. IsList(Append(s, x))
  BY <1>2, ListOf, Zenon
<1>. QED  BY <1>1, <1>3

-----------------------------------------------------------------------------
(* What is run. *)

(* An expected tool and the expectation of none exclude each other.        *)
CaseIsSound(c) == c.expected_tool # None => ~c.expect_no_tool_call

GroupIsSound(g) ==
    /\ IsList(g.cases) /\ g.repeats \in Nat \ {0}
    /\ \A i, j \in DOMAIN g.cases : g.cases[i].name = g.cases[j].name => i = j

SuiteIsSound(g) ==
    /\ GroupIsSound(g) /\ g.cases # <<>>
    /\ \A i \in DOMAIN g.cases : CaseIsSound(g.cases[i])
    /\ g = [name |-> g.name, repeats |-> g.repeats, cases |-> g.cases]

(* A suite file that passes the validation loads as a sound suite.         *)
LEMMA LoadSuiteSound ==
    ASSUME NEW s, SuiteIsValid(s), IsList(s.cases), s.repeats \in Int
    PROVE  SuiteIsSound(LoadSuite(s))
<1>. DEFINE g == LoadSuite(s)
<1>1. g.repeats = s.repeats /\ g.cases = [i \in DOMAIN s.cases |-> ToEvalCase(s.cases[i], s.schemas)]
  BY Zenon DEF LoadSuite
<1>2. g = [name |-> g.name, repeats |-> g.repeats, cases |-> g.cases]
  BY Zenon DEF LoadSuite
<1>. HIDE DEF g
<1>3. Len(s.cases) \in Nat /\ DOMAIN s.cases = 1 .. Len(s.cases) /\ Len(s.cases) # 0
  BY ListIs, Zenon DEF SuiteIsValid
<1>4. IsList(g.cases) /\ Len(g.cases) = Len(s.cases) /\ DOMAIN g.cases = DOMAIN s.cases
  <2>. DEFINE t == g.cases
  <2>1. t = [i \in 1 .. Len(s.cases) |-> t[i]]
    BY <1>1, <1>3, Zenon
  <2>. HIDE DEF t
  <2>2. IsList(t) /\ Len(t) = Len(s.cases) /\ DOMAIN t = 1 .. Len(s.cases)
    BY <1>3, <2>1, ListMade, Zenon
  <2>. QED  BY <1>3, <2>2, Zenon DEF t
<1>5. \A i \in DOMAIN s.cases : g.cases[i].name = s.cases[i].id /\ CaseIsSound(g.cases[i])
  <2>. SUFFICES ASSUME NEW i \in DOMAIN s.cases
       PROVE  g.cases[i].name = s.cases[i].id /\ CaseIsSound(g.cases[i])
    BY Zenon
  <2>1. g.cases[i] = ToEvalCase(s.cases[i], s.schemas)
    BY <1>1, Zenon
  <2>2. g.cases[i].name = s.cases[i].id
    BY <2>1 DEF ToEvalCase
  <2>3. g.cases[i].expect_no_tool_call = (s.cases[i].tool = "null")
    BY <2>1 DEF ToEvalCase
  <2>4. s.cases[i].tool = "null" => g.cases[i].expected_tool = None
    BY <2>1 DEF ToEvalCase
  <2>. QED  BY <2>2, <2>3, <2>4, Zenon DEF CaseIsSound
<1>6. \A i, j \in DOMAIN s.cases : s.cases[i].id = s.cases[j].id => i = j
  BY Zenon DEF SuiteIsValid, IsInjective
<1>7. s.repeats >= 1
  BY Zenon DEF SuiteIsValid
<1>8. GroupIsSound(g)
  <2>1. g.repeats \in Nat \ {0}
    BY <1>1, <1>7
  <2>2. \A i, j \in DOMAIN g.cases : g.cases[i].name = g.cases[j].name => i = j
    BY <1>4, <1>5, <1>6
  <2>. QED  BY <1>4, <2>1, <2>2, Zenon DEF GroupIsSound
<1>9. g.cases # <<>>
  BY <1>3, <1>4, ListIs, Zenon
<1>10. SuiteIsSound(g)
  BY <1>2, <1>4, <1>5, <1>8, <1>9, Zenon DEF SuiteIsSound
<1>. QED  BY <1>10, Zenon DEF g

(* So do the files of all paths of a valid command line.                   *)
LEMMA LoadSuitesSound ==
    ASSUME NEW paths, IsList(paths), paths # <<>>,
           \A n \in DOMAIN paths :
             /\ IsList(paths[n]) /\ PathIsValid(paths[n])
             /\ \A i \in DOMAIN paths[n] : paths[n][i].repeats \in Int /\ IsList(paths[n][i].cases)
    PROVE  /\ IsList(LoadSuites(paths)) /\ LoadSuites(paths) # <<>>
           /\ \A k \in DOMAIN LoadSuites(paths) : SuiteIsSound(LoadSuites(paths)[k])
<1>. DEFINE ss == [n \in DOMAIN paths |-> LoadPath(paths[n])]
            S == UNION {Range(ss[n]) : n \in DOMAIN paths}
            all == Join(ss)
<1>0. Len(paths) \in Nat /\ DOMAIN paths = 1 .. Len(paths) /\ Len(paths) # 0
  BY ListIs, Zenon
<1>1. ASSUME NEW n \in DOMAIN paths
      PROVE  /\ IsList(ss[n]) /\ Len(ss[n]) \in Nat \ {0} /\ DOMAIN ss[n] = 1 .. Len(ss[n])
             /\ \A k \in 1 .. Len(ss[n]) : SuiteIsSound(ss[n][k])
  <2>. DEFINE p == paths[n]
              t == ss[n]
  <2>0. IsList(p) /\ p # <<>>
    BY Zenon DEF PathIsValid
  <2>1. Len(p) \in Nat /\ DOMAIN p = 1 .. Len(p) /\ Len(p) # 0
    <3>. HIDE DEF p
    <3>. QED  BY <2>0, ListIs, Zenon
  <2>2. t = [i \in 1 .. Len(p) |-> LoadSuite(p[i])]
    BY <2>1, Zenon DEF LoadPath
  <2>3. \A i \in 1 .. Len(p) : SuiteIsSound(LoadSuite(p[i]))
    BY <2>1, LoadSuiteSound, Zenon DEF PathIsValid
  <2>. HIDE DEF p, t
  <2>4. IsList(t) /\ Len(t) = Len(p)
    BY <2>1, <2>2, ListMade, Zenon
  <2>5. DOMAIN t = 1 .. Len(p) /\ \A k \in 1 .. Len(p) : SuiteIsSound(t[k])
    BY <2>2, <2>3, Zenon
  <2>. QED  BY <2>1, <2>4, <2>5, Zenon DEF t
<1>2. ss \in Seq(Seq(S))
  <2>1. ASSUME NEW n \in DOMAIN paths PROVE ss[n] \in Seq(S)
    <3>1. ss[n] \in Seq(Range(ss[n])) /\ Range(ss[n]) \subseteq S
      BY <1>1, Zenon DEF IsList
    <3>. HIDE DEF ss, S
    <3>. QED  BY <3>1
  <2>2. ss = [n \in 1 .. Len(paths) |-> ss[n]]
    BY <1>0, Zenon
  <2>. HIDE DEF ss, S
  <2>. QED  BY <1>0, <2>1, <2>2
<1>3. Len(ss) = Len(paths)
  BY <1>0
<1>. HIDE DEF ss, S
<1>4. /\ all \in Seq(S)
      /\ \A i \in 1 .. Len(ss) : \A k \in 1 .. Len(ss[i]) :
           \E n \in 1 .. Len(all) : all[n] = ss[i][k]
      /\ \A n \in 1 .. Len(all) :
           \E i \in 1 .. Len(ss) : \E k \in 1 .. Len(ss[i]) : all[n] = ss[i][k]
  BY <1>2, JoinHas, Zenon
<1>5. all # <<>>
  <2>1. 1 \in 1 .. Len(ss) /\ 1 \in 1 .. Len(ss[1])
    BY <1>0, <1>1, <1>3
  <2>. HIDE DEF all
  <2>2. PICK n \in 1 .. Len(all) : all[n] = ss[1][1]
    BY <1>4, <2>1, Zenon
  <2>. QED  BY <2>2
<1>6. \A k \in DOMAIN all : SuiteIsSound(all[k])
  <2>. HIDE DEF all
  <2>. SUFFICES ASSUME NEW k \in 1 .. Len(all) PROVE SuiteIsSound(all[k])
    BY <1>4
  <2>1. PICK i \in 1 .. Len(ss) : \E j \in 1 .. Len(ss[i]) : all[k] = ss[i][j]
    BY <1>4, Zenon
  <2>2. i \in DOMAIN paths
    BY <1>0, <1>3, <2>1, Zenon
  <2>. QED  BY <1>1, <2>1, <2>2, Zenon
<1>7. LoadSuites(paths) = all
  BY Zenon DEF LoadSuites, ss
<1>8. IsList(all)
  BY <1>4, ListOf, Zenon
<1>. QED  BY <1>5, <1>6, <1>7, <1>8, Zenon

(* A suite of which --case keeps something stays sound.                    *)
LEMMA ReducedSound ==
    ASSUME NEW s, SuiteIsSound(s), NEW ids, Wanted(s, ids) # {}
    PROVE  SuiteIsSound(Reduced(s, ids))
<1>. DEFINE cs == s.cases
            W == Wanted(s, ids)
            t == Select(cs, W)
            r == Reduced(s, ids)
<1>1. r = [name |-> s.name, repeats |-> s.repeats, cases |-> t]
  BY DEF Reduced, SuiteIsSound
<1>2. IsList(cs) /\ cs \in Seq(Range(cs)) /\ W \subseteq DOMAIN cs /\ DOMAIN cs = 1 .. Len(cs)
  BY ListIs, Zenon DEF SuiteIsSound, GroupIsSound, Wanted
<1>3. /\ \A i, j \in DOMAIN cs : cs[i].name = cs[j].name => i = j
      /\ \A i \in DOMAIN cs : CaseIsSound(cs[i])
  BY Zenon DEF SuiteIsSound, GroupIsSound
<1>. HIDE DEF cs, W
<1>4. t \in Seq(Range(cs)) /\ \E g : Picks(g, t, cs, W)
  BY <1>2, SelectPicks, Zenon
<1>5. PICK g : Picks(g, t, cs, W)
  BY <1>4, Zenon
<1>. HIDE DEF t
<1>6. /\ \A k \in 1 .. Len(t) : g[k] \in DOMAIN cs /\ t[k] = cs[g[k]]
      /\ \A k, l \in 1 .. Len(t) : k < l => g[k] < g[l]
      /\ \A p \in W : \E k \in 1 .. Len(t) : g[k] = p
  BY <1>2, <1>5, Zenon DEF Picks, Enumerates
<1>7. IsList(t) /\ DOMAIN t = 1 .. Len(t) /\ Len(t) \in Nat
  BY <1>4, ListOf
<1>8. \A i, j \in DOMAIN t : t[i].name = t[j].name => i = j
  <2>. SUFFICES ASSUME NEW i \in 1 .. Len(t), NEW j \in 1 .. Len(t), t[i].name = t[j].name, i # j
       PROVE  FALSE
    BY <1>7, Zenon
  <2>1. g[i] = g[j] /\ g[i] \in Nat /\ g[j] \in Nat
    BY <1>2, <1>3, <1>6
  <2>. QED  BY <1>6, <1>7, <2>1
<1>9. \A i \in DOMAIN t : CaseIsSound(t[i])
  BY <1>3, <1>6, <1>7, Zenon
<1>10. t # <<>>
  <2>1. PICK p \in W : TRUE
    BY Zenon DEF W
  <2>2. PICK k \in 1 .. Len(t) : g[k] = p
    BY <1>6, <2>1, Zenon
  <2>. QED  BY <1>7, <2>2
<1>11. GroupIsSound(r)
  <2>1. r.cases = t /\ r.repeats = s.repeats
    BY <1>1
  <2>2. s.repeats \in Nat \ {0}
    BY Zenon DEF SuiteIsSound, GroupIsSound
  <2>. HIDE DEF r
  <2>. QED  BY <1>7, <1>8, <2>1, <2>2, Zenon DEF GroupIsSound
<1>12. r.cases = t /\ r = [name |-> r.name, repeats |-> r.repeats, cases |-> r.cases]
  BY <1>1
<1>. HIDE DEF r
<1>13. SuiteIsSound(r)
  BY <1>9, <1>10, <1>11, <1>12, Zenon DEF SuiteIsSound
<1>. QED  BY <1>13, Zenon DEF r

(* So does the selection over all suites, which keeps at least one.        *)
LEMMA SelectCasesSound ==
    ASSUME NEW suites, IsList(suites), \A k \in DOMAIN suites : SuiteIsSound(suites[k]),
           NEW ids, ids # {}, CasesAreKnown(suites, ids)
    PROVE  /\ IsList(SelectCases(suites, ids)) /\ SelectCases(suites, ids) # <<>>
           /\ \A k \in DOMAIN SelectCases(suites, ids) : SuiteIsSound(SelectCases(suites, ids)[k])
<1>. DEFINE rs == [i \in DOMAIN suites |-> Reduced(suites[i], ids)]
            K == {i \in DOMAIN suites : Wanted(suites[i], ids) # {}}
            t == Select(rs, K)
<1>0. Len(suites) \in Nat /\ DOMAIN suites = 1 .. Len(suites)
  BY ListIs, Zenon
<1>1. \A i \in K : SuiteIsSound(rs[i])
  BY ReducedSound, Zenon
<1>2. rs \in Seq(Range(rs)) /\ K \subseteq DOMAIN rs
  <2>1. rs = [i \in 1 .. Len(suites) |-> rs[i]] /\ K \subseteq DOMAIN rs
    BY <1>0, Zenon
  <2>. HIDE DEF rs
  <2>2. IsList(rs)
    BY <1>0, <2>1, ListMade, Zenon
  <2>. QED  BY <2>1, <2>2, Zenon DEF IsList
<1>3. PICK i \in DOMAIN suites : i \in K
  <2>1. PICK id \in ids : TRUE
    BY Zenon
  <2>2. PICK s \in Range(suites) : \E j \in DOMAIN s.cases : s.cases[j].name = id
    BY <2>1 DEF CasesAreKnown
  <2>3. PICK i \in DOMAIN suites : s = suites[i]
    BY <2>2, Zenon DEF Range
  <2>. QED  BY <2>1, <2>2, <2>3, Zenon DEF Wanted
<1>. HIDE DEF rs, K
<1>4. t \in Seq(Range(rs)) /\ \E g : Picks(g, t, rs, K)
  BY <1>2, SelectPicks, Zenon
<1>5. PICK g : Picks(g, t, rs, K)
  BY <1>4, Zenon
<1>. HIDE DEF t
<1>6. IsList(t) /\ DOMAIN t = 1 .. Len(t)
  BY <1>4, ListOf
<1>7. \A k \in DOMAIN t : SuiteIsSound(t[k])
  BY <1>1, <1>5, <1>6, Zenon DEF Picks, Enumerates
<1>8. t # <<>>
  <2>1. PICK k \in 1 .. Len(t) : g[k] = i
    BY <1>3, <1>5, Zenon DEF Picks, Enumerates
  <2>. QED  BY <2>1
<1>9. SelectCases(suites, ids) = t
  BY Zenon DEF SelectCases, t, rs, K
<1>. QED  BY <1>6, <1>7, <1>8, <1>9, Zenon

(* What a valid command line asks for is sound and, of suites, not empty.  *)
LEMMA GroupsSound ==
    ASSUME NEW c \in Commands, c.legacy \/ CommandIsValid(c)
    PROVE  /\ IsList(GroupsOf(c))
           /\ \A i \in DOMAIN GroupsOf(c) : GroupIsSound(GroupsOf(c)[i])
           /\ ~c.legacy => /\ GroupsOf(c) # <<>>
                           /\ \A i \in DOMAIN GroupsOf(c) : SuiteIsSound(GroupsOf(c)[i])
<1>. DEFINE gs == GroupsOf(c)
<1>1. CASE c.legacy
  <2>1. /\ c.models \in Nat /\ IsList(c.cases)
        /\ \A i, j \in DOMAIN c.cases : c.cases[i].name = c.cases[j].name => i = j
    BY <1>1, CommandsAssumption, Zenon DEF IsInjective
  <2>2. gs = [m \in 1 .. c.models |-> [name |-> m, repeats |-> 1, cases |-> c.cases]]
    BY <1>1, Zenon DEF GroupsOf
  <2>. HIDE DEF gs
  <2>3. IsList(gs)
    BY <2>1, <2>2, ListMade, Zenon
  <2>4. \A i \in DOMAIN gs : gs[i].repeats = 1 /\ gs[i].cases = c.cases
    BY <2>2, Zenon
  <2>5. \A i \in DOMAIN gs : GroupIsSound(gs[i])
    BY <2>1, <2>4 DEF GroupIsSound
  <2>. QED  BY <1>1, <2>3, <2>5, Zenon DEF gs
<1>2. CASE ~c.legacy
  <2>. DEFINE all == LoadSuites(c.paths)
              chosen == IF c.ids = {} THEN all ELSE SelectCases(all, c.ids)
  <2>1. /\ IsList(c.paths) /\ c.paths # <<>> /\ c.repeats \in Seq(Int)
        /\ \A n \in DOMAIN c.paths :
             /\ IsList(c.paths[n])
             /\ \A i \in DOMAIN c.paths[n] :
                  c.paths[n][i].repeats \in Int /\ IsList(c.paths[n][i].cases)
    BY <1>2, CommandsAssumption, Zenon
  <2>2. /\ \A n \in DOMAIN c.paths : PathIsValid(c.paths[n])
        /\ c.ids # {} => CasesAreKnown(all, c.ids)
        /\ c.repeats # <<>> => c.repeats[1] >= 1
    BY <1>2, Zenon DEF CommandIsValid
  <2>3. /\ IsList(all) /\ all # <<>> /\ \A k \in DOMAIN all : SuiteIsSound(all[k])
    BY <2>1, <2>2, LoadSuitesSound, Zenon
  <2>4. gs = [i \in DOMAIN chosen |->
                IF c.repeats = <<>> THEN chosen[i]
                ELSE [chosen[i] EXCEPT !.repeats = c.repeats[1]]]
    BY <1>2, Zenon DEF GroupsOf
  <2>. HIDE DEF all, gs
  <2>5. IsList(chosen) /\ chosen # <<>> /\ \A k \in DOMAIN chosen : SuiteIsSound(chosen[k])
    BY <2>2, <2>3, SelectCasesSound, Zenon
  <2>. HIDE DEF chosen
  <2>6. Len(chosen) \in Nat /\ DOMAIN chosen = 1 .. Len(chosen) /\ Len(chosen) # 0
    BY <2>5, ListIs, Zenon
  <2>7. IsList(gs) /\ Len(gs) = Len(chosen)
    BY <2>4, <2>6, ListMade, Zenon
  <2>8. ASSUME NEW i \in DOMAIN gs PROVE SuiteIsSound(gs[i])
    <3>1. i \in DOMAIN chosen /\ SuiteIsSound(chosen[i])
      BY <2>4, <2>5, Zenon
    <3>2. CASE c.repeats = <<>>
      BY <2>4, <3>1, <3>2, Zenon
    <3>3. CASE c.repeats # <<>>
      <4>. DEFINE s == chosen[i]
                  n == c.repeats[1]
      <4>1. gs[i] = [s EXCEPT !.repeats = n]
        BY <2>4, <3>1, <3>3, Zenon
      <4>2. n \in Nat \ {0}
        <5>1. n \in Int
          BY <2>1, <3>3
        <5>. QED  BY <2>2, <3>3, <5>1
      <4>3. SuiteIsSound(s)
        BY <3>1, Zenon
      <4>. HIDE DEF s, n
      <4>4. gs[i] = [name |-> s.name, repeats |-> n, cases |-> s.cases]
        BY <4>1, <4>3, Zenon DEF SuiteIsSound
      <4>5. gs[i].repeats = n /\ gs[i].cases = s.cases /\ gs[i].name = s.name
        BY <4>4
      <4>. QED  BY <4>2, <4>3, <4>4, <4>5, Zenon DEF SuiteIsSound, GroupIsSound
    <3>. QED  BY <3>2, <3>3, Zenon
  <2>9. gs # <<>>
    BY <2>6, <2>7, ListIs, Zenon
  <2>10. \A i \in DOMAIN gs : GroupIsSound(gs[i])
    BY <2>8, Zenon DEF SuiteIsSound
  <2>. QED  BY <1>2, <2>7, <2>8, <2>9, <2>10, Zenon DEF gs
<1>. QED  BY <1>1, <1>2, Zenon

-----------------------------------------------------------------------------
(* Units. *)

LEMMA DivMod ==
    ASSUME NEW k \in Nat, NEW r \in Nat \ {0}
    PROVE  /\ k \div r \in Nat /\ k % r \in 0 .. r - 1
           /\ k = r * (k \div r) + (k % r)
OBVIOUS

LEMMA ProductBound ==
    ASSUME NEW n \in Nat, NEW r \in Nat \ {0}, NEW q \in Nat, n <= q
    PROVE  n * r <= r * q /\ n * r \in Nat
OBVIOUS

(* A unit is listed once and belongs to a case of the group.               *)
LEMMA UnitsOf ==
    ASSUME NEW g, GroupIsSound(g)
    PROVE  /\ Len(Units(g)) = Len(g.cases) * g.repeats
           /\ Len(Units(g)) \in Nat /\ DOMAIN Units(g) = 1 .. Len(Units(g))
           /\ Units(g) \in Seq(Range(Units(g)))
           /\ g.cases # <<>> => Len(Units(g)) > 0
           /\ \A k \in DOMAIN Units(g) : Units(g)[k][1] \in 1 .. Len(g.cases)
           /\ \A j, k \in DOMAIN Units(g) : Units(g)[j] = Units(g)[k] => j = k
<1>. DEFINE n == Len(g.cases)
            r == g.repeats
            us == Units(g)
<1>1. n \in Nat /\ r \in Nat \ {0} /\ (g.cases # <<>> => n # 0)
  BY ListIs, Zenon DEF GroupIsSound
<1>2. us = [k \in 1 .. n * r |-> <<((k - 1) \div r) + 1, ((k - 1) % r) + 1>>]
  BY Zenon DEF Units
<1>. HIDE DEF n, r, us
<1>3. n * r \in Nat /\ (g.cases # <<>> => n * r > 0)
  BY <1>1
<1>4. IsList(us) /\ Len(us) = n * r /\ DOMAIN us = 1 .. n * r
  BY <1>2, <1>3, ListMade, Zenon
<1>5. ASSUME NEW k \in 1 .. n * r PROVE us[k][1] \in 1 .. n
  <2>. DEFINE x == k - 1
              q == x \div r
  <2>1. x \in Nat /\ x < n * r /\ us[k][1] = q + 1
    BY <1>2, <1>3
  <2>. HIDE DEF x
  <2>2. q \in Nat /\ x = r * q + (x % r) /\ x % r \in Nat
    <3>1. q \in Nat /\ x = r * q + (x % r) /\ x % r \in 0 .. r - 1
      BY <1>1, <2>1, DivMod, Zenon
    <3>. HIDE DEF q
    <3>. QED  BY <1>1, <3>1
  <2>. HIDE DEF q
  <2>3. ~ (n <= q)
    <3>. SUFFICES ASSUME n <= q PROVE FALSE
      BY Zenon
    <3>1. n * r <= r * q
      BY <1>1, <2>2, ProductBound, Zenon
    <3>2. r * q \in Nat
      BY <1>1, <2>2
    <3>. QED  BY <1>3, <2>1, <2>2, <3>1, <3>2
  <2>. QED  BY <1>1, <2>1, <2>2, <2>3
<1>6. ASSUME NEW j \in 1 .. n * r, NEW k \in 1 .. n * r, us[j] = us[k] PROVE j = k
  <2>. DEFINE x == j - 1
              y == k - 1
  <2>1. x \in Nat /\ y \in Nat
    BY <1>3
  <2>2. (x \div r) + 1 = (y \div r) + 1 /\ (x % r) + 1 = (y % r) + 1
    BY <1>2, <1>6, Zenon
  <2>. HIDE DEF x, y
  <2>3. /\ x \div r \in Nat /\ x % r \in Nat /\ x = r * (x \div r) + (x % r)
        /\ y \div r \in Nat /\ y % r \in Nat /\ y = r * (y \div r) + (y % r)
    BY <1>1, <2>1, DivMod
  <2>4. x \div r = y \div r /\ x % r = y % r
    BY <2>2, <2>3
  <2>5. x = y
    BY <2>3, <2>4, Zenon
  <2>. QED  BY <2>5 DEF x, y
<1>7. us \in Seq(Range(us))
  BY <1>4, Zenon DEF IsList
<1>. QED  BY <1>3, <1>4, <1>5, <1>6, <1>7, Zenon DEF us, n, r

-----------------------------------------------------------------------------
(* A run. *)

(* The fields of a run.                                                    *)
RunIs(r) ==
    r = [unit |-> r.unit, turns |-> r.turns, calls |-> r.calls, text |-> r.text,
         cut |-> r.cut, finished |-> r.finished, last_turn |-> r.last_turn, messages |-> r.messages,
         outcome |-> r.outcome]

LEMMA RunIsBusy ==
    ASSUME NEW r, RunIs(r) PROVE r # Idle
<1>1. DOMAIN r # {"unit"}
  BY DEF RunIs
<1>. QED  BY <1>1, Zenon DEF Idle

(* A turn of run_table_case is a turn of the same unit.                    *)
LEMMA TableTurnIs ==
    ASSUME NEW c, NEW r, RunIs(r), NEW ans
    PROVE  RunIs(TableTurn(c, r, ans)) /\ TableTurn(c, r, ans).unit = r.unit
BY Zenon DEF TableTurn, RunIs

(* So is a turn of run_case.                                               *)
LEMMA LegacyTurnIs ==
    ASSUME NEW c, NEW r, RunIs(r), NEW ans
    PROVE  RunIs(LegacyTurn(c, r, ans)) /\ LegacyTurn(c, r, ans).unit = r.unit
BY Zenon DEF LegacyTurn, RunIs

-----------------------------------------------------------------------------
(* The main thread. *)

(* The groups are what a valid command line asks for.                      *)
Asked == (cmd.legacy \/ CommandIsValid(cmd)) /\ groups = GroupsOf(cmd)

(* The pool is at work, or is being waited for.                            *)
Working == stage \in {"run", "unwind"}

(* What the exit code says of the benchmark and of what was run.           *)
ExitIsEarned ==
    /\ stage # "exit" => benchmark = <<>> /\ exit \notin {0, 2}
    /\ exit = 0 /\ ~cmd.legacy =>
         /\ Asked /\ Len(tally) = Len(groups) /\ benchmark = tally
         /\ ExitCode(tally, cmd.threshold) = 0
    /\ exit = 2 => benchmark = <<>> /\ (~cmd.legacy => at = 0)

(* The main thread: which groups have been counted at which stage.         *)
StageInv ==
    /\ cmd \in Commands
    /\ stage \in {"load", "preflight", "run", "unwind", "report", "exit"}
    /\ at \in 0 .. Len(groups) /\ at \in Nat /\ IsList(tally)
    /\ stage = "load" => groups = <<>> /\ at = 0 /\ tally = <<>>
    /\ stage \notin {"load", "exit"} => Asked
    /\ stage = "exit" => Asked \/ (groups = <<>> /\ at = 0 /\ tally = <<>>)
    /\ Working => at \in 1 .. Len(groups) /\ Len(tally) = at - 1
    /\ stage = "preflight" =>
         Len(tally) = at /\ at \in 0 .. Len(groups) /\ (~cmd.legacy => at = 0)
    /\ stage = "report" => Len(tally) = Len(groups)
    /\ ExitIsEarned

(* Once loaded, the groups are sound.                                      *)
LEMMA AskedSound ==
    ASSUME cmd \in Commands, Asked
    PROVE  /\ IsList(groups) /\ Len(groups) \in Nat /\ DOMAIN groups = 1 .. Len(groups)
           /\ \A i \in 1 .. Len(groups) : GroupIsSound(groups[i])
           /\ ~cmd.legacy => /\ Len(groups) # 0
                             /\ \A i \in 1 .. Len(groups) : SuiteIsSound(groups[i])
<1>. DEFINE gs == GroupsOf(cmd)
<1>1. /\ IsList(gs) /\ \A i \in DOMAIN gs : GroupIsSound(gs[i])
      /\ ~cmd.legacy => gs # <<>> /\ \A i \in DOMAIN gs : SuiteIsSound(gs[i])
  BY GroupsSound, Zenon DEF Asked
<1>2. groups = gs
  BY Zenon DEF Asked
<1>. HIDE DEF gs
<1>3. Len(gs) \in Nat /\ DOMAIN gs = 1 .. Len(gs) /\ (gs = <<>> <=> Len(gs) = 0)
  BY <1>1, ListIs, Zenon
<1>. QED  BY <1>1, <1>2, <1>3, Zenon

LEMMA StageInvInit == EvalInit => StageInv
<1>. SUFFICES ASSUME EvalInit PROVE StageInv
  BY Zenon
<1>1. <<>> \in Seq({})
  OBVIOUS
<1>2. IsList(<<>>)
  BY <1>1, ListOf, Zenon
<1>. QED  BY <1>2 DEF EvalInit, StageInv, ExitIsEarned, Working, NotYet

LEMMA StageInvLoad ==
    ASSUME StageInv, Load PROVE StageInv'
<1>. USE DEF StageInv, ExitIsEarned, Load, Working
<1>1. CASE cmd.legacy \/ CommandIsValid(cmd)
  <2>1. Asked'
    BY <1>1, Zenon DEF Asked
  <2>2. Len(tally) = 0
    BY Zenon
  <2>3. cmd' \in Commands /\ Len(groups') \in Nat
    <3>1. IsList(GroupsOf(cmd))
      BY <1>1, GroupsSound, Zenon
    <3>. QED  BY <1>1, <3>1, ListIs, Zenon
  <2>4. CASE cmd.legacy /\ cmd.models = 0
    <3>1. groups' = [m \in 1 .. 0 |-> [name |-> m, repeats |-> 1, cases |-> cmd.cases]]
      BY <1>1, <2>4, Zenon DEF GroupsOf
    <3>2. Len(groups') = 0
      BY <3>1
    <3>. QED  BY <1>1, <2>1, <2>2, <2>4, <3>2, Zenon
  <2>5. CASE ~(cmd.legacy /\ cmd.models = 0)
    BY <1>1, <2>1, <2>2, <2>3, <2>5
  <2>. QED  BY <2>4, <2>5, Zenon
<1>2. CASE ~(cmd.legacy \/ CommandIsValid(cmd))
  BY <1>2 DEF Blocked
<1>. QED  BY <1>1, <1>2, Zenon

(* Every step keeps the main thread in order.                              *)
LEMMA StageInvNext == StageInv /\ [EvalNext]_evalVars => StageInv'
<1>. SUFFICES ASSUME StageInv, [EvalNext]_evalVars PROVE StageInv'
  BY Zenon
<1>. USE DEF Working
<1>1. CASE Load
  BY <1>1, StageInvLoad, Zenon
<1>2. CASE Preflight
  <2>1. Asked' /\ Asked
    BY <1>2, Zenon DEF StageInv, Preflight, Asked
  <2>2. Len(groups) \in Nat
    BY <2>1, AskedSound, Zenon DEF StageInv
  <2>3. CASE exit' \in {1, 2} /\ stage' = "exit" /\ at' = at
    <3>1. ExitIsEarned'
      BY <1>2, <2>3 DEF StageInv, ExitIsEarned, Preflight
    <3>. QED  BY <1>2, <2>1, <2>2, <2>3, <3>1, Zenon DEF StageInv, Preflight
  <2>4. CASE stage' = "run" /\ exit' = exit /\ at' = at + 1 /\ at < Len(groups)
    BY <1>2, <2>1, <2>2, <2>4 DEF StageInv, ExitIsEarned, Preflight
  <2>5. CASE stage' = "report" /\ exit' = exit /\ at' = at /\ ~(at < Len(groups))
    BY <1>2, <2>1, <2>2, <2>5 DEF StageInv, ExitIsEarned, Preflight
  <2>. QED  BY <1>2, <2>3, <2>4, <2>5, Zenon DEF Preflight, StartGroup, Blocked
<1>3. ASSUME NEW t \in 1 .. Threads, Worker(t) PROVE StageInv'
  <2>1. UNCHANGED <<cmd, stage, groups, at, tally, benchmark, exit>>
    BY <1>3, Zenon DEF Worker, Take, Turn, Finish
  <2>. QED  BY <2>1, Zenon DEF StageInv, ExitIsEarned, Asked
<1>4. CASE Cancel
  BY <1>4, Zenon DEF Cancel, StageInv, ExitIsEarned, Asked
<1>5. CASE Unwind
  <2>1. ExitIsEarned'
    BY <1>5 DEF Unwind, StageInv, ExitIsEarned
  <2>. QED  BY <1>5, <2>1, Zenon DEF Unwind, StageInv, Asked
<1>6. CASE EndGroup
  <2>1. Asked' /\ Asked
    BY <1>6, Zenon DEF StageInv, EndGroup, Asked
  <2>2. Len(groups) \in Nat
    BY <2>1, AskedSound DEF StageInv
  <2>3. IsList(tally') /\ Len(tally') = Len(tally) + 1 /\ Len(tally) = at - 1
    BY <1>6, ListAppended, Zenon DEF EndGroup, StageInv
  <2>4. CASE stage' = "report" /\ at' = at /\ at = Len(groups)
    BY <1>6, <2>1, <2>2, <2>3, <2>4 DEF StageInv, ExitIsEarned, EndGroup
  <2>5. CASE stage' = "preflight" /\ at' = at /\ cmd.legacy
    BY <1>6, <2>1, <2>2, <2>3, <2>5 DEF StageInv, ExitIsEarned, EndGroup
  <2>6. CASE stage' = "run" /\ at' = at + 1 /\ at # Len(groups)
    BY <1>6, <2>1, <2>2, <2>3, <2>6 DEF StageInv, ExitIsEarned, EndGroup
  <2>. QED  BY <1>6, <2>4, <2>5, <2>6, Zenon DEF EndGroup, StartGroup
<1>7. CASE Report
  <2>1. Asked' /\ Asked
    BY <1>7, Zenon DEF StageInv, Report, Asked
  <2>2. ExitCode(tally, cmd.threshold) # 2
    BY DEF ExitCode
  <2>3. ExitIsEarned'
    BY <1>7, <2>1, <2>2 DEF Report, StageInv, ExitIsEarned
  <2>. QED  BY <1>7, <2>1, <2>3, Zenon DEF Report, StageInv
<1>8. CASE UNCHANGED evalVars
  BY <1>8, Zenon DEF evalVars, StageInv, ExitIsEarned, Asked
<1>. QED  BY <1>1, <1>2, <1>3, <1>4, <1>5, <1>6, <1>7, <1>8, Zenon DEF EvalNext, Main

-----------------------------------------------------------------------------
(* The pool. *)

IsDone(v) ==
    /\ v.state = "done" /\ v.success \in BOOLEAN /\ v.errored \in BOOLEAN
    /\ ~(v.success /\ v.errored)

(* No result yet.                                                          *)
Waits(u) == u \in DOMAIN results /\ results[u] = Pending

(* The pool: every unit without a result is in the queue once, held by one *)
(* thread, or (after Cancel) given up.                                     *)
PoolInv ==
    /\ run = [t \in 1 .. Threads |-> run[t]]
    /\ results = [u \in DOMAIN results |-> results[u]]
    /\ \A u \in DOMAIN results : results[u] \in {Pending, Raised} \/ IsDone(results[u])
    /\ stage # "run" => queue = <<>>
    /\ ~Working => \A t \in 1 .. Threads : run[t] = Idle
    /\ DOMAIN results = IF at = 0 THEN {} ELSE Range(Units(groups[at]))
    /\ IsList(queue)
    /\ \A k \in DOMAIN queue : Waits(queue[k])
    /\ \A j, k \in DOMAIN queue : queue[j] = queue[k] => j = k
    /\ \A t \in 1 .. Threads : run[t] # Idle =>
         RunIs(run[t]) /\ Waits(run[t].unit) /\ run[t].unit \notin Range(queue)
    /\ \A s, t \in 1 .. Threads :
         run[s] # Idle /\ run[t] # Idle /\ run[s].unit = run[t].unit => s = t

LEMMA PoolInvInit == EvalInit => PoolInv
<1>. SUFFICES ASSUME EvalInit PROVE PoolInv
  OBVIOUS
<1>1. <<>> \in Seq({})
  OBVIOUS
<1>2. IsList(<<>>)
  BY <1>1, ListOf
<1>3. DOMAIN <<>> = {} /\ \A t \in 1 .. Threads : run[t] = Idle
  <2>1. DOMAIN <<>> = {}
    OBVIOUS
  <2>. QED  BY <2>1, Zenon DEF EvalInit
<1>4. results = [u \in DOMAIN results |-> results[u]]
  BY DEF EvalInit
<1>5. run = [t \in 1 .. Threads |-> run[t]]
  BY Zenon DEF EvalInit
<1>6. queue = <<>> /\ results = <<>> /\ stage = "load" /\ at = 0
  BY Zenon DEF EvalInit
<1>. QED  BY <1>2, <1>3, <1>4, <1>5, <1>6, Zenon DEF PoolInv, Working

(* A group that is handed to the pool starts with nothing taken.           *)
LEMMA StartGroupPool ==
    ASSUME NEW g \in Nat \ {0}, GroupIsSound(groups[g]), StartGroup(g), groups' = groups, run' = run,
           PoolInv, \A t \in 1 .. Threads : run[t] = Idle
    PROVE  PoolInv'
<1>. DEFINE us == Units(groups[g])
<1>1. /\ us \in Seq(Range(us)) /\ DOMAIN us = 1 .. Len(us)
      /\ \A j, k \in DOMAIN us : us[j] = us[k] => j = k
  BY UnitsOf, Zenon
<1>2. queue' = us /\ results' = [u \in Range(us) |-> Pending] /\ at' = g /\ stage' = "run"
  BY Zenon DEF StartGroup
<1>3. groups'[at'] = groups[g] /\ Units(groups'[at']) = us
  BY <1>2, Zenon
<1>. HIDE DEF us
<1>4. IsList(queue')
  BY <1>1, <1>2, Zenon DEF IsList
<1>5. \A k \in DOMAIN queue' : Waits(queue[k])'
  BY <1>1, <1>2, Zenon DEF Waits, Range
<1>6. results' = [u \in DOMAIN results' |-> results'[u]] /\ DOMAIN results' = Range(us)
  BY <1>2, Zenon
<1>7. \A u \in DOMAIN results' : results'[u] = Pending
  BY <1>2, Zenon
<1>8. run' = [t \in 1 .. Threads |-> run'[t]] /\ \A t \in 1 .. Threads : run'[t] = Idle
  BY Zenon DEF PoolInv
<1>. QED  BY <1>1, <1>2, <1>3, <1>4, <1>5, <1>6, <1>7, <1>8 DEF PoolInv, Working

(* A thread takes a unit from the queue that no thread has.                *)
LEMMA PoolInvTake ==
    ASSUME PoolInv, NEW t \in 1 .. Threads, Take(t)
    PROVE  PoolInv'
<1>. DEFINE u == Head(queue)
            new == run'[t]
<1>1. IsList(queue) /\ queue # <<>> /\ stage' = stage /\ groups' = groups /\ at' = at
      /\ results' = results /\ queue' = Tail(queue)
  BY Zenon DEF Take, PoolInv
<1>2. Len(queue) \in Nat \ {0} /\ DOMAIN queue = 1 .. Len(queue) /\ queue \in Seq(Range(queue))
  BY <1>1, ListIs, Zenon
<1>3. /\ IsList(queue') /\ Len(queue') = Len(queue) - 1 /\ DOMAIN queue' = 1 .. Len(queue) - 1
      /\ \A k \in DOMAIN queue' : queue'[k] = queue[k + 1] /\ k + 1 \in DOMAIN queue
  <2>1. /\ queue' \in Seq(Range(queue)) /\ Len(queue') = Len(queue) - 1
        /\ \A k \in 1 .. Len(queue) - 1 : queue'[k] = queue[k + 1]
    BY <1>1, <1>2
  <2>2. IsList(queue')
    BY <2>1, ListOf, Zenon
  <2>. QED  BY <1>2, <2>1, <2>2, ListIs
<1>4. u = queue[1] /\ 1 \in DOMAIN queue
  BY <1>2
<1>5. /\ run' = [run EXCEPT ![t] = new] /\ RunIs(new) /\ new.unit = u
      /\ \A s \in 1 .. Threads : s # t => run'[s] = run[s]
      /\ run' = [s \in 1 .. Threads |-> run'[s]]
  <2>1. PICK o : run' = [run EXCEPT ![t] =
           [unit |-> u, turns |-> 0, calls |-> <<>>, text |-> {}, cut |-> FALSE, finished |-> FALSE,
            last_turn |-> FALSE, messages |-> Opening, outcome |-> o]]
    BY Zenon DEF Take
  <2>2. DOMAIN run = 1 .. Threads
    BY Zenon DEF PoolInv
  <2>. QED  BY <2>1, <2>2, Zenon DEF RunIs
<1>. HIDE DEF new, u
<1>6. (u \in DOMAIN results' /\ results'[u] = Pending) /\ u \notin Range(queue')
  <2>1. u \in DOMAIN results' /\ results'[u] = Pending
    BY <1>1, <1>4, Zenon DEF PoolInv, Waits
  <2>2. ASSUME NEW k \in DOMAIN queue', queue'[k] = u PROVE FALSE
    <3>1. k + 1 = 1
      BY <1>3, <1>4, <2>2 DEF PoolInv
    <3>. QED  BY <1>3, <3>1
  <2>. QED  BY <2>1, <2>2, Zenon DEF Range
<1>7. \A k \in DOMAIN queue' : Waits(queue[k])'
  BY <1>1, <1>3 DEF PoolInv, Waits
<1>8. \A j, k \in DOMAIN queue' : queue'[j] = queue'[k] => j = k
  <2>. SUFFICES ASSUME NEW j \in DOMAIN queue', NEW k \in DOMAIN queue', queue'[j] = queue'[k]
       PROVE  j = k
    BY Zenon
  <2>1. j + 1 = k + 1
    BY <1>3 DEF PoolInv
  <2>. QED  BY <1>3, <2>1
<1>9. Range(queue') \subseteq Range(queue) /\ u \in Range(queue)
  BY <1>3, <1>4, Zenon DEF Range
<1>10. \A s \in 1 .. Threads : run'[s] # Idle =>
         RunIs(run'[s]) /\ Waits(run[s].unit)' /\ run'[s].unit \notin Range(queue')
  <2>. SUFFICES ASSUME NEW s \in 1 .. Threads, run'[s] # Idle
       PROVE  RunIs(run'[s]) /\ Waits(run[s].unit)' /\ run'[s].unit \notin Range(queue')
    BY Zenon
  <2>1. CASE s = t
    <3>1. run'[s] = new
      BY <2>1, Zenon DEF new
    <3>. QED  BY <1>5, <1>6, <3>1, Zenon DEF Waits
  <2>2. CASE s # t
    BY <1>1, <1>5, <1>9, <2>2, Zenon DEF PoolInv, Waits
  <2>. QED  BY <2>1, <2>2, Zenon
<1>11. ASSUME NEW s \in 1 .. Threads, s # t, run'[s] # Idle PROVE run'[s].unit # u
  BY <1>5, <1>9, <1>11, Zenon DEF PoolInv
<1>12. \A r, s \in 1 .. Threads :
         run'[r] # Idle /\ run'[s] # Idle /\ run'[r].unit = run'[s].unit => r = s
  BY <1>5, <1>11 DEF PoolInv, new
<1>13. stage = "run"
  BY <1>1, Zenon DEF PoolInv
<1>. QED  BY <1>1, <1>3, <1>5, <1>7, <1>8, <1>10, <1>12, <1>13 DEF PoolInv, Working

(* A turn leaves the unit of the thread as it is.                          *)
LEMMA PoolInvTurn ==
    ASSUME PoolInv, NEW t \in 1 .. Threads, Turn(t)
    PROVE  PoolInv'
<1>1. UNCHANGED <<cmd, stage, groups, at, queue, results>>
  BY Zenon DEF Turn
<1>2. DOMAIN run = 1 .. Threads /\ run[t] # Idle /\ RunIs(run[t])
  BY Zenon DEF PoolInv, Turn
<1>3. RunIs(run'[t]) /\ run'[t].unit = run[t].unit /\ run' = [run EXCEPT ![t] = run'[t]]
  <2>1. PICK a \in Answers :
          run' = [run EXCEPT ![t] =
            IF a.raises
            THEN [run[t] EXCEPT !.outcome = IF cmd.legacy THEN "failed" ELSE "errored"]
            ELSE IF cmd.legacy
                 THEN LegacyTurn(CaseOf(run[t].unit), run[t], Reply(cmd.profile.backend, a))
                 ELSE TableTurn(CaseOf(run[t].unit), run[t], Reply(cmd.profile.backend, a))]
    BY Zenon DEF Turn
  <2>. DEFINE new == run'[t]
  <2>2. CASE a.raises
    BY <1>2, <2>1, <2>2, Zenon DEF RunIs
  <2>3. CASE ~a.raises /\ cmd.legacy
    <3>1. new = LegacyTurn(CaseOf(run[t].unit), run[t], Reply(cmd.profile.backend, a))
      BY <1>2, <2>1, <2>3, Zenon
    <3>2. RunIs(new) /\ new.unit = run[t].unit
      BY <1>2, <3>1, LegacyTurnIs
    <3>. QED  BY <1>2, <2>1, <3>2, Zenon
  <2>4. CASE ~a.raises /\ ~cmd.legacy
    <3>1. new = TableTurn(CaseOf(run[t].unit), run[t], Reply(cmd.profile.backend, a))
      BY <1>2, <2>1, <2>4, Zenon
    <3>2. RunIs(new) /\ new.unit = run[t].unit
      BY <1>2, <3>1, TableTurnIs
    <3>. QED  BY <1>2, <2>1, <3>2
  <2>. QED  BY <2>2, <2>3, <2>4, Zenon
<1>4. /\ run' = [s \in 1 .. Threads |-> run'[s]]
      /\ \A s \in 1 .. Threads : run'[s] # Idle => run[s] # Idle /\ run'[s].unit = run[s].unit
      /\ \A s \in 1 .. Threads : run'[s] # Idle => RunIs(run'[s])
      /\ \A s \in 1 .. Threads : s # t => run'[s] = run[s]
  BY <1>2, <1>3, Zenon DEF PoolInv
<1>5. Working
  BY <1>2, Zenon DEF PoolInv
<1>. QED  BY <1>1, <1>4, <1>5 DEF PoolInv, Working, Waits

(* A result is passed, failed or errored, and never both.                  *)
LEMMA ResultIsDone ==
    ASSUME NEW r
    PROVE  LET v == ResultOf(r) IN
           /\ v.state = "done" /\ v.success \in BOOLEAN /\ v.errored \in BOOLEAN
           /\ IsDone(v) /\ v # Pending /\ v # Raised
<1>. DEFINE v == ResultOf(r)
<1>1. v.state = "done" /\ v.success \in BOOLEAN /\ v.errored \in BOOLEAN
  BY Zenon DEF ResultOf
<1>2. ~(v.success /\ v.errored)
  BY Zenon DEF ResultOf
<1>3. v # Pending /\ v # Raised
  BY <1>1 DEF Pending, Raised
<1>. QED  BY <1>1, <1>2, <1>3, Zenon DEF IsDone

(* A thread settles its own unit, and no other waits on it.                *)
LEMMA PoolInvFinish ==
    ASSUME PoolInv, NEW t \in 1 .. Threads, Finish(t)
    PROVE  PoolInv'
<1>1. UNCHANGED <<cmd, stage, groups, at, queue>>
  BY Zenon DEF Finish
<1>2. DOMAIN run = 1 .. Threads /\ run[t] # Idle /\ run' = [run EXCEPT ![t] = Idle]
  BY Zenon DEF PoolInv, Finish
<1>3. /\ run' = [s \in 1 .. Threads |-> run'[s]] /\ run'[t] = Idle
      /\ \A s \in 1 .. Threads : s # t => run'[s] = run[s]
  BY <1>2, Zenon
<1>. DEFINE u == run[t].unit
            w == results'[u]
<1>4. u \in DOMAIN results /\ u \notin Range(queue)
  BY <1>2, Zenon DEF PoolInv, Waits
<1>5. results' = [results EXCEPT ![u] = w] /\ (w = Raised \/ IsDone(w))
  <2>1. CASE results' = [results EXCEPT ![u] = ResultOf(run[t])]
    BY <1>4, <2>1, ResultIsDone, Zenon
  <2>2. CASE results' = [results EXCEPT ![u] = Raised]
    BY <1>4, <2>2, Zenon
  <2>. QED  BY <2>1, <2>2, Zenon DEF Finish
<1>. HIDE DEF w, u
<1>6. /\ DOMAIN results' = DOMAIN results /\ results' = [v \in DOMAIN results' |-> results'[v]]
      /\ \A v \in DOMAIN results : v # u => results'[v] = results[v]
      /\ results'[u] = w
  BY <1>4, <1>5, Zenon DEF PoolInv
<1>7. \A k \in DOMAIN queue' : Waits(queue[k])'
  BY <1>1, <1>4, <1>6 DEF PoolInv, Waits, Range
<1>8. \A s \in 1 .. Threads : run'[s] # Idle =>
         RunIs(run'[s]) /\ Waits(run[s].unit)' /\ run'[s].unit \notin Range(queue')
  <2>. SUFFICES ASSUME NEW s \in 1 .. Threads, run'[s] # Idle
       PROVE  RunIs(run'[s]) /\ Waits(run[s].unit)' /\ run'[s].unit \notin Range(queue')
    OBVIOUS
  <2>1. s # t /\ run'[s] = run[s]
    BY <1>3, Zenon
  <2>2. run[s].unit # u
    BY <1>2, <2>1, Zenon DEF PoolInv, u
  <2>. QED  BY <1>1, <1>6, <2>1, <2>2, Zenon DEF PoolInv, Waits
<1>9. \A v \in DOMAIN results' : results'[v] \in {Pending, Raised} \/ IsDone(results'[v])
  BY <1>5, <1>6, Zenon DEF PoolInv
<1>10. \A r, s \in 1 .. Threads :
         run'[r] # Idle /\ run'[s] # Idle /\ run'[r].unit = run'[s].unit => r = s
  BY <1>3, Zenon DEF PoolInv
<1>11. stage' # "run" => queue' = <<>>
  BY <1>1, Zenon DEF PoolInv
<1>12. ~Working' => \A s \in 1 .. Threads : run'[s] = Idle
  BY <1>1, <1>3, Zenon DEF PoolInv, Working
<1>. QED  BY <1>1, <1>3, <1>6, <1>7, <1>8, <1>9, <1>10, <1>11, <1>12, Zenon DEF PoolInv

(* When every unit has its result, no thread is at work.                   *)
LEMMA PoolIsDone ==
    ASSUME PoolInv, \A u \in DOMAIN results : results[u].state = "done"
    PROVE  /\ queue = <<>> /\ \A t \in 1 .. Threads : run[t] = Idle
           /\ \A u \in DOMAIN results : IsDone(results[u])
<1>1. \A u \in DOMAIN results : results[u] # Pending /\ results[u] # Raised
  BY DEF Pending, Raised
<1>2. DOMAIN queue = {}
  BY <1>1, Zenon DEF PoolInv, Waits
<1>3. queue = <<>>
  BY <1>2, ListIs DEF PoolInv
<1>4. \A t \in 1 .. Threads : run[t] = Idle
  BY <1>1, Zenon DEF PoolInv, Waits
<1>. QED  BY <1>1, <1>3, <1>4, Zenon DEF PoolInv

(* Every step keeps the pool in order.                                     *)
LEMMA PoolInvNext == StageInv /\ PoolInv /\ [EvalNext]_evalVars => PoolInv'
<1>. SUFFICES ASSUME StageInv, PoolInv, [EvalNext]_evalVars PROVE PoolInv'
  BY Zenon
<1>. DEFINE Kept == UNCHANGED <<queue, run, results>>
<1>1. CASE Load
  <2>1. stage' # "run" /\ ~Working' /\ ~Working /\ at' = at /\ at = 0 /\ Kept /\ queue = <<>>
    BY <1>1, Zenon DEF Load, Working, Blocked, StageInv, PoolInv
  <2>. QED  BY <2>1, Zenon DEF PoolInv, Waits
<1>2. ASSUME Asked, NEW g \in 1 .. Len(groups), StartGroup(g), groups' = groups, run' = run,
             \A t \in 1 .. Threads : run[t] = Idle
      PROVE  PoolInv'
  <2>1. GroupIsSound(groups[g]) /\ g \in Nat \ {0}
    BY <1>2, AskedSound DEF StageInv
  <2>. QED  BY <1>2, <2>1, StartGroupPool, Zenon
<1>3. CASE Preflight
  <2>1. groups' = groups /\ run' = run /\ ~Working /\ Asked /\ stage # "run"
    BY <1>3, Zenon DEF Preflight, Working, StageInv
  <2>2. \A t \in 1 .. Threads : run[t] = Idle
    BY <2>1, Zenon DEF PoolInv
  <2>3. Len(groups) \in Nat
    BY <2>1, AskedSound, Zenon DEF StageInv
  <2>4. CASE at < Len(groups) /\ StartGroup(at + 1)
    <3>1. at + 1 \in 1 .. Len(groups)
      BY <2>3, <2>4 DEF StageInv
    <3>. QED  BY <1>2, <2>1, <2>2, <2>4, <3>1, Zenon
  <2>5. CASE stage' \in {"report", "exit"} /\ UNCHANGED <<at, queue, results>>
    <3>1. ~Working' /\ stage' # "run" /\ queue = <<>>
      BY <2>1, <2>5, Zenon DEF Working, PoolInv
    <3>. QED  BY <2>1, <2>2, <2>5, <3>1, Zenon DEF PoolInv, Waits
  <2>. QED  BY <1>3, <2>4, <2>5, Zenon DEF Preflight, Blocked
<1>4. ASSUME NEW t \in 1 .. Threads, Worker(t) PROVE PoolInv'
  BY <1>4, PoolInvTake, PoolInvTurn, PoolInvFinish, Zenon DEF Worker
<1>5. CASE Cancel
  <2>1. IsList(<<>>) /\ DOMAIN <<>> = {} /\ Range(<<>>) = {}
    <3>1. <<>> \in Seq({})
      OBVIOUS
    <3>2. IsList(<<>>)
      BY <3>1, ListOf, Zenon
    <3>. QED  BY <3>2 DEF Range
  <2>2. IsList(queue') /\ DOMAIN queue' = {} /\ Range(queue') = {}
    BY <1>5, <2>1, Zenon DEF Cancel
  <2>3. queue' = <<>> /\ UNCHANGED <<groups, at, run, results>> /\ Working'
    BY <1>5, Zenon DEF Cancel, Working
  <2>. QED  BY <2>2, <2>3, Zenon DEF PoolInv, Waits
<1>6. CASE Unwind
  <2>1. UNCHANGED <<groups, at>> /\ Kept /\ ~Working' /\ stage' # "run" /\ queue = <<>>
        /\ \A t \in 1 .. Threads : run[t] = Idle
    BY <1>6, Zenon DEF Unwind, Working, PoolInv
  <2>. QED  BY <2>1, Zenon DEF PoolInv, Waits
<1>7. CASE EndGroup
  <2>1. groups' = groups /\ run' = run /\ Asked /\ at \in 1 .. Len(groups)
    BY <1>7, Zenon DEF EndGroup, StageInv, Working
  <2>2. queue = <<>> /\ \A t \in 1 .. Threads : run[t] = Idle
    BY <1>7, PoolIsDone, Zenon DEF EndGroup
  <2>3. Len(groups) \in Nat
    BY <2>1, AskedSound, Zenon DEF StageInv
  <2>4. CASE at # Len(groups) /\ StartGroup(at + 1)
    <3>1. at + 1 \in 1 .. Len(groups)
      BY <2>1, <2>3, <2>4
    <3>. QED  BY <1>2, <2>1, <2>2, <2>4, <3>1, Zenon
  <2>5. CASE stage' \in {"report", "preflight"} /\ UNCHANGED <<at, queue, results>>
    <3>1. ~Working' /\ stage' # "run"
      BY <2>5, Zenon DEF Working
    <3>. QED  BY <2>1, <2>2, <2>5, <3>1, Zenon DEF PoolInv, Waits
  <2>. QED  BY <1>7, <2>4, <2>5, Zenon DEF EndGroup
<1>8. CASE Report
  <2>1. UNCHANGED <<groups, at>> /\ Kept /\ ~Working' /\ ~Working /\ stage' # "run" /\ stage # "run"
    BY <1>8, Zenon DEF Report, Working
  <2>. QED  BY <2>1, Zenon DEF PoolInv, Waits
<1>9. CASE UNCHANGED evalVars
  <2>1. UNCHANGED <<groups, at, stage>> /\ Kept
    BY <1>9, Zenon DEF evalVars
  <2>. QED  BY <2>1, Zenon DEF PoolInv, Waits, Working
<1>. QED  BY <1>1, <1>3, <1>4, <1>5, <1>6, <1>7, <1>8, <1>9, Zenon DEF EvalNext, Main

(* A unit with a result belongs to a sound case.                           *)
LEMMA UnitIsSound ==
    ASSUME StageInv, PoolInv, NEW u \in DOMAIN results
    PROVE  /\ at \in 1 .. Len(groups) /\ GroupIsSound(groups[at])
           /\ u[1] \in DOMAIN groups[at].cases
           /\ ~cmd.legacy => CaseIsSound(CaseOf(u))
<1>1. at # 0 /\ at \in 1 .. Len(groups) /\ Asked
  BY DEF PoolInv, StageInv
<1>. DEFINE g == groups[at]
<1>2. GroupIsSound(g) /\ (~cmd.legacy => SuiteIsSound(g))
  BY <1>1, AskedSound, Zenon DEF StageInv
<1>3. u \in Range(Units(g))
  BY <1>1, Zenon DEF PoolInv
<1>. HIDE DEF g
<1>4. PICK k \in DOMAIN Units(g) : u = Units(g)[k]
  BY <1>3, Zenon DEF Range
<1>5. u[1] \in 1 .. Len(g.cases)
  BY <1>2, <1>4, UnitsOf, Zenon
<1>6. u[1] \in DOMAIN g.cases
  BY <1>2, <1>5, ListIs, Zenon DEF GroupIsSound
<1>7. ~cmd.legacy => CaseIsSound(g.cases[u[1]])
  BY <1>2, <1>6, Zenon DEF SuiteIsSound
<1>. QED  BY <1>1, <1>2, <1>6, <1>7, Zenon DEF g, CaseOf

-----------------------------------------------------------------------------
(* Types and bounds. *)

(* A run is within its turns.                                              *)
Within(r, bound) ==
    r.turns \in Nat /\ r.turns <= Max2(0, bound) /\ (r.outcome = "running" => r.turns < bound)

BoundInv ==
    /\ Len(tally) <= at
    /\ exit \in {NotYet, 0, 1, 2} /\ (exit = NotYet <=> stage # "exit")
    /\ \A t \in 1 .. Threads : run[t] # Idle =>
         t <= Jobs /\ Within(run[t], MaxTurns(CaseOf(run[t].unit)))

(* The bound on the turns of a unit is an integer.                         *)
LEMMA MaxTurnsType ==
    ASSUME StageInv, PoolInv, NEW u \in DOMAIN results
    PROVE  MaxTurns(CaseOf(u)) \in Int
<1>1. at \in 1 .. Len(groups) /\ u[1] \in DOMAIN groups[at].cases
  BY UnitIsSound, Zenon
<1>2. cmd \in Commands /\ Asked /\ at # 0
  BY <1>1 DEF StageInv
<1>3. CASE ~cmd.legacy
  BY <1>2, <1>3, CommandsAssumption, Zenon DEF MaxTurns
<1>4. CASE cmd.legacy
  <2>1. at \in DOMAIN groups
    BY <1>1, <1>2, AskedSound, Zenon
  <2>2. groups = [m \in 1 .. cmd.models |-> [name |-> m, repeats |-> 1, cases |-> cmd.cases]]
    BY <1>2, <1>4, Zenon DEF Asked, GroupsOf
  <2>3. groups[at].cases = cmd.cases
    BY <2>1, <2>2, Zenon
  <2>. QED  BY <1>1, <1>2, <1>4, <2>3, CommandsAssumption, Zenon DEF MaxTurns, CaseOf
<1>. QED  BY <1>3, <1>4, Zenon

(* A turn stays within the bound of the case.                              *)
LEMMA TurnsAreCounted ==
    ASSUME NEW c, MaxTurns(c) \in Int, NEW r, RunIs(r), Within(r, MaxTurns(c)),
           r.outcome = "running", NEW ans
    PROVE  /\ Within(TableTurn(c, r, ans), MaxTurns(c))
           /\ Within(LegacyTurn(c, r, ans), MaxTurns(c))
<1>. DEFINE b == MaxTurns(c)
<1>1. r.turns \in Nat /\ r.turns + 1 <= b
  BY DEF Within
<1>2. ASSUME NEW n, n.turns = r.turns + 1, n.outcome = "running" => ~(r.turns + 1 >= b)
      PROVE  Within(n, b)
  BY <1>1, <1>2 DEF Within, Max2
<1>3. /\ TableTurn(c, r, ans).turns = r.turns + 1
      /\ TableTurn(c, r, ans).outcome = "running" => ~(r.turns + 1 >= b)
  BY Zenon DEF TableTurn, RunIs
<1>4. /\ LegacyTurn(c, r, ans).turns = r.turns + 1
      /\ LegacyTurn(c, r, ans).outcome = "running" => ~(r.turns + 1 >= b)
  BY Zenon DEF LegacyTurn, RunIs
<1>. QED  BY <1>2, <1>3, <1>4, Zenon

(* Every step keeps the bounds.                                            *)
LEMMA BoundInvNext == StageInv /\ PoolInv /\ BoundInv /\ [EvalNext]_evalVars => BoundInv'
<1>. SUFFICES ASSUME StageInv, PoolInv, BoundInv, [EvalNext]_evalVars PROVE BoundInv'
  BY Zenon
<1>. DEFINE Runs(r) == \A t \in 1 .. Threads : r[t] # Idle =>
              t <= Jobs /\ Within(r[t], MaxTurns(CaseOf(r[t].unit)))
<1>1. ASSUME UNCHANGED <<cmd, groups, at, stage, tally, exit>>, Runs(run') PROVE BoundInv'
  BY <1>1, Zenon DEF BoundInv, MaxTurns, CaseOf, Jobs
<1>2. ASSUME run' = run, \A t \in 1 .. Threads : run[t] = Idle, Len(tally') <= at',
             exit' \in {NotYet, 0, 1, 2} /\ (exit' = NotYet <=> stage' # "exit")
      PROVE  BoundInv'
  BY <1>2, Zenon DEF BoundInv
<1>3. CASE Load \/ Preflight \/ Unwind \/ Report
  <2>1. run' = run /\ tally' = tally /\ \A t \in 1 .. Threads : run[t] = Idle
    <3>1. Unwind \/ ~Working
      BY <1>3, Zenon DEF Load, Preflight, Report, Working
    <3>. QED  BY <1>3, <3>1, Zenon DEF Load, Preflight, Unwind, Report, PoolInv
  <2>2. at' = at \/ at' = at + 1
    BY <1>3, Zenon DEF Load, Preflight, Unwind, Report, StartGroup
  <2>3. Len(tally') <= at'
    BY <2>1, <2>2, ListIs DEF BoundInv, StageInv
  <2>4. exit' \in {NotYet, 0, 1, 2} /\ (exit' = NotYet <=> stage' # "exit")
    <3>1. CASE Load \/ Preflight
      BY <3>1 DEF Load, Preflight, StartGroup, Blocked, BoundInv, NotYet
    <3>2. CASE Unwind \/ Report
      BY <3>2 DEF Unwind, Report, ExitCode, NotYet
    <3>. QED  BY <1>3, <3>1, <3>2, Zenon
  <2>. QED  BY <1>2, <2>1, <2>3, <2>4, Zenon
<1>4. CASE EndGroup
  <2>1. run' = run /\ stage = "run" /\ exit' = exit /\ stage' # "exit"
    BY <1>4, Zenon DEF EndGroup, StartGroup
  <2>2. \A t \in 1 .. Threads : run[t] = Idle
    BY <1>4, PoolIsDone, Zenon DEF EndGroup
  <2>3. Len(tally') = Len(tally) + 1 /\ Len(tally) = at - 1 /\ at \in Nat
    BY <1>4, <2>1, ListAppended, Zenon DEF EndGroup, StageInv, Working
  <2>4. Len(tally') <= at'
    BY <1>4, <2>3 DEF EndGroup, StartGroup
  <2>. QED  BY <1>2, <2>1, <2>2, <2>4, Zenon DEF BoundInv
<1>5. CASE Cancel
  BY <1>5, Zenon DEF Cancel, BoundInv, MaxTurns, CaseOf, Jobs
<1>6. CASE UNCHANGED evalVars
  BY <1>1, <1>6, Zenon DEF evalVars, BoundInv
<1>7. ASSUME NEW t \in 1 .. Threads, Take(t) PROVE BoundInv'
  <2>. DEFINE c == CaseOf(Head(queue))
              b == MaxTurns(c)
  <2>1. UNCHANGED <<cmd, groups, at, stage, tally, exit>> /\ DOMAIN run = 1 .. Threads /\ t <= Jobs
    BY <1>7, Zenon DEF Take, PoolInv
  <2>2. b \in Int
    <3>1. 1 \in DOMAIN queue /\ Head(queue) = queue[1]
      BY <1>7, ListIs DEF Take, PoolInv
    <3>2. Head(queue) \in DOMAIN results
      BY <3>1 DEF PoolInv, Waits
    <3>. QED  BY <3>2, MaxTurnsType, Zenon
  <2>3. /\ run'[t].turns = 0 /\ run'[t].unit = Head(queue)
        /\ run'[t].outcome = "running" => b > 0
        /\ \A s \in 1 .. Threads : s # t => run'[s] = run[s]
    BY <1>7, <2>1, Zenon DEF Take
  <2>. HIDE DEF b
  <2>4. Within(run'[t], b)
    BY <2>2, <2>3 DEF Within, Max2
  <2>. QED  BY <1>1, <2>1, <2>3, <2>4, Zenon DEF BoundInv, b
<1>8. ASSUME NEW t \in 1 .. Threads, Turn(t) PROVE BoundInv'
  <2>. DEFINE r == run[t]
              c == CaseOf(r.unit)
              b == MaxTurns(c)
  <2>1. UNCHANGED <<cmd, groups, at, stage, tally, exit>> /\ DOMAIN run = 1 .. Threads
        /\ r # Idle /\ r.outcome = "running"
    BY <1>8, Zenon DEF Turn, PoolInv
  <2>2. RunIs(r) /\ b \in Int /\ Within(r, b) /\ t <= Jobs
    BY <2>1, MaxTurnsType, Zenon DEF PoolInv, Waits, BoundInv
  <2>3. PICK a \in Answers :
          run' = [run EXCEPT ![t] =
            IF a.raises
            THEN [r EXCEPT !.outcome = IF cmd.legacy THEN "failed" ELSE "errored"]
            ELSE IF cmd.legacy THEN LegacyTurn(c, r, Reply(cmd.profile.backend, a))
                               ELSE TableTurn(c, r, Reply(cmd.profile.backend, a))]
    BY <1>8, Zenon DEF Turn
  <2>. DEFINE n == run'[t]
  <2>4. /\ \A s \in 1 .. Threads : s # t => run'[s] = run[s]
        /\ n = IF a.raises
               THEN [r EXCEPT !.outcome = IF cmd.legacy THEN "failed" ELSE "errored"]
               ELSE IF cmd.legacy THEN LegacyTurn(c, r, Reply(cmd.profile.backend, a))
                                  ELSE TableTurn(c, r, Reply(cmd.profile.backend, a))
    BY <2>1, <2>3, Zenon
  <2>. HIDE DEF n, r, c
  <2>5. Within(n, b) /\ n.unit = r.unit
    <3>1. CASE a.raises
      <4>1. n.unit = r.unit /\ n.turns = r.turns /\ n.outcome # "running"
        BY <2>2, <2>4, <3>1, Zenon DEF RunIs
      <4>. QED  BY <2>2, <4>1, Zenon DEF Within
    <3>2. CASE ~a.raises /\ cmd.legacy
      BY <2>1, <2>2, <2>4, <3>2, TurnsAreCounted, LegacyTurnIs
    <3>3. CASE ~a.raises /\ ~cmd.legacy
      BY <2>1, <2>2, <2>4, <3>3, TurnsAreCounted, TableTurnIs
    <3>. QED  BY <3>1, <3>2, <3>3, Zenon
  <2>. QED  BY <1>1, <2>1, <2>2, <2>4, <2>5, Zenon DEF BoundInv, n, r, c
<1>9. ASSUME NEW t \in 1 .. Threads, Finish(t) PROVE BoundInv'
  <2>1. UNCHANGED <<cmd, groups, at, stage, tally, exit>> /\ DOMAIN run = 1 .. Threads
        /\ run' = [run EXCEPT ![t] = Idle]
    BY <1>9, Zenon DEF Finish, PoolInv
  <2>2. \A s \in 1 .. Threads : run'[s] # Idle => run'[s] = run[s] /\ run[s] # Idle
    BY <2>1, Zenon
  <2>. QED  BY <1>1, <2>1, <2>2, Zenon DEF BoundInv
<1>. QED  BY <1>3, <1>4, <1>5, <1>6, <1>7, <1>8, <1>9, Zenon DEF EvalNext, Main, Worker

(* The exit code is set exactly when the program has ended, no thread      *)
(* beyond --jobs has a run, and no run takes more turns than it may.       *)
THEOREM EvalTypeCorrect == EvalSpec => []EvalTypeOK
<1>. DEFINE Inv == StageInv /\ PoolInv /\ BoundInv
<1>1. EvalInit => Inv
  <2>1. EvalInit => BoundInv
    BY DEF EvalInit, BoundInv, NotYet
  <2>. QED  BY <2>1, StageInvInit, PoolInvInit, Zenon
<1>2. Inv /\ [EvalNext]_evalVars => Inv'
  BY StageInvNext, PoolInvNext, BoundInvNext, Zenon
<1>3. Inv => EvalTypeOK
  BY Zenon DEF StageInv, PoolInv, BoundInv, Waits, Within, EvalTypeOK
<1>. QED  BY <1>1, <1>2, <1>3, PTL DEF EvalSpec

-----------------------------------------------------------------------------
(* A turn. *)

(* What is recorded of every call is what the policy makes of it.          *)
Governed(c, cs) ==
    \A i \in DOMAIN cs : /\ cs[i].denied <=> ExecuteGoverned(c, cs[i]) = "denied"
                         /\ cs[i].ran <=> ExecuteGoverned(c, cs[i]) = "ran"

Refusal == Message("tool", <<>>, "denied")

Refused(cs) == {i \in DOMAIN cs : cs[i].denied}

(* The first refusal.                                                      *)
IsFirst(cs, i) == i \in Refused(cs) /\ \A j \in 1 .. i - 1 : j \notin Refused(cs)

(* After a refusal there is one turn at most, and just one when the run    *)
(* ends by itself before its last.                                         *)
FedBack(most, r) ==
    /\ \A i \in DOMAIN r.calls : r.calls[i].turn \in Nat /\ r.calls[i].turn <= r.turns
    /\ r.last_turn => Refused(r.calls) # {}
    /\ \A i \in Refused(r.calls) :
         /\ r.turns <= r.calls[i].turn + 1
         /\ r.outcome = "running" => r.last_turn /\ r.turns <= r.calls[i].turn
    /\ \A i \in DOMAIN r.calls : IsFirst(r.calls, i) /\ r.outcome = "ended" =>
         r.turns = r.calls[i].turn + 1 \/ r.turns >= most

IsTalk(msgs) == IsList(msgs) /\ \A i \in DOMAIN msgs : IsList(msgs[i].calls)

(* A cut reply counts as finished only where the client hides the cut.     *)
Told(backend, cut, finished) == cut /\ finished => backend \in HidesCut

RunIsGood(k, c, r) ==
    /\ RunIs(r) /\ Told(k.profile.backend, r.cut, r.finished) /\ r.turns \in Nat /\ IsList(r.calls) /\ IsTalk(r.messages)
    /\ r.outcome \in {"running", "ended", "errored"}
    /\ Governed(c, r.calls)
    /\ Refused(r.calls) # {} => Refusal \in Range(r.messages)
    /\ c.expect_deny => FedBack(k.max_turns, r)

(* The clients that tell a cut reply tell it by the reason "length".       *)
LEMMA CutIsTold ==
    ASSUME NEW a, NEW backend, NEW ans, ans = Reply(backend, a)
    PROVE  Told(backend, ans.cut, ans.finish_reason # "length")
<1>1. CASE backend \in HidesCut
  BY <1>1, Zenon DEF Told
<1>2. CASE backend \notin HidesCut
  <2>1. ans = OpenAIReply(a)
    BY <1>2, Zenon DEF Reply, VLLMReply, LlamaCPPReply, HidesCut
  <2>2. ans.cut = a.cut
    BY <2>1 DEF OpenAIReply
  <2>3. ans.finish_reason = IF a.cut THEN "length" ELSE "stop"
    BY <2>1 DEF OpenAIReply
  <2>. QED  BY <2>2, <2>3, Zenon DEF Told
<1>. QED  BY <1>1, <1>2, Zenon

(* Whatever the backend, the calls of a reply are a list.                  *)
LEMMA ReplyIsList ==
    ASSUME NEW a \in Answers, ~a.raises, NEW backend
    PROVE  IsList(Reply(backend, a).calls)
<1>. DEFINE cs == a.calls
            n == Len(cs)
<1>1. IsList(cs) /\ n \in Nat /\ DOMAIN cs = 1 .. n
  BY AnswersAssumption, ListIs, Zenon
<1>2. IsList(AnthropicReply(a).calls)
  <2>. DEFINE t == AnthropicReply(a).calls
  <2>1. t = [i \in 1 .. n |-> t[i]]
    BY <1>1, Zenon DEF AnthropicReply
  <2>. HIDE DEF t
  <2>2. IsList(t)
    BY <1>1, <2>1, ListMade, Zenon
  <2>. QED  BY <2>2, Zenon DEF t
<1>3. IsList(OllamaReply(a).calls)
  <2>. DEFINE t == OllamaReply(a).calls
  <2>1. t = [i \in 1 .. n |-> t[i]]
    BY <1>1, Zenon DEF OllamaReply
  <2>. HIDE DEF t
  <2>2. IsList(t)
    BY <1>1, <2>1, ListMade
  <2>. QED  BY <2>2 DEF t
<1>4. IsList(OpenAIReply(a).calls)
  BY <1>1, Zenon DEF OpenAIReply
<1>. QED  BY <1>2, <1>3, <1>4, Zenon DEF Reply, VLLMReply, LlamaCPPReply

(* What is recorded of a call tells what the policy made of it.            *)
LEMMA EntryIs ==
    ASSUME NEW c, NEW turn, NEW call, NEW e, e = Entry(c, turn, call)
    PROVE  /\ e.turn = turn
           /\ e.denied <=> ExecuteGoverned(c, call) = "denied"
           /\ e.denied <=> ExecuteGoverned(c, e) = "denied"
           /\ e.ran <=> ExecuteGoverned(c, e) = "ran"
<1>1. /\ e.turn = turn /\ e.name = call.name /\ e.form = call.form
      /\ e.denied = (ExecuteGoverned(c, call) = "denied")
      /\ e.ran = (ExecuteGoverned(c, call) = "ran")
  BY Zenon DEF Entry
<1>2. ExecuteGoverned(c, e) = ExecuteGoverned(c, call)
  BY <1>1, Zenon DEF ExecuteGoverned
<1>. QED  BY <1>1, <1>2, Zenon

(* The calls carried out are a list.                                       *)
LEMMA MadeIs ==
    ASSUME NEW c, NEW cs, IsList(cs)
    PROVE  Len(Made(c, cs)) \in Nat
<1>. DEFINE K == {i \in DOMAIN cs : \A j \in 1 .. i : ExecuteGoverned(c, cs[j]) # "raises"}
<1>1. cs \in Seq(Range(cs)) /\ K \subseteq DOMAIN cs
  BY ListIs, Zenon
<1>2. Made(c, cs) = Select(cs, K)
  BY Zenon DEF Made
<1>. HIDE DEF K
<1>3. Made(c, cs) \in Seq(Range(cs))
  BY <1>1, <1>2, SelectPicks, Zenon
<1>. QED  BY <1>3

(* What a turn with calls adds to the calls and to the conversation.       *)
LEMMA RecordedIs ==
    ASSUME NEW c, NEW r, IsList(r.calls), NEW cs, IsList(cs)
    PROVE  /\ IsList(Recorded(c, r, cs))
           /\ \A i \in DOMAIN r.calls : /\ i \in DOMAIN Recorded(c, r, cs)
                                        /\ Recorded(c, r, cs)[i] = r.calls[i]
           /\ \A i \in DOMAIN Recorded(c, r, cs) :
                \/ i \in DOMAIN r.calls
                \/ \E k \in 1 .. Len(Made(c, cs)) :
                     Recorded(c, r, cs)[i] = Entry(c, r.turns + 1, Made(c, cs)[k])
<1>. DEFINE n == Len(Made(c, cs))
            new == [i \in 1 .. n |-> Entry(c, r.turns + 1, Made(c, cs)[i])]
            old == r.calls
            all == old \o new
<1>1. n \in Nat
  BY MadeIs, Zenon
<1>2. Len(old) \in Nat /\ DOMAIN old = 1 .. Len(old)
  BY ListIs, Zenon
<1>. HIDE DEF n
<1>3. IsList(new) /\ Len(new) = n
  <2>1. new = [i \in 1 .. n |-> new[i]]
    BY Zenon
  <2>. HIDE DEF new
  <2>. QED  BY <1>1, <2>1, ListMade, Zenon
<1>4. \A k \in 1 .. n : new[k] = Entry(c, r.turns + 1, Made(c, cs)[k])
  BY Zenon
<1>. HIDE DEF new, old
<1>5. /\ IsList(all) /\ Len(all) = Len(old) + n
      /\ \A i \in 1 .. Len(old) : all[i] = old[i]
      /\ \A k \in 1 .. n : all[Len(old) + k] = new[k]
  BY <1>3, ListsJoined DEF old
<1>6. Recorded(c, r, cs) = all
  BY Zenon DEF Recorded, all, new, old, n
<1>. HIDE DEF all
<1>7. DOMAIN all = 1 .. Len(old) + n
  BY <1>5, ListIs, Zenon
<1>8. ASSUME NEW i \in DOMAIN all, i \notin DOMAIN old
      PROVE  \E k \in 1 .. n : all[i] = Entry(c, r.turns + 1, Made(c, cs)[k])
  <2>1. i - Len(old) \in 1 .. n /\ i = Len(old) + (i - Len(old))
    BY <1>1, <1>2, <1>7, <1>8
  <2>2. all[i] = new[i - Len(old)]
    BY <1>5, <2>1, Zenon
  <2>. QED  BY <1>4, <2>1, <2>2, Zenon
<1>9. \A i \in DOMAIN old : i \in DOMAIN all /\ all[i] = old[i]
  BY <1>1, <1>2, <1>5, <1>7
<1>. QED  BY <1>5, <1>6, <1>8, <1>9, Zenon DEF old, n

(* A turn that ends in text keeps a run good.                              *)
LEMMA TextTurnGood ==
    ASSUME NEW k, NEW c, NEW r, RunIsGood(k, c, r), r.outcome = "running",
           NEW ans, ans.calls = <<>>, Told(k.profile.backend, ans.cut, ans.finish_reason # "length")
    PROVE  RunIsGood(k, c, TableTurn(c, r, ans)) /\ TableTurn(c, r, ans).unit = r.unit
<1>. DEFINE n == TableTurn(c, r, ans)
<1>1. n = [unit |-> r.unit, turns |-> r.turns + 1, calls |-> r.calls, text |-> ans.text,
           cut |-> ans.cut, finished |-> ans.finish_reason # "length", last_turn |-> r.last_turn,
           messages |-> r.messages, outcome |-> "ended"]
  BY Zenon DEF TableTurn, RunIsGood, RunIs
<1>2. RunIs(n)
  BY <1>1, Zenon DEF RunIs
<1>3. /\ n.unit = r.unit /\ n.turns = r.turns + 1 /\ n.calls = r.calls /\ n.messages = r.messages
      /\ n.outcome = "ended" /\ n.last_turn = r.last_turn
  BY <1>1
<1>4. n.cut = ans.cut /\ n.finished = (ans.finish_reason # "length")
  <2>1. n.cut = ans.cut
    BY <1>1
  <2>2. n.finished = (ans.finish_reason # "length")
    BY <1>1
  <2>. QED  BY <2>1, <2>2, Zenon
<1>. HIDE DEF n
<1>5. /\ r.turns \in Nat /\ IsList(r.calls) /\ IsTalk(r.messages) /\ Governed(c, r.calls)
      /\ Refused(r.calls) # {} => Refusal \in Range(r.messages)
      /\ c.expect_deny => FedBack(k.max_turns, r)
  BY Zenon DEF RunIsGood
<1>6. ASSUME c.expect_deny PROVE FedBack(k.max_turns, n)
  <2>1. /\ \A i \in DOMAIN r.calls : r.calls[i].turn \in Nat /\ r.calls[i].turn <= r.turns
        /\ r.last_turn => Refused(r.calls) # {}
        /\ \A i \in Refused(r.calls) : r.turns <= r.calls[i].turn
    BY <1>5, <1>6, Zenon DEF FedBack
  <2>2. \A i \in Refused(r.calls) : i \in DOMAIN r.calls
    BY Zenon DEF Refused
  <2>3. \A i \in DOMAIN r.calls : r.calls[i].turn <= r.turns + 1
    BY <1>5, <2>1
  <2>4. \A i \in Refused(r.calls) : r.turns + 1 = r.calls[i].turn + 1 /\ r.turns + 1 <= r.calls[i].turn + 1
    BY <1>5, <2>1, <2>2
  <2>. QED  BY <1>3, <2>1, <2>3, <2>4, Zenon DEF FedBack, IsFirst
<1>7. n.turns \in Nat
  BY <1>3, <1>5
<1>8. Told(k.profile.backend, n.cut, n.finished)
  BY <1>4, Zenon
<1>9. RunIsGood(k, c, n)
  BY <1>2, <1>3, <1>5, <1>6, <1>7, <1>8, Zenon DEF RunIsGood
<1>. QED  BY <1>3, <1>9, Zenon DEF n

(* A refused call leaves a refusal in the conversation.                    *)
LEMMA ResultsTell ==
    ASSUME NEW c, NEW cs, IsList(cs), NEW k \in 1 .. Len(Made(c, cs)),
           ExecuteGoverned(c, Made(c, cs)[k]) = "denied", NEW before, IsList(before), NEW m
    PROVE  /\ IsList(before \o <<m>> \o Results(c, cs))
           /\ Refusal \in Range(before \o <<m>> \o Results(c, cs))
<1>. DEFINE t == Results(c, cs)
            b == before \o <<m>>
<1>1. IsList(t) /\ Len(t) = Len(Made(c, cs)) /\ t[k] = Refusal
  <2>1. Len(Made(c, cs)) \in Nat
    BY MadeIs, Zenon
  <2>2. t = [i \in 1 .. Len(Made(c, cs)) |-> t[i]] /\ t[k] = Refusal
    BY Zenon DEF Results, Refusal
  <2>. HIDE DEF t
  <2>. QED  BY <2>1, <2>2, ListMade, Zenon
<1>2. IsList(b)
  <2>0. <<m>> \in Seq({m})
    OBVIOUS
  <2>1. IsList(<<m>>)
    BY <2>0, ListOf, Zenon
  <2>. QED  BY <2>1, ListsJoined, Zenon
<1>. HIDE DEF t, b
<1>3. IsList(b \o t) /\ Len(b \o t) = Len(b) + Len(t) /\ (b \o t)[Len(b) + k] = t[k]
  BY <1>1, <1>2, ListsJoined
<1>4. Len(b) + k \in DOMAIN (b \o t)
  BY <1>1, <1>2, <1>3, ListIs
<1>. QED  BY <1>1, <1>3, <1>4, Zenon DEF Range, b, t

(* The conversation keeps what it had.                                     *)
LEMMA ResultsAdded ==
    ASSUME NEW c, NEW cs, IsList(cs), NEW before, IsTalk(before), NEW m, IsList(m.calls)
    PROVE  /\ IsTalk(before \o <<m>> \o Results(c, cs))
           /\ Range(before) \subseteq Range(before \o <<m>> \o Results(c, cs))
<1>. DEFINE t == Results(c, cs)
            b == before \o <<m>>
<1>0. IsList(before) /\ \A i \in DOMAIN before : IsList(before[i].calls)
  BY Zenon DEF IsTalk
<1>1. IsList(t) /\ \A i \in DOMAIN t : IsList(t[i].calls)
  <2>1. Len(Made(c, cs)) \in Nat
    BY MadeIs, Zenon
  <2>2. /\ t = [i \in 1 .. Len(Made(c, cs)) |-> t[i]]
        /\ \A i \in DOMAIN t : t[i].calls = <<>>
    BY Zenon DEF Results, Message
  <2>3. <<>> \in Seq({})
    OBVIOUS
  <2>4. IsList(<<>>)
    BY <2>3, ListOf, Zenon
  <2>. HIDE DEF t
  <2>. QED  BY <2>1, <2>2, <2>4, ListMade, Zenon
<1>2. /\ IsList(b) /\ Len(b) = Len(before) + 1 /\ b[Len(before) + 1] = m
      /\ \A i \in 1 .. Len(before) : b[i] = before[i]
  <2>0. <<m>> \in Seq({m}) /\ Len(<<m>>) = 1 /\ <<m>>[1] = m
    OBVIOUS
  <2>1. IsList(<<m>>)
    BY <2>0, ListOf, Zenon
  <2>. QED  BY <1>0, <2>0, <2>1, ListsJoined
<1>. HIDE DEF t, b
<1>3. /\ IsList(b \o t) /\ Len(b \o t) = Len(b) + Len(t)
      /\ \A i \in 1 .. Len(b) : (b \o t)[i] = b[i]
      /\ \A i \in 1 .. Len(t) : (b \o t)[Len(b) + i] = t[i]
  <2>1. IsList(b) /\ IsList(t)
    BY <1>1, <1>2, Zenon
  <2>. QED  BY <2>1, ListsJoined
<1>4. /\ DOMAIN before = 1 .. Len(before) /\ DOMAIN (b \o t) = 1 .. Len(b \o t)
      /\ Len(before) \in Nat /\ Len(t) \in Nat /\ DOMAIN t = 1 .. Len(t)
  BY <1>0, <1>1, <1>3, ListIs, Zenon
<1>5. ASSUME NEW i \in DOMAIN before PROVE before[i] \in Range(b \o t)
  <2>1. i \in 1 .. Len(before) /\ i \in 1 .. Len(b) /\ i \in DOMAIN (b \o t)
    BY <1>2, <1>3, <1>4
  <2>2. (b \o t)[i] = before[i]
    BY <1>2, <1>3, <2>1, Zenon
  <2>. QED  BY <2>1, <2>2, Zenon DEF Range
<1>6. Range(before) \subseteq Range(b \o t)
  BY <1>5, Zenon DEF Range
<1>7. ASSUME NEW i \in DOMAIN (b \o t) PROVE IsList((b \o t)[i].calls)
  <2>1. i \in 1 .. Len(before) \/ i = Len(before) + 1 \/ i - Len(b) \in 1 .. Len(t)
    BY <1>2, <1>3, <1>4
  <2>2. CASE i \in 1 .. Len(before)
    BY <1>0, <1>2, <1>3, <1>4, <2>2
  <2>3. CASE i = Len(before) + 1
    BY <1>2, <1>3, <1>4, <2>3
  <2>4. CASE i - Len(b) \in 1 .. Len(t)
    <3>. DEFINE k == i - Len(b)
    <3>1. k \in 1 .. Len(t) /\ Len(b) + k = i
      BY <1>2, <1>3, <1>4, <2>4
    <3>. HIDE DEF k
    <3>. QED  BY <1>1, <1>3, <1>4, <3>1, Zenon
  <2>. QED  BY <2>1, <2>2, <2>3, <2>4, Zenon
<1>8. IsTalk(b \o t)
  BY <1>3, <1>7, Zenon DEF IsTalk
<1>. QED  BY <1>6, <1>8, Zenon DEF b, t

(* A turn of tool calls keeps a run good.                                  *)
LEMMA CallTurnGood ==
    ASSUME ~cmd.legacy, NEW c, NEW r, RunIsGood(cmd, c, r), r.outcome = "running",
           NEW ans, IsList(ans.calls), ans.calls # <<>>
    PROVE  RunIsGood(cmd, c, TableTurn(c, r, ans)) /\ TableTurn(c, r, ans).unit = r.unit
<1>. DEFINE n == TableTurn(c, r, ans)
            cs == ans.calls
            all == Recorded(c, r, cs)
            msgs == r.messages \o <<Message("assistant", Names(cs), None)>>
                               \o Results(c, cs)
            next == AfterToolTurn(c, all)
<1>1. /\ n = [unit |-> r.unit, turns |-> r.turns + 1, calls |-> all, text |-> r.text,
              cut |-> r.cut, finished |-> r.finished, last_turn |-> n.last_turn,
              messages |-> msgs, outcome |-> n.outcome]
      /\ n.last_turn = (r.last_turn \/ next = "one-more-turn")
      /\ n.outcome \in {"running", "ended", "errored"}
      /\ n.outcome = "running" => ~ r.last_turn
      /\ n.outcome = "ended" => r.last_turn \/ next = "stop" \/ r.turns + 1 >= cmd.max_turns
  BY Zenon DEF TableTurn, RunIsGood, RunIs, MaxTurns
<1>. HIDE DEF n, cs, all, msgs
<1>2. RunIs(n)
  BY <1>1, Zenon DEF RunIs
<1>3. /\ n.unit = r.unit /\ n.turns = r.turns + 1 /\ n.calls = all /\ n.messages = msgs
      /\ n.cut = r.cut /\ n.finished = r.finished
  BY <1>1
<1>4. /\ RunIs(r) /\ r.turns \in Nat /\ IsList(r.calls)
      /\ IsTalk(r.messages) /\ IsList(r.messages)
      /\ Governed(c, r.calls)
      /\ Refused(r.calls) # {} => Refusal \in Range(r.messages)
      /\ c.expect_deny => FedBack(cmd.max_turns, r)
      /\ Told(cmd.profile.backend, r.cut, r.finished)
  BY Zenon DEF RunIsGood, IsTalk
<1>5. /\ IsList(all)
      /\ \A i \in DOMAIN r.calls : i \in DOMAIN all /\ all[i] = r.calls[i]
      /\ \A i \in DOMAIN all : \/ i \in DOMAIN r.calls
                               \/ \E k \in 1 .. Len(Made(c, cs)) :
                                    all[i] = Entry(c, r.turns + 1, Made(c, cs)[k])
  <2>1. IsList(cs) /\ IsList(r.calls) /\ r.turns \in Nat
    BY <1>4, Zenon DEF cs
  <2>2. IsList(Recorded(c, r, cs))
    BY <2>1, RecordedIs, Zenon
  <2>3. \A i \in DOMAIN r.calls : i \in DOMAIN Recorded(c, r, cs) /\ Recorded(c, r, cs)[i] = r.calls[i]
    BY <2>1, RecordedIs
  <2>4. \A i \in DOMAIN Recorded(c, r, cs) :
          \/ i \in DOMAIN r.calls
          \/ \E k \in 1 .. Len(Made(c, cs)) :
               Recorded(c, r, cs)[i] = Entry(c, r.turns + 1, Made(c, cs)[k])
    BY <2>1, RecordedIs
  <2>. QED  BY <2>2, <2>3, <2>4, Zenon DEF all
<1>6. Governed(c, all)
  <2>. SUFFICES ASSUME NEW i \in DOMAIN all
       PROVE  /\ all[i].denied <=> ExecuteGoverned(c, all[i]) = "denied"
              /\ all[i].ran <=> ExecuteGoverned(c, all[i]) = "ran"
    BY Zenon DEF Governed
  <2>1. CASE i \in DOMAIN r.calls
    BY <1>4, <1>5, <2>1, Zenon DEF Governed
  <2>2. CASE i \notin DOMAIN r.calls
    BY <1>5, <2>2, EntryIs
  <2>. QED  BY <2>1, <2>2, Zenon
<1>7. IsTalk(msgs) /\ Range(r.messages) \subseteq Range(msgs)
  <2>. DEFINE m == Message("assistant", Names(cs), None)
  <2>1. IsList(cs) /\ m.calls = Names(cs)
    BY Zenon DEF cs, Message
  <2>2. Len(cs) \in Nat /\ DOMAIN cs = 1 .. Len(cs)
    BY <2>1, ListIs, Zenon
  <2>3. Names(cs) = [i \in 1 .. Len(cs) |-> Names(cs)[i]]
    BY <2>2, Zenon DEF Names
  <2>4. IsList(m.calls)
    BY <2>1, <2>2, <2>3, ListMade, Zenon
  <2>. HIDE DEF m
  <2>5. msgs = r.messages \o <<m>> \o Results(c, cs)
    BY Zenon DEF msgs, m
  <2>. QED  BY <1>4, <2>1, <2>4, <2>5, ResultsAdded, Zenon
<1>8. Refused(all) # {} => Refusal \in Range(msgs)
  <2>. SUFFICES ASSUME NEW i \in Refused(all) PROVE Refusal \in Range(msgs)
    BY Zenon
  <2>1. CASE i \in DOMAIN r.calls
    <3>1. i \in Refused(r.calls)
      BY <1>5, <2>1, Zenon DEF Refused
    <3>. QED  BY <1>4, <1>7, <3>1, Zenon
  <2>2. CASE i \notin DOMAIN r.calls
    <3>1. PICK k \in 1 .. Len(Made(c, cs)) :
            all[i] = Entry(c, r.turns + 1, Made(c, cs)[k])
      BY <1>5, <2>2, Zenon DEF Refused
    <3>2. ExecuteGoverned(c, Made(c, cs)[k]) = "denied"
      BY <3>1, EntryIs DEF Refused
    <3>. QED  BY <1>4, <3>1, <3>2, ResultsTell, Zenon DEF msgs, cs
  <2>. QED  BY <2>1, <2>2, Zenon
<1>9. ASSUME c.expect_deny PROVE FedBack(cmd.max_turns, n)
  <2>1. FedBack(cmd.max_turns, r)
    BY <1>4, <1>9, Zenon
  <2>2. ASSUME NEW i \in DOMAIN all PROVE all[i].turn \in Nat /\ all[i].turn <= r.turns + 1
    <3>1. CASE i \in DOMAIN r.calls
      <4>1. all[i].turn \in Nat /\ all[i].turn <= r.turns
        BY <1>5, <2>1, <3>1, Zenon DEF FedBack
      <4>. QED  BY <1>4, <4>1
    <3>2. CASE i \notin DOMAIN r.calls
      <4>1. all[i].turn = r.turns + 1
        BY <1>5, <3>2, EntryIs
      <4>. QED  BY <1>4, <4>1
    <3>. QED  BY <3>1, <3>2, Zenon
  <2>3. \A i \in Refused(r.calls) : i \in Refused(all) /\ all[i] = r.calls[i]
    BY <1>5, Zenon DEF Refused
  <2>4. next # "stop" /\ (next = "one-more-turn" <=> Refused(all) # {})
    BY <1>9, Zenon DEF AfterToolTurn, Refused
  <2>5. n.last_turn <=> Refused(all) # {}
    BY <1>1, <2>1, <2>3, <2>4, Zenon DEF FedBack
  <2>6. ASSUME NEW i \in Refused(all)
        PROVE  /\ r.turns + 1 <= all[i].turn + 1
               /\ n.outcome = "running" => n.last_turn /\ r.turns + 1 <= all[i].turn
    <3>1. CASE i \in DOMAIN r.calls
      <4>1. i \in Refused(r.calls) /\ all[i] = r.calls[i] /\ all[i].turn \in Nat
        BY <1>5, <2>2, <3>1, Zenon DEF Refused
      <4>2. r.last_turn /\ r.turns <= all[i].turn
        BY <2>1, <4>1, Zenon DEF FedBack
      <4>3. r.turns + 1 <= all[i].turn + 1
        BY <1>4, <4>1, <4>2
      <4>. QED  BY <1>1, <4>2, <4>3, Zenon
    <3>2. CASE i \notin DOMAIN r.calls
      <4>1. all[i].turn = r.turns + 1
        BY <1>5, <3>2, EntryIs DEF Refused
      <4>2. r.turns + 1 <= all[i].turn + 1 /\ r.turns + 1 <= all[i].turn
        BY <1>4, <4>1
      <4>. QED  BY <2>5, <4>2, Zenon
    <3>. QED  BY <3>1, <3>2, Zenon
  <2>7. ASSUME NEW i \in DOMAIN all, IsFirst(all, i), n.outcome = "ended"
        PROVE  r.turns + 1 = all[i].turn + 1 \/ r.turns + 1 >= cmd.max_turns
    <3>1. CASE ~r.last_turn
      BY <1>1, <2>4, <2>7, <3>1, Zenon
    <3>2. CASE r.last_turn
      <4>1. PICK j \in Refused(r.calls) : TRUE
        BY <2>1, <3>2, Zenon DEF FedBack
      <4>2. j \in Refused(all) /\ j \in DOMAIN r.calls
        BY <2>3, <4>1, Zenon DEF Refused
      <4>3. i \in DOMAIN r.calls
        <5>1. j \notin 1 .. i - 1
          BY <2>7, <4>2, Zenon DEF IsFirst
        <5>2. /\ DOMAIN r.calls = 1 .. Len(r.calls) /\ DOMAIN all = 1 .. Len(all)
              /\ Len(r.calls) \in Nat /\ Len(all) \in Nat
          BY <1>4, <1>5, ListIs, Zenon
        <5>. QED  BY <2>7, <4>2, <5>1, <5>2
      <4>4. i \in Refused(r.calls) /\ all[i] = r.calls[i]
        BY <1>5, <2>7, <4>3, Zenon DEF IsFirst, Refused
      <4>5. r.turns <= all[i].turn /\ all[i].turn <= r.turns /\ all[i].turn \in Nat
        BY <2>1, <4>3, <4>4, Zenon DEF FedBack
      <4>6. r.turns = all[i].turn
        BY <1>4, <4>5
      <4>. QED  BY <4>6, Zenon
    <3>. QED  BY <3>1, <3>2, Zenon
  <2>. QED  BY <1>3, <2>2, <2>5, <2>6, <2>7, Zenon DEF FedBack
<1>10. RunIsGood(cmd, c, n)
  <2>1. n.turns \in Nat
    BY <1>3, <1>4
  <2>. QED  BY <1>1, <1>2, <1>3, <1>5, <1>6, <1>7, <1>8, <1>9, <2>1, Zenon DEF RunIsGood
<1>. QED  BY <1>3, <1>10, Zenon DEF n

-----------------------------------------------------------------------------
(* Runs and their results are governed. *)

(* A result was governed, and scored when it passed.                       *)
ResultIsGood(k, c, v) ==
    /\ IsList(v.calls) /\ Governed(c, v.calls)
    /\ v.success => \E finished :
         /\ ScoreTableCase(c, v.calls, v.text, finished)
         /\ Told(k.profile.backend, v.cut, finished)

GoodInv ==
    ~cmd.legacy =>
      /\ \A t \in 1 .. Threads : run[t] # Idle => RunIsGood(cmd, CaseOf(run[t].unit), run[t])
      /\ \A u \in DOMAIN results :
           results[u].state = "done" => ResultIsGood(cmd, CaseOf(u), results[u])

(* A run starts out good.                                                  *)
LEMMA OpeningIsGood ==
    ASSUME NEW k, NEW c, NEW u, NEW o \in {"running", "ended"}
    PROVE  RunIsGood(k, c, [unit |-> u, turns |-> 0, calls |-> <<>>, text |-> {}, cut |-> FALSE, finished |-> FALSE,
                         last_turn |-> FALSE, messages |-> Opening, outcome |-> o])
<1>. DEFINE r == [unit |-> u, turns |-> 0, calls |-> <<>>, text |-> {}, cut |-> FALSE, finished |-> FALSE,
                  last_turn |-> FALSE, messages |-> Opening, outcome |-> o]
<1>1. /\ RunIs(r) /\ r.turns = 0 /\ r.calls = <<>> /\ r.messages = Opening /\ r.outcome = o
      /\ r.cut = FALSE /\ r.last_turn = FALSE
  BY Zenon DEF RunIs
<1>. HIDE DEF r
<1>2. <<>> \in Seq({}) /\ DOMAIN <<>> = {}
  OBVIOUS
<1>3. IsList(<<>>)
  BY <1>2, ListOf, Zenon
<1>. DEFINE m == Message("system", <<>>, None)
            n == Message("user", <<>>, None)
            M == {m, n}
<1>4. Opening = <<m, n>> /\ m \in M /\ n \in M
  BY Zenon DEF Opening
<1>. HIDE DEF m, n, M
<1>5. Opening \in Seq(M)
  BY <1>4
<1>6. IsTalk(Opening)
  <2>0. DOMAIN Opening = 1 .. 2
    BY <1>4
  <2>1. IsList(Opening)
    BY <1>5, ListOf, Zenon
  <2>2. Opening[1].calls = <<>> /\ Opening[2].calls = <<>>
    BY <1>4, Zenon DEF m, n, Message
  <2>. QED  BY <1>3, <2>0, <2>1, <2>2 DEF IsTalk
<1>7. Governed(c, r.calls) /\ Refused(r.calls) = {} /\ FedBack(k.max_turns, r) /\ Told(k.profile.backend, r.cut, r.finished)
  BY <1>1, <1>2, Zenon DEF Governed, Refused, FedBack, Told
<1>. QED  BY <1>1, <1>3, <1>6, <1>7, Zenon DEF RunIsGood, r

(* A turn, or an exception in it, keeps a run good.                        *)
LEMMA GoodInvTurn ==
    ASSUME PoolInv, GoodInv, ~cmd.legacy, NEW t \in 1 .. Threads, Turn(t)
    PROVE  /\ RunIsGood(cmd, CaseOf(run[t].unit), run'[t]) /\ run'[t].unit = run[t].unit
           /\ \A s \in 1 .. Threads : s # t => run'[s] = run[s]
<1>. DEFINE c == CaseOf(run[t].unit)
            new == run'[t]
<1>1. DOMAIN run = 1 .. Threads /\ RunIsGood(cmd, c, run[t]) /\ run[t].outcome = "running"
  BY Zenon DEF PoolInv, GoodInv, Turn
<1>2. PICK a \in Answers :
        run' = [run EXCEPT ![t] =
          IF a.raises THEN [run[t] EXCEPT !.outcome = "errored"]
          ELSE TableTurn(CaseOf(run[t].unit), run[t], Reply(cmd.profile.backend, a))]
  BY Zenon DEF Turn
<1>3. \A s \in 1 .. Threads : s # t => run'[s] = run[s]
  BY <1>1, <1>2, Zenon
<1>4. new = IF a.raises THEN [run[t] EXCEPT !.outcome = "errored"]
            ELSE TableTurn(CaseOf(run[t].unit), run[t], Reply(cmd.profile.backend, a))
  BY <1>1, <1>2, Zenon
<1>. DEFINE r == run[t]
            ans == Reply(cmd.profile.backend, a)
<1>5. CASE a.raises
  <2>1. RunIs(r) /\ new = [r EXCEPT !.outcome = "errored"]
    BY <1>1, <1>4, <1>5, Zenon DEF RunIsGood
  <2>. HIDE DEF r, new, c
  <2>2. /\ RunIs(new) /\ new.unit = r.unit /\ new.turns = r.turns /\ new.calls = r.calls
        /\ new.messages = r.messages /\ new.last_turn = r.last_turn /\ new.outcome = "errored"
        /\ new.cut = r.cut /\ new.finished = r.finished
    BY <2>1, Zenon DEF RunIs
  <2>3. RunIsGood(cmd, c, r)
    BY <1>1, Zenon DEF r
  <2>4. c.expect_deny => FedBack(cmd.max_turns, new)
    BY <2>2, <2>3, Zenon DEF RunIsGood, FedBack
  <2>5. RunIsGood(cmd, c, new)
    BY <2>2, <2>3, <2>4, Zenon DEF RunIsGood
  <2>. QED  BY <1>3, <2>2, <2>5, Zenon DEF r, new, c
<1>6. CASE ~a.raises
  <2>1. IsList(ans.calls) /\ Told(cmd.profile.backend, ans.cut, ans.finish_reason # "length")
    BY <1>6, ReplyIsList, CutIsTold, Zenon
  <2>2. new = TableTurn(c, r, ans)
    BY <1>4, <1>6, Zenon
  <2>. HIDE DEF r, new, c, ans
  <2>3. RunIsGood(cmd, c, r) /\ r.outcome = "running"
    BY <1>1, Zenon DEF r
  <2>4. RunIsGood(cmd, c, new) /\ new.unit = r.unit
    BY <2>1, <2>2, <2>3, TextTurnGood, CallTurnGood
  <2>. QED  BY <1>3, <2>4, Zenon DEF r, new, c
<1>. QED  BY <1>5, <1>6, Zenon

(* The result of a good run is good.                                       *)
LEMMA ResultOfIsGood ==
    ASSUME ~cmd.legacy, NEW r, RunIsGood(cmd, CaseOf(r.unit), r)
    PROVE  ResultIsGood(cmd, CaseOf(r.unit), ResultOf(r))
<1>. DEFINE c == CaseOf(r.unit)
            v == ResultOf(r)
<1>1. /\ v.calls = r.calls /\ v.text = r.text /\ v.cut = r.cut
      /\ v.success => r.outcome = "passed" \/ ScoreTableCase(c, r.calls, r.text, r.finished)
  BY Zenon DEF ResultOf
<1>. HIDE DEF c, v
<1>2. /\ IsList(r.calls) /\ Governed(c, r.calls) /\ r.outcome # "passed"
      /\ Told(cmd.profile.backend, r.cut, r.finished)
  BY Zenon DEF RunIsGood, c
<1>3. ResultIsGood(cmd, c, v)
  BY <1>1, <1>2, Zenon DEF ResultIsGood
<1>. QED  BY <1>3, Zenon DEF c, v

(* No step changes the command line.                                       *)
LEMMA CommandStays == [EvalNext]_evalVars => cmd' = cmd
<1>1. (\E t \in 1 .. Threads : Worker(t)) => cmd' = cmd
  BY Zenon DEF Worker, Take, Turn, Finish
<1>2. Load \/ Preflight \/ Cancel \/ Unwind => cmd' = cmd
  BY Zenon DEF Load, Preflight, Cancel, Unwind
<1>3. EndGroup \/ Report \/ UNCHANGED evalVars => cmd' = cmd
  BY Zenon DEF EndGroup, Report, evalVars
<1>. QED  BY <1>1, <1>2, <1>3, Zenon DEF EvalNext, Main

LEMMA GoodInvInit == EvalInit => GoodInv
BY DEF EvalInit, GoodInv

(* Every step keeps runs and results good.                                 *)
LEMMA GoodInvNext == StageInv /\ PoolInv /\ GoodInv /\ [EvalNext]_evalVars => GoodInv'
<1>. SUFFICES ASSUME StageInv, PoolInv, GoodInv, [EvalNext]_evalVars, ~cmd.legacy PROVE GoodInv'
  BY CommandStays, Zenon DEF GoodInv
<1>1. ASSUME UNCHANGED <<cmd, groups, at, run, results>> PROVE GoodInv'
  BY <1>1, Zenon DEF GoodInv, CaseOf
<1>2. ASSUME NEW g, StartGroup(g), run' = run, \A t \in 1 .. Threads : run[t] = Idle PROVE GoodInv'
  <2>1. \A u \in DOMAIN results' : results'[u] = Pending
    BY <1>2, Zenon DEF StartGroup
  <2>. QED  BY <1>2, <2>1 DEF GoodInv, Pending
<1>3. CASE Load
  <2>1. at = 0 /\ ~Working /\ results' = results /\ run' = run
    BY <1>3, Zenon DEF Load, StageInv, Working
  <2>. QED  BY <2>1, Zenon DEF PoolInv, GoodInv
<1>4. CASE Preflight
  <2>1. \A t \in 1 .. Threads : run[t] = Idle
    BY <1>4, Zenon DEF Preflight, PoolInv, Working
  <2>2. CASE StartGroup(at + 1)
    BY <1>2, <1>4, <2>1, <2>2, Zenon DEF Preflight
  <2>3. CASE UNCHANGED <<at, queue, results>>
    BY <1>1, <1>4, <2>3, Zenon DEF Preflight
  <2>. QED  BY <1>4, <2>2, <2>3, Zenon DEF Preflight
<1>5. CASE EndGroup
  <2>1. \A t \in 1 .. Threads : run[t] = Idle
    BY <1>5, PoolIsDone, Zenon DEF EndGroup
  <2>2. CASE StartGroup(at + 1)
    BY <1>2, <1>5, <2>1, <2>2, Zenon DEF EndGroup
  <2>3. CASE UNCHANGED <<at, queue, results>>
    BY <1>1, <1>5, <2>3, Zenon DEF EndGroup
  <2>. QED  BY <1>5, <2>2, <2>3, Zenon DEF EndGroup
<1>6. CASE Cancel \/ Unwind \/ Report \/ UNCHANGED evalVars
  BY <1>1, <1>6, Zenon DEF Cancel, Unwind, Report, evalVars
<1>7. ASSUME NEW t \in 1 .. Threads, Take(t) PROVE GoodInv'
  <2>1. UNCHANGED <<cmd, groups, at, results>> /\ DOMAIN run = 1 .. Threads
    BY <1>7, Zenon DEF Take, PoolInv
  <2>2. PICK o \in {"running", "ended"} : run' = [run EXCEPT ![t] =
           [unit |-> Head(queue), turns |-> 0, calls |-> <<>>, text |-> {}, cut |-> FALSE, finished |-> FALSE,
            last_turn |-> FALSE, messages |-> Opening, outcome |-> o]]
    BY <1>7, Zenon DEF Take
  <2>3. \A c : RunIsGood(cmd, c, run'[t])
    BY <2>1, <2>2, OpeningIsGood, Zenon
  <2>4. \A s \in 1 .. Threads : s # t => run'[s] = run[s]
    BY <2>1, <2>2, Zenon
  <2>. QED  BY <2>1, <2>3, <2>4, Zenon DEF GoodInv, CaseOf
<1>8. ASSUME NEW t \in 1 .. Threads, Turn(t) PROVE GoodInv'
  <2>1. UNCHANGED <<cmd, groups, at, results>> /\ run[t] # Idle
    BY <1>8, Zenon DEF Turn
  <2>2. /\ RunIsGood(cmd, CaseOf(run[t].unit), run'[t]) /\ run'[t].unit = run[t].unit
        /\ \A s \in 1 .. Threads : s # t => run'[s] = run[s]
    BY <1>8, GoodInvTurn, Zenon
  <2>. QED  BY <2>1, <2>2, Zenon DEF GoodInv, CaseOf
<1>9. ASSUME NEW t \in 1 .. Threads, Finish(t) PROVE GoodInv'
  <2>. DEFINE u == run[t].unit
              w == results'[u]
  <2>1. UNCHANGED <<cmd, groups, at>> /\ run[t] # Idle /\ DOMAIN run = 1 .. Threads
        /\ run' = [run EXCEPT ![t] = Idle]
    BY <1>9, Zenon DEF Finish, PoolInv
  <2>2. u \in DOMAIN results /\ RunIsGood(cmd, CaseOf(u), run[t])
    BY <2>1, Zenon DEF PoolInv, Waits, GoodInv
  <2>3. results' = [results EXCEPT ![u] = w] /\ (w = Raised \/ ResultIsGood(cmd, CaseOf(u), w))
    <3>1. CASE results' = [results EXCEPT ![u] = ResultOf(run[t])]
      BY <2>2, <3>1, ResultOfIsGood, Zenon
    <3>2. CASE results' = [results EXCEPT ![u] = Raised]
      BY <2>2, <3>2, Zenon
    <3>. QED  BY <1>9, <3>1, <3>2, Zenon DEF Finish
  <2>. HIDE DEF u, w
  <2>4. \A s \in 1 .. Threads : run'[s] # Idle => run'[s] = run[s] /\ run[s] # Idle
    BY <2>1, Zenon
  <2>5. /\ DOMAIN results' = DOMAIN results /\ results'[u] = w
        /\ \A v \in DOMAIN results : v # u => results'[v] = results[v]
    BY <2>2, <2>3, Zenon
  <2>6. w.state = "done" => ResultIsGood(cmd, CaseOf(u), w)
    BY <2>3 DEF Raised
  <2>. QED  BY <2>1, <2>4, <2>5, <2>6, Zenon DEF GoodInv, CaseOf
<1>. QED  BY <1>3, <1>4, <1>5, <1>6, <1>7, <1>8, <1>9, Zenon DEF EvalNext, Main, Worker

(* A good result of a sound case, if it passed, earned it.                 *)
LEMMA GoodIsEarned ==
    ASSUME NEW c, CaseIsSound(c), NEW v, ResultIsGood(cmd, c, v)
    PROVE  /\ \A i \in DOMAIN v.calls : v.calls[i].ran =>
                c.allowed_tools = Unrestricted \/ v.calls[i].name \in c.allowed_tools
           /\ v.success =>
                /\ \A i \in DOMAIN v.calls : v.calls[i].name \notin c.forbidden_tools
                /\ c.expected_tool # None /\ ~c.expect_deny =>
                     v.calls # <<>> /\ v.calls[1].ran /\ v.calls[1].name = c.expected_tool
                /\ c.expect_no_tool_call /\ ~c.expect_deny =>
                     \A i \in DOMAIN v.calls : ~v.calls[i].ran
                /\ c.content # NoChecks =>
                     /\ ContentHolds(c.content, v.text)
                     /\ v.cut => cmd.profile.backend \in HidesCut
<1>. DEFINE cs == v.calls
<1>1. IsList(cs) /\ Governed(c, cs)
  BY Zenon DEF ResultIsGood
<1>2. v.success => \E finished : /\ ScoreTableCase(c, cs, v.text, finished)
                                 /\ Told(cmd.profile.backend, v.cut, finished)
  BY Zenon DEF ResultIsGood
<1>. HIDE DEF cs
<1>3. \A i \in DOMAIN cs : cs[i].ran =>
        c.allowed_tools = Unrestricted \/ cs[i].name \in c.allowed_tools
  <2>. SUFFICES ASSUME NEW i \in DOMAIN cs, cs[i].ran
       PROVE  c.allowed_tools = Unrestricted \/ cs[i].name \in c.allowed_tools
    BY Zenon
  <2>1. ExecuteGoverned(c, cs[i]) = "ran"
    BY <1>1, Zenon DEF Governed
  <2>. QED  BY <2>1, Zenon DEF ExecuteGoverned, MiddlewareExecute, Denies
<1>4. v.success => \A i \in DOMAIN cs : cs[i].name \notin c.forbidden_tools
  BY <1>2, Zenon DEF ScoreTableCase
<1>5. ASSUME v.success, c.expected_tool # None, ~c.expect_deny
      PROVE  cs # <<>> /\ cs[1].ran /\ cs[1].name = c.expected_tool
  <2>1. cs # <<>> /\ ValidateToolCall(c, cs[1]) /\ ~cs[1].denied
    BY <1>2, <1>5, Zenon DEF ScoreTableCase, CaseIsSound
  <2>2. 1 \in DOMAIN cs
    BY <1>1, <2>1, ListIs
  <2>3. cs[1].name = c.expected_tool /\ cs[1].form = "object"
    BY <2>1, Zenon DEF ValidateToolCall
  <2>4. ExecuteGoverned(c, cs[1]) # "denied"
    BY <1>1, <2>1, <2>2, Zenon DEF Governed
  <2>5. ExecuteGoverned(c, cs[1]) = "ran"
    BY <2>3, <2>4, Zenon DEF ExecuteGoverned, MiddlewareExecute
  <2>. QED  BY <1>1, <2>1, <2>2, <2>3, <2>5, Zenon DEF Governed
<1>6. ASSUME v.success, c.expect_no_tool_call, ~c.expect_deny
      PROVE  \A i \in DOMAIN cs : ~cs[i].ran
  <2>1. cs = <<>>
    BY <1>2, <1>6, Zenon DEF ScoreTableCase
  <2>. QED  BY <2>1
<1>7. ASSUME v.success, c.content # NoChecks
      PROVE  ContentHolds(c.content, v.text) /\ (v.cut => cmd.profile.backend \in HidesCut)
  <2>1. PICK finished : /\ ScoreTableCase(c, cs, v.text, finished)
                        /\ Told(cmd.profile.backend, v.cut, finished)
    BY <1>2, <1>7, Zenon
  <2>2. finished /\ CheckContent(c.content, v.text)
    BY <1>7, <2>1, Zenon DEF ScoreTableCase
  <2>3. ContentHolds(c.content, v.text)
    BY <2>2 DEF CheckContent, ContentHolds
  <2>. QED  BY <2>1, <2>2, <2>3, Zenon DEF Told
<1>. QED  BY <1>3, <1>4, <1>5, <1>6, <1>7, Zenon DEF cs

(* The client of every backend sends a refusal it has in its conversation. *)
LEMMA WireTells ==
    ASSUME NEW msgs, IsTalk(msgs), Refusal \in Range(msgs), NEW backend
    PROVE  \E m \in Range(Wire(backend, msgs)) : m.result = "denied"
<1>1. Len(msgs) \in Nat /\ DOMAIN msgs = 1 .. Len(msgs) /\ msgs \in Seq(Range(msgs))
  BY ListIs, Zenon DEF IsTalk
<1>2. PICK i \in DOMAIN msgs : msgs[i] = Refusal
  BY Zenon DEF Range
<1>3. /\ Refusal.role = "tool" /\ Refusal.calls = <<>> /\ Refusal.result = "denied"
      /\ AsUser(Refusal).result = "denied"
  BY Zenon DEF Refusal, Message, AsUser
<1>4. \E m \in Range(AnthropicWire(msgs)) : m.result = "denied"
  <2>. DEFINE K == {j \in DOMAIN msgs : msgs[j].role # "system" /\ msgs[j].calls = <<>>}
              kept == Select(msgs, K)
  <2>1. AnthropicWire(msgs) = [k \in DOMAIN kept |-> AsUser(kept[k])]
    BY Zenon DEF AnthropicWire
  <2>2. K \subseteq DOMAIN msgs /\ i \in K
    BY <1>2, <1>3, Zenon
  <2>. HIDE DEF K
  <2>3. kept \in Seq(Range(msgs)) /\ \E g : Picks(g, kept, msgs, K)
    BY <1>1, <2>2, SelectPicks, Zenon
  <2>. HIDE DEF kept
  <2>4. PICK g : Picks(g, kept, msgs, K)
    BY <2>3, Zenon
  <2>5. PICK k \in 1 .. Len(kept) : g[k] = i
    BY <2>2, <2>4, Zenon DEF Picks, Enumerates
  <2>6. k \in DOMAIN kept /\ kept[k] = Refusal
    BY <1>2, <2>3, <2>4, <2>5 DEF Picks
  <2>7. AsUser(Refusal) \in Range(AnthropicWire(msgs))
    BY <2>1, <2>6, Zenon DEF Range
  <2>. QED  BY <1>3, <2>7, Zenon
<1>5. \E m \in Range(OllamaWire(msgs)) : m.result = "denied"
  <2>. DEFINE each == [j \in DOMAIN msgs |-> OllamaEach(msgs[j])]
              S == UNION {Range(each[j]) : j \in DOMAIN msgs}
  <2>1. OllamaEach(Refusal) = <<AsUser(Refusal)>>
    BY <1>3, Zenon DEF OllamaEach
  <2>2. OllamaWire(msgs) = Join(each) /\ each[i] = OllamaEach(Refusal)
    BY <1>2, Zenon DEF OllamaWire
  <2>3. ASSUME NEW j \in DOMAIN msgs PROVE IsList(OllamaEach(msgs[j]))
    <3>. DEFINE m == msgs[j]
                e == OllamaEach(m)
    <3>1. CASE m.calls = <<>>
      <4>1. e = <<AsUser(m)>> /\ <<AsUser(m)>> \in Seq({AsUser(m)})
        BY <3>1 DEF OllamaEach
      <4>. QED  BY <4>1, ListOf, Zenon
    <3>2. CASE m.calls # <<>>
      <4>1. IsList(m.calls)
        BY Zenon DEF IsTalk
      <4>2. Len(m.calls) \in Nat /\ DOMAIN m.calls = 1 .. Len(m.calls)
        BY <4>1, ListIs, Zenon
      <4>3. e = [k \in 1 .. Len(m.calls) |-> e[k]]
        BY <3>2, <4>2, Zenon DEF OllamaEach
      <4>. QED  BY <4>2, <4>3, ListMade, Zenon
    <3>. QED  BY <3>1, <3>2, Zenon
  <2>4. \A j \in DOMAIN msgs : each[j] = OllamaEach(msgs[j])
    BY Zenon
  <2>5. \A j \in DOMAIN msgs : Range(each[j]) \subseteq S
    BY Zenon
  <2>6. each = [j \in 1 .. Len(msgs) |-> each[j]]
    BY <1>1, Zenon
  <2>. HIDE DEF each, S
  <2>7. \A j \in 1 .. Len(msgs) : each[j] \in Seq(S)
    <3>. SUFFICES ASSUME NEW j \in 1 .. Len(msgs) PROVE each[j] \in Seq(S)
      BY Zenon
    <3>1. each[j] \in Seq(Range(each[j])) /\ Range(each[j]) \subseteq S
      BY <1>1, <2>3, <2>4, <2>5, Zenon DEF IsList
    <3>. QED  BY <3>1
  <2>8. each \in Seq(Seq(S)) /\ Len(each) = Len(msgs)
    BY <1>1, <2>6, <2>7
  <2>9. Len(each[i]) = 1 /\ each[i][1] = AsUser(Refusal) /\ i \in 1 .. Len(msgs)
    BY <1>1, <2>1, <2>2
  <2>10. PICK n \in 1 .. Len(Join(each)) : Join(each)[n] = AsUser(Refusal)
    <3>1. \A j \in 1 .. Len(each) : \A k \in 1 .. Len(each[j]) :
            \E n \in 1 .. Len(Join(each)) : Join(each)[n] = each[j][k]
      BY <2>8, JoinHas, Zenon
    <3>2. 1 \in 1 .. Len(each[i]) /\ i \in 1 .. Len(each)
      BY <2>8, <2>9
    <3>. QED  BY <2>9, <3>1, <3>2, Zenon
  <2>11. Join(each) \in Seq(S)
    BY <2>8, JoinHas, Zenon
  <2>12. n \in DOMAIN Join(each)
    BY <2>10, <2>11
  <2>13. AsUser(Refusal) \in Range(OllamaWire(msgs))
    BY <2>2, <2>10, <2>12, Zenon DEF Range
  <2>. QED  BY <1>3, <2>13, Zenon
<1>6. \E m \in Range(msgs) : m.result = "denied"
  BY <1>3, Zenon
<1>. QED  BY <1>4, <1>5, <1>6, Zenon DEF Wire

EvalInv == StageInv /\ PoolInv /\ GoodInv

LEMMA EvalInvHolds == EvalSpec => []EvalInv
<1>1. EvalInit => EvalInv
  BY StageInvInit, PoolInvInit, GoodInvInit, Zenon DEF EvalInv
<1>2. EvalInv /\ [EvalNext]_evalVars => EvalInv'
  BY StageInvNext, PoolInvNext, GoodInvNext DEF EvalInv
<1>. QED  BY <1>1, <1>2, PTL DEF EvalSpec

(* A run that a suite reports as passed earned it, whatever the model and  *)
(* in whatever order the threads took and ended their runs: for every      *)
(* command line and every endpoint.                                        *)
THEOREM PassesAreEarned == EvalSpec => []EvalPassIsEarned
<1>1. EvalInv => EvalPassIsEarned
  <2>. SUFFICES ASSUME EvalInv, ~cmd.legacy, NEW u \in DOMAIN results, results[u].state = "done"
       PROVE  LET c == CaseOf(u)  v == results[u] IN
              /\ \A i \in DOMAIN v.calls : v.calls[i].ran =>
                   c.allowed_tools = Unrestricted \/ v.calls[i].name \in c.allowed_tools
              /\ v.success =>
                   /\ \A i \in DOMAIN v.calls : v.calls[i].name \notin c.forbidden_tools
                   /\ c.expected_tool # None /\ ~c.expect_deny =>
                        v.calls # <<>> /\ v.calls[1].ran /\ v.calls[1].name = c.expected_tool
                   /\ c.expect_no_tool_call /\ ~c.expect_deny =>
                        \A i \in DOMAIN v.calls : ~v.calls[i].ran
                   /\ c.content # NoChecks =>
                        /\ ContentHolds(c.content, v.text)
                        /\ v.cut => cmd.profile.backend \in HidesCut
    BY Zenon DEF EvalPassIsEarned
  <2>1. CaseIsSound(CaseOf(u))
    BY UnitIsSound, Zenon DEF EvalInv
  <2>2. ResultIsGood(cmd, CaseOf(u), results[u])
    BY Zenon DEF EvalInv, GoodInv
  <2>. QED  BY <2>1, <2>2, GoodIsEarned, Zenon
<1>. QED  BY <1>1, EvalInvHolds, PTL

(* The first refusal of a deny case is followed by one turn, and by no     *)
(* more, short of the bound on the turns, and the client of every backend  *)
(* sends it in that turn.                                                  *)
THEOREM RefusalsAreFedBack == EvalSpec => []EvalDenyIsFedBack
<1>1. EvalInv => EvalDenyIsFedBack
  <2>. SUFFICES ASSUME EvalInv, ~cmd.legacy, NEW t \in 1 .. Threads, run[t] # Idle,
                       CaseOf(run[t].unit).expect_deny,
                       NEW i \in DOMAIN run[t].calls, run[t].calls[i].denied,
                       \A j \in 1 .. i - 1 : ~run[t].calls[j].denied
       PROVE  /\ run[t].turns <= run[t].calls[i].turn + 1
              /\ run[t].outcome = "ended" => \/ run[t].turns = run[t].calls[i].turn + 1
                                             \/ run[t].turns >= MaxTurns(CaseOf(run[t].unit))
              /\ \E m \in Range(Wire(cmd.profile.backend, run[t].messages)) : m.result = "denied"
    BY Zenon DEF EvalDenyIsFedBack
  <2>. DEFINE r == run[t]
              c == CaseOf(r.unit)
  <2>1. /\ RunIsGood(cmd, c, r) /\ c.expect_deny /\ i \in Refused(r.calls)
        /\ IsFirst(r.calls, i) /\ MaxTurns(c) = cmd.max_turns
    BY Zenon DEF EvalInv, GoodInv, Refused, IsFirst, MaxTurns
  <2>. HIDE DEF r, c
  <2>2. FedBack(cmd.max_turns, r) /\ IsTalk(r.messages) /\ Refusal \in Range(r.messages)
    BY <2>1, Zenon DEF RunIsGood
  <2>3. r.turns <= r.calls[i].turn + 1
    BY <2>1, <2>2, Zenon DEF FedBack
  <2>4. r.outcome = "ended" => r.turns = r.calls[i].turn + 1 \/ r.turns >= MaxTurns(c)
    BY <2>1, <2>2, Zenon DEF FedBack, Refused
  <2>5. \E m \in Range(Wire(cmd.profile.backend, r.messages)) : m.result = "denied"
    BY <2>2, WireTells, Zenon
  <2>. QED  BY <2>3, <2>4, <2>5, Zenon DEF r, c
<1>. QED  BY <1>1, EvalInvHolds, PTL
=============================================================================
