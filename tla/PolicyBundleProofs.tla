------------------------- MODULE PolicyBundleProofs -------------------------
(***************************************************************************)
(* A bundle comes back from its document as it was, and every variable     *)
(* stays in its type.  What a process has been told by its policy bundle   *)
(* holds for every number of processes, calls and published versions; what *)
(* the file is good for, for every number of calls of one process.         *)
(***************************************************************************)
EXTENDS PolicyBundle, TLAPS

(* A bundle comes back from its document as it was.                        *)
LEMMA ConditionRoundTrip ==
    ASSUME NEW c
    PROVE  ParseCondition(ConditionToDict(ParseCondition(c))) = ParseCondition(c)
BY Zenon DEF ParseCondition, ConditionToDict

LEMMA RuleRoundTrip ==
    ASSUME NEW r
    PROVE  ParseRule(RuleToDict(ParseRule(r))) = ParseRule(r)
<1>. DEFINE p == ParseRule(r)
            w == RuleToDict(p)
<1>1. /\ p.name = r.name /\ p.tools = r.tools /\ p.redact_fields = r.redact_fields
      /\ p.action = (IF r.action = "absent" THEN "deny" ELSE r.action)
      /\ p.conditions = [i \in DOMAIN r.conditions |-> ParseCondition(r.conditions[i])]
      /\ p.max_rate = (IF r.max_rate.count > 0 /\ r.max_rate.window > 0
                       THEN r.max_rate ELSE NoRate)
  BY Zenon DEF ParseRule
<1>2. /\ w.name = p.name /\ w.tools = p.tools /\ w.redact_fields = p.redact_fields
      /\ w.action = p.action /\ w.max_rate = p.max_rate
      /\ w.conditions = [i \in DOMAIN p.conditions |-> ConditionToDict(p.conditions[i])]
  BY Zenon DEF RuleToDict
<1>3. (IF w.action = "absent" THEN "deny" ELSE w.action) = p.action
  BY <1>1, <1>2, Zenon
<1>4. (IF w.max_rate.count > 0 /\ w.max_rate.window > 0 THEN w.max_rate ELSE NoRate) = p.max_rate
  BY <1>1, <1>2, Zenon DEF NoRate
<1>5. [i \in DOMAIN w.conditions |-> ParseCondition(w.conditions[i])] = p.conditions
  <2>1. DOMAIN w.conditions = DOMAIN r.conditions /\ DOMAIN p.conditions = DOMAIN r.conditions
    BY <1>1, <1>2, Zenon
  <2>2. ASSUME NEW i \in DOMAIN r.conditions
        PROVE  ParseCondition(w.conditions[i]) = p.conditions[i]
    BY <1>1, <1>2, <2>1, ConditionRoundTrip
  <2>3. p.conditions = [i \in DOMAIN r.conditions |-> p.conditions[i]]
    BY <1>1, Zenon
  <2>. QED  BY <2>1, <2>2, <2>3, Zenon
<1>. QED
  <2>1. ParseRule(w) =
          [name |-> w.name, tools |-> w.tools,
           action |-> IF w.action = "absent" THEN "deny" ELSE w.action,
           conditions |-> [i \in DOMAIN w.conditions |-> ParseCondition(w.conditions[i])],
           max_rate |-> IF w.max_rate.count > 0 /\ w.max_rate.window > 0
                        THEN w.max_rate ELSE NoRate,
           redact_fields |-> w.redact_fields]
    BY Zenon DEF ParseRule
  <2>2. p = [name |-> p.name, tools |-> p.tools, action |-> p.action,
             conditions |-> p.conditions, max_rate |-> p.max_rate,
             redact_fields |-> p.redact_fields]
    BY Zenon DEF ParseRule
  <2>. QED  BY <1>2, <1>3, <1>4, <1>5, <2>1, <2>2, Zenon

LEMMA RoundTrip ==
    ASSUME NEW d
    PROVE  FromWire(ToDict(FromWire(d))) = FromWire(d)
<1>. DEFINE b == FromWire(d)
            w == ToDict(b)
<1>1. /\ DOMAIN b.rules = DOMAIN d.rules /\ b.default_deny = (d.default_deny # "false")
      /\ \A i \in DOMAIN d.rules : b.rules[i] = ParseRule(d.rules[i])
      /\ b.rules = [i \in DOMAIN d.rules |-> b.rules[i]]
  BY Zenon DEF FromWire
<1>2. /\ w.version = b.version /\ w.expires = b.expires /\ w.aware = b.aware
      /\ w.default_deny = (IF b.default_deny THEN "true" ELSE "false")
      /\ DOMAIN w.rules = DOMAIN b.rules
      /\ \A i \in DOMAIN b.rules : w.rules[i] = RuleToDict(b.rules[i])
  BY Zenon DEF ToDict
<1>3. \A i \in DOMAIN d.rules : ParseRule(w.rules[i]) = b.rules[i]
  BY <1>1, <1>2, RuleRoundTrip
<1>4. [i \in DOMAIN w.rules |-> ParseRule(w.rules[i])] = b.rules
  BY <1>1, <1>2, <1>3, Zenon
<1>5. (w.default_deny # "false") = b.default_deny
  BY <1>1, <1>2, ZenonT(30)
<1>6. FromWire(w) = [version |-> w.version, expires |-> w.expires, aware |-> w.aware,
                     default_deny |-> w.default_deny # "false",
                     rules |-> [i \in DOMAIN w.rules |-> ParseRule(w.rules[i])]]
  BY Zenon DEF FromWire
<1>7. b = [version |-> b.version, expires |-> b.expires, aware |-> b.aware,
           default_deny |-> b.default_deny, rules |-> b.rules]
  BY Zenon DEF FromWire
<1>. QED  BY <1>2, <1>4, <1>5, <1>6, <1>7, Zenon

(* What from_wire accepts it accepts again after to_dict: what parsing has *)
(* filled in (an operator, an action, the default) is itself well formed.  *)
LEMMA ConditionParsesAgain ==
    ASSUME NEW c, ConditionParses(c)
    PROVE  ConditionParses(ConditionToDict(ParseCondition(c)))
BY Zenon DEF ConditionParses, ConditionToDict, ParseCondition, Operators

LEMMA RuleParsesAgain ==
    ASSUME NEW r, RuleParses(r)
    PROVE  RuleParses(RuleToDict(ParseRule(r)))
<1>. DEFINE p == ParseRule(r)
            w == RuleToDict(p)
<1>1. /\ p.name = r.name /\ p.conditions =
            [i \in DOMAIN r.conditions |-> ParseCondition(r.conditions[i])]
      /\ p.action = (IF r.action = "absent" THEN "deny" ELSE r.action)
  BY Zenon DEF ParseRule
<1>2. /\ w.name = p.name /\ w.listed /\ w.action = p.action
      /\ w.conditions = [i \in DOMAIN p.conditions |-> ConditionToDict(p.conditions[i])]
  BY Zenon DEF RuleToDict
<1>. HIDE DEF p, w
<1>3. r.name # 0 /\ r.action \in Actions \cup {"absent"}
      /\ \A i \in DOMAIN r.conditions : ConditionParses(r.conditions[i])
  BY Zenon DEF RuleParses
<1>4. w.action \in Actions \cup {"absent"}
  BY <1>1, <1>2, <1>3, Zenon DEF Actions
<1>5. \A i \in DOMAIN w.conditions : ConditionParses(w.conditions[i])
  <2>1. DOMAIN w.conditions = DOMAIN r.conditions /\ \A i \in DOMAIN r.conditions :
            w.conditions[i] = ConditionToDict(ParseCondition(r.conditions[i]))
    BY <1>1, <1>2, Zenon
  <2>. QED  BY <1>3, <2>1, ConditionParsesAgain, Zenon
<1>6. RuleParses(w)
  BY <1>1, <1>2, <1>3, <1>4, <1>5, Zenon DEF RuleParses
<1>. QED  BY <1>6, Zenon DEF w, p

LEMMA ParsesAgain ==
    ASSUME NEW d, WireOutcome(d) = "bundle"
    PROVE  WireOutcome(ToDict(FromWire(d))) = "bundle"
<1>. DEFINE b == FromWire(d)
            w == ToDict(b)
<1>1. /\ b.version = d.version /\ b.expires = d.expires
      /\ b.rules = [i \in DOMAIN d.rules |-> ParseRule(d.rules[i])]
  BY Zenon DEF FromWire
<1>2. /\ w.typed /\ w.listed /\ w.version = b.version /\ w.expires = b.expires
      /\ w.rules = [i \in DOMAIN b.rules |-> RuleToDict(b.rules[i])]
  BY Zenon DEF ToDict
<1>. HIDE DEF b, w
<1>3. BundleParses(d)
  BY Zenon DEF WireOutcome
<1>4. \A i \in DOMAIN w.rules : RuleParses(w.rules[i])
  <2>1. DOMAIN w.rules = DOMAIN d.rules
        /\ \A i \in DOMAIN d.rules : w.rules[i] = RuleToDict(ParseRule(d.rules[i]))
    BY <1>1, <1>2, Zenon
  <2>. QED  BY <1>3, <2>1, RuleParsesAgain, Zenon DEF BundleParses
<1>5. BundleParses(w)
  BY <1>1, <1>2, <1>3, <1>4, Zenon DEF BundleParses
<1>6. WireOutcome(w) = "bundle"
  BY <1>2, <1>5, Zenon DEF WireOutcome
<1>. QED  BY <1>6, Zenon DEF w, b

-----------------------------------------------------------------------------
(* Type correctness *)

LEMMA AppendTyped ==
    ASSUME NEW S, NEW s \in Seq(S), NEW e \in S
    PROVE  Append(s, e) \in Seq(S) /\ Len(Append(s, e)) = Len(s) + 1
OBVIOUS

LEMMA BundleFacts ==
    ASSUME newest \in 1 .. MaxVersion, fetched \subseteq Versions, NEW b \in Bundles
    PROVE  /\ b.version \in fetched /\ b.version \in 1 .. newest
           /\ b = FromWire(Published[b.version])
           /\ b # NoBundle /\ ToDict(b) # Half /\ FromWire(ToDict(b)) = b
<1>1. PICK v \in fetched : b = FromWire(Published[v])
  BY Zenon DEF Bundles
<1>2. v \in 1 .. newest /\ v \in 1 .. MaxVersion /\ v # 0
      /\ WireOutcome(Published[v]) = "bundle"
  BY <1>1, BundleAssumption DEF Versions
<1>3. Published[v].version = v
  BY <1>2, BundleAssumption, Zenon DEF WireOutcome, BundleParses
<1>4. b.version = v /\ ToDict(b).version = v
  BY <1>1, <1>3, Zenon DEF FromWire, ToDict
<1>5. b # NoBundle /\ ToDict(b) # Half
  BY <1>2, <1>4 DEF NoBundle, Half
<1>. QED  BY <1>1, <1>2, <1>4, <1>5, RoundTrip, Zenon

(* What Cached reads is a bundle that was delivered.                       *)
LEMMA CachedIsDelivered ==
    ASSUME TypeOK
    PROVE  Cached \in Bundles \cup {NoBundle}
<1>1. CASE path = NoFile
  BY <1>1, Zenon DEF Cached
<1>2. CASE path # NoFile /\ files[path] = Half
  BY <1>2, Zenon DEF Cached
<1>3. CASE path # NoFile /\ files[path] # Half
  <2>1. files[path] \in Persisted \cup {Half}
    BY <1>3 DEF TypeOK, NoFile
  <2>2. PICK b \in Bundles : files[path] = ToDict(b)
    BY <1>3, <2>1, Zenon DEF Persisted
  <2>. QED  BY <1>3, <2>2, BundleFacts DEF Cached, TypeOK
<1>. QED  BY <1>1, <1>2, <1>3, Zenon

LEMMA TypeInit == Init => TypeOK
<1>. SUFFICES ASSUME Init PROVE TypeOK
  BY Zenon
<1>1. newest \in 1 .. MaxVersion
  BY BundleAssumption DEF Init
<1>. QED  BY <1>1, BundleAssumption DEF Init, TypeOK, NoFile

(* What is delivered stays so.                                             *)
LEMMA Monotonic ==
    ASSUME fetched \subseteq fetched'
    PROVE  Bundles \subseteq Bundles' /\ Persisted \subseteq Persisted'
BY Zenon DEF Bundles, Persisted

LEMMA TypeNext == TypeOK /\ CallInv /\ [Next]_vars => TypeOK'
<1>. SUFFICES ASSUME TypeOK, CallInv, [Next]_vars PROVE TypeOK'
  BY Zenon
<1>. USE BundleAssumption DEF plane, process, state, disk, call
<1>0. UNCHANGED fetched => Bundles' = Bundles /\ Persisted' = Persisted
  BY Zenon DEF Bundles, Persisted
<1>1. ASSUME NEW p \in Procs, Crash(p) PROVE TypeOK'
  BY <1>1, <1>0, Zenon DEF Crash, TypeOK, Versions
<1>2. ASSUME NEW p \in Procs, NEW k \in Credentials, Construct(p, k) PROVE TypeOK'
  BY <1>2, <1>0 DEF Construct, TypeOK, Versions
<1>3. ASSUME NEW c \in Calls, Start(c) PROVE TypeOK'
  <2>1. Home[c] \in Procs /\ Cached \in Bundles \cup {NoBundle}
    BY CachedIsDelivered, Zenon
  <2>2. bundle[Home[c]] \in Bundles \cup {NoBundle}
    BY <2>1, Zenon DEF TypeOK
  <2>3. pc' \in [Calls -> {"idle", "fetch", "bundle", "failed", "crooked",
                           "write", "rename", "done", "raised"}]
        /\ op' \in [Calls -> {"start", "refresh"}]
    BY <1>3, ZenonT(30) DEF Start, Finish, Request, TypeOK
  <2>4. CASE LocalOnly(Home[c])
    <3>1. loaded' \in [Procs -> BOOLEAN] /\ bundle' = bundle /\ base' = base
      BY <1>3, <2>4, <2>1, ZenonT(30) DEF Start, TypeOK
    <3>. QED  BY <1>3, <1>0, <2>3, <3>1, Zenon DEF Start, TypeOK, Versions
  <2>5. CASE ~LocalOnly(Home[c])
    <3>1. PICK b \in Bundles \cup {NoBundle} : bundle' = [bundle EXCEPT ![Home[c]] = b]
      BY <1>3, <2>5, <2>1, <2>2, Zenon DEF Start
    <3>2. /\ bundle' \in [Procs -> Bundles \cup {NoBundle}]
          /\ bundle[Home[c]] \in Bundles \cup {NoBundle}
      BY <3>1, <2>1, Zenon DEF TypeOK
    <3>3. base' \in [Calls -> Bundles \cup {NoBundle}] /\ loaded' = loaded
      BY <1>3, <2>5, <3>2, ZenonT(30) DEF Start, TypeOK
    <3>. QED  BY <1>3, <1>0, <2>3, <3>2, <3>3, Zenon DEF Start, TypeOK, Versions
  <2>. QED  BY <2>4, <2>5, Zenon
<1>4. ASSUME NEW c \in Calls, Refresh(c) PROVE TypeOK'
  <2>1. Home[c] \in Procs
    BY Zenon
  <2>2. bundle[Home[c]] \in Bundles \cup {NoBundle} /\ now \in 0 .. now
    BY <2>1 DEF TypeOK
  <2>3. last' \in [Procs -> 0 .. now] /\ now' = now
    BY <1>4, <2>1, <2>2, ZenonT(30) DEF Refresh, TypeOK
  <2>4. base' \in [Calls -> Bundles \cup {NoBundle}]
    BY <1>4, <2>2, ZenonT(30) DEF Refresh, TypeOK
  <2>5. pc' \in [Calls -> {"idle", "fetch", "bundle", "failed", "crooked",
                           "write", "rename", "done", "raised"}]
        /\ op' \in [Calls -> {"start", "refresh"}]
    BY <1>4, ZenonT(30) DEF Refresh, Finish, Request, TypeOK
  <2>. QED  BY <1>4, <1>0, <2>3, <2>4, <2>5, Zenon DEF Refresh, TypeOK, Versions
<1>5. ASSUME NEW c \in Calls, NEW a \in {"bundle", "failed", "crooked"}, Answer(c, a)
      PROVE  TypeOK'
  <2>1. fetched \subseteq fetched' /\ fetched' \subseteq Versions' /\ newest' = newest
    BY <1>5 DEF Answer, TypeOK, Versions
  <2>2. Bundles \subseteq Bundles' /\ Persisted \subseteq Persisted'
    BY <2>1, Monotonic, Zenon
  <2>3. a = "bundle" => FromWire(Published[newest]) \in Bundles'
    BY <1>5, Zenon DEF Answer, Bundles
  <2>4. got' \in [Calls -> Bundles' \cup {NoBundle}]
    BY <1>5, <2>2, <2>3, Zenon DEF Answer, TypeOK
  <2>5. files' \in Seq(Persisted' \cup {Half})
    BY <1>5, <2>2 DEF Answer, TypeOK
  <2>. QED  BY <1>5, <2>1, <2>2, <2>4, <2>5, Zenon DEF Answer, TypeOK
<1>6. ASSUME NEW c \in Calls, PersistOpen(c) PROVE TypeOK'
  <2>1. Home[c] \in Procs /\ got[c] \in Bundles
    BY <1>6, Zenon DEF PersistOpen, CallInv, CallOK
  <2>2. /\ bundle' \in [Procs -> Bundles \cup {NoBundle}]
        /\ loaded' \in [Procs -> BOOLEAN]
    BY <1>6, <2>1, Zenon DEF PersistOpen, Activate, TypeOK
  <2>3. /\ files \in Seq(Persisted \cup {Half}) /\ Len(files) \in Nat
        /\ tmp \in 0 .. Len(files) /\ path \in 0 .. Len(files)
        /\ fd \in [Calls -> 0 .. Len(files)]
    BY DEF TypeOK
  <2>4. CASE tmp = NoFile
    <3>0. files' = Append(files, Half) /\ Half \in Persisted \cup {Half}
      BY <1>6, <2>4, Zenon DEF PersistOpen
    <3>1. files' \in Seq(Persisted \cup {Half}) /\ Len(files') = Len(files) + 1
      BY <2>3, <3>0, AppendTyped, Zenon
    <3>2. tmp' \in 0 .. Len(files') /\ path' \in 0 .. Len(files')
          /\ fd' \in [Calls -> 0 .. Len(files')]
      <4>1. /\ tmp' = Len(files) + 1 /\ path' = path
            /\ fd' = [fd EXCEPT ![c] = Len(files) + 1]
        BY <1>6, <2>4, Zenon DEF PersistOpen
      <4>2. 0 .. Len(files) \subseteq 0 .. Len(files') /\ Len(files) + 1 \in 0 .. Len(files')
        BY <2>3, <3>1
      <4>. QED  BY <2>3, <4>1, <4>2, Zenon
    <3>. QED  BY <1>6, <1>0, <2>2, <3>1, <3>2, Zenon DEF PersistOpen, TypeOK, Versions
  <2>5. CASE tmp # NoFile
    <3>1. files' \in Seq(Persisted \cup {Half}) /\ Len(files') = Len(files)
      BY <1>6, <2>3, <2>5 DEF PersistOpen, NoFile
    <3>2. tmp' \in 0 .. Len(files') /\ path' \in 0 .. Len(files')
          /\ fd' \in [Calls -> 0 .. Len(files')]
      BY <1>6, <2>3, <2>5, <3>1, Zenon DEF PersistOpen
    <3>. QED  BY <1>6, <1>0, <2>2, <3>1, <3>2, Zenon DEF PersistOpen, TypeOK, Versions
  <2>. QED  BY <2>4, <2>5, Zenon
<1>7. ASSUME NEW c \in Calls, PersistWrite(c) PROVE TypeOK'
  <2>1. got[c] \in Bundles /\ fd[c] \in 1 .. Len(files)
    BY <1>7 DEF PersistWrite, CallInv, CallOK, Persisting, TypeOK, NoFile
  <2>2. ToDict(got[c]) \in Persisted
    BY <2>1, Zenon DEF Persisted
  <2>3. files' \in Seq(Persisted \cup {Half}) /\ Len(files') = Len(files)
    BY <1>7, <2>1, <2>2 DEF PersistWrite, TypeOK
  <2>. QED  BY <1>7, <1>0, <2>3, Zenon DEF PersistWrite, TypeOK, Versions
<1>8. ASSUME NEW c \in Calls, PersistRename(c) PROVE TypeOK'
  BY <1>8, <1>0 DEF PersistRename, Finish, TypeOK, Versions, NoFile
<1>9. ASSUME NEW c \in Calls, PersistFails(c) PROVE TypeOK'
  <2>1. Home[c] \in Procs
    OBVIOUS
  <2>2. /\ bundle' \in [Procs -> Bundles \cup {NoBundle}]
        /\ loaded' \in [Procs -> BOOLEAN]
    BY <1>9, <2>1, ZenonT(30) DEF PersistFails, Activate, TypeOK
  <2>. QED  BY <1>9, <1>0, <2>2, ZenonT(30) DEF PersistFails, Finish, TypeOK, Versions
<1>10. ASSUME NEW c \in Calls, FetchFailed(c) PROVE TypeOK'
  BY <1>10, <1>0, Zenon DEF FetchFailed, Finish, TypeOK, Versions
<1>11. ASSUME NEW c \in Calls, FetchCrooked(c) PROVE TypeOK'
  BY <1>11, <1>0, Zenon DEF FetchCrooked, Finish, TypeOK, Versions
<1>12. CASE Publish
  <2>1. newest' \in 1 .. MaxVersion /\ fetched' \subseteq Versions'
    BY <1>12 DEF Publish, TypeOK, Versions
  <2>. QED  BY <1>12, <1>0, <2>1, Zenon DEF Publish, TypeOK
<1>13. CASE Tick
  <2>1. now' \in 0 .. MaxTime /\ last' \in [Procs -> 0 .. now']
    BY <1>13 DEF Tick, TypeOK
  <2>. QED  BY <1>13, <1>0, <2>1, Zenon DEF Tick, TypeOK, Versions
<1>14. CASE UNCHANGED vars
  BY <1>14, <1>0, Zenon DEF vars, TypeOK, Versions
<1>. QED
  BY <1>1, <1>2, <1>3, <1>4, <1>5, <1>6, <1>7, <1>8, <1>9, <1>10, <1>11, <1>12,
     <1>13, <1>14, Zenon DEF Next

-----------------------------------------------------------------------------

LEMMA CallInit == Init => CallInv
BY BundleAssumption, Zenon DEF Init, CallInv, CallOK, Persisting

(* Turn keeps two calls of a process from persisting at once; a call gets  *)
(* the newest version, and what was active when it was made is not newer.  *)
LEMMA CallNext == TypeOK /\ CallInv /\ [Next]_vars => CallInv'
<1>. SUFFICES ASSUME TypeOK, CallInv, [Next]_vars, NEW c \in Calls
     PROVE  CallOK(c)'
  BY Zenon DEF CallInv
<1>. USE BundleAssumption DEF plane, process, state, disk, call
<1>a. CallOK(c) /\ Home[c] \in Procs
      /\ pc \in [Calls -> {"idle", "fetch", "bundle", "failed", "crooked",
                           "write", "rename", "done", "raised"}]
  BY Zenon DEF CallInv, TypeOK
<1>b. UNCHANGED fetched => Bundles' = Bundles
  BY Zenon DEF Bundles
<1>1. ASSUME NEW p \in Procs, Crash(p) PROVE CallOK(c)'
  BY <1>1, <1>a, <1>b, Zenon DEF Crash, CallOK, Persisting, TypeOK
<1>2. ASSUME NEW p \in Procs, NEW k \in Credentials, Construct(p, k) PROVE CallOK(c)'
  BY <1>2, <1>a, <1>b, Zenon DEF Construct, CallOK, Persisting, TypeOK
<1>3. ASSUME NEW d \in Calls, Start(d) PROVE CallOK(c)'
  <2>1. /\ pc' = [pc EXCEPT ![d] = pc'[d]] /\ pc'[d] \in {"fetch", "done"}
        /\ bundle' = [bundle EXCEPT ![Home[d]] = bundle'[Home[d]]]
        /\ c # d => base'[c] = base[c]
        /\ UNCHANGED <<fetched, up, got, fd>> /\ up[Home[d]]
        /\ \A e \in Calls \ {d} : Home[e] = Home[d] => pc[e] \notin Persisting
    BY <1>3, <1>a DEF Start, Turn, Finish, Request, TypeOK, Persisting
  <2>. QED  BY <1>a, <1>b, <2>1 DEF CallOK, Persisting, TypeOK
<1>4. ASSUME NEW d \in Calls, Refresh(d) PROVE CallOK(c)'
  <2>1. /\ pc' = [pc EXCEPT ![d] = pc'[d]] /\ pc'[d] \in {"fetch", "done"}
        /\ c # d => base'[c] = base[c]
        /\ UNCHANGED <<fetched, up, bundle, got, fd>> /\ up[Home[d]]
    BY <1>4, <1>a, Zenon DEF Refresh, Turn, Finish, Request, TypeOK
  <2>. QED  BY <1>a, <1>b, <2>1, Zenon DEF CallOK, Persisting
<1>5. ASSUME NEW d \in Calls, NEW a \in {"bundle", "failed", "crooked"}, Answer(d, a)
      PROVE  CallOK(c)'
  <2>1. Bundles \subseteq Bundles'
    BY <1>5, Monotonic, Zenon DEF Answer
  <2>2. /\ pc' = [pc EXCEPT ![d] = a] /\ pc[d] = "fetch"
        /\ UNCHANGED <<up, bundle, fd, base>>
        /\ c # d => got'[c] = got[c]
    BY <1>5, Zenon DEF Answer, TypeOK
  <2>3. CASE c # d
    BY <1>a, <2>1, <2>2, <2>3, Zenon DEF CallOK, Persisting
  <2>4. CASE c = d /\ a = "bundle"
    <3>1. /\ got'[c] = FromWire(Published[newest]) /\ got'[c] \in Bundles'
          /\ WireOutcome(Published[newest]) = "bundle"
      BY <1>5, <2>4, Zenon DEF Answer, TypeOK, Bundles
    <3>2. Published[newest].version = newest
      BY <3>1, Zenon DEF TypeOK, WireOutcome, BundleParses
    <3>3. got'[c].version = newest
      BY <3>1, <3>2 DEF FromWire
    <3>4. base[c] \in Bundles \cup {NoBundle}
      BY Zenon DEF TypeOK
    <3>5. base[c].version \in 0 .. newest
      <4>1. CASE base[c] = NoBundle
        BY <4>1 DEF NoBundle, TypeOK
      <4>2. CASE base[c] \in Bundles
        BY <4>2, BundleFacts DEF TypeOK
      <4>. QED  BY <3>4, <4>1, <4>2, Zenon
    <3>. QED  BY <1>a, <2>2, <2>4, <3>1, <3>3, <3>5 DEF CallOK, Persisting, TypeOK
  <2>5. CASE c = d /\ a # "bundle"
    BY <1>a, <2>2, <2>5, Zenon DEF CallOK, Persisting
  <2>. QED  BY <2>3, <2>4, <2>5, Zenon
<1>6. ASSUME NEW d \in Calls, PersistOpen(d) PROVE CallOK(c)'
  <2>1. /\ pc' = [pc EXCEPT ![d] = "write"] /\ pc[d] = "bundle"
        /\ bundle' = [bundle EXCEPT ![Home[d]] = got[d]]
        /\ UNCHANGED <<fetched, up, got, base>> /\ up[Home[d]]
        /\ \A e \in Calls \ {d} : Home[e] = Home[d] => pc[e] \notin Persisting
    BY <1>6, <1>a, Zenon DEF PersistOpen, Activate, Turn, Persisting
  <2>2. fd \in [Calls -> 0 .. Len(files)] /\ Len(files) \in Nat /\ tmp \in Nat
    BY DEF TypeOK
  <2>3. \E n \in {Len(files) + 1, tmp} : n # NoFile /\ fd' = [fd EXCEPT ![d] = n]
    <3>1. CASE tmp = NoFile
      <4>1. fd' = [fd EXCEPT ![d] = Len(files) + 1]
        BY <1>6, <3>1, Zenon DEF PersistOpen
      <4>2. Len(files) + 1 # NoFile
        BY <2>2 DEF NoFile
      <4>. QED  BY <4>1, <4>2, Zenon
    <3>2. CASE tmp # NoFile
      BY <1>6, <3>2, Zenon DEF PersistOpen
    <3>. QED  BY <3>1, <3>2, Zenon
  <2>4. (c # d => fd'[c] = fd[c]) /\ fd'[d] # NoFile
    BY <2>2, <2>3, Zenon
  <2>. QED  BY <1>a, <1>b, <2>1, <2>4 DEF CallOK, Persisting, TypeOK
<1>7. ASSUME NEW d \in Calls, PersistWrite(d) PROVE CallOK(c)'
  BY <1>7, <1>a, <1>b, Zenon DEF PersistWrite, CallOK, Persisting
<1>8. ASSUME NEW d \in Calls, PersistRename(d) PROVE CallOK(c)'
  BY <1>8, <1>a, <1>b, Zenon DEF PersistRename, Finish, CallOK, Persisting
<1>9. ASSUME NEW d \in Calls, PersistFails(d) PROVE CallOK(c)'
  <2>1. /\ pc' = [pc EXCEPT ![d] = "raised"]
        /\ bundle' = bundle \/ bundle' = [bundle EXCEPT ![Home[d]] = got[d]]
        /\ UNCHANGED <<fetched, up, got, base, fd>>
        /\ \A e \in Calls \ {d} : Home[e] = Home[d] => pc[e] \notin Persisting
    <3>1. pc' = [pc EXCEPT ![d] = "raised"] /\ UNCHANGED <<fetched, up, got, base, fd>>
      BY <1>9, Zenon DEF PersistFails, Finish
    <3>2. bundle' = bundle \/ bundle' = [bundle EXCEPT ![Home[d]] = got[d]]
      BY <1>9, Zenon DEF PersistFails, Activate
    <3>3. \A e \in Calls \ {d} : Home[e] = Home[d] => pc[e] \notin Persisting
      BY <1>9, Zenon DEF PersistFails, Turn, Persisting
    <3>. QED  BY <3>1, <3>2, <3>3, Zenon
  <2>. QED  BY <1>a, <1>b, <2>1 DEF CallOK, Persisting, TypeOK
<1>10. ASSUME NEW d \in Calls, FetchFailed(d) PROVE CallOK(c)'
  BY <1>10, <1>a, <1>b, Zenon DEF FetchFailed, Finish, CallOK, Persisting
<1>11. ASSUME NEW d \in Calls, FetchCrooked(d) PROVE CallOK(c)'
  BY <1>11, <1>a, <1>b, Zenon DEF FetchCrooked, Finish, CallOK, Persisting
<1>12. CASE Publish \/ Tick \/ UNCHANGED vars
  BY <1>12, <1>a, <1>b, Zenon DEF Publish, Tick, vars, CallOK
<1>. QED
  BY <1>1, <1>2, <1>3, <1>4, <1>5, <1>6, <1>7, <1>8, <1>9, <1>10, <1>11, <1>12, Zenon DEF Next

-----------------------------------------------------------------------------
(* Any number of processes *)

(* Every variable stays in its type: what a process has, what a file holds *)
(* and what a call carries are bundles that the control plane delivered.   *)
THEOREM TypeCorrect == Spec => [](TypeOK /\ CallInv)
<1>1. Init => TypeOK /\ CallInv
  BY TypeInit, CallInit, Zenon
<1>2. TypeOK /\ CallInv /\ [Next]_vars => (TypeOK /\ CallInv)'
  BY TypeNext, CallNext, Zenon
<1>. QED  BY <1>1, <1>2, PTL DEF Spec

(* However many processes share the persisted file, and whatever the       *)
(* order of fetches, activations, crashes and restarts, evaluate() allows  *)
(* a tool call of a configured process only by a delivered bundle that is  *)
(* in force and whose published rules allow it.                            *)
THEOREM OnlyByBundle == Spec => []AllowedByBundle
<1>1. TypeOK => AllowedByBundle
  <2>. SUFFICES ASSUME TypeOK, NEW p \in Procs, NEW q \in Asked,
                       up[p], ~LocalOnly(p), Evaluate(p, q) = "allow"
       PROVE  /\ bundle[p].version \in fetched /\ ~Expired(bundle[p])
              /\ Decide(FromWire(Published[bundle[p].version]), q) = "allow"
    BY Zenon DEF AllowedByBundle
  <2>1. bundle[p] # NoBundle /\ ~Expired(bundle[p]) /\ Decide(bundle[p], q) = "allow"
    BY Zenon DEF Evaluate
  <2>2. bundle[p] \in Bundles
    BY <2>1, Zenon DEF TypeOK
  <2>. QED  BY <2>1, <2>2, BundleFacts, Zenon DEF TypeOK
<1>. QED  BY <1>1, TypeCorrect, PTL

(* Every file the processes have written, whole, reads back: from_wire     *)
(* accepts it, it neither raises nor fails, and gives a bundle that the    *)
(* control plane delivered.  So a start without the control plane fails to *)
(* find a bundle only where there is no file, or half of one.              *)
FilesReadBack ==
    \A i \in DOMAIN files : files[i] # Half =>
        WireOutcome(files[i]) = "bundle" /\ FromWire(files[i]) \in Bundles

(* What _persist_bundle has written whole, _load_bundle_from_disk reads.   *)
THEOREM DiskReadsBack == Spec => []FilesReadBack
<1>1. TypeOK => FilesReadBack
  <2>. SUFFICES ASSUME TypeOK, NEW i \in DOMAIN files, files[i] # Half
       PROVE  WireOutcome(files[i]) = "bundle" /\ FromWire(files[i]) \in Bundles
    BY Zenon DEF FilesReadBack
  <2>1. files[i] \in Persisted \cup {Half}
    BY DEF TypeOK
  <2>2. PICK v \in fetched : files[i] = ToDict(FromWire(Published[v]))
    BY <2>1, Zenon DEF Persisted, Bundles
  <2>3. WireOutcome(Published[v]) = "bundle"
    BY Zenon DEF TypeOK, Versions
  <2>4. FromWire(Published[v]) \in Bundles
    BY Zenon DEF Bundles
  <2>. QED  BY <2>2, <2>3, <2>4, ParsesAgain, RoundTrip, Zenon
<1>. QED  BY <1>1, TypeCorrect, PTL

(* No step of a live process takes its bundle away or reopens the          *)
(* deny-everything gate.                                                   *)
THEOREM KeepsBundle == Spec => StaysLoaded
<1>1. TypeOK /\ CallInv /\ [Next]_vars =>
        [\A p \in Procs : up[p] /\ up'[p] /\ loaded[p] =>
            loaded'[p] /\ (bundle[p] # NoBundle => bundle'[p] # NoBundle)]_vars
  <2>. SUFFICES ASSUME TypeOK, CallInv, Next, NEW p \in Procs,
                       up[p], up'[p], loaded[p]
       PROVE  loaded'[p] /\ (bundle[p] # NoBundle => bundle'[p] # NoBundle)
    BY Zenon
  <2>. USE BundleAssumption DEF plane, process, state, disk, call
  <2>1. ASSUME NEW r \in Procs, NEW k \in Credentials, Construct(r, k)
        PROVE  bundle'[p] = bundle[p] /\ loaded'[p] = loaded[p]
    BY <2>1, Zenon DEF Construct, TypeOK
  <2>2. ASSUME NEW c \in Calls, Start(c)
        PROVE  loaded'[p] /\ (bundle[p] # NoBundle => bundle'[p] # NoBundle)
    BY <2>2, ZenonT(30) DEF Start, TypeOK
  <2>3. ASSUME NEW c \in Calls, PersistOpen(c) \/ PersistFails(c)
        PROVE  loaded'[p] /\ (bundle[p] # NoBundle => bundle'[p] # NoBundle)
    <3>1. pc[c] = "bundle" => got[c] # NoBundle
      BY BundleFacts, ZenonT(30) DEF CallInv, CallOK, TypeOK
    <3>. QED  BY <2>3, <3>1 DEF PersistOpen, PersistFails, Activate, TypeOK
  <2>4. ASSUME NEW c \in Calls, FetchFailed(c)
        PROVE  loaded'[p] /\ bundle' = bundle
    BY <2>4, ZenonT(30) DEF FetchFailed, TypeOK
  <2>5. ASSUME NEW c \in Calls,
               \/ Refresh(c) \/ PersistWrite(c) \/ PersistRename(c) \/ FetchCrooked(c)
               \/ \E a \in {"bundle", "failed", "crooked"} : Answer(c, a)
        PROVE  UNCHANGED state
    BY <2>5, ZenonT(30) DEF Refresh, PersistWrite, PersistRename, FetchCrooked, Answer
  <2>6. ASSUME Publish \/ Tick \/ \E r \in Procs : Crash(r)
        PROVE  UNCHANGED state
    BY <2>6, Zenon DEF Publish, Tick, Crash
  <2>. QED  BY <2>1, <2>2, <2>3, <2>4, <2>5, <2>6, ZenonT(30) DEF Next
<1>. QED  BY <1>1, TypeCorrect, PTL DEF Spec, StaysLoaded

-----------------------------------------------------------------------------
(* One process *)

LEMMA FileInit == Init => FileInv
BY BundleAssumption, Zenon DEF Init, FileInv, WriteOK, SavedOK, Persisting

(* A step that leaves the disk and what calls write alone, and after which *)
(* the process has what it had, or what the file holds, or does not run.   *)
LEMMA FileAlone ==
    ASSUME OneProcess, TypeOK, FileInv, NEW d \in Calls, UNCHANGED disk,
           pc' = [pc EXCEPT ![d] = pc'[d]], pc'[d] \notin Persisting,
           UNCHANGED fd, \A c \in Calls \ {d} : got'[c] = got[c],
           \/ UNCHANGED <<up, state, unsaved>> /\ pc[d] \notin Persisting
           \/ unsaved'[Home[d]]
    PROVE  FileInv'
<1>. USE BundleAssumption DEF disk, state
<1>1. (path # NoFile => files[path] # Half /\ tmp # path)'
  BY Zenon DEF FileInv
<1>2. ASSUME NEW c \in Calls PROVE WriteOK(c)'
  BY <1>2 DEF FileInv, WriteOK, Persisting, TypeOK
<1>3. ASSUME NEW p \in Procs PROVE SavedOK(p)'
  <2>1. p = Home[d] /\ SavedOK(p) /\ Cached' = Cached
    BY <1>3, Zenon DEF OneProcess, FileInv, Cached
  <2>. QED  BY <2>1, ZenonT(30) DEF SavedOK, TypeOK
<1>. QED  BY <1>1, <1>2, <1>3, Zenon DEF FileInv

LEMMA FileNext == OneProcess /\ TypeOK /\ CallInv /\ FileInv /\ [Next]_vars => FileInv'
<1>. SUFFICES ASSUME OneProcess, TypeOK, CallInv, FileInv, [Next]_vars PROVE FileInv'
  BY Zenon
<1>. USE BundleAssumption DEF plane, process, state, disk, call
<1>1. ASSUME NEW p \in Procs, Crash(p) PROVE FileInv'
  <2>1. \A r \in Procs : ~up'[r]
    BY <1>1, Zenon DEF Crash, OneProcess, TypeOK
  <2>2. \A c \in Calls : pc'[c] \in Persisting => pc'[c] = pc[c]
    BY <1>1, Zenon DEF Crash, Persisting
  <2>3. UNCHANGED <<files, path, tmp, fd, got>>
    BY <1>1, Zenon DEF Crash
  <2>. QED  BY <2>1, <2>2, <2>3, Zenon DEF FileInv, WriteOK, SavedOK, Persisting
<1>2. ASSUME NEW p \in Procs, NEW k \in Credentials, Construct(p, k) PROVE FileInv'
  <2>1. \A r \in Procs : bundle'[r] = NoBundle
    BY <1>2, Zenon DEF Construct, OneProcess, TypeOK
  <2>2. UNCHANGED <<files, path, tmp, fd, got, pc>>
    BY <1>2, Zenon DEF Construct
  <2>. QED  BY <2>1, <2>2, Zenon DEF FileInv, WriteOK, SavedOK
<1>3. ASSUME NEW d \in Calls, Start(d) PROVE FileInv'
  <2>1. /\ UNCHANGED <<files, path, tmp, fd, got, up, unsaved>>
        /\ \A c \in Calls : pc'[c] \in Persisting => pc'[c] = pc[c]
        /\ \A c \in Calls : pc[c] \notin Persisting
    <3>1. UNCHANGED <<files, path, tmp, fd, got, up, unsaved>>
      BY <1>3, Zenon DEF Start
    <3>2. \A c \in Calls : pc[c] \notin Persisting
      BY <1>3 DEF Start, Turn, OneProcess, Persisting
    <3>3. pc' = [pc EXCEPT ![d] = "done"] \/ pc' = [pc EXCEPT ![d] = "fetch"]
      BY <1>3, Zenon DEF Start, Finish, Request
    <3>4. \A c \in Calls : pc'[c] \in Persisting => pc'[c] = pc[c]
      BY <3>3, Zenon DEF Persisting, TypeOK
    <3>. QED  BY <3>1, <3>2, <3>4, Zenon
  <2>2. bundle' = bundle \/ bundle'[Home[d]] = Cached
    BY <1>3, ZenonT(30) DEF Start, TypeOK
  <2>3. ASSUME NEW p \in Procs PROVE SavedOK(p)'
    <3>1. p = Home[d] /\ SavedOK(p) /\ Cached' = Cached
      BY <2>1, <2>3, Zenon DEF OneProcess, FileInv, Cached
    <3>. QED  BY <2>1, <2>2, <3>1, ZenonT(30) DEF SavedOK
  <2>. QED  BY <2>1, <2>3, Zenon DEF FileInv, WriteOK, Persisting
<1>4. ASSUME NEW d \in Calls, Refresh(d) PROVE FileInv'
  <2>1. /\ pc' = [pc EXCEPT ![d] = pc'[d]] /\ pc'[d] \notin Persisting
        /\ pc[d] \notin Persisting /\ UNCHANGED <<up, state, unsaved, disk, fd, got>>
    BY <1>4, ZenonT(30) DEF Refresh, Finish, Request, TypeOK, Persisting
  <2>. QED  BY <2>1, FileAlone, Zenon
<1>5. ASSUME NEW d \in Calls, NEW a \in {"bundle", "failed", "crooked"}, Answer(d, a)
      PROVE  FileInv'
  <2>1. /\ pc' = [pc EXCEPT ![d] = pc'[d]] /\ pc'[d] \notin Persisting
        /\ pc[d] \notin Persisting /\ UNCHANGED <<up, state, unsaved, disk, fd>>
        /\ \A c \in Calls \ {d} : got'[c] = got[c]
    BY <1>5, Zenon DEF Answer, TypeOK, Persisting
  <2>. QED  BY <2>1, FileAlone, Zenon
<1>6. ASSUME NEW d \in Calls, PersistOpen(d) PROVE FileInv'
  <2>1. /\ \A c \in Calls : pc[c] \notin Persisting
        /\ pc' = [pc EXCEPT ![d] = "write"] /\ UNCHANGED path
    BY <1>6 DEF PersistOpen, Turn, OneProcess, Persisting
  <2>2. \A p \in Procs : SavedOK(p)'
    BY <2>1 DEF SavedOK, OneProcess, Persisting, TypeOK
  <2>3. \A c \in Calls : pc'[c] \in Persisting => c = d /\ pc'[c] = "write"
    BY <2>1, ZenonT(30) DEF TypeOK
  <2>4. fd'[d] = tmp'
    BY <1>6, Zenon DEF PersistOpen, TypeOK
  <2>5. \A c \in Calls : WriteOK(c)'
    BY <2>3, <2>4, Zenon DEF WriteOK, Persisting
  <2>6. (path # NoFile => files[path] # Half /\ tmp # path)'
    <3>. SUFFICES ASSUME path # NoFile PROVE files'[path] # Half /\ tmp' # path
      BY <2>1, Zenon
    <3>1. path \in 1 .. Len(files) /\ Len(files) \in Nat /\ files[path] # Half
          /\ tmp # path /\ tmp \in 0 .. Len(files)
      BY DEF TypeOK, FileInv, NoFile
    <3>2. CASE tmp = NoFile
      <4>1. files' = Append(files, Half) /\ tmp' = Len(files) + 1
        BY <1>6, <3>2, Zenon DEF PersistOpen
      <4>. QED  BY <3>1, <4>1 DEF TypeOK
    <3>3. CASE tmp # NoFile
      <4>1. files' = [files EXCEPT ![tmp] = Half] /\ tmp' = tmp
        BY <1>6, <3>3, Zenon DEF PersistOpen
      <4>. QED  BY <3>1, <4>1 DEF TypeOK
    <3>. QED  BY <3>2, <3>3, Zenon
  <2>. QED  BY <2>2, <2>5, <2>6, Zenon DEF FileInv
<1>7. ASSUME NEW d \in Calls, PersistWrite(d) PROVE FileInv'
  <2>1. /\ pc[d] = "write" /\ pc' = [pc EXCEPT ![d] = "rename"]
        /\ UNCHANGED <<path, tmp, got, fd>>
        /\ \A c \in Calls \ {d} : pc[c] \notin Persisting
    BY <1>7 DEF PersistWrite, Turn, OneProcess, Persisting
  <2>2. fd[d] = tmp /\ fd[d] # NoFile /\ tmp \in 1 .. Len(files)
    <3>1. WriteOK(d) /\ CallOK(d)
      BY Zenon DEF FileInv, CallInv
    <3>2. fd[d] = tmp /\ fd[d] # NoFile
      BY <2>1, <3>1, Zenon DEF WriteOK, CallOK, Persisting
    <3>3. tmp \in 0 .. Len(files) /\ Len(files) \in Nat
      BY DEF TypeOK
    <3>. QED  BY <3>2, <3>3 DEF NoFile
  <2>3. files' = [files EXCEPT ![tmp] = ToDict(got[d])]
    BY <1>7, <2>2, Zenon DEF PersistWrite
  <2>4. /\ files'[tmp] = ToDict(got[d])
        /\ path # NoFile /\ path # tmp => files'[path] = files[path]
    <3>1. files \in Seq(Persisted \cup {Half}) /\ path \in 0 .. Len(files)
      BY Zenon DEF TypeOK
    <3>2. tmp \in DOMAIN files /\ (path # NoFile => path \in DOMAIN files)
      BY <2>2, <3>1 DEF NoFile
    <3>. QED  BY <2>3, <3>2, Zenon
  <2>5. \A p \in Procs : SavedOK(p)'
    BY <2>1, ZenonT(30) DEF SavedOK, OneProcess, Persisting, TypeOK
  <2>6. \A c \in Calls : WriteOK(c)'
    BY <2>1, <2>2, <2>4, ZenonT(30) DEF WriteOK, Persisting, TypeOK
  <2>. QED  BY <2>1, <2>4, <2>5, <2>6, Zenon DEF FileInv
<1>8. ASSUME NEW d \in Calls, PersistRename(d) PROVE FileInv'
  <2>1. /\ pc[d] = "rename" /\ pc' = [pc EXCEPT ![d] = "done"]
        /\ UNCHANGED <<files, got, fd, bundle>> /\ tmp # NoFile
        /\ path' = tmp /\ tmp' = NoFile
        /\ \A c \in Calls \ {d} : pc[c] \notin Persisting
    BY <1>8 DEF PersistRename, Finish, Turn, OneProcess, Persisting
  <2>2. /\ files[tmp] = ToDict(got[d]) /\ bundle[Home[d]] = got[d]
        /\ got[d] \in Bundles
    BY <2>1, Zenon DEF FileInv, WriteOK, CallInv, CallOK, Persisting
  <2>3. ToDict(got[d]) # Half /\ FromWire(ToDict(got[d])) = got[d]
    BY <2>2, BundleFacts, ZenonT(30) DEF TypeOK
  <2>4. Cached' = got[d]
    BY <2>1, <2>2, <2>3, Zenon DEF Cached
  <2>5. \A p \in Procs : SavedOK(p)'
    BY <2>1, <2>2, <2>4, ZenonT(30) DEF SavedOK, OneProcess
  <2>6. \A c \in Calls : WriteOK(c)'
    BY <2>1, ZenonT(30) DEF WriteOK, Persisting, TypeOK
  <2>. QED  BY <2>1, <2>2, <2>3, <2>5, <2>6, ZenonT(30) DEF FileInv
<1>9. ASSUME NEW d \in Calls, PersistFails(d) PROVE FileInv'
  <2>1. /\ pc' = [pc EXCEPT ![d] = pc'[d]] /\ pc'[d] \notin Persisting
        /\ unsaved'[Home[d]] /\ UNCHANGED <<disk, fd, got>>
    BY <1>9, ZenonT(30) DEF PersistFails, Finish, TypeOK, Persisting
  <2>. QED  BY <2>1, FileAlone, ZenonT(30)
<1>10. ASSUME NEW d \in Calls, FetchFailed(d) PROVE FileInv'
  <2>1. /\ pc' = [pc EXCEPT ![d] = "done"] /\ pc[d] = "failed"
        /\ UNCHANGED <<up, bundle, unsaved, files, path, tmp, fd, got>>
    BY <1>10, ZenonT(30) DEF FetchFailed, Finish
  <2>2. \A c \in Calls : /\ pc'[c] \in Persisting => pc'[c] = pc[c]
                         /\ pc[c] \in Persisting => pc'[c] = pc[c]
    BY <2>1, ZenonT(30) DEF TypeOK, Persisting
  <2>3. Cached' = Cached
    BY <2>1, Zenon DEF Cached
  <2>. QED  BY <2>1, <2>2, <2>3, Zenon DEF FileInv, WriteOK, SavedOK, Persisting
<1>11. ASSUME NEW d \in Calls, FetchCrooked(d) PROVE FileInv'
  <2>1. /\ pc' = [pc EXCEPT ![d] = pc'[d]] /\ pc'[d] \notin Persisting
        /\ pc[d] \notin Persisting /\ UNCHANGED <<up, state, unsaved, disk, fd, got>>
    BY <1>11, Zenon DEF FetchCrooked, Finish, TypeOK, Persisting
  <2>. QED  BY <2>1, FileAlone
<1>12. CASE Publish \/ Tick \/ UNCHANGED vars
  <2>1. UNCHANGED <<up, bundle, unsaved, files, path, tmp, fd, got, pc>>
    BY <1>12, ZenonT(30) DEF Publish, Tick, vars
  <2>2. Cached' = Cached
    BY <2>1, Zenon DEF Cached
  <2>. QED  BY <2>1, <2>2, ZenonT(30) DEF FileInv, WriteOK, SavedOK
<1>. QED
  BY <1>1, <1>2, <1>3, <1>4, <1>5, <1>6, <1>7, <1>8, <1>9, <1>10, <1>11, <1>12, Zenon DEF Next

LEMMA FileInductive == ASSUME OneProcess PROVE Spec => []FileInv
<1>1. Init => FileInv
  BY FileInit, Zenon
<1>2. TypeOK /\ CallInv /\ FileInv /\ [Next]_vars => FileInv'
  BY FileNext, Zenon
<1>. QED  BY <1>1, <1>2, TypeCorrect, PTL DEF Spec

(* When one process has the persist path to itself, the file a start reads *)
(* is whole, wherever the process was killed.                              *)
THEOREM AlwaysWhole == ASSUME OneProcess PROVE Spec => []PathIsWhole
<1>1. FileInv => PathIsWhole
  BY Zenon DEF FileInv, PathIsWhole
<1>. QED  BY <1>1, FileInductive, PTL

(* And the persisted bundle is then the active one between calls, in what  *)
(* from_wire makes of it, unless persisting it failed.                     *)
THEOREM SavedWhatIsActive == ASSUME OneProcess PROVE Spec => []SavedIsActive
<1>1. FileInv => SavedIsActive
  BY Zenon DEF FileInv, SavedOK, SavedIsActive, Persisting
<1>. QED  BY <1>1, FileInductive, PTL

(* A start() of the process that has the path to itself finds the active   *)
(* bundle in the file, or the last activation was not persisted.           *)
LEMMA StartFinds ==
    ASSUME OneProcess, TypeOK, FileInv, NEW c \in Calls, Start(c),
           ~unsaved[Home[c]], bundle[Home[c]] # NoBundle
    PROVE  bundle' = bundle
<1>. DEFINE p == Home[c]
<1>1. p \in Procs /\ up[p] /\ bundle \in [Procs -> Bundles \cup {NoBundle}]
  BY BundleAssumption, Zenon DEF Start, Turn, TypeOK
<1>2. \A d \in Calls : Home[d] = p => pc[d] \notin Persisting
  BY Zenon DEF Start, Turn, Persisting
<1>3. Cached = bundle[p]
  BY <1>1, <1>2, Zenon DEF FileInv, SavedOK
<1>4. bundle' = bundle \/ bundle' = [bundle EXCEPT ![p] = bundle[p]]
  BY <1>3, Zenon DEF Start
<1>. QED  BY <1>1, <1>4, Zenon

(* However many processes, calls and versions there are, and whatever      *)
(* fails, a process goes back to an older bundle only by a file that was   *)
(* not saved, or by an answer that another call has overtaken.             *)
THEOREM NeverOlder == Spec => SetBackIsStale
<1>. DEFINE Older(p) == up[p] /\ up'[p] /\ bundle'[p].version < bundle[p].version
            Stale(p) == \E c \in Calls : Home[c] = p /\ (ReadsStaleFile(c) \/ IsOvertaken(c))
            Held == OneProcess => FileInv
<1>1. TypeOK /\ CallInv /\ Held /\ [Next]_vars => [\A p \in Procs : Older(p) => Stale(p)]_vars
  <2>. SUFFICES ASSUME TypeOK, CallInv, Held, Next, NEW p \in Procs, Older(p)
       PROVE  Stale(p)
    BY Zenon
  <2>. USE BundleAssumption DEF plane, process, state, disk, call
  <2>0. /\ bundle \in [Procs -> Bundles \cup {NoBundle}] /\ Home \in [Calls -> Procs]
        /\ pc \in [Calls -> {"idle", "fetch", "bundle", "failed", "crooked",
                             "write", "rename", "done", "raised"}]
        /\ op \in [Calls -> {"start", "refresh"}]
    BY Zenon DEF TypeOK
  <2>t. /\ \A b \in Bundles \cup {NoBundle} : b.version \in Nat
        /\ NoBundle.version = 0
    <3>1. \A b \in Bundles : b.version \in Nat
      BY BundleFacts DEF TypeOK
    <3>. QED  BY <3>1 DEF NoBundle
  <2>v. bundle[p] \in Bundles \cup {NoBundle} /\ bundle[p].version \in Nat
    BY <2>0, <2>t, Zenon
  <2>d. bundle' # bundle
    BY <2>v
  <2>1. ASSUME NEW r \in Procs, NEW k \in Credentials, Construct(r, k) PROVE FALSE
    <3>1. r # p
      BY <2>1, Zenon DEF Construct
    <3>2. bundle'[p] = bundle[p]
      BY <2>0, <2>1, <3>1, Zenon DEF Construct
    <3>. QED  BY <2>v, <3>2
  <2>2. ASSUME NEW c \in Calls, Start(c) PROVE Stale(p)
    <3>1. /\ pc[c] = "idle" /\ bundle' = [bundle EXCEPT ![Home[c]] = bundle'[Home[c]]]
          /\ bundle' # bundle => pc'[c] = "fetch" /\ op'[c] = "start"
      BY <2>0, <2>2, Zenon DEF Start, Request
    <3>2. Home[c] = p
      <4>1. Home[c] # p => bundle'[p] = bundle[p]
        BY <2>0, <3>1, Zenon
      <4>. QED  BY <2>v, <4>1
    <3>3. bundle[p] # NoBundle
      <4>1. bundle[p] = NoBundle => bundle'[p].version \in Nat
        <5>1. Cached \in Bundles \cup {NoBundle}
          BY CachedIsDelivered, Zenon
        <5>2. bundle' = bundle \/ bundle' = [bundle EXCEPT ![p] = IF Cached = NoBundle THEN @ ELSE Cached]
          BY <2>2, <3>2, Zenon DEF Start
        <5>3. bundle'[p] \in Bundles \cup {NoBundle}
          BY <2>0, <2>v, <5>1, <5>2, Zenon
        <5>. QED  BY <2>t, <5>3, Zenon
      <4>. QED  BY <2>t, <4>1
    <3>4. unsaved[p] \/ ~OneProcess
      BY <2>2, <2>d, <3>2, <3>3, StartFinds, Zenon
    <3>. QED  BY <2>d, <3>1, <3>2, <3>4, Zenon DEF ReadsStaleFile
  <2>3. ASSUME NEW c \in Calls, PersistOpen(c) \/ PersistFails(c) PROVE Stale(p)
    <3>1. /\ pc[c] = "bundle" /\ pc'[c] \in {"write", "raised"}
          /\ bundle' = [bundle EXCEPT ![Home[c]] = got[c]]
      <4>1. CASE PersistOpen(c)
        BY <2>0, <4>1, Zenon DEF PersistOpen, Activate
      <4>2. CASE PersistFails(c)
        <5>1. pc[c] = "bundle"
          BY <2>d, <4>2, Zenon DEF PersistFails
        <5>. QED  BY <2>0, <4>2, <5>1, Zenon DEF PersistFails, Activate, Finish
      <4>. QED  BY <2>3, <4>1, <4>2, Zenon
    <3>2. Home[c] = p
      <4>1. Home[c] # p => bundle'[p] = bundle[p]
        BY <2>0, <3>1, Zenon
      <4>. QED  BY <2>v, <4>1
    <3>3. bundle'[p] = got[c]
      BY <2>0, <3>1, <3>2, Zenon
    <3>4. got[c] \in Bundles /\ got[c].version >= base[c].version
      BY <3>1, Zenon DEF CallInv, CallOK
    <3>5. base[c] \in Bundles \cup {NoBundle}
      BY Zenon DEF TypeOK
    <3>6. base[c].version \in Nat /\ got[c].version \in Nat
      BY <2>t, <3>4, <3>5, Zenon
    <3>7. got[c].version < bundle[p].version
      BY <3>3, Zenon
    <3>8. base[c].version <= got[c].version /\ base[c].version < bundle[p].version
      BY <2>v, <3>4, <3>6, <3>7
    <3>. QED  BY <3>1, <3>2, <3>8, Zenon DEF IsOvertaken
  <2>4. ASSUME NEW c \in Calls,
               \/ Refresh(c) \/ PersistWrite(c) \/ PersistRename(c) \/ FetchCrooked(c)
               \/ FetchFailed(c) \/ \E a \in {"bundle", "failed", "crooked"} : Answer(c, a)
        PROVE  FALSE
    BY <2>d, <2>4, Zenon DEF Refresh, PersistWrite, PersistRename, FetchCrooked, FetchFailed, Answer
  <2>5. ASSUME Publish \/ Tick \/ \E r \in Procs : Crash(r) PROVE FALSE
    BY <2>d, <2>5, Zenon DEF Publish, Tick, Crash
  <2>. HIDE DEF Stale
  <2>. QED  BY <2>1, <2>2, <2>3, <2>4, <2>5, Zenon DEF Next
<1>2. Spec => []Held
  <2>1. CASE OneProcess
    BY <2>1, FileInductive, PTL
  <2>2. CASE ~OneProcess
    <3>1. Held
      BY <2>2, Zenon
    <3>. QED  BY <3>1, PTL
  <2>. QED  BY <2>1, <2>2, Zenon
<1>. HIDE DEF Held
<1>3. Spec => [][\A p \in Procs : Older(p) => Stale(p)]_vars
  BY <1>1, <1>2, TypeCorrect, PTL DEF Spec
<1>. QED  BY <1>3, Zenon DEF SetBackIsStale

=============================================================================
