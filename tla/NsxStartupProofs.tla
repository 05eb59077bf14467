-------------------------- MODULE NsxStartupProofs --------------------------
(***************************************************************************)
(* Proofs about NsxStartup and the debug transport it drives.  First the   *)
(* plans: whatever the request, its steps are in the documented order and  *)
(* a full baseline directly follows a release.  Then the invariant: the    *)
(* debug transport never has more than one link in use, at most one        *)
(* caller's startup is under way, and the steps so far are a prefix of its *)
(* plan.                                                                   *)
(***************************************************************************)
EXTENDS NsxStartup, SequenceTheorems, TLAPS

StepName ==
  {"core", "release", "hw", "minimalHw", "power", "cache", "debug", "perf", "spot"}

(* The steps of s are in the documented order, below rank k, and a full    *)
(* baseline directly follows a release.                                    *)
WellOrdered(s, k) ==
  /\ s \in Seq(StepName)
  /\ \A i, j \in 1..Len(s) : i < j => Rank[s[i]] < Rank[s[j]]
  /\ \A i \in 1..Len(s) : Rank[s[i]] < k
  /\ \A i \in 1..Len(s) :
       s[i] \in {"hw", "power"} => i > 1 /\ s[i - 1] = "release"

Contains(s, x) == \E i \in 1..Len(s) : s[i] = x

(***************************************************************************)
(* The plans.                                                              *)
(***************************************************************************)
LEMMA RankType == \A x \in StepName : Rank[x] \in 1..7
  BY DEF Rank, StepName

LEMMA OneMore ==
  ASSUME NEW s, NEW k \in Nat, WellOrdered(s, k),
         NEW x \in StepName \ {"hw", "power"}, k <= Rank[x],
         NEW flag \in BOOLEAN
  PROVE  WellOrdered(s \o If(flag, <<x>>), Rank[x] + 1)
<1>0. /\ s \in Seq(StepName) /\ Len(s) \in Nat /\ Rank[x] \in 1..7
      /\ \A y \in StepName : Rank[y] \in 1..7
      /\ \A i \in 1..Len(s) : s[i] \in StepName
  BY RankType, LenProperties, ElementOfSeq DEF WellOrdered
<1>k. k \in Int /\ Rank[x] \in Int /\ k <= Rank[x]
  BY <1>0
<1>1. CASE flag
  <2> DEFINE t == Append(s, x)
  <2>1. s \o If(flag, <<x>>) = t
    BY <1>0, <1>1, AppendIsConcat DEF If
  <2>2. /\ t \in Seq(StepName) /\ Len(t) = Len(s) + 1
        /\ \A i \in 1..Len(s) : t[i] = s[i]
        /\ t[Len(s) + 1] = x
    BY <1>0, AppendProperties
  <2> HIDE DEF t
  <2>3. ASSUME NEW i \in 1..Len(t)
        PROVE  \/ i \in 1..Len(s) /\ t[i] = s[i] /\ Rank[s[i]] < k
               \/ i = Len(s) + 1 /\ t[i] = x
    BY <1>0, <2>2, <2>3 DEF WellOrdered
  <2>4. ASSUME NEW i \in 1..Len(t), NEW j \in 1..Len(t), i < j
        PROVE  Rank[t[i]] < Rank[t[j]]
    <3>1. i \in 1..Len(s) /\ t[i] = s[i] /\ Rank[s[i]] < k /\ Rank[s[i]] \in Int
      <4>1. i \in 1..Len(s)
        BY <2>4, <2>2, <1>0
      <4> QED BY <4>1, <1>0, <2>2 DEF WellOrdered
    <3>2. CASE j \in 1..Len(s)
      BY <3>1, <3>2, <2>2, <2>4 DEF WellOrdered
    <3>3. CASE t[j] = x
      BY <3>1, <3>3, <1>k
    <3> QED BY <2>3, <3>2, <3>3
  <2>5. ASSUME NEW i \in 1..Len(t)
        PROVE  Rank[t[i]] < Rank[x] + 1
    <3>1. CASE t[i] = x
      BY <3>1, <1>0
    <3>2. CASE i \in 1..Len(s) /\ t[i] = s[i] /\ Rank[s[i]] < k
      <4>1. Rank[s[i]] \in Int
        BY <3>2, <1>0
      <4> QED BY <3>2, <4>1, <1>k
    <3> QED BY <2>3, <3>1, <3>2
  <2>6. ASSUME NEW i \in 1..Len(t), t[i] \in {"hw", "power"}
        PROVE  i > 1 /\ t[i - 1] = "release"
    <3>1. i \in 1..Len(s) /\ s[i] \in {"hw", "power"}
      BY <2>3, <2>6
    <3>2. i > 1 /\ s[i - 1] = "release"
      BY <3>1 DEF WellOrdered
    <3>3. i - 1 \in 1..Len(s)
      BY <3>1, <3>2, <1>0
    <3> QED BY <3>2, <3>3, <2>2
  <2>7. WellOrdered(t, Rank[x] + 1)
    BY <2>2, <2>4, <2>5, <2>6 DEF WellOrdered
  <2> QED BY <2>1, <2>7
<1>2. CASE ~flag
  <2>1. s \o If(flag, <<x>>) = s
    BY <1>0, <1>2, ConcatEmptySeq DEF If
  <2>2. ASSUME NEW i \in 1..Len(s) PROVE Rank[s[i]] < Rank[x] + 1
    <3>1. Rank[s[i]] \in Int /\ Rank[s[i]] < k
      BY <1>0 DEF WellOrdered
    <3> QED BY <3>1, <1>0
  <2>3. WellOrdered(s, Rank[x] + 1)
    BY <2>2 DEF WellOrdered
  <2> QED BY <2>1, <2>3
<1> QED BY <1>1, <1>2

LEMMA KeepsWhatItHas ==
  ASSUME NEW s \in Seq(StepName), NEW t \in Seq(StepName), NEW x,
         Contains(s, x) \/ Contains(t, x)
  PROVE  Contains(s \o t, x)
<1>0. /\ Len(s \o t) = Len(s) + Len(t) /\ Len(s) \in Nat /\ Len(t) \in Nat
      /\ \A i \in 1..Len(s) : (s \o t)[i] = s[i]
      /\ \A i \in 1..Len(t) : (s \o t)[Len(s) + i] = t[i]
  <2>1. /\ Len(s \o t) = Len(s) + Len(t) /\ Len(s) \in Nat /\ Len(t) \in Nat
        /\ \A i \in 1..(Len(s) + Len(t)) :
             (s \o t)[i] = IF i <= Len(s) THEN s[i] ELSE t[i - Len(s)]
    BY ConcatProperties, LenProperties
  <2>2. ASSUME NEW i \in 1..Len(t) PROVE (s \o t)[Len(s) + i] = t[i]
    <3>1. /\ Len(s) + i \in 1..(Len(s) + Len(t)) /\ ~(Len(s) + i <= Len(s))
          /\ (Len(s) + i) - Len(s) = i
      BY <2>1
    <3> QED BY <3>1, <2>1
  <2> QED BY <2>1, <2>2
<1>1. CASE Contains(s, x)
  BY <1>0, <1>1 DEF Contains
<1>2. CASE Contains(t, x)
  <2>1. PICK i \in 1..Len(t) : t[i] = x
    BY <1>2 DEF Contains
  <2>2. Len(s) + i \in 1..Len(s \o t) /\ (s \o t)[Len(s) + i] = x
    BY <1>0, <2>1
  <2> QED BY <2>2 DEF Contains
<1> QED BY <1>1, <1>2

LEMMA Flagged ==
  ASSUME NEW x \in StepName, NEW flag \in BOOLEAN
  PROVE  If(flag, <<x>>) \in Seq(StepName) /\ (flag => Contains(If(flag, <<x>>), x))
  BY DEF If, Contains

(* What a request of the whole system has to contain.                      *)
Complete(r) ==
  /\ Contains(Plan(r), "hw") \/ Contains(Plan(r), "minimalHw")
                             \/ Contains(Plan(r), "power")
  /\ r.kind = "system" =>
       /\ r.cache => Contains(Plan(r), "cache")
       /\ r.transport # None => Contains(Plan(r), "debug")
       /\ Contains(Plan(r), "perf")

LEMMA PlanOfSystem ==
  ASSUME NEW r \in Requests, r.kind = "system"
  PROVE  WellOrdered(Plan(r), 8) /\ Complete(r)
<1> DEFINE s0 == <<"core">> \o (IF r.skip THEN <<"minimalHw">> ELSE <<"release", "hw">>)
           s1 == s0 \o If(r.cache, <<"cache">>)
           s2 == s1 \o If(r.transport # None, <<"debug">>)
           s3 == s2 \o <<"perf">>
           s4 == s3 \o If(r.spot, <<"spot">>)
<1>0. r.skip \in BOOLEAN /\ r.cache \in BOOLEAN /\ r.spot \in BOOLEAN
  BY DEF Requests
<1>2. WellOrdered(s0, 4) /\ (Contains(s0, "hw") \/ Contains(s0, "minimalHw"))
  <2> DEFINE first == <<"core">>
             rest == IF r.skip THEN <<"minimalHw">> ELSE <<"release", "hw">>
  <2>1. first \in Seq(StepName) /\ Len(first) = 1 /\ first[1] = "core"
    BY DEF StepName
  <2>2. CASE r.skip
    <3>1. rest \in Seq(StepName) /\ Len(rest) = 1 /\ rest[1] = "minimalHw"
      BY <2>2 DEF StepName
    <3> HIDE DEF first, rest
    <3>2. s0 = first \o rest
      BY DEF first, rest
    <3> HIDE DEF s0
    <3>3. /\ s0 \in Seq(StepName) /\ Len(s0) = 2
          /\ s0[1] = "core" /\ s0[2] = "minimalHw"
      BY <2>1, <3>1, <3>2, ConcatProperties
    <3> QED BY <3>3 DEF WellOrdered, Contains, Rank
  <2>3. CASE ~r.skip
    <3>1. /\ rest \in Seq(StepName) /\ Len(rest) = 2
          /\ rest[1] = "release" /\ rest[2] = "hw"
      BY <2>3 DEF StepName
    <3> HIDE DEF first, rest
    <3>2. s0 = first \o rest
      BY DEF first, rest
    <3> HIDE DEF s0
    <3>3. /\ s0 \in Seq(StepName) /\ Len(s0) = 3
          /\ \A i \in 1..3 : s0[i] = IF i <= 1 THEN first[i] ELSE rest[i - 1]
      <4>1. /\ s0 \in Seq(StepName) /\ Len(s0) = Len(first) + Len(rest)
            /\ \A i \in 1..Len(first) + Len(rest) :
                 s0[i] = IF i <= Len(first) THEN first[i] ELSE rest[i - Len(first)]
        BY <2>1, <3>1, <3>2, ConcatProperties
      <4> QED BY <4>1, <2>1, <3>1
    <3>4. s0[1] = "core" /\ s0[2] = "release" /\ s0[3] = "hw"
      BY <2>1, <3>1, <3>3
    <3> QED BY <3>3, <3>4 DEF WellOrdered, Contains, Rank
  <2> QED BY <2>2, <2>3
<1> DEFINE ic == If(r.cache, <<"cache">>)
           id == If(r.transport # None, <<"debug">>)
           is == If(r.spot, <<"spot">>)
<1>3. /\ ic \in Seq(StepName) /\ (r.cache => Contains(ic, "cache"))
      /\ id \in Seq(StepName) /\ (r.transport # None => Contains(id, "debug"))
      /\ is \in Seq(StepName)
      /\ <<"perf">> \in Seq(StepName) /\ Contains(<<"perf">>, "perf")
  <2>1. (r.transport # None) \in BOOLEAN
    OBVIOUS
  <2>2. {"cache", "debug", "perf", "spot"} \subseteq StepName
    BY DEF StepName
  <2>3. <<"perf">> \in Seq(StepName) /\ Contains(<<"perf">>, "perf")
    BY DEF Contains, StepName
  <2>4. ic \in Seq(StepName) /\ (r.cache => Contains(ic, "cache"))
    BY <1>0, <2>2, Flagged
  <2>5. id \in Seq(StepName) /\ (r.transport # None => Contains(id, "debug"))
    BY <2>1, <2>2, Flagged
  <2>6. is \in Seq(StepName)
    BY <1>0, <2>2, Flagged
  <2> QED BY <2>3, <2>4, <2>5, <2>6
<1>r. /\ Rank["cache"] = 4 /\ Rank["debug"] = 5 /\ Rank["perf"] = 6 /\ Rank["spot"] = 7
      /\ {"cache", "debug", "perf", "spot"} \subseteq StepName \ {"hw", "power"}
  BY DEF Rank, StepName
<1> HIDE DEF s0, ic, id, is
<1>4. WellOrdered(s1, 5)
  BY <1>0, <1>2, <1>r, OneMore
<1> HIDE DEF s1
<1>5. WellOrdered(s2, 6)
  <2> DEFINE flag == r.transport # None
  <2>1. flag \in BOOLEAN
    OBVIOUS
  <2>2. s2 = s1 \o If(flag, <<"debug">>)
    OBVIOUS
  <2> HIDE DEF flag, s2
  <2>3. 5 \in Nat /\ 5 <= Rank["debug"] /\ Rank["debug"] + 1 = 6
    BY <1>r
  <2>4. WellOrdered(s1 \o If(flag, <<"debug">>), Rank["debug"] + 1)
    BY <1>4, <1>r, <2>1, <2>3, OneMore
  <2> QED BY <2>2, <2>3, <2>4
<1> HIDE DEF s2
<1>6. WellOrdered(s3, 7)
  <2>1. s3 = s2 \o If(TRUE, <<"perf">>)
    BY DEF If
  <2> HIDE DEF s3
  <2>2. WellOrdered(s2 \o If(TRUE, <<"perf">>), 7)
    <3>1. 6 \in Nat /\ 6 <= Rank["perf"] /\ Rank["perf"] + 1 = 7 /\ TRUE \in BOOLEAN
      BY <1>r
    <3>2. WellOrdered(s2 \o If(TRUE, <<"perf">>), Rank["perf"] + 1)
      BY <1>5, <1>r, <3>1, OneMore
    <3> QED BY <3>1, <3>2
  <2> QED BY <2>1, <2>2
<1> HIDE DEF s3
<1>7. WellOrdered(s4, 8)
  BY <1>0, <1>6, <1>r, OneMore
<1> HIDE DEF s4
<1>8. /\ s0 \in Seq(StepName) /\ s1 \in Seq(StepName) /\ s2 \in Seq(StepName)
      /\ s3 \in Seq(StepName)
  BY <1>2, <1>4, <1>5, <1>6 DEF WellOrdered
<1>a. /\ s1 = s0 \o ic /\ s2 = s1 \o id /\ s3 = s2 \o <<"perf">> /\ s4 = s3 \o is
  BY DEF s1, s2, s3, s4, ic, id, is
<1>b. \A x : Contains(s0, x) \/ Contains(ic, x) => Contains(s1, x)
  BY <1>3, <1>8, <1>a, KeepsWhatItHas
<1>c. \A x : Contains(s1, x) \/ Contains(id, x) => Contains(s2, x)
  BY <1>3, <1>8, <1>a, KeepsWhatItHas
<1>d. \A x : Contains(s2, x) \/ Contains(<<"perf">>, x) => Contains(s3, x)
  BY <1>3, <1>8, <1>a, KeepsWhatItHas
<1>e. \A x : Contains(s3, x) => Contains(s4, x)
  BY <1>3, <1>8, <1>a, KeepsWhatItHas
<1>9. Plan(r) = s4
  BY DEF Plan, s0, s1, s2, s3, s4
<1> QED BY <1>2, <1>3, <1>7, <1>9, <1>b, <1>c, <1>d, <1>e DEF Complete

LEMMA PlanProperties ==
  ASSUME NEW r \in Requests
  PROVE  /\ WellOrdered(Plan(r), 8) /\ Complete(r)
         /\ \A i \in 1..Len(Plan(r)) : Plan(r)[i] = "debug" => r.kind = "system"
<1>1. CASE r.kind = "system"
  BY <1>1, PlanOfSystem
<1>2. CASE r.kind = "hw"
  <2>1. Plan(r) = <<"release", "hw">>
    BY <1>2 DEF Plan
  <2> QED BY <1>2, <2>1 DEF WellOrdered, Complete, Contains, StepName, Rank
<1>3. CASE r.kind = "power"
  <2>1. Plan(r) = <<"release", "power">>
    BY <1>3 DEF Plan
  <2> QED BY <1>3, <2>1 DEF WellOrdered, Complete, Contains, StepName, Rank
<1>4. CASE r.kind = "minimal"
  <2>1. Plan(r) = <<"minimalHw">>
    BY <1>4 DEF Plan
  <2> QED BY <1>4, <2>1 DEF WellOrdered, Complete, Contains, StepName, Rank
<1> QED BY <1>1, <1>2, <1>3, <1>4 DEF Requests

(***************************************************************************)
(* The invariant.                                                          *)
(***************************************************************************)
AllOffBut(t) == \A u \in Transport \ {t} : link[u] = "off"

(* At any time at most one link is in use, and it is the one that the      *)
(* state of the transport names.                                           *)
DebugInv ==
  /\ sError => sActive = None /\ dpc = "idle"
  /\ sActive # None => dpc = "idle" /\ link[sActive] = "up" /\ AllOffBut(sActive)
  /\ dpc = "disabling" =>
       ~sError /\ leaving \in Transport /\ wanted # leaving /\ AllOffBut(leaving)
  /\ dpc = "enabling" => wanted \in Transport /\ AllOffBut(wanted)
  /\ dpc = "idle" /\ ~sError /\ sActive = None => \A t \in Transport : link[t] = "off"

DebugGood == DebugTypeOK /\ DebugInv

GuardTyped ==
  /\ startup \in {"UNCLAIMED", "RUNNING", "COMPLETE", "FAILED"}
  /\ at \in [Caller -> {"idle", "step", "debug", "failed"}]
  /\ request \in [Caller -> Requests] /\ position \in [Caller -> Nat]
  /\ answer \in [Caller -> {"NONE", "INVALID", "REJECTED", "SUCCESS", "FAILURE"}]
  /\ log \in Seq(StepName) /\ broke \in Nat /\ begun \in Seq(Requests)

Steps == Len(Plan(begun[1]))

(* At most one request is under way, and it is the only one ever begun.    *)
ClaimInv ==
  /\ startup = "RUNNING" <=> \E c \in Caller : at[c] # "idle"
  /\ \A c, d \in Caller : at[c] # "idle" /\ at[d] # "idle" => c = d
  /\ startup = "UNCLAIMED" => Len(begun) = 0 /\ Len(log) = 0 /\ broke = 0
  /\ startup # "UNCLAIMED" => Len(begun) = 1
  /\ \A c \in Caller :
       at[c] # "idle" => request[c] = begun[1] /\ position[c] = Len(log)
  /\ \A c \in Caller : position[c] <= Len(Plan(request[c]))

(* How far the request has come, and how it ended.                         *)
EndInv ==
  /\ broke # 0 => broke = Len(log)
  /\ \A c \in Caller : at[c] \in {"step", "debug"} => broke = 0
  /\ \A c \in Caller : at[c] = "failed" => broke # 0
  /\ startup = "FAILED" => broke # 0
  /\ startup = "COMPLETE" => broke = 0 /\ Len(log) = Steps
  /\ \A c \in Caller : answer[c] = "SUCCESS" => startup = "COMPLETE"

(* The steps so far are the first ones of the plan.                        *)
LogInv ==
  startup # "UNCLAIMED" =>
    Len(log) <= Steps /\ \A i \in 1..Len(log) : log[i] = Plan(begun[1])[i]

JustReleased == Len(log) > 0 /\ log[Len(log)] = "release"

(* Where the request is, so is the debug call it makes; a release that has *)
(* returned has left no transport active.                                  *)
ReleaseInv ==
  \A c \in Caller :
    /\ at[c] \in {"step", "failed"} => dpc = "idle"
    /\ at[c] = "step" /\ JustReleased => sActive = None /\ ~sError
    /\ at[c] = "debug" => Len(log) > 0
    /\ at[c] = "debug" /\ JustReleased =>
         sActive = None /\ dpc # "enabling" /\ (dpc = "disabling" => wanted = None)

GuardGood == GuardTyped /\ ClaimInv /\ EndInv /\ LogInv

StartupInv == DebugGood /\ GuardGood /\ ReleaseInv

(***************************************************************************)
(* The debug transport: each of its steps keeps DebugInv, and changes no   *)
(* link once a call has failed.                                            *)
(***************************************************************************)
LinksStayAfterError == sError => sError' /\ UNCHANGED link

LEMMA DebugGoodUnchanged ==
  ASSUME DebugGood, UNCHANGED debugVars
  PROVE  DebugGood' /\ LinksStayAfterError
  BY DEF DebugGood, DebugTypeOK, DebugInv, AllOffBut, debugVars, LinksStayAfterError

LEMMA LeaveGood ==
  ASSUME DebugGood, DebugIdle, ~sError, sActive # None,
         NEW then \in Transport \cup {None}, then # sActive, Leave(sActive, then)
  PROVE  DebugGood'
<1>1. sActive \in Transport /\ AllOffBut(sActive)
  BY DEF DebugGood, DebugTypeOK, DebugInv
<1>2. DebugTypeOK'
  BY <1>1 DEF DebugGood, DebugTypeOK, Leave
<1>3. DebugInv'
  BY <1>1 DEF DebugInv, AllOffBut, Leave
<1> QED BY <1>2, <1>3 DEF DebugGood

LEMMA DebugInitGood ==
  ASSUME DebugGood, DebugIdle, NEW t \in Transport \cup {None}, DebugInit(t)
  PROVE  DebugGood' /\ LinksStayAfterError
<1>1. CASE Nothing
  BY <1>1, DebugGoodUnchanged DEF Nothing
<1>2. CASE ~(t = None \/ sError \/ t = sActive) /\ sActive # None
  <2>1. Leave(sActive, t)
    BY <1>2 DEF DebugInit
  <2> QED BY <1>2, <2>1, LeaveGood DEF LinksStayAfterError
<1>3. CASE ~(t = None \/ sError \/ t = sActive) /\ sActive = None
  <2>1. Enabling(t) /\ UNCHANGED <<sActive, sSelected, sError, leaving>> /\ t \in Transport
    BY <1>3 DEF DebugInit
  <2>2. \A u \in Transport : link[u] = "off"
    BY <1>3 DEF DebugGood, DebugInv, DebugIdle
  <2>3. DebugTypeOK'
    BY <2>1 DEF DebugGood, DebugTypeOK, Enabling
  <2>4. DebugInv'
    BY <1>3, <2>1, <2>2 DEF DebugGood, DebugTypeOK, DebugInv, AllOffBut, Enabling
  <2> QED BY <1>3, <2>3, <2>4 DEF DebugGood, LinksStayAfterError
<1> QED BY <1>1, <1>2, <1>3 DEF DebugInit

LEMMA DebugDisableGood ==
  ASSUME DebugGood, DebugIdle, NEW t, DebugDisable(t)
  PROVE  DebugGood' /\ LinksStayAfterError
<1>1. CASE Nothing
  BY <1>1, DebugGoodUnchanged DEF Nothing
<1>2. CASE t = sActive /\ sActive # None /\ ~sError /\ Leave(t, None)
  BY <1>2, LeaveGood DEF LinksStayAfterError
<1> QED BY <1>1, <1>2 DEF DebugDisable

LEMMA PlatformDisableGood ==
  ASSUME DebugGood, PlatformDisable
  PROVE  DebugGood' /\ LinksStayAfterError
<1>1. /\ dpc = "disabling" /\ ~sError /\ sActive = None
      /\ leaving \in Transport /\ wanted # leaving /\ AllOffBut(leaving)
      /\ wanted \in Transport \cup {None}
  BY DEF DebugGood, DebugTypeOK, DebugInv, PlatformDisable
<1>2. CASE /\ link' = [t \in Transport |-> IF t = leaving THEN "off"
                                         ELSE IF t = wanted THEN "partial" ELSE link[t]]
           /\ dpc' = (IF wanted = None THEN "idle" ELSE "enabling")
           /\ UNCHANGED <<sError, sActive, sSelected, leaving, wanted>>
  <2>1. \A t \in Transport : link'[t] = IF t = wanted THEN "partial" ELSE "off"
    BY <1>1, <1>2 DEF AllOffBut
  <2>2. DebugTypeOK'
    BY <1>1, <1>2 DEF DebugGood, DebugTypeOK
  <2>3. DebugInv'
    BY <1>1, <1>2, <2>1, TransportAssumption DEF DebugInv, AllOffBut
  <2> QED BY <1>1, <2>2, <2>3 DEF DebugGood, LinksStayAfterError
<1>3. CASE /\ link' = [link EXCEPT ![leaving] = "partial"]
           /\ dpc' = "idle" /\ sError' = TRUE
           /\ UNCHANGED <<sActive, sSelected, leaving, wanted>>
  <2>1. DebugTypeOK'
    BY <1>1, <1>3 DEF DebugGood, DebugTypeOK
  <2>2. DebugInv'
    BY <1>1, <1>3 DEF DebugInv
  <2> QED BY <1>1, <2>1, <2>2 DEF DebugGood, LinksStayAfterError
<1> QED BY <1>2, <1>3 DEF PlatformDisable

LEMMA PlatformInitGood ==
  ASSUME DebugGood, PlatformInit
  PROVE  DebugGood' /\ LinksStayAfterError
<1>1. /\ dpc = "enabling" /\ ~sError /\ sActive = None
      /\ wanted \in Transport /\ AllOffBut(wanted)
  BY DEF DebugGood, DebugInv, PlatformInit
<1>2. DebugTypeOK'
  BY <1>1 DEF DebugGood, DebugTypeOK, PlatformInit
<1>3. DebugInv'
  BY <1>1, TransportAssumption DEF DebugGood, DebugTypeOK, DebugInv, AllOffBut, PlatformInit
<1> QED BY <1>1, <1>2, <1>3 DEF DebugGood, LinksStayAfterError

LEMMA DebugStepGood ==
  ASSUME DebugGood, DebugStep
  PROVE  DebugGood' /\ LinksStayAfterError
  BY PlatformDisableGood, PlatformInitGood DEF DebugStep

LEMMA DebugCallGood ==
  ASSUME DebugGood, DebugCall
  PROVE  DebugGood' /\ LinksStayAfterError
<1>1. sSelected \in Transport /\ DebugIdle
  BY DEF DebugGood, DebugTypeOK, DebugCall
<1>2. ASSUME NEW t \in Transport, DebugInit(t) \/ DebugDisable(t)
      PROVE  DebugGood' /\ LinksStayAfterError
  BY <1>1, <1>2, DebugInitGood, DebugDisableGood
<1>3. CASE DebugResume
  BY <1>1, <1>3, DebugInitGood DEF DebugResume
<1>4. CASE DebugSuspend
  BY <1>1, <1>4, DebugDisableGood DEF DebugSuspend
<1> QED BY <1>2, <1>3, <1>4 DEF DebugCall

(***************************************************************************)
(* The startup: its requests, and the steps of the one under way.          *)
(***************************************************************************)
(* The plan of the request under way is a sequence of steps.               *)
LEMMA PlanInSeq ==
  ASSUME NEW r \in Requests
  PROVE  /\ Plan(r) \in Seq(StepName) /\ Len(Plan(r)) \in Nat
         /\ \A i \in 1..Len(Plan(r)) : Plan(r)[i] \in StepName
  BY PlanProperties, LenProperties, ElementOfSeq DEF WellOrdered

(* A caller whose request is under way holds the guard.                    *)
LEMMA UnderWay ==
  ASSUME GuardGood, NEW c \in Caller, at[c] # "idle"
  PROVE  /\ startup = "RUNNING" /\ Len(begun) = 1 /\ begun[1] = request[c]
         /\ request[c] \in Requests /\ position[c] = Len(log) /\ Len(log) \in Nat
         /\ Steps = Len(Plan(request[c])) /\ Steps \in Nat
         /\ \A d \in Caller \ {c} : at[d] = "idle"
         /\ \A d \in Caller : answer[d] # "SUCCESS"
<1>1. startup = "RUNNING" /\ \A d \in Caller \ {c} : at[d] = "idle"
  BY DEF GuardGood, ClaimInv
<1>2. Len(begun) = 1 /\ begun[1] = request[c] /\ position[c] = Len(log)
  BY <1>1 DEF GuardGood, ClaimInv
<1>3. request[c] \in Requests /\ Len(log) \in Nat
  BY LenProperties DEF GuardGood, GuardTyped
<1>4. Steps = Len(Plan(request[c])) /\ Steps \in Nat
  BY <1>2, <1>3, PlanInSeq DEF Steps
<1>5. \A d \in Caller : answer[d] # "SUCCESS"
  BY <1>1 DEF GuardGood, EndInv
<1> QED BY <1>1, <1>2, <1>3, <1>4, <1>5

(* The three ways in which a step of the request leaves its caller.        *)
Onward(c) ==
  \/ UNCHANGED <<at, broke>>
  \/ Fails(c)
  \/ Goes(c, "debug") /\ UNCHANGED broke

(* A step that begins is the next one of the plan.                         *)
LEMMA NextStep ==
  ASSUME GuardGood, NEW c \in Caller, NEW S, Begins(c, S)
  PROVE  /\ Step(c) \in S \cap StepName
         /\ log' \in Seq(StepName) /\ Len(log') = Len(log) + 1
         /\ Len(log') <= Steps
         /\ \A i \in 1..Len(log) : log'[i] = log[i]
         /\ log'[Len(log')] = Step(c)
         /\ Step(c) = Plan(request[c])[Len(log')]
<1>1. at[c] = "step" /\ position[c] < Len(Plan(request[c])) /\ Step(c) \in S
      /\ log' = Append(log, Step(c))
  BY DEF Begins
<1>2. /\ request[c] \in Requests /\ position[c] = Len(log) /\ Len(log) \in Nat
      /\ Steps = Len(Plan(request[c])) /\ Steps \in Nat
  BY <1>1, UnderWay
<1>3. Len(log) + 1 \in 1..Len(Plan(request[c])) /\ Step(c) = Plan(request[c])[Len(log) + 1]
  BY <1>1, <1>2 DEF Step
<1>4. Step(c) \in StepName
  BY <1>2, <1>3, PlanInSeq
<1>5. log \in Seq(StepName)
  BY DEF GuardGood, GuardTyped
<1>6. /\ log' \in Seq(StepName) /\ Len(log') = Len(log) + 1
      /\ \A i \in 1..Len(log) : log'[i] = log[i]
      /\ log'[Len(log) + 1] = Step(c)
  BY <1>1, <1>4, <1>5, AppendProperties
<1> QED BY <1>1, <1>2, <1>3, <1>4, <1>6

LEMMA StepKeepsGuard ==
  ASSUME GuardGood, NEW c \in Caller, NEW S, Begins(c, S), Onward(c),
         UNCHANGED <<startup, request, answer, begun>>
  PROVE  GuardGood'
<1>1. at[c] = "step" /\ position' = [position EXCEPT ![c] = @ + 1]
  BY DEF Begins
<1>2. /\ startup = "RUNNING" /\ Len(begun) = 1 /\ begun[1] = request[c]
      /\ request[c] \in Requests /\ position[c] = Len(log) /\ Len(log) \in Nat
      /\ Steps = Len(Plan(request[c])) /\ Steps \in Nat
      /\ \A d \in Caller \ {c} : at[d] = "idle"
      /\ \A d \in Caller : answer[d] # "SUCCESS"
  BY <1>1, UnderWay
<1>3. /\ log' \in Seq(StepName) /\ Len(log') = Len(log) + 1 /\ Len(log') <= Steps
      /\ \A i \in 1..Len(log) : log'[i] = log[i]
      /\ log'[Len(log')] = Plan(request[c])[Len(log')]
  BY NextStep
<1>4. /\ at' \in [Caller -> {"idle", "step", "debug", "failed"}]
      /\ at'[c] \in {"step", "debug", "failed"}
      /\ \A d \in Caller \ {c} : at'[d] = "idle"
      /\ at'[c] = "failed" => broke' = Len(log')
      /\ at'[c] # "failed" => broke' = 0
      /\ broke' \in Nat
  <2>1. broke = 0 /\ Len(log') \in Nat
    BY <1>1, <1>2, <1>3 DEF GuardGood, EndInv
  <2>2. at \in [Caller -> {"idle", "step", "debug", "failed"}]
    BY DEF GuardGood, GuardTyped
  <2>3. CASE UNCHANGED <<at, broke>>
    BY <1>1, <1>2, <2>1, <2>2, <2>3
  <2>4. CASE Fails(c)
    BY <1>2, <2>1, <2>2, <2>4 DEF Fails, Goes
  <2>5. CASE Goes(c, "debug") /\ UNCHANGED broke
    BY <1>2, <2>1, <2>2, <2>5 DEF Goes
  <2> QED BY <2>3, <2>4, <2>5 DEF Onward
<1>5. /\ position' \in [Caller -> Nat] /\ position'[c] = Len(log')
      /\ \A d \in Caller \ {c} : position'[d] = position[d]
  BY <1>1, <1>2, <1>3 DEF GuardGood, GuardTyped
<1>6. GuardTyped'
  BY <1>3, <1>4, <1>5 DEF GuardGood, GuardTyped
<1>7. ClaimInv'
  <2>1. (startup = "RUNNING" <=> \E d \in Caller : at[d] # "idle")'
    BY <1>2, <1>4
  <2>2. (\A d, e \in Caller : at[d] # "idle" /\ at[e] # "idle" => d = e)'
    BY <1>4
  <2>3. (\A d \in Caller :
           at[d] # "idle" => request[d] = begun[1] /\ position[d] = Len(log))'
    BY <1>2, <1>4, <1>5
  <2>4. (\A d \in Caller : position[d] <= Len(Plan(request[d])))'
    BY <1>2, <1>3, <1>5 DEF GuardGood, ClaimInv
  <2> QED BY <1>2, <2>1, <2>2, <2>3, <2>4 DEF ClaimInv
<1>8. EndInv'
  BY <1>2, <1>3, <1>4 DEF EndInv
<1>9. LogInv'
  <2>1. \A i \in 1..Len(log) : log[i] = Plan(begun[1])[i]
    BY <1>2 DEF GuardGood, LogInv
  <2>2. Len(log') <= Steps'
    BY <1>3 DEF Steps
  <2>3. \A i \in 1..Len(log') : i \in 1..Len(log) \/ i = Len(log')
    BY <1>2, <1>3
  <2>4. \A i \in 1..Len(log') : log'[i] = Plan(begun'[1])[i]
    BY <1>2, <1>3, <2>1, <2>3
  <2> QED BY <2>2, <2>4 DEF LogInv
<1> QED BY <1>6, <1>7, <1>8, <1>9 DEF GuardGood

LEMMA ClaimKeepsGuard ==
  ASSUME GuardGood, NEW c \in Caller, NEW r \in Requests, Claim(c, r)
  PROVE  GuardGood'
<1>1. startup = "UNCLAIMED" /\ Len(begun) = 0 /\ Len(log) = 0 /\ broke = 0
  BY DEF Claim, GuardGood, ClaimInv
<1>2. \A d \in Caller : at[d] = "idle" /\ answer[d] # "SUCCESS"
  BY <1>1 DEF GuardGood, ClaimInv, EndInv
<1>3. begun' \in Seq(Requests) /\ Len(begun') = 1 /\ begun'[1] = r
  BY <1>1, AppendProperties DEF Claim, GuardGood, GuardTyped
<1>4. /\ at' = [at EXCEPT ![c] = "step"] /\ request' = [request EXCEPT ![c] = r]
      /\ position' = [position EXCEPT ![c] = 0] /\ startup' = "RUNNING"
      /\ UNCHANGED <<answer, log, broke>>
  BY DEF Claim, Goes
<1>5. Len(Plan(r)) \in Nat
  BY PlanInSeq
<1>6. GuardTyped'
  BY <1>3, <1>4 DEF GuardGood, GuardTyped
<1>7. /\ at'[c] = "step" /\ request'[c] = r /\ position'[c] = 0
      /\ \A d \in Caller \ {c} :
           at'[d] = at[d] /\ request'[d] = request[d] /\ position'[d] = position[d]
  BY <1>4 DEF GuardGood, GuardTyped
<1>8. ClaimInv'
  BY <1>1, <1>2, <1>3, <1>4, <1>5, <1>7 DEF GuardGood, ClaimInv
<1>9. EndInv'
  BY <1>1, <1>2, <1>4, <1>7 DEF EndInv
<1>a. LogInv'
  BY <1>1, <1>3, <1>4, <1>5 DEF LogInv, Steps
<1> QED BY <1>6, <1>8, <1>9, <1>a DEF GuardGood

(* A status that is not SUCCESS changes nothing of the guard.              *)
LEMMA RefusalKeepsGuard ==
  ASSUME GuardGood, NEW c \in Caller, NEW s \in {"INVALID", "REJECTED"},
         answer' = [answer EXCEPT ![c] = s],
         UNCHANGED <<startup, at, request, position, log, broke, begun>>
  PROVE  GuardGood'
<1>1. answer' \in [Caller -> {"NONE", "INVALID", "REJECTED", "SUCCESS", "FAILURE"}]
      /\ \A d \in Caller : answer'[d] = "SUCCESS" => answer[d] = "SUCCESS"
  BY DEF GuardGood, GuardTyped
<1>2. GuardTyped' /\ ClaimInv' /\ LogInv'
  BY <1>1 DEF GuardGood, GuardTyped, ClaimInv, LogInv, Steps
<1>3. EndInv'
  BY <1>1 DEF GuardGood, EndInv, Steps
<1> QED BY <1>2, <1>3 DEF GuardGood

LEMMA DebugEndsKeepsGuard ==
  ASSUME GuardGood, ReleaseInv, NEW c \in Caller, DebugEnds(c)
  PROVE  GuardGood'
<1>1. at[c] = "debug" /\ UNCHANGED <<startup, request, position, answer, log, begun>>
  BY DEF DebugEnds
<1>2. /\ startup = "RUNNING" /\ Len(log) \in Nat /\ Len(log) > 0
      /\ \A d \in Caller \ {c} : at[d] = "idle"
      /\ \A d \in Caller : answer[d] # "SUCCESS"
  BY <1>1, UnderWay DEF ReleaseInv
<1>3. /\ at' \in [Caller -> {"idle", "step", "debug", "failed"}]
      /\ at'[c] \in {"step", "failed"}
      /\ \A d \in Caller \ {c} : at'[d] = "idle"
      /\ at'[c] = "failed" => broke' = Len(log)
      /\ at'[c] # "failed" => broke' = 0
      /\ broke' \in Nat
  BY <1>1, <1>2 DEF GuardGood, GuardTyped, EndInv, DebugEnds, Goes
<1>4. GuardTyped'
  BY <1>1, <1>3 DEF GuardGood, GuardTyped
<1>5. ClaimInv'
  BY <1>1, <1>2, <1>3 DEF GuardGood, ClaimInv
<1>6. EndInv'
  <2>1. \A d \in Caller : at'[d] \in {"step", "debug"} => d = c /\ broke' = 0
    BY <1>3
  <2>2. \A d \in Caller : at'[d] = "failed" => d = c /\ broke' = Len(log)
    BY <1>3
  <2>3. broke' # 0 => broke' = Len(log)
    BY <1>3
  <2> QED BY <1>1, <1>2, <2>1, <2>2, <2>3 DEF EndInv
<1>7. LogInv'
  BY <1>1 DEF GuardGood, LogInv, Steps
<1> QED BY <1>4, <1>5, <1>6, <1>7 DEF GuardGood

LEMMA FinishKeepsGuard ==
  ASSUME GuardGood, NEW c \in Caller, Finish(c)
  PROVE  GuardGood'
<1>1. /\ at[c] \in {"failed", "step"} /\ at' = [at EXCEPT ![c] = "idle"]
      /\ UNCHANGED <<request, position, log, broke, begun>>
  BY DEF Finish, Goes
<1>2. /\ startup = "RUNNING" /\ Len(begun) = 1 /\ begun[1] = request[c]
      /\ position[c] = Len(log) /\ Steps = Len(Plan(request[c]))
      /\ \A d \in Caller \ {c} : at[d] = "idle"
      /\ \A d \in Caller : answer[d] # "SUCCESS"
  BY <1>1, UnderWay
<1>3. \/ /\ at[c] = "failed" /\ broke # 0
         /\ startup' = "FAILED" /\ answer' = [answer EXCEPT ![c] = "FAILURE"]
      \/ /\ at[c] = "step" /\ broke = 0 /\ Len(log) = Steps
         /\ startup' = "COMPLETE" /\ answer' = [answer EXCEPT ![c] = "SUCCESS"]
  BY <1>2 DEF Finish, GuardGood, EndInv
<1>4. \A d \in Caller : at'[d] = "idle"
  BY <1>1, <1>2 DEF GuardGood, GuardTyped
<1>5. /\ answer' \in [Caller -> {"NONE", "INVALID", "REJECTED", "SUCCESS", "FAILURE"}]
      /\ startup' = "FAILED" => \A d \in Caller : answer'[d] # "SUCCESS"
  BY <1>2, <1>3 DEF GuardGood, GuardTyped
<1>6. GuardTyped'
  BY <1>1, <1>3, <1>4, <1>5 DEF GuardGood, GuardTyped
<1>7. ClaimInv'
  BY <1>1, <1>2, <1>3, <1>4 DEF GuardGood, ClaimInv
<1>8. EndInv'
  BY <1>1, <1>3, <1>4, <1>5 DEF GuardGood, EndInv, Steps
<1>9. LogInv'
  BY <1>1, <1>2 DEF GuardGood, LogInv, Steps
<1> QED BY <1>6, <1>7, <1>8, <1>9 DEF GuardGood

(***************************************************************************)
(* The two together: every action keeps the invariant.                     *)
(***************************************************************************)
(* A step after which the last one begun is not a release.                 *)
LEMMA PlainStepReleases ==
  ASSUME GuardGood, ReleaseInv, NEW c \in Caller,
         NEW S, S \cap {"release"} = {}, Begins(c, S), Onward(c),
         Fails(c) \/ UNCHANGED <<at, broke>>, dpc' = dpc
  PROVE  ReleaseInv'
<1>1. at[c] = "step" /\ dpc = "idle"
  BY DEF Begins, ReleaseInv
<1>2. ~JustReleased'
  BY NextStep DEF JustReleased
<1>3. /\ at'[c] \in {"step", "failed"}
      /\ \A d \in Caller \ {c} : at'[d] = "idle"
  BY <1>1, UnderWay DEF Fails, Goes, GuardGood, GuardTyped
<1>4. \A d \in Caller : at'[d] # "debug"
  BY <1>3
<1> QED BY <1>1, <1>2, <1>4 DEF ReleaseInv

LEMMA BackendKeeps ==
  ASSUME StartupInv, NEW c \in Caller, Infallible(c) \/ Backend(c)
  PROVE  StartupInv' /\ LinksStayAfterError
<1>0. DebugGood /\ GuardGood /\ ReleaseInv
  BY DEF StartupInv
<1>1. PICK S : S \cap {"release"} = {} /\ Begins(c, S)
  BY DEF Infallible, Backend
<1>2. /\ Fails(c) \/ UNCHANGED <<at, broke>>
      /\ UNCHANGED <<startup, request, answer, begun, debugVars>>
  BY DEF Infallible, Backend
<1>3. Onward(c) /\ dpc' = dpc
  BY <1>2 DEF Onward, debugVars
<1>4. GuardGood'
  BY <1>0, <1>1, <1>2, <1>3, StepKeepsGuard
<1>5. ReleaseInv'
  BY <1>0, <1>1, <1>2, <1>3, PlainStepReleases
<1> QED BY <1>0, <1>2, <1>4, <1>5, DebugGoodUnchanged DEF StartupInv

(* A full baseline begins with the debug transport released.               *)
LEMMA BaselineReleased ==
  ASSUME StartupInv, NEW c \in Caller, FullBackend(c)
  PROVE  /\ sActive = None /\ ~sError /\ dpc = "idle"
         /\ \A t \in Transport : link[t] = "off"
<1>0. DebugGood /\ GuardGood /\ ReleaseInv
  BY DEF StartupInv
<1>1. at[c] = "step" /\ Begins(c, {"hw", "power"})
  BY DEF FullBackend, Begins
<1>2. /\ request[c] \in Requests /\ Len(log) \in Nat /\ Steps = Len(Plan(request[c]))
      /\ startup # "UNCLAIMED" /\ begun[1] = request[c]
  BY <1>0, <1>1, UnderWay
<1>3. /\ Len(log) + 1 \in 1..Len(Plan(request[c]))
      /\ Plan(request[c])[Len(log) + 1] \in {"hw", "power"}
  BY <1>0, <1>1, <1>2, NextStep, PlanInSeq
<1>4. Len(log) + 1 > 1 /\ Plan(request[c])[(Len(log) + 1) - 1] = "release"
  BY <1>2, <1>3, PlanProperties DEF WellOrdered
<1>5. Len(log) \in 1..Len(log) /\ (Len(log) + 1) - 1 = Len(log)
  BY <1>2, <1>4
<1>6. JustReleased
  BY <1>0, <1>2, <1>4, <1>5 DEF GuardGood, LogInv, JustReleased
<1>7. sActive = None /\ ~sError /\ dpc = "idle"
  BY <1>0, <1>1, <1>6 DEF ReleaseInv
<1> QED BY <1>0, <1>7 DEF DebugGood, DebugInv

LEMMA FullBackendKeeps ==
  ASSUME StartupInv, NEW c \in Caller, FullBackend(c)
  PROVE  StartupInv' /\ LinksStayAfterError
<1>0. DebugGood /\ GuardGood /\ ReleaseInv
  BY DEF StartupInv
<1>1. /\ Begins(c, {"hw", "power"}) /\ Baseline
      /\ Fails(c) \/ UNCHANGED <<at, broke>>
      /\ UNCHANGED <<startup, request, answer, begun>>
  BY DEF FullBackend
<1>2. /\ ~sError /\ sActive = None /\ dpc = "idle"
      /\ \A t \in Transport : link[t] = "off"
  BY BaselineReleased
<1>3. Onward(c) /\ dpc' = dpc
  BY <1>1 DEF Onward, Baseline
<1>4. GuardGood'
  BY <1>0, <1>1, <1>3, StepKeepsGuard
<1>5. ReleaseInv'
  BY <1>0, <1>1, <1>3, PlainStepReleases
<1>6. /\ UNCHANGED <<sActive, sSelected, sError, dpc, leaving, wanted>>
      /\ link' \in [Transport -> {"off", "partial", "up"}]
      /\ \A t \in Transport : link'[t] = "off"
  BY <1>0, <1>1, <1>2 DEF Baseline, DebugGood, DebugTypeOK
<1>7. DebugGood'
  BY <1>0, <1>2, <1>6 DEF DebugGood, DebugTypeOK, DebugInv
<1> QED BY <1>2, <1>4, <1>5, <1>7 DEF StartupInv, LinksStayAfterError

LEMMA DebugBeginsKeeps ==
  ASSUME StartupInv, NEW c \in Caller, DebugBegins(c)
  PROVE  StartupInv' /\ LinksStayAfterError
<1>0. DebugGood /\ GuardGood /\ ReleaseInv
  BY DEF StartupInv
<1>1. /\ DebugIdle /\ Goes(c, "debug")
      /\ UNCHANGED <<startup, request, answer, broke, begun>>
  BY DEF DebugBegins
<1>2. Onward(c)
  BY <1>1 DEF Onward
<1>3. \E S : Begins(c, S)
  BY DEF DebugBegins
<1>4. at[c] = "step"
  BY <1>3 DEF Begins
<1>5. GuardGood'
  BY <1>0, <1>1, <1>2, <1>3, StepKeepsGuard
<1>6. /\ log' \in Seq(StepName) /\ Len(log') = Len(log) + 1 /\ Len(log) \in Nat
      /\ log'[Len(log')] = Step(c)
  BY <1>0, <1>3, <1>4, NextStep, UnderWay
<1>7. \A d \in Caller : at'[d] # "idle" => d = c /\ at'[d] = "debug"
  BY <1>0, <1>1, <1>4, UnderWay DEF Goes, GuardGood, GuardTyped
<1>8. CASE Begins(c, {"release"}) /\ DebugSuspend
  <2>1. DebugGood' /\ LinksStayAfterError
    BY <1>0, <1>1, <1>8, DebugDisableGood DEF DebugSuspend
  <2>2. /\ sActive' = None /\ dpc' # "enabling"
        /\ dpc' = "disabling" => wanted' = None
    <3>1. CASE sActive = None \/ sError
      BY <1>0, <1>1, <1>8, <3>1
         DEF DebugSuspend, DebugDisable, Nothing, debugVars, DebugGood, DebugInv, DebugIdle
    <3>2. CASE ~(sActive = None \/ sError)
      BY <1>8, <3>2 DEF DebugSuspend, DebugDisable, Leave
    <3> QED BY <3>1, <3>2
  <2>3. ReleaseInv'
    BY <1>6, <1>7, <2>2 DEF ReleaseInv
  <2> QED BY <1>5, <2>1, <2>3 DEF StartupInv
<1>9. CASE Begins(c, {"debug"}) /\ DebugInit(request[c].transport)
  <2>1. request[c].transport \in Transport \cup {None} /\ Step(c) = "debug"
    <3>1. /\ request[c] \in Requests /\ Steps = Len(Plan(request[c])) /\ Len(log') <= Steps
          /\ Steps \in Nat
          /\ Step(c) = "debug" /\ Step(c) = Plan(request[c])[Len(log')]
      BY <1>0, <1>4, <1>9, NextStep, UnderWay
    <3>2. Len(log') \in 1..Len(Plan(request[c]))
      BY <1>6, <3>1
    <3>3. request[c].kind = "system"
      BY <3>1, <3>2, PlanProperties
    <3> QED BY <3>1, <3>3 DEF Requests
  <2>2. DebugGood' /\ LinksStayAfterError
    BY <1>0, <1>1, <1>9, <2>1, DebugInitGood
  <2>3. ReleaseInv'
    <3>1. ~JustReleased'
      BY <1>6, <2>1 DEF JustReleased
    <3> QED BY <1>6, <1>7, <3>1 DEF ReleaseInv
  <2> QED BY <1>5, <2>2, <2>3 DEF StartupInv
<1> QED BY <1>8, <1>9 DEF DebugBegins

LEMMA DebugEndsKeeps ==
  ASSUME StartupInv, NEW c \in Caller, DebugEnds(c)
  PROVE  StartupInv' /\ LinksStayAfterError
<1>0. DebugGood /\ GuardGood /\ ReleaseInv
  BY DEF StartupInv
<1>1. /\ at[c] = "debug" /\ dpc = "idle" /\ UNCHANGED debugVars
      /\ UNCHANGED <<log, startup>>
  BY DEF DebugEnds, DebugIdle
<1>2. GuardGood'
  BY <1>0, DebugEndsKeepsGuard
<1>3. DebugGood' /\ LinksStayAfterError
  BY <1>0, <1>1, DebugGoodUnchanged
<1>4. /\ at'[c] \in {"step", "failed"} /\ (at'[c] = "step" => ~sError)
      /\ \A d \in Caller \ {c} : at'[d] = "idle"
  BY <1>0, <1>1, UnderWay DEF DebugEnds, Goes, GuardGood, GuardTyped
<1>5. JustReleased => sActive = None
  BY <1>0, <1>1 DEF ReleaseInv
<1>6. ReleaseInv'
  BY <1>1, <1>4, <1>5 DEF ReleaseInv, JustReleased, debugVars
<1> QED BY <1>2, <1>3, <1>6 DEF StartupInv

LEMMA FinishKeeps ==
  ASSUME StartupInv, NEW c \in Caller, Finish(c)
  PROVE  StartupInv' /\ LinksStayAfterError
<1>0. DebugGood /\ GuardGood /\ ReleaseInv
  BY DEF StartupInv
<1>1. at[c] # "idle" /\ Goes(c, "idle") /\ UNCHANGED debugVars
  BY DEF Finish
<1>2. \A d \in Caller : at'[d] = "idle"
  BY <1>0, <1>1, UnderWay DEF Goes, GuardGood, GuardTyped
<1>3. ReleaseInv'
  BY <1>2 DEF ReleaseInv
<1> QED BY <1>0, <1>1, <1>3, DebugGoodUnchanged, FinishKeepsGuard DEF StartupInv

LEMMA RejectedKeeps ==
  ASSUME StartupInv, NEW c \in Caller, RejectInvalid(c) \/ ClaimRejected(c)
  PROVE  StartupInv' /\ LinksStayAfterError
<1>0. DebugGood /\ GuardGood /\ ReleaseInv
  BY DEF StartupInv
<1>1. /\ \E s \in {"INVALID", "REJECTED"} : answer' = [answer EXCEPT ![c] = s]
      /\ UNCHANGED <<startup, at, request, position, log, broke, begun, debugVars>>
  BY DEF RejectInvalid, ClaimRejected
<1>2. GuardGood'
  BY <1>0, <1>1, RefusalKeepsGuard
<1>3. ReleaseInv'
  BY <1>0, <1>1 DEF ReleaseInv, JustReleased, debugVars
<1> QED BY <1>0, <1>1, <1>2, <1>3, DebugGoodUnchanged DEF StartupInv

LEMMA ClaimKeeps ==
  ASSUME StartupInv, NEW c \in Caller, NEW r \in Requests, DebugIdle, Claim(c, r)
  PROVE  StartupInv' /\ LinksStayAfterError
<1>0. DebugGood /\ GuardGood /\ ReleaseInv
  BY DEF StartupInv
<1>1. startup = "UNCLAIMED" /\ Goes(c, "step") /\ UNCHANGED <<log, debugVars>>
  BY DEF Claim
<1>2. Len(log) = 0 /\ \A d \in Caller : at[d] = "idle"
  BY <1>0, <1>1 DEF GuardGood, ClaimInv
<1>3. \A d \in Caller : at'[d] \in {"idle", "step"}
  BY <1>1, <1>2 DEF Goes, GuardGood, GuardTyped
<1>4. ~JustReleased' /\ dpc' = "idle"
  BY <1>1, <1>2 DEF JustReleased, debugVars, DebugIdle
<1>5. ReleaseInv'
  BY <1>3, <1>4 DEF ReleaseInv
<1> QED BY <1>0, <1>1, <1>5, DebugGoodUnchanged, ClaimKeepsGuard DEF StartupInv

LEMMA GuardGoodUnchanged ==
  ASSUME GuardGood, UNCHANGED guardVars
  PROVE  GuardGood'
  BY DEF guardVars, GuardGood, GuardTyped, ClaimInv, EndInv, LogInv, Steps

LEMMA ApplicationDebugKeeps ==
  ASSUME StartupInv, ApplicationDebug
  PROVE  StartupInv' /\ LinksStayAfterError
<1>0. DebugGood /\ GuardGood /\ ReleaseInv
  BY DEF StartupInv
<1>1. startup # "RUNNING" /\ DebugCall /\ UNCHANGED guardVars
  BY DEF ApplicationDebug
<1>2. \A c \in Caller : at[c] = "idle"
  BY <1>0, <1>1 DEF GuardGood, ClaimInv
<1>3. ReleaseInv'
  BY <1>1, <1>2 DEF ReleaseInv, guardVars
<1> QED BY <1>0, <1>1, <1>3, DebugCallGood, GuardGoodUnchanged DEF StartupInv

LEMMA DebugRunsKeeps ==
  ASSUME StartupInv, DebugRuns
  PROVE  StartupInv' /\ LinksStayAfterError
<1>0. DebugGood /\ GuardGood /\ ReleaseInv
  BY DEF StartupInv
<1>1. DebugStep /\ UNCHANGED guardVars
  BY DEF DebugRuns
<1>2. dpc # "idle"
  BY <1>1 DEF DebugStep, PlatformDisable, PlatformInit
<1>3. ASSUME NEW c \in Caller, at[c] = "debug", JustReleased
      PROVE  sActive' = None /\ dpc' = "idle"
  <2>1. sActive = None /\ dpc # "enabling" /\ (dpc = "disabling" => wanted = None)
    BY <1>0, <1>3 DEF ReleaseInv
  <2> QED BY <1>1, <2>1 DEF DebugStep, PlatformDisable, PlatformInit
<1>4. \A c \in Caller : at[c] \notin {"step", "failed"}
  BY <1>0, <1>2 DEF ReleaseInv
<1>5. ReleaseInv'
  BY <1>0, <1>1, <1>3, <1>4 DEF ReleaseInv, JustReleased, guardVars
<1> QED BY <1>0, <1>1, <1>5, DebugStepGood, GuardGoodUnchanged DEF StartupInv

LEMMA InitEstablishes == Init => StartupInv
<1> SUFFICES ASSUME Init PROVE StartupInv
  OBVIOUS
<1>1. DebugGood
  BY TransportAssumption DEF Init, DebugStart, DebugGood, DebugTypeOK, DebugInv, AllOffBut
<1>2. AnyRequest \in Requests /\ Len(Plan(AnyRequest)) \in Nat
  <2>1. AnyRequest \in Requests
    BY DEF AnyRequest, Requests
  <2> QED BY <2>1, PlanInSeq
<1>3. GuardTyped
  BY <1>2 DEF Init, GuardTyped
<1>4. ClaimInv /\ EndInv /\ LogInv /\ ReleaseInv
  BY <1>2 DEF Init, ClaimInv, EndInv, LogInv, ReleaseInv
<1> QED BY <1>1, <1>3, <1>4 DEF StartupInv, GuardGood

LEMMA StutterKeeps ==
  ASSUME StartupInv, UNCHANGED startupVars
  PROVE  StartupInv' /\ LinksStayAfterError
<1>1. UNCHANGED debugVars /\ UNCHANGED guardVars
  BY DEF startupVars
<1>2. ReleaseInv'
  BY <1>1 DEF StartupInv, ReleaseInv, JustReleased, debugVars, guardVars
<1> QED BY <1>1, <1>2, DebugGoodUnchanged, GuardGoodUnchanged DEF StartupInv

LEMMA NextKeeps ==
  ASSUME StartupInv, [Next]_startupVars
  PROVE  StartupInv' /\ LinksStayAfterError
<1>1. ASSUME NEW c \in Caller, Progress(c)
      PROVE  StartupInv' /\ LinksStayAfterError
  BY <1>1, BackendKeeps, FullBackendKeeps, DebugBeginsKeeps, DebugEndsKeeps,
     FinishKeeps DEF Progress
<1>2. ASSUME NEW c \in Caller, RejectInvalid(c) \/ ClaimRejected(c)
      PROVE  StartupInv' /\ LinksStayAfterError
  BY <1>2, RejectedKeeps
<1>3. ASSUME NEW c \in Caller, DebugIdle, NEW r \in Requests, Claim(c, r)
      PROVE  StartupInv' /\ LinksStayAfterError
  BY <1>3, ClaimKeeps
<1> QED
  BY <1>1, <1>2, <1>3, ApplicationDebugKeeps, DebugRunsKeeps, StutterKeeps DEF Next

(* One transport in use, one startup under way, its steps those of its    *)
(* plan: in every reachable state, for any callers and transports.         *)
THEOREM StartupInvariant == Spec => []StartupInv
<1>1. StartupInv /\ [Next]_startupVars => StartupInv'
  BY NextKeeps
<1> QED BY <1>1, InitEstablishes, PTL DEF Spec

LEMMA BegunIsRequest ==
  ASSUME GuardGood, startup # "UNCLAIMED"
  PROVE  Len(begun) = 1 /\ begun[1] \in Requests
<1>1. Len(begun) = 1 /\ begun \in Seq(Requests)
  BY DEF GuardGood, GuardTyped, ClaimInv
<1>2. 1 \in 1..Len(begun)
  BY <1>1
<1> QED BY <1>1, <1>2, ElementOfSeq

(***************************************************************************)
(* The theorems.                                                           *)
(***************************************************************************)
(* The types, and that a startup runs exactly when one caller's does.      *)
THEOREM StartupTypeCorrect == Spec => []TypeOK
<1>1. StartupInv => TypeOK
  <2> SUFFICES ASSUME StartupInv PROVE TypeOK
    OBVIOUS
  <2>1. \A c \in Caller : position[c] \in 0..Len(Plan(request[c]))
    <3>1. ASSUME NEW c \in Caller PROVE position[c] \in 0..Len(Plan(request[c]))
      <4>1. position[c] \in Nat /\ request[c] \in Requests
        BY DEF StartupInv, GuardGood, GuardTyped
      <4>2. position[c] <= Len(Plan(request[c]))
        BY DEF StartupInv, GuardGood, ClaimInv
      <4> QED BY <4>1, <4>2, PlanInSeq
    <3> QED BY <3>1
  <2>2. broke \in 0..Len(log)
    BY LenProperties DEF StartupInv, GuardGood, GuardTyped, EndInv
  <2>3. startup = "RUNNING" <=> \E c \in Caller : at[c] # "idle"
    BY DEF StartupInv, GuardGood, ClaimInv
  <2> QED BY <2>1, <2>2, <2>3 DEF TypeOK, StartupInv, DebugGood, GuardGood, GuardTyped
<1> QED BY <1>1, StartupInvariant, PTL

(* "Choose one startup entry point per reset": whoever calls what and      *)
(* whatever fails, one request at most gets past the guard, and its steps  *)
(* happen in the documented order, none after a failure.                   *)
THEOREM OneStartup == Spec => []OneStartupInOrder
<1>1. StartupInv => OneStartupInOrder
  <2> SUFFICES ASSUME StartupInv PROVE OneStartupInOrder
    OBVIOUS
  <2>1. Len(begun) <= 1
    <3>1. Len(begun) = 0 \/ Len(begun) = 1
      BY DEF StartupInv, GuardGood, ClaimInv
    <3>2. Len(begun) \in Nat
      BY LenProperties DEF StartupInv, GuardGood, GuardTyped
    <3>3. \A n \in Nat : n = 0 \/ n = 1 => n <= 1
      OBVIOUS
    <3> QED BY <3>1, <3>2, <3>3
  <2>2. ASSUME NEW i \in DOMAIN log, NEW j \in DOMAIN log, i < j
        PROVE  Rank[log[i]] < Rank[log[j]]
    <3>1. Len(log) \in Nat /\ DOMAIN log = 1..Len(log)
      BY LenProperties DEF StartupInv, GuardGood, GuardTyped
    <3>2. startup # "UNCLAIMED"
      BY <2>2, <3>1 DEF StartupInv, GuardGood, ClaimInv
    <3>3. Len(begun) = 1 /\ begun[1] \in Requests
      BY <3>2, BegunIsRequest DEF StartupInv
    <3>4. WellOrdered(Plan(begun[1]), 8) /\ Steps \in Nat
      BY <3>3, PlanProperties, PlanInSeq DEF Steps
    <3>5. /\ Len(log) <= Steps
          /\ log[i] = Plan(begun[1])[i] /\ log[j] = Plan(begun[1])[j]
      BY <2>2, <3>1, <3>2 DEF StartupInv, GuardGood, LogInv
    <3>6. i \in 1..Steps /\ j \in 1..Steps
      BY <2>2, <3>1, <3>4, <3>5
    <3> QED BY <2>2, <3>4, <3>5, <3>6 DEF WellOrdered, Steps
  <2>3. broke # 0 => broke = Len(log)
    BY DEF StartupInv, GuardGood, EndInv
  <2> QED BY <2>1, <2>2, <2>3 DEF OneStartupInOrder
<1> QED BY <1>1, StartupInvariant, PTL

(* A caller that is told SUCCESS has the system it asked for, and the      *)
(* guard remembers how the one startup ended.                              *)
THEOREM SuccessComplete == Spec => []SuccessIsComplete
<1>1. StartupInv => SuccessIsComplete
  <2> SUFFICES ASSUME StartupInv PROVE SuccessIsComplete
    OBVIOUS
  <2>1. \A c \in Caller : answer[c] = "SUCCESS" => startup = "COMPLETE"
    BY DEF StartupInv, GuardGood, EndInv
  <2>2. startup = "FAILED" <=> broke # 0 /\ \A c \in Caller : at[c] = "idle"
    <3>1. startup = "FAILED" => broke # 0 /\ \A c \in Caller : at[c] = "idle"
      BY DEF StartupInv, GuardGood, ClaimInv, EndInv
    <3>2. broke # 0 /\ (\A c \in Caller : at[c] = "idle") => startup = "FAILED"
      BY DEF StartupInv, GuardGood, GuardTyped, ClaimInv, EndInv
    <3> QED BY <3>1, <3>2
  <2>3. CASE startup = "COMPLETE"
    <3>1. Len(begun) = 1 /\ begun[1] \in Requests
      BY <2>3, BegunIsRequest DEF StartupInv
    <3>2. Complete(begun[1])
      BY <3>1, PlanProperties
    <3>3. Len(log) = Steps /\ \A i \in 1..Len(log) : log[i] = Plan(begun[1])[i]
      BY <2>3 DEF StartupInv, GuardGood, EndInv, LogInv
    <3>4. DOMAIN log = 1..Len(log)
      BY LenProperties DEF StartupInv, GuardGood, GuardTyped
    <3>5. \A x : Contains(Plan(begun[1]), x) => Happened(x)
      BY <3>3, <3>4 DEF Contains, Happened, Steps
    <3> QED BY <2>1, <2>2, <3>2, <3>5 DEF Complete, SuccessIsComplete
  <2> QED BY <2>1, <2>2, <2>3 DEF SuccessIsComplete
<1> QED BY <1>1, StartupInvariant, PTL

(* Whenever an interrupt may print, its output goes to a transport that is *)
(* fully set up and is the only one, in the middle of a switch included.   *)
THEOREM OutputReaches == Spec => []OutputReachesItsTransport
<1>1. StartupInv => OutputReachesItsTransport
  BY DEF StartupInv, DebugGood, DebugInv, AllOffBut, OutputReachesItsTransport,
         OutputEnabled
<1> QED BY <1>1, StartupInvariant, PTL

(* "Full BSP initialization releases the active NSX transport first and    *)
(* stops if that release reports an error."                                *)
THEOREM BaselineIsWithoutDebug == Spec => BaselineWithoutDebug
<1>1. StartupInv =>
        [\A c \in Caller : FullBackend(c)
           => ~OutputEnabled /\ ~sError /\ \A t \in Transport : link[t] = "off"]_startupVars
  BY BaselineReleased DEF OutputEnabled
<1> QED BY <1>1, StartupInvariant, PTL DEF BaselineWithoutDebug

(* "Subsequent setup returns that error until reset": once a debug call    *)
(* has failed, nothing touches the transports any more.                    *)
THEOREM ErrorIsFinal == Spec => DebugErrorIsFinal
<1>1. StartupInv /\ [Next]_startupVars => [sError => sError' /\ UNCHANGED link]_startupVars
  BY NextKeeps DEF LinksStayAfterError
<1> QED BY <1>1, StartupInvariant, PTL DEF Spec, DebugErrorIsFinal
=============================================================================
