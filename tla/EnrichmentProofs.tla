--------------------------- MODULE EnrichmentProofs ---------------------------
(***************************************************************************)
(* Proofs about Enrichment, for any checkouts, answers of GitHub, attempts *)
(* and restarts: the variables keep their types; the scores stay in their  *)
(* ranges; two services that look for the same evidence see the same; what *)
(* each claim of absence in the narratives excludes; and the report of a   *)
(* completed job tells one story.                                          *)
(***************************************************************************)
EXTENDS Enrichment, TLAPS

USE EnrichmentAssumption

-----------------------------------------------------------------------------
(* Types *)

GetType ==
  [at : {"idle", "metadata", "fetch", "technology", "health", "insight",
         "answered"},
   settled : BOOLEAN, technology : Nat, health : Nat,
   insight : {Missing} \cup [technology : Nat, health : Nat]]

\* The inductive form of TypeOK: an attempt that is about to clone has been
\* counted, and one that is past its clone has a clone.
TypeInv ==
  /\ TypeOK
  /\ checkouts \in Seq(Trees \cup Pushes) /\ get \in GetType
  /\ pc = "clone" => Clone < attempts
  /\ pc \in {"scan", "metadata", "technology", "health", "insight", "complete"}
       => Clone >= 1

LEMMA TypeInit == Init => TypeInv
  BY DEF Init, TypeInv, TypeOK, GetType, NoAnswer, Clone, Has

LEMMA TypeNext == TypeInv /\ [Next]_vars => TypeInv'
<1> SUFFICES ASSUME TypeInv, [Next]_vars PROVE TypeInv'
  OBVIOUS
<1> USE DEF TypeInv, TypeOK, Clone, From, maps, row
<1>1. CASE StartAttempt
  BY <1>1 DEF StartAttempt
<1>2. CASE CloneRepository
  <2>1. CASE UNCHANGED checkouts
    BY <1>2, <2>1 DEF CloneRepository
  <2>2. CASE \E t \in Repository : checkouts' = Append(checkouts, t)
    <3>1. PICK t \in Repository : checkouts' = Append(checkouts, t)
      BY <2>2
    <3>2. t \in Trees \cup Pushes
      BY <3>1 DEF Repository
    <3>3. checkouts' \in Seq(Trees \cup Pushes) /\ Len(checkouts') = Len(checkouts) + 1
      BY <3>1, <3>2
    <3> QED BY <1>2, <2>2, <3>3 DEF CloneRepository
  <2> QED BY <1>2, <2>1, <2>2 DEF CloneRepository
<1>3. CASE ScanAndSave
  BY <1>3 DEF ScanAndSave, Has
<1>4. CASE StoreMetadata
  BY <1>4 DEF StoreMetadata
<1>5. CASE DetectTechnology
  BY <1>5 DEF DetectTechnology, Has
<1>6. CASE EvaluateHealth
  BY <1>6 DEF EvaluateHealth, Has
<1>7. CASE GenerateInsight
  BY <1>7 DEF GenerateInsight, Has
<1>8. CASE Complete
  BY <1>8 DEF Complete
<1>9. CASE RetryOrGiveUp
  BY <1>9 DEF RetryOrGiveUp
<1>10. CASE GetAnalysis
  BY <1>10 DEF GetAnalysis, Reader, GetType, NoAnswer
<1>11. CASE GetMetadata
  BY <1>11 DEF GetMetadata, Reader, GetType
<1>12. CASE GetFetches
  BY <1>12 DEF GetFetches, Reader, GetType
<1>a. /\ From(technology) \in 0 .. Clone /\ From(health) \in 0 .. Clone
      /\ Clone \in Nat
  OBVIOUS
<1> HIDE DEF From
<1>13. CASE GetTechnology
  <2> DEFINE moved == [get EXCEPT !.at = "health"]
  <2>1. moved \in GetType
    BY DEF GetType
  <2>2. get' = [moved EXCEPT !.technology = From(technology)]
    BY <1>13, Zenon DEF GetTechnology
  <2> HIDE DEF moved
  <2>3. get' \in GetType
    BY <1>a, <2>1, <2>2 DEF GetType
  <2> QED
    <3>1. /\ get'.at \in {"idle", "metadata", "fetch", "technology", "health",
                         "insight", "answered"}
          /\ UNCHANGED <<row, pc, attempts, checkouts, analysis, maps, crashes>>
      BY <1>13, <2>3 DEF GetTechnology, Reader, GetType
    <3> HIDE DEF Clone
    <3> QED BY <2>3, <3>1 DEF Clone
<1>14. CASE GetHealth
  <2> DEFINE moved == [get EXCEPT !.at = "insight"]
  <2>1. moved \in GetType
    BY DEF GetType
  <2>2. get' = [moved EXCEPT !.health = From(health)]
    BY <1>14, Zenon DEF GetHealth
  <2> HIDE DEF moved
  <2>3. get' \in GetType
    BY <1>a, <2>1, <2>2 DEF GetType
  <2> QED
    <3>1. /\ get'.at \in {"idle", "metadata", "fetch", "technology", "health",
                         "insight", "answered"}
          /\ UNCHANGED <<row, pc, attempts, checkouts, analysis, maps, crashes>>
      BY <1>14, <2>3 DEF GetHealth, Reader, GetType
    <3> HIDE DEF Clone
    <3> QED BY <2>3, <3>1 DEF Clone
<1>15. CASE GetInsight
  <2>1. get' \in GetType
    <3> DEFINE shown == IF ~Has(insight) THEN Missing
                 ELSE [technology |-> insight.technology, health |-> insight.health]
    <3>1. shown \in {Missing} \cup [technology : Nat, health : Nat]
      BY <1>a
    <3> QED BY <1>15, <3>1 DEF GetInsight, GetType
  <2> QED BY <1>15, <2>1 DEF GetInsight, Reader
<1>16. CASE Restart
  BY <1>16 DEF Restart, GetType, NoAnswer, Has
<1>17. CASE UNCHANGED vars
  BY <1>17 DEF vars
<1> QED BY <1>1, <1>2, <1>3, <1>4, <1>5, <1>6, <1>7, <1>8, <1>9, <1>10, <1>11,
           <1>12, <1>13, <1>14, <1>15, <1>16, <1>17
        DEF Next, Attempt, Get

\* Every variable keeps its type, for any number of attempts and restarts; no
\* result names a clone that was not made.
THEOREM EnrichmentTypes == Spec => []TypeOK
<1>1. TypeInv => TypeOK
  BY DEF TypeInv
<1> QED BY TypeInit, TypeNext, <1>1, PTL DEF Spec

-----------------------------------------------------------------------------
(* What the results hold *)

\* Each result is the one its rules give for the clone it names, and the insights
\* were made from the technologies and the health score of the clones they name.
TechnologyAt(n) == IF n > 0 THEN TechnologyOf(checkouts[n]) ELSE Missing
HealthAt(n) == IF n > 0 THEN HealthOf(checkouts[n]) ELSE Missing

ContentsInv ==
  /\ Has(technology) =>
       technology.result = TechnologyOf(checkouts[technology.from])
  /\ Has(health) => health.result = HealthOf(checkouts[health.from])
  /\ Has(insight) =>
       \E a, m :
         insight.result = InsightOf(a, m, TechnologyAt(insight.technology),
                                    HealthAt(insight.health))

LEMMA ContentsNext == TypeInv /\ ContentsInv /\ [Next]_vars => ContentsInv'
<1> SUFFICES ASSUME TypeInv, ContentsInv, [Next]_vars PROVE ContentsInv'
  OBVIOUS
<1> USE DEF ContentsInv, TechnologyAt, HealthAt, maps
<1>1. CASE UNCHANGED <<technology, health, insight, checkouts>>
  BY <1>1
<1>2. CASE CloneRepository
  <2>1. CASE UNCHANGED checkouts
    BY <1>2, <2>1 DEF CloneRepository
  <2>2. CASE \E t \in Repository : checkouts' = Append(checkouts, t)
    <3>1. PICK t \in Repository : checkouts' = Append(checkouts, t)
      BY <2>2
    <3>2. \A i \in 1 .. Clone : checkouts'[i] = checkouts[i]
      <4>1. t \in Trees \cup Pushes
        BY <3>1 DEF Repository, TypeInv, TypeOK, Clone
      <4> QED BY <3>1, <4>1 DEF TypeInv, Clone
    <3>3. /\ Has(technology) => technology.from \in 1 .. Clone
          /\ Has(health) => health.from \in 1 .. Clone
          /\ Has(insight) /\ insight.health > 0 => insight.health \in 1 .. Clone
          /\ Has(insight) /\ insight.technology > 0 =>
               insight.technology \in 1 .. Clone
      BY DEF TypeInv, TypeOK, Clone
    <3>4. UNCHANGED <<technology, health, insight>>
      BY <1>2 DEF CloneRepository
    <3>5. /\ Has(technology) =>
               checkouts'[technology.from] = checkouts[technology.from]
          /\ Has(health) => checkouts'[health.from] = checkouts[health.from]
          /\ Has(insight) /\ insight.health > 0 =>
               checkouts'[insight.health] = checkouts[insight.health]
          /\ Has(insight) /\ insight.technology > 0 =>
               checkouts'[insight.technology] = checkouts[insight.technology]
      BY <3>2, <3>3
    <3> QED BY <3>4, <3>5
  <2> QED BY <1>2, <2>1, <2>2 DEF CloneRepository
<1>3. CASE DetectTechnology
  BY <1>3 DEF DetectTechnology
<1>4. CASE EvaluateHealth
  BY <1>4 DEF EvaluateHealth
<1>5. CASE GenerateInsight
  <2>1. /\ From(health) > 0 <=> Has(health)
        /\ From(technology) > 0 <=> Has(technology)
    BY DEF From, TypeInv, TypeOK, Clone
  <2>2. /\ Has(health) => From(health) = health.from
        /\ Has(technology) => From(technology) = technology.from
    BY DEF From
  <2>3. /\ Value(health) = HealthAt(From(health))
        /\ Value(technology) = TechnologyAt(From(technology))
    BY <2>1, <2>2 DEF Value
  <2>4. PICK a : insight' =
           [from |-> Clone, technology |-> From(technology), health |-> From(health),
            result |-> InsightOf(Value(a), metadata, Value(technology),
                                 Value(health))]
    BY <1>5 DEF GenerateInsight
  <2>5. /\ insight'.health = From(health) /\ insight'.technology = From(technology)
        /\ insight'.result = InsightOf(Value(a), metadata, Value(technology),
                                       Value(health))
    BY <2>4
  <2>6. UNCHANGED <<technology, health, checkouts>>
    BY <1>5 DEF GenerateInsight
  <2> QED BY <2>3, <2>5, <2>6
<1>6. CASE Restart
  BY <1>6 DEF Restart, Has
<1> QED
  BY <1>1, <1>2, <1>3, <1>4, <1>5, <1>6
  DEF Next, Attempt, Get, StartAttempt, ScanAndSave, StoreMetadata, Complete,
      RetryOrGiveUp, GetAnalysis, GetMetadata, GetFetches, GetTechnology,
      GetHealth, GetInsight, Reader, vars

LEMMA ContentsAlways == Spec => [](TypeInv /\ ContentsInv)
<1>1. Init => ContentsInv
  BY DEF Init, ContentsInv, Has
<1> QED BY <1>1, TypeInit, TypeNext, ContentsNext, PTL DEF Spec

-----------------------------------------------------------------------------
(* The health score *)

\* What each rule can earn stays within the maximum of its category.
LEMMA ScoreBounds ==
  ASSUME NEW t
  PROVE  /\ Documentation(t) \in 0 .. 20 /\ Testing(t) \in 0 .. 20
         /\ CICD(t) \in 0 .. 15 /\ Security(t) \in 0 .. 15
         /\ Maintainability(t) \in 0 .. 15 /\ Configuration(t) \in 0 .. 10
         /\ ProjectStructure(t) \in 0 .. 5
<1>1. Documentation(t) \in 0 .. 20
  BY DEF Documentation, Points
<1>2. Testing(t) \in 0 .. 20
  BY DEF Testing, Points
<1>3. CICD(t) \in 0 .. 15
  BY DEF CICD, Points, AtMost
<1>4. Security(t) \in 0 .. 15
  BY DEF Security, Points, AtMost
<1>5. Maintainability(t) \in 0 .. 15
  BY DEF Maintainability, Points, AtMost
<1>6. Configuration(t) \in 0 .. 10
  BY DEF Configuration, Points, AtMost
<1>7. ProjectStructure(t) \in 0 .. 5
  BY DEF ProjectStructure, Points
<1> QED BY <1>1, <1>2, <1>3, <1>4, <1>5, <1>6, <1>7

\* The scores of a health result.
LEMMA HealthScores ==
  ASSUME NEW t
  PROVE  LET c == HealthOf(t).categories IN
         /\ c = Categories(t)
         /\ DOMAIN c = {"documentation", "testing", "ciCd", "security",
                        "maintainability", "configuration", "projectStructure"}
         /\ c.documentation.score = Documentation(t) /\ c.documentation.max = 20
         /\ c.testing.score = Testing(t) /\ c.testing.max = 20
         /\ c.ciCd.score = CICD(t) /\ c.ciCd.max = 15
         /\ c.security.score = Security(t) /\ c.security.max = 15
         /\ c.maintainability.score = Maintainability(t)
         /\ c.maintainability.max = 15
         /\ c.configuration.score = Configuration(t) /\ c.configuration.max = 10
         /\ c.projectStructure.score = ProjectStructure(t)
         /\ c.projectStructure.max = 5
         /\ HealthOf(t).overall = Overall(c)
         /\ HealthOf(t).warnings = HealthWarnings(c, Overall(c))
  BY DEF HealthOf, Categories, Category

LEMMA OverallBound ==
  ASSUME NEW c,
         c.documentation.score \in 0 .. 20, c.testing.score \in 0 .. 20,
         c.ciCd.score \in 0 .. 15, c.security.score \in 0 .. 15,
         c.maintainability.score \in 0 .. 15, c.configuration.score \in 0 .. 10,
         c.projectStructure.score \in 0 .. 5
  PROVE  Overall(c) \in 0 .. 100
<1>1. c.documentation.score + c.testing.score \in 0 .. 40
  OBVIOUS
<1>2. c.documentation.score + c.testing.score + c.ciCd.score \in 0 .. 55
  BY <1>1
<1>3. c.documentation.score + c.testing.score + c.ciCd.score + c.security.score
        \in 0 .. 70
  BY <1>2
<1>4. c.documentation.score + c.testing.score + c.ciCd.score + c.security.score
        + c.maintainability.score \in 0 .. 85
  BY <1>3
<1> QED BY <1>4 DEF Overall

LEMMA HealthRange ==
  ASSUME NEW t
  PROVE  LET h == HealthOf(t) IN
         /\ \A k \in DOMAIN h.categories :
              h.categories[k].score \in 0 .. h.categories[k].max
         /\ h.overall = Overall(h.categories) /\ h.overall \in 0 .. 100
<1> DEFINE h == HealthOf(t)
<1> DEFINE c == Categories(t)
<1>a. h.categories = c
  BY HealthScores
<1>1. \A k \in DOMAIN h.categories :
        h.categories[k].score \in 0 .. h.categories[k].max
  <2>1. /\ c.documentation.score \in 0 .. c.documentation.max
        /\ c.testing.score \in 0 .. c.testing.max
        /\ c.ciCd.score \in 0 .. c.ciCd.max
        /\ c.security.score \in 0 .. c.security.max
        /\ c.maintainability.score \in 0 .. c.maintainability.max
        /\ c.configuration.score \in 0 .. c.configuration.max
        /\ c.projectStructure.score \in 0 .. c.projectStructure.max
    BY <1>a, HealthScores, ScoreBounds
  <2>2. DOMAIN c = {"documentation", "testing", "ciCd", "security",
                    "maintainability", "configuration", "projectStructure"}
    BY <1>a, HealthScores
  <2> HIDE DEF c
  <2> QED BY <1>a, <2>1, <2>2
<1>2. h.overall = Overall(h.categories)
  BY HealthScores
<1>3. Overall(h.categories) \in 0 .. 100
  <2>1. /\ c.documentation.score \in 0 .. 20 /\ c.testing.score \in 0 .. 20
        /\ c.ciCd.score \in 0 .. 15 /\ c.security.score \in 0 .. 15
        /\ c.maintainability.score \in 0 .. 15
        /\ c.configuration.score \in 0 .. 10
        /\ c.projectStructure.score \in 0 .. 5
    BY <1>a, HealthScores, ScoreBounds
  <2> HIDE DEF c, h
  <2>2. Overall(c) \in 0 .. 100
    BY <2>1, OverallBound
  <2> QED BY <1>a, <2>2
<1> QED BY <1>1, <1>2, <1>3

\* For any checkout, whichever files it has, every category score stays within its
\* maximum and the overall score within 100.
THEOREM HealthScoreInRange == Spec => []HealthInRange
<1>1. ContentsInv => HealthInRange
  <2> SUFFICES ASSUME ContentsInv, Has(health) PROVE HealthInRange
    BY DEF HealthInRange
  <2>1. health.result = HealthOf(checkouts[health.from])
    BY DEF ContentsInv
  <2> QED BY <2>1, HealthRange DEF HealthInRange
<1> QED BY <1>1, ContentsAlways, PTL

-----------------------------------------------------------------------------
(* The narratives *)

\* What a warning says of the scores.
LEMMA WarningReasons ==
  ASSUME NEW c, NEW overall
  PROVE  LET w == HealthWarnings(c, overall) IN
         /\ "no README" \in w => c.documentation.score < 5
         /\ "no LICENSE" \in w => c.documentation.score < 4
         /\ "no tests" \in w => c.testing.score = 0
         /\ "no pipeline" \in w => c.ciCd.score = 0
         /\ "no policy" \in w => c.security.score < 4
         /\ "no Dependabot" \in w => c.security.score \in 4 .. 7
         /\ "no tools" \in w => c.maintainability.score < 5
         /\ "no .gitignore" \in w => c.configuration.score < 4
  BY DEF HealthWarnings, When

\* What a risk says of the health score and of the technologies.
LEMMA RiskReasons ==
  ASSUME NEW analysis_, NEW tech, NEW health_
  PROVE  LET r == Risks(analysis_, tech, health_) IN
         /\ "no tests" \in r => ~HasTesting(health_)
         /\ "large without tests" \in r => ~HasTesting(health_)
         /\ "no pipeline" \in r => ~HasCi(tech)
         /\ "no LICENSE" \in r => ~HasLicense(health_)
         /\ "no Dependabot" \in r => ~HasDependabot(health_)
         /\ "no README" \in r => ScoredBelow(health_, "documentation", 5)
         /\ "no tools" \in r => ScoredBelow(health_, "maintainability", 6)
  BY DEF Risks, When

\* What the summary and the quality overview say of them.
LEMMA ProseReasons ==
  ASSUME NEW tech, NEW health_
  PROVE  LET s == SummaryClaims(tech, health_)  q == QualityClaims(health_) IN
         /\ "no pipeline" \in s => ~HasCi(tech)
         /\ "no testing" \in s => ~HasTesting(health_) /\ ~HasTestDir(health_)
         /\ "tests without framework" \in s => ~HasTesting(health_)
         /\ "no framework" \in q => ScoredBelow(health_, "testing", 10)
         /\ "no pipeline" \in q => ScoredBelow(health_, "ciCd", 12)
<1> DEFINE s == SummaryClaims(tech, health_)
           q == QualityClaims(health_)
<1>1. /\ "no pipeline" \in s => ~HasCi(tech)
      /\ "no testing" \in s => ~HasTesting(health_) /\ ~HasTestDir(health_)
      /\ "tests without framework" \in s => ~HasTesting(health_)
  BY DEF SummaryClaims, When
<1>2. /\ "no framework" \in q => ScoredBelow(health_, "testing", 10)
      /\ "no pipeline" \in q => ScoredBelow(health_, "ciCd", 12)
  BY DEF QualityClaims, When
<1> QED BY <1>1, <1>2

\* A file or directory earns what its rule gives for it, whatever else is there.
LEMMA Evidence ==
  ASSUME NEW t
  PROVE  /\ Readme(t) => Documentation(t) >= 5
         /\ License(t) => Documentation(t) >= 4
         /\ TestFramework(t) => Testing(t) >= 10
         /\ TestDirectory(t) => Testing(t) >= 5
         /\ Providers(t) # {} => CICD(t) >= 12
         /\ SecurityPolicy(t) => Security(t) >= 4
         /\ Dependabot(t) /\ SecurityPolicy(t) => Security(t) >= 8
         /\ Linter(t) /\ Formatter(t) => Maintainability(t) >= 7
         /\ FileExists(t, {".gitignore"}) => Configuration(t) >= 4
<1>1. /\ Readme(t) => Documentation(t) >= 5
      /\ License(t) => Documentation(t) >= 4
  BY DEF Documentation, Points
<1>2. /\ TestFramework(t) => Testing(t) >= 10
      /\ TestDirectory(t) => Testing(t) >= 5
  BY DEF Testing, Points
<1>3. Providers(t) # {} => CICD(t) >= 12
  BY DEF CICD, Points, AtMost
<1>4. /\ SecurityPolicy(t) => Security(t) >= 4
      /\ Dependabot(t) /\ SecurityPolicy(t) => Security(t) >= 8
  BY DEF Security, Points, AtMost
<1>6. Linter(t) /\ Formatter(t) => Maintainability(t) >= 7
  BY DEF Maintainability, Points, AtMost
<1>5. FileExists(t, {".gitignore"}) => Configuration(t) >= 4
  BY DEF Configuration, Points, AtMost
<1> QED BY <1>1, <1>2, <1>3, <1>4, <1>5, <1>6

LEMMA WarningsSound ==
  ASSUME NEW t
  PROVE  LET w == HealthOf(t).warnings IN
         /\ "no README" \in w => ~Readme(t)
         /\ "no LICENSE" \in w => ~License(t)
         /\ "no tests" \in w => ~TestFramework(t) /\ ~TestDirectory(t)
         /\ "no pipeline" \in w => Providers(t) = {}
         /\ "no policy" \in w => ~SecurityPolicy(t)
         /\ "no Dependabot" \in w => ~(Dependabot(t) /\ SecurityPolicy(t))
         /\ "no tools" \in w => ~(Linter(t) /\ Formatter(t))
         /\ "no .gitignore" \in w => ~FileExists(t, {".gitignore"})
<1> DEFINE c == HealthOf(t).categories
           w == HealthOf(t).warnings
<1>1. /\ c.documentation.score = Documentation(t) /\ Documentation(t) \in Nat
      /\ c.testing.score = Testing(t) /\ Testing(t) \in Nat
      /\ c.ciCd.score = CICD(t) /\ CICD(t) \in Nat
      /\ c.security.score = Security(t) /\ Security(t) \in Nat
      /\ c.maintainability.score = Maintainability(t) /\ Maintainability(t) \in Nat
      /\ c.configuration.score = Configuration(t) /\ Configuration(t) \in Nat
  BY HealthScores, ScoreBounds
<1>2. w = HealthWarnings(c, Overall(c))
  BY HealthScores
<1>3. /\ "no README" \in w => c.documentation.score < 5
      /\ "no LICENSE" \in w => c.documentation.score < 4
      /\ "no tests" \in w => c.testing.score = 0
      /\ "no pipeline" \in w => c.ciCd.score = 0
      /\ "no policy" \in w => c.security.score < 4
      /\ "no Dependabot" \in w => c.security.score \in 4 .. 7
      /\ "no tools" \in w => c.maintainability.score < 5
      /\ "no .gitignore" \in w => c.configuration.score < 4
  BY <1>2, WarningReasons
<1> HIDE DEF c, w
<1>4. ASSUME NEW x, NEW y, x = y, y \in Nat
      PROVE  /\ x < 5 => ~(y >= 5) /\ ~(y >= 7)
             /\ x < 4 => ~(y >= 4)
             /\ x \in 4 .. 7 => ~(y >= 8)
             /\ x = 0 => ~(y >= 12) /\ ~(y >= 10) /\ ~(y >= 5)
  BY <1>4
<1>5. /\ c.documentation.score < 5 => ~(Documentation(t) >= 5)
      /\ c.documentation.score < 4 => ~(Documentation(t) >= 4)
  BY <1>1, <1>4
<1>6. c.testing.score = 0 => ~(Testing(t) >= 10) /\ ~(Testing(t) >= 5)
  BY <1>1, <1>4
<1>7. c.ciCd.score = 0 => ~(CICD(t) >= 12)
  BY <1>1, <1>4
<1>8. /\ c.security.score < 4 => ~(Security(t) >= 4)
      /\ c.security.score \in 4 .. 7 => ~(Security(t) >= 8)
      /\ c.maintainability.score < 5 => ~(Maintainability(t) >= 7)
      /\ c.configuration.score < 4 => ~(Configuration(t) >= 4)
  BY <1>1, <1>4
<1>9. /\ "no README" \in w => ~Readme(t)
      /\ "no LICENSE" \in w => ~License(t)
      /\ "no tests" \in w => ~TestFramework(t) /\ ~TestDirectory(t)
      /\ "no pipeline" \in w => Providers(t) = {}
      /\ "no policy" \in w => ~SecurityPolicy(t)
      /\ "no Dependabot" \in w => ~(Dependabot(t) /\ SecurityPolicy(t))
      /\ "no tools" \in w => ~(Linter(t) /\ Formatter(t))
      /\ "no .gitignore" \in w => ~FileExists(t, {".gitignore"})
  BY <1>3, <1>5, <1>6, <1>7, <1>8, Evidence, Zenon
<1> QED BY <1>9 DEF w

LEMMA RisksSound ==
  ASSUME NEW t, NEW a, NEW m, NEW tech
  PROVE  LET i == InsightOf(a, m, tech, HealthOf(t))
             r == i.risks  s == i.summary  q == i.quality
         IN
         /\ "no tests" \in r => ~TestFramework(t)
         /\ "large without tests" \in r => ~TestFramework(t)
         /\ "no LICENSE" \in r => ~License(t)
         /\ "no README" \in r => ~Readme(t)
         /\ "no Dependabot" \in r => ~(Dependabot(t) /\ SecurityPolicy(t))
         /\ "no tools" \in r => ~(Linter(t) /\ Formatter(t))
         /\ "no testing" \in s => ~TestFramework(t) /\ ~TestDirectory(t)
         /\ "tests without framework" \in s => ~TestFramework(t)
         /\ "no framework" \in q => ~TestFramework(t)
         /\ "no pipeline" \in q => Providers(t) = {}
<1> DEFINE h == HealthOf(t)
           i == InsightOf(a, m, tech, h)
           r == i.risks
           s == i.summary
           q == i.quality
<1>1. /\ h.categories.documentation.score = Documentation(t)
      /\ h.categories.testing.score = Testing(t)
      /\ h.categories.ciCd.score = CICD(t)
      /\ h.categories.security.score = Security(t)
      /\ h.categories.maintainability.score = Maintainability(t)
      /\ Documentation(t) \in Nat /\ Testing(t) \in Nat /\ CICD(t) \in Nat
      /\ Security(t) \in Nat /\ Maintainability(t) \in Nat
  BY HealthScores, ScoreBounds
<1>2. Has(h)
  BY DEF HealthOf, Has, Missing
<1>3. /\ r = Risks(a, tech, h) /\ s = SummaryClaims(tech, h)
      /\ q = QualityClaims(h)
  BY DEF InsightOf
<1> HIDE DEF h, i, r, s, q
<1>4. /\ "no tests" \in r => ~HasTesting(h)
      /\ "large without tests" \in r => ~HasTesting(h)
      /\ "no LICENSE" \in r => ~HasLicense(h)
      /\ "no Dependabot" \in r => ~HasDependabot(h)
      /\ "no README" \in r => ScoredBelow(h, "documentation", 5)
      /\ "no tools" \in r => ScoredBelow(h, "maintainability", 6)
  BY <1>3, RiskReasons
<1>5. /\ "no testing" \in s => ~HasTesting(h) /\ ~HasTestDir(h)
      /\ "tests without framework" \in s => ~HasTesting(h)
      /\ "no framework" \in q => ScoredBelow(h, "testing", 10)
      /\ "no pipeline" \in q => ScoredBelow(h, "ciCd", 12)
  BY <1>3, ProseReasons
<1>6. /\ ~HasTesting(h) => ~(Testing(t) >= 10)
      /\ ~HasTestDir(h) => ~(Testing(t) >= 5)
      /\ ScoredBelow(h, "testing", 10) => ~(Testing(t) >= 10)
      /\ ScoredBelow(h, "ciCd", 12) => ~(CICD(t) >= 12)
  BY <1>1, <1>2 DEF HasTesting, HasTestDir, Scored, ScoredBelow
<1>7. /\ ~HasLicense(h) => ~(Documentation(t) >= 4)
      /\ ScoredBelow(h, "documentation", 5) => ~(Documentation(t) >= 5)
  BY <1>1, <1>2 DEF HasLicense, Scored, ScoredBelow
<1>8. /\ ~HasDependabot(h) => ~(Security(t) >= 8)
      /\ ScoredBelow(h, "maintainability", 6) => ~(Maintainability(t) >= 7)
  BY <1>1, <1>2 DEF HasDependabot, Scored, ScoredBelow
<1>9. /\ "no tests" \in r => ~TestFramework(t)
      /\ "large without tests" \in r => ~TestFramework(t)
      /\ "no LICENSE" \in r => ~License(t)
      /\ "no README" \in r => ~Readme(t)
      /\ "no Dependabot" \in r => ~(Dependabot(t) /\ SecurityPolicy(t))
      /\ "no tools" \in r => ~(Linter(t) /\ Formatter(t))
      /\ "no testing" \in s => ~TestFramework(t) /\ ~TestDirectory(t)
      /\ "tests without framework" \in s => ~TestFramework(t)
      /\ "no framework" \in q => ~TestFramework(t)
      /\ "no pipeline" \in q => Providers(t) = {}
  BY <1>4, <1>5, <1>6, <1>7, <1>8, Evidence, Zenon
<1> QED BY <1>9 DEF h, i, r, s, q

\* Insights made from stored technologies name no pipeline only when none was seen.
LEMMA NoPipelineSeen ==
  ASSUME NEW t, NEW a, NEW m, NEW health_,
         LET i == InsightOf(a, m, TechnologyOf(t), health_) IN
         "no pipeline" \in i.risks \cup i.summary
  PROVE  CISystems(t) = {}
<1> DEFINE tech == TechnologyOf(t)
<1>1. tech.ci = CISystems(t) /\ Has(tech)
  BY DEF TechnologyOf, Detected, Has, Missing
<1>2. \/ "no pipeline" \in Risks(a, tech, health_)
      \/ "no pipeline" \in SummaryClaims(tech, health_)
  BY DEF InsightOf
<1> HIDE DEF tech
<1>3. "no pipeline" \in Risks(a, tech, health_) => ~HasCi(tech)
  BY RiskReasons
<1>4. "no pipeline" \in SummaryClaims(tech, health_) => ~HasCi(tech)
  BY ProseReasons
<1> QED BY <1>1, <1>2, <1>3, <1>4 DEF HasCi

\* For any checkout, and whichever results come from another attempt: what each
\* claim of absence excludes.  For four of them that is less than they say, since
\* dependabot.yml alone or a linter alone does not reach their thresholds.
THEOREM AbsenceClaims == Spec => []ClaimsOfAbsence
<1>1. TypeInv /\ ContentsInv => ClaimsOfAbsence
  <2> SUFFICES ASSUME TypeInv, ContentsInv PROVE ClaimsOfAbsence
    OBVIOUS
  <2>1. ASSUME Has(health)
        PROVE  LET t == checkouts[health.from]  w == health.result.warnings IN
               /\ "no README" \in w => ~Readme(t)
               /\ "no LICENSE" \in w => ~License(t)
               /\ "no tests" \in w => ~TestFramework(t) /\ ~TestDirectory(t)
               /\ "no pipeline" \in w => Providers(t) = {}
               /\ "no policy" \in w => ~SecurityPolicy(t)
               /\ "no Dependabot" \in w => ~(Dependabot(t) /\ SecurityPolicy(t))
               /\ "no tools" \in w => ~(Linter(t) /\ Formatter(t))
               /\ "no .gitignore" \in w => ~FileExists(t, {".gitignore"})
    <3>1. health.result = HealthOf(checkouts[health.from])
      BY <2>1 DEF ContentsInv
    <3> QED BY <3>1, WarningsSound
  <2>2. ASSUME Has(insight)
        PROVE  \E a, m : insight.result =
                 InsightOf(a, m, TechnologyAt(insight.technology),
                           HealthAt(insight.health))
    BY <2>2 DEF ContentsInv
  <2>3. ASSUME Has(insight), insight.technology > 0,
               "no pipeline" \in insight.result.risks \cup insight.result.summary
        PROVE  CISystems(checkouts[insight.technology]) = {}
    <3>1. PICK a, m : insight.result =
            InsightOf(a, m, TechnologyOf(checkouts[insight.technology]),
                      HealthAt(insight.health))
      BY <2>2, <2>3 DEF TechnologyAt
    <3> QED BY <2>3, <3>1, NoPipelineSeen
  <2>4. ASSUME Has(insight), insight.health > 0
        PROVE  LET t == checkouts[insight.health]  r == insight.result.risks
                   s == insight.result.summary     q == insight.result.quality
               IN
               /\ "no tests" \in r => ~TestFramework(t)
               /\ "large without tests" \in r => ~TestFramework(t)
               /\ "no LICENSE" \in r => ~License(t)
               /\ "no README" \in r => ~Readme(t)
               /\ "no Dependabot" \in r => ~(Dependabot(t) /\ SecurityPolicy(t))
               /\ "no tools" \in r => ~(Linter(t) /\ Formatter(t))
               /\ "no testing" \in s => ~TestFramework(t) /\ ~TestDirectory(t)
               /\ "tests without framework" \in s => ~TestFramework(t)
               /\ "no framework" \in q => ~TestFramework(t)
               /\ "no pipeline" \in q => Providers(t) = {}
    <3>1. PICK a, m : insight.result =
            InsightOf(a, m, TechnologyAt(insight.technology),
                      HealthOf(checkouts[insight.health]))
      BY <2>2, <2>4 DEF HealthAt
    <3> QED BY <3>1, RisksSound
  <2> QED BY <2>1, <2>3, <2>4 DEF ClaimsOfAbsence
<1> QED BY <1>1, ContentsAlways, PTL

-----------------------------------------------------------------------------
(* The two lists of evidence *)

\* A table, row by row.
LEMMA RowIn ==
  ASSUME NEW condition, NEW x, NEW y
  PROVE  y \in When(condition, x) <=> condition /\ y = x
BY DEF When

\* What the technology service says of a provider: its name and the confidence.
SystemOf(name) ==
  <<name, IF name \in {"Jenkins", "Bitbucket Pipelines", "Drone CI"} THEN 97 ELSE 98>>

\* The technologies of CI are the providers of the health score, each once.
LEMMA SystemsAreProviders ==
  ASSUME NEW t
  PROVE  \A s : s \in CISystems(t) <=> \E n \in Providers(t) : s = SystemOf(n)
<1> DEFINE actions == HasGitHubWorkflow(t)
           gitlab == FileExists(t, {".gitlab-ci.yml"})
           circle == FileExists(t, {".circleci/config.yml"})
           jenkins == FileExists(t, {"Jenkinsfile", "jenkins.yml"})
           travis == FileExists(t, {".travis.yml"})
           azure == FileExists(t, {"azure-pipelines.yml"})
           bitbucket == FileExists(t, {"bitbucket-pipelines.yml"})
           drone == FileExists(t, {".drone.yml", ".drone.yaml"})
<1>1. ASSUME NEW n
      PROVE  n \in Providers(t) <=>
               \/ actions /\ n = "GitHub Actions"
               \/ gitlab /\ n = "GitLab CI"
               \/ circle /\ n = "CircleCI"
               \/ jenkins /\ n = "Jenkins"
               \/ travis /\ n = "Travis CI"
               \/ azure /\ n = "Azure Pipelines"
               \/ bitbucket /\ n = "Bitbucket Pipelines"
               \/ drone /\ n = "Drone CI"
  <2>a. HasWorkflowFile(t) = actions
    BY DEF HasWorkflowFile, HasGitHubWorkflow
  <2>1. Providers(t) = UNION {
          When(actions, "GitHub Actions"),
          When(gitlab, "GitLab CI"),
          When(circle, "CircleCI"),
          When(jenkins, "Jenkins"),
          When(travis, "Travis CI"),
          When(azure, "Azure Pipelines"),
          When(bitbucket, "Bitbucket Pipelines"),
          When(drone, "Drone CI")}
    BY <2>a DEF Providers
  <2> HIDE DEF actions, gitlab, circle, jenkins, travis, azure, bitbucket, drone
  <2>2. n \in Providers(t) <=>
          \/ n \in When(actions, "GitHub Actions")
          \/ n \in When(gitlab, "GitLab CI")
          \/ n \in When(circle, "CircleCI")
          \/ n \in When(jenkins, "Jenkins")
          \/ n \in When(travis, "Travis CI")
          \/ n \in When(azure, "Azure Pipelines")
          \/ n \in When(bitbucket, "Bitbucket Pipelines")
          \/ n \in When(drone, "Drone CI")
    BY <2>1
  <2> QED BY <2>2, RowIn
<1>2. ASSUME NEW s
      PROVE  s \in CISystems(t) <=>
               \/ actions /\ s = SystemOf("GitHub Actions")
               \/ gitlab /\ s = SystemOf("GitLab CI")
               \/ circle /\ s = SystemOf("CircleCI")
               \/ jenkins /\ s = SystemOf("Jenkins")
               \/ travis /\ s = SystemOf("Travis CI")
               \/ azure /\ s = SystemOf("Azure Pipelines")
               \/ bitbucket /\ s = SystemOf("Bitbucket Pipelines")
               \/ drone /\ s = SystemOf("Drone CI")
  <2>1. CISystems(t) = UNION {
          When(actions, SystemOf("GitHub Actions")),
          When(gitlab, SystemOf("GitLab CI")),
          When(circle, SystemOf("CircleCI")),
          When(azure, SystemOf("Azure Pipelines")),
          When(jenkins, SystemOf("Jenkins")),
          When(travis, SystemOf("Travis CI")),
          When(bitbucket, SystemOf("Bitbucket Pipelines")),
          When(drone, SystemOf("Drone CI"))}
    <3>1. /\ SystemOf("GitHub Actions") = <<"GitHub Actions", 98>>
          /\ SystemOf("GitLab CI") = <<"GitLab CI", 98>>
          /\ SystemOf("CircleCI") = <<"CircleCI", 98>>
          /\ SystemOf("Jenkins") = <<"Jenkins", 97>>
          /\ SystemOf("Travis CI") = <<"Travis CI", 98>>
          /\ SystemOf("Azure Pipelines") = <<"Azure Pipelines", 98>>
          /\ SystemOf("Bitbucket Pipelines") = <<"Bitbucket Pipelines", 97>>
          /\ SystemOf("Drone CI") = <<"Drone CI", 97>>
      BY DEF SystemOf
    <3> QED BY <3>1, Zenon DEF CISystems
  <2> HIDE DEF actions, gitlab, circle, jenkins, travis, azure, bitbucket, drone
  <2>2. s \in CISystems(t) <=>
          \/ s \in When(actions, SystemOf("GitHub Actions"))
          \/ s \in When(gitlab, SystemOf("GitLab CI"))
          \/ s \in When(circle, SystemOf("CircleCI"))
          \/ s \in When(jenkins, SystemOf("Jenkins"))
          \/ s \in When(travis, SystemOf("Travis CI"))
          \/ s \in When(azure, SystemOf("Azure Pipelines"))
          \/ s \in When(bitbucket, SystemOf("Bitbucket Pipelines"))
          \/ s \in When(drone, SystemOf("Drone CI"))
    BY <2>1
  <2> QED BY <2>2, RowIn
<1> HIDE DEF actions, gitlab, circle, jenkins, travis, azure, bitbucket, drone
<1>3. ASSUME NEW s \in CISystems(t)
      PROVE  \E n \in Providers(t) : s = SystemOf(n)
  BY <1>1, <1>2
<1>4. ASSUME NEW n \in Providers(t)
      PROVE  SystemOf(n) \in CISystems(t)
  BY <1>1, <1>2
<1> QED BY <1>3, <1>4

\* What the score of CI says about the providers.
LEMMA ScoreOfCI ==
  ASSUME NEW t
  PROVE  /\ Providers(t) # {} <=> CICD(t) >= 12
         /\ (\E p, q \in Providers(t) : p # q) <=> CICD(t) >= 14
<1> DEFINE some == Providers(t) # {}
           two  == \E p, q \in Providers(t) : p # q
<1>1. two => some
  OBVIOUS
<1>2. \E b \in 0 .. 1 : CICD(t) = AtMost(Points(some, 12) + Points(two, 2) + b, 15)
  BY DEF CICD, Points
<1> HIDE DEF some, two
<1>3. /\ some <=> CICD(t) >= 12
      /\ two <=> CICD(t) >= 14
  BY <1>1, <1>2 DEF Points, AtMost
<1> QED BY <1>3 DEF some, two

\* Only a policy in .github earns points without being a documentation file.
LEMMA ScoreOfDocumentation ==
  ASSUME NEW t
  PROVE  LET d == DocumentationFiles(t) IN
         \/ Documentation(t) = DocumentationPoints(d)
         \/ "security" \notin d /\ Documentation(t) = DocumentationPoints(d) + 3
<1> DEFINE d == DocumentationFiles(t)
           policy == FileExists(t, {"SECURITY.md", "SECURITY.txt", "SECURITY",
                                    ".github/SECURITY.md"})
           changes == FileExists(t, {"CHANGELOG.md", "CHANGELOG.txt", "CHANGELOG",
                                     "HISTORY.md"})
           guide == FileExists(t, {"CONTRIBUTING.md", "CONTRIBUTING.txt",
                                   "CONTRIBUTING"})
           conduct == FileExists(t, {"CODE_OF_CONDUCT.md", "CODE_OF_CONDUCT.txt",
                                     ".github/CODE_OF_CONDUCT.md"})
<1>1. /\ "readme" \in d <=> Readme(t)
      /\ "license" \in d <=> License(t)
      /\ "changelog" \in d <=> changes
      /\ "contributing" \in d <=> guide
      /\ "codeOfConduct" \in d <=> conduct
      /\ "security" \in d <=> FileExists(t, {"SECURITY.md", "SECURITY.txt", "SECURITY"})
  BY DEF DocumentationFiles, When, Readme, License
<1>2. "security" \in d => policy
  BY <1>1 DEF FileExists
<1>3. Documentation(t) =
        Points(Readme(t), 5) + Points(License(t), 4) + Points(changes, 3)
        + Points(guide, 3) + Points(policy, 3) + Points(conduct, 2)
  BY DEF Documentation
<1>4. DocumentationPoints(d) =
        Points(Readme(t), 5) + Points(License(t), 4) + Points(changes, 3)
        + Points(guide, 3) + Points("security" \in d, 3) + Points(conduct, 2)
  BY <1>1 DEF DocumentationPoints, Points
<1> HIDE DEF d, policy, changes, guide, conduct
<1>5. \/ Documentation(t) = DocumentationPoints(d)
      \/ "security" \notin d /\ Documentation(t) = DocumentationPoints(d) + 3
  BY <1>2, <1>3, <1>4 DEF Points
<1> QED BY <1>5 DEF d

\* For any checkout: the services that look for CI providers and for documentation
\* with lists of their own see the same in one clone, but for a policy in .github.
THEOREM SameEvidence == Spec => []DetectorsAgree
<1>1. ContentsInv => DetectorsAgree
  <2> SUFFICES ASSUME ContentsInv, Has(technology), Has(health),
                      technology.from = health.from
               PROVE  DetectorsAgree
    BY DEF DetectorsAgree
  <2> DEFINE t == checkouts[health.from]
  <2>1. /\ technology.result.ci = CISystems(t)
        /\ technology.result.documentation = DocumentationFiles(t)
    BY DEF ContentsInv, TechnologyOf, Detected
  <2>2. /\ health.result.categories.ciCd.score = CICD(t)
        /\ health.result.categories.documentation.score = Documentation(t)
    BY HealthScores DEF ContentsInv
  <2> HIDE DEF t
  <2>3. /\ CISystems(t) # {} <=> Providers(t) # {}
        /\ (\E p, q \in CISystems(t) : p # q) <=> (\E p, q \in Providers(t) : p # q)
    <3>1. \A n, m : SystemOf(n) = SystemOf(m) => n = m
      BY DEF SystemOf
    <3>2. CISystems(t) # {} <=> Providers(t) # {}
      BY SystemsAreProviders
    <3>3. ASSUME NEW p \in CISystems(t), NEW q \in CISystems(t), p # q
          PROVE  \E n, m \in Providers(t) : n # m
      BY <3>3, SystemsAreProviders
    <3>4. ASSUME NEW n \in Providers(t), NEW m \in Providers(t), n # m
          PROVE  \E p, q \in CISystems(t) : p # q
      BY <3>1, <3>4, SystemsAreProviders
    <3> QED BY <3>2, <3>3, <3>4
  <2> QED BY <2>1, <2>2, <2>3, ScoreOfCI, ScoreOfDocumentation DEF DetectorsAgree
<1> QED BY <1>1, ContentsAlways, PTL

-----------------------------------------------------------------------------
(* The report of a completed job *)

\* The insights tell the story of the stored results.
Agreed ==
  IF Has(insight)
  THEN insight.technology = From(technology) /\ insight.health = From(health)
  ELSE ~Has(technology) /\ ~Has(health)

Shown ==
  IF Has(insight)
  THEN [technology |-> insight.technology, health |-> insight.health]
  ELSE Missing

\* Nothing writes the maps once the job is COMPLETED; and a report that was asked
\* for then has read them as they still are.  A failed write may leave the row of an
\* attempt QUEUED.
SettledInv ==
  /\ pc # "idle" => status \in {"QUEUED", "RUNNING"}
  /\ pc = "complete" \/ status = "COMPLETED" => Agreed
  /\ get.settled =>
       /\ status = "COMPLETED"
       /\ get.at \in {"health", "insight", "answered"} =>
            get.technology = From(technology)
       /\ get.at \in {"insight", "answered"} => get.health = From(health)
       /\ get.at = "answered" => get.insight = Shown

LEMMA SettledNext == TypeInv /\ SettledInv /\ [Next]_vars => SettledInv'
<1> SUFFICES ASSUME TypeInv, SettledInv, [Next]_vars PROVE SettledInv'
  OBVIOUS
<1> USE DEF SettledInv, maps, row, Agreed, Shown, From
<1>t. get \in GetType
  BY DEF TypeInv
<1>1. CASE StartAttempt
  BY <1>1 DEF StartAttempt
<1>2. CASE CloneRepository
  BY <1>2 DEF CloneRepository
<1>3. CASE ScanAndSave
  BY <1>3 DEF ScanAndSave
<1>4. CASE StoreMetadata
  BY <1>4 DEF StoreMetadata
<1>5. CASE DetectTechnology
  BY <1>5 DEF DetectTechnology
<1>6. CASE EvaluateHealth
  BY <1>6 DEF EvaluateHealth
<1>7. CASE GenerateInsight
  <2>1. /\ insight'.technology = From(technology)
        /\ insight'.health = From(health) /\ Has(insight')
    BY <1>7 DEF GenerateInsight, Has, Missing
  <2> QED BY <1>7, <2>1 DEF GenerateInsight
<1>8. CASE Complete
  BY <1>8 DEF Complete
<1>9. CASE RetryOrGiveUp
  BY <1>9 DEF RetryOrGiveUp
<1>10. CASE GetAnalysis
  <2>1. get'.at = "metadata" /\ get'.settled = (status = "COMPLETED")
    BY <1>10 DEF GetAnalysis, NoAnswer
  <2>2. get'.settled => status = "COMPLETED"
    BY <2>1
  <2> QED BY <1>10, <2>1, <2>2 DEF GetAnalysis, Reader
<1>11. CASE GetMetadata
  <2>1. get'.at \in {"technology", "fetch"} /\ get'.settled = get.settled
    BY <1>11, <1>t DEF GetMetadata, GetType
  <2> QED BY <1>11, <2>1 DEF GetMetadata, Reader
<1>12. CASE GetFetches
  <2>1. get'.at = "technology" /\ get'.settled = get.settled
    BY <1>12, <1>t DEF GetFetches, GetType
  <2> QED BY <1>12, <2>1 DEF GetFetches, Reader
<1>13. CASE GetTechnology
  <2>1. /\ get'.at = "health" /\ get'.technology = From(technology)
        /\ get'.settled = get.settled
    BY <1>13, <1>t, Zenon DEF GetTechnology, GetType
  <2> QED BY <1>13, <2>1 DEF GetTechnology, Reader
<1>14. CASE GetHealth
  <2>1. /\ get'.at = "insight" /\ get'.health = From(health)
        /\ get'.technology = get.technology /\ get'.settled = get.settled
        /\ get.at = "health"
    BY <1>14, <1>t, Zenon DEF GetHealth, GetType, Reader
  <2> QED BY <1>14, <2>1 DEF GetHealth, Reader
<1>15. CASE GetInsight
  <2>1. /\ get'.at = "answered" /\ get'.insight = Shown
        /\ get'.technology = get.technology /\ get'.health = get.health
        /\ get'.settled = get.settled /\ get.at = "insight"
    BY <1>15, <1>t, Zenon DEF GetInsight, GetType, Reader
  <2> QED BY <1>15, <2>1 DEF GetInsight, Reader
<1>16. CASE Restart
  <2>1. get'.settled = FALSE /\ pc' = "idle"
    BY <1>16 DEF Restart, NoAnswer
  <2>2. ~Has(insight') /\ ~Has(technology') /\ ~Has(health')
    BY <1>16 DEF Restart, Has
  <2> QED BY <2>1, <2>2
<1>17. CASE UNCHANGED vars
  BY <1>17 DEF vars
<1> QED BY <1>1, <1>2, <1>3, <1>4, <1>5, <1>6, <1>7, <1>8, <1>9, <1>10, <1>11,
           <1>12, <1>13, <1>14, <1>15, <1>16, <1>17
        DEF Next, Attempt, Get

\* However reads and attempts interleave, retry and restart, the report asked for
\* after the job has COMPLETED shows insights made from what it shows besides.
THEOREM OneStory == Spec => []SettledReport
<1>1. Init => SettledInv
  BY DEF Init, SettledInv, NoAnswer
<1>2. TypeInv /\ SettledInv => SettledReport
  <2> SUFFICES ASSUME TypeInv, SettledInv, get.at = "answered", get.settled
               PROVE  [technology |-> get.technology, health |-> get.health] =
                        IF Has(get.insight) THEN get.insight
                        ELSE [technology |-> 0, health |-> 0]
    BY DEF SettledReport
  <2>1. /\ Agreed /\ get.insight = Shown
        /\ get.technology = From(technology) /\ get.health = From(health)
    BY DEF SettledInv
  <2>2. CASE Has(insight)
    <3>1. get.insight =
            [technology |-> insight.technology, health |-> insight.health]
      BY <2>1, <2>2 DEF Shown
    <3>2. Has(get.insight)
      BY <3>1 DEF Has, Missing
    <3> QED BY <2>1, <2>2, <3>1, <3>2 DEF Agreed
  <2>3. CASE ~Has(insight)
    <3>1. ~Has(get.insight)
      BY <2>1, <2>3 DEF Shown, Has
    <3>2. From(technology) = 0 /\ From(health) = 0
      BY <2>1, <2>3 DEF Agreed, From
    <3> QED BY <2>1, <3>1, <3>2
  <2> QED BY <2>2, <2>3
<1> QED BY <1>1, <1>2, SettledNext, TypeInit, TypeNext, PTL DEF Spec
===============================================================================
