------------------------------- MODULE Insight --------------------------------
(***************************************************************************)
(* RepositoryInsightService: the classes, strengths, risks and suggestions *)
(* derived from up to four stored results, any of which may be missing     *)
(* (Missing).  Of the prose, only what it claims is kept.                  *)
(***************************************************************************)
EXTENDS HealthScore

Missing == [missing |-> TRUE]
Has(x) == x # Missing

\* The convenience accessors.
Loc(analysis) == IF Has(analysis) THEN analysis.loc ELSE 0
FileCount(analysis) == IF Has(analysis) THEN analysis.files ELSE 0
Stars(metadata) == IF Has(metadata) THEN metadata.stars ELSE 0
HasCi(tech) == Has(tech) /\ tech.ci # {}
HasDocker(tech) == Has(tech) /\ tech.containers # {}
TechCount(tech) == IF Has(tech) THEN tech.components ELSE 0
Scored(health, category, n) ==
  Has(health) /\ health.categories[category].score >= n
ScoredBelow(health, category, n) ==
  Has(health) /\ health.categories[category].score < n
HasTesting(health) == Scored(health, "testing", 10)
HasTestDir(health) == Scored(health, "testing", 5)
HasLicense(health) == Scored(health, "documentation", 4)
HasAllDocs(health) == Scored(health, "documentation", 18)
HasDependabot(health) == Scored(health, "security", 8)

ProjectSize(analysis) ==
  LET l == Loc(analysis)  f == FileCount(analysis) IN
  First(<<<<l >= 100000 \/ f >= 2000, "Enterprise">>,
          <<l >= 25000 \/ f >= 500, "Large">>,
          <<l >= 5000 \/ f >= 150, "Medium">>,
          <<l >= 500 \/ f >= 30, "Small">>>>, "Tiny")

Maturity(metadata, tech, health) ==
  LET score == IF Has(health) THEN health.overall ELSE 0
      ci == HasCi(tech)
      docs == HasAllDocs(health)
      license == HasLicense(health)
  IN First(<<
    <<score >= 85 /\ ci /\ HasTesting(health) /\ docs /\ HasDependabot(health),
      "Enterprise Grade">>,
    <<score >= 65 /\ ci /\ docs /\ license
      /\ (HasTesting(health) \/ Stars(metadata) > 10), "Open Source Library">>,
    <<score >= 50 /\ ci /\ license, "Production Ready">>,
    <<score >= 30 /\ docs, "Personal Project">>>>, "Prototype")

Complexity(analysis, tech) ==
  LET l == Loc(analysis)  c == TechCount(tech) IN
  First(<<<<c > 10 \/ l > 100000, "Very High">>,
          <<c > 6 \/ l > 25000, "High">>,
          <<c > 3 \/ l > 2000, "Medium">>>>, "Low")

\* generateSummary: whether it names a pipeline comes from the technologies.
SummaryClaims(tech, health) ==
  UNION {
    When(Scored(health, "documentation", 18), "comprehensive documentation"),
    When(Scored(health, "documentation", 12) /\ ScoredBelow(health, "documentation", 18),
         "partial documentation"),
    When(ScoredBelow(health, "documentation", 12), "minimal documentation"),
    When(HasCi(tech), "pipeline"),
    When(~HasCi(tech), "no pipeline"),
    When(~HasTesting(health) /\ HasTestDir(health), "tests without framework"),
    When(~HasTesting(health) /\ ~HasTestDir(health), "no testing")}

\* generateQualityOverview: here the pipeline comes from the health scores.
QualityClaims(health) ==
  IF ~Has(health) THEN {"unavailable"}
  ELSE UNION {
    When(Scored(health, "documentation", 20), "complete documentation"),
    When(ScoredBelow(health, "documentation", 5), "critical documentation"),
    When(Scored(health, "testing", 15), "solid testing"),
    When(Scored(health, "testing", 10) /\ ScoredBelow(health, "testing", 15),
         "framework"),
    When(ScoredBelow(health, "testing", 10), "no framework"),
    When(Scored(health, "ciCd", 12), "pipeline"),
    When(ScoredBelow(health, "ciCd", 12), "no pipeline"),
    When(Scored(health, "security", 10), "strong security"),
    When(Scored(health, "security", 4) /\ ScoredBelow(health, "security", 10),
         "basic security"),
    When(ScoredBelow(health, "security", 4), "minimal security")}

Strengths(tech, health) ==
  UNION {
    When(Scored(health, "documentation", 20), "all documentation"),
    When(Scored(health, "documentation", 12) /\ ScoredBelow(health, "documentation", 20),
         "good documentation"),
    When(HasCi(tech), "pipeline"),
    When(HasTesting(health), "framework"),
    When(HasTestDir(health) /\ ~HasTesting(health), "test directory"),
    When(HasDocker(tech), "containers"),
    When(Has(tech) /\ tech.cloud # {}, "cloud"),
    When(Scored(health, "maintainability", 10), "tools"),
    When(HasDependabot(health), "Dependabot"),
    When(TechCount(tech) >= 6, "diverse stack")}

Risks(analysis, tech, health) ==
  UNION {
    When(~HasTesting(health), "no tests"),
    When(~HasCi(tech), "no pipeline"),
    When(~HasLicense(health), "no LICENSE"),
    When(~HasDependabot(health), "no Dependabot"),
    When(ScoredBelow(health, "security", 7), "weak security"),
    When(ScoredBelow(health, "documentation", 5), "no README"),
    When(ScoredBelow(health, "maintainability", 6), "no tools"),
    When(Loc(analysis) > 10000 /\ ~HasTesting(health), "large without tests")}

\* The wording that depends on the build system is left out.
Suggestions(tech, health) ==
  UNION {
    When(~HasTesting(health), "tests"),
    When(~HasCi(tech), "workflow"),
    When(~HasDependabot(health), "Dependabot"),
    When(HasTestDir(health) /\ ScoredBelow(health, "testing", 13), "coverage"),
    When(ScoredBelow(health, "security", 7), "CodeQL"),
    When(ScoredBelow(health, "documentation", 12), "CHANGELOG"),
    When(ScoredBelow(health, "maintainability", 7), "linter"),
    When(ScoredBelow(health, "configuration", 10), "env template"),
    When(~HasLicense(health), "LICENSE")}

\* generate
InsightOf(analysis, metadata, tech, health) ==
  [size |-> ProjectSize(analysis), maturity |-> Maturity(metadata, tech, health),
   complexity |-> Complexity(analysis, tech),
   summary |-> SummaryClaims(tech, health), quality |-> QualityClaims(health),
   strengths |-> Strengths(tech, health), risks |-> Risks(analysis, tech, health),
   suggestions |-> Suggestions(tech, health)]
===============================================================================
