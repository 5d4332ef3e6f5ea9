----------------------------- MODULE HealthScore ------------------------------
(***************************************************************************)
(* RepositoryHealthService: seven category scores that add up to at most   *)
(* 100, a grade, and the strengths and warnings derived from the scores    *)
(* alone.  A claim is named for what it tells the reader.                  *)
(***************************************************************************)
EXTENDS Checkout, FiniteSets

Points(earned, n) == IF earned THEN n ELSE 0
AtMost(n, max) == IF n < max THEN n ELSE max

\* letterGrade
Grade(score) ==
  First(<<<<score >= 90, "A">>, <<score >= 80, "B">>, <<score >= 70, "C">>,
          <<score >= 60, "D">>>>, "F")

\* makeCategory
Category(score, max) ==
  [score |-> score, max |-> max, grade |-> Grade((score * 100) \div max)]

Readme(t) ==
  FileExists(t, {"README.md", "README.rst", "README.txt", "README", "readme.md"})
License(t) ==
  FileExists(t, {"LICENSE", "LICENSE.md", "LICENSE.txt", "LICENCE", "COPYING"})

Documentation(t) ==
  Points(Readme(t), 5) + Points(License(t), 4)
  + Points(FileExists(t, {"CHANGELOG.md", "CHANGELOG.txt", "CHANGELOG",
                          "HISTORY.md"}), 3)
  + Points(FileExists(t, {"CONTRIBUTING.md", "CONTRIBUTING.txt",
                          "CONTRIBUTING"}), 3)
  + Points(FileExists(t, {"SECURITY.md", "SECURITY.txt", "SECURITY",
                          ".github/SECURITY.md"}), 3)
  + Points(FileExists(t, {"CODE_OF_CONDUCT.md", "CODE_OF_CONDUCT.txt",
                          ".github/CODE_OF_CONDUCT.md"}), 2)

TestFramework(t) ==
  \/ ReadAnywhere(t, "CMakeLists.txt")
       \cap {"GTest", "Catch2", "doctest", "Boost.Test"} # {}
  \/ ReadAnywhere(t, "package.json")
       \cap {"jest", "vitest", "mocha", "jasmine", "ava", "@testing-library"} # {}
  \/ ReadAnywhere(t, "requirements.txt") \cap {"pytest", "unittest2"} # {}
  \/ ReadAnywhere(t, "pom.xml") \cap {"junit", "testng"} # {}
  \/ {"tokio", "[dev-dependencies]"} \subseteq ReadAnywhere(t, "Cargo.toml")

TestDirectory(t) ==
  DirAnywhere(t, {"test", "tests", "__tests__", "spec", "specs", "testing"})

\* Mutant of Testing: a coverage file and a coverage dependency both earn points.
TestingCoverageTwice(t) ==
  LET pkg == ReadAnywhere(t, "package.json") IN
  Points(TestFramework(t), 10) + Points(TestDirectory(t), 5)
  + Points(FileAnywhere(t, {".coveragerc", ".nycrc", ".c8rc", "tarpaulin.toml",
                            ".codecov.yml", "codecov.yaml"}), 3)
  + Points("coverage" \in pkg, 3)
  + Points(FileAnywhere(t, {"cypress.config.js", "cypress.config.ts",
                            "playwright.config.js", "playwright.config.ts",
                            "wdio.conf.js"})
           \/ pkg \cap {"cypress", "playwright"} # {}, 2)

Testing(t) ==
  LET pkg == ReadAnywhere(t, "package.json") IN
  Points(TestFramework(t), 10) + Points(TestDirectory(t), 5)
  + Points(FileAnywhere(t, {".coveragerc", ".nycrc", ".c8rc", "tarpaulin.toml",
                            ".codecov.yml", "codecov.yaml"})
           \/ "coverage" \in pkg, 3)
  + Points(FileAnywhere(t, {"cypress.config.js", "cypress.config.ts",
                            "playwright.config.js", "playwright.config.ts",
                            "wdio.conf.js"})
           \/ pkg \cap {"cypress", "playwright"} # {}, 2)

\* The health service's own hasGitHubWorkflow.
HasWorkflowFile(t) == Workflows(t) \cap (DotYml \cup DotYaml) # {}

\* Mutant of Providers: it knows one of the two names of the Drone file.
ProvidersOneDroneName(t) ==
  UNION {
    When(HasWorkflowFile(t), "GitHub Actions"),
    When(FileExists(t, {".gitlab-ci.yml"}), "GitLab CI"),
    When(FileExists(t, {".circleci/config.yml"}), "CircleCI"),
    When(FileExists(t, {"Jenkinsfile", "jenkins.yml"}), "Jenkins"),
    When(FileExists(t, {".travis.yml"}), "Travis CI"),
    When(FileExists(t, {"azure-pipelines.yml"}), "Azure Pipelines"),
    When(FileExists(t, {"bitbucket-pipelines.yml"}), "Bitbucket Pipelines"),
    When(FileExists(t, {".drone.yml"}), "Drone CI")}

\* Its providers are listed again, apart from those of the technology service.
Providers(t) ==
  UNION {
    When(HasWorkflowFile(t), "GitHub Actions"),
    When(FileExists(t, {".gitlab-ci.yml"}), "GitLab CI"),
    When(FileExists(t, {".circleci/config.yml"}), "CircleCI"),
    When(FileExists(t, {"Jenkinsfile", "jenkins.yml"}), "Jenkins"),
    When(FileExists(t, {".travis.yml"}), "Travis CI"),
    When(FileExists(t, {"azure-pipelines.yml"}), "Azure Pipelines"),
    When(FileExists(t, {"bitbucket-pipelines.yml"}), "Bitbucket Pipelines"),
    When(FileExists(t, {".drone.yml", ".drone.yaml"}), "Drone CI")}

CICD(t) ==
  LET providers == Providers(t) IN
  AtMost(Points(providers # {}, 12)
         + Points(\E p, q \in providers : p # q, 2)
         + Points(FileExists(t, {"render.yaml", "vercel.json", "netlify.toml",
                    "fly.toml", "railway.json", "heroku.yml", "Dockerfile",
                    "docker-compose.yml", "docker-compose.yaml"}), 1), 15)

SecurityPolicy(t) ==
  FileExists(t, {"SECURITY.md", "SECURITY", ".github/SECURITY.md"})
Dependabot(t) ==
  FileExists(t, {".github/dependabot.yml", ".github/dependabot.yaml"})
EnvTemplate(t) ==
  FileExists(t, {".env.example", ".env.sample", ".env.template", ".env.dist",
                 "env.example"})

Security(t) ==
  AtMost(Points(SecurityPolicy(t), 4) + Points(Dependabot(t), 4)
         + Points(Workflows(t) \cap ScanWorkflows # {}, 3)
         + Points(FileExists(t, {".gitignore", ".gitignore_global"}), 2)
         + Points(EnvTemplate(t), 2), 15)

\* compile_commands.json and any pyproject.toml with text count as a linter.
Linter(t) ==
  \/ FileAnywhere(t, {".eslintrc", ".eslintrc.js", ".eslintrc.json",
       ".eslintrc.yml", ".eslintrc.yaml", "eslint.config.js", ".rubocop.yml",
       ".pylintrc", "setup.cfg", ".clang-tidy", "compile_commands.json"})
  \/ ReadAnywhere(t, "pyproject.toml") # {}
Formatter(t) ==
  FileAnywhere(t, {".prettierrc", ".prettierrc.js", ".prettierrc.json",
    ".prettierrc.yaml", "prettier.config.js", "rustfmt.toml", ".rustfmt.toml",
    ".clang-format", "_clang-format"})

Maintainability(t) ==
  AtMost(Points(FileAnywhere(t, {".editorconfig"}), 3)
         + Points(Linter(t), 4) + Points(Formatter(t), 3)
         + Points(FileAnywhere(t, {"package-lock.json", "yarn.lock",
                    "pnpm-lock.yaml", "bun.lockb", "Cargo.lock", "poetry.lock",
                    "Pipfile.lock", "go.sum"}), 3)
         + Points(FileExists(t, {".gitattributes"}), 2), 15)

Configuration(t) ==
  AtMost(Points(FileExists(t, {".gitignore"}), 4)
         + Points(FileExists(t, {"Dockerfile", "dockerfile", "docker-compose.yml",
                    "docker-compose.yaml", "docker-compose.dev.yml"}), 4)
         + Points(EnvTemplate(t), 2), 10)

ProjectStructure(t) ==
  Points(DirExists(t, {"src", "lib", "source", "Sources"}), 1)
  + Points(DirExists(t, {"tests", "test", "__tests__", "spec"}), 1)
  + Points(DirExists(t, {"docs", "doc", "documentation"}), 1)
  + Points(DirExists(t, {"include", "headers", "inc"}), 1)
  + Points(DirExists(t, {"examples", "example", "samples", "sample", "demo"}), 1)

-----------------------------------------------------------------------------
(* generateNarrative: c is the record of the seven categories. *)

HealthStrengths(c) ==
  UNION {
    When(c.documentation.score = c.documentation.max, "all documentation"),
    When(c.documentation.score >= 12 /\ c.documentation.score < c.documentation.max,
         "well documented"),
    When(c.ciCd.score >= 12, "pipeline"),
    When(c.testing.score >= 15, "framework and test directory"),
    When(c.testing.score >= 10 /\ c.testing.score < 15, "framework"),
    When(c.security.score >= 8, "policy and Dependabot"),
    When(c.security.score >= 4 /\ c.security.score < 8, "policy"),
    When(c.configuration.score >= 8, "containers"),
    When(c.configuration.score >= 4 /\ c.configuration.score < 8,
         "configuration"),
    When(c.maintainability.score >= 12, "consistent style"),
    When(c.maintainability.score >= 6 /\ c.maintainability.score < 12, "tools"),
    When(c.projectStructure.score = c.projectStructure.max, "structure")}

\* Mutant of HealthWarnings: the README threshold is off by one.
HealthWarningsOffByOne(c, overall) ==
  UNION {
    When(c.documentation.score <= 5, "no README"),
    When(c.documentation.score < 4, "no LICENSE"),
    When(c.testing.score = 0, "no tests"),
    When(c.testing.score > 0 /\ c.testing.score < 10, "incomplete tests"),
    When(c.ciCd.score = 0, "no pipeline"),
    When(c.security.score < 4, "no policy"),
    When(c.security.score \in 4..7, "no Dependabot"),
    When(c.maintainability.score < 5, "no tools"),
    When(c.configuration.score < 4, "no .gitignore"),
    When(overall < 60, "low score")}

HealthWarnings(c, overall) ==
  UNION {
    When(c.documentation.score < 5, "no README"),
    When(c.documentation.score < 4, "no LICENSE"),
    When(c.testing.score = 0, "no tests"),
    When(c.testing.score > 0 /\ c.testing.score < 10, "incomplete tests"),
    When(c.ciCd.score = 0, "no pipeline"),
    When(c.security.score < 4, "no policy"),
    When(c.security.score \in 4..7, "no Dependabot"),
    When(c.maintainability.score < 5, "no tools"),
    When(c.configuration.score < 4, "no .gitignore"),
    When(overall < 60, "low score")}

HealthAdvice(c) ==
  UNION {
    When(c.documentation.score < 5, "README"),
    When(c.documentation.score < 9, "LICENSE"),
    When(c.documentation.score < 12, "CHANGELOG"),
    When(c.documentation.score < 15, "SECURITY"),
    When(c.testing.score < 10, "framework"),
    When(c.testing.score \in 10..12, "coverage"),
    When(c.ciCd.score = 0, "workflow"),
    When(c.security.score < 8, "Dependabot"),
    When(c.security.score \in 4..6, "CodeQL"),
    When(c.maintainability.score < 3, ".editorconfig"),
    When(c.maintainability.score < 7, "linter"),
    When(c.maintainability.score \in 7..9, "formatter"),
    When(c.configuration.score < 4, ".gitignore"),
    When(c.configuration.score \in 4..7, "Docker"),
    When(c.configuration.score < 10, "env template")}

Categories(t) ==
  [documentation    |-> Category(Documentation(t), 20),
   testing          |-> Category(Testing(t), 20),
   ciCd             |-> Category(CICD(t), 15),
   security         |-> Category(Security(t), 15),
   maintainability  |-> Category(Maintainability(t), 15),
   configuration    |-> Category(Configuration(t), 10),
   projectStructure |-> Category(ProjectStructure(t), 5)]

Overall(c) ==
  c.documentation.score + c.testing.score + c.ciCd.score + c.security.score
  + c.maintainability.score + c.configuration.score + c.projectStructure.score

\* evaluateAndStore, for a checkout that is there.
HealthOf(t) ==
  LET c == Categories(t)
      overall == Overall(c)
  IN [categories |-> c, overall |-> overall, grade |-> Grade(overall),
      strengths |-> HealthStrengths(c), warnings |-> HealthWarnings(c, overall),
      advice |-> HealthAdvice(c)]
===============================================================================
