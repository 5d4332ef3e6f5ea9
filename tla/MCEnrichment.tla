----------------------------- MODULE MCEnrichment -----------------------------
(* Small repositories, GitHub answers and bounds for Enrichment. *)
EXTENDS Enrichment

At(name, finds) == [path |-> <<Root, name>>, finds |-> finds]

\* The files whose combinations are all looked at.
Evidence ==
  {At("README.md", {"text"}), At(".gitlab-ci.yml", {"text"}),
   At(".drone.yaml", {"text"})}

\* A desktop application in a monorepo, whose package.json at the root hides the
\* one of the frontend.
Monorepo ==
  {At("package.json", {"text", "electron", "jest"}), At("README.md", {"text"}),
   [path |-> <<"frontend", "package.json">>, finds |-> {"text", "vue", "pg"}],
   [path |-> <<"backend", "CMakeLists.txt">>,
    finds |-> {"text", "find_package(Drogon", "GTest"}],
   [path |-> <<".github/workflows", "ci.yml">>, finds |-> {"text"}],
   [path |-> <<".github/workflows", "codeql.md">>, finds |-> {"text"}],
   At("Dockerfile", {"text"}), At("docker-compose.yml", {"text"}),
   At("vercel.json", {"text"})}

\* Everything the health score looks for.
Exemplary ==
  {At(n, {"text"}) : n \in
    {"README.md", "LICENSE", "CHANGELOG.md", "CONTRIBUTING.md", "SECURITY.md",
     "CODE_OF_CONDUCT.md", ".gitignore", ".env.example", ".editorconfig",
     ".clang-format", ".clang-tidy", "Cargo.lock", ".gitattributes", "Dockerfile",
     ".github/dependabot.yml", ".travis.yml", "Jenkinsfile", "wdio.conf.js",
     ".coveragerc"}}
  \cup {At("package.json", {"react", "react:", "express", "coverage", "cypress"}),
        At("Cargo.toml", {"tokio", "[dev-dependencies]", "axum", "sqlx"}),
        [path |-> <<".github/workflows", "codeql.yml">>, finds |-> {"text"}]}

Science ==
  {At("requirements.txt", {"torch", "numpy", "pytest", "flask"})}

Tree(files, dirs, loc) ==
  [files |-> [p \in {f.path : f \in files} |->
               UNION {f.finds : f \in {x \in files : x.path = p}}],
   dirs |-> {<<Root, d>> : d \in dirs}, loc |-> loc, count |-> loc \div 100]

MCTrees ==
  {Tree(s, {}, 20) : s \in SUBSET Evidence}
  \cup {Tree(Monorepo, {"frontend", "backend", "docs"}, 30000),
        Tree(Exemplary, {"src", "tests", "docs", "include", "examples"}, 120000),
        Tree(Exemplary, {"specs"}, 3000), Tree(Science, {"tests"}, 20000),
        Tree({At(".github/SECURITY.md", {"text"}),
              [path |-> <<".github/workflows", "release.yaml">>, finds |-> {"text"}]},
             {"tests"}, 100),
        Tree({At(".github/dependabot.yml", {"text"}), At(".clang-tidy", {"text"})},
             {}, 100)}
MCPushes == {Tree(Monorepo, {"frontend", "backend", "docs"}, 30000)}

Response(transferred, code, body) ==
  [transferred |-> transferred, status |-> code, body |-> body, stars |-> 50]

\* An answer, and one failure of each kind.
MCResponses ==
  {Response(TRUE, 200, "json"), Response(TRUE, 403, "json"),
   Response(TRUE, 200, "broken"), Response(FALSE, 0, "empty")}

MCHosts == {"github.com", "GitHub.com"}
===============================================================================
