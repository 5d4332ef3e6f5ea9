------------------------------ MODULE Technology ------------------------------
(***************************************************************************)
(* TechnologyService: the technologies a checkout shows, by category, with *)
(* the confidence of each; the type of repository they suggest; and one    *)
(* overall confidence.  A rule is a When(found, <<name, confidence>>).      *)
(***************************************************************************)
EXTENDS Checkout, FiniteSets, FiniteSetsExt

Mentions(text, words) == text \cap words # {}

FrontendFrameworks(t) ==
  LET pkg == ReadAnywhere(t, "package.json") IN
  UNION {
    When("react:" \in pkg, <<"React", 95>>),
    When("react" \in pkg /\ "react:" \notin pkg, <<"React", 80>>),
    When(FileAnywhere(t, {"next.config.js", "next.config.mjs", "next.config.ts"})
         \/ "next" \in pkg, <<"Next.js", 97>>),
    When(FileAnywhere(t, {"vue.config.js", "vue.config.ts"}) \/ "vue" \in pkg,
         <<"Vue.js", 90>>),
    When(FileAnywhere(t, {"nuxt.config.js", "nuxt.config.ts"}) \/ "nuxt" \in pkg,
         <<"Nuxt.js", 95>>),
    When(FileAnywhere(t, {"angular.json"}), <<"Angular", 97>>),
    When(FileAnywhere(t, {"svelte.config.js", "svelte.config.ts"})
         \/ "svelte" \in pkg, <<"Svelte", 92>>),
    When(FileAnywhere(t, {"vite.config.js", "vite.config.ts", "vite.config.mjs"})
         \/ "vite" \in pkg, <<"Vite", 90>>),
    When(FileAnywhere(t, {"astro.config.mjs", "astro.config.ts"})
         \/ "astro" \in pkg, <<"Astro", 93>>),
    When("electron" \in pkg, <<"Electron", 88>>)}

\* The Python packages are also looked for in pyproject.toml, but at the root only.
BackendFrameworks(t) ==
  LET pkg    == ReadAnywhere(t, "package.json")
      python == ReadAnywhere(t, "requirements.txt")
                \cup ReadAnywhere(t, "requirements-dev.txt")
                \cup Read(t, Root, "pyproject.toml")
      cmake  == ReadAnywhere(t, "CMakeLists.txt")
      main   == ReadAnywhere(t, "src/main.cpp")
      pom    == ReadAnywhere(t, "pom.xml")
      gradle == ReadAnywhere(t, "build.gradle")
      gomod  == ReadAnywhere(t, "go.mod")
      cargo  == ReadAnywhere(t, "Cargo.toml")
  IN UNION {
    When("express" \in pkg, <<"Express.js", 95>>),
    When("@nestjs/core" \in pkg, <<"NestJS", 97>>),
    When("fastify" \in pkg, <<"Fastify", 94>>),
    When("koa" \in pkg, <<"Koa.js", 93>>),
    When("hono" \in pkg, <<"Hono", 93>>),
    When("flask" \in python, <<"Flask", 95>>),
    When("django" \in python, <<"Django", 95>>),
    When("fastapi" \in python, <<"FastAPI", 95>>),
    When("starlette" \in python, <<"Starlette", 88>>),
    When("tornado" \in python, <<"Tornado", 85>>),
    When("sanic" \in python, <<"Sanic", 88>>),
    When("find_package(Drogon" \in cmake \/ "drogon.h" \in main,
         <<"Drogon", 97>>),
    When(FileExists(t, {"crow.h", "include/crow.h"}) \/ "crow" \in cmake,
         <<"Crow", 80>>),
    When("find_package(Qt6" \in cmake, <<"Qt", 97>>),
    When("find_package(Qt6" \notin cmake
         /\ Mentions(cmake, {"find_package(Qt5", "find_package(Qt)"}),
         <<"Qt", 90>>),
    When("Boost" \in cmake /\ Mentions(cmake, {"beast", "asio"}),
         <<"Boost.Beast/Asio", 82>>),
    When("spring-boot-starter" \in pom
         \/ "org.springframework.boot" \in Read(t, Root, "build.gradle"),
         <<"Spring Boot", 96>>),
    When("io.micronaut" \in pom \cup gradle, <<"Micronaut", 90>>),
    When("io.quarkus" \in pom, <<"Quarkus", 90>>),
    When("gin" \in gomod, <<"Gin", 95>>),
    When("echo" \in gomod, <<"Echo", 95>>),
    When("fiber" \in gomod, <<"Fiber", 95>>),
    When("gorilla/mux" \in gomod, <<"Gorilla Mux", 90>>),
    When("actix-web" \in cargo, <<"Actix Web", 95>>),
    When("axum" \in cargo, <<"Axum", 95>>),
    When("rocket" \in cargo, <<"Rocket", 95>>),
    When("warp" \in cargo, <<"Warp", 90>>)}

\* Only the manifests at the root are read.
MLFrameworks(t) ==
  LET req == Read(t, Root, "requirements.txt")
      pkg == Read(t, Root, "package.json")
  IN UNION {
    When("tensorflow" \in req \/ "@tensorflow/tfjs" \in pkg,
         <<"TensorFlow", 92>>),
    When("torch" \in req, <<"PyTorch", 92>>),
    When(Mentions(req, {"scikit-learn", "sklearn"}), <<"scikit-learn", 92>>),
    When("numpy" \in req, <<"NumPy", 92>>),
    When("pandas" \in req, <<"Pandas", 92>>),
    When("keras" \in req, <<"Keras", 92>>),
    When(Mentions(req, {"transformers", "datasets"}), <<"Hugging Face", 92>>),
    When("langchain" \in req, <<"LangChain", 92>>),
    When("openai" \in req \cup pkg, <<"OpenAI SDK", 92>>)}

BuildSystems(t) ==
  UNION {
    When(FileAnywhere(t, {"CMakeLists.txt"}), <<"CMake", 98>>),
    When(FileAnywhere(t, {"Makefile", "makefile", "GNUmakefile"}),
         <<"Make", 95>>),
    When(FileAnywhere(t, {"meson.build", "meson_options.txt"}), <<"Meson", 97>>),
    When(FileAnywhere(t, {"BUILD", "WORKSPACE", "BUILD.bazel", "WORKSPACE.bazel"}),
         <<"Bazel", 95>>),
    When(FileAnywhere(t, {"Cargo.toml"}), <<"Cargo", 98>>),
    When(FileAnywhere(t, {"build.gradle", "build.gradle.kts"}),
         <<"Gradle", 97>>),
    When(FileAnywhere(t, {"pom.xml"}), <<"Maven", 98>>),
    When(FileAnywhere(t, {"package.json"}), <<"npm scripts", 85>>),
    When(FileAnywhere(t, {"SConstruct", "SConscript"}), <<"SCons", 93>>),
    When(FileAnywhere(t, {"setup.py", "setup.cfg"}), <<"setuptools", 90>>),
    When(FileAnywhere(t, {"pyproject.toml"}), <<"Poetry / PEP 517", 88>>),
    When(FileAnywhere(t, {"justfile", "Justfile"}), <<"Just", 85>>)}

\* One package manager for JavaScript and one for Python: the first whose lock
\* file is there.
PackageManagers(t) ==
  LET first(chain) == {First(chain, <<"none", 0>>)} \ {<<"none", 0>>} IN
  first(<<
    <<FileAnywhere(t, {"pnpm-lock.yaml"}), <<"pnpm", 98>>>>,
    <<FileAnywhere(t, {"yarn.lock"}), <<"Yarn", 98>>>>,
    <<FileAnywhere(t, {"package-lock.json"}), <<"npm", 98>>>>,
    <<FileAnywhere(t, {"bun.lockb", "bun.lock"}), <<"Bun", 97>>>>>>)
  \cup first(<<
    <<FileAnywhere(t, {"poetry.lock"}), <<"Poetry", 98>>>>,
    <<FileAnywhere(t, {"Pipfile.lock", "Pipfile"}), <<"Pipenv", 95>>>>,
    <<FileAnywhere(t, {"requirements.txt"}), <<"pip", 85>>>>>>)
  \cup UNION {
    When(FileAnywhere(t, {"Cargo.lock"}), <<"Cargo", 98>>),
    When(FileAnywhere(t, {"go.sum"}), <<"Go Modules", 98>>),
    When(FileAnywhere(t, {"conanfile.txt", "conanfile.py"}), <<"Conan", 96>>),
    When(FileAnywhere(t, {"vcpkg.json", "vcpkg.txt"}), <<"vcpkg", 96>>),
    When(FileAnywhere(t, {"Gemfile", "Gemfile.lock"}), <<"Bundler", 97>>),
    When(FileAnywhere(t, {"composer.json"}), <<"Composer", 97>>)}

TestingFrameworks(t) ==
  LET cmake == ReadAnywhere(t, "CMakeLists.txt")
      pkg   == ReadAnywhere(t, "package.json")
      req   == ReadAnywhere(t, "requirements.txt")
      cargo == ReadAnywhere(t, "Cargo.toml")
      pom   == ReadAnywhere(t, "pom.xml")
  IN UNION {
    When(Mentions(cmake, {"GTest", "gtest", "GoogleTest", "google/googletest"}),
         <<"GoogleTest", 93>>),
    When(Mentions(cmake, {"Catch2", "catch2"}), <<"Catch2", 93>>),
    When(Mentions(cmake, {"Boost.Test", "unit_test_framework"}),
         <<"Boost.Test", 88>>),
    When("doctest" \in cmake, <<"doctest", 88>>),
    When("vitest" \in pkg, <<"Vitest", 95>>),
    When(Mentions(pkg, {"jest", "@jest/core"}), <<"Jest", 95>>),
    When("mocha" \in pkg, <<"Mocha", 93>>),
    When("cypress" \in pkg, <<"Cypress", 93>>),
    When(Mentions(pkg, {"playwright", "@playwright/test"}),
         <<"Playwright", 93>>),
    When("jasmine" \in pkg, <<"Jasmine", 90>>),
    When("@testing-library/react" \in pkg, <<"React Testing Library", 92>>),
    When("pytest" \in req, <<"pytest", 95>>),
    When("unittest2" \in req, <<"unittest", 85>>),
    When(Mentions(pom, {"junit", "JUnit"}), <<"JUnit", 93>>),
    When("mockito" \in pom, <<"Mockito", 90>>),
    When("tokio" \in cargo, <<"Tokio Test", 82>>)}

HasGitHubWorkflow(t) == Workflows(t) \cap (DotYml \cup DotYaml) # {}

CISystems(t) ==
  UNION {
    When(HasGitHubWorkflow(t), <<"GitHub Actions", 98>>),
    When(FileExists(t, {".gitlab-ci.yml"}), <<"GitLab CI", 98>>),
    When(FileExists(t, {".circleci/config.yml"}), <<"CircleCI", 98>>),
    When(FileExists(t, {"azure-pipelines.yml"}), <<"Azure Pipelines", 98>>),
    When(FileExists(t, {"Jenkinsfile", "jenkins.yml"}), <<"Jenkins", 97>>),
    When(FileExists(t, {".travis.yml"}), <<"Travis CI", 98>>),
    When(FileExists(t, {"bitbucket-pipelines.yml"}),
         <<"Bitbucket Pipelines", 97>>),
    When(FileExists(t, {".drone.yml", ".drone.yaml"}), <<"Drone CI", 97>>)}

Containers(t) ==
  UNION {
    When(FileExists(t, {"Dockerfile", "dockerfile", "Dockerfile.dev",
                        "Dockerfile.prod"}), <<"Docker", 98>>),
    When(FileExists(t, {"docker-compose.yml", "docker-compose.yaml",
                        "docker-compose.dev.yml", "docker-compose.prod.yml"}),
         <<"Docker Compose", 98>>),
    When(DirExists(t, {"k8s", "kubernetes", "manifests"})
         \/ FileExists(t, {"k8s.yaml", "deployment.yaml"}),
         <<"Kubernetes", 85>>),
    When(DirExists(t, {"helm", "charts"}) \/ FileExists(t, {"Chart.yaml"}),
         <<"Helm", 90>>),
    When(FileExists(t, {"skaffold.yaml", "skaffold.yml"}), <<"Skaffold", 92>>)}

\* template.yml opens the SAM rule, but only template.yaml is ever read.
CloudProviders(t) ==
  UNION {
    When(FileExists(t, {"serverless.yml", "serverless.yaml"}),
         <<"Serverless Framework", 92>>),
    When(FileExists(t, {"template.yaml", "template.yml"})
         /\ Mentions(Read(t, Root, "template.yaml"),
                     {"AWSTemplateFormatVersion", "AWS::"}),
         <<"AWS SAM / CloudFormation", 90>>),
    When(FileExists(t, {"terraform.tf", "main.tf", "variables.tf"}),
         <<"Terraform", 95>>),
    When(FileExists(t, {".pulumi"}) \/ DirExists(t, {".pulumi"}),
         <<"Pulumi", 90>>),
    When(FileExists(t, {"render.yaml", "render.yml"}), <<"Render", 95>>),
    When(FileExists(t, {"vercel.json", ".vercel"}), <<"Vercel", 95>>),
    When(FileExists(t, {"netlify.toml", ".netlify"}), <<"Netlify", 95>>),
    When(FileExists(t, {"fly.toml"}), <<"Fly.io", 97>>),
    When(FileExists(t, {"railway.json", "railway.toml"}), <<"Railway", 97>>),
    When("runtime:" \in Read(t, Root, "app.yaml"), <<"Google App Engine", 80>>)}

Databases(t) ==
  LET pkg   == ReadAnywhere(t, "package.json")
      req   == ReadAnywhere(t, "requirements.txt")
      cmake == ReadAnywhere(t, "CMakeLists.txt")
      cargo == ReadAnywhere(t, "Cargo.toml")
      pom   == ReadAnywhere(t, "pom.xml")
      gomod == ReadAnywhere(t, "go.mod")
  IN UNION {
    When("mysql" \in pkg \/ Mentions(req, {"mysql", "pymysql"})
         \/ "mysqlcppconn" \in cmake \/ "mysql-connector" \in pom,
         <<"MySQL", 88>>),
    When(Mentions(pkg, {"pg", "postgres"}) \/ Mentions(req, {"psycopg", "asyncpg"})
         \/ "libpq" \in cmake \/ "postgresql" \in pom, <<"PostgreSQL", 88>>),
    When(Mentions(pkg, {"better-sqlite3", "sqlite3"}) \/ "sqlite" \in req
         \/ Mentions(cmake, {"SQLite", "sqlite3"}), <<"SQLite", 88>>),
    When(Mentions(pkg, {"mongodb", "mongoose"}) \/ Mentions(req, {"pymongo", "motor"}),
         <<"MongoDB", 88>>),
    When("redis" \in pkg \/ Mentions(req, {"redis", "aioredis"}),
         <<"Redis", 88>>),
    When(FileAnywhere(t, {"prisma/schema.prisma"}), <<"Prisma", 88>>),
    When("drizzle-orm" \in pkg, <<"Drizzle ORM", 88>>),
    When("typeorm" \in pkg, <<"TypeORM", 88>>),
    When("sequelize" \in pkg, <<"Sequelize", 88>>),
    When("sqlalchemy" \in req, <<"SQLAlchemy", 88>>),
    When("diesel" \in cargo, <<"Diesel", 88>>),
    When("sqlx" \in cargo, <<"sqlx", 88>>),
    When("spring-data-jpa" \in pom, <<"Spring Data JPA", 88>>),
    When("gorm.io/gorm" \in gomod, <<"GORM", 88>>)}

DocumentationFiles(t) ==
  UNION {
    When(FileExists(t, {"README.md", "README.rst", "README.txt", "README",
                        "readme.md"}), "readme"),
    When(FileExists(t, {"LICENSE", "LICENSE.md", "LICENSE.txt", "LICENCE",
                        "COPYING"}), "license"),
    When(FileExists(t, {"CHANGELOG.md", "CHANGELOG.txt", "CHANGELOG",
                        "HISTORY.md"}), "changelog"),
    When(FileExists(t, {"CONTRIBUTING.md", "CONTRIBUTING.txt", "CONTRIBUTING"}),
         "contributing"),
    When(FileExists(t, {"SECURITY.md", "SECURITY.txt", "SECURITY"}), "security"),
    When(FileExists(t, {"CODE_OF_CONDUCT.md", "CODE_OF_CONDUCT.txt",
                        ".github/CODE_OF_CONDUCT.md"}), "codeOfConduct")}

-----------------------------------------------------------------------------

\* The detectors' results; frameworks is the merged list of detectAndStore.
Detected(t) ==
  LET frontend == FrontendFrameworks(t)
      backend  == BackendFrameworks(t)
      ml       == MLFrameworks(t)
  IN [frontend |-> frontend, backend |-> backend, ml |-> ml,
      frameworks |-> ml \cup frontend \cup backend,
      build |-> BuildSystems(t), packages |-> PackageManagers(t),
      testing |-> TestingFrameworks(t), ci |-> CISystems(t),
      containers |-> Containers(t), cloud |-> CloudProviders(t),
      databases |-> Databases(t), documentation |-> DocumentationFiles(t)]

Named(items, name) == \E i \in items : i[1] = name

\* inferRepositoryType.  Electron counts as a frontend, so among the backends
\* only Qt makes a desktop application; Tauri is never detected.
RepositoryType(d) ==
  LET web == d.frontend # {} \/ d.backend # {} IN
  First(<<
    <<Cardinality(d.ml) >= 2, "Machine Learning">>,
    <<\E n \in {"Qt", "Electron", "Tauri"} : Named(d.backend, n),
      "Desktop Application">>,
    <<d.frontend # {} /\ d.backend # {}, "Full-Stack Application">>,
    <<d.frontend # {}, "Frontend SPA">>,
    <<d.backend # {}, "Backend API">>,
    <<Named(d.build, "CMake") /\ ~web, "C++ Application">>,
    <<Named(d.build, "Cargo") /\ ~web, "Rust Application">>,
    <<d.ci # {} /\ ~web, "CLI Application">>,
    <<d.databases # {} /\ d.backend = {}, "Backend API">>,
    <<d.ml # {}, "Machine Learning">>>>, "Unknown")

ConfidenceLists(d) ==
  <<d.frontend, d.backend, d.frameworks, d.build, d.packages, d.testing, d.ci,
    d.containers, d.cloud, d.databases>>

\* calculateConfidenceScore: the average over the lists, in which a frontend or
\* backend framework stands twice, once in its own list and once in the merged one.
ConfidenceScore(d) ==
  LET lists == ConfidenceLists(d)
      items == UNION {{<<i, x>> : x \in lists[i]} : i \in DOMAIN lists}
  IN  IF items = {} THEN 50
      ELSE MapThenSumSet(LAMBDA x : x[2][2], items) \div Cardinality(items)

\* detectAndStore, for a checkout that is there.
TechnologyOf(t) ==
  LET d == Detected(t) IN
  [ci |-> d.ci, containers |-> d.containers, cloud |-> d.cloud, build |-> d.build,
   components |-> Cardinality(d.frameworks) + Cardinality(d.build)
     + Cardinality(d.ci) + Cardinality(d.containers) + Cardinality(d.databases),
   documentation |-> d.documentation,
   type |-> RepositoryType(d), confidence |-> ConfidenceScore(d)]
===============================================================================
