------------------------------ MODULE Enrichment ------------------------------
(***************************************************************************)
(* What one analysis job leaves besides its row: the attempts of a worker  *)
(* clone the repository as it is then, count it, and fill four maps keyed  *)
(* by the job (metadata, technology, health, insights), which live in the  *)
(* memory of the process whatever the storage backend.  GET /analysis      *)
(* composes its answer from them, map by map, while the worker goes on,    *)
(* and fetches missing metadata itself.                                    *)
(*                                                                         *)
(* One carrier at a time runs the job (JobPipeline!WorkspaceExclusive), so *)
(* the clone an attempt reads is the one it made.  Results carry the       *)
(* number of the clone they describe.                                      *)
(***************************************************************************)
EXTENDS Technology, Insight

CONSTANTS
  Trees,        \* what the first clone of the repository may find
  Pushes,       \* what pushes may have turned it into at a later clone
  Hosts,        \* the host of the submitted URL as it was typed
  Responses,    \* the answers of the GitHub API looked at
  MaxAttempts,  \* bound: the attempts a job gets, JOB_MAX_RETRIES + 1
  MaxCrashes    \* bound: how many times the backend may restart

ASSUME EnrichmentAssumption ==
  /\ Trees # {} /\ MaxAttempts \in Nat \ {0} /\ MaxCrashes \in Nat
  /\ Hosts \subseteq {"github.com", "GitHub.com"} /\ Hosts # {}

VARIABLES
  host,        \* the host of the URL in the job row
  durable,     \* whether analyses and job rows are in MySQL
  status,      \* of the job row; "gone" when a restart lost it
  pc,          \* the step the attempt takes next
  attempts,    \* started so far
  checkouts,   \* the clones made so far
  metadata,    \* what GitHub answered, Missing before
  analysis,    \* the counts and the three results, each Missing or
  technology,  \*   [from |-> the clone, result |-> the value]; insights also
  health,      \*   name the clones of the results they were made from
  insight,
  get,         \* a GET /analysis on its way, or its answer
  crashes

maps == <<metadata, technology, health, insight>>
row  == <<host, durable, status>>
vars == <<row, pc, attempts, checkouts, analysis, maps, get, crashes>>

Clone == Len(checkouts)
From(x) == IF Has(x) THEN x.from ELSE 0
Value(x) == IF Has(x) THEN x.result ELSE Missing
NoAnswer == [at |-> "idle", settled |-> FALSE, technology |-> 0, health |-> 0,
             insight |-> Missing]

-----------------------------------------------------------------------------
(* GitHub *)

\* parseResponse: of the fields of the answer, the one an insight looks at.
ParseResponse(r) == [stars |-> r.stars]

\* fetchMetadata: a failed transfer, any status but 200 and any body but JSON give
\* no metadata.
FetchMetadata(r) ==
  IF r.transferred /\ r.status = 200 /\ r.body = "json"
  THEN ParseResponse(r) ELSE Missing

\* parseGitHubUrl compares the host as it is written.
ParseGitHubUrl(h) == h = "github.com"

\* fetchAndStore: stores and returns the metadata, or leaves what was stored.
FetchAndStore(h, r) ==
  metadata' = IF ParseGitHubUrl(h) /\ Has(FetchMetadata(r))
              THEN FetchMetadata(r) ELSE metadata

-----------------------------------------------------------------------------
(* An attempt: processJob and analyzeRepository *)

\* Mutant of StartAttempt: a retry carries the attempt number of the failed one.
StartAttemptSameNumber ==
  /\ pc = "idle" /\ status \in {"QUEUED", "RUNNING"} /\ attempts < MaxAttempts
  /\ \/ status' = "RUNNING" /\ pc' = "clone"
     \/ durable /\ pc' = "failed" /\ UNCHANGED status
  /\ attempts' = IF attempts = 0 THEN 1 ELSE attempts
  /\ UNCHANGED <<host, durable, checkouts, analysis, maps, get, crashes>>

\* updateStatus(RUNNING); when the write fails nothing is cloned.
StartAttempt ==
  /\ pc = "idle" /\ status \in {"QUEUED", "RUNNING"} /\ attempts < MaxAttempts
  /\ \/ status' = "RUNNING" /\ pc' = "clone"
     \/ durable /\ pc' = "failed" /\ UNCHANGED status
  /\ attempts' = attempts + 1
  /\ UNCHANGED <<host, durable, checkouts, analysis, maps, get, crashes>>

\* The previous clone is removed; the new one is the repository of this moment.
Repository ==
  IF Clone = 0 THEN Trees ELSE {checkouts[Clone]} \cup Pushes

CloneRepository ==
  /\ pc = "clone"
  /\ \/ pc' = "scan" /\ \E t \in Repository : checkouts' = Append(checkouts, t)
     \/ pc' = "failed" /\ UNCHANGED checkouts
  /\ UNCHANGED <<row, attempts, analysis, maps, get, crashes>>

\* save is void: a failed INSERT leaves what an earlier attempt stored.
ScanAndSave ==
  /\ pc = "scan"
  /\ \/ /\ pc' = "metadata"
        /\ \/ analysis' = [from |-> Clone,
                           result |-> [loc |-> checkouts[Clone].loc,
                                       files |-> checkouts[Clone].count]]
           \/ durable /\ UNCHANGED analysis
     \/ pc' = "failed" /\ UNCHANGED analysis
  /\ UNCHANGED <<row, attempts, checkouts, maps, get, crashes>>

\* The worker asks with the canonical URL.
StoreMetadata ==
  /\ pc = "metadata" /\ pc' = "technology"
  /\ \E r \in Responses : FetchAndStore("github.com", r)
  /\ UNCHANGED <<row, attempts, checkouts, analysis, technology, health,
                 insight, get, crashes>>

\* detectAndStore: an exception leaves what an earlier attempt stored.
DetectTechnology ==
  /\ pc = "technology" /\ pc' = "health"
  /\ \/ technology' = [from |-> Clone, result |-> TechnologyOf(checkouts[Clone])]
     \/ UNCHANGED technology
  /\ UNCHANGED <<row, attempts, checkouts, analysis, metadata, health,
                 insight, get, crashes>>

\* Mutant of EvaluateHealth: a health step that fails leaves the insights out.
EvaluateHealthOrStop ==
  /\ pc = "health"
  /\ \/ /\ pc' = "insight"
        /\ health' = [from |-> Clone, result |-> HealthOf(checkouts[Clone])]
     \/ pc' = "complete" /\ UNCHANGED health
  /\ UNCHANGED <<row, attempts, checkouts, analysis, metadata, technology,
                 insight, get, crashes>>

EvaluateHealth ==
  /\ pc = "health" /\ pc' = "insight"
  /\ \/ health' = [from |-> Clone, result |-> HealthOf(checkouts[Clone])]
     \/ UNCHANGED health
  /\ UNCHANGED <<row, attempts, checkouts, analysis, metadata, technology,
                 insight, get, crashes>>

\* The results are read back from the maps, so those of an earlier attempt stand
\* in for a step that failed; only the analysis may be unreadable.  Generating is
\* pure and in memory: running out of memory is not modelled.
GenerateInsight ==
  /\ pc = "insight" /\ pc' = "complete"
  /\ \E a \in {analysis} \cup (IF durable THEN {Missing} ELSE {}) :
       insight' =
         [from |-> Clone, technology |-> From(technology), health |-> From(health),
          result |-> InsightOf(Value(a), metadata, Value(technology),
                               Value(health))]
  /\ UNCHANGED <<row, attempts, checkouts, analysis, metadata, technology,
                 health, get, crashes>>

\* updateStatus(COMPLETED); a write that fails sends the attempt to its retry.
Complete ==
  /\ pc = "complete"
  /\ \/ pc' = "idle" /\ status' = "COMPLETED"
     \/ durable /\ pc' = "failed" /\ UNCHANGED status
  /\ UNCHANGED <<host, durable, attempts, checkouts, analysis, maps, get,
                 crashes>>

\* handleRetryOrDeadLetter: requeue while attempts are left and the failure allows;
\* a status write that fails is only logged.
RetryOrGiveUp ==
  /\ pc = "failed" /\ pc' = "idle"
  /\ \/ attempts < MaxAttempts /\ status' = "QUEUED"
     \/ status' = "FAILED"
     \/ durable /\ UNCHANGED status
  /\ UNCHANGED <<host, durable, attempts, checkouts, analysis, maps, get,
                 crashes>>

Attempt ==
  \/ StartAttempt \/ CloneRepository \/ ScanAndSave \/ StoreMetadata
  \/ DetectTechnology \/ EvaluateHealth \/ GenerateInsight \/ Complete
  \/ RetryOrGiveUp

-----------------------------------------------------------------------------
(* GET /analysis/:jobId: each map is read on its own. *)

Reader(step) == get.at = step
           /\ UNCHANGED <<row, pc, attempts, checkouts, analysis, technology,
                          health, insight, crashes>>

GetAnalysis ==
  /\ get.at \in {"idle", "answered"} /\ Reader(get.at) /\ UNCHANGED metadata
  /\ Has(analysis)  \* else 404
  /\ get' = [NoAnswer EXCEPT !.at = "metadata", !.settled = (status = "COMPLETED")]

\* A miss looks the job up for its URL; the row may be gone or unreadable.
GetMetadata ==
  /\ Reader("metadata") /\ UNCHANGED metadata
  /\ \/ Has(metadata) /\ get' = [get EXCEPT !.at = "technology"]
     \/ ~Has(metadata) /\ status # "gone" /\ get' = [get EXCEPT !.at = "fetch"]
     \/ ~Has(metadata) /\ durable /\ get' = [get EXCEPT !.at = "technology"]

\* The URL is the one of the job row, not the canonical one.
GetFetches ==
  /\ Reader("fetch")
  /\ \E r \in Responses : FetchAndStore(host, r)
  /\ get' = [get EXCEPT !.at = "technology"]

GetTechnology ==
  /\ Reader("technology") /\ UNCHANGED metadata
  /\ get' = [get EXCEPT !.at = "health", !.technology = From(technology)]

GetHealth ==
  /\ Reader("health") /\ UNCHANGED metadata
  /\ get' = [get EXCEPT !.at = "insight", !.health = From(health)]

GetInsight ==
  /\ Reader("insight") /\ UNCHANGED metadata
  /\ get' = [get EXCEPT !.at = "answered",
               !.insight = IF ~Has(insight) THEN Missing
                 ELSE [technology |-> insight.technology, health |-> insight.health]]

Get ==
  \/ GetAnalysis \/ GetMetadata \/ GetFetches \/ GetTechnology \/ GetHealth
  \/ GetInsight

-----------------------------------------------------------------------------

\* The maps are gone; analyses and job rows stay only in MySQL.  The message of
\* an attempt under way is delivered again.
Restart ==
  /\ crashes < MaxCrashes /\ crashes' = crashes + 1
  /\ pc' = "idle" /\ get' = NoAnswer
  /\ metadata' = Missing /\ technology' = Missing /\ health' = Missing
  /\ insight' = Missing
  /\ IF durable THEN UNCHANGED <<status, analysis>>
     ELSE status' = "gone" /\ analysis' = Missing
  /\ UNCHANGED <<host, durable, attempts, checkouts>>

Init ==
  /\ host \in Hosts /\ durable \in BOOLEAN
  /\ status = "QUEUED" /\ pc = "idle" /\ attempts = 0 /\ checkouts = <<>>
  /\ analysis = Missing /\ metadata = Missing /\ technology = Missing
  /\ health = Missing /\ insight = Missing /\ get = NoAnswer /\ crashes = 0

Next == Attempt \/ Get \/ Restart

Spec == Init /\ [][Next]_vars
-----------------------------------------------------------------------------
(* Properties *)

TypeOK ==
  /\ status \in {"QUEUED", "RUNNING", "COMPLETED", "FAILED", "gone"}
  /\ pc \in {"idle", "clone", "scan", "metadata", "technology", "health",
             "insight", "complete", "failed"}
  /\ attempts \in 0 .. MaxAttempts /\ crashes \in 0 .. MaxCrashes
  /\ Clone <= attempts
  /\ \A x \in {analysis, technology, health, insight} :
       Has(x) => x.from \in 1 .. Clone
  /\ Has(insight) => /\ insight.technology \in 0 .. Clone
                     /\ insight.health \in 0 .. Clone
  /\ get.at \in {"idle", "metadata", "fetch", "technology", "health", "insight",
                 "answered"}

\* Every category score stays within its maximum, the categories add up to the
\* overall score, and that stays within 100, whatever files overlap between the
\* categories (SECURITY.md, .gitignore, the Dockerfile and the environment
\* template count in two of them).
HealthInRange ==
  Has(health) =>
    LET h == health.result IN
    /\ \A k \in DOMAIN h.categories :
         h.categories[k].score \in 0 .. h.categories[k].max
    /\ h.overall = Overall(h.categories) /\ h.overall \in 0 .. 100

DocumentationPoints(d) ==
  Points("readme" \in d, 5) + Points("license" \in d, 4)
  + Points("changelog" \in d, 3) + Points("contributing" \in d, 3)
  + Points("security" \in d, 3) + Points("codeOfConduct" \in d, 2)

\* Two services look for the same evidence with lists of their own: of one clone
\* they see the same CI providers, and the same documentation but for the policy
\* in .github, which only the health score counts.
DetectorsAgree ==
  Has(technology) /\ Has(health) /\ technology.from = health.from =>
    LET ci == technology.result.ci
        d == technology.result.documentation
        c == health.result.categories
    IN /\ ci # {} <=> c.ciCd.score >= 12
       /\ (\E p, q \in ci : p # q) <=> c.ciCd.score >= 14
       /\ \/ c.documentation.score = DocumentationPoints(d)
          \/ "security" \notin d
             /\ c.documentation.score = DocumentationPoints(d) + 3

\* The narratives are made from sums of points, without the files at hand; the
\* warnings are "Notable absences or risks" (RepositoryHealthResult.h:65).  Here is
\* every claim that something is absent from the clone it was made from.  Tests are
\* those the score's rule for a framework finds: a risk or a summary may report no
\* automated testing of a clone with a tests directory or with Cypress.  Four
\* claims are weaker than their words: "Dependabot not configured", "No automated
\* dependency updates" and twice "No code quality tooling".  Their sums stay below
\* the threshold when dependabot.yml or a linter is there and nothing else earns
\* points, so the claim is then false; it only excludes that dependabot.yml stands
\* beside a security policy, or a linter beside a formatter.  A risk whose stored
\* health or technology result is missing claims absence too and is not covered.
ClaimsOfAbsence ==
  /\ Has(health) =>
       LET t == checkouts[health.from]  w == health.result.warnings IN
       /\ "no README" \in w => ~Readme(t)
       /\ "no LICENSE" \in w => ~License(t)
       /\ "no tests" \in w => ~TestFramework(t) /\ ~TestDirectory(t)
       /\ "no pipeline" \in w => Providers(t) = {}
       /\ "no policy" \in w => ~SecurityPolicy(t)
       /\ "no Dependabot" \in w => ~(Dependabot(t) /\ SecurityPolicy(t))
       /\ "no tools" \in w => ~(Linter(t) /\ Formatter(t))
       /\ "no .gitignore" \in w => ~FileExists(t, {".gitignore"})
  /\ Has(insight) /\ insight.technology > 0
     /\ "no pipeline" \in insight.result.risks \cup insight.result.summary =>
       CISystems(checkouts[insight.technology]) = {}
  /\ Has(insight) /\ insight.health > 0 =>
       LET t == checkouts[insight.health]  r == insight.result.risks
           s == insight.result.summary     q == insight.result.quality
       IN
       /\ "no tests" \in r => ~TestFramework(t)
       /\ "large without tests" \in r => ~TestFramework(t)
       /\ "no LICENSE" \in r => ~License(t)
       /\ "no README" \in r => ~Readme(t)
       /\ "no Dependabot" \in r => ~(Dependabot(t) /\ SecurityPolicy(t))
       /\ "no tools" \in r => ~(Linter(t) /\ Formatter(t))
       /\ "no testing" \in s => ~TestFramework(t) /\ ~TestDirectory(t)
       /\ "tests without framework" \in s => ~TestFramework(t)
       /\ "no framework" \in q => ~TestFramework(t)
       /\ "no pipeline" \in q => Providers(t) = {}

\* GET /analysis reads map after map while workers write them.  Asked after the
\* job has COMPLETED, it still answers with one story: the insights it shows were
\* made from the technologies and the health score it shows, or all are missing.
SettledReport ==
  get.at = "answered" /\ get.settled =>
    [technology |-> get.technology, health |-> get.health] =
      IF Has(get.insight) THEN get.insight ELSE [technology |-> 0, health |-> 0]
===============================================================================
