------------------------------- MODULE Checkout -------------------------------
(***************************************************************************)
(* What the detectors see of a cloned repository.  A checkout is a record: *)
(* files maps the path of a regular file to the strings that a search      *)
(* finds in it, and dirs holds the paths of the directories that are       *)
(* looked for.  A path is a pair: a place (the root or one of              *)
(* COMMON_SUBDIRS) and a name below it.  An empty file finds nothing, and  *)
(* a file with text that no rule looks for holds some other string.        *)
(*                                                                         *)
(* TechnologyService and RepositoryHealthService each have these helpers.  *)
(* The two copies say the same, so one definition stands for both, and no  *)
(* property of the detectors can see one copy change without the other.    *)
(***************************************************************************)
EXTENDS Naturals, Sequences

Root == ""

\* The root, then COMMON_SUBDIRS in the order they are tried.
Places ==
  <<Root, "backend", "frontend", "src", "server", "client", "app", "web",
    "api", "lib", "packages/backend", "packages/frontend", "apps/backend",
    "apps/frontend", "apps/api", "apps/web">>

PlaceSet == {Places[i] : i \in DOMAIN Places}

\* anyFileExists, anyDirExists: one of the names at the root.
FileExists(t, names) == \E n \in names : <<Root, n>> \in DOMAIN t.files
DirExists(t, names) == \E n \in names : <<Root, n>> \in t.dirs

\* fileExistsAnywhere, dirExistsAnywhere: at the root or in a subdirectory.
FileAnywhere(t, names) ==
  \E n \in names : \E p \in PlaceSet : <<p, n>> \in DOMAIN t.files
DirAnywhere(t, names) ==
  \E n \in names : \E p \in PlaceSet : <<p, n>> \in t.dirs

\* readFile: a file that is missing reads like an empty one.
Read(t, place, name) ==
  IF <<place, name>> \in DOMAIN t.files THEN t.files[<<place, name>>] ELSE {}

\* readFileAnywhere: the first place whose file is not empty, and only that one.
ReadAnywhere(t, name) ==
  LET filled == {i \in DOMAIN Places : Read(t, Places[i], name) # {}}
      first  == CHOOSE i \in filled : \A j \in filled : i <= j
  IN  IF filled = {} THEN {} ELSE Read(t, Places[first], name)

\* The files of .github/workflows by what their names say: an extension, and
\* codeql, security, snyk or semgrep in the name, whatever the extension.
Workflows(t) ==
  {p[2] : p \in {q \in DOMAIN t.files : q[1] = ".github/workflows"}}
DotYml == {"ci.yml", "codeql.yml"}
DotYaml == {"release.yaml"}
ScanWorkflows == {"codeql.yml", "codeql.md"}

-----------------------------------------------------------------------------
(* Tables *)

\* A row of a table that is the union of its rows: x, when the condition holds.
When(condition, x) == IF condition THEN {x} ELSE {}

\* The first row that holds, in a chain of early returns.
First(rows, otherwise) ==
  LET hits == {i \in DOMAIN rows : rows[i][1]}
  IN  IF hits = {} THEN otherwise
      ELSE rows[CHOOSE i \in hits : \A j \in hits : i <= j][2]
===============================================================================
