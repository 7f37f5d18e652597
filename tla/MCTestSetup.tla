----------------------------- MODULE MCTestSetup ------------------------------
(***************************************************************************)
(* Instances of TestSetup for TLC: one repository for each answer the      *)
(* detection can give, with and without something in its way.              *)
(***************************************************************************)
EXTENDS TestSetup

MCText == {Absent, "plain", "script", "broken", "ours", "deps", "marked"}

Repo(files) == With(NoTree, files)
Alone(path) == Repo([p \in {path} |-> "plain"])

(* Repositories whose package.json is the only one.                        *)
Single == {
  NoTree,
  Repo([p \in {"package.json"} |-> "script"]),
  Repo([p \in {"package.json"} |-> "broken"]),
  Alone("package.json"), Alone("pyproject.toml"), Alone("requirements.txt"),
  Repo([p \in {"pyproject.toml"} |-> "marked"]),
  Repo([p \in {"package.json", "own.test"} |-> "plain"]),
  Repo([p \in {"package.json", "setup.test"} |-> "plain"]),
  Repo([p \in {"package.json", "vite.config.ts"} |-> "plain"]),
  Repo([p \in {"package.json", "vite.config.ts"} |-> "marked"]),
  Repo([p \in {"pyproject.toml", "setup.test"} |-> "plain"]),
  Repo([p \in {"package.json", "pyproject.toml"} |-> "plain"])}

(* A monorepo: the root has a test script, the first package has none.     *)
Monorepo == {
  With(Repo([p \in {"package.json"} |-> "script"]),
       [p \in {"apps/web/package.json"} |-> "plain"])}

MCLanguage == {"unknown", "python", "rust"}
MCHumanFiles == {<<"package.json", "script">>, <<"own.test", "plain">>,
                 <<"spec.md", "plain">>}
=============================================================================
