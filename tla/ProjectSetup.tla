---------------------------- MODULE ProjectSetup ----------------------------
(***************************************************************************)
(* The page that creates a project (projects/new/page.tsx, its             *)
(* github-repo-picker.tsx, the routes under api/github and                 *)
(* projects/actions.ts).  The picker lists repositories for a search term  *)
(* and, when one is clicked, fetches its branches; neither fetch is ever   *)
(* cancelled, so answers come in any order, also those of a picker that    *)
(* has been replaced by the form: the page's handler takes them still.     *)
(*                                                                         *)
(* The form of the other tab, for a URL that is typed, only adds rows.     *)
(*                                                                         *)
(* Assumed: a listing of branches that succeeds has the default branch     *)
(* among them (the route asks for the first hundred).                      *)
(***************************************************************************)
EXTENDS Integers, FiniteSets

CONSTANTS
  Repos, NoRepo,
  Queries,       \* search terms; "" is one of them
  MaxFetches,    \* bound on fetches of branches under way
  MaxProjects    \* bound on the submissions

\* Every repository has a default branch of its own, and one more that others
\* have too; the last is what a user may type.
Default(r) == <<r, "default">>
Shared == <<"any", "dev">>
Typed == <<"any", "typed">>
BranchesOf(r) == {Default(r), Shared}
MainBranch == <<"any", "main">>
AllBranches == (UNION {BranchesOf(r) : r \in Repos}) \cup {Typed, MainBranch}

VARIABLES
  github,    \* the page's ghStatus: "loading", "connected" or "absent"
  tab,       \* "github" or "url"
  picker,    \* is the picker shown?  With it: the term typed, whether its
             \* debounce timer runs, the terms being fetched (two fetches of
             \* one term count as one), whether it shows that it loads, the
             \* term whose answer it lists, and the repository last clicked
  asking,    \* fetches of branches under way, by repository
  form,      \* the page's selectedRepo, branches, selectedBranch, projectName
  submitted, \* the forms that createProject has been given and not answered
  projects   \* the rows: name, repository and branch

setupVars == <<github, tab, picker, asking, form, submitted, projects>>

NoPicker == [on |-> FALSE, term |-> "", timer |-> FALSE, fetching |-> {}, loading |-> TRUE, listed |-> NoRepo,
             clicked |-> NoRepo]
NoForm == [repo |-> NoRepo, branches |-> {}, branch |-> MainBranch, name |-> NoRepo]
\* It mounts: the first load, and the debounce of the empty term.
FreshPicker == [NoPicker EXCEPT !.on = TRUE, !.timer = TRUE, !.fetching = {""}]

SetupInit ==
  /\ github = "loading" /\ tab = "github" /\ picker = NoPicker
  /\ asking = [r \in Repos |-> 0]
  /\ form = NoForm
  /\ submitted = {} /\ projects = {}

\* The picker is there while this tab is open, the account is connected and no
\* repository is selected.
Shown(status, t, f) == status = "connected" /\ t = "github" /\ f.repo = NoRepo

Picker(status, t, f) ==
  picker' = IF ~Shown(status, t, f) THEN NoPicker
            ELSE IF picker.on THEN picker ELSE FreshPicker

\* GET /api/github/status: no token, one GitHub refuses or a failure is "absent".
CheckStatus ==
  /\ github = "loading"
  /\ github' \in {"connected", "absent"}
  /\ Picker(github', tab, form)
  /\ UNCHANGED <<tab, asking, form, submitted, projects>>

SwitchTab ==
  /\ tab' = IF tab = "github" THEN "url" ELSE "github"
  /\ Picker(github, tab', form)
  /\ UNCHANGED <<github, asking, form, submitted, projects>>

Search(term) ==
  /\ picker.on /\ picker.term # term
  /\ picker' = [picker EXCEPT !.term = term, !.timer = TRUE]
  /\ UNCHANGED <<github, tab, asking, form, submitted, projects>>

Debounced ==
  /\ picker.timer
  /\ picker' = [picker EXCEPT !.timer = FALSE, !.fetching = @ \cup {picker.term},
                              !.loading = TRUE]
  /\ UNCHANGED <<github, tab, asking, form, submitted, projects>>

\* GET /api/github/repos: whichever answer is last is listed, and ends the
\* loading; a failed fetch leaves the list.
fetchRepos(query) ==
  /\ query \in picker.fetching
  /\ \E listed \in {query, picker.listed} :
       picker' = [picker EXCEPT !.fetching = @ \ {query}, !.listed = listed,
                                !.loading = FALSE]
  /\ UNCHANGED <<github, tab, asking, form, submitted, projects>>

\* The list is hidden while it loads; of the repositories only the one that
\* was clicked last cannot be clicked again.
handleSelect(r) ==
  /\ picker.listed # NoRepo /\ ~picker.loading
  /\ picker.clicked # r
  /\ asking[r] < MaxFetches
  /\ picker' = [picker EXCEPT !.clicked = r]
  /\ asking' = [asking EXCEPT ![r] = @ + 1]
  /\ UNCHANGED <<github, tab, form, submitted, projects>>

\* Mutant of handleRepoSelect: the branch is left as it was.
handleRepoSelect_KeepsBranch(r, branches) ==
  form' = [form EXCEPT !.repo = r, !.branches = branches, !.name = r]

handleRepoSelect(r, branches) ==
  form' = [form EXCEPT !.repo = r, !.branches = branches, !.branch = Default(r), !.name = r]

\* The branches came, or an error in their place, or nothing at all.
Answered(r) ==
  /\ asking[r] > 0
  /\ asking' = [asking EXCEPT ![r] = @ - 1]
  /\ \E branches \in {BranchesOf(r), {}, {Default(r)}} : handleRepoSelect(r, branches)
  /\ Picker(github, tab, form')
  /\ UNCHANGED <<github, tab, submitted, projects>>

\* A list to choose from, or an input if there is none; and the name.
EditForm ==
  /\ tab = "github" /\ form.repo # NoRepo
  /\ \/ \E b \in IF form.branches = {} THEN {Typed} ELSE form.branches :
          form' = [form EXCEPT !.branch = b]
     \/ \E n \in Repos : form' = [form EXCEPT !.name = n]
  /\ UNCHANGED <<github, tab, picker, asking, submitted, projects>>

handleClearSelection ==
  /\ tab = "github" /\ form.repo # NoRepo
  /\ form' = NoForm
  /\ Picker(github, tab, form')
  /\ UNCHANGED <<github, tab, asking, submitted, projects>>

\* The button is disabled while a submission is pending; the form is not.
Submit ==
  /\ tab = "github" /\ form.repo # NoRepo
  /\ submitted = {} /\ Cardinality(projects) < MaxProjects
  /\ submitted' = {[name |-> form.name, repo |-> form.repo, branch |-> form.branch]}
  /\ UNCHANGED <<github, tab, picker, asking, form, projects>>

\* A role below developer, invalid fields, a name that is taken (the slug is
\* unique in an organisation) and a failed insert are answered with an error;
\* a success leaves for the list of projects, and this page for good.
createProject(project) ==
  /\ project \in submitted
  /\ submitted' = {}
  /\ \/ UNCHANGED <<github, tab, picker, asking, form, projects>>
     \/ /\ \A p \in projects : p.name # project.name
        /\ projects' = projects \cup {project}
        /\ github' = "loading" /\ tab' = "github" /\ picker' = NoPicker /\ form' = NoForm
        /\ asking' = [r \in Repos |-> 0]

deleteProject(project) ==
  /\ project \in projects
  /\ projects' = projects \ {project}
  /\ UNCHANGED <<github, tab, picker, asking, form, submitted>>

Picking ==
  \/ \E query \in Queries : Search(query) \/ fetchRepos(query)
  \/ Debounced
  \/ \E r \in Repos : handleSelect(r) \/ Answered(r)

Setup ==
  \/ CheckStatus \/ SwitchTab
  \/ Picking
  \/ EditForm \/ handleClearSelection \/ Submit
  \/ \E project \in submitted : createProject(project)
  \/ \E project \in projects : deleteProject(project)

SetupSpec == SetupInit /\ [][Setup]_setupVars

SetupTypeOK ==
  /\ github \in {"loading", "connected", "absent"} /\ tab \in {"github", "url"}
  /\ picker \in [on : BOOLEAN, term : Queries, timer : BOOLEAN, fetching : SUBSET Queries,
                 loading : BOOLEAN, listed : Queries \cup {NoRepo}, clicked : Repos \cup {NoRepo}]
  /\ picker.on <=> Shown(github, tab, form)
  /\ asking \in [Repos -> 0 .. MaxFetches]
  /\ form.repo \in Repos \cup {NoRepo} /\ form.branches \subseteq AllBranches

-----------------------------------------------------------------------------
(* Property. *)

\* However late answers replace the repository in the form, or bring one back
\* that was given up, a project is created with a branch that its repository
\* has, or with one that was typed (of which nothing can be said).
ProjectHasItsBranch ==
  \A p \in submitted \cup projects : p.branch \in BranchesOf(p.repo) \cup {Typed}
=============================================================================
