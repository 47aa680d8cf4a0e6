-------------------------------- MODULE Project --------------------------------
(***************************************************************************)
(* kratos new: cmd/kratos/internal/project and the repository cache of     *)
(* cmd/kratos/internal/base.  Commands run in several terminals; each      *)
(* creates a project in its own directory and all of them share the cached *)
(* clone of the layout repository under ~/.kratos.  A command gives up at  *)
(* its deadline, and its process ends wherever its goroutine is: what it   *)
(* has done on disk stays, and a git process it started may live on.       *)
(*                                                                         *)
(* The clone is what git (external) makes of it: a HEAD, files that are    *)
(* replaced one by one, and the lock on its index, which lets one git      *)
(* process at a time write files.  git clone sets HEAD before it checks    *)
(* the files out, git pull after.                                          *)
(***************************************************************************)
EXTENDS Integers, FiniteSets

CONSTANTS
    Terminals,  \* concurrent users of the command
    Files,      \* files of the layout, each in a directory of its own
    GoMod,      \* the file go.mod
    Server,     \* the file in cmd/server
    ModFiles,   \* files Add leaves out (go.mod, api, README.md, ...)
    MaxRuns,    \* bound: commands in all
    MaxVersion  \* bound: versions of the layout

ASSUME ProjectAssumption ==
    /\ ModFiles \subseteq Files /\ GoMod \in ModFiles /\ Server \in Files \ ModFiles
    /\ MaxRuns \in Nat /\ MaxVersion \in Nat \ {0}

VARIABLES
    remote,    \* version of the layout repository
    ref,       \* what --branch names: a branch, or a tag (a detached HEAD)
    head,      \* HEAD of the clone: a version, NoRefs, or None without a clone
    tree,      \* version of each file of the clone, Torn or None
    indexed,   \* the checkout of git clone came to its end
    git,       \* the git process at work; "killed": only its lock is left
    gver,      \* the version it checks out
    ppc,       \* step of each terminal's command
    mode,      \* "new", or "add" (--nomod)
    seen,      \* files copyDir has looked for
    todo,      \* files it found and has not copied yet
    target,    \* version of each file in the project directory
    exists,    \* the project directory exists
    renamed,   \* cmd/server was renamed
    result,    \* what the command reported
    runs,      \* commands begun
    since,     \* ghost: version of the layout when the command began
    source     \* ghost: what it copies: "whole", or "other" than a clone at rest

cache == <<head, tree, indexed, git, gver>>
disk == <<seen, todo, target, exists, renamed>>
projectVars == <<remote, ref, cache, ppc, mode, disk, result, runs, since, source>>

None == 0
NoRefs == -1
Torn == -1
Wanted(t) == IF mode[t] = "new" THEN Files ELSE Files \ ModFiles

ProjectInit ==
    /\ remote = 1
    /\ ref \in {"branch", "tag"}
    /\ head = None
    /\ tree = [f \in Files |-> None]
    /\ indexed = FALSE
    /\ git = "idle"
    /\ gver = None
    /\ ppc = [t \in Terminals |-> "idle"]
    /\ mode = [t \in Terminals |-> "new"]
    /\ seen = [t \in Terminals |-> {}]
    /\ todo = [t \in Terminals |-> {}]
    /\ target = [t \in Terminals |-> [f \in Files |-> None]]
    /\ exists = [t \in Terminals |-> FALSE]
    /\ renamed = [t \in Terminals |-> FALSE]
    /\ result = [t \in Terminals |-> "none"]
    /\ runs = 0
    /\ since = [t \in Terminals |-> 1]
    /\ source = [t \in Terminals |-> "none"]

Step(t, pc) == ppc' = [ppc EXCEPT ![t] = pc]
Report(t, r) == Step(t, "idle") /\ result' = [result EXCEPT ![t] = r]

\* The maintainers of the layout push a new version.
Push ==
    /\ remote < MaxVersion
    /\ remote' = remote + 1
    /\ UNCHANGED <<ref, cache, ppc, mode, disk, result, runs, since, source>>

--------------------------------------------------------------------------------
(* run, in project.go.                                                      *)

\* The deadline starts to count; without an argument the name is asked for.
Begin(t, m) ==
    /\ ppc[t] = "idle"
    /\ runs < MaxRuns
    /\ runs' = runs + 1
    /\ mode' = [mode EXCEPT ![t] = m]
    /\ \E pc \in {"name", "stat"} : Step(t, pc)
    /\ result' = [result EXCEPT ![t] = "none"]
    /\ since' = [since EXCEPT ![t] = remote]
    /\ source' = [source EXCEPT ![t] = "none"]
    /\ UNCHANGED <<remote, ref, cache, disk>>

\* The name is typed, or the prompt is left: nothing is reported then.
Name(t) ==
    /\ ppc[t] = "name"
    /\ \/ Step(t, "stat")
       \/ Step(t, "idle")
    /\ UNCHANGED <<remote, ref, cache, mode, disk, result, runs, since, source>>

\* select: ctx.Done(), even when the goroutine is done.  The process ends.  The
\* git process it waits for is killed, which may leave the lock behind, or it
\* is not killed in time and goes on.
Deadline(t) ==
    /\ ppc[t] \notin {"idle", "name"}
    /\ Report(t, "timeout")
    /\ \/ UNCHANGED git
       \/ ppc[t] = "git" /\ git' = "idle"
       \/ ppc[t] = "git" /\ git # "fetch" /\ git' = "killed"
    /\ UNCHANGED <<remote, ref, head, tree, indexed, gver, mode, disk, runs, since, source>>

\* select: <-done.
Finish(t) ==
    /\ ppc[t] \in {"ok", "error"}
    /\ Report(t, ppc[t])
    /\ UNCHANGED <<remote, ref, cache, mode, disk, runs, since, source>>

--------------------------------------------------------------------------------
(* Project.New and Project.Add, in the goroutine.                           *)

\* Only Add needs a go.mod above the directory; one it cannot read is a panic.
NoGoMod(t) ==
    /\ ppc[t] = "stat" /\ mode[t] = "add"
    /\ \/ Step(t, "error") /\ UNCHANGED result
       \/ Report(t, "panic")
    /\ UNCHANGED <<remote, ref, cache, mode, disk, runs, since, source>>

Stat(t) ==
    /\ ppc[t] = "stat"
    /\ Step(t, IF exists[t] THEN "ask" ELSE "clone")
    /\ UNCHANGED <<remote, ref, cache, mode, disk, result, runs, since, source>>

\* The directory is kept: New returns the error of Stat, which is nil.  Or the
\* prompt fails.
Decline(t) ==
    /\ ppc[t] = "ask"
    /\ Step(t, "ok") \/ Step(t, "error")
    /\ UNCHANGED <<remote, ref, cache, mode, disk, result, runs, since, source>>

\* os.RemoveAll: all of it, or what it gets to before it fails, which is ignored,
\* or before the deadline.
Override(t) ==
    /\ ppc[t] = "ask"
    /\ \E gone \in SUBSET Files :
        /\ target' = [target EXCEPT ![t] =
                         [f \in Files |-> IF f \in gone THEN None ELSE @[f]]]
        /\ renamed' = [renamed EXCEPT ![t] = @ /\ Server \notin gone]
        /\ \/ UNCHANGED exists
           \/ gone = Files /\ exists' = [exists EXCEPT ![t] = FALSE]
    /\ Step(t, "clone")
    /\ UNCHANGED <<remote, ref, cache, mode, seen, todo, result, runs, since, source>>

--------------------------------------------------------------------------------
(* Repo.Clone and Pull, and the git processes they start and wait for.      *)

\* A directory in the cache is pulled, whatever is in it.
Clone(t) ==
    /\ ppc[t] = "clone"
    /\ Step(t, IF head # None THEN "pull" ELSE "git clone")
    /\ UNCHANGED <<remote, ref, cache, mode, disk, result, runs, since, source>>

\* git clone refuses a directory that another command has made meanwhile.
CloneBegin(t) ==
    /\ ppc[t] = "git clone"
    /\ IF head # None THEN Step(t, "error") /\ UNCHANGED <<head, git>>
       ELSE Step(t, "git") /\ head' = NoRefs /\ git' = "fetch"
    /\ UNCHANGED <<remote, ref, tree, indexed, gver, mode, disk, result, runs, since, source>>

\* Who waits for the git process at work goes on to step pc; when it lives on
\* after its command, nobody does.
Awaited(t) == ppc[t] = "git"
Wake(pc) == ppc' = [t \in Terminals |-> IF Awaited(t) THEN pc ELSE ppc[t]]

\* When the fetch of git clone fails, git removes the directory again.
FetchFails ==
    /\ git = "fetch"
    /\ git' = "idle"
    /\ head' = None
    /\ Wake("error")
    /\ UNCHANGED <<remote, ref, tree, indexed, gver, mode, disk, result, runs, since, source>>

Fetched ==
    /\ git = "fetch"
    /\ git' = "checkout"
    /\ head' = remote
    /\ gver' = remote
    /\ UNCHANGED <<remote, ref, tree, indexed, ppc, mode, disk, result, runs, since, source>>

\* git puts version v in the place of what it finds: unlink, create, write.
Replaced(old, v) == CASE old = None -> Torn [] old = Torn -> v [] OTHER -> None

GitWrites(f) ==
    /\ git \in {"checkout", "merge"}
    /\ tree[f] # gver
    /\ tree' = [tree EXCEPT ![f] = Replaced(@, gver)]
    /\ UNCHANGED <<remote, ref, head, indexed, git, gver, ppc, mode, disk, result, runs,
                   since, source>>

\* The checkout of git clone fails: the clone stays.  Or that of git pull.
GitFails ==
    /\ git \in {"checkout", "merge"}
    /\ git' = "idle"
    /\ Wake("error")
    /\ UNCHANGED <<remote, ref, head, tree, indexed, gver, mode, disk, result, runs,
                   since, source>>

\* What a copy is made from when the clone's index was written or not (i) and
\* git is in state g.
CopyFrom(i, g) == IF i /\ g = "idle" THEN "whole" ELSE "other"

\* git succeeds: every file is there.  In a clone without an index git pull
\* takes the missing files for deleted ones.
GitEnds ==
    /\ git \in {"checkout", "merge"}
    /\ (\A f \in Files : tree[f] = gver) \/ (git = "merge" /\ ~indexed)
    /\ git' = "idle"
    /\ head' = gver
    /\ indexed' = (indexed \/ git = "checkout")
    /\ Wake("mod")
    /\ source' = [t \in Terminals |->
                     IF Awaited(t) THEN CopyFrom(indexed', "idle") ELSE source[t]]
    /\ UNCHANGED <<remote, ref, tree, gver, mode, disk, result, runs, since>>

\* Faulty variant: the error of git pull is printed and not returned.
PullOffline(t) ==
    /\ ppc[t] = "pull"
    /\ ref = "branch" /\ head \notin {None, NoRefs}
    /\ Step(t, "mod")
    /\ source' = [source EXCEPT ![t] = CopyFrom(indexed, git)]
    /\ UNCHANGED <<remote, ref, cache, mode, disk, result, runs, since>>

\* git symbolic-ref fails on a detached HEAD; git pull fails without refs, when
\* it needs a lock that is taken, and when anything else is wrong.  It succeeds
\* at once on a clone that is up to date, checked out or not.  Otherwise it
\* takes the lock and begins to replace files.
Pull(t) ==
    /\ ppc[t] = "pull"
    /\ \/ Step(t, "error") /\ UNCHANGED <<git, gver, source>>
       \/ /\ ref = "branch" /\ head = remote
          /\ Step(t, "mod")
          /\ source' = [source EXCEPT ![t] = CopyFrom(indexed, git)]
          /\ UNCHANGED <<git, gver>>
       \/ /\ ref = "branch" /\ head \notin {None, NoRefs, remote} /\ git = "idle"
          /\ Step(t, "git")
          /\ git' = "merge" /\ gver' = remote
          /\ source' = [u \in Terminals |->
                           IF ppc[u] \in {"mod", "copy"} THEN "other" ELSE source[u]]
    /\ UNCHANGED <<remote, ref, head, tree, indexed, mode, disk, result, runs, since>>

--------------------------------------------------------------------------------
(* Repo.CopyTo and CopyToV2.                                                *)

\* ModulePath: there has to be a go.mod in the clone.  Then copyDir makes the
\* project directory.
ReadMod(t) ==
    /\ ppc[t] = "mod"
    /\ \/ tree[GoMod] # None /\ Step(t, "copy") /\ exists' = [exists EXCEPT ![t] = TRUE]
       \/ Step(t, "error") /\ UNCHANGED exists
    /\ seen' = [seen EXCEPT ![t] = {}]
    /\ todo' = [todo EXCEPT ![t] = {}]
    /\ UNCHANGED <<remote, ref, cache, mode, target, renamed, result, runs, since, source>>

\* copyDir reads a directory once: a file that is not there then is passed by.
ReadDir(t, f) ==
    /\ ppc[t] = "copy"
    /\ f \in Wanted(t) \ seen[t]
    /\ seen' = [seen EXCEPT ![t] = @ \cup {f}]
    /\ todo' = [todo EXCEPT ![t] = IF tree[f] = None THEN @ ELSE @ \cup {f}]
    /\ UNCHANGED <<remote, ref, cache, ppc, mode, target, exists, renamed, result, runs,
                   since, source>>

\* copyFile: what the file holds now.
CopyFile(t, f) ==
    /\ ppc[t] = "copy"
    /\ f \in todo[t]
    /\ tree[f] # None
    /\ todo' = [todo EXCEPT ![t] = @ \ {f}]
    /\ target' = [target EXCEPT ![t][f] = tree[f]]
    /\ UNCHANGED <<remote, ref, cache, ppc, mode, seen, exists, renamed, result, runs,
                   since, source>>

\* Faulty variant: copyDir goes on when a file cannot be copied.
CopyFailsQuietly(t) ==
    /\ ppc[t] = "copy"
    /\ Step(t, "rename")
    /\ UNCHANGED <<remote, ref, cache, mode, disk, result, runs, since, source>>

\* A file that is gone again, or that cannot be read or written.
CopyFails(t) ==
    /\ ppc[t] = "copy"
    /\ Step(t, "error")
    /\ UNCHANGED <<remote, ref, cache, mode, disk, result, runs, since, source>>

CopyEnd(t) ==
    /\ ppc[t] = "copy"
    /\ seen[t] = Wanted(t) /\ todo[t] = {}
    /\ Step(t, "rename")
    /\ UNCHANGED <<remote, ref, cache, mode, disk, result, runs, since, source>>

\* os.Rename of cmd/server, which has to be there, to a name that is free.
Rename(t) ==
    /\ ppc[t] = "rename"
    /\ \/ /\ target[t][Server] # None /\ ~renamed[t]
          /\ Step(t, "ok")
          /\ renamed' = [renamed EXCEPT ![t] = TRUE]
       \/ Step(t, "error") /\ UNCHANGED renamed
    /\ UNCHANGED <<remote, ref, cache, mode, seen, todo, target, exists, result, runs,
                   since, source>>

ProjectNext ==
    \/ Push
    \/ FetchFails \/ Fetched \/ GitFails \/ GitEnds
    \/ \E f \in Files : GitWrites(f)
    \/ \E t \in Terminals :
        \/ \E m \in {"new", "add"} : Begin(t, m)
        \/ Name(t) \/ Deadline(t) \/ Finish(t)
        \/ NoGoMod(t) \/ Stat(t) \/ Decline(t) \/ Override(t)
        \/ Clone(t) \/ CloneBegin(t) \/ Pull(t) \/ ReadMod(t)
        \/ \E f \in Files : ReadDir(t, f) \/ CopyFile(t, f)
        \/ CopyFails(t) \/ CopyEnd(t) \/ Rename(t)

ProjectSpec == ProjectInit /\ [][ProjectNext]_projectVars

--------------------------------------------------------------------------------

\* A command that reports no error has made a complete project, every file of it
\* of one version, if no git process was at work while it copied and the clone
\* had once been checked out to the end: whatever pulls failed or were killed
\* half way before, and whatever an earlier command left in the directory:
\* project.go:69-101, new.go:22-50, repo.go:66-113.
SuccessMeansComplete ==
    \A t \in Terminals : result[t] = "ok" /\ source[t] = "whole" =>
        /\ renamed[t]
        /\ \E v \in 1 .. remote : \A f \in Wanted(t) : target[t][f] = v

\* Such a project is not older than the layout was when its command began: a
\* pull that could not bring the clone up to date is not a success:
\* repo.go:66-82.
SuccessIsFresh ==
    \A t \in Terminals : result[t] = "ok" /\ source[t] = "whole" =>
        \A f \in Wanted(t) : target[t][f] >= since[t]

\* "CopyTo copies the repository to project path" (repo.go:103) and "Project
\* creation succeeded" (new.go:54): a command that copied and reports no error
\* has every file of the layout in the project directory.
SuccessHasEveryFile ==
    \A t \in Terminals : result[t] = "ok" /\ source[t] # "none" =>
        \A f \in Wanted(t) : target[t][f] # None

================================================================================
