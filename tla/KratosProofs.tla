------------------------------ MODULE KratosProofs ------------------------------
(***************************************************************************)
(* Proofs about the commands of kratos: project creation over the shared   *)
(* cache of the layout repository, and the proto tools.                    *)
(***************************************************************************)
EXTENDS Project, Tools, TLAPS

Early == {"name", "stat", "ask", "clone", "git clone", "pull", "git"}
Steps == Early \cup {"idle", "mod", "copy", "rename", "ok", "error"}
Active == {"fetch", "checkout", "merge"}

ProjectTypes ==
    /\ remote \in Nat \ {0}
    /\ head \in Int
    /\ tree \in [Files -> Int]
    /\ indexed \in BOOLEAN
    /\ git \in Active \cup {"idle", "killed"}
    /\ gver \in Int
    /\ ppc \in [Terminals -> Steps]
    /\ mode \in [Terminals -> {"new", "add"}]
    /\ seen \in [Terminals -> SUBSET Files]
    /\ todo \in [Terminals -> SUBSET Files]
    /\ target \in [Terminals -> [Files -> Int]]
    /\ renamed \in [Terminals -> BOOLEAN]
    /\ result \in [Terminals -> {"none", "ok", "error", "timeout", "panic"}]
    /\ since \in [Terminals -> Nat]
    /\ source \in [Terminals -> {"none", "whole", "other"}]

\* The clone is at rest and has every file of its HEAD.
Rests == indexed /\ git = "idle" /\ head > 0 /\ \A f \in Files : tree[f] = head

\* What git keeps to.  A clone that was checked out once and is not whole now is
\* behind the layout, so that git pull does not call it up to date.
CloneInv ==
    /\ NoRefs <= head /\ head <= remote /\ gver <= remote
    /\ head = None => git = "idle"
    /\ git = "fetch" => head = NoRefs
    /\ git = "checkout" => head > 0 /\ head = gver /\ ~indexed
    /\ git = "merge" => head > 0 /\ head < gver
    /\ git = "killed" => head > 0 /\ (indexed => head < remote)
    /\ indexed => head > 0
    /\ indexed /\ git = "idle" => head < remote \/ \A f \in Files : tree[f] = head

\* One command at most waits for git, and git is at work then.
AwaitInv ==
    /\ \A t \in Terminals : Awaited(t) =>
          git \in Active /\ (git # "fetch" => since[t] <= gver)
    /\ \A t, u \in Terminals : Awaited(t) /\ Awaited(u) => t = u

\* All files are there, of one version that is not older than the command.
AllCopied(t) ==
    \E v \in 1 .. remote : v >= since[t] /\ \A f \in Wanted(t) : target[t][f] = v

Copying(t) == ppc[t] \in {"mod", "copy"} /\ source[t] = "whole"
Succeeded(t) == ppc[t] = "ok" \/ result[t] = "ok"

CopyInv(t) ==
    /\ since[t] <= remote
    /\ Copying(t) => Rests /\ since[t] <= head
    /\ ppc[t] = "copy" => /\ seen[t] \subseteq Wanted(t) /\ todo[t] \subseteq seen[t]
                          /\ source[t] = "whole" =>
                                \A f \in seen[t] \ todo[t] : target[t][f] = head
    /\ ppc[t] = "rename" /\ source[t] = "whole" => AllCopied(t)
    /\ Succeeded(t) /\ source[t] = "whole" => renamed[t] /\ AllCopied(t)
    /\ result[t] = "ok" => ppc[t] = "idle"
    /\ ppc[t] \in Early => source[t] = "none"

ProjectInv == ProjectTypes /\ CloneInv /\ AwaitInv /\ \A t \in Terminals : CopyInv(t)

LEMMA ProjectInitially == ProjectInit => ProjectInv
<1> SUFFICES ASSUME ProjectInit PROVE ProjectInv
  OBVIOUS
<1>0. remote \in Nat \ {0} /\ head \in Int /\ gver \in Int /\ git = "idle" /\ indexed = FALSE
  BY DEF ProjectInit, None
<1>a. tree \in [Files -> Int] /\ target \in [Terminals -> [Files -> Int]]
  BY DEF ProjectInit, None
<1>b. /\ ppc \in [Terminals -> Steps] /\ mode \in [Terminals -> {"new", "add"}]
      /\ seen \in [Terminals -> SUBSET Files] /\ todo \in [Terminals -> SUBSET Files]
  BY DEF ProjectInit, Steps
<1>d. /\ renamed \in [Terminals -> BOOLEAN] /\ since \in [Terminals -> Nat]
      /\ result \in [Terminals -> {"none", "ok", "error", "timeout", "panic"}]
      /\ source \in [Terminals -> {"none", "whole", "other"}]
  BY DEF ProjectInit
<1>1. ProjectTypes
  BY <1>0, <1>a, <1>b, <1>d DEF ProjectTypes
<1>2. CloneInv /\ AwaitInv
  BY DEF ProjectInit, CloneInv, AwaitInv, Awaited, None, NoRefs
<1>3. \A t \in Terminals : CopyInv(t)
  BY DEF ProjectInit, CopyInv, Copying, Succeeded, Early
<1> QED
  BY <1>1, <1>2, <1>3 DEF ProjectInv

\* What a step leaves alone of a terminal that does not take it.  A copy from a
\* whole clone is disturbed, or its clone stays as it is.
Same(u) ==
    /\ UNCHANGED <<ppc[u], mode[u], seen[u], todo[u], target[u], renamed[u], result[u], since[u]>>
    /\ \/ source'[u] = source[u]
       \/ ppc[u] \in {"mod", "copy"} /\ source'[u] = "other"
    /\ Copying(u) /\ source'[u] = "whole" => UNCHANGED <<head, tree, indexed, git>>

LEMMA SameKeeps ==
    ASSUME NEW u \in Terminals, CopyInv(u), Same(u), ProjectTypes,
           remote' \in Nat, remote <= remote'
    PROVE  CopyInv(u)'
<1>1. Wanted(u)' = Wanted(u)
  BY DEF Same, Wanted
<1>2. AllCopied(u) => AllCopied(u)'
  <2> SUFFICES ASSUME AllCopied(u) PROVE AllCopied(u)'
    OBVIOUS
  <2>1. PICK v \in 1 .. remote : v >= since[u] /\ \A f \in Wanted(u) : target[u][f] = v
    BY DEF AllCopied
  <2>2. v \in 1 .. remote'
    BY <2>1 DEF ProjectTypes
  <2>3. v >= since'[u] /\ \A f \in Wanted(u)' : target'[u][f] = v
    BY <1>1, <2>1 DEF Same
  <2> QED
    BY <2>2, <2>3 DEF AllCopied
<1>3. ppc'[u] = ppc[u] /\ (source'[u] = "whole" => source[u] = "whole")
  BY DEF Same
<1>4. since'[u] <= remote'
  BY DEF Same, CopyInv, ProjectTypes
<1>5. Copying(u)' => Rests' /\ since'[u] <= head'
  BY <1>3 DEF Same, CopyInv, Copying, Rests
<1>6. ppc'[u] = "copy" => /\ seen'[u] \subseteq Wanted(u)' /\ todo'[u] \subseteq seen'[u]
                          /\ source'[u] = "whole" =>
                                \A f \in seen'[u] \ todo'[u] : target'[u][f] = head'
  BY <1>1, <1>3 DEF Same, CopyInv, Copying
<1>7. ppc'[u] = "rename" /\ source'[u] = "whole" => AllCopied(u)'
  BY <1>2, <1>3 DEF Same, CopyInv
<1>8. Succeeded(u)' /\ source'[u] = "whole" => renamed'[u] /\ AllCopied(u)'
  BY <1>2, <1>3 DEF Same, CopyInv, Succeeded
<1>9. /\ result'[u] = "ok" => ppc'[u] = "idle"
      /\ ppc'[u] \in Early => source'[u] = "none"
  BY DEF Same, CopyInv, Early
<1> QED
  BY <1>4, <1>5, <1>6, <1>7, <1>8, <1>9 DEF CopyInv

\* It is enough to look at the terminal that takes the step.
LEMMA OneSteps ==
    ASSUME ProjectInv, NEW t \in Terminals, remote' = remote,
           ProjectTypes', CloneInv', AwaitInv', CopyInv(t)',
           \A u \in Terminals \ {t} : Same(u)
    PROVE  ProjectInv'
<1>1. remote' \in Nat /\ remote <= remote' /\ ProjectTypes /\ \A u \in Terminals : CopyInv(u)
  BY DEF ProjectInv, ProjectTypes
<1>2. \A u \in Terminals \ {t} : CopyInv(u)'
  BY <1>1, SameKeeps
<1> QED
  BY <1>2 DEF ProjectInv

\* A command goes on to a step before the copy, or fails.
LEMMA GoesOn ==
    ASSUME NEW t \in Terminals, CopyInv(t), ppc[t] \notin {"idle", "ok"},
           ppc'[t] \notin {"mod", "copy", "rename", "ok"}, ppc'[t] \in Early => ppc[t] \in Early,
           UNCHANGED <<remote, since[t], result[t], source[t]>>
    PROVE  CopyInv(t)'
BY DEF CopyInv, Copying, Succeeded, Early

\* Nobody begins to wait for git, and git goes on.
LEMMA NoMoreWait ==
    ASSUME AwaitInv, ppc \in [Terminals -> Steps], NEW t \in Terminals, NEW pc,
           pc # "git", Step(t, pc), UNCHANGED <<git, gver>>,
           \A u \in Terminals \ {t} : since'[u] = since[u]
    PROVE  AwaitInv'
<1>1. \A u \in Terminals : Awaited(u)' => Awaited(u) /\ u # t
  BY DEF Step, Awaited
<1> QED
  BY <1>1 DEF AwaitInv

\* A step of one terminal that changes neither the clone nor the project.
LEMMA MovesOn ==
    ASSUME ProjectInv, NEW t \in Terminals,
           NEW pc \in Steps \ {"git", "mod", "copy", "rename", "ok"},
           ppc[t] \notin {"idle", "ok"}, pc \in Early => ppc[t] \in Early, Step(t, pc),
           UNCHANGED <<remote, cache, mode, target, renamed, result, since, source>>,
           seen' \in [Terminals -> SUBSET Files], todo' \in [Terminals -> SUBSET Files],
           \A u \in Terminals \ {t} : seen'[u] = seen[u] /\ todo'[u] = todo[u]
    PROVE  ProjectInv'
<1>0. ProjectTypes /\ ppc \in [Terminals -> Steps] /\ CloneInv /\ AwaitInv /\ CopyInv(t)
  BY DEF ProjectInv, ProjectTypes
<1>1. ProjectTypes'
  BY <1>0 DEF ProjectTypes, Step, cache
<1>2. CloneInv'
  BY <1>0 DEF CloneInv, cache
<1>3. AwaitInv'
  BY <1>0, NoMoreWait DEF cache
<1>4. \A u \in Terminals \ {t} : Same(u)
  BY <1>0 DEF Step, Same, cache
<1>5. CopyInv(t)'
  BY <1>0, GoesOn DEF Step
<1> QED
  BY <1>1, <1>2, <1>3, <1>4, <1>5, OneSteps

LEMMA WakeTypes ==
    ASSUME ppc \in [Terminals -> Steps], NEW pc \in Steps, Wake(pc)
    PROVE  ppc' \in [Terminals -> Steps]
BY DEF Wake

\* git fails: the command that waits for it fails, and nothing else is changed.
LEMMA GitStops ==
    ASSUME ProjectInv, git \in Active, git' = "idle", Wake("error"),
           ProjectTypes', CloneInv',
           UNCHANGED <<remote, mode, seen, todo, target, renamed, result, since, source>>
    PROVE  ProjectInv'
<1>0. ProjectTypes /\ \A u \in Terminals : CopyInv(u)
  BY DEF ProjectInv
<1>1. AwaitInv'
  BY DEF Wake, Awaited, AwaitInv
<1>2. \A u \in Terminals : ~Copying(u)
  BY <1>0 DEF CopyInv, Rests, Active
<1>3. ASSUME NEW u \in Terminals PROVE CopyInv(u)'
  <2>1. CASE Awaited(u)
    <3>1. ppc[u] = "git" /\ ppc'[u] = "error"
      BY <2>1 DEF Wake, Awaited
    <3> QED
      BY <1>0, <3>1, GoesOn DEF Early
  <2>2. CASE ~Awaited(u)
    <3>1. Same(u)
      BY <1>2, <2>2 DEF Wake, Same
    <3>2. remote' \in Nat /\ remote <= remote'
      BY <1>0 DEF ProjectTypes
    <3> QED
      BY <1>0, <3>1, <3>2, SameKeeps
  <2> QED
    BY <2>1, <2>2
<1> QED
  BY <1>1, <1>3 DEF ProjectInv

LEMMA ProjectInductive == ProjectInv /\ [ProjectNext]_projectVars => ProjectInv'
<1> SUFFICES ASSUME ProjectInv, [ProjectNext]_projectVars PROVE ProjectInv'
  OBVIOUS
<1>t. ProjectTypes /\ CloneInv /\ AwaitInv /\ ppc \in [Terminals -> Steps]
  BY DEF ProjectInv, ProjectTypes
<1>c. \A t \in Terminals : CopyInv(t)
  BY DEF ProjectInv
<1>s. seen \in [Terminals -> SUBSET Files] /\ todo \in [Terminals -> SUBSET Files]
  BY <1>t DEF ProjectTypes
<1>1. ASSUME Push PROVE ProjectInv'
  <2>1. ProjectTypes'
    BY <1>t, <1>1 DEF Push, disk, cache, ProjectTypes
  <2>2. CloneInv' /\ AwaitInv'
    BY <1>t, <1>1 DEF Push, cache, CloneInv, AwaitInv, Awaited, ProjectTypes
  <2>3. \A u \in Terminals : Same(u)
    BY <1>1 DEF Push, disk, cache, Same
  <2>4. remote' \in Nat /\ remote <= remote'
    BY <1>t, <1>1 DEF Push, ProjectTypes
  <2> QED
    BY <1>t, <1>c, <2>1, <2>2, <2>3, <2>4, SameKeeps DEF ProjectInv
<1>2. ASSUME NEW t \in Terminals, NEW m \in {"new", "add"}, Begin(t, m) PROVE ProjectInv'
  <2>0. PICK pc \in {"name", "stat"} : Step(t, pc)
    BY <1>2 DEF Begin
  <2>1. ProjectTypes'
    BY <1>t, <1>2, <2>0 DEF Begin, Step, cache, disk, ProjectTypes, Steps, Early
  <2>2. CloneInv'
    BY <1>t, <1>2 DEF Begin, cache, CloneInv
  <2>3. AwaitInv'
    <3>1. \A u \in Terminals \ {t} : since'[u] = since[u]
      BY <1>t, <1>2 DEF Begin, ProjectTypes
    <3> QED
      BY <1>t, <1>2, <2>0, <3>1, NoMoreWait DEF Begin, cache
  <2>4. \A u \in Terminals \ {t} : Same(u)
    BY <1>t, <1>2, <2>0 DEF Begin, Step, cache, disk, ProjectTypes, Same
  <2>5. CopyInv(t)'
    <3>1. /\ ppc'[t] \in {"name", "stat"} /\ result'[t] = "none" /\ source'[t] = "none"
          /\ since'[t] = remote /\ remote' = remote
      BY <1>t, <1>2, <2>0 DEF Begin, Step, ProjectTypes
    <3> QED
      BY <1>t, <3>1 DEF CopyInv, Copying, Succeeded, ProjectTypes
  <2> QED
    BY <1>2, <2>1, <2>2, <2>3, <2>4, <2>5, OneSteps DEF Begin
<1>3. ASSUME NEW t \in Terminals, Name(t) \/ Stat(t) \/ Clone(t) PROVE ProjectInv'
  <2>1. PICK pc \in {"stat", "idle", "ask", "clone", "pull", "git clone"} : Step(t, pc)
    BY <1>3 DEF Name, Stat, Clone
  <2> QED
    BY <1>3, <1>s, <2>1, MovesOn DEF Name, Stat, Clone, disk, Steps, Early
<1>4. ASSUME NEW t \in Terminals, CopyFails(t) PROVE ProjectInv'
  BY <1>4, <1>s, MovesOn DEF CopyFails, disk, Steps, Early
<1>5. ASSUME NEW t \in Terminals, NoGoMod(t) PROVE ProjectInv'
  <2>1. CASE Step(t, "error") /\ UNCHANGED result
    BY <1>5, <1>s, <2>1, MovesOn DEF NoGoMod, disk, Steps, Early
  <2>2. CASE Report(t, "panic")
    <3>1. ProjectTypes'
      BY <1>t, <1>5, <2>2 DEF NoGoMod, Report, Step, disk, cache, ProjectTypes, Steps
    <3>2. CloneInv'
      BY <1>t, <1>5 DEF NoGoMod, cache, CloneInv
    <3>3. AwaitInv'
      BY <1>t, <1>5, <2>2, NoMoreWait DEF NoGoMod, Report, cache
    <3>4. \A u \in Terminals \ {t} : Same(u)
      BY <1>t, <1>5, <2>2 DEF NoGoMod, Report, Step, disk, cache, ProjectTypes, Same
    <3>5. ppc'[t] = "idle" /\ result'[t] = "panic" /\ since'[t] = since[t] /\ remote' = remote
      BY <1>t, <1>5, <2>2 DEF NoGoMod, Report, Step, ProjectTypes
    <3>6. CopyInv(t)'
      BY <1>c, <3>5 DEF CopyInv, Copying, Succeeded, Early
    <3> QED
      BY <3>1, <3>2, <3>3, <3>4, <3>5, <3>6, OneSteps
  <2> QED
    BY <1>5, <2>1, <2>2 DEF NoGoMod
<1>6. ASSUME NEW t \in Terminals, Deadline(t) PROVE ProjectInv'
  <2>0. /\ Step(t, "idle") /\ result' = [result EXCEPT ![t] = "timeout"]
        /\ UNCHANGED <<remote, head, tree, indexed, gver, mode, disk, since, source>>
        /\ \/ git' = git
           \/ Awaited(t) /\ git' = "idle"
           \/ Awaited(t) /\ git # "fetch" /\ git' = "killed"
    BY <1>6 DEF Deadline, Report, Awaited
  <2>a. Awaited(t) => git \in Active
    BY <1>t DEF AwaitInv
  <2>1. ProjectTypes'
    BY <1>t, <2>0 DEF Step, disk, ProjectTypes, Steps
  <2>2. CloneInv'
    BY <1>t, <2>0, <2>a DEF CloneInv, Active, None, NoRefs, ProjectTypes
  <2>3. AwaitInv'
    <3>1. \A u \in Terminals : Awaited(u)' => Awaited(u) /\ u # t
      BY <1>t, <2>0 DEF Step, Awaited
    <3>2. (\E u \in Terminals : Awaited(u)') => git' = git
      BY <1>t, <2>0, <3>1 DEF AwaitInv
    <3> QED
      BY <1>t, <2>0, <3>1, <3>2 DEF AwaitInv
  <2>4. \A u \in Terminals \ {t} : Same(u)
    <3>1. \A u \in Terminals : Copying(u) => git' = git
      BY <1>c, <2>0, <2>a DEF CopyInv, Rests, Active
    <3> QED
      BY <1>t, <2>0, <3>1 DEF Step, disk, ProjectTypes, Same
  <2>5. ppc'[t] = "idle" /\ result'[t] = "timeout" /\ since'[t] = since[t] /\ remote' = remote
    BY <1>t, <2>0 DEF Step, ProjectTypes
  <2>6. CopyInv(t)'
    BY <1>c, <2>5 DEF CopyInv, Copying, Succeeded, Early
  <2> QED
    BY <2>1, <2>2, <2>3, <2>4, <2>5, <2>6, OneSteps
<1>7. ASSUME NEW t \in Terminals, Finish(t) PROVE ProjectInv'
  <2>0. /\ ppc[t] \in {"ok", "error"} /\ Step(t, "idle")
        /\ result' = [result EXCEPT ![t] = ppc[t]]
        /\ UNCHANGED <<remote, cache, mode, disk, since, source>>
    BY <1>7 DEF Finish, Report
  <2>1. ProjectTypes'
    BY <1>t, <2>0 DEF Step, disk, cache, ProjectTypes, Steps
  <2>2. CloneInv'
    BY <1>t, <2>0 DEF CloneInv, cache
  <2>3. AwaitInv'
    BY <1>t, <2>0, NoMoreWait DEF cache
  <2>4. \A u \in Terminals \ {t} : Same(u)
    BY <1>t, <2>0 DEF Step, disk, cache, ProjectTypes, Same
  <2>5. CopyInv(t)'
    <3>1. /\ ppc'[t] = "idle" /\ result'[t] = ppc[t] /\ ppc[t] \in {"ok", "error"}
          /\ UNCHANGED <<since[t], source[t], renamed[t], remote>>
      BY <1>t, <2>0 DEF Step, disk, ProjectTypes
    <3>2. AllCopied(t)' <=> AllCopied(t)
      BY <2>0 DEF AllCopied, Wanted, disk
    <3> QED
      BY <1>c, <3>1, <3>2 DEF CopyInv, Copying, Succeeded, Early
  <2> QED
    BY <2>0, <2>1, <2>2, <2>3, <2>4, <2>5, OneSteps
<1>8. ASSUME NEW t \in Terminals, Decline(t) PROVE ProjectInv'
  <2>1. CASE Step(t, "error")
    BY <1>8, <1>s, <2>1, MovesOn DEF Decline, disk, Steps, Early
  <2>2. CASE Step(t, "ok")
    <3>1. ProjectTypes'
      BY <1>t, <1>8, <2>2 DEF Decline, Step, disk, cache, ProjectTypes, Steps
    <3>2. CloneInv'
      BY <1>t, <1>8 DEF Decline, cache, CloneInv
    <3>3. AwaitInv'
      BY <1>t, <1>8, <2>2, NoMoreWait DEF Decline, cache
    <3>4. \A u \in Terminals \ {t} : Same(u)
      BY <1>t, <1>8, <2>2 DEF Decline, Step, disk, cache, Same
    <3>5. /\ ppc[t] = "ask" /\ ppc'[t] = "ok"
          /\ UNCHANGED <<since[t], source[t], result[t], remote>>
      BY <1>t, <1>8, <2>2 DEF Decline, Step
    <3>6. CopyInv(t)'
      BY <1>c, <3>5 DEF CopyInv, Copying, Succeeded, Early
    <3> QED
      BY <3>1, <3>2, <3>3, <3>4, <3>5, <3>6, OneSteps
  <2> QED
    BY <1>8, <2>1, <2>2 DEF Decline
<1>9. ASSUME NEW t \in Terminals, Override(t) PROVE ProjectInv'
  <2>1. PICK gone \in SUBSET Files :
          /\ target' = [target EXCEPT ![t] =
                           [f \in Files |-> IF f \in gone THEN None ELSE target[t][f]]]
          /\ renamed' = [renamed EXCEPT ![t] = renamed[t] /\ Server \notin gone]
    BY <1>9 DEF Override
  <2>2. target' \in [Terminals -> [Files -> Int]]
    BY <1>t, <2>1 DEF ProjectTypes, None
  <2>3. renamed' \in [Terminals -> BOOLEAN]
    BY <1>t, <2>1 DEF ProjectTypes
  <2>4. ProjectTypes'
    BY <1>t, <1>9, <2>2, <2>3 DEF Override, Step, cache, ProjectTypes, Steps, Early
  <2>5. CloneInv'
    BY <1>t, <1>9 DEF Override, cache, CloneInv
  <2>6. AwaitInv'
    BY <1>t, <1>9, NoMoreWait DEF Override, cache
  <2>7. \A u \in Terminals \ {t} : Same(u)
    BY <1>t, <1>9, <2>1 DEF Override, Step, cache, ProjectTypes, Same
  <2>8. CopyInv(t)'
    BY <1>t, <1>c, <1>9, GoesOn DEF Override, Step, Early
  <2>9. remote' = remote
    BY <1>9 DEF Override
  <2> QED
    BY <2>4, <2>5, <2>6, <2>7, <2>8, <2>9, OneSteps
<1>10. ASSUME NEW t \in Terminals, CloneBegin(t) PROVE ProjectInv'
  <2>1. CASE head # None
    <3>1. Step(t, "error") /\ UNCHANGED <<head, git>>
      BY <1>10, <2>1 DEF CloneBegin
    <3> QED
      BY <1>10, <1>s, <3>1, MovesOn DEF CloneBegin, cache, disk, Steps, Early
  <2>2. CASE head = None
    <3>0. /\ Step(t, "git") /\ head' = NoRefs /\ git' = "fetch" /\ ppc[t] = "git clone"
          /\ UNCHANGED <<remote, tree, indexed, gver, mode, disk, result, since, source>>
      BY <1>10, <2>2 DEF CloneBegin
    <3>a. git = "idle" /\ ~indexed
      BY <1>t, <2>2 DEF CloneInv, None
    <3>b. NoRefs \in Int /\ NoRefs < 0
      BY DEF NoRefs
    <3>d. ppc' \in [Terminals -> Steps] /\ git' \in Active \cup {"idle", "killed"}
      BY <1>t, <3>0 DEF Step, Steps, Early, Active
    <3>1. ProjectTypes'
      BY <1>t, <3>0, <3>b, <3>d DEF disk, ProjectTypes
    <3>2. CloneInv'
      <4>1. NoRefs <= head' /\ head' <= remote' /\ gver' <= remote' /\ head' # None
        <5>1. remote \in Nat /\ gver <= remote /\ remote' = remote /\ gver' = gver /\ head' = NoRefs
          BY <1>t, <3>0 DEF CloneInv, ProjectTypes
        <5>2. NoRefs <= NoRefs /\ NoRefs <= remote /\ NoRefs # None
          BY <3>b, <5>1 DEF None
        <5> QED
          BY <5>1, <5>2
      <4>2. git' = "fetch" /\ head' = NoRefs /\ ~indexed'
        BY <3>0, <3>a
      <4> QED
        BY <4>1, <4>2 DEF CloneInv
    <3>3. AwaitInv'
      <4>1. \A u \in Terminals : ~Awaited(u)
        BY <1>t, <3>a DEF AwaitInv, Active
      <4>2. \A u \in Terminals : Awaited(u)' => u = t
        BY <1>t, <3>0, <4>1 DEF Step, Awaited
      <4> QED
        BY <3>0, <4>2 DEF AwaitInv, Active
    <3>4. \A u \in Terminals \ {t} : Same(u)
      <4>1. \A u \in Terminals : ~Copying(u)
        BY <1>c, <3>a DEF CopyInv, Rests
      <4> QED
        BY <1>t, <3>0, <4>1 DEF Step, disk, ProjectTypes, Same
    <3>5. CopyInv(t)'
      BY <1>t, <1>c, <3>0, GoesOn DEF Step, Early
    <3> QED
      BY <3>0, <3>1, <3>2, <3>3, <3>4, <3>5, OneSteps
  <2> QED
    BY <2>1, <2>2
<1>11. ASSUME FetchFails PROVE ProjectInv'
  <2>1. ProjectTypes'
    BY <1>t, <1>11, WakeTypes DEF FetchFails, disk, ProjectTypes, None, Steps
  <2>2. CloneInv'
    BY <1>t, <1>11 DEF FetchFails, CloneInv, ProjectTypes, None, NoRefs
  <2> QED
    BY <1>11, <2>1, <2>2, GitStops DEF FetchFails, disk, Active
<1>12. ASSUME GitFails PROVE ProjectInv'
  <2>1. ProjectTypes'
    BY <1>t, <1>12, WakeTypes DEF GitFails, disk, ProjectTypes, Steps
  <2>2. CloneInv'
    BY <1>t, <1>12 DEF GitFails, CloneInv, ProjectTypes, None, NoRefs
  <2> QED
    BY <1>12, <2>1, <2>2, GitStops DEF GitFails, disk, Active
<1>13. ASSUME Fetched PROVE ProjectInv'
  <2>1. ProjectTypes'
    BY <1>t, <1>13 DEF Fetched, disk, ProjectTypes, Active
  <2>2. CloneInv'
    BY <1>t, <1>13 DEF Fetched, CloneInv, ProjectTypes, None, NoRefs
  <2>3. AwaitInv'
    <3>1. \A u \in Terminals : since[u] <= remote
      BY <1>c DEF CopyInv
    <3> QED
      BY <1>t, <1>13, <3>1 DEF Fetched, AwaitInv, Awaited, Active
  <2>4. \A u \in Terminals : ~Copying(u)
    BY <1>c, <1>13 DEF Fetched, CopyInv, Rests
  <2>5. \A u \in Terminals : Same(u)
    BY <1>13, <2>4 DEF Fetched, disk, Same
  <2>6. remote' \in Nat /\ remote <= remote'
    BY <1>t, <1>13 DEF Fetched, ProjectTypes
  <2> QED
    BY <1>t, <1>c, <2>1, <2>2, <2>3, <2>5, <2>6, SameKeeps DEF ProjectInv
<1>14. ASSUME NEW f \in Files, GitWrites(f) PROVE ProjectInv'
  <2>1. Replaced(tree[f], gver) \in Int
    BY <1>t DEF Replaced, ProjectTypes, None, Torn
  <2>2. ProjectTypes'
    BY <1>t, <1>14, <2>1 DEF GitWrites, disk, ProjectTypes
  <2>3. CloneInv' /\ AwaitInv'
    BY <1>t, <1>14 DEF GitWrites, CloneInv, AwaitInv, Awaited
  <2>4. \A u \in Terminals : ~Copying(u)
    BY <1>c, <1>14 DEF GitWrites, CopyInv, Rests
  <2>5. \A u \in Terminals : Same(u)
    BY <1>14, <2>4 DEF GitWrites, disk, Same
  <2>6. remote' \in Nat /\ remote <= remote'
    BY <1>t, <1>14 DEF GitWrites, ProjectTypes
  <2> QED
    BY <1>t, <1>c, <2>2, <2>3, <2>5, <2>6, SameKeeps DEF ProjectInv
<1>15. ASSUME GitEnds PROVE ProjectInv'
  <2>0. /\ git \in {"checkout", "merge"} /\ git' = "idle" /\ head' = gver /\ Wake("mod")
        /\ UNCHANGED <<remote, tree, gver, mode, disk, result, since>>
    BY <1>15 DEF GitEnds
  <2>a. indexed' \in BOOLEAN /\ (indexed' => \A f \in Files : tree[f] = gver)
    BY <1>t, <1>15 DEF GitEnds, ProjectTypes
  <2>b. gver > 0
    BY <1>t, <2>0 DEF CloneInv, ProjectTypes
  <2>d. source' = [t \in Terminals |->
                     IF Awaited(t) THEN CopyFrom(indexed', "idle") ELSE source[t]]
    BY <1>15 DEF GitEnds
  <2>1. ProjectTypes'
    <3>1. source' \in [Terminals -> {"none", "whole", "other"}]
      BY <1>t, <2>d DEF ProjectTypes, CopyFrom
    <3>2. ppc' \in [Terminals -> Steps]
      BY <1>t, <2>0, WakeTypes DEF Steps
    <3> QED
      BY <1>t, <2>0, <2>a, <3>1, <3>2 DEF disk, ProjectTypes
  <2>2. CloneInv'
    BY <1>t, <2>0, <2>a, <2>b DEF CloneInv, ProjectTypes, None, NoRefs
  <2>3. \A u \in Terminals : ~Awaited(u)'
    BY <2>0 DEF Wake, Awaited
  <2>4. \A u \in Terminals : ~Copying(u)
    BY <1>c, <2>0 DEF CopyInv, Rests
  <2>5. ASSUME NEW u \in Terminals, ~Awaited(u) PROVE CopyInv(u)'
    <3>1. Same(u)
      BY <2>0, <2>d, <2>4, <2>5 DEF Wake, disk, Same
    <3>2. remote' \in Nat /\ remote <= remote'
      BY <1>t, <2>0 DEF ProjectTypes
    <3> QED
      BY <1>t, <1>c, <3>1, <3>2, SameKeeps
  <2>6. ASSUME NEW u \in Terminals, Awaited(u) PROVE CopyInv(u)'
    <3>1. /\ ppc[u] = "git" /\ ppc'[u] = "mod" /\ result'[u] = result[u] /\ since'[u] = since[u]
          /\ source'[u] = "whole" => indexed'
      BY <2>0, <2>d, <2>6 DEF Wake, Awaited, CopyFrom
    <3>2. since[u] <= gver /\ since[u] <= remote /\ result[u] # "ok"
      BY <1>t, <1>c, <2>0, <2>6, <3>1 DEF AwaitInv, CopyInv
    <3>3. Copying(u)' => Rests' /\ since'[u] <= head'
      BY <2>0, <2>a, <2>b, <3>1, <3>2 DEF Copying, Rests
    <3> QED
      BY <2>0, <3>1, <3>2, <3>3 DEF CopyInv, Succeeded, Early
  <2> QED
    BY <2>1, <2>2, <2>3, <2>5, <2>6 DEF ProjectInv, AwaitInv
<1>16. ASSUME NEW t \in Terminals, Pull(t) PROVE ProjectInv'
  <2>0. /\ ppc[t] = "pull"
        /\ UNCHANGED <<remote, head, tree, indexed, mode, disk, result, since>>
    BY <1>16 DEF Pull
  <2>1. CASE Step(t, "error") /\ UNCHANGED <<git, gver, source>>
    BY <1>16, <1>s, <2>1, MovesOn DEF Pull, cache, disk, Steps, Early
  <2>2. CASE /\ head = remote /\ Step(t, "mod") /\ UNCHANGED <<git, gver>>
             /\ source' = [source EXCEPT ![t] = CopyFrom(indexed, git)]
    <3>1. ProjectTypes'
      BY <1>t, <2>0, <2>2 DEF Step, disk, ProjectTypes, Steps, CopyFrom
    <3>2. CloneInv'
      BY <1>t, <2>0, <2>2 DEF CloneInv
    <3>3. AwaitInv'
      BY <1>t, <2>0, <2>2, NoMoreWait
    <3>4. \A u \in Terminals \ {t} : Same(u)
      BY <1>t, <2>0, <2>2 DEF Step, disk, ProjectTypes, Same
    <3>5. CopyInv(t)'
      <4>1. /\ ppc'[t] = "mod" /\ result'[t] = result[t] /\ since'[t] = since[t]
            /\ source'[t] = "whole" => indexed /\ git = "idle"
        BY <1>t, <2>0, <2>2 DEF Step, ProjectTypes, CopyFrom
      <4>2. since[t] <= remote /\ result[t] # "ok"
        BY <1>c, <2>0 DEF CopyInv
      <4>3. indexed /\ git = "idle" => Rests
        BY <1>t, <2>2 DEF CloneInv, Rests, ProjectTypes
      <4>4. Copying(t)' => Rests' /\ since'[t] <= head'
        BY <2>0, <2>2, <4>1, <4>2, <4>3 DEF Copying, Rests
      <4> QED
        BY <2>0, <4>1, <4>2, <4>4 DEF CopyInv, Succeeded, Early
    <3> QED
      BY <2>0, <3>1, <3>2, <3>3, <3>4, <3>5, OneSteps
  <2>3. CASE /\ head \notin {None, NoRefs, remote} /\ git = "idle"
             /\ Step(t, "git") /\ git' = "merge" /\ gver' = remote
             /\ source' = [u \in Terminals |->
                              IF ppc[u] \in {"mod", "copy"} THEN "other" ELSE source[u]]
    <3>a. ppc' \in [Terminals -> Steps] /\ git' \in Active
      BY <1>t, <2>3 DEF Step, Steps, Early, Active
    <3>b. source' \in [Terminals -> {"none", "whole", "other"}]
      BY <1>t, <2>3 DEF ProjectTypes
    <3>1. ProjectTypes'
      BY <1>t, <2>0, <2>3, <3>a, <3>b DEF disk, ProjectTypes
    <3>2. CloneInv'
      BY <1>t, <2>0, <2>3 DEF CloneInv, ProjectTypes, None, NoRefs
    <3>3. AwaitInv'
      <4>1. \A u \in Terminals : Awaited(u)' => u = t
        BY <1>t, <2>3 DEF AwaitInv, Active, Step, Awaited
      <4>2. since[t] <= remote
        BY <1>c DEF CopyInv
      <4> QED
        BY <2>0, <2>3, <4>1, <4>2 DEF AwaitInv, Active
    <3>4. \A u \in Terminals \ {t} : Same(u)
      BY <1>t, <2>0, <2>3 DEF Step, disk, Same, Copying
    <3>5. CopyInv(t)'
      BY <1>t, <1>c, <2>0, <2>3, GoesOn DEF Step, Early
    <3> QED
      BY <2>0, <3>1, <3>2, <3>3, <3>4, <3>5, OneSteps
  <2> QED
    BY <1>16, <2>1, <2>2, <2>3 DEF Pull
<1>17. ASSUME NEW t \in Terminals, ReadMod(t) PROVE ProjectInv'
  <2>0. /\ ppc[t] = "mod"
        /\ seen' = [seen EXCEPT ![t] = {}] /\ todo' = [todo EXCEPT ![t] = {}]
        /\ UNCHANGED <<remote, cache, mode, target, renamed, result, since, source>>
    BY <1>17 DEF ReadMod
  <2>1. CASE Step(t, "error")
    BY <1>s, <2>0, <2>1, MovesOn DEF Steps, Early
  <2>2. CASE Step(t, "copy")
    <3>1. ProjectTypes'
      BY <1>t, <2>0, <2>2 DEF Step, cache, ProjectTypes, Steps
    <3>2. CloneInv'
      BY <1>t, <2>0 DEF CloneInv, cache
    <3>3. AwaitInv'
      BY <1>t, <2>0, <2>2, NoMoreWait DEF cache
    <3>4. \A u \in Terminals \ {t} : Same(u)
      BY <1>t, <2>0, <2>2 DEF Step, cache, ProjectTypes, Same
    <3>5. CopyInv(t)'
      <4>1. /\ ppc'[t] = "copy" /\ seen'[t] = {} /\ todo'[t] = {}
            /\ UNCHANGED <<result[t], since[t], source[t]>>
        BY <1>t, <2>0, <2>2 DEF Step, ProjectTypes
      <4> QED
        BY <1>c, <2>0, <4>1 DEF CopyInv, Copying, Succeeded, Early, Rests, cache
    <3> QED
      BY <2>0, <3>1, <3>2, <3>3, <3>4, <3>5, OneSteps
  <2> QED
    BY <1>17, <2>1, <2>2 DEF ReadMod
<1>18. ASSUME NEW t \in Terminals, NEW f \in Files, ReadDir(t, f) PROVE ProjectInv'
  <2>0. /\ ppc[t] = "copy" /\ f \in Wanted(t)
        /\ seen' = [seen EXCEPT ![t] = seen[t] \cup {f}]
        /\ todo' = [todo EXCEPT ![t] = IF tree[f] = None THEN todo[t] ELSE todo[t] \cup {f}]
        /\ UNCHANGED <<remote, cache, ppc, mode, target, renamed, result, since, source>>
    BY <1>18 DEF ReadDir
  <2>1. ProjectTypes'
    BY <1>t, <2>0 DEF cache, ProjectTypes
  <2>2. CloneInv' /\ AwaitInv'
    BY <1>t, <2>0 DEF CloneInv, AwaitInv, Awaited, cache
  <2>3. \A u \in Terminals \ {t} : Same(u)
    BY <1>t, <2>0 DEF cache, ProjectTypes, Same
  <2>4. /\ seen'[t] = seen[t] \cup {f}
        /\ todo'[t] = todo[t] \cup {f} \/ (todo'[t] = todo[t] /\ tree[f] = None)
    BY <1>s, <2>0
  <2>5. source[t] = "whole" => Rests /\ tree[f] # None
    BY <1>c, <2>0 DEF CopyInv, Copying, Rests, None
  <2>6. /\ seen'[t] \subseteq Wanted(t)' /\ todo'[t] \subseteq seen'[t]
        /\ source'[t] = "whole" => \A g \in seen'[t] \ todo'[t] : target'[t][g] = head'
    BY <1>c, <2>0, <2>4, <2>5 DEF CopyInv, Wanted, cache
  <2>7. CopyInv(t)'
    BY <1>c, <2>0, <2>6 DEF CopyInv, Copying, Succeeded, Early, Rests, cache
  <2> QED
    BY <2>0, <2>1, <2>2, <2>3, <2>7, OneSteps
<1>19. ASSUME NEW t \in Terminals, NEW f \in Files, CopyFile(t, f) PROVE ProjectInv'
  <2>0. /\ ppc[t] = "copy" /\ f \in todo[t]
        /\ todo' = [todo EXCEPT ![t] = todo[t] \ {f}]
        /\ target' = [target EXCEPT ![t][f] = tree[f]]
        /\ UNCHANGED <<remote, cache, ppc, mode, seen, renamed, result, since, source>>
    BY <1>19 DEF CopyFile
  <2>1. ProjectTypes'
    BY <1>t, <2>0 DEF cache, ProjectTypes
  <2>2. CloneInv' /\ AwaitInv'
    BY <1>t, <2>0 DEF CloneInv, AwaitInv, Awaited, cache
  <2>3. \A u \in Terminals \ {t} : Same(u)
    BY <1>t, <2>0 DEF cache, ProjectTypes, Same
  <2>4. /\ todo'[t] = todo[t] \ {f}
        /\ \A g \in Files : target'[t][g] = IF g = f THEN tree[f] ELSE target[t][g]
    BY <1>t, <2>0 DEF ProjectTypes
  <2>5. source[t] = "whole" => tree[f] = head
    BY <1>c, <2>0 DEF CopyInv, Copying, Rests
  <2>6. /\ seen'[t] \subseteq Wanted(t)' /\ todo'[t] \subseteq seen'[t]
        /\ source'[t] = "whole" => \A g \in seen'[t] \ todo'[t] : target'[t][g] = head'
    BY <1>t, <1>c, <2>0, <2>4, <2>5 DEF CopyInv, Wanted, cache, ProjectTypes
  <2>7. CopyInv(t)'
    BY <1>c, <2>0, <2>6 DEF CopyInv, Copying, Succeeded, Early, Rests, cache
  <2> QED
    BY <2>0, <2>1, <2>2, <2>3, <2>7, OneSteps
<1>20. ASSUME NEW t \in Terminals, CopyEnd(t) PROVE ProjectInv'
  <2>0. /\ ppc[t] = "copy" /\ seen[t] = Wanted(t) /\ todo[t] = {} /\ Step(t, "rename")
        /\ UNCHANGED <<remote, cache, mode, disk, result, since, source>>
    BY <1>20 DEF CopyEnd
  <2>1. ProjectTypes'
    BY <1>t, <2>0 DEF Step, disk, cache, ProjectTypes, Steps
  <2>2. CloneInv'
    BY <1>t, <2>0 DEF CloneInv, cache
  <2>3. AwaitInv'
    BY <1>t, <2>0, NoMoreWait DEF cache
  <2>4. \A u \in Terminals \ {t} : Same(u)
    BY <1>t, <2>0 DEF Step, disk, cache, Same
  <2>5. source[t] = "whole" => AllCopied(t)'
    <3> SUFFICES ASSUME source[t] = "whole" PROVE AllCopied(t)'
      OBVIOUS
    <3>1. Rests /\ since[t] <= head /\ \A f \in Wanted(t) : target[t][f] = head
      BY <1>c, <2>0 DEF CopyInv, Copying
    <3>2. head \in 1 .. remote /\ head >= since[t]
      BY <1>t, <3>1 DEF Rests, CloneInv, ProjectTypes
    <3>3. AllCopied(t)
      BY <3>1, <3>2 DEF AllCopied
    <3> QED
      BY <2>0, <3>3 DEF AllCopied, Wanted, disk
  <2>6. CopyInv(t)'
    <3>1. ppc'[t] = "rename" /\ UNCHANGED <<since[t], source[t], result[t], remote>>
      BY <1>t, <2>0 DEF Step
    <3> QED
      BY <1>c, <2>0, <2>5, <3>1 DEF CopyInv, Copying, Succeeded, Early
  <2> QED
    BY <2>0, <2>1, <2>2, <2>3, <2>4, <2>6, OneSteps
<1>21. ASSUME NEW t \in Terminals, Rename(t) PROVE ProjectInv'
  <2>0. /\ ppc[t] = "rename"
        /\ UNCHANGED <<remote, cache, mode, seen, todo, target, result, since, source>>
    BY <1>21 DEF Rename
  <2>1. CASE Step(t, "error") /\ UNCHANGED renamed
    BY <1>s, <2>0, <2>1, MovesOn DEF Steps, Early
  <2>2. CASE Step(t, "ok") /\ renamed' = [renamed EXCEPT ![t] = TRUE]
    <3>1. ProjectTypes'
      <4>1. renamed' \in [Terminals -> BOOLEAN]
        BY <1>t, <2>2 DEF ProjectTypes
      <4> QED
        BY <1>t, <2>0, <2>2, <4>1 DEF Step, cache, ProjectTypes, Steps
    <3>2. CloneInv'
      BY <1>t, <2>0 DEF CloneInv, cache
    <3>3. AwaitInv'
      BY <1>t, <2>0, <2>2, NoMoreWait DEF cache
    <3>4. \A u \in Terminals \ {t} : Same(u)
      BY <1>t, <2>0, <2>2 DEF Step, cache, ProjectTypes, Same
    <3>5. CopyInv(t)'
      <4>1. ppc'[t] = "ok" /\ renamed'[t] /\ UNCHANGED <<since[t], source[t], result[t], remote>>
        BY <1>t, <2>0, <2>2 DEF Step, ProjectTypes
      <4>2. AllCopied(t)' <=> AllCopied(t)
        BY <2>0 DEF AllCopied, Wanted
      <4> QED
        BY <1>c, <2>0, <4>1, <4>2 DEF CopyInv, Copying, Succeeded, Early
    <3> QED
      BY <2>0, <3>1, <3>2, <3>3, <3>4, <3>5, OneSteps
  <2> QED
    BY <1>21, <2>1, <2>2 DEF Rename
<1>22. ASSUME UNCHANGED projectVars PROVE ProjectInv'
  <2>1. ProjectTypes' /\ CloneInv' /\ AwaitInv'
    BY <1>t, <1>22 DEF projectVars, cache, disk, ProjectTypes, CloneInv, AwaitInv, Awaited
  <2>2. \A u \in Terminals : Same(u)
    BY <1>22 DEF projectVars, cache, disk, Same
  <2>3. remote' \in Nat /\ remote <= remote'
    BY <1>t, <1>22 DEF projectVars, ProjectTypes
  <2> QED
    BY <1>t, <1>c, <2>1, <2>2, <2>3, SameKeeps DEF ProjectInv
<1> QED
  BY <1>1, <1>2, <1>3, <1>4, <1>5, <1>6, <1>7, <1>8, <1>9, <1>10, <1>11, <1>12, <1>13,
     <1>14, <1>15, <1>16, <1>17, <1>18, <1>19, <1>20, <1>21, <1>22 DEF ProjectNext

\* A command that reports no error and copied from a whole clone at rest has
\* made a complete project of one version, for any number of terminals, files
\* and versions, whatever git processes failed, were killed or went on alone
\* before: project.go:69-101, repo.go:66-113.
THEOREM SuccessIsComplete == ProjectSpec => []SuccessMeansComplete
<1>1. ProjectInv => SuccessMeansComplete
  BY DEF ProjectInv, CopyInv, Succeeded, AllCopied, SuccessMeansComplete
<1> QED
  BY ProjectInitially, ProjectInductive, <1>1, PTL DEF ProjectSpec

\* And that version is not older than the layout was when the command began:
\* repo.go:66-82.
THEOREM SuccessIsUpToDate == ProjectSpec => []SuccessIsFresh
<1>1. ProjectInv => SuccessIsFresh
  BY DEF ProjectInv, CopyInv, Succeeded, AllCopied, SuccessIsFresh
<1> QED
  BY ProjectInitially, ProjectInductive, <1>1, PTL DEF ProjectSpec

--------------------------------------------------------------------------------
(* proto add, proto server, proto client and upgrade.                       *)

Writers == ToSet(Protos) \cup ToSet(Services)
Item == [file : AllFiles, by : Writers]

ToolTypes ==
    /\ files \in [AllFiles -> {"absent", "edited"} \cup Writers]
    /\ work \in [Shells -> Seq(Item)]
    /\ open \in [Shells -> BOOLEAN]

\* Services that come behind another one of the same file.
Shadowed ==
    {Services[j] : j \in {j \in DOMAIN Services : \E i \in DOMAIN Services :
                             i < j /\ FileOf[Services[i]] = FileOf[Services[j]]}}

\* The file of such a service is there, or is to be written before its turn.
Covered(p) ==
    \A k \in DOMAIN work[p] : work[p][k].by \in Shadowed =>
        \/ files[work[p][k].file] # "absent"
        \/ \E i \in DOMAIN work[p] : i < k /\ work[p][i].file = work[p][k].file

\* A command about to write has a file that was absent when it looked, so that
\* its turn is not that of a shadowed service; an edit since then is late.
Opened(p) ==
    open[p] => /\ work[p] # <<>> /\ Head(work[p]).by \notin Shadowed
               /\ files[Head(work[p]).file] = "edited" => Head(work[p]).file \in late

FileInv ==
    /\ ToolTypes
    /\ \A f \in AllFiles : files[f] \notin Shadowed
    /\ \A p \in Shells : Covered(p) /\ Opened(p)

LEMMA HeadAndTail ==
    ASSUME NEW S, NEW s \in Seq(S), s # << >>
    PROVE  /\ Head(s) = s[1] /\ Head(s) \in S /\ 1 \in DOMAIN s
           /\ Tail(s) \in Seq(S)
           /\ \A k \in DOMAIN Tail(s) : k + 1 \in DOMAIN s /\ Tail(s)[k] = s[k + 1]
           /\ \A k \in DOMAIN s : k # 1 => k - 1 \in DOMAIN Tail(s)
OBVIOUS

LEMMA ShadowedWriters == Shadowed \subseteq ToSet(Services)
BY DEF Shadowed, ToSet

LEMMA ServerWorkItems ==
    /\ ServerWork \in Seq(Item)
    /\ DOMAIN ServerWork = DOMAIN Services
    /\ \A k \in DOMAIN Services :
          ServerWork[k].file = FileOf[Services[k]] /\ ServerWork[k].by = Services[k]
<1>1. Services \in Seq(ToSet(Services)) /\ DOMAIN Services = 1 .. Len(Services)
  BY ToolsAssumption
<1>2. \A k \in DOMAIN Services : Services[k] \in ToSet(Services)
  BY DEF ToSet
<1>3. \A k \in 1 .. Len(Services) :
         [file |-> FileOf[Services[k]], by |-> Services[k]] \in Item
  BY <1>1, <1>2 DEF Item, Writers, AllFiles
<1>4. Len(Services) \in Nat
  BY <1>1
<1> QED
  BY <1>1, <1>3, <1>4 DEF ServerWork

\* The file of a shadowed service has its turn earlier.
LEMMA ServerWorkCovered ==
    \A k \in DOMAIN Services : Services[k] \in Shadowed =>
        \E i \in DOMAIN Services : i < k /\ ServerWork[i].file = ServerWork[k].file
<1> SUFFICES ASSUME NEW k \in DOMAIN Services, Services[k] \in Shadowed
             PROVE  \E i \in DOMAIN Services : i < k /\ ServerWork[i].file = ServerWork[k].file
  OBVIOUS
<1>1. PICK j \in DOMAIN Services : /\ Services[k] = Services[j]
                                   /\ \E i \in DOMAIN Services :
                                        i < j /\ FileOf[Services[i]] = FileOf[Services[j]]
  BY DEF Shadowed
<1>2. j = k
  BY <1>1, ToolsAssumption DEF IsInjective
<1> QED
  BY <1>1, <1>2, ServerWorkItems

LEMMA FilesInitially == ToolsInit => FileInv
<1> SUFFICES ASSUME ToolsInit PROVE FileInv
  OBVIOUS
<1>1. ToolTypes
  <2>1. files \in [AllFiles -> {"absent", "edited"} \cup Writers]
    BY DEF ToolsInit
  <2>2. work \in [Shells -> Seq(Item)]
    BY DEF ToolsInit
  <2>3. open \in [Shells -> BOOLEAN]
    BY DEF ToolsInit
  <2> QED
    BY <2>1, <2>2, <2>3 DEF ToolTypes
<1>2. \A f \in AllFiles : files[f] \notin Shadowed
  BY ShadowedWriters, ToolsAssumption DEF ToolsInit
<1>3. \A p \in Shells : Covered(p) /\ Opened(p)
  BY DEF ToolsInit, Covered, Opened
<1> QED
  BY <1>1, <1>2, <1>3 DEF FileInv

LEMMA FilesInductive == FileInv /\ [ToolsNext]_toolVars => FileInv'
<1> SUFFICES ASSUME FileInv, [ToolsNext]_toolVars PROVE FileInv'
  OBVIOUS
<1>t. /\ ToolTypes /\ work \in [Shells -> Seq(Item)]
      /\ \A f \in AllFiles : files[f] \notin Shadowed
  BY DEF FileInv, ToolTypes
<1>c. \A p \in Shells : Covered(p) /\ Opened(p)
  BY DEF FileInv
<1>w. /\ "absent" \notin Shadowed /\ "edited" \notin Shadowed
      /\ "absent" \notin Writers /\ "edited" \notin Writers
  BY ShadowedWriters, ToolsAssumption DEF Writers
<1>i. \A p \in Shells : \A k \in DOMAIN work[p] :
         work[p][k].file \in AllFiles /\ work[p][k].by \in Writers
  <2>1. \A p \in Shells : work[p] \in Seq(Item)
    BY <1>t
  <2>2. \A p \in Shells : \A k \in DOMAIN work[p] : work[p][k] \in Item
    BY <2>1
  <2> QED
    BY <2>2 DEF Item
<1>h. \A p \in Shells : work[p] # << >> =>
         /\ Head(work[p]) = work[p][1] /\ 1 \in DOMAIN work[p]
         /\ Head(work[p]).file \in AllFiles /\ Head(work[p]).by \in Writers
  BY <1>t, <1>i, HeadAndTail
<1>1. ASSUME NEW f \in AllFiles, Edit(f) PROVE FileInv'
  <2>0. /\ files' = [files EXCEPT ![f] = "edited"]
        /\ late' = IF \E p \in Shells : Window(p, f) THEN late \cup {f} ELSE late \ {f}
        /\ UNCHANGED <<work, open>>
    BY <1>1 DEF Edit
  <2>1. \A g \in AllFiles : files'[g] = IF g = f THEN "edited" ELSE files[g]
    BY <1>t, <2>0 DEF ToolTypes
  <2>2. ToolTypes'
    BY <1>t, <2>0 DEF ToolTypes
  <2>3. \A g \in AllFiles : files'[g] \notin Shadowed
    BY <1>t, <1>w, <2>1
  <2>4. ASSUME NEW p \in Shells PROVE Covered(p)'
    BY <1>c, <1>i, <2>0, <2>1 DEF Covered
  <2>5. ASSUME NEW p \in Shells PROVE Opened(p)'
    <3> SUFFICES ASSUME open[p] PROVE Opened(p)'
      BY <2>0 DEF Opened
    <3>1. work[p] # << >> /\ Head(work[p]).by \notin Shadowed /\ Head(work[p]).file \in AllFiles
      BY <1>c, <1>h DEF Opened
    <3>2. CASE Head(work[p]).file = f
      BY <2>0, <3>1, <3>2 DEF Opened, Window
    <3>3. CASE Head(work[p]).file # f
      BY <1>c, <2>0, <2>1, <3>1, <3>3 DEF Opened
    <3> QED
      BY <3>2, <3>3
  <2> QED
    BY <2>2, <2>3, <2>4, <2>5 DEF FileInv
<1>2. ASSUME UNCHANGED fileVars PROVE FileInv'
  BY <1>2 DEF fileVars, FileInv, ToolTypes, Covered, Opened
<1>3. ASSUME NEW p \in Shells, NEW items \in Seq(Item), work[p] = << >>,
             work' = [work EXCEPT ![p] = items], UNCHANGED <<files, open, late>>,
             \A k \in DOMAIN items : items[k].by \in Shadowed =>
                 \E i \in DOMAIN items : i < k /\ items[i].file = items[k].file
      PROVE  FileInv'
  <2>1. ToolTypes'
    BY <1>t, <1>3 DEF ToolTypes
  <2>2. work'[p] = items /\ ~open[p] /\ \A q \in Shells \ {p} : work'[q] = work[q]
    BY <1>t, <1>c, <1>3 DEF Opened
  <2>3. Covered(p)' /\ Opened(p)'
    BY <1>3, <2>2 DEF Covered, Opened
  <2>4. \A q \in Shells \ {p} : Covered(q)' /\ Opened(q)'
    BY <1>c, <1>3, <2>2 DEF Covered, Opened
  <2> QED
    BY <1>t, <1>3, <2>1, <2>3, <2>4 DEF FileInv
<1>4. ASSUME NEW p \in Shells, NEW f \in ToSet(Protos), ProtoAdd(p, f) PROVE FileInv'
  <2> DEFINE items == <<[file |-> f, by |-> f]>>
  <2>1. items \in Seq(Item)
    BY DEF Item, Writers, AllFiles
  <2>2. \A k \in DOMAIN items : items[k].by = f
    OBVIOUS
  <2>3. f \notin Shadowed
    BY ShadowedWriters, ToolsAssumption
  <2>4. work[p] = << >> /\ work' = [work EXCEPT ![p] = items] /\ UNCHANGED <<files, open, late>>
    BY <1>4 DEF ProtoAdd
  <2> HIDE DEF items
  <2> QED
    BY <1>3, <2>1, <2>2, <2>3, <2>4
<1>5. ASSUME NEW p \in Shells, ProtoServer(p) PROVE FileInv'
  <2>1. \A k \in DOMAIN ServerWork : ServerWork[k].by \in Shadowed =>
           \E i \in DOMAIN ServerWork : i < k /\ ServerWork[i].file = ServerWork[k].file
    BY ServerWorkItems, ServerWorkCovered
  <2>2. /\ work[p] = << >> /\ work' = [work EXCEPT ![p] = ServerWork]
        /\ UNCHANGED <<files, open, late>>
    BY <1>5 DEF ProtoServer
  <2>3. ServerWork \in Seq(Item)
    BY ServerWorkItems
  <2> QED
    BY <1>3, <2>1, <2>2, <2>3
<1>6. ASSUME NEW p \in Shells, work[p] # << >>, work' = [work EXCEPT ![p] = Tail(work[p])],
             ToolTypes', ~open'[p], files'[Head(work[p]).file] # "absent",
             \A f \in AllFiles : files[f] # "absent" => files'[f] # "absent"
      PROVE  Covered(p)' /\ Opened(p)'
  <2>1. work'[p] = Tail(work[p])
    BY <1>t, <1>6
  <2>2. work[p] \in Seq(Item)
    BY <1>t
  <2>3. /\ Head(work[p]) = work[p][1]
        /\ \A k \in DOMAIN Tail(work[p]) :
              k \in Nat /\ k + 1 \in DOMAIN work[p] /\ Tail(work[p])[k] = work[p][k + 1]
        /\ \A k \in DOMAIN work[p] : k # 1 => k - 1 \in DOMAIN Tail(work[p])
        /\ \A k \in DOMAIN work[p] : k \in Nat
    BY <1>6, <2>2, HeadAndTail
  <2>4. ASSUME NEW k \in DOMAIN Tail(work[p]), Tail(work[p])[k].by \in Shadowed,
               files'[Tail(work[p])[k].file] = "absent"
        PROVE  \E i \in DOMAIN Tail(work[p]) :
                   i < k /\ Tail(work[p])[i].file = Tail(work[p])[k].file
    <3>1. k + 1 \in DOMAIN work[p] /\ Tail(work[p])[k] = work[p][k + 1] /\ k \in Nat
      BY <2>3, <2>4
    <3>2. files[work[p][k + 1].file] = "absent"
      BY <1>6, <1>i, <2>4, <3>1
    <3>3. PICK i \in DOMAIN work[p] : i < k + 1 /\ work[p][i].file = work[p][k + 1].file
      BY <1>c, <2>4, <3>1, <3>2 DEF Covered
    <3>4. i # 1
      BY <1>6, <2>3, <2>4, <3>1, <3>3
    <3>5. i - 1 \in DOMAIN Tail(work[p]) /\ Tail(work[p])[i - 1] = work[p][(i - 1) + 1]
      BY <2>3, <3>4
    <3>6. i \in Nat /\ (i - 1) + 1 = i /\ i - 1 < k
      BY <2>3, <3>1, <3>3
    <3> QED
      BY <3>1, <3>3, <3>5, <3>6
  <2> DEFINE s == Tail(work[p])
  <2>5. \A k \in DOMAIN s : s[k].by \in Shadowed /\ files'[s[k].file] = "absent" =>
           \E i \in DOMAIN s : i < k /\ s[i].file = s[k].file
    BY <2>4
  <2>6. work'[p] = s
    BY <2>1
  <2> HIDE DEF s
  <2>7. Covered(p)'
    BY <2>5, <2>6 DEF Covered
  <2>8. Opened(p)'
    BY <1>6 DEF Opened
  <2> QED
    BY <2>7, <2>8
<1>7. ASSUME NEW p \in Shells, Look(p) PROVE FileInv'
  <2>0. work[p] # << >> /\ ~open[p] /\ UNCHANGED <<files, late>>
    BY <1>7 DEF Look
  <2>1. CASE files[Head(work[p]).file] = "absent"
    <3>1. open' = [open EXCEPT ![p] = TRUE] /\ UNCHANGED work
      BY <1>7, <2>1 DEF Look
    <3>2. ToolTypes'
      BY <1>t, <2>0, <3>1 DEF ToolTypes
    <3>3. \A q \in Shells : Covered(q)'
      BY <1>c, <2>0, <3>1 DEF Covered
    <3>4. Opened(p)'
      <4>1. Head(work[p]).by \notin Shadowed
        <5>1. \A i \in DOMAIN work[p] : ~(i < 1)
          BY <1>t
        <5> QED
          BY <1>c, <1>h, <2>0, <2>1, <5>1 DEF Covered
      <4> QED
        BY <2>0, <2>1, <3>1, <4>1 DEF Opened
    <3>5. ASSUME NEW q \in Shells \ {p} PROVE Opened(q)'
      <4>1. open'[q] = open[q]
        BY <1>t, <3>1 DEF ToolTypes
      <4> QED
        BY <1>c, <2>0, <3>1, <4>1 DEF Opened
    <3> QED
      BY <1>t, <2>0, <3>2, <3>3, <3>4, <3>5 DEF FileInv
  <2>2. CASE files[Head(work[p]).file] # "absent"
    <3>1. work' = [work EXCEPT ![p] = Tail(work[p])] /\ UNCHANGED open
      BY <1>7, <2>2 DEF Look
    <3>2. ToolTypes'
      <4>1. Tail(work[p]) \in Seq(Item)
        BY <1>t, <2>0, HeadAndTail
      <4> QED
        BY <1>t, <2>0, <3>1, <4>1 DEF ToolTypes
    <3>3. Covered(p)' /\ Opened(p)'
      BY <1>6, <2>0, <2>2, <3>1, <3>2
    <3>4. ASSUME NEW q \in Shells \ {p} PROVE Covered(q)' /\ Opened(q)'
      <4>1. work'[q] = work[q]
        BY <1>t, <3>1
      <4> QED
        BY <1>c, <2>0, <3>1, <4>1 DEF Covered, Opened
    <3> QED
      BY <1>t, <2>0, <3>2, <3>3, <3>4 DEF FileInv
  <2> QED
    BY <2>1, <2>2
<1>8. ASSUME NEW p \in Shells, Write(p) PROVE FileInv'
  <2> DEFINE h == Head(work[p])
  <2>0. work[p] # << >> /\ open[p] /\ open' = [open EXCEPT ![p] = FALSE] /\ UNCHANGED late
    BY <1>8 DEF Write
  <2>1. h.file \in AllFiles /\ h.by \in Writers /\ h.by \notin Shadowed
    BY <1>c, <1>h, <2>0 DEF Opened
  <2>2. /\ files' = files \/ files' = [files EXCEPT ![h.file] = h.by]
        /\ \/ work' = [work EXCEPT ![p] = << >>]
           \/ work' = [work EXCEPT ![p] = Tail(work[p])] /\ files' = [files EXCEPT ![h.file] = h.by]
    BY <1>8 DEF Write
  <2>3. Tail(work[p]) \in Seq(Item) /\ << >> \in Seq(Item)
    BY <1>t, <2>0, HeadAndTail
  <2> HIDE DEF h
  <2>4. files' \in [AllFiles -> {"absent", "edited"} \cup Writers]
    BY <1>t, <2>1, <2>2 DEF ToolTypes
  <2>5. ToolTypes'
    BY <1>t, <2>0, <2>2, <2>3, <2>4 DEF ToolTypes
  <2>6. \A f \in AllFiles : files'[f] = files[f] \/ (f = h.file /\ files'[f] = h.by)
    BY <1>t, <2>2 DEF ToolTypes
  <2>7. \A f \in AllFiles : files'[f] \notin Shadowed
    BY <1>t, <2>1, <2>6
  <2>8. \A f \in AllFiles : /\ files[f] # "absent" => files'[f] # "absent"
                            /\ files'[f] = "edited" => files[f] = "edited"
    BY <1>w, <2>1, <2>6
  <2>9. ~open'[p] /\ \A q \in Shells \ {p} : open'[q] = open[q] /\ work'[q] = work[q]
    BY <1>t, <2>0, <2>2 DEF ToolTypes
  <2>10. Covered(p)' /\ Opened(p)'
    <3>1. CASE work' = [work EXCEPT ![p] = << >>]
      <4>1. work'[p] = << >>
        BY <1>t, <3>1
      <4> QED
        BY <2>9, <4>1 DEF Covered, Opened
    <3>2. CASE work' = [work EXCEPT ![p] = Tail(work[p])] /\ files' = [files EXCEPT ![h.file] = h.by]
      <4>1. files'[h.file] # "absent"
        BY <1>t, <1>w, <2>1, <3>2 DEF ToolTypes
      <4>2. files'[Head(work[p]).file] # "absent"
        BY <4>1 DEF h
      <4> QED
        BY <1>6, <2>0, <2>5, <2>8, <2>9, <3>2, <4>2
    <3> QED
      BY <2>2, <3>1, <3>2
  <2>11. ASSUME NEW q \in Shells \ {p} PROVE Covered(q)'
    BY <1>c, <1>i, <2>8, <2>9 DEF Covered
  <2>12. ASSUME NEW q \in Shells \ {p} PROVE Opened(q)'
    BY <1>c, <1>h, <2>0, <2>8, <2>9 DEF Opened
  <2> QED
    BY <2>5, <2>7, <2>10, <2>11, <2>12 DEF FileInv
<1>9. ASSUME NEW n, NEW a, NEW b, ProtoClient(n, a, b) PROVE FileInv'
  BY <1>2, <1>9 DEF ProtoClient
<1>10. ASSUME Reinstall PROVE FileInv'
  BY <1>2, <1>10 DEF Reinstall
<1>11. ASSUME NEW n \in 0 .. Len(Installed), Upgrade(n) PROVE FileInv'
  BY <1>2, <1>11 DEF Upgrade
<1>12. ASSUME UNCHANGED toolVars PROVE FileInv'
  BY <1>2, <1>12 DEF toolVars
<1> QED
  BY <1>1, <1>4, <1>5, <1>7, <1>8, <1>9, <1>10, <1>11, <1>12 DEF ToolsNext

\* An edit is lost only if it was made after a command had found the file
\* absent, for any number of shells, proto files and services:
\* proto/add/proto.go:36-39, proto/server/server.go:78-90.
THEOREM EditedFilesSurvive == ToolsSpec => EditsSurvive
<1>1. ASSUME FileInv, [ToolsNext]_toolVars, NEW f \in AllFiles \ late, files[f] = "edited"
      PROVE  files'[f] = "edited"
  <2>0. ToolTypes /\ \A p \in Shells : Opened(p)
    BY <1>1 DEF FileInv
  <2>1. ASSUME NEW g \in AllFiles, Edit(g) PROVE files'[f] = "edited"
    BY <1>1, <2>0, <2>1 DEF Edit, ToolTypes
  <2>2. ASSUME NEW p \in Shells, Write(p) PROVE files'[f] = "edited"
    <3>1. Head(work[p]).file # f
      BY <1>1, <2>0, <2>2 DEF Write, Opened
    <3> QED
      BY <1>1, <2>0, <2>2, <3>1 DEF Write, ToolTypes
  <2>3. ASSUME UNCHANGED files PROVE files'[f] = "edited"
    BY <1>1, <2>3
  <2>4. ASSUME NEW p \in Shells, NEW g, ProtoAdd(p, g) \/ ProtoServer(p) \/ Look(p)
        PROVE  UNCHANGED files
    BY <2>4 DEF ProtoAdd, ProtoServer, Look
  <2>5. ASSUME NEW n, NEW a, NEW b, Reinstall \/ Upgrade(n) \/ ProtoClient(n, a, b)
        PROVE  UNCHANGED files
    BY <2>5 DEF Reinstall, Upgrade, ProtoClient, fileVars
  <2>6. UNCHANGED toolVars => UNCHANGED files
    BY DEF toolVars, fileVars
  <2> QED
    BY <1>1, <2>1, <2>2, <2>3, <2>4, <2>5, <2>6 DEF ToolsNext
<1>2. FileInv /\ [ToolsNext]_toolVars =>
         [\A f \in AllFiles \ late : files[f] = "edited" => files'[f] = "edited"]_toolVars
  BY <1>1
<1> QED
  BY <1>2, FilesInitially, FilesInductive, PTL DEF ToolsSpec, EditsSurvive

\* Of services that share a file the first has it, for any list of services and
\* any number of commands beside each other: proto/server/server.go:79-83.
THEOREM FirstServiceKeepsFile == ToolsSpec => []FirstServiceHasFile
<1>1. ASSUME FileInv, NEW i \in DOMAIN Services, NEW j \in DOMAIN Services,
             i < j, FileOf[Services[i]] = FileOf[Services[j]]
      PROVE  files[FileOf[Services[j]]] # Services[j]
  <2>1. Services[j] \in Shadowed
    BY <1>1 DEF Shadowed
  <2>2. FileOf[Services[j]] \in AllFiles
    BY DEF AllFiles, ToSet
  <2> QED
    BY <1>1, <2>1, <2>2 DEF FileInv
<1>2. FileInv => FirstServiceHasFile
  BY <1>1 DEF FirstServiceHasFile
<1> QED
  BY <1>2, FilesInitially, FilesInductive, PTL DEF ToolsSpec

\* No command installs the MQTT plugin.
PluginInv ==
    /\ "go-mqt" \in plugins => "go-mqt" \in given
    /\ code # {} => "go-mqt" \in given

LEMMA UpgradedWithout == \A n : n \in 0 .. Len(Installed) /\ "go-mqt" \in Upgraded(n)
                                  => "go-mqt" \in plugins
<1> SUFFICES ASSUME NEW n \in 0 .. Len(Installed), "go-mqt" \in Upgraded(n)
             PROVE  "go-mqt" \in plugins
  OBVIOUS
<1>1. Len(Installed) = 6
  BY DEF Installed
<1>2. \A i \in 1 .. n : Installed[i] # "go-mqt"
  BY <1>1 DEF Installed
<1> QED
  BY <1>2 DEF Upgraded

\* Client code is generated only where the user installed protoc-gen-go-mqt by
\* hand, however often the commands run and whatever the files are:
\* proto/client/client.go:42-50, upgrade.go:20-32.
THEOREM ClientCodeNeedsMqt == ToolsSpec => []ClientNeedsMqt
<1>1. ToolsInit => PluginInv
  BY DEF ToolsInit, PluginInv
<1>2. ASSUME PluginInv, [ToolsNext]_toolVars PROVE PluginInv'
  <2>1. ASSUME NEW f, Edit(f) \/ Reinstall PROVE PluginInv'
    BY <1>2, <2>1 DEF Edit, Reinstall, PluginInv
  <2>2. ASSUME NEW n \in 0 .. Len(Installed), Upgrade(n) PROVE PluginInv'
    BY <1>2, <2>2, UpgradedWithout DEF Upgrade, PluginInv
  <2>3. ASSUME NEW n \in 0 .. Len(Installed), NEW a, NEW b, ProtoClient(n, a, b)
        PROVE  PluginInv'
    <3>1. "go-mqt" \in plugins' => "go-mqt" \in plugins
      BY <2>3, UpgradedWithout DEF ProtoClient
    <3>2. code' = code \/ Needed \subseteq plugins'
      BY <2>3 DEF ProtoClient
    <3>3. "go-mqt" \in Needed /\ given' = given
      BY <2>3 DEF ProtoClient, Needed
    <3> QED
      BY <1>2, <3>1, <3>2, <3>3 DEF PluginInv
  <2>4. ASSUME NEW p, NEW f, ProtoAdd(p, f) \/ ProtoServer(p) \/ Look(p) \/ Write(p)
        PROVE  PluginInv'
    BY <1>2, <2>4 DEF ProtoAdd, ProtoServer, Look, Write, PluginInv
  <2>5. ASSUME UNCHANGED toolVars PROVE PluginInv'
    BY <1>2, <2>5 DEF toolVars, PluginInv
  <2> QED
    BY <1>2, <2>1, <2>2, <2>3, <2>4, <2>5 DEF ToolsNext
<1>3. PluginInv => ClientNeedsMqt
  BY DEF PluginInv, ClientNeedsMqt
<1> QED
  BY <1>1, <1>2, <1>3, PTL DEF ToolsSpec

================================================================================
