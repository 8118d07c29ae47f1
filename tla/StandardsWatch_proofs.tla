------------------------ MODULE StandardsWatch_proofs ------------------------
(***************************************************************************)
(* Proofs about StandardsWatch for any sources, items, values, tracked     *)
(* sets, numbers of changes and of crashes.                                *)
(*                                                                         *)
(* The argument: while a run collects, what an item holds now, as tracked, *)
(* is among the values it had during the run; an item is stored only when  *)
(* its source answered, and holds nothing otherwise (CollectInv).  What    *)
(* KeepFrom puts in place of a failed source equals the baseline, and Diff *)
(* lists nothing that equals the baseline.                                 *)
(***************************************************************************)
EXTENDS StandardsWatch, TLAPS

-----------------------------------------------------------------------------
(* diff.go                                                                 *)

\* Diff lists no item that has the value of the baseline.
LEMMA SameNotListed == ASSUME NEW kind, NEW b PROVE ~Differs(kind, b, b)
BY DEF Differs

-----------------------------------------------------------------------------
(* The inductive invariant                                                 *)

\* The committed files parse, and so do accepted ones that wait for their commit.
FilesInv ==
  /\ repo.tracked \in Configs /\ DOMAIN repo = {"tracked", "base"} /\ repo.base # Truncated
  /\ tree.tracked \in Configs /\ DOMAIN tree = {"tracked", "base"}
  /\ accepted => tree.base # Truncated

\* A run that collects has stored what it saw, for the sources that answered only.
CollectInv ==
  /\ run.tracked \in Configs
  /\ \A i \in Items : Select(upstream, run.tracked)[i] \in seen[i]
  /\ \A s \in Sources : task[s].at = "off" => s \notin run.tracked \cup {Errata}
  /\ \A s \in Sources : task[s].at \in {"off", "fetching", "ok", "failed"}
  /\ \A i \in Items : IF task[Source[i]].at = "ok" THEN cur[i] \in seen[i] ELSE cur[i] = Absent

\* What each step of a run relies on.
RunInv ==
  /\ DOMAIN run = {"pc", "mode", "tracked", "base"}
  /\ DOMAIN task = Sources /\ DOMAIN cur = Items /\ DOMAIN seen = Items /\ DOMAIN upstream = Items
  /\ run.pc = "collect" => CollectInv
  /\ run.pc = "writing" => \A i \in Items : cur[i] \in seen[i]
  /\ ReportTrue

Inv == FilesInv /\ RunInv

\* A process that has ended leaves nothing to rely on.
LEMMA ExitInv == ASSUME RunInv, UNCHANGED upstream, Exit PROVE RunInv'
<1>1. run'.pc = "idle" /\ DOMAIN run' = {"pc", "mode", "tracked", "base"}
  BY DEF Exit, NoRun
<1>2. DOMAIN task' = Sources /\ DOMAIN cur' = Items /\ DOMAIN seen' = Items
  BY DEF Exit, newSnapshot
<1> QED BY <1>1, <1>2 DEF RunInv, ReportTrue

\* The first state.
LEMMA InitInv == Init => Inv
<1> SUFFICES ASSUME Init PROVE Inv
  OBVIOUS
<1>1. PICK tracked \in Configs : repo = [tracked |-> tracked, base |-> Select(Initially, tracked)]
  BY DEF Init
<1>2. repo.base # Truncated
  <2>1. DOMAIN repo.base = Items
    BY <1>1 DEF Select
  <2> QED BY <2>1, WatchAssumption
<1>3. FilesInv
  BY <1>1, <1>2 DEF Init, FilesInv
<1>4. RunInv
  <2>1. run.pc = "idle" /\ DOMAIN run = {"pc", "mode", "tracked", "base"}
    BY DEF Init, NoRun
  <2>2. DOMAIN task = Sources /\ DOMAIN cur = Items /\ DOMAIN seen = Items /\ DOMAIN upstream = Items
    BY WatchAssumption DEF Init, newSnapshot
  <2> QED BY <2>1, <2>2 DEF RunInv, ReportTrue
<1> QED BY <1>3, <1>4 DEF Inv

\* A run starts with what it sees first.
LEMMA StartInv == ASSUME Inv, NEW mode, Start(mode) PROVE Inv'
<1>1. FilesInv'
  BY DEF Start, workflow, Inv, FilesInv
<1> DEFINE t == Mine(mode).tracked
<1>2. t \in Configs
  BY DEF Mine, Inv, FilesInv
<1>3. run' = [pc |-> "collect", mode |-> mode, tracked |-> t, base |-> Mine(mode).base]
  BY DEF Start
<1>4. /\ task' = [s \in Sources |-> IF s \in t \cup {Errata} THEN Task("fetching", 1)
                                    ELSE Task("off", 0)]
      /\ cur' = newSnapshot
      /\ seen' = [i \in Items |-> {Select(upstream, t)[i]}]
      /\ upstream' = upstream
  BY DEF Start
<1>5. Task("fetching", 1).at = "fetching" /\ Task("off", 0).at = "off"
  BY DEF Task
<1>6. \A i \in Items : Source[i] \in Sources
  BY DEF Sources
<1>7. CollectInv'
  <2> HIDE DEF t
  <2>1. run'.tracked = t
    BY <1>3
  <2>2. \A i \in Items : Select(upstream', run'.tracked)[i] \in seen'[i]
    BY <1>4, <2>1
  <2>3. \A s \in Sources : /\ task'[s].at \in {"fetching", "off"}
                           /\ task'[s].at = "off" => s \notin run'.tracked \cup {Errata}
    BY <1>4, <1>5, <2>1
  <2>4. \A i \in Items : cur'[i] = Absent /\ task'[Source[i]].at # "ok"
    BY <1>4, <1>6, <2>3 DEF newSnapshot
  <2> QED BY <1>2, <2>1, <2>2, <2>3, <2>4 DEF CollectInv
<1>8. RunInv'
  <2> HIDE DEF t
  <2> QED BY <1>3, <1>4, <1>7 DEF RunInv, Inv, newSnapshot, ReportTrue
<1> QED BY <1>1, <1>8 DEF Inv

\* A goroutine that ends, well or not, keeps what the run relies on.
LEMMA FetchInv == ASSUME Inv, NEW s \in Sources, Fetch(s) PROVE Inv'
<1>1. /\ run.pc = "collect" /\ task[s].at = "fetching" /\ CollectInv
      /\ UNCHANGED <<upstream, workflow, run, seen, report>>
  BY DEF Fetch, FetchOK, FetchRefused, FetchRetry, FetchExpired, Fetching, Inv, RunInv
<1>2. FilesInv'
  BY <1>1 DEF workflow, Inv, FilesInv
<1>3. \A a, n : Task(a, n).at = a
  BY DEF Task
<1>4. DOMAIN task = Sources
  BY DEF Inv, RunInv
<1>5. \A i \in Items : Source[i] \in Sources
  BY DEF Sources
<1>6. CASE FetchOK(s)
  <2>1. /\ task' = [task EXCEPT ![s] = Task("ok", 0)]
        /\ cur' = [i \in Items |-> IF Source[i] = s THEN Select(upstream, run.tracked)[i] ELSE cur[i]]
    BY <1>6 DEF FetchOK
  <2>2. task'[s].at = "ok" /\ \A r \in Sources : r # s => task'[r] = task[r]
    BY <1>3, <1>4, <2>1
  <2>3. CollectInv'
    <3>1. \A i \in Items : IF task'[Source[i]].at = "ok" THEN cur'[i] \in seen[i]
                           ELSE cur'[i] = Absent
      BY <1>1, <1>5, <2>1, <2>2 DEF CollectInv
    <3> QED BY <1>1, <2>2, <3>1 DEF CollectInv
  <2> QED BY <1>1, <1>2, <1>4, <2>1, <2>3 DEF Inv, RunInv, ReportTrue
<1>7. CASE FetchRefused(s) \/ FetchRetry(s) \/ FetchExpired(s)
  <2>1. PICK a, n : a \in {"fetching", "failed"} /\ task' = [task EXCEPT ![s] = Task(a, n)]
    BY <1>7 DEF FetchRefused, FetchRetry, FetchExpired
  <2>2. cur' = cur
    BY <1>7 DEF FetchRefused, FetchRetry, FetchExpired
  <2>3. task'[s].at = a /\ \A r \in Sources : r # s => task'[r] = task[r]
    BY <1>3, <1>4, <2>1
  <2>4. CollectInv'
    BY <1>1, <1>5, <2>1, <2>2, <2>3 DEF CollectInv
  <2> QED BY <1>1, <1>2, <1>4, <2>1, <2>2, <2>4 DEF Inv, RunInv, ReportTrue
<1> QED BY <1>6, <1>7 DEF Fetch

\* When every goroutine has ended, an item that differs from the baseline after KeepFrom has
\* a value that was seen; if nothing failed, so does every item.
LEMMA CollectedSeen ==
  ASSUME RunInv, Collected, NEW i \in Items
  PROVE  LET kept == KeepFrom(run.base, Failed)[i] IN
         /\ kept = run.base[i] \/ (kept = Absent /\ run.base[i] = Absent) \/ kept \in seen[i]
         /\ Failed = {} => kept \in seen[i]
<1>1. CollectInv /\ Source[i] \in Sources
  BY DEF Collected, RunInv, Sources
<1>2. task[Source[i]].at \in {"off", "ok", "failed"}
  BY <1>1 DEF CollectInv, Collected
<1>3. CASE task[Source[i]].at = "failed"
  <2>1. Source[i] \in Failed /\ cur[i] = Absent
    BY <1>1, <1>3 DEF Failed, CollectInv
  <2> QED BY <2>1 DEF KeepFrom
<1>4. CASE task[Source[i]].at = "ok"
  <2>1. Source[i] \notin Failed /\ cur[i] \in seen[i]
    BY <1>1, <1>4 DEF Failed, CollectInv
  <2> QED BY <2>1 DEF KeepFrom
<1>5. CASE task[Source[i]].at = "off"
  <2>1. Source[i] \notin Failed /\ cur[i] = Absent
    BY <1>1, <1>5 DEF Failed, CollectInv
  <2>2. About[i] \notin run.tracked
    BY <1>1, <1>5, WatchAssumption DEF CollectInv
  <2>3. Absent \in seen[i]
    BY <1>1, <2>2 DEF CollectInv, Select
  <2> QED BY <2>1, <2>3 DEF KeepFrom
<1> QED BY <1>2, <1>3, <1>4, <1>5

\* The report lists only what was seen.
LEMMA ReportInv == ASSUME Inv, Report PROVE Inv'
<1> DEFINE kept == KeepFrom(run.base, Failed)
<1>1. /\ Collected /\ cur' = kept /\ run' = [run EXCEPT !.pc = "reported"]
      /\ report' = [changes |-> Diff(run.base, kept), failed |-> Failed]
      /\ UNCHANGED <<upstream, workflow, task, seen>>
  BY DEF Report
<1>2. FilesInv'
  BY <1>1 DEF workflow, Inv, FilesInv
<1>3. ASSUME NEW ch \in report'.changes PROVE ch.value \in seen[ch.item]
  <2>1. PICK i \in Items : /\ Differs(Source[i].kind, run.base[i], kept[i])
                           /\ ch = [item |-> i, value |-> kept[i]]
    BY <1>1 DEF Diff
  <2>2. kept[i] # run.base[i]
    BY <2>1, SameNotListed
  <2>3. kept[i] \in seen[i]
    BY <1>1, <2>2, CollectedSeen DEF Inv
  <2> QED BY <2>1, <2>3
<1>4. run'.pc = "reported" /\ DOMAIN run' = DOMAIN run
  BY <1>1 DEF Inv, RunInv
<1>5. DOMAIN cur' = Items
  BY <1>1 DEF KeepFrom
<1>6. RunInv'
  BY <1>1, <1>3, <1>4, <1>5 DEF Inv, RunInv, ReportTrue
<1> QED BY <1>2, <1>6 DEF Inv

\* A snapshot that may be accepted was seen as a whole.
LEMMA AcceptBeginsInv == ASSUME Inv, AcceptBegins PROVE Inv'
<1>1. /\ Collected /\ Failed = {} /\ cur' = KeepFrom(run.base, Failed)
      /\ run' = [run EXCEPT !.pc = "writing"]
      /\ tree' = [tree EXCEPT !.base = Truncated] /\ accepted' = FALSE
      /\ UNCHANGED <<upstream, repo, task, seen>>
  BY DEF AcceptBegins, MayAccept
<1>2. FilesInv'
  BY <1>1 DEF Inv, FilesInv
<1>3. \A i \in Items : cur'[i] \in seen[i]
  BY <1>1, CollectedSeen DEF Inv
<1>4. run'.pc = "writing" /\ DOMAIN run' = DOMAIN run
  BY <1>1 DEF Inv, RunInv
<1>5. DOMAIN cur' = Items
  BY <1>1 DEF KeepFrom
<1>6. RunInv'
  BY <1>1, <1>3, <1>4, <1>5 DEF Inv, RunInv, ReportTrue
<1> QED BY <1>2, <1>6 DEF Inv

\* What is written parses.
LEMMA AcceptEndsInv == ASSUME Inv, AcceptEnds PROVE Inv'
<1>1. cur # Truncated
  BY WatchAssumption DEF Inv, RunInv
<1>2. tree' = [tree EXCEPT !.base = cur] /\ UNCHANGED <<upstream, repo>> /\ Exit
  BY DEF AcceptEnds
<1>3. FilesInv'
  BY <1>1, <1>2 DEF Inv, FilesInv
<1> QED BY <1>2, <1>3, ExitInv DEF Inv

\* A standard that moves on is seen by a run that collects.
LEMMA PublishInv == ASSUME Inv, NEW j \in Items, Publish(j) PROVE Inv'
<1>1. /\ UNCHANGED <<workflow, run, task, cur, report>>
      /\ \E v \in Values[j] : upstream' = [upstream EXCEPT ![j] = v]
      /\ seen' = IF run.pc = "collect"
                 THEN [seen EXCEPT ![j] = @ \cup {Select(upstream', run.tracked)[j]}] ELSE seen
  BY DEF Publish
<1>2. FilesInv'
  BY <1>1 DEF workflow, Inv, FilesInv
<1>3. DOMAIN seen = Items /\ DOMAIN upstream = Items /\ DOMAIN upstream' = Items
  BY <1>1 DEF Inv, RunInv
<1>4. DOMAIN seen' = Items /\ \A i \in Items : seen[i] \subseteq seen'[i]
  BY <1>1, <1>3
<1>5. ASSUME run.pc = "collect" PROVE CollectInv'
  <2>1. CollectInv
    BY <1>5 DEF Inv, RunInv
  <2>2. \A i \in Items : i # j => upstream'[i] = upstream[i]
    BY <1>1, <1>3
  <2>3. \A i \in Items : Select(upstream', run.tracked)[i] \in seen'[i]
    <3> SUFFICES ASSUME NEW i \in Items PROVE Select(upstream', run.tracked)[i] \in seen'[i]
      OBVIOUS
    <3>1. CASE i = j
      BY <1>1, <1>3, <1>5, <3>1
    <3>2. CASE i # j
      <4>1. Select(upstream', run.tracked)[i] = Select(upstream, run.tracked)[i]
        BY <2>2, <3>2 DEF Select
      <4> QED BY <1>4, <2>1, <4>1 DEF CollectInv
    <3> QED BY <3>1, <3>2
  <2> QED BY <1>1, <1>4, <2>1, <2>3 DEF CollectInv
<1>6. RunInv'
  <2>1. run.pc = "reported" => seen' = seen
    BY <1>1
  <2>2. ReportTrue'
    BY <1>1, <2>1 DEF Inv, RunInv, ReportTrue
  <2> QED BY <1>1, <1>3, <1>4, <1>5, <2>2 DEF Inv, RunInv
<1> QED BY <1>2, <1>6 DEF Inv

\* Every step keeps the invariant.
LEMMA NextInv == ASSUME Inv, [Next]_vars PROVE Inv'
<1>1. CASE UNCHANGED vars
  BY <1>1 DEF vars, workflow, process, Inv, FilesInv, RunInv, CollectInv, ReportTrue
<1>2. CASE Start("check") \/ Start("accept")
  BY <1>2, StartInv
<1>3. ASSUME NEW s \in Sources, Fetch(s) PROVE Inv'
  BY <1>3, FetchInv
<1>4. CASE Deadline
  BY <1>4 DEF Deadline, workflow, Inv, FilesInv, RunInv, CollectInv, ReportTrue
<1>5. CASE Report
  BY <1>5, ReportInv
<1>6. CASE UpdateIssue
  BY <1>6, ExitInv DEF UpdateIssue, Inv, FilesInv
<1>7. CASE AcceptRefused
  BY <1>7, ExitInv DEF AcceptRefused, workflow, Inv, FilesInv
<1>8. CASE AcceptBegins
  BY <1>8, AcceptBeginsInv
<1>9. CASE AcceptEnds
  BY <1>9, AcceptEndsInv
<1>10. CASE Crash
  BY <1>10, ExitInv DEF Crash, workflow, Inv, FilesInv
<1>11. UNCHANGED <<upstream, process>> /\ FilesInv' => Inv'
  BY DEF process, Inv, RunInv, CollectInv, ReportTrue
<1>12. CASE Commit
  BY <1>11, <1>12 DEF Commit, Inv, FilesInv
<1>13. CASE Restore
  BY <1>11, <1>13 DEF Restore, Inv, FilesInv
<1>14. CASE EditTracked
  BY <1>11, <1>14 DEF EditTracked, Inv, FilesInv
<1>15. ASSUME NEW i \in Items, Publish(i) PROVE Inv'
  BY <1>15, PublishInv
<1> QED BY <1>1, <1>2, <1>3, <1>4, <1>5, <1>6, <1>7, <1>8, <1>9, <1>10, <1>12, <1>13, <1>14,
           <1>15 DEF Next

\* The invariant holds in every reachable state.
THEOREM InvHolds == Spec => []Inv
BY InitInv, NextInv, PTL DEF Spec

-----------------------------------------------------------------------------
(* What follows from it                                                    *)

\* A reported change is one that its source showed during the run, whatever else failed
\* (Collect, KeepFrom and Diff of .github/standards).
THEOREM ReportIsTrue == Spec => []ReportTrue
<1>1. Inv => ReportTrue
  BY DEF Inv, RunInv
<1> QED BY <1>1, InvHolds, PTL

\* What -accept stores was upstream in that run, item by item, wherever runs are killed (main.go
\* and writeJSON).
THEOREM NothingIsPartial == Spec => NothingPartial
<1>1. Inv /\ [Next]_vars =>
        [tree'.base \notin {tree.base, Truncated, repo.base} =>
           \A i \in Items : tree'.base[i] \in seen[i]]_vars
  <2> SUFFICES ASSUME Inv, Inv', Next,
                      tree'.base \notin {tree.base, Truncated, repo.base}
               PROVE  \A i \in Items : tree'.base[i] \in seen[i]
    BY NextInv
  <2>1. AcceptEnds
    <3>1. DOMAIN tree = {"tracked", "base"}
      BY DEF Inv, FilesInv
    <3>2. ~(\E tracked : tree' = [tree EXCEPT !.tracked = tracked])
      BY <3>1
    <3>3. tree' # tree /\ tree' # repo /\ tree' # [tree EXCEPT !.base = Truncated]
      BY <3>1
    <3>4. ~\E s \in Sources : Fetch(s)
      BY <3>3 DEF Fetch, FetchOK, FetchRefused, FetchRetry, FetchExpired, workflow
    <3>5. ~\E i \in Items : Publish(i)
      BY <3>3 DEF Publish, workflow
    <3>6. ~(Commit \/ Restore \/ EditTracked)
      BY <3>2, <3>3 DEF Commit, Restore, EditTracked
    <3> QED BY <3>3, <3>4, <3>5, <3>6 DEF Next, Start, Deadline, Report, UpdateIssue, AcceptRefused,
            AcceptBegins, Crash, workflow
  <2>2. run.pc = "writing" /\ tree'.base = cur
    BY <2>1 DEF AcceptEnds, Inv, FilesInv
  <2> QED BY <2>2 DEF Inv, RunInv
<1> QED BY <1>1, InvHolds, PTL DEF Spec, NothingPartial
=============================================================================
