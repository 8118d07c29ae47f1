---------------------------- MODULE StandardsWatch ----------------------------
(***************************************************************************)
(* The standards watch of .github/standards (watch.go, diff.go, main.go)   *)
(* and the workflow that turns its report into an issue: a run fetches     *)
(* every tracked source concurrently, keeps the baseline of those that     *)
(* failed, and either reports the differences from the committed baseline  *)
(* (check, in CI every week) or stores what it fetched as the new one      *)
(* (-accept, by a maintainer, who then commits it).  Sources change, fail  *)
(* and recover meanwhile, and a run may be killed anywhere.                *)
(*                                                                         *)
(* A snapshot maps items to values: an RFC, an erratum, an entry of an     *)
(* IANA registry, a draft, a page.  Runs share nothing but the sources and *)
(* do not overlap here; a commit may come in the middle of the next run.   *)
(***************************************************************************)
EXTENDS Integers, FiniteSets

CONSTANTS Items,       \* what the sources publish
          Source,      \* item -> [kind, key]: the source it is fetched from
          About,       \* item -> the source that must be tracked to select it
          Values,      \* item -> the values it may have upstream
          Initially,   \* item -> its first value
          Configs,     \* the sets of sources that tracked.json may list
          Errata,      \* the one source that is fetched whatever is tracked
          Attempts,    \* the attempts of fetch
          MaxEdits,    \* bound: upstream changes and edits of tracked.json
          MaxCrashes   \* bound: runs that are killed

Absent == [absent |-> TRUE]        \* no such key in the snapshot
Truncated == [truncated |-> TRUE]  \* a baseline.json that is no JSON
Sources == {Source[i] : i \in Items}

\* What is selected is fetched: an item is selected with its own source, and an erratum
\* with its RFC.  (And a snapshot is not mistaken for a file that is no JSON.)
ASSUME WatchAssumption ==
  /\ Initially \in [Items -> UNION {Values[i] : i \in Items}]
  /\ About \in [Items -> Sources]
  /\ Errata \in Sources
  /\ Configs \subseteq SUBSET (Sources \ {Errata})
  /\ \A i \in Items, c \in Configs : About[i] \in c => Source[i] \in c \cup {Errata}
  /\ Items # DOMAIN Truncated
  /\ Attempts \in Nat \ {0}
  /\ MaxEdits \in Nat /\ MaxCrashes \in Nat

VARIABLES upstream,  \* item -> its value now, or Absent
          repo,      \* the committed [tracked, base]
          tree,      \* the maintainer's working copy of them
          accepted,  \* -accept exited with success since the last commit
          run,       \* the run in progress: [pc, mode, tracked, base]
          task,      \* source -> [at, attempt]: how far its goroutine is
          expired,   \* the context of the run has ended
          cur,       \* the Snapshot that Collect builds
          report,    \* the report of the run: [changes, failed]
          issue,     \* the report in the open issue, or NoIssue
          edits, crashes,  \* counters for the bounds
          seen       \* (ghost) item -> its values since the run began

workflow == <<repo, tree, accepted, issue>>
process == <<run, task, expired, cur, report, seen>>
vars == <<upstream, workflow, process, edits, crashes>>

newSnapshot == [i \in Items |-> Absent]
NoRun == [pc |-> "idle", mode |-> "none", tracked |-> {}, base |-> newSnapshot]
Task(at, n) == [at |-> at, attempt |-> n]
NoReport == [changes |-> {}, failed |-> {}]
NoIssue == [none |-> TRUE]

\* parseIANA's filter, the tracked RFCs of the errata, one source per document.
Select(snap, tracked) == [i \in Items |-> IF About[i] \in tracked THEN snap[i] ELSE Absent]

Init ==
  /\ upstream = Initially
  /\ \E tracked \in Configs : repo = [tracked |-> tracked, base |-> Select(Initially, tracked)]
  /\ tree = repo
  /\ accepted = FALSE
  /\ run = NoRun
  /\ task = [s \in Sources |-> Task("off", 0)]
  /\ expired = FALSE
  /\ cur = newSnapshot
  /\ report = NoReport
  /\ seen = [i \in Items |-> {}]
  /\ issue = NoIssue
  /\ edits = 0 /\ crashes = 0

\* The process has ended, and its memory with it.
Exit ==
  /\ run' = NoRun
  /\ task' = [s \in Sources |-> Task("off", 0)]
  /\ expired' = FALSE
  /\ cur' = newSnapshot
  /\ report' = NoReport
  /\ seen' = [i \in Items |-> {}]

-----------------------------------------------------------------------------
(* main: a run starts and collects                                         *)

Mine(mode) == IF mode = "check" THEN repo ELSE tree

\* LoadConfig, the baseline, and one goroutine per source.  A baseline that does
\* not parse ends the run before it fetches anything.
Start(mode) ==
  /\ run.pc = "idle"
  /\ Mine(mode).base # Truncated
  /\ run' = [pc |-> "collect", mode |-> mode, tracked |-> Mine(mode).tracked,
             base |-> Mine(mode).base]
  /\ task' = [s \in Sources |-> IF s \in Mine(mode).tracked \cup {Errata}
                               THEN Task("fetching", 1) ELSE Task("off", 0)]
  /\ cur' = newSnapshot
  /\ expired' = FALSE
  /\ seen' = [i \in Items |-> {Select(upstream, Mine(mode).tracked)[i]}]
  /\ report' = NoReport
  /\ UNCHANGED <<upstream, workflow, edits, crashes>>

Fetching(s) == run.pc = "collect" /\ task[s].at = "fetching"

\* An answer of status 200 that parses: its items are stored under mu.
FetchOK(s) ==
  /\ Fetching(s) /\ ~expired
  /\ task' = [task EXCEPT ![s] = Task("ok", 0)]
  /\ cur' = [i \in Items |-> IF Source[i] = s THEN Select(upstream, run.tracked)[i] ELSE cur[i]]
  /\ UNCHANGED <<upstream, workflow, run, expired, report, edits, crashes, seen>>

\* Any other status, too many bytes, no JSON or XML, no sub-registry, no rev.
FetchRefused(s) ==
  /\ Fetching(s) /\ ~expired
  /\ task' = [task EXCEPT ![s] = Task("failed", 0)]
  /\ UNCHANGED <<upstream, workflow, run, expired, cur, report, edits, crashes, seen>>

\* Mutant: the count of attempts starts again.
FetchRetry_Forever(s) ==
  /\ Fetching(s) /\ ~expired
  /\ task' = [task EXCEPT ![s] = Task("fetching", IF @.attempt < Attempts THEN @.attempt + 1 ELSE 1)]
  /\ UNCHANGED <<upstream, workflow, run, expired, cur, report, edits, crashes, seen>>

\* A network error, a status of 500 or above, 429: the next attempt, if any.
FetchRetry(s) ==
  /\ Fetching(s) /\ ~expired
  /\ task' = [task EXCEPT ![s] = IF @.attempt < Attempts THEN Task("fetching", @.attempt + 1)
                                 ELSE Task("failed", 0)]
  /\ UNCHANGED <<upstream, workflow, run, expired, cur, report, edits, crashes, seen>>

\* The ten minutes of main are over: requests fail, waits for a retry end.
Deadline ==
  /\ run.pc = "collect" /\ ~expired
  /\ expired' = TRUE
  /\ UNCHANGED <<upstream, workflow, run, task, cur, report, edits, crashes, seen>>

FetchExpired(s) ==
  /\ Fetching(s) /\ expired
  /\ task' = [task EXCEPT ![s] = Task("failed", 0)]
  /\ UNCHANGED <<upstream, workflow, run, expired, cur, report, edits, crashes, seen>>

Fetch(s) == FetchOK(s) \/ FetchRefused(s) \/ FetchRetry(s) \/ FetchExpired(s)

-----------------------------------------------------------------------------
(* diff.go                                                                 *)

\* Does Diff list a difference between two values of an item?  (rev stands for the rev and
\* the states of a draft, which are treated alike.)  An RFC that lost
\* an updating or obsoleting RFC, and a draft whose RFC number went away, are not
\* listed; titles, erratum types and sections are no part of a value here.
Differs(kind, b, c) ==
  IF b = Absent \/ c = Absent THEN b # c
  ELSE IF kind = "rfc"
  THEN \/ b.status # c.status
       \/ ~(c.updatedBy \subseteq b.updatedBy)
       \/ ~(c.obsoletedBy \subseteq b.obsoletedBy)
  ELSE IF kind = "draft"
  THEN b.rev # c.rev \/ (c.rfc # "" /\ c.rfc # b.rfc)
  ELSE b # c   \* an erratum's status, a registry entry, a page's hash

Diff(base, snap) ==
  {[item |-> i, value |-> snap[i]] :
     i \in {j \in Items : Differs(Source[j].kind, base[j], snap[j])}}

-----------------------------------------------------------------------------
(* main: the run goes on after wg.Wait                                     *)

Failed == {s \in Sources : task[s].at = "failed"}

\* Mutant: the errata are forgotten.
KeepFrom_NotErrata(base, failed) ==
  [i \in Items |-> IF Source[i] \in failed \ {Errata} /\ base[i] # Absent THEN base[i] ELSE cur[i]]

\* Snapshot.KeepFrom.  Its five rules, one per kind of source, copy the items that the
\* failed source would have given: the one of its key for an RFC, a draft and a page,
\* those with the registry's prefix for IANA, and all errata.  Here they are one.
KeepFrom(base, failed) ==
  [i \in Items |-> IF Source[i] \in failed /\ base[i] # Absent THEN base[i] ELSE cur[i]]

Collected == run.pc = "collect" /\ \A s \in Sources : task[s].at # "fetching"

Report ==
  /\ Collected /\ run.mode = "check"
  /\ cur' = KeepFrom(run.base, Failed)
  /\ report' = [changes |-> Diff(run.base, cur'), failed |-> Failed]
  /\ run' = [run EXCEPT !.pc = "reported"]
  /\ UNCHANGED <<upstream, workflow, task, expired, edits, crashes, seen>>

\* Mutant: a partial snapshot is accepted.
MayAccept_Partial == TRUE

\* "refusing to accept a partial snapshot"
MayAccept == Failed = {}

AcceptRefused ==
  /\ Collected /\ run.mode = "accept"
  /\ ~MayAccept
  /\ Exit
  /\ UNCHANGED <<upstream, workflow, edits, crashes>>

\* writeJSON has truncated the file and not written it yet.
AcceptBegins ==
  /\ Collected /\ run.mode = "accept"
  /\ MayAccept
  /\ cur' = KeepFrom(run.base, Failed)
  /\ tree' = [tree EXCEPT !.base = Truncated]
  /\ accepted' = FALSE
  /\ run' = [run EXCEPT !.pc = "writing"]
  /\ UNCHANGED <<upstream, repo, issue, task, expired, report, edits, crashes, seen>>

AcceptEnds ==
  /\ run.pc = "writing"
  /\ tree' = [tree EXCEPT !.base = cur]
  /\ accepted' = TRUE
  /\ Exit
  /\ UNCHANGED <<upstream, repo, issue, edits, crashes>>

-----------------------------------------------------------------------------
(* standards-watch.yml                                                     *)

\* Mutant: an open issue is left alone.
UpdateIssue_OpenOnly ==
  /\ run.pc = "reported"
  /\ issue' = IF issue = NoIssue /\ report.changes # {} THEN report ELSE issue
  /\ Exit
  /\ UNCHANGED <<upstream, repo, tree, accepted, edits, crashes>>

\* "Open or update the review issue", if there are changes; a body that differs,
\* be it in the failures only, replaces the one of the open issue.
UpdateIssue ==
  /\ run.pc = "reported"
  /\ issue' = IF report.changes # {} THEN report ELSE issue
  /\ Exit
  /\ UNCHANGED <<upstream, repo, tree, accepted, edits, crashes>>

\* The process or the job is killed.
Crash ==
  /\ run.pc # "idle"
  /\ crashes < MaxCrashes
  /\ crashes' = crashes + 1
  /\ Exit
  /\ UNCHANGED <<upstream, workflow, edits>>

-----------------------------------------------------------------------------
(* The maintainer                                                          *)

\* The accepted baseline is committed in a PR that closes the issue.
Commit ==
  /\ accepted /\ run.mode # "accept"
  /\ repo' = tree
  /\ issue' = NoIssue
  /\ accepted' = FALSE
  /\ UNCHANGED <<upstream, tree, process, edits, crashes>>

\* The working copy is reset to what is committed.
Restore ==
  /\ tree # repo /\ run.mode # "accept"
  /\ tree' = repo
  /\ accepted' = FALSE
  /\ UNCHANGED <<upstream, repo, issue, process, edits, crashes>>

\* tracked.json is edited; it is committed with the baseline of the next -accept.
EditTracked ==
  /\ edits < MaxEdits /\ run.mode # "accept"
  /\ edits' = edits + 1
  /\ \E tracked \in Configs \ {tree.tracked} : tree' = [tree EXCEPT !.tracked = tracked]
  /\ accepted' = FALSE
  /\ UNCHANGED <<upstream, repo, issue, process, crashes>>

\* A standard moves on.
Publish(i) ==
  /\ edits < MaxEdits
  /\ edits' = edits + 1
  /\ \E v \in Values[i] \ {upstream[i]} : upstream' = [upstream EXCEPT ![i] = v]
  /\ seen' = IF run.pc = "collect"
             THEN [seen EXCEPT ![i] = @ \cup {Select(upstream', run.tracked)[i]}] ELSE seen
  /\ UNCHANGED <<workflow, run, task, expired, cur, report, crashes>>

Next ==
  \/ Start("check") \/ Start("accept")
  \/ \E s \in Sources : Fetch(s)
  \/ Deadline
  \/ Report \/ UpdateIssue
  \/ AcceptRefused \/ AcceptBegins \/ AcceptEnds
  \/ Crash
  \/ Commit \/ Restore \/ EditTracked
  \/ \E i \in Items : Publish(i)

\* A started run goes on, goroutine by goroutine; the cron starts a check every
\* week, whatever the maintainer does; and no source is down in every week.
Fairness ==
  /\ \A s \in Sources : WF_vars(Fetch(s))
  /\ WF_vars(Report) /\ WF_vars(UpdateIssue)
  /\ WF_vars(AcceptRefused) /\ WF_vars(AcceptBegins) /\ WF_vars(AcceptEnds)
  /\ SF_vars(Start("check"))
  /\ \A s \in Sources : SF_vars(run.mode = "check" /\ FetchOK(s))

Spec == Init /\ [][Next]_vars
FairSpec == Spec /\ Fairness

-----------------------------------------------------------------------------
(* Properties                                                              *)

\* An outage never looks like a change or a removal (SourceError in watch.go):
\* every change that is reported is one that its source, as tracked, really showed
\* at some moment of the run, however many other sources failed.
ReportTrue ==
  run.pc = "reported" => \A ch \in report.changes : ch.value \in seen[ch.item]

\* A partial snapshot never becomes the baseline: what -accept stores was, item by
\* item, upstream in that run; nothing in it was kept from an older baseline.
NothingPartial ==
  [][tree'.base \notin {tree.base, Truncated, repo.base} =>
       \A i \in Items : tree'.base[i] \in seen[i]]_vars

\* Every run ends: no retry goes on for ever and no goroutine keeps wg.Wait waiting.
RunEnds == run.pc # "idle" ~> run.pc = "idle"

\* Item i has the value v now, which differs from the committed baseline.
Drifts(i, v) == /\ Select(upstream, repo.tracked)[i] = v
                /\ Differs(Source[i].kind, repo.base[i], v)
Listed(i, v) == issue # NoIssue /\ [item |-> i, value |-> v] \in issue.changes

\* A value that appears upstream and stays gets into the issue in the end, however
\* sources fail, runs are killed, the baseline is replaced meanwhile and an issue
\* that lists an older value of the same item is open already; or a maintainer
\* accepts it.
DriftReported ==
  \A i \in Items : \A v \in Values[i] \cup {Absent} :
    Drifts(i, v) ~> (Listed(i, v) \/ ~Drifts(i, v))
=============================================================================
