------------------------------ MODULE Lifecycle ------------------------------
(***************************************************************************)
(* The worker processes of one gunicorn master: what each creates at       *)
(* startup (src/core/lifecycle.py), who may use it, what is disposed of,   *)
(* and what of a process outlives it: the temporary file of its filter and *)
(* its metric files (docker/gunicorn.conf.py, src/core/metrics.py), which  *)
(* a scrape adds up one after the other.                                   *)
(***************************************************************************)
EXTENDS Naturals, FiniteSets

CONSTANTS
    Procs,          \* worker processes, each forked at most once
    WorkerCount,    \* web_concurrency
    Settings,       \* the values of bloom_enabled to consider
    MaxBusy,        \* bound: requests a worker handles at once
    MaxCount        \* bound: what the counter of a worker reaches

ASSUME BoundsAssumption ==
    /\ WorkerCount \in Nat \ {0} /\ MaxBusy \in Nat /\ MaxCount \in Nat
    /\ Settings \subseteq BOOLEAN

VARIABLES
    phase,      \* process -> where it is between fork and child_exit
    holds,      \* process -> the singletons it has, not yet disposed of
    busy,       \* process -> requests it is handling
    tempFiles,  \* processes whose filter's file is on disk
    excused,    \* history: processes that left it there for a reason
    counter,    \* process -> the value in its counter file
    gauges,     \* processes whose live gauge file is in the metrics directory
    toRead,     \* processes whose files the scrape under way has yet to read
    sum,        \* what that scrape has added up of counters
    counted,    \* the processes whose gauges it has added up
    last,       \* history: the counter of the last scrape that ended
    buried      \* history: processes reaped before the scrape began

ofDisk    == <<tempFiles, excused>>
ofProcess == <<phase, holds, busy, ofDisk>>
files     == <<counter, gauges>>
ofScrape  == <<toRead, sum, counted, last, buried>>
vars == <<ofProcess, files, ofScrape>>

Singletons == {"engine", "redis", "filter", "coalescer"}
Alive == {"starting", "building", "built", "serving", "draining", "closing", "disposing",
          "stopped", "failed"}

Goto(p, from, to) == phase[p] = from /\ phase' = [phase EXCEPT ![p] = to]

\* on_starting() empties the metrics directory.
Init ==
    /\ phase = [p \in Procs |-> "unborn"]
    /\ holds = [p \in Procs |-> {}]
    /\ busy = [p \in Procs |-> 0]
    /\ tempFiles = {} /\ excused = {}
    /\ counter = [p \in Procs |-> 0]
    /\ gauges = {}
    /\ toRead = {} /\ sum = 0 /\ counted = {} /\ last = 0 /\ buried = {}

-----------------------------------------------------------------------------
(* Startup *)

\* The master keeps its number of workers.  Importing the metrics module
\* creates the process's files.
Fork(p) ==
    /\ Cardinality({q \in Procs : phase[q] \in Alive}) < WorkerCount
    /\ Goto(p, "unborn", "starting")
    /\ gauges' = gauges \cup {p}
    /\ UNCHANGED <<holds, busy, ofDisk, counter, ofScrape>>

\* One step of startup, before the try: it creates the singleton or raises, and
\* then nothing is disposed of.
Creates(p, before, singleton, next) ==
    /\ holds[p] = before
    /\ \/ Goto(p, "starting", next) /\ holds' = [holds EXCEPT ![p] = @ \cup {singleton}]
       \/ Goto(p, "starting", "failed") /\ UNCHANGED holds
    /\ UNCHANGED <<busy, files, ofScrape>>

InitEngine(p) == Creates(p, {}, "engine", "starting") /\ UNCHANGED ofDisk
InitRedis(p)  == Creates(p, {"engine"}, "redis", "starting") /\ UNCHANGED ofDisk

\* The file is there before the filter in it is.
InitFilter(p) ==
    /\ \E enabled \in Settings :
        Creates(p, {"engine", "redis"}, "filter", IF enabled THEN "building" ELSE "built")
    /\ \/ tempFiles' = tempFiles \cup {p}
       \/ phase'[p] = "failed" /\ UNCHANGED tempFiles
    /\ excused' = IF phase'[p] = "failed" THEN excused \cup {p} ELSE excused

Build(p) ==
    /\ Goto(p, "building", "built")
    /\ UNCHANGED <<holds, busy, ofDisk, files, ofScrape>>

\* The SELECT fails: startup does, and nothing is disposed of.
BuildFails(p) ==
    /\ Goto(p, "building", "failed")
    /\ excused' = excused \cup {p}
    /\ UNCHANGED <<holds, busy, tempFiles, files, ofScrape>>

InitCoalescer(p) ==
    /\ Goto(p, "built", "serving")
    /\ holds' = [holds EXCEPT ![p] = @ \cup {"coalescer"}]
    /\ UNCHANGED <<busy, ofDisk, files, ofScrape>>

-----------------------------------------------------------------------------
(* Requests *)

\* A request is accepted and counted; it uses every singleton.
Accept(p) ==
    /\ phase[p] = "serving"
    /\ busy[p] < MaxBusy /\ counter[p] < MaxCount
    /\ busy' = [busy EXCEPT ![p] = @ + 1]
    /\ counter' = [counter EXCEPT ![p] = @ + 1]
    /\ UNCHANGED <<phase, holds, ofDisk, gauges, ofScrape>>

\* Mutant of Answer: a request ends twice.
AnswerTwice(p) ==
    /\ phase[p] \in {"serving", "draining"} /\ busy[p] > 0
    /\ \E n \in {1, 2} : busy' = [busy EXCEPT ![p] = @ - n]
    /\ UNCHANGED <<phase, holds, ofDisk, files, ofScrape>>

Answer(p) ==
    /\ phase[p] \in {"serving", "draining"} /\ busy[p] > 0
    /\ busy' = [busy EXCEPT ![p] = @ - 1]
    /\ UNCHANGED <<phase, holds, ofDisk, files, ofScrape>>

-----------------------------------------------------------------------------
(* Shutdown *)

\* max_requests is reached, or the master is told to stop.
Recycle(p) ==
    /\ Goto(p, "serving", "draining")
    /\ UNCHANGED <<holds, busy, ofDisk, files, ofScrape>>

\* bloom.close(): the file is removed, unless that raises an OSError.
CloseFilter(p) ==
    \/ tempFiles' = tempFiles \ {p} /\ UNCHANGED excused
    \/ excused' = excused \cup {p} /\ UNCHANGED tempFiles

\* Mutant of Close: the lifespan ends under requests.
CloseUndrained(p) ==
    /\ Goto(p, "draining", "closing")
    /\ holds' = [holds EXCEPT ![p] = @ \ {"filter"}]
    /\ CloseFilter(p)
    /\ UNCHANGED <<busy, files, ofScrape>>

\* Mutant of Close: the engine is disposed of first.
CloseEngineFirst(p) ==
    /\ busy[p] = 0
    /\ Goto(p, "draining", "closing")
    /\ holds' = [holds EXCEPT ![p] = @ \ {"filter", "engine"}]
    /\ CloseFilter(p)
    /\ UNCHANGED <<busy, files, ofScrape>>

\* Mutant of Close: the filter is closed and its file forgotten.
CloseKeepsFile(p) ==
    /\ busy[p] = 0
    /\ Goto(p, "draining", "closing")
    /\ holds' = [holds EXCEPT ![p] = @ \ {"filter"}]
    /\ UNCHANGED <<busy, ofDisk, files, ofScrape>>

\* The last request has ended, and the teardown begins.
Close(p) ==
    /\ busy[p] = 0
    /\ Goto(p, "draining", "closing")
    /\ holds' = [holds EXCEPT ![p] = @ \ {"filter"}]
    /\ CloseFilter(p)
    /\ UNCHANGED <<busy, files, ofScrape>>

\* If Redis cannot be disposed of, the engine is not either.
DisposeRedis(p) ==
    /\ \/ Goto(p, "closing", "disposing") /\ holds' = [holds EXCEPT ![p] = @ \ {"redis"}]
       \/ Goto(p, "closing", "failed") /\ UNCHANGED holds
    /\ UNCHANGED <<busy, ofDisk, files, ofScrape>>

DisposeEngine(p) ==
    /\ \/ Goto(p, "disposing", "stopped") /\ holds' = [holds EXCEPT ![p] = @ \ {"engine"}]
       \/ Goto(p, "disposing", "failed") /\ UNCHANGED holds
    /\ UNCHANGED <<busy, ofDisk, files, ofScrape>>

\* The process is gone, and what was in its memory.
Gone(p) ==
    /\ phase' = [phase EXCEPT ![p] = "dead"]
    /\ holds' = [holds EXCEPT ![p] = {}]
    /\ busy' = [busy EXCEPT ![p] = 0]
    /\ UNCHANGED <<tempFiles, files, ofScrape>>

\* The lifespan is over, or could not begin.
Exit(p) == phase[p] \in {"stopped", "failed"} /\ Gone(p) /\ UNCHANGED excused

\* Mutant of Kill: there is no graceful_timeout.
KillIdle(p) ==
    /\ phase[p] \in Alive \ {"stopped", "failed"} /\ busy[p] = 0
    /\ Gone(p) /\ excused' = excused \cup {p}

\* gunicorn loses patience, or the process crashes.
Kill(p) ==
    /\ phase[p] \in Alive \ {"stopped", "failed"}
    /\ Gone(p) /\ excused' = excused \cup {p}

\* Mutant of ChildExit: the hook is missing.
ChildExitMissing(p) ==
    /\ Goto(p, "dead", "reaped")
    /\ UNCHANGED <<holds, busy, ofDisk, files, ofScrape>>

\* Mutant of ChildExit: what its docstring and ADR-0007 say it does, to retire
\* all the files of the dead worker.
ChildExitRetires(p) ==
    /\ Goto(p, "dead", "reaped")
    /\ gauges' = gauges \ {p}
    /\ counter' = [counter EXCEPT ![p] = 0]
    /\ UNCHANGED <<holds, busy, ofDisk, ofScrape>>

\* mark_process_dead() removes the files of live gauges, and no other: the
\* counters of the dead stay in every later sum.
ChildExit(p) ==
    /\ Goto(p, "dead", "reaped")
    /\ gauges' = gauges \ {p}
    /\ UNCHANGED <<holds, busy, ofDisk, counter, ofScrape>>

-----------------------------------------------------------------------------
(* Scrapes *)

\* Any worker that serves answers a scrape: it lists the directory.
ScrapeBegins ==
    /\ toRead = {}
    /\ \E p \in Procs : phase[p] = "serving"
    /\ toRead' = {p \in Procs : phase[p] # "unborn"}
    /\ sum' = 0 /\ counted' = {}
    /\ buried' = {p \in Procs : phase[p] = "reaped"}
    /\ UNCHANGED <<ofProcess, files, last>>

\* It reads the files of one process, the last of which ends it.  Which
\* worker answers is not tracked: all of them go on meanwhile.
ScrapeReads(p) ==
    /\ p \in toRead
    /\ toRead' = toRead \ {p}
    /\ sum' = sum + counter[p]
    /\ counted' = counted \cup ({p} \cap gauges)
    /\ last' = IF toRead' = {} THEN sum' ELSE last
    /\ UNCHANGED <<ofProcess, files, buried>>

-----------------------------------------------------------------------------
Boot(p) ==
    \/ Fork(p) \/ InitEngine(p) \/ InitRedis(p) \/ InitFilter(p)
    \/ Build(p) \/ BuildFails(p) \/ InitCoalescer(p)
Serve(p) == Accept(p) \/ Answer(p)
Stop(p) == Recycle(p) \/ Close(p) \/ DisposeRedis(p) \/ DisposeEngine(p) \/ Exit(p) \/ Kill(p)
Next ==
    \/ \E p \in Procs : Boot(p) \/ Serve(p) \/ Stop(p) \/ ChildExit(p) \/ ScrapeReads(p)
    \/ ScrapeBegins

\* gunicorn kills what has not drained after graceful_timeout, and reaps it.
\* No request is assumed to end.
Fairness ==
    \A p \in Procs :
        /\ WF_vars(ChildExit(p)) /\ WF_vars(Exit(p))
        /\ WF_vars(phase[p] \in {"draining", "closing", "disposing"} /\ Kill(p))
Spec == Init /\ [][Next]_vars /\ Fairness

-----------------------------------------------------------------------------
\* Every variable holds a value of its kind.
TypeOK ==
    /\ phase \in [Procs -> Alive \cup {"unborn", "dead", "reaped"}]
    /\ holds \in [Procs -> SUBSET Singletons]
    /\ busy \in [Procs -> 0 .. MaxBusy]
    /\ tempFiles \subseteq Procs /\ excused \subseteq Procs
    /\ gauges \subseteq Procs /\ toRead \subseteq Procs
    /\ counter \in [Procs -> 0 .. MaxCount]
    /\ sum \in Nat /\ last \in Nat
    /\ counted \subseteq Procs /\ buried \subseteq Procs

\* No request ever meets a singleton that is not there yet or no longer there:
\* the errors of get_engine(), get_redis(), get_bloom_filter() and
\* get_coalescer() are unreachable, at startup, under load and while draining.
RequestsAreEquipped ==
    \A p \in Procs : phase[p] = "serving" \/ busy[p] > 0 => holds[p] = Singletons

\* Teardown runs in reverse (lifecycle.py:3-4): whatever fails, a process never
\* keeps what was created later than something it has disposed of.
ReverseTeardown ==
    \A p \in Procs :
        /\ "redis" \in holds[p] => "engine" \in holds[p]
        /\ "filter" \in holds[p] => "redis" \in holds[p]

\* The filter's file lives as long as the process (bloom.py:84-85), failing
\* startups, kills and an unlink that fails excepted: a process whose lifespan
\* ended has removed it whichever step of the teardown failed.
FilesAreCleanedUp ==
    \A p \in Procs : phase[p] \in {"stopped", "failed", "dead", "reaped"} /\ p \in tempFiles => p \in excused

\* A counter cannot decrease (metrics.py:12-14): not between two scrapes either,
\* whichever workers answer them and however many were recycled meanwhile.  This
\* holds because the counters of a dead worker are not retired, which is what
\* gunicorn.conf.py:38-42 and ADR-0007:42 say child_exit is there to do, lest
\* they be counted twice: they are counted once, and a scrape after their
\* retirement would find less than one before (ChildExitRetires).
ScrapesNeverDecrease == [][last' >= last]_vars

\* Gauges are summed over live workers: a scrape that begins after a process was
\* reaped does not count it.
GaugesOfTheLiving == counted \cap buried = {}

\* A recycled worker is gone in the end, hanging requests or not.
RecycledWorkersEnd == \A p \in Procs : phase[p] = "draining" ~> phase[p] = "reaped"
=============================================================================
