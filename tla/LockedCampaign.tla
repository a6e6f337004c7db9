--------------------------- MODULE LockedCampaign ---------------------------
(***************************************************************************)
(* run_locked_campaign.py: a fixed schedule of solver runs, recorded in an *)
(* append-only journal under a file lock, and published as two immutable   *)
(* files once the journal is complete.                                     *)
(*                                                                         *)
(* Runners are processes: they are interrupted or killed between any two   *)
(* steps, several may be started at once, and the machine may lose power,  *)
(* which takes with it what no fsync has covered.  Somebody else may       *)
(* replace a frozen artifact (an instance, a solver binary), and put it    *)
(* back, while a campaign runs.                                            *)
(*                                                                         *)
(* The hash chain identifies a record by the records before it, so the     *)
(* link to the previous record is the number of records its writer knew.   *)
(***************************************************************************)
EXTENDS Integers, Sequences, SequencesExt

CONSTANTS
    Runner,
    NoRunner, NoFile, NoRecord,
    JobCount,      \* jobs in the schedule of the lock file
    Artifact,      \* the instances and solver binaries of the lock file
    Uses,          \* Uses[n]: the artifacts that job number n is run with
    MaxStops,      \* bound: interruptions, kills and failed writes
    MaxLosses,     \* bound: power losses
    MaxDrifts      \* bound: replacements of one artifact

Content == {"frozen", "other"}
NoInvocation == -1

Record ==
    [kind : {"invocation", "run"}, invocation : Nat, sequence : Nat,
     used : Content, previous : Nat]

ASSUME CampaignAssumption ==
    /\ NoRunner \notin Runner /\ NoFile \notin Seq(Record) /\ NoRecord \notin Record
    /\ Uses \in [0..(JobCount - 1) -> SUBSET Artifact]
    /\ JobCount \in Nat /\ MaxStops \in Nat /\ MaxLosses \in Nat /\ MaxDrifts \in Nat

VARIABLES
    content,     \* what every artifact holds
    stamp,       \* its fingerprint: never the same after a replacement
    journal,     \* the records in the file
    torn,        \* the file ends with a partial record
    durable,     \* how many records an fsync has covered
    holder,      \* who holds the flock
    raw,         \* the published runs
    summary,     \* the published summary: the journal it was made from
    unsynced,    \* renames no directory fsync has covered
    pc,
    snapshot,    \* the runner's snapshots of the fingerprints
    own,         \* the invocation_index of the runner
    view,        \* its copy of the journal
    pending,     \* the record it makes
    stops, losses

shared == <<content, stamp, journal, torn, durable, holder, raw, summary, unsynced>>
artifacts == <<content, stamp>>
file == <<journal, torn, durable>>
outputs == <<raw, summary, unsynced>>
budget == <<stops, losses>>
vars == <<shared, pc, snapshot, own, view, pending, budget>>

(* The records of one kind among the first n, as _load collects them.      *)
Collected(kind, records) ==
    LET collected[n \in 0..Len(records)] ==
            IF n = 0 THEN << >>
            ELSE IF records[n].kind = kind
                 THEN Append(collected[n - 1], records[n])
                 ELSE collected[n - 1]
    IN  collected

Runs(records) == Collected("run", records)[Len(records)]
Invocations(records) == Collected("invocation", records)[Len(records)]
Complete(records) == Len(Runs(records)) = JobCount

(* Journal._load, on a file without a partial record at its end.           *)
Loads(records) ==
    LET runs == Collected("run", records)
        invocations == Collected("invocation", records)
    IN  \A i \in 1..Len(records) :
            /\ records[i].previous = i - 1
            /\ records[i].kind = "invocation" =>
                   records[i].invocation = Len(invocations[i - 1])
            /\ records[i].kind = "run" =>
                   /\ records[i].sequence = Len(runs[i - 1])
                   /\ records[i].sequence < JobCount
                   /\ records[i].invocation < Len(invocations[i - 1])

Init ==
    /\ content = [x \in Artifact |-> "frozen"]
    /\ stamp = [x \in Artifact |-> 0]
    /\ journal = << >> /\ torn = FALSE /\ durable = 0
    /\ holder = NoRunner
    /\ raw = NoFile /\ summary = NoFile /\ unsynced = {}
    /\ pc = [r \in Runner |-> "off"]
    /\ snapshot = [r \in Runner |-> [x \in Artifact |-> 0]]
    /\ own = [r \in Runner |-> NoInvocation]
    /\ view = [r \in Runner |-> << >>]
    /\ pending = [r \in Runner |-> NoRecord]
    /\ stops = 0 /\ losses = 0

Goto(r, place) == pc' = [pc EXCEPT ![r] = place]

(* Definitions marked Faulty are not part of the specification: each is a  *)
(* slip that the property named with it in PROJECT.json must notice.       *)

(* Faulty: a lock file instead of a lock of the process.                   *)
ExitKeepingLock(r) ==
    /\ Goto(r, "off")
    /\ holder' = holder
    /\ snapshot' = [snapshot EXCEPT ![r] = [x \in Artifact |-> 0]]
    /\ own' = [own EXCEPT ![r] = NoInvocation]
    /\ view' = [view EXCEPT ![r] = << >>]
    /\ pending' = [pending EXCEPT ![r] = NoRecord]

(* The process ends, for whatever reason: its lock and memory are gone.    *)
Exit(r) ==
    /\ Goto(r, "off")
    /\ holder' = IF holder = r THEN NoRunner ELSE holder
    /\ snapshot' = [snapshot EXCEPT ![r] = [x \in Artifact |-> 0]]
    /\ own' = [own EXCEPT ![r] = NoInvocation]
    /\ view' = [view EXCEPT ![r] = << >>]
    /\ pending' = [pending EXCEPT ![r] = NoRecord]

-----------------------------------------------------------------------------
(* verify_frozen_artifacts: a hash that is not the lock's ends the process *)
(* before it has done anything.                                            *)
Launch(r) ==
    /\ pc[r] = "off" /\ \A x \in Artifact : content[x] = "frozen"
    /\ Goto(r, "verified")
    /\ snapshot' = [snapshot EXCEPT ![r] = stamp]
    /\ UNCHANGED <<shared, own, view, pending, budget>>

(* Faulty: the journal is opened without a lock.                           *)
OpenUnlocked(r) ==
    /\ pc[r] = "verified"
    /\ \/ /\ ~torn /\ Loads(journal)
          /\ view' = [view EXCEPT ![r] = journal]
          /\ Goto(r, "loaded")
          /\ UNCHANGED <<holder, snapshot, own, pending>>
       \/ (torn \/ ~Loads(journal)) /\ Exit(r)
    /\ UNCHANGED <<artifacts, file, outputs, budget>>

(* Faulty: the journal is opened with O_TRUNC.                             *)
OpenTruncating(r) ==
    /\ pc[r] = "verified"
    /\ \/ /\ holder = NoRunner
          /\ journal' = << >> /\ torn' = FALSE /\ durable' = 0
          /\ holder' = r
          /\ Goto(r, "loaded")
          /\ UNCHANGED <<snapshot, own, view, pending>>
       \/ holder # NoRunner /\ Exit(r) /\ UNCHANGED file
    /\ UNCHANGED <<artifacts, outputs, budget>>

(* Journal.__enter__ *)
Open(r) ==
    /\ pc[r] = "verified"
    /\ \/ /\ holder = NoRunner /\ ~torn /\ Loads(journal)
          /\ holder' = r
          /\ view' = [view EXCEPT ![r] = journal]
          /\ Goto(r, "loaded")
          /\ UNCHANGED <<snapshot, own, pending>>
       \/ (holder # NoRunner \/ torn \/ ~Loads(journal)) /\ Exit(r)
    /\ UNCHANGED <<artifacts, file, outputs, budget>>

NewInvocation(records) ==
    [kind |-> "invocation", invocation |-> Len(Invocations(records)),
     sequence |-> 0, used |-> "frozen", previous |-> Len(records)]

NewRun(records, invocation, with) ==
    [kind |-> "run", invocation |-> invocation,
     sequence |-> Len(Runs(records)), used |-> with, previous |-> Len(records)]

(* The artifacts of the next job; of the others nothing is looked at.      *)
NextUses(r) == Uses[Len(Runs(view[r]))]

Begin(r) ==
    /\ pc[r] = "loaded"
    /\ \/ /\ Complete(view[r])
          /\ Goto(r, "finishing")
          /\ UNCHANGED <<holder, snapshot, own, view, pending>>
       \/ /\ ~Complete(view[r]) /\ raw = NoFile /\ summary = NoFile
          /\ Goto(r, "appending")
          /\ own' = [own EXCEPT ![r] = Len(Invocations(view[r]))]
          /\ pending' = [pending EXCEPT ![r] = NewInvocation(view[r])]
          /\ UNCHANGED <<holder, snapshot, view>>
       \/ ~Complete(view[r]) /\ (raw # NoFile \/ summary # NoFile) /\ Exit(r)
    /\ UNCHANGED <<artifacts, file, outputs, budget>>

(* Faulty: what an artifact holds is compared, not its fingerprint.        *)
CheckContent(r) ==
    /\ pc[r] = "ready"
    /\ \/ /\ \A x \in NextUses(r) : content[x] = "frozen"
          /\ Goto(r, "checked")
          /\ UNCHANGED <<holder, snapshot, own, view, pending>>
       \/ (\E x \in NextUses(r) : content[x] # "frozen") /\ Exit(r)
    /\ UNCHANGED <<artifacts, file, outputs, budget>>

(* assert_unchanged, then the child is started, then it ends: by itself,   *)
(* by a signal, or killed with its group after the timeout.  What matters  *)
(* of the run is which bytes the child was started from.                   *)
CheckJob(r) ==
    /\ pc[r] = "ready"
    /\ \/ /\ \A x \in NextUses(r) : stamp[x] = snapshot[r][x]
          /\ Goto(r, "checked")
          /\ UNCHANGED <<holder, snapshot, own, view, pending>>
       \/ (\E x \in NextUses(r) : stamp[x] # snapshot[r][x]) /\ Exit(r)
    /\ UNCHANGED <<artifacts, file, outputs, budget>>

SpawnJob(r) ==
    /\ pc[r] = "checked"
    /\ Goto(r, "running")
    /\ LET with == IF \A x \in NextUses(r) : content[x] = "frozen" THEN "frozen" ELSE "other"
       IN  pending' = [pending EXCEPT ![r] = NewRun(view[r], own[r], with)]
    /\ UNCHANGED <<shared, snapshot, own, view, budget>>

EndJob(r) ==
    /\ pc[r] = "running"
    /\ Goto(r, "appending")
    /\ UNCHANGED <<shared, snapshot, own, view, pending, budget>>

(* Journal.append: the write, and after the fsync the copy in memory.      *)
WriteRecord(r) ==
    /\ pc[r] = "appending"
    /\ journal' = Append(journal, pending[r])
    /\ Goto(r, "syncing")
    /\ UNCHANGED <<artifacts, torn, durable, holder, outputs, snapshot, own, view,
                   pending, budget>>

(* Faulty: records are counted, not runs.                                  *)
SyncCountingRecords(r) ==
    /\ pc[r] = "syncing"
    /\ durable' = Len(journal)
    /\ view' = [view EXCEPT ![r] = Append(@, pending[r])]
    /\ pending' = [pending EXCEPT ![r] = NoRecord]
    /\ Goto(r, IF Len(view'[r]) = JobCount THEN "finishing" ELSE "ready")
    /\ UNCHANGED <<artifacts, journal, torn, holder, outputs, snapshot, own,
                   budget>>

SyncRecord(r) ==
    /\ pc[r] = "syncing"
    /\ durable' = Len(journal)
    /\ view' = [view EXCEPT ![r] = Append(@, pending[r])]
    /\ pending' = [pending EXCEPT ![r] = NoRecord]
    /\ Goto(r, IF Complete(view'[r]) THEN "finishing" ELSE "ready")
    /\ UNCHANGED <<artifacts, journal, torn, holder, outputs, snapshot, own,
                   budget>>

(* The disk is full after a part of the record.                            *)
ShortWrite(r) ==
    /\ pc[r] = "appending" /\ stops < MaxStops
    /\ torn' = TRUE
    /\ Exit(r)
    /\ stops' = stops + 1
    /\ UNCHANGED <<artifacts, journal, durable, outputs, losses>>

-----------------------------------------------------------------------------
(* assert_all_unchanged, and atomic_write_immutable for the raw output and *)
(* for the summary: a file that is there must be the one to be written.    *)
PublishRaw(r) ==
    /\ pc[r] = "finishing"
    /\ \/ /\ stamp = snapshot[r] /\ raw = NoFile
          /\ raw' = Runs(view[r])
          /\ unsynced' = unsynced \cup {"raw"}
          /\ Goto(r, "raw renamed")
          /\ UNCHANGED <<holder, snapshot, own, view, pending>>
       \/ /\ stamp = snapshot[r] /\ raw = Runs(view[r])
          /\ Goto(r, "raw published")
          /\ UNCHANGED <<raw, unsynced, holder, snapshot, own, view, pending>>
       \/ /\ stamp # snapshot[r] \/ raw \notin {NoFile, Runs(view[r])}
          /\ Exit(r)
          /\ UNCHANGED <<raw, unsynced>>
    /\ UNCHANGED <<artifacts, file, summary, budget>>

SyncRaw(r) ==
    /\ pc[r] = "raw renamed"
    /\ unsynced' = {}
    /\ Goto(r, "raw published")
    /\ UNCHANGED <<artifacts, file, holder, raw, summary, snapshot, own, view,
                   pending, budget>>

PublishSummary(r) ==
    /\ pc[r] = "raw published"
    /\ \/ /\ summary = NoFile
          /\ summary' = journal
          /\ unsynced' = unsynced \cup {"summary"}
          /\ Goto(r, "summary renamed")
          /\ UNCHANGED <<holder, snapshot, own, view, pending>>
       \/ /\ summary # NoFile
          /\ Exit(r)
          /\ UNCHANGED <<summary, unsynced>>
    /\ UNCHANGED <<artifacts, file, raw, budget>>

SyncSummary(r) ==
    /\ pc[r] = "summary renamed"
    /\ unsynced' = {}
    /\ Exit(r)
    /\ UNCHANGED <<artifacts, file, raw, summary, budget>>

-----------------------------------------------------------------------------
(* A runner is interrupted or killed.                                      *)
Stop(r) ==
    /\ pc[r] # "off" /\ stops < MaxStops
    /\ Exit(r)
    /\ stops' = stops + 1
    /\ UNCHANGED <<artifacts, file, outputs, losses>>

(* Power loss: records past the last fsync may be gone, the first of them  *)
(* in part, and of the renames no fsync has covered the last ones.         *)
PowerLoss ==
    /\ losses < MaxLosses
    /\ losses' = losses + 1
    /\ \E kept \in durable..Len(journal) :
        /\ journal' = SubSeq(journal, 1, kept)
        /\ durable' = kept
        /\ torn' \in {torn, torn \/ kept < Len(journal)}
    /\ \E lost \in {{}, {"summary"}, {"raw", "summary"}} :
        /\ raw' = IF "raw" \in unsynced \cap lost THEN NoFile ELSE raw
        /\ summary' = IF "summary" \in unsynced \cap lost THEN NoFile ELSE summary
    /\ unsynced' = {}
    /\ holder' = NoRunner
    /\ pc' = [r \in Runner |-> "off"]
    /\ snapshot' = [r \in Runner |-> [x \in Artifact |-> 0]]
    /\ own' = [r \in Runner |-> NoInvocation]
    /\ view' = [r \in Runner |-> << >>]
    /\ pending' = [r \in Runner |-> NoRecord]
    /\ UNCHANGED <<artifacts, stops>>

(* Somebody replaces an artifact, or puts the frozen one back.             *)
Drift(x) ==
    /\ stamp[x] < MaxDrifts
    /\ stamp' = [stamp EXCEPT ![x] = @ + 1]
    /\ content' = [content EXCEPT ![x] = IF @ = "frozen" THEN "other" ELSE "frozen"]
    /\ UNCHANGED <<file, holder, outputs, pc, snapshot, own, view, pending, budget>>

Run(r) ==
    \/ Open(r) \/ Begin(r)
    \/ CheckJob(r) \/ SpawnJob(r) \/ EndJob(r) \/ WriteRecord(r) \/ SyncRecord(r)
    \/ PublishRaw(r) \/ SyncRaw(r) \/ PublishSummary(r) \/ SyncSummary(r)

Next ==
    \/ \E r \in Runner : Launch(r) \/ Run(r) \/ ShortWrite(r) \/ Stop(r)
    \/ PowerLoss
    \/ \E x \in Artifact : Drift(x)

(* A runner that is not stopped goes on: the timeout and the kill of the   *)
(* process group end every job.  Nobody has to launch one.                 *)
Spec == Init /\ [][Next]_vars /\ \A r \in Runner : WF_vars(Run(r))

-----------------------------------------------------------------------------
Place ==
    {"off", "verified", "loaded", "ready", "checked", "running", "appending",
     "syncing", "finishing", "raw renamed", "raw published", "summary renamed"}

TypeOK ==
    /\ content \in [Artifact -> Content] /\ stamp \in [Artifact -> Nat]
    /\ journal \in Seq(Record) /\ torn \in BOOLEAN
    /\ durable \in 0..Len(journal)
    /\ holder \in Runner \cup {NoRunner}
    /\ raw = NoFile \/ raw \in Seq(Record)
    /\ summary = NoFile \/ summary \in Seq(Record)
    /\ unsynced \subseteq {"raw", "summary"}
    /\ pc \in [Runner -> Place]
    /\ snapshot \in [Runner -> [Artifact -> Nat]]
    /\ own \in [Runner -> Nat \cup {NoInvocation}]
    /\ view \in [Runner -> Seq(Record)]
    /\ pending \in [Runner -> Record \cup {NoRecord}]
    /\ stops \in Nat /\ losses \in Nat

(* However runners are started, stopped and crossed, the complete records  *)
(* of the journal are an unbroken chain holding a prefix of the schedule,  *)
(* each run once and in order, so Journal._load refuses nothing but a      *)
(* partial record.                                                         *)
JournalLoads == TypeOK /\ Loads(journal)

(* The raw output is the complete schedule, and what the journal holds.    *)
(* After a power loss the journal may have fallen behind it (a record that *)
(* a killed runner had written and nobody synced), never apart from it.    *)
(* There is no summary without a raw output, and it names the journal as   *)
(* it is: nothing is appended to a journal that a summary was made from.   *)
RawIsTheJournal ==
    raw # NoFile =>
        /\ Len(raw) = JobCount
        /\ IsPrefix(Runs(journal), raw)
        /\ losses = 0 => raw = Runs(journal)

SummaryIsOfTheJournal ==
    summary # NoFile =>
        /\ raw # NoFile /\ raw = Runs(summary)
        /\ losses = 0 => summary = journal

PublishedIsTheJournal == RawIsTheJournal /\ SummaryIsOfTheJournal

(* Records and published files are never rewritten: without a power loss   *)
(* nothing is ever taken away, and a power loss takes only the end.        *)
Immutable ==
    [][/\ losses' = losses => /\ IsPrefix(journal, journal')
                              /\ raw \in {NoFile, raw'}
                              /\ summary \in {NoFile, summary'}
       /\ IsPrefix(journal', journal) \/ IsPrefix(journal, journal')
       /\ raw = raw' \/ NoFile \in {raw, raw'}
       /\ summary = summary' \/ NoFile \in {summary, summary'}]_vars

(* A run with a replaced artifact is the last one its invocation makes     *)
(* with that artifact, and the invocation never publishes: the checks see  *)
(* the replacement though it may have been undone, and though the check    *)
(* before a job looks at the artifacts of that job only.                   *)
DriftIsCaught ==
    LET runs == Runs(journal)
        Dirty(i) == runs[i].used = "other"
    IN  /\ \A i, k \in DOMAIN runs :
            /\ i < k /\ Dirty(i) /\ runs[i].invocation = runs[k].invocation
            => ~(Uses[i - 1] \subseteq Uses[k - 1])
        /\ \A r \in Runner : \A i \in DOMAIN runs :
            /\ pc[r] \in {"raw renamed", "raw published", "summary renamed"}
            /\ runs[i].invocation = own[r]
            => ~Dirty(i)

(* Launched again and again, a campaign ends with its two files published, *)
(* unless an artifact stays replaced, or a record was torn or lost and     *)
(* the journal or the published files refuse every resume.                 *)
Resumes ==
    WF_vars(\E r \in Runner : Launch(r)) =>
        \/ <>[](summary # NoFile)
        \/ <>[](\E x \in Artifact : content[x] # "frozen")
        \/ <>[](torn \/ (raw # NoFile /\ ~Complete(journal)))

(* research-vault/06-results/2026-07-12-p0-foundation.md: "Campaign locks  *)
(* bind [...] every input and solver binary".  The published runs were     *)
(* made with the bytes the lock file names.                                *)
PublishedRunsAreFrozen ==
    raw # NoFile => \A i \in DOMAIN raw : raw[i].used = "frozen"
=============================================================================
