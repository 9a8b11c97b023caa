----------------------------- MODULE ArchiveStore -----------------------------
(***************************************************************************)
(* The archive directory (archive/, cmd/aat/run_shared.go,                 *)
(* server/service.go): one directory per run, which several processes use  *)
(* with no lock.  A retried run writes its attempts there; the web server  *)
(* lists, saves, unsaves and imports runs, each request in a goroutine of  *)
(* its own; aat run clean deletes the old ones that were not saved; aat    *)
(* run rebuild-summaries writes the summaries anew.                        *)
(*                                                                         *)
(* A name leads to a directory and a rename moves the name, so that whoever *)
(* has a directory open goes on working on it.  One system call is one     *)
(* step, and so is the writing of one file; a writer that is killed may    *)
(* leave the file cut off.  Batches, whose directories hold their runs',   *)
(* are not modelled.                                                       *)
(***************************************************************************)
EXTENDS Naturals, FiniteSets

CONSTANTS
  Live,       \* the runs that are going on
  Past,       \* the runs that ended before the cutoff of aat run clean
  Word,       \* names a user may type
  Request,    \* the requests of the web UI and the commands, each made once
  Attempts    \* the attempts a live run may take: --retries and one

Run == Live \cup Past

(* A zip of the imports brings a run of some other ID. *)
ASSUME StoreAssumption ==
  /\ Attempts \in 1..3
  /\ Live \cap Past = {} /\ Run \cap Request = {}
  /\ IsFiniteSet(Run) /\ IsFiniteSet(Word) /\ IsFiniteSet(Request)

VARIABLES
  at,         \* the directory each name leads to
  file,       \* the files of each directory
  stage,      \* where each live run is
  attempt,    \* the attempt each live run is at
  request,    \* what each request has still to do
  written,    \* history: the attempts whose archive was written
  warned,     \* history: the runs that could not set an attempt aside
  mixed,      \* history: the runs that came to share a directory by its name
  gone        \* history: what clean and failed imports removed

runVars == <<stage, attempt, written, warned>>
vars == <<at, file, request, gone, mixed, runVars>>

-----------------------------------------------------------------------------
(* run-ID, !run-ID, and a name that was typed. *)
RunID(r) == <<"auto", r>>
Bang(r) == <<"bang", r>>
Typed(w) == <<"typed", w>>
SavedName == {Bang(r) : r \in Run} \cup {Typed(w) : w \in Word}
Name == {RunID(r) : r \in Run} \cup SavedName

(* Mutant of IsNamed: a run saved under its own ID is not recognised. *)
IsNamedIfTyped(n) == n[1] = "typed"

IsNamed(n) == n[1] # "auto"

AttemptFile(k) == CASE k = 1 -> "attempt-01" [] k = 2 -> "attempt-02" [] OTHER -> "attempt-03"

File == {"archive", "summary"} \cup {AttemptFile(k) : k \in 1..Attempts}

(* What a file holds: an attempt of a run, whole or cut off, or what a zip brought. *)
Content(from, r, k) == [from |-> from, run |-> r, attempt |-> k]
Attempt(r, k) == Content("run", r, k)
Torn(r, k) == Content("killed", r, k)
Zip(q) == Content("zip", q, 1)
None == Content("nothing", "", 0)

Dir == 1..(Cardinality(Name) + Cardinality(Request))
NoDir == 0
Empty == [f \in File |-> None]

Exists(n) == at[n] # NoDir
Get(n, f) == IF Exists(n) THEN file[at[n]][f] ELSE None
IsRunDir(n) == Get(n, "archive") # None
Readable(n) == Get(n, "archive").from \in {"run", "zip"}

(* The runs whose attempts a directory holds; a summary may be another's. *)
Inside(d) == {file[d][f].run : f \in {g \in File \ {"summary"} : file[d][g] # None}}

(* A directory no name leads to and no request has open. *)
Fresh ==
  LET used == {at[n] : n \in Name} \cup {request[q].dir : q \in Request}
  IN  CHOOSE d \in Dir : d \notin used

(* os.MkdirAll of the directory, then os.WriteFile. *)
Put(n, f, c) ==
  LET d == IF Exists(n) THEN at[n] ELSE Fresh
  IN  /\ at' = [at EXCEPT ![n] = d]
      /\ file' = [file EXCEPT ![d][f] = c]

Asks(do, from, to, dir, what) == [do |-> do, from |-> from, to |-> to, dir |-> dir, what |-> what]
NoName == <<"none", "">>
Nothing(do) == Asks(do, NoName, NoName, NoDir, None)

(* The old runs are from before there were summaries. *)
Init ==
  \E first \in {f \in [Past -> 1..Cardinality(Past)] : \A p, r \in Past : p # r => f[p] # f[r]} :
    /\ at = [n \in Name |-> IF n[1] = "auto" /\ n[2] \in Past THEN first[n[2]] ELSE NoDir]
    /\ file = [d \in Dir |->
                 [Empty EXCEPT !["archive"] =
                    IF \E p \in Past : first[p] = d THEN Attempt(CHOOSE p \in Past : first[p] = d, 1) ELSE None]]
    /\ stage = [r \in Live |-> "runs"]
    /\ attempt = [r \in Live |-> 1]
    /\ request = [q \in Request |-> Nothing("idle")]
    /\ written = {Attempt(p, 1) : p \in Past}
    /\ warned = {}
    /\ mixed = {}
    /\ gone = {}

-----------------------------------------------------------------------------
(* The process of a run. *)

(* loadAndRunPlanToDir: the attempt is over and archive.Write writes it. *)
WriteArchive(r) ==
  /\ stage[r] = "runs"
  /\ Put(RunID(r), "archive", Attempt(r, attempt[r]))
  /\ written' = written \cup {Attempt(r, attempt[r])}
  /\ stage' = [stage EXCEPT ![r] = "wrote"]
  /\ UNCHANGED <<request, gone, mixed, attempt, warned>>

(* The summary beside it; the run passed, was the last one or is retried. *)
WriteSummary(r) ==
  /\ stage[r] = "wrote"
  /\ Put(RunID(r), "summary", Attempt(r, attempt[r]))
  /\ \E next \in {"done", "keeps"} :
       /\ next = "keeps" => attempt[r] < Attempts
       /\ stage' = [stage EXCEPT ![r] = next]
  /\ UNCHANGED <<request, gone, mixed, attempt, written, warned>>

(* os.Rename of archive.json to attempt-NN.json; the run goes on when that
   fails, and stops when it is interrupted in the delay. *)
Keep(r) ==
  LET d == at[RunID(r)] IN
  /\ stage[r] = "keeps"
  /\ IF IsRunDir(RunID(r))
     THEN /\ file' = [file EXCEPT ![d]["archive"] = None,
                                  ![d][AttemptFile(attempt[r])] = file[d]["archive"]]
          /\ UNCHANGED warned
     ELSE warned' = warned \cup {r} /\ UNCHANGED file
  /\ \/ /\ attempt' = [attempt EXCEPT ![r] = @ + 1]
        /\ stage' = [stage EXCEPT ![r] = "runs"]
     \/ /\ stage' = [stage EXCEPT ![r] = "done"]
        /\ UNCHANGED attempt
  /\ UNCHANGED <<at, request, gone, mixed, written>>

(* The process is killed, maybe while it writes the archive; or the attempt was
   not set up, has no archive and is not tried again. *)
Killed(r) ==
  /\ stage[r] # "done"
  /\ stage' = [stage EXCEPT ![r] = "done"]
  /\ \/ stage[r] = "runs" /\ Put(RunID(r), "archive", Torn(r, attempt[r]))
     \/ UNCHANGED <<at, file>>
  /\ UNCHANGED <<request, gone, mixed, attempt, written, warned>>

-----------------------------------------------------------------------------
(* The requests and the commands. *)

Goes(q, next) ==
  /\ request' = [request EXCEPT ![q] = next]
  /\ UNCHANGED runVars

(* renameDir and unnameDir up to the check that the target does not exist.  No
   name saves a run under its own run-ID, and one may type another run's; both
   get the "!" (archive.SavedName). *)
Save(q, n, m) ==
  /\ request[q].do = "idle" /\ IsRunDir(n) /\ n # m /\ ~Exists(m)
  /\ Goes(q, Asks("rename", n, m, NoDir, None))
  /\ UNCHANGED <<at, file, gone, mixed>>

Unsave(q, n) ==
  LET m == RunID(Get(n, "archive").run) IN
  /\ request[q].do = "idle" /\ IsRunDir(n) /\ Readable(n)
  /\ m \in Name /\ m # n /\ ~Exists(m)
  /\ Goes(q, Asks("rename", n, m, NoDir, None))
  /\ UNCHANGED <<at, file, gone, mixed>>

(* Mutant of Rename: what came to the target since is replaced. *)
RenameOver(q) ==
  LET a == request[q] IN
  /\ a.do = "rename"
  /\ at' = IF Exists(a.from) THEN [at EXCEPT ![a.from] = NoDir, ![a.to] = at[a.from]] ELSE at
  /\ Goes(q, Nothing("done"))
  /\ UNCHANGED <<file, gone, mixed>>

(* os.Rename: the target may have come since, which refuses the rename unless
   it is an empty directory.  The directory may be another than the one whose
   archive was read, and holds another run than run-ID says. *)
Rename(q) ==
  LET a == request[q]
      d == at[a.from]
  IN
  /\ a.do = "rename"
  /\ IF Exists(a.from) /\ (Exists(a.to) => file[at[a.to]] = Empty)
     THEN /\ at' = [at EXCEPT ![a.from] = NoDir, ![a.to] = d]
          /\ mixed' = IF a.to[1] = "auto" /\ ~Inside(d) \subseteq {a.to[2]}
                      THEN mixed \cup Inside(d) \cup {a.to[2]} ELSE mixed
     ELSE UNCHANGED <<at, mixed>>
  /\ Goes(q, Nothing("done"))
  /\ UNCHANGED <<file, gone>>

(* readRunSummary finds no summary, reads the archive and writes one later;
   rebuildOneSummary does so whether there is one or not. *)
ReadForSummary(q, n) ==
  /\ request[q].do = "idle" /\ Readable(n)
  /\ Goes(q, Asks("summary", NoName, n, NoDir, Get(n, "archive")))
  /\ UNCHANGED <<at, file, gone, mixed>>

Backfill(q) ==
  /\ request[q].do = "summary"
  /\ Put(request[q].to, "summary", request[q].what)
  /\ Goes(q, Nothing("done"))
  /\ UNCHANGED <<gone, mixed>>

(* ImportArchive: os.Stat finds nothing of that name, os.MkdirAll does not care,
   and each file of the zip is written over what is there. *)
ImportStat(q, n) ==
  /\ request[q].do = "idle" /\ n \in SavedName /\ ~Exists(n)
  /\ Goes(q, Asks("mkdir", NoName, n, NoDir, Zip(q)))
  /\ UNCHANGED <<at, file, gone, mixed>>

ImportMkdir(q) ==
  LET n == request[q].to IN
  /\ request[q].do = "mkdir"
  /\ at' = [at EXCEPT ![n] = IF Exists(n) THEN at[n] ELSE Fresh]
  /\ Goes(q, Asks("archive", NoName, n, NoDir, Zip(q)))
  /\ UNCHANGED <<file, gone, mixed>>

Extract(q, f) ==
  LET a == request[q] IN
  /\ a.do = f /\ f \in {"archive", "attempt-01"}
  /\ Put(a.to, f, a.what)
  /\ Goes(q, IF f = "archive" THEN [a EXCEPT !.do = "attempt-01"] ELSE Nothing("done"))
  /\ gone' = gone \cup {Get(a.to, f)}
  /\ UNCHANGED mixed

ExtractFails(q) ==
  /\ request[q].do \in {"archive", "attempt-01"}
  /\ Goes(q, [request[q] EXCEPT !.do = "remove", !.dir = at[request[q].to]])
  /\ UNCHANGED <<at, file, gone, mixed>>

(* CleanOldRuns comes to a directory that is old enough and opens it. *)
Clean(q, n) ==
  /\ request[q].do = "idle" /\ Exists(n) /\ ~IsNamed(n) /\ n[2] \in Past
  /\ Goes(q, Asks("remove", NoName, n, at[n], None))
  /\ UNCHANGED <<at, file, gone, mixed>>

(* os.RemoveAll: the files of the directory it opened, then the directory of
   that name, if it is empty. *)
RemoveFile(q, f) ==
  LET d == request[q].dir IN
  /\ request[q].do = "remove" /\ d # NoDir
  /\ file[d][f] # None
  /\ file' = [file EXCEPT ![d][f] = None]
  /\ gone' = gone \cup {file[d][f]}
  /\ UNCHANGED <<at, request, mixed, runVars>>

RemoveDir(q) ==
  LET a == request[q] IN
  /\ a.do = "remove"
  /\ a.dir # NoDir => file[a.dir] = Empty
  /\ at' = IF Exists(a.to) /\ file[at[a.to]] = Empty THEN [at EXCEPT ![a.to] = NoDir] ELSE at
  /\ Goes(q, Nothing("done"))
  /\ UNCHANGED <<file, gone, mixed>>

Next ==
  \/ \E r \in Live : WriteArchive(r) \/ WriteSummary(r) \/ Keep(r) \/ Killed(r)
  \/ \E q \in Request :
       \/ \E n \in Name, m \in SavedName : Save(q, n, m)
       \/ \E n \in Name : Unsave(q, n) \/ ReadForSummary(q, n) \/ ImportStat(q, n) \/ Clean(q, n)
       \/ Rename(q) \/ Backfill(q) \/ ImportMkdir(q)
       \/ \E f \in File : Extract(q, f) \/ RemoveFile(q, f)
       \/ ExtractFails(q) \/ RemoveDir(q)

Spec == Init /\ [][Next]_vars

-----------------------------------------------------------------------------
(* Whatever is saved, unsaved, listed and cleaned while a run goes on, each
   attempt it wrote is in some directory, unless clean or an import removed it,
   the run said that it could not set an attempt aside, or an unsave gave the
   run-ID of one run to the directory of another, which had come to the name
   between its check and its rename. *)
NothingIsLost ==
  \A c \in written :
    \/ \E n \in Name, f \in File \ {"summary"} : Get(n, f) = c
    \/ c \in gone
    \/ c.run \in warned \cup mixed

(* An import found the name n free, or a removal opened the directory before it
   was saved under n. *)
Disturbed(n) ==
  \E q \in Request :
    LET a == request[q] IN
    \/ a.do \in {"mkdir", "archive", "attempt-01"} /\ a.to = n
    \/ a.do = "remove" /\ a.dir = at[n] /\ (a.to[1] = "auto" \/ a.what # None)

(* A saved run keeps its archive, whatever is renamed, imported and cleaned
   beside it: its directory goes on having a name and the archive stays in it. *)
StaysSaved(n) ==
  LET d == at[n] IN
  (IsRunDir(n) /\ ~Disturbed(n)) =>
    (\E m \in Name : at'[m] = d) /\ file'[d]["archive"] = file[d]["archive"]

SavedStays == [][\A n \in SavedName : StaysSaved(n)]_vars
=============================================================================
