-------------------------- MODULE ArchiveStoreProofs --------------------------
(***************************************************************************)
(* What the archive directory keeps, for any runs, any names and any number *)
(* of requests made at once.                                               *)
(***************************************************************************)
EXTENDS ArchiveStore, FiniteSetTheorems, TLAPS

Held ==
  {Attempt(r, k) : r \in Run, k \in 1..Attempts} \cup {Torn(r, k) : r \in Live, k \in 1..Attempts}
    \cup {Zip(q) : q \in Request} \cup {None}

(* The files that hold attempts. *)
Slot == File \ {"summary"}

(* What a request may have still to do. *)
Asked(q, a) ==
  /\ a.do \in {"idle", "done", "rename", "summary", "mkdir", "archive", "attempt-01", "remove"}
  /\ a.dir \in Dir \cup {NoDir}
  /\ a.do = "rename" => a.from \in Name /\ a.to \in Name /\ a.from # a.to
  /\ a.do = "summary" => a.to \in Name /\ a.what \in Held
  /\ a.do \in {"mkdir", "archive", "attempt-01"} => a.to \in SavedName /\ a.what = Zip(q)
  /\ a.do = "remove" => a.to \in Name /\ (a.to[1] = "auto" \/ a.what = Zip(q))

Asking == DOMAIN request = Request /\ \A q \in Request : Asked(q, request[q])

(* No two names lead to one directory, and one that no name leads to is empty. *)
Placed ==
  /\ at \in [Name -> Dir \cup {NoDir}]
  /\ file \in [Dir -> [File -> Held]]
  /\ \A n, m \in Name : n # m /\ Exists(n) => at[n] # at[m]
  /\ \A d \in Dir : (\A n \in Name : at[n] # d) => file[d] = Empty

StoreInv == Placed /\ Asking

(* A run that goes on is at one of its attempts, and can take another one when
   it sets one aside; its archives were written in their order. *)
Running ==
  /\ stage \in [Live -> {"runs", "wrote", "keeps", "done"}]
  /\ attempt \in [Live -> 1..Attempts]
  /\ \A r \in Live : stage[r] = "keeps" => attempt[r] < Attempts
  /\ written \subseteq {Attempt(r, k) : r \in Run, k \in 1..Attempts}
  /\ \A r \in Live, k \in 1..Attempts :
       Attempt(r, k) \in written => k < attempt[r] \/ (k = attempt[r] /\ stage[r] # "runs")

(* An attempt is in one file of one directory, and was written; one that is cut
   off is the last of its run. *)
KeptOnce ==
  \A d, e \in Dir, f, g \in Slot :
    file[d][f] = file[e][g] /\ file[d][f].from = "run" => d = e /\ f = g
KeptIsWritten == \A d \in Dir, f \in Slot : file[d][f].from = "run" => file[d][f] \in written
TornIsOver == \A d \in Dir, f \in Slot : file[d][f].from = "killed" => stage[file[d][f].run] = "done"

(* Unless a run's directories were mixed up with another's, or an attempt was
   not set aside: archive.json is of the attempt the run is at, and the file of
   an attempt holds that one. *)
ArchiveIsTheLast ==
  \A d \in Dir : LET c == file[d]["archive"] IN
    c.from = "run" /\ c.run \in Live \ (warned \cup mixed) => c.attempt = attempt[c.run]
AttemptsInPlace ==
  \A d \in Dir, k \in 1..Attempts : LET c == file[d][AttemptFile(k)] IN
    c.from = "run" /\ c.run \notin warned \cup mixed => c.attempt = k

Kept == KeptOnce /\ KeptIsWritten /\ TornIsOver /\ ArchiveIsTheLast /\ AttemptsInPlace

(* run-ID leads to the attempts of that run alone, unless they were mixed up. *)
OwnOrMixed ==
  \A r \in Run, f \in Slot : LET c == Get(RunID(r), f) IN
    c # None => c.run = r \/ {c.run, r} \subseteq mixed

ArchiveInv == StoreInv /\ Running /\ Kept /\ OwnOrMixed /\ NothingIsLost

-----------------------------------------------------------------------------
LEMMA NamesAreFinite == IsFiniteSet(Name)
<1>1. IsFiniteSet({RunID(r) : r \in Run})
  <2> DEFINE f == [r \in Run |-> RunID(r)]
  <2>1. f \in Surjection(Run, {RunID(r) : r \in Run})
    BY DEF Surjection
  <2> QED BY <2>1, FS_Surjection, StoreAssumption
<1>2. IsFiniteSet({Bang(r) : r \in Run})
  <2> DEFINE f == [r \in Run |-> Bang(r)]
  <2>1. f \in Surjection(Run, {Bang(r) : r \in Run})
    BY DEF Surjection
  <2> QED BY <2>1, FS_Surjection, StoreAssumption
<1>3. IsFiniteSet({Typed(w) : w \in Word})
  <2> DEFINE f == [w \in Word |-> Typed(w)]
  <2>1. f \in Surjection(Word, {Typed(w) : w \in Word})
    BY DEF Surjection
  <2> QED BY <2>1, FS_Surjection, StoreAssumption
<1> QED BY <1>1, <1>2, <1>3, FS_Union DEF Name, SavedName

(* While a name is free there is a directory for it: the other names and the
   requests have fewer of them. *)
LEMMA FreshIsUnused ==
  ASSUME NEW n \in Name, ~Exists(n)
  PROVE  Fresh \in Dir /\ \A m \in Name : at[m] # Fresh
<1> DEFINE A == {at[m] : m \in Name \ {n}}
           B == {request[q].dir : q \in Request}
           used == {at[m] : m \in Name} \cup B
<1>1. Cardinality(Name) \in Nat /\ Cardinality(Request) \in Nat
  BY NamesAreFinite, StoreAssumption, FS_CardinalityType
<1>2. IsFiniteSet(Name \ {n}) /\ Cardinality(Name \ {n}) = Cardinality(Name) - 1
  BY NamesAreFinite, FS_RemoveElement
<1>3. IsFiniteSet(A) /\ Cardinality(A) <= Cardinality(Name) - 1
  <2> DEFINE f == [m \in Name \ {n} |-> at[m]]
  <2>1. f \in Surjection(Name \ {n}, A)
    BY DEF Surjection
  <2> QED BY <2>1, <1>2, FS_Surjection
<1>4. IsFiniteSet(B) /\ Cardinality(B) <= Cardinality(Request)
  <2> DEFINE f == [q \in Request |-> request[q].dir]
  <2>1. f \in Surjection(Request, B)
    BY DEF Surjection
  <2> QED BY <2>1, FS_Surjection, StoreAssumption
<1>5. IsFiniteSet(A \cup B) /\ Cardinality(A \cup B) <= Cardinality(A) + Cardinality(B)
  <2>1. Cardinality(A) \in Nat /\ Cardinality(B) \in Nat /\ Cardinality(A \cap B) \in Nat
    <3>1. IsFiniteSet(A \cap B)
      BY <1>3, FS_Subset
    <3> QED BY <3>1, <1>3, <1>4, FS_CardinalityType
  <2>2. IsFiniteSet(A \cup B) /\ Cardinality(A \cup B) = Cardinality(A) + Cardinality(B) - Cardinality(A \cap B)
    BY <1>3, <1>4, FS_Union
  <2> QED BY <2>1, <2>2
<1>6. ~(Dir \subseteq A \cup B)
  <2> SUFFICES ASSUME Dir \subseteq A \cup B PROVE FALSE
    OBVIOUS
  <2>1. Cardinality(Dir) <= Cardinality(A \cup B)
    BY <1>5, FS_Subset
  <2>2. Cardinality(Dir) = Cardinality(Name) + Cardinality(Request)
    <3>1. \A k \in Nat : Cardinality(1..k) = k
      <4> SUFFICES ASSUME NEW k \in Nat PROVE Cardinality(1..k) = k
        OBVIOUS
      <4> QED BY FS_Interval
    <3>2. Cardinality(Name) + Cardinality(Request) \in Nat
      BY <1>1
    <3> QED BY <3>1, <3>2 DEF Dir
  <2>3. Cardinality(A) \in Nat /\ Cardinality(B) \in Nat /\ Cardinality(A \cup B) \in Nat
    BY <1>3, <1>4, <1>5, FS_CardinalityType
  <2> QED BY <2>1, <2>2, <2>3, <1>1, <1>3, <1>4, <1>5
<1>7. PICK d \in Dir : d \notin A \cup B
  BY <1>6
<1>8. d \notin used
  <2>1. at[n] = NoDir /\ d # NoDir
    BY <1>1 DEF Exists, Dir, NoDir
  <2> QED BY <1>7, <2>1
<1>9. Fresh = CHOOSE e \in Dir : e \notin used
  BY DEF Fresh
<1>10. Fresh \in Dir /\ Fresh \notin used
  BY <1>7, <1>8, <1>9
<1> QED BY <1>10

(* A name of one kind is none of the others. *)
LEMMA NamesDiffer ==
  /\ \A r \in Run : RunID(r) \in Name /\ RunID(r) \notin SavedName
  /\ \A n \in Name : n[1] = "auto" => \E r \in Run : n = RunID(r)
  /\ \A n \in SavedName : n \in Name /\ n[1] # "auto"
  /\ \A r \in Run : RunID(r)[1] = "auto" /\ RunID(r)[2] = r
BY DEF Name, SavedName, RunID, Bang, Typed

LEMMA FilesDiffer ==
  /\ "archive" \in File /\ "summary" \in File /\ "attempt-01" \in File
  /\ \A k \in 1..Attempts : AttemptFile(k) \in Slot /\ AttemptFile(k) # "archive"
  /\ \A j, k \in 1..Attempts : AttemptFile(j) = AttemptFile(k) => j = k
<1>1. \A k \in 1..Attempts : k \in 1..3
  BY StoreAssumption
<1>2. 1 \in 1..Attempts
  BY StoreAssumption
<1>3. AttemptFile(1) = "attempt-01" /\ AttemptFile(2) = "attempt-02" /\ AttemptFile(3) = "attempt-03"
  BY DEF AttemptFile
<1>4. \A k \in 1..Attempts : AttemptFile(k) \in File
  BY DEF File
<1> QED BY <1>1, <1>2, <1>3, <1>4 DEF File, Slot

(* What a file may hold says what it is. *)
LEMMA HeldFacts ==
  ASSUME NEW c \in Held
  PROVE  /\ c.from = "run" => c.run \in Run /\ c.attempt \in 1..Attempts /\ c = Attempt(c.run, c.attempt)
         /\ c.from = "killed" => c.run \in Live
         /\ c.from = "zip" => c.run \in Request
         /\ c.from \in {"run", "killed", "zip", "nothing"}
         /\ c.from = "nothing" => c = None
<1>1. ASSUME NEW r \in Run, NEW k \in 1..Attempts, c = Attempt(r, k)
      PROVE  c.from = "run" /\ c.run \in Run /\ c.attempt \in 1..Attempts /\ c = Attempt(c.run, c.attempt)
  BY <1>1 DEF Attempt, Content
<1>2. ASSUME NEW r \in Live, NEW k \in 1..Attempts, c = Torn(r, k)
      PROVE  c.from = "killed" /\ c.run \in Live
  BY <1>2 DEF Torn, Content
<1>3. ASSUME NEW q \in Request, c = Zip(q)
      PROVE  c.from = "zip" /\ c.run \in Request
  BY <1>3 DEF Zip, Content
<1>4. None.from = "nothing"
  BY DEF None, Content
<1>5. \/ \E r \in Run, k \in 1..Attempts : c = Attempt(r, k)
      \/ \E r \in Live, k \in 1..Attempts : c = Torn(r, k)
      \/ \E q \in Request : c = Zip(q)
      \/ c = None
  BY DEF Held
<1> QED BY <1>1, <1>2, <1>3, <1>4, <1>5

LEMMA EmptyFacts == Empty \in [File -> Held] /\ \A f \in File : Empty[f] = None
BY DEF Empty, Held

(* A file is put where its name leads, or into an empty directory that has got
   the name. *)
LEMMA PutFacts ==
  ASSUME StoreInv, NEW n \in Name, NEW f \in File, NEW c \in Held, Put(n, f, c)
  PROVE  \E d \in Dir :
           /\ at' = [at EXCEPT ![n] = d] /\ file' = [file EXCEPT ![d][f] = c]
           /\ \A m \in Name \ {n} : at[m] # d
           /\ Exists(n) => d = at[n]
           /\ ~Exists(n) => file[d] = Empty
<1>1. CASE Exists(n)
  <2>1. at[n] \in Dir
    BY <1>1 DEF Exists, StoreInv, Placed
  <2>2. at' = [at EXCEPT ![n] = at[n]] /\ file' = [file EXCEPT ![at[n]][f] = c]
    BY <1>1 DEF Put
  <2>3. \A m \in Name \ {n} : at[m] # at[n]
    BY <1>1 DEF StoreInv, Placed
  <2> QED BY <2>1, <2>2, <2>3, <1>1
<1>2. CASE ~Exists(n)
  <2>1. Fresh \in Dir /\ \A m \in Name : at[m] # Fresh
    BY <1>2, FreshIsUnused
  <2>2. at' = [at EXCEPT ![n] = Fresh] /\ file' = [file EXCEPT ![Fresh][f] = c]
    BY <1>2 DEF Put
  <2>3. file[Fresh] = Empty
    BY <2>1 DEF StoreInv, Placed
  <2> QED BY <2>1, <2>2, <2>3, <1>2
<1> QED BY <1>1, <1>2

LEMMA PutFile ==
  ASSUME StoreInv, NEW n \in Name, NEW f \in File, NEW c \in Held, Put(n, f, c)
  PROVE  \E d \in Dir : file' = [file EXCEPT ![d][f] = c]
BY PutFacts

LEMMA PutKeepsPlaces ==
  ASSUME StoreInv, NEW n \in Name, NEW f \in File, NEW c \in Held, Put(n, f, c)
  PROVE  Placed'
<1>1. PICK d \in Dir :
        /\ at' = [at EXCEPT ![n] = d] /\ file' = [file EXCEPT ![d][f] = c]
        /\ \A m \in Name \ {n} : at[m] # d
        /\ Exists(n) => d = at[n]
        /\ ~Exists(n) => file[d] = Empty
  BY PutFacts
<1>2. at' \in [Name -> Dir \cup {NoDir}]
  BY <1>1 DEF StoreInv, Placed
<1>3. file' \in [Dir -> [File -> Held]]
  BY <1>1 DEF StoreInv, Placed
<1>4. at'[n] = d /\ \A m \in Name \ {n} : at'[m] = at[m]
  BY <1>1 DEF StoreInv, Placed
<1>5. \A m, o \in Name : m # o /\ at'[m] # NoDir => at'[m] # at'[o]
  BY <1>1, <1>4 DEF StoreInv, Placed, Exists
<1>6. ASSUME NEW e \in Dir, \A m \in Name : at'[m] # e PROVE file'[e] = Empty
  <2>1. e # d
    BY <1>4, <1>6
  <2>2. file'[e] = file[e]
    BY <1>1, <2>1 DEF StoreInv, Placed
  <2>3. \A m \in Name : at[m] # e
    <3>1. at[n] # e
      BY <1>1, <2>1 DEF Exists, NoDir, Dir
    <3> QED BY <3>1, <1>4, <1>6
  <2> QED BY <2>2, <2>3 DEF StoreInv, Placed
<1> QED BY <1>2, <1>3, <1>5, <1>6 DEF Placed, Exists

-----------------------------------------------------------------------------
(* Where the saved directories are, step by step. *)
SavedStay == \A n \in SavedName : StaysSaved(n)

(* Putting a file disturbs no saved run, unless it is the archive of that name. *)
LEMMA PutSavedStay ==
  ASSUME StoreInv, NEW n \in Name, NEW f \in File, NEW c \in Held, Put(n, f, c),
         f = "archive" /\ n \in SavedName => Disturbed(n)
  PROVE  SavedStay
<1> SUFFICES ASSUME NEW m \in SavedName, IsRunDir(m), ~Disturbed(m)
             PROVE  (\E o \in Name : at'[o] = at[m]) /\ file'[at[m]]["archive"] = file[at[m]]["archive"]
  BY DEF SavedStay, StaysSaved
<1>1. PICK d \in Dir :
        /\ at' = [at EXCEPT ![n] = d] /\ file' = [file EXCEPT ![d][f] = c]
        /\ \A o \in Name \ {n} : at[o] # d
        /\ Exists(n) => d = at[n]
        /\ ~Exists(n) => file[d] = Empty
  BY PutFacts
<1>2. m \in Name /\ Exists(m) /\ at[m] \in Dir
  BY NamesDiffer DEF IsRunDir, Get, Exists, StoreInv, Placed
<1>3. at'[m] = at[m]
  BY <1>1, <1>2 DEF StoreInv, Placed
<1>4. CASE n = m
  <2>1. f # "archive" /\ "archive" \in File
    BY <1>4, FilesDiffer
  <2>2. file'[at[m]]["archive"] = file[at[m]]["archive"]
    BY <1>1, <1>2, <2>1 DEF StoreInv, Placed
  <2> QED BY <2>2, <1>2, <1>3
<1>5. CASE n # m
  <2>1. at[m] # d
    BY <1>1, <1>2, <1>5
  <2>2. file'[at[m]] = file[at[m]]
    BY <1>1, <1>2, <2>1 DEF StoreInv, Placed
  <2> QED BY <2>2, <1>2, <1>3
<1> QED BY <1>4, <1>5

LEMMA NothingMoves ==
  ASSUME StoreInv, UNCHANGED <<at, file>>
  PROVE  Placed' /\ SavedStay
<1>1. Placed'
  BY DEF StoreInv, Placed, Exists
<1>2. ASSUME NEW m \in SavedName, IsRunDir(m)
      PROVE  (\E o \in Name : at'[o] = at[m]) /\ file'[at[m]]["archive"] = file[at[m]]["archive"]
  BY NamesDiffer
<1> QED BY <1>1, <1>2 DEF SavedStay, StaysSaved

LEMMA GoesAsking ==
  ASSUME Asking, NEW q \in Request, NEW next, Asked(q, next), Goes(q, next)
  PROVE  Asking'
BY DEF Asking, Goes

LEMMA NothingIsAsked ==
  \A q \in Request : Asked(q, Nothing("done")) /\ Asked(q, Nothing("idle"))
BY DEF Asked, Nothing, Asks, Dir, NoDir

LEMMA RunSteps ==
  ASSUME StoreInv, NEW r \in Live,
         WriteArchive(r) \/ WriteSummary(r) \/ Keep(r) \/ Killed(r),
         attempt[r] \in 1..Attempts
  PROVE  StoreInv' /\ SavedStay
<1>1. request' = request
  BY DEF WriteArchive, WriteSummary, Keep, Killed
<1>2. Asking'
  BY <1>1 DEF StoreInv, Asking
<1>3. RunID(r) \in Name /\ RunID(r) \notin SavedName /\ r \in Run
  BY NamesDiffer DEF Run
<1>4. Attempt(r, attempt[r]) \in Held /\ Torn(r, attempt[r]) \in Held
  BY <1>3 DEF Held
<1>5. ASSUME NEW f \in File, NEW c \in Held, Put(RunID(r), f, c) PROVE StoreInv' /\ SavedStay
  BY <1>2, <1>3, <1>5, PutKeepsPlaces, PutSavedStay DEF StoreInv
<1>6. CASE WriteArchive(r)
  BY <1>4, <1>5, <1>6, FilesDiffer DEF WriteArchive
<1>7. CASE WriteSummary(r)
  BY <1>4, <1>5, <1>7, FilesDiffer DEF WriteSummary
<1>8. CASE Killed(r) /\ UNCHANGED <<at, file>>
  BY <1>2, <1>8, NothingMoves DEF StoreInv
<1>9. CASE Killed(r) /\ Put(RunID(r), "archive", Torn(r, attempt[r]))
  BY <1>4, <1>5, <1>9, FilesDiffer
<1>10. CASE Keep(r) /\ file' = file
  BY <1>2, <1>10, NothingMoves DEF StoreInv, Keep
<1>11. CASE Keep(r) /\ file' # file
  <2> DEFINE d == at[RunID(r)]
             g == AttemptFile(attempt[r])
  <2>1. /\ at' = at /\ IsRunDir(RunID(r))
        /\ file' = [file EXCEPT ![d]["archive"] = None, ![d][g] = file[d]["archive"]]
    BY <1>11 DEF Keep
  <2>2. d \in Dir
    BY <1>3, <2>1 DEF IsRunDir, Get, Exists, StoreInv, Placed
  <2>3. g \in File /\ "archive" \in File /\ g # "archive"
    BY FilesDiffer DEF Slot
  <2>4. file' \in [Dir -> [File -> Held]]
    <3>1. None \in Held
      BY DEF Held
    <3> QED BY <2>1, <2>2, <2>3, <3>1 DEF StoreInv, Placed
  <2>5. \A e \in Dir \ {d} : file'[e] = file[e]
    BY <2>1 DEF StoreInv, Placed
  <2>6. Placed'
    BY <1>3, <2>1, <2>4, <2>5 DEF StoreInv, Placed, Exists
  <2>7. ASSUME NEW m \in SavedName, IsRunDir(m)
        PROVE  (\E o \in Name : at'[o] = at[m]) /\ file'[at[m]]["archive"] = file[at[m]]["archive"]
    <3>1. m \in Name /\ at[m] \in Dir /\ at[m] # d
      BY <1>3, <2>2, <2>7, NamesDiffer DEF IsRunDir, Get, Exists, StoreInv, Placed
    <3> QED BY <3>1, <2>1, <2>5
  <2> QED BY <1>2, <2>6, <2>7 DEF StoreInv, SavedStay, StaysSaved
<1> QED BY <1>6, <1>7, <1>8, <1>9, <1>10, <1>11 DEF Killed

(* The checks that only find out what is to be done. *)
LEMMA CheckSteps ==
  ASSUME StoreInv, NEW q \in Request,
         \/ \E n \in Name, m \in SavedName : Save(q, n, m)
         \/ \E n \in Name : Unsave(q, n) \/ ReadForSummary(q, n) \/ ImportStat(q, n) \/ Clean(q, n)
         \/ ExtractFails(q)
  PROVE  StoreInv' /\ SavedStay /\ UNCHANGED <<at, file, gone, mixed, runVars>>
<1>1. UNCHANGED <<at, file, gone, mixed, runVars>>
  BY DEF Save, Unsave, ReadForSummary, ImportStat, Clean, ExtractFails, Goes
<1>2. Placed' /\ SavedStay
  BY <1>1, NothingMoves
<1>3. NoDir \in Dir \cup {NoDir}
  OBVIOUS
<1>4. ASSUME NEW n \in Name, NEW m \in SavedName, Save(q, n, m) PROVE Asking'
  <2>1. Asked(q, Asks("rename", n, m, NoDir, None))
    BY <1>4, NamesDiffer DEF Asked, Asks, Save
  <2> QED BY <1>4, <2>1, GoesAsking DEF Save, StoreInv
<1>5. ASSUME NEW n \in Name, Unsave(q, n) PROVE Asking'
  <2> DEFINE m == RunID(Get(n, "archive").run)
  <2>1. Asked(q, Asks("rename", n, m, NoDir, None))
    BY <1>5 DEF Asked, Asks, Unsave
  <2> QED BY <1>5, <2>1, GoesAsking DEF Unsave, StoreInv
<1>6. ASSUME NEW n \in Name, ReadForSummary(q, n) PROVE Asking'
  <2>1. Get(n, "archive") \in Held
    <3>1. CASE Exists(n)
      <4>1. at[n] \in Dir
        BY <3>1 DEF Exists, StoreInv, Placed
      <4> QED BY <4>1, <3>1, FilesDiffer DEF Get, StoreInv, Placed
    <3>2. CASE ~Exists(n)
      BY <3>2 DEF Get, Held
    <3> QED BY <3>1, <3>2
  <2>2. Asked(q, Asks("summary", NoName, n, NoDir, Get(n, "archive")))
    BY <2>1 DEF Asked, Asks
  <2> QED BY <1>6, <2>2, GoesAsking DEF ReadForSummary, StoreInv
<1>7. ASSUME NEW n \in Name, ImportStat(q, n) PROVE Asking'
  <2>1. Asked(q, Asks("mkdir", NoName, n, NoDir, Zip(q)))
    BY <1>7 DEF Asked, Asks, ImportStat
  <2> QED BY <1>7, <2>1, GoesAsking DEF ImportStat, StoreInv
<1>8. ASSUME NEW n \in Name, Clean(q, n) PROVE Asking'
  <2>1. n[1] = "auto" /\ at[n] \in Dir \cup {NoDir}
    BY <1>8 DEF Clean, IsNamed, StoreInv, Placed
  <2>2. Asked(q, Asks("remove", NoName, n, at[n], None))
    BY <2>1 DEF Asked, Asks
  <2> QED BY <1>8, <2>2, GoesAsking DEF Clean, StoreInv
<1>9. ASSUME ExtractFails(q) PROVE Asking'
  <2> DEFINE a == request[q]
             next == [a EXCEPT !.do = "remove", !.dir = at[a.to]]
  <2>1. a.to \in SavedName /\ a.what = Zip(q)
    BY <1>9 DEF ExtractFails, StoreInv, Asking, Asked
  <2>2. a.to \in Name /\ at[a.to] \in Dir \cup {NoDir}
    BY <2>1, NamesDiffer DEF StoreInv, Placed
  <2>3. Asked(q, next)
    BY <2>1, <2>2 DEF Asked
  <2> QED BY <1>9, <2>3, GoesAsking DEF ExtractFails, StoreInv
<1> QED BY <1>1, <1>2, <1>4, <1>5, <1>6, <1>7, <1>8, <1>9 DEF StoreInv

LEMMA RenameStep ==
  ASSUME StoreInv, NEW q \in Request, Rename(q)
  PROVE  StoreInv' /\ SavedStay
<1> DEFINE a == request[q]
           d == at[a.from]
<1>1. a.from \in Name /\ a.to \in Name /\ a.from # a.to
  BY DEF Rename, StoreInv, Asking, Asked
<1>2. Asking'
  BY NothingIsAsked, GoesAsking DEF Rename, StoreInv
<1>3. file' = file
  BY DEF Rename
<1>4. CASE at' = at
  BY <1>2, <1>3, <1>4, NothingMoves DEF StoreInv
<1>5. CASE at' # at
  <2>1. /\ Exists(a.from) /\ (Exists(a.to) => file[at[a.to]] = Empty)
        /\ at' = [at EXCEPT ![a.from] = NoDir, ![a.to] = d]
    BY <1>5 DEF Rename
  <2>2. at'[a.from] = NoDir /\ at'[a.to] = d /\ \A m \in Name \ {a.from, a.to} : at'[m] = at[m]
    BY <1>1, <2>1 DEF StoreInv, Placed
  <2>3. at' \in [Name -> Dir \cup {NoDir}]
    BY <1>1, <2>1 DEF StoreInv, Placed
  <2>4. \A n, m \in Name : n # m /\ at'[n] # NoDir => at'[n] # at'[m]
    BY <1>1, <2>1, <2>2 DEF StoreInv, Placed, Exists
  <2>5. ASSUME NEW e \in Dir, \A n \in Name : at'[n] # e PROVE file'[e] = Empty
    <3>1. CASE at[a.to] = e
      BY <1>3, <2>1, <3>1 DEF Exists, NoDir, Dir
    <3>2. CASE at[a.to] # e
      <4>1. \A n \in Name : at[n] # e
        BY <1>1, <2>2, <2>5, <3>2
      <4> QED BY <4>1, <1>3 DEF StoreInv, Placed
    <3> QED BY <3>1, <3>2
  <2>6. Placed'
    BY <1>3, <2>3, <2>4, <2>5 DEF StoreInv, Placed, Exists
  <2>7. ASSUME NEW n \in SavedName, IsRunDir(n)
        PROVE  (\E o \in Name : at'[o] = at[n]) /\ file'[at[n]]["archive"] = file[at[n]]["archive"]
    <3>1. n \in Name /\ Exists(n)
      BY <2>7, NamesDiffer DEF IsRunDir, Get
    <3>2. n # a.to
      <4> SUFFICES ASSUME n = a.to PROVE FALSE
        OBVIOUS
      <4>1. file[at[n]] = Empty
        BY <2>1, <3>1
      <4> QED BY <4>1, <2>7, <3>1, EmptyFacts, FilesDiffer DEF IsRunDir, Get
    <3>3. \E o \in Name : at'[o] = at[n]
      <4>1. CASE n = a.from
        BY <4>1, <1>1, <2>2
      <4>2. CASE n # a.from
        BY <4>2, <3>1, <3>2, <2>2
      <4> QED BY <4>1, <4>2
    <3> QED BY <3>3, <1>3
  <2> QED BY <1>2, <2>6, <2>7 DEF StoreInv, SavedStay, StaysSaved
<1> QED BY <1>4, <1>5

LEMMA WriteSteps ==
  ASSUME StoreInv, NEW q \in Request,
         Backfill(q) \/ \E f \in File : Extract(q, f)
  PROVE  StoreInv' /\ SavedStay
<1> DEFINE a == request[q]
<1>1. CASE Backfill(q)
  <2>1. a.to \in Name /\ a.what \in Held /\ Put(a.to, "summary", a.what)
    BY <1>1 DEF Backfill, StoreInv, Asking, Asked
  <2>2. Asking'
    BY <1>1, NothingIsAsked, GoesAsking DEF Backfill, StoreInv
  <2> QED BY <2>1, <2>2, FilesDiffer, PutKeepsPlaces, PutSavedStay DEF StoreInv
<1>2. ASSUME NEW f \in File, Extract(q, f) PROVE StoreInv' /\ SavedStay
  <2>1. a.do = f /\ f \in {"archive", "attempt-01"} /\ Put(a.to, f, a.what)
    BY <1>2 DEF Extract
  <2>2. a.to \in SavedName /\ a.what = Zip(q)
    BY <2>1 DEF StoreInv, Asking, Asked
  <2>3. a.to \in Name /\ a.what \in Held
    BY <2>2, NamesDiffer DEF Held
  <2>4. Disturbed(a.to)
    BY <2>1 DEF Disturbed
  <2>5. Asking'
    <3>1. Asked(q, [a EXCEPT !.do = "attempt-01"])
      <4>1. a.dir \in Dir \cup {NoDir}
        BY DEF StoreInv, Asking, Asked
      <4> QED BY <2>2, <4>1 DEF Asked
    <3> QED BY <1>2, <3>1, NothingIsAsked, GoesAsking DEF Extract, StoreInv
  <2> QED BY <2>1, <2>3, <2>4, <2>5, PutKeepsPlaces, PutSavedStay DEF StoreInv
<1> QED BY <1>1, <1>2

LEMMA MkdirStep ==
  ASSUME StoreInv, NEW q \in Request, ImportMkdir(q)
  PROVE  StoreInv' /\ SavedStay
<1> DEFINE n == request[q].to
<1>1. n \in SavedName /\ n \in Name /\ request[q].what = Zip(q)
  BY NamesDiffer DEF ImportMkdir, StoreInv, Asking, Asked
<1>2. Asking'
  <2>1. Asked(q, Asks("archive", NoName, n, NoDir, Zip(q)))
    BY <1>1 DEF Asked, Asks
  <2> QED BY <2>1, GoesAsking DEF ImportMkdir, StoreInv
<1>3. file' = file
  BY DEF ImportMkdir
<1>4. CASE Exists(n)
  <2>1. at' = at
    BY <1>1, <1>4 DEF ImportMkdir, StoreInv, Placed
  <2> QED BY <1>2, <1>3, <2>1, NothingMoves DEF StoreInv
<1>5. CASE ~Exists(n)
  <2>1. Fresh \in Dir /\ \A m \in Name : at[m] # Fresh
    BY <1>1, <1>5, FreshIsUnused
  <2>2. at'[n] = Fresh /\ \A m \in Name \ {n} : at'[m] = at[m]
    BY <1>1, <1>5 DEF ImportMkdir, StoreInv, Placed
  <2>3. at' \in [Name -> Dir \cup {NoDir}]
    BY <1>1, <1>5, <2>1 DEF ImportMkdir, StoreInv, Placed
  <2>4. Placed'
    <3>1. \A m, o \in Name : m # o /\ at'[m] # NoDir => at'[m] # at'[o]
      BY <1>1, <2>1, <2>2 DEF StoreInv, Placed, Exists
    <3>2. ASSUME NEW e \in Dir, \A m \in Name : at'[m] # e PROVE file[e] = Empty
      <4>1. \A m \in Name : at[m] # e
        BY <1>1, <1>5, <2>2, <3>2 DEF Exists, NoDir, Dir
      <4> QED BY <4>1 DEF StoreInv, Placed
    <3> QED BY <1>3, <2>3, <3>1, <3>2 DEF StoreInv, Placed, Exists
  <2>5. ASSUME NEW m \in SavedName, IsRunDir(m)
        PROVE  (\E o \in Name : at'[o] = at[m]) /\ file'[at[m]]["archive"] = file[at[m]]["archive"]
    BY <1>3, <1>5, <2>2, <2>5, NamesDiffer DEF IsRunDir, Get
  <2> QED BY <1>2, <2>4, <2>5 DEF StoreInv, SavedStay, StaysSaved
<1> QED BY <1>4, <1>5

LEMMA RemoveSteps ==
  ASSUME StoreInv, NEW q \in Request,
         RemoveDir(q) \/ \E f \in File : RemoveFile(q, f)
  PROVE  StoreInv' /\ SavedStay
<1> DEFINE a == request[q]
<1>1. a.to \in Name /\ (a.to[1] = "auto" \/ a.what = Zip(q)) /\ a.dir \in Dir \cup {NoDir}
  BY DEF RemoveDir, RemoveFile, StoreInv, Asking, Asked
<1>2. Zip(q) # None
  BY DEF Zip, None, Content
<1>3. ASSUME NEW f \in File, RemoveFile(q, f) PROVE StoreInv' /\ SavedStay
  <2>1. a.dir \in Dir /\ at' = at /\ request' = request /\ file' = [file EXCEPT ![a.dir][f] = None]
    BY <1>1, <1>3 DEF RemoveFile
  <2>2. Asking'
    BY <2>1 DEF StoreInv, Asking
  <2>3. file' \in [Dir -> [File -> Held]]
    <3>1. None \in Held
      BY DEF Held
    <3> QED BY <2>1, <3>1 DEF StoreInv, Placed
  <2>4. \A e \in Dir : file[e] = Empty => file'[e] = Empty
    <3> SUFFICES ASSUME NEW e \in Dir, file[e] = Empty PROVE file'[e] = Empty
      OBVIOUS
    <3>1. CASE e # a.dir
      BY <2>1, <3>1 DEF StoreInv, Placed
    <3>2. CASE e = a.dir
      <4>1. file[e][f] = None
        BY EmptyFacts
      <4> QED BY <1>3, <3>2, <4>1 DEF RemoveFile
    <3> QED BY <3>1, <3>2
  <2>5. Placed'
    BY <2>1, <2>3, <2>4 DEF StoreInv, Placed, Exists
  <2>6. ASSUME NEW n \in SavedName, IsRunDir(n), ~Disturbed(n)
        PROVE  (\E o \in Name : at'[o] = at[n]) /\ file'[at[n]]["archive"] = file[at[n]]["archive"]
    <3>1. n \in Name /\ at[n] \in Dir
      BY <2>6, NamesDiffer DEF IsRunDir, Get, Exists, StoreInv, Placed
    <3>2. a.do = "remove"
      BY <1>3 DEF RemoveFile
    <3>3. a.dir # at[n]
      BY <1>1, <1>2, <2>6, <3>2 DEF Disturbed
    <3> QED BY <3>1, <3>3, <2>1 DEF StoreInv, Placed
  <2> QED BY <2>2, <2>5, <2>6 DEF StoreInv, SavedStay, StaysSaved
<1>4. CASE RemoveDir(q)
  <2>1. Asking' /\ file' = file
    BY <1>4, NothingIsAsked, GoesAsking DEF RemoveDir, StoreInv
  <2>2. CASE at' = at
    BY <2>1, <2>2, NothingMoves DEF StoreInv
  <2>3. CASE at' # at
    <3>1. Exists(a.to) /\ file[at[a.to]] = Empty /\ at' = [at EXCEPT ![a.to] = NoDir]
      BY <1>4, <2>3 DEF RemoveDir
    <3>2. at'[a.to] = NoDir /\ \A m \in Name \ {a.to} : at'[m] = at[m]
      BY <1>1, <3>1 DEF StoreInv, Placed
    <3>3. at' \in [Name -> Dir \cup {NoDir}]
      BY <1>1, <3>1 DEF StoreInv, Placed
    <3>4. ASSUME NEW e \in Dir, \A m \in Name : at'[m] # e PROVE file[e] = Empty
      <4>1. CASE at[a.to] = e
        BY <3>1, <4>1
      <4>2. CASE at[a.to] # e
        <5>1. \A m \in Name : at[m] # e
          BY <3>2, <3>4, <4>2
        <5> QED BY <5>1 DEF StoreInv, Placed
      <4> QED BY <4>1, <4>2
    <3>5. \A n, m \in Name : n # m /\ at'[n] # NoDir => at'[n] # at'[m]
      BY <1>1, <3>2 DEF StoreInv, Placed, Exists
    <3>6. Placed'
      BY <2>1, <3>3, <3>4, <3>5 DEF StoreInv, Placed, Exists
    <3>7. ASSUME NEW n \in SavedName, IsRunDir(n)
          PROVE  (\E o \in Name : at'[o] = at[n]) /\ file'[at[n]]["archive"] = file[at[n]]["archive"]
      <4>1. n \in Name /\ Exists(n) /\ file[at[n]]["archive"] # None
        BY <3>7, NamesDiffer DEF IsRunDir, Get
      <4>2. n # a.to
        BY <3>1, <4>1, EmptyFacts, FilesDiffer
      <4> QED BY <2>1, <3>2, <4>1, <4>2
    <3> QED BY <2>1, <3>6, <3>7 DEF StoreInv, SavedStay, StaysSaved
  <2> QED BY <2>2, <2>3
<1> QED BY <1>3, <1>4

-----------------------------------------------------------------------------
(* What the directories keep.  A step that adds no attempt to any file, and no
   file that was cut off, disturbs nothing of the invariant. *)
LEMMA KeptStays ==
  ASSUME StoreInv, Running, Kept, Placed',
         UNCHANGED written, warned \subseteq warned', mixed \subseteq mixed',
         \A r \in Live \ (warned' \cup mixed') : attempt'[r] = attempt[r],
         \A r \in Live : stage[r] = "done" => stage'[r] = "done",
         \A d \in Dir, f \in Slot :
           file'[d][f] = file[d][f] \/ file'[d][f].from \notin {"run", "killed"}
  PROVE  Kept'
<1>1. KeptOnce'
  BY DEF Kept, KeptOnce
<1>2. KeptIsWritten'
  BY DEF Kept, KeptIsWritten
<1>3. TornIsOver'
  <2> SUFFICES ASSUME NEW d \in Dir, NEW f \in Slot, file'[d][f].from = "killed"
               PROVE  stage'[file'[d][f].run] = "done"
    BY DEF TornIsOver
  <2>1. file'[d][f] = file[d][f]
    OBVIOUS
  <2>2. stage[file[d][f].run] = "done"
    BY <2>1 DEF Kept, TornIsOver
  <2>3. file[d][f].run \in Live
    <3>1. file[d][f] \in Held
      BY DEF StoreInv, Placed, Slot
    <3> QED BY <3>1, <2>1, HeldFacts
  <2> QED BY <2>1, <2>2, <2>3
<1>4. ArchiveIsTheLast'
  <2>1. "archive" \in Slot
    BY DEF Slot, File
  <2> QED BY <2>1 DEF Kept, ArchiveIsTheLast
<1>5. AttemptsInPlace'
  BY FilesDiffer DEF Kept, AttemptsInPlace
<1> QED BY <1>1, <1>2, <1>3, <1>4, <1>5 DEF Kept

LEMMA GetFacts ==
  ASSUME StoreInv, NEW n \in Name, NEW f \in File
  PROVE  /\ Exists(n) => at[n] \in Dir /\ Get(n, f) = file[at[n]][f]
         /\ ~Exists(n) => Get(n, f) = None
         /\ Get(n, f) \in Held
<1>1. CASE Exists(n)
  BY <1>1 DEF Get, Exists, StoreInv, Placed
<1>2. CASE ~Exists(n)
  BY <1>2 DEF Get, Held
<1> QED BY <1>1, <1>2

LEMMA WrittenFacts ==
  ASSUME Running, NEW x \in written
  PROVE  x # None /\ x.from = "run" /\ x.run \in Run
<1>1. PICK r \in Run, k \in 1..Attempts : x = Attempt(r, k)
  BY DEF Running
<1> QED BY <1>1 DEF Attempt, None, Content

(* A run of its own holds nothing that was written later. *)
LEMMA OwnArchive ==
  ASSUME ArchiveInv, NEW r \in Live, NEW f \in Slot, r \notin warned \cup mixed,
         Get(RunID(r), f) # None, stage[r] # "done"
  PROVE  LET c == Get(RunID(r), f) IN
         /\ c = Attempt(r, c.attempt) /\ c.attempt \in 1..Attempts
         /\ c \in written /\ Exists(RunID(r)) /\ at[RunID(r)] \in Dir /\ c = file[at[RunID(r)]][f]
<1> DEFINE c == Get(RunID(r), f)
<1>1. r \in Run /\ RunID(r) \in Name /\ f \in File
  BY NamesDiffer DEF Run, Slot
<1>2. Exists(RunID(r)) /\ at[RunID(r)] \in Dir /\ c = file[at[RunID(r)]][f] /\ c \in Held
  BY <1>1, GetFacts DEF ArchiveInv
<1>3. c.run = r
  BY <1>1 DEF ArchiveInv, OwnOrMixed
<1>4. c.from # "killed"
  BY <1>2, <1>3 DEF ArchiveInv, Kept, TornIsOver
<1>5. c.from # "zip"
  <2>1. r \notin Request
    BY <1>1, StoreAssumption
  <2> QED BY <2>1, <1>2, <1>3, HeldFacts
<1>6. c.from = "run"
  BY <1>2, <1>4, <1>5, HeldFacts
<1>7. c = Attempt(r, c.attempt) /\ c.attempt \in 1..Attempts
  BY <1>2, <1>3, <1>6, HeldFacts
<1>8. c \in written
  BY <1>2, <1>6 DEF ArchiveInv, Kept, KeptIsWritten
<1> QED BY <1>2, <1>7, <1>8

(* Before an attempt is written, the run's directory has no archive. *)
LEMMA NoArchiveYet ==
  ASSUME ArchiveInv, NEW r \in Live, stage[r] = "runs", r \notin warned \cup mixed
  PROVE  Get(RunID(r), "archive") = None
<1> SUFFICES ASSUME Get(RunID(r), "archive") # None PROVE FALSE
  OBVIOUS
<1> DEFINE c == Get(RunID(r), "archive")
<1>1. "archive" \in Slot
  BY DEF Slot, File
<1>2. /\ c = Attempt(r, c.attempt) /\ c.attempt \in 1..Attempts /\ c \in written
      /\ at[RunID(r)] \in Dir /\ c = file[at[RunID(r)]]["archive"]
  BY <1>1, OwnArchive
<1>3. c.from = "run" /\ c.run = r
  BY <1>2 DEF Attempt, Content
<1>4. c.attempt = attempt[r]
  BY <1>2, <1>3 DEF ArchiveInv, Kept, ArchiveIsTheLast
<1>5. Attempt(r, c.attempt) \in written
  BY <1>2
<1> QED BY <1>2, <1>4, <1>5 DEF ArchiveInv, Running

(* Whoever else had something where the run writes was mixed up with it. *)
LEMMA OverwrittenIsExempt ==
  ASSUME ArchiveInv, NEW r \in Live, stage[r] = "runs",
         Get(RunID(r), "archive") # None
  PROVE  Get(RunID(r), "archive").run \in warned \cup mixed
<1>1. r \in warned \cup mixed
  BY NoArchiveYet
<1>2. r \in Run /\ "archive" \in Slot
  BY DEF Run, Slot, File
<1> QED BY <1>1, <1>2 DEF ArchiveInv, OwnOrMixed

LEMMA PutGets ==
  ASSUME StoreInv, NEW n \in Name, NEW f \in File, NEW c \in Held, Put(n, f, c)
  PROVE  \A m \in Name, g \in File : Get(m, g)' = IF m = n /\ g = f THEN c ELSE Get(m, g)
<1>1. PICK d \in Dir :
        /\ at' = [at EXCEPT ![n] = d] /\ file' = [file EXCEPT ![d][f] = c]
        /\ \A o \in Name \ {n} : at[o] # d
        /\ Exists(n) => d = at[n]
        /\ ~Exists(n) => file[d] = Empty
  BY PutFacts
<1>2. at'[n] = d /\ d # NoDir /\ \A m \in Name \ {n} : at'[m] = at[m]
  BY <1>1 DEF StoreInv, Placed, Dir, NoDir
<1>3. file'[d][f] = c /\ \A g \in File \ {f} : file'[d][g] = file[d][g]
  BY <1>1 DEF StoreInv, Placed
<1>4. \A e \in Dir \ {d} : file'[e] = file[e]
  BY <1>1 DEF StoreInv, Placed
<1>5. ASSUME NEW m \in Name \ {n}, NEW g \in File PROVE Get(m, g)' = Get(m, g)
  <2>1. at[m] \in Dir \cup {NoDir}
    BY DEF StoreInv, Placed
  <2> QED BY <1>1, <1>2, <1>4, <2>1 DEF Get, Exists
<1>6. ASSUME NEW g \in File \ {f} PROVE Get(n, g)' = Get(n, g)
  <2>1. Get(n, g)' = file[d][g]
    BY <1>2, <1>3 DEF Get, Exists
  <2>2. CASE Exists(n)
    BY <1>1, <2>1, <2>2 DEF Get
  <2>3. CASE ~Exists(n)
    BY <1>1, <2>1, <2>3, EmptyFacts DEF Get
  <2> QED BY <2>2, <2>3
<1>7. Get(n, f)' = c
  BY <1>2, <1>3 DEF Get, Exists
<1> QED BY <1>5, <1>6, <1>7

(* A run writes over its own archive alone, and that one is exempt. *)
LEMMA RunPuts ==
  ASSUME ArchiveInv, NEW r \in Live, stage[r] = "runs", NEW c \in Held, c.run = r,
         Put(RunID(r), "archive", c), UNCHANGED <<gone, mixed, warned>>,
         \A x \in written' : x \in written \/ x = c
  PROVE  OwnOrMixed' /\ NothingIsLost'
<1>1. "archive" \in Slot /\ "archive" \in File /\ RunID(r) \in Name /\ r \in Run
  BY NamesDiffer DEF Slot, File, Run
<1>2. \A m \in Name, g \in File : Get(m, g)' = IF m = RunID(r) /\ g = "archive" THEN c ELSE Get(m, g)
  BY <1>1, PutGets DEF ArchiveInv
<1>3. OwnOrMixed'
  <2> SUFFICES ASSUME NEW s \in Run, NEW f \in Slot, Get(RunID(s), f)' # None
               PROVE  Get(RunID(s), f)'.run = s \/ {Get(RunID(s), f)'.run, s} \subseteq mixed
    BY DEF OwnOrMixed
  <2>1. RunID(s) \in Name /\ f \in File /\ (RunID(s) = RunID(r) => s = r)
    BY NamesDiffer DEF Slot, RunID
  <2> QED BY <1>2, <2>1 DEF ArchiveInv, OwnOrMixed
<1>4. NothingIsLost'
  <2> SUFFICES ASSUME NEW x \in written', x \notin gone, x.run \notin warned \cup mixed
               PROVE  \E n \in Name, f \in File \ {"summary"} : Get(n, f)' = x
    BY DEF NothingIsLost
  <2>1. CASE x = c
    BY <1>1, <1>2, <2>1 DEF Slot
  <2>2. CASE x # c
    <3>1. x \in written
      BY <2>2
    <3>2. PICK n \in Name, f \in File \ {"summary"} : Get(n, f) = x
      BY <3>1 DEF ArchiveInv, NothingIsLost
    <3>3. ~(n = RunID(r) /\ f = "archive")
      <4> SUFFICES ASSUME n = RunID(r), f = "archive" PROVE FALSE
        OBVIOUS
      <4>1. x # None
        BY <3>1, WrittenFacts DEF ArchiveInv
      <4> QED BY <3>2, <4>1, OverwrittenIsExempt
    <3> QED BY <1>2, <3>2, <3>3
  <2> QED BY <2>1, <2>2
<1> QED BY <1>3, <1>4

LEMMA WriteArchiveStep ==
  ASSUME ArchiveInv, NEW r \in Live, WriteArchive(r)
  PROVE  Running' /\ Kept' /\ OwnOrMixed' /\ NothingIsLost'
<1> DEFINE c == Attempt(r, attempt[r])
<1>1. /\ stage[r] = "runs" /\ Put(RunID(r), "archive", c) /\ written' = written \cup {c}
      /\ stage' = [stage EXCEPT ![r] = "wrote"] /\ UNCHANGED <<gone, mixed, warned, attempt>>
  BY DEF WriteArchive
<1>2. /\ "archive" \in Slot /\ "archive" \in File /\ RunID(r) \in Name /\ r \in Run
      /\ attempt[r] \in 1..Attempts
  BY NamesDiffer DEF Slot, File, Run, ArchiveInv, Running
<1>3. c \in Held /\ c.run = r /\ c.from = "run" /\ c.attempt = attempt[r]
  BY <1>2 DEF Held, Attempt, Content
<1>4. OwnOrMixed' /\ NothingIsLost'
  BY <1>1, <1>3, RunPuts
<1>5. c \notin written
  BY <1>1, <1>2 DEF ArchiveInv, Running
<1>6. Running'
  <2>1. stage' \in [Live -> {"runs", "wrote", "keeps", "done"}]
    BY <1>1 DEF ArchiveInv, Running
  <2>2. \A s \in Live : stage'[s] = "keeps" => attempt[s] < Attempts
    BY <1>1 DEF ArchiveInv, Running
  <2>3. written' \subseteq {Attempt(s, k) : s \in Run, k \in 1..Attempts}
    BY <1>1, <1>2 DEF ArchiveInv, Running
  <2>4. ASSUME NEW s \in Live, NEW k \in 1..Attempts, Attempt(s, k) \in written'
        PROVE  k < attempt[s] \/ (k = attempt[s] /\ stage'[s] # "runs")
    <3>1. CASE Attempt(s, k) = c
      <4>1. s = r /\ k = attempt[r]
        BY <3>1 DEF Attempt, Content
      <4> QED BY <4>1, <1>1 DEF ArchiveInv, Running
    <3>2. CASE Attempt(s, k) # c
      BY <1>1, <2>4, <3>2 DEF ArchiveInv, Running
    <3> QED BY <3>1, <3>2
  <2> QED BY <1>1, <2>1, <2>2, <2>3, <2>4 DEF ArchiveInv, Running
<1>7. PICK d \in Dir : file' = [file EXCEPT ![d]["archive"] = c]
  BY <1>1, <1>2, <1>3, PutFile DEF ArchiveInv
<1>8. file'[d]["archive"] = c
  BY <1>2, <1>7 DEF ArchiveInv, StoreInv, Placed
<1>9. \A e \in Dir, f \in Slot : (e = d /\ f = "archive") \/ file'[e][f] = file[e][f]
  BY <1>7 DEF ArchiveInv, StoreInv, Placed, Slot
<1>10. \A e \in Dir, f \in Slot : file[e][f].from = "run" => file[e][f] \in written
  BY DEF ArchiveInv, Kept, KeptIsWritten
<1>11. KeptOnce'
  <2> SUFFICES ASSUME NEW e1 \in Dir, NEW e2 \in Dir, NEW f \in Slot, NEW g \in Slot,
                      file'[e1][f] = file'[e2][g], file'[e1][f].from = "run"
               PROVE  e1 = e2 /\ f = g
    BY DEF KeptOnce
  <2>1. CASE file'[e1][f] = c
    <3>1. \A e \in Dir, h \in Slot : file'[e][h] = c => e = d /\ h = "archive"
      BY <1>3, <1>5, <1>9, <1>10
    <3> QED BY <2>1, <3>1
  <2>2. CASE file'[e1][f] # c
    <3>1. file'[e1][f] = file[e1][f] /\ file'[e2][g] = file[e2][g]
      BY <1>8, <1>9, <2>2
    <3>2. file[e1][f] = file[e2][g] /\ file[e1][f].from = "run"
      BY <3>1
    <3>3. KeptOnce
      BY DEF ArchiveInv, Kept
    <3> QED BY <3>2, <3>3 DEF KeptOnce
  <2> QED BY <2>1, <2>2
<1>12. KeptIsWritten'
  BY <1>1, <1>8, <1>9, <1>10 DEF KeptIsWritten
<1>13. TornIsOver'
  <2> SUFFICES ASSUME NEW e \in Dir, NEW f \in Slot, file'[e][f].from = "killed"
               PROVE  stage'[file'[e][f].run] = "done"
    BY DEF TornIsOver
  <2>1. file'[e][f] = file[e][f]
    BY <1>3, <1>8, <1>9
  <2>2. stage[file[e][f].run] = "done"
    BY <2>1 DEF ArchiveInv, Kept, TornIsOver
  <2>3. file[e][f].run \in Live
    <3>1. file[e][f] \in Held
      BY DEF ArchiveInv, StoreInv, Placed, Slot
    <3> QED BY <3>1, <2>1, HeldFacts
  <2> QED BY <1>1, <2>1, <2>2, <2>3 DEF ArchiveInv, Running
<1>14. ArchiveIsTheLast'
  BY <1>1, <1>2, <1>3, <1>8, <1>9 DEF ArchiveInv, Kept, ArchiveIsTheLast
<1>15. AttemptsInPlace'
  BY <1>1, <1>9, FilesDiffer DEF ArchiveInv, Kept, AttemptsInPlace
<1> QED BY <1>4, <1>6, <1>11, <1>12, <1>13, <1>14, <1>15 DEF Kept

LEMMA KilledStep ==
  ASSUME ArchiveInv, Placed', NEW r \in Live, Killed(r)
  PROVE  Running' /\ Kept' /\ OwnOrMixed' /\ NothingIsLost'
<1> DEFINE c == Torn(r, attempt[r])
<1>1. /\ stage[r] # "done" /\ stage' = [stage EXCEPT ![r] = "done"]
      /\ UNCHANGED <<gone, mixed, attempt, written, warned>>
  BY DEF Killed
<1>2. Running'
  BY <1>1 DEF ArchiveInv, Running
<1>3. CASE UNCHANGED <<at, file>>
  <2>1. Kept'
    BY <1>1, <1>3, KeptStays DEF ArchiveInv, Running
  <2> QED BY <1>1, <1>2, <1>3, <2>1 DEF ArchiveInv, OwnOrMixed, NothingIsLost, Get, Exists
<1>4. CASE stage[r] = "runs" /\ Put(RunID(r), "archive", c)
  <2>1. /\ "archive" \in Slot /\ "archive" \in File /\ RunID(r) \in Name
        /\ attempt[r] \in 1..Attempts
    BY NamesDiffer DEF Slot, File, Run, ArchiveInv, Running
  <2>2. c \in Held /\ c.run = r /\ c.from = "killed"
    BY <2>1 DEF Held, Torn, Content
  <2>3. OwnOrMixed' /\ NothingIsLost'
    BY <1>1, <1>4, <2>2, RunPuts
  <2>4. PICK d \in Dir : file' = [file EXCEPT ![d]["archive"] = c]
    BY <1>4, <2>1, <2>2, PutFile DEF ArchiveInv
  <2>5. file'[d]["archive"] = c
    BY <2>1, <2>4 DEF ArchiveInv, StoreInv, Placed
  <2>6. \A e \in Dir, f \in Slot : (e = d /\ f = "archive") \/ file'[e][f] = file[e][f]
    BY <2>4 DEF ArchiveInv, StoreInv, Placed, Slot
  <2>7. \A e \in Dir, f \in Slot : file'[e][f].from = "run" => file'[e][f] = file[e][f]
    BY <2>2, <2>5, <2>6
  <2>8. KeptOnce' /\ KeptIsWritten'
    BY <1>1, <2>7 DEF ArchiveInv, Kept, KeptOnce, KeptIsWritten
  <2>9. TornIsOver'
    <3> SUFFICES ASSUME NEW e \in Dir, NEW f \in Slot, file'[e][f].from = "killed"
                 PROVE  stage'[file'[e][f].run] = "done"
      BY DEF TornIsOver
    <3>1. CASE file'[e][f] = c
      BY <1>1, <2>2, <3>1 DEF ArchiveInv, Running
    <3>2. CASE file'[e][f] # c
      <4>1. file'[e][f] = file[e][f]
        BY <2>5, <2>6, <3>2
      <4>2. stage[file[e][f].run] = "done"
        BY <4>1 DEF ArchiveInv, Kept, TornIsOver
      <4> QED BY <1>1, <4>1, <4>2 DEF ArchiveInv, Running
    <3> QED BY <3>1, <3>2
  <2>10. ArchiveIsTheLast'
    BY <1>1, <2>1, <2>7 DEF ArchiveInv, Kept, ArchiveIsTheLast
  <2>11. AttemptsInPlace'
    BY <1>1, <2>7, FilesDiffer DEF ArchiveInv, Kept, AttemptsInPlace
  <2> QED BY <1>2, <2>3, <2>8, <2>9, <2>10, <2>11 DEF Kept
<1> QED BY <1>3, <1>4 DEF Killed

LEMMA WriteSummaryStep ==
  ASSUME ArchiveInv, Placed', NEW r \in Live, WriteSummary(r)
  PROVE  Running' /\ Kept' /\ OwnOrMixed' /\ NothingIsLost'
<1> DEFINE c == Attempt(r, attempt[r])
<1>1. /\ stage[r] = "wrote" /\ Put(RunID(r), "summary", c)
      /\ UNCHANGED <<gone, mixed, attempt, written, warned>>
  BY DEF WriteSummary
<1>2. PICK next \in {"done", "keeps"} :
        /\ next = "keeps" => attempt[r] < Attempts
        /\ stage' = [stage EXCEPT ![r] = next]
  BY DEF WriteSummary
<1>3. Running'
  BY <1>1, <1>2 DEF ArchiveInv, Running
<1>4. "summary" \in File /\ RunID(r) \in Name /\ c \in Held
  <2>1. attempt[r] \in 1..Attempts /\ r \in Run
    BY DEF ArchiveInv, Running, Run
  <2> QED BY <2>1, NamesDiffer, FilesDiffer DEF Held
<1>5. PICK d \in Dir : file' = [file EXCEPT ![d]["summary"] = c]
  BY <1>1, <1>4, PutFile DEF ArchiveInv
<1>6. \A e \in Dir, f \in Slot : file'[e][f] = file[e][f]
  BY <1>5 DEF ArchiveInv, StoreInv, Placed, Slot
<1>7. Kept'
  BY <1>1, <1>2, <1>6, KeptStays DEF ArchiveInv, Running
<1>8. \A m \in Name, g \in Slot : Get(m, g)' = Get(m, g)
  BY <1>1, <1>4, PutGets DEF ArchiveInv, Slot
<1>9. OwnOrMixed'
  BY <1>1, <1>8, NamesDiffer DEF ArchiveInv, OwnOrMixed
<1>10. NothingIsLost'
  BY <1>1, <1>8 DEF ArchiveInv, NothingIsLost, Slot
<1> QED BY <1>3, <1>7, <1>9, <1>10

(* An attempt set aside is of the run, and takes the place of none. *)
LEMMA KeepStep ==
  ASSUME ArchiveInv, Placed', NEW r \in Live, Keep(r)
  PROVE  Running' /\ Kept' /\ OwnOrMixed' /\ NothingIsLost'
<1> DEFINE n == RunID(r)
           d == at[n]
           k == attempt[r]
           g == AttemptFile(k)
           c == file[d]["archive"]
<1>1. /\ stage[r] = "keeps" /\ UNCHANGED <<at, gone, mixed, written>>
      /\ \/ attempt' = [attempt EXCEPT ![r] = @ + 1] /\ stage' = [stage EXCEPT ![r] = "runs"]
         \/ attempt' = attempt /\ stage' = [stage EXCEPT ![r] = "done"]
  BY DEF Keep
<1>2. /\ k \in 1..Attempts /\ k < Attempts /\ r \in Run /\ n \in Name
      /\ g \in Slot /\ "archive" \in Slot /\ g # "archive"
  BY <1>1, NamesDiffer, FilesDiffer DEF ArchiveInv, Running, Run, Slot, File
<1>3. /\ \A s \in Live \ {r} : attempt'[s] = attempt[s] /\ stage'[s] = stage[s]
      /\ stage'[r] \in {"runs", "done"}
      /\ attempt'[r] = k \/ attempt'[r] = k + 1
      /\ stage'[r] = "runs" => attempt'[r] = k + 1
  BY <1>1 DEF ArchiveInv, Running
<1>4. Running'
  <2>1. stage' \in [Live -> {"runs", "wrote", "keeps", "done"}] /\ attempt' \in [Live -> 1..Attempts]
    <3>1. Attempts \in Nat /\ k + 1 \in 1..Attempts
      BY <1>2, StoreAssumption
    <3> QED BY <1>1, <3>1 DEF ArchiveInv, Running
  <2>2. ASSUME NEW s \in Live, NEW j \in 1..Attempts, Attempt(s, j) \in written
        PROVE  j < attempt'[s] \/ (j = attempt'[s] /\ stage'[s] # "runs")
    <3>1. j < attempt[s] \/ (j = attempt[s] /\ stage[s] # "runs")
      BY <2>2 DEF ArchiveInv, Running
    <3>2. attempt[s] \in Nat /\ j \in Nat
      BY StoreAssumption DEF ArchiveInv, Running
    <3> QED BY <1>3, <3>1, <3>2
  <2> QED BY <1>1, <1>3, <2>1, <2>2 DEF ArchiveInv, Running
<1>5. CASE ~IsRunDir(n)
  <2>1. file' = file /\ warned' = warned \cup {r}
    BY <1>5 DEF Keep
  <2>2. Kept'
    BY <1>1, <1>3, <2>1, KeptStays DEF ArchiveInv
  <2> QED BY <1>1, <1>4, <2>1, <2>2 DEF ArchiveInv, OwnOrMixed, NothingIsLost, Get, Exists
<1>6. CASE IsRunDir(n)
  <2>1. warned' = warned /\ file' = [file EXCEPT ![d]["archive"] = None, ![d][g] = c]
    BY <1>6 DEF Keep
  <2>2. d \in Dir /\ Exists(n) /\ Get(n, "archive") = c /\ c # None /\ c \in Held
    BY <1>2, <1>6, FilesDiffer, GetFacts DEF IsRunDir, ArchiveInv
  <2>3. file'[d]["archive"] = None /\ file'[d][g] = c
    BY <1>2, <2>1, <2>2 DEF ArchiveInv, StoreInv, Placed, Slot
  <2>4. \A e \in Dir, f \in Slot : (e = d /\ f \in {"archive", g}) \/ file'[e][f] = file[e][f]
    BY <2>1, <2>2 DEF ArchiveInv, StoreInv, Placed, Slot
  <2>5. None.from = "nothing"
    BY DEF None, Content
  <2>6. c.run = r \/ {c.run, r} \subseteq mixed
    BY <1>2, <2>2 DEF ArchiveInv, OwnOrMixed
  <2>7. r \notin warned \cup mixed => c = Attempt(r, k) /\ c.from = "run"
    <3> SUFFICES ASSUME r \notin warned \cup mixed PROVE c = Attempt(r, k) /\ c.from = "run"
      OBVIOUS
    <3>1. c = Attempt(r, c.attempt)
      BY <1>1, <1>2, <2>2, OwnArchive
    <3>2. c.from = "run" /\ c.run = r
      BY <3>1 DEF Attempt, Content
    <3>3. c.attempt = k
      BY <2>2, <3>2 DEF ArchiveInv, Kept, ArchiveIsTheLast
    <3> QED BY <3>1, <3>2, <3>3
  <2>8. KeptOnce'
    <3> SUFFICES ASSUME NEW e1 \in Dir, NEW e2 \in Dir, NEW f \in Slot, NEW h \in Slot,
                        file'[e1][f] = file'[e2][h], file'[e1][f].from = "run"
                 PROVE  e1 = e2 /\ f = h
      BY DEF KeptOnce
    <3> DEFINE Was(e, x) == IF e = d /\ x = g THEN "archive" ELSE x
    <3>1. \A e \in Dir, x \in Slot : file'[e][x].from = "run" =>
            file'[e][x] = file[e][Was(e, x)] /\ Was(e, x) \in Slot /\ ~(e = d /\ x = "archive")
      BY <1>2, <2>3, <2>4, <2>5
    <3>2. e1 = e2 /\ Was(e1, f) = Was(e2, h)
      BY <3>1 DEF ArchiveInv, Kept, KeptOnce
    <3> QED BY <3>1, <3>2
  <2>9. KeptIsWritten'
    <3>1. \A e \in Dir, x \in Slot : file'[e][x].from = "run" => file'[e][x] \in written
      BY <1>2, <2>2, <2>3, <2>4, <2>5 DEF ArchiveInv, Kept, KeptIsWritten
    <3> QED BY <1>1, <3>1 DEF KeptIsWritten
  <2>10. TornIsOver'
    <3> SUFFICES ASSUME NEW e \in Dir, NEW f \in Slot, file'[e][f].from = "killed"
                 PROVE  stage'[file'[e][f].run] = "done"
      BY DEF TornIsOver
    <3>1. PICK x \in Slot : file'[e][f] = file[e][x]
      BY <1>2, <2>3, <2>4, <2>5
    <3>2. stage[file[e][x].run] = "done" /\ file[e][x].from = "killed"
      BY <3>1 DEF ArchiveInv, Kept, TornIsOver
    <3>3. file[e][x].run \in Live
      <4>1. file[e][x] \in Held
        BY DEF ArchiveInv, StoreInv, Placed, Slot
      <4> QED BY <4>1, <3>2, HeldFacts
    <3> QED BY <1>1, <1>3, <3>1, <3>2, <3>3
  <2>11. ArchiveIsTheLast'
    <3> SUFFICES ASSUME NEW e \in Dir, file'[e]["archive"].from = "run",
                        file'[e]["archive"].run \in Live \ (warned \cup mixed)
                 PROVE  file'[e]["archive"].attempt = attempt'[file'[e]["archive"].run]
      BY <1>1, <2>1 DEF ArchiveIsTheLast
    <3> DEFINE x == file[e]["archive"]
    <3>1. e # d /\ file'[e]["archive"] = x
      BY <1>2, <2>3, <2>4, <2>5
    <3>2. x.attempt = attempt[x.run] /\ x.from = "run"
      BY <3>1 DEF ArchiveInv, Kept, ArchiveIsTheLast
    <3>3. x.run # r
      <4> SUFFICES ASSUME x.run = r PROVE FALSE
        OBVIOUS
      <4>1. x \in Held
        BY FilesDiffer DEF ArchiveInv, StoreInv, Placed
      <4>2. x = Attempt(r, k)
        BY <3>2, <4>1, HeldFacts
      <4>3. c = x /\ c.from = "run"
        BY <2>7, <3>1, <4>2
      <4> QED BY <1>2, <2>2, <3>1, <4>3 DEF ArchiveInv, Kept, KeptOnce
    <3> QED BY <1>3, <3>1, <3>2, <3>3
  <2>12. AttemptsInPlace'
    <3> SUFFICES ASSUME NEW e \in Dir, NEW j \in 1..Attempts, file'[e][AttemptFile(j)].from = "run",
                        file'[e][AttemptFile(j)].run \notin warned \cup mixed
                 PROVE  file'[e][AttemptFile(j)].attempt = j
      BY <1>1, <2>1 DEF AttemptsInPlace
    <3>1. CASE e = d /\ AttemptFile(j) = g
      <4>1. j = k
        BY <1>2, <3>1, FilesDiffer
      <4>2. file'[e][AttemptFile(j)] = c
        BY <2>3, <3>1
      <4>3. c = Attempt(r, k)
        BY <2>6, <2>7, <4>2
      <4> QED BY <4>1, <4>2, <4>3 DEF Attempt, Content
    <3>2. CASE ~(e = d /\ AttemptFile(j) = g)
      <4>1. file'[e][AttemptFile(j)] = file[e][AttemptFile(j)]
        BY <2>4, <3>2, FilesDiffer
      <4> QED BY <4>1 DEF ArchiveInv, Kept, AttemptsInPlace
    <3> QED BY <3>1, <3>2
  <2>13. ASSUME NEW m \in Name, NEW f \in Slot
         PROVE  Get(m, f)' = IF m # n THEN Get(m, f)
                             ELSE IF f = "archive" THEN None ELSE IF f = g THEN c ELSE Get(m, f)
    <3>1. CASE m = n
      <4>1. Get(m, f)' = file'[d][f] /\ Get(m, f) = file[d][f]
        BY <1>1, <2>2, <3>1 DEF Get, Exists
      <4> QED BY <2>2, <2>3, <2>4, <3>1, <4>1
    <3>2. CASE m # n
      <4>1. CASE Exists(m)
        <5>1. at[m] \in Dir /\ at[m] # d
          BY <1>2, <2>2, <3>2, <4>1 DEF Exists, ArchiveInv, StoreInv, Placed
        <5>2. file'[at[m]][f] = file[at[m]][f]
          BY <2>4, <5>1
        <5> QED BY <1>1, <3>2, <4>1, <5>2 DEF Get, Exists
      <4>2. CASE ~Exists(m)
        BY <1>1, <3>2, <4>2 DEF Get, Exists
      <4> QED BY <4>1, <4>2
    <3> QED BY <3>1, <3>2
  <2>14. OwnOrMixed'
    <3> SUFFICES ASSUME NEW s \in Run, NEW f \in Slot, Get(RunID(s), f)' # None
                 PROVE  Get(RunID(s), f)'.run = s \/ {Get(RunID(s), f)'.run, s} \subseteq mixed
      BY <1>1 DEF OwnOrMixed
    <3>1. RunID(s) \in Name /\ (RunID(s) = n => s = r)
      BY NamesDiffer DEF RunID
    <3> QED BY <2>6, <2>13, <3>1 DEF ArchiveInv, OwnOrMixed
  <2>15. NothingIsLost'
    <3> SUFFICES ASSUME NEW x \in written, x \notin gone, x.run \notin warned \cup mixed
                 PROVE  \E m \in Name, f \in Slot : Get(m, f)' = x
      BY <1>1, <2>1 DEF NothingIsLost, Slot
    <3>1. PICK m \in Name, f \in Slot : Get(m, f) = x
      BY DEF ArchiveInv, NothingIsLost, Slot
    <3>2. x # None /\ x.from = "run"
      BY WrittenFacts DEF ArchiveInv
    <3>3. CASE m = n /\ f = "archive"
      <4>1. PICK h \in Slot : h = g
        BY <1>2
      <4>2. Get(m, h)' = c
        BY <1>2, <2>13, <3>3, <4>1
      <4> QED BY <2>2, <3>1, <3>3, <4>2
    <3>4. CASE m = n /\ f = g
      <4>1. x = file[d][g] /\ Get(n, g) = x
        BY <2>2, <3>1, <3>4 DEF Get
      <4>2. x.run = r
        BY <1>2, <3>2, <4>1 DEF ArchiveInv, OwnOrMixed
      <4>3. x.attempt = k
        BY <1>2, <2>2, <3>2, <4>1 DEF ArchiveInv, Kept, AttemptsInPlace
      <4>4. x = Attempt(r, k)
        <5>1. x \in Held
          BY <1>2, <2>2, <4>1 DEF ArchiveInv, StoreInv, Placed, Slot
        <5> QED BY <3>2, <4>2, <4>3, <5>1, HeldFacts
      <4>5. c = x
        BY <2>7, <4>2, <4>4
      <4> QED BY <1>2, <2>2, <3>2, <4>1, <4>5 DEF ArchiveInv, Kept, KeptOnce
    <3>5. CASE ~(m = n /\ f \in {"archive", g})
      BY <2>13, <3>1, <3>5
    <3> QED BY <3>3, <3>4, <3>5
  <2> QED BY <1>4, <2>8, <2>9, <2>10, <2>11, <2>12, <2>14, <2>15 DEF Kept
<1> QED BY <1>5, <1>6

(* The requests. *)
LEMMA RenameKeeps ==
  ASSUME ArchiveInv, Placed', NEW q \in Request, Rename(q)
  PROVE  Running' /\ Kept' /\ OwnOrMixed' /\ NothingIsLost'
<1> DEFINE a == request[q]
           d == at[a.from]
<1>1. a.from \in Name /\ a.to \in Name /\ a.from # a.to
  BY DEF Rename, ArchiveInv, StoreInv, Asking, Asked
<1>2. file' = file /\ UNCHANGED <<gone, runVars>>
  BY DEF Rename, Goes
<1>3. mixed \subseteq mixed'
  BY DEF Rename
<1>4. Running'
  BY <1>2 DEF ArchiveInv, Running, runVars
<1>5. Kept'
  BY <1>2, <1>3, KeptStays DEF ArchiveInv, runVars
<1>6. CASE at' = at /\ mixed' = mixed
  BY <1>2, <1>4, <1>5, <1>6 DEF ArchiveInv, OwnOrMixed, NothingIsLost, Get, Exists, runVars
<1>7. CASE ~(at' = at /\ mixed' = mixed)
  <2>1. /\ Exists(a.from) /\ (Exists(a.to) => file[at[a.to]] = Empty)
        /\ at' = [at EXCEPT ![a.from] = NoDir, ![a.to] = d]
        /\ mixed' = IF a.to[1] = "auto" /\ ~Inside(d) \subseteq {a.to[2]}
                    THEN mixed \cup Inside(d) \cup {a.to[2]} ELSE mixed
    BY <1>7 DEF Rename
  <2>2. at'[a.from] = NoDir /\ at'[a.to] = d /\ \A m \in Name \ {a.from, a.to} : at'[m] = at[m]
    BY <1>1, <2>1 DEF ArchiveInv, StoreInv, Placed
  <2>3. d \in Dir /\ d # NoDir
    BY <1>1, <2>1 DEF Exists, ArchiveInv, StoreInv, Placed
  <2>4. ASSUME NEW f \in File, NEW m \in Name, Get(m, f)' # None
        PROVE  \/ m = a.to /\ Get(m, f)' = file[d][f]
               \/ m # a.to /\ Get(m, f)' = Get(m, f)
    BY <1>2, <2>2, <2>3, <2>4 DEF Get, Exists
  <2>5. OwnOrMixed'
    <3> SUFFICES ASSUME NEW s \in Run, NEW f \in Slot, Get(RunID(s), f)' # None
                 PROVE  Get(RunID(s), f)'.run = s \/ {Get(RunID(s), f)'.run, s} \subseteq mixed'
      BY DEF OwnOrMixed
    <3>1. RunID(s) \in Name /\ RunID(s)[1] = "auto" /\ RunID(s)[2] = s /\ f \in File
      BY NamesDiffer DEF Slot
    <3>2. CASE RunID(s) # a.to
      BY <1>3, <2>4, <3>1, <3>2 DEF ArchiveInv, OwnOrMixed
    <3>3. CASE RunID(s) = a.to
      <4>1. Get(RunID(s), f)' = file[d][f] /\ file[d][f] # None
        BY <2>4, <3>1, <3>3
      <4>2. file[d][f].run \in Inside(d)
        BY <4>1 DEF Inside, Slot
      <4> QED BY <2>1, <3>1, <3>3, <4>1, <4>2
    <3> QED BY <3>2, <3>3
  <2>6. NothingIsLost'
    <3> SUFFICES ASSUME NEW x \in written, x \notin gone, x.run \notin warned \cup mixed'
                 PROVE  \E m \in Name, f \in File \ {"summary"} : Get(m, f)' = x
      BY <1>2 DEF NothingIsLost, runVars
    <3>1. PICK m \in Name, f \in File \ {"summary"} : Get(m, f) = x
      BY <1>3 DEF ArchiveInv, NothingIsLost
    <3>2. x # None
      BY WrittenFacts DEF ArchiveInv
    <3>3. Exists(m) /\ at[m] \in Dir /\ x = file[at[m]][f]
      BY <3>1, <3>2, GetFacts DEF ArchiveInv
    <3>4. m # a.to
      BY <2>1, <3>2, <3>3, EmptyFacts
    <3>5. CASE m = a.from
      <4>1. PICK t \in Name : t = a.to
        BY <1>1
      <4>2. at'[t] = d /\ file'[d][f] = x
        BY <1>2, <2>2, <3>3, <3>5, <4>1
      <4>3. Get(t, f)' = x
        BY <2>3, <4>2 DEF Get, Exists
      <4> QED BY <4>3
    <3>6. CASE m # a.from
      BY <1>2, <2>2, <3>3, <3>4, <3>6 DEF Get, Exists
    <3> QED BY <3>5, <3>6
  <2> QED BY <1>4, <1>5, <2>5, <2>6
<1> QED BY <1>6, <1>7

(* A step after which every name leads to the attempts it led to. *)
LEMMA SameGets ==
  ASSUME ArchiveInv, Placed', UNCHANGED <<gone, mixed, runVars>>,
         \A m \in Name, f \in Slot : Get(m, f)' = Get(m, f),
         \A d \in Dir, f \in Slot : file'[d][f] = file[d][f]
  PROVE  Running' /\ Kept' /\ OwnOrMixed' /\ NothingIsLost'
<1>1. Running'
  BY DEF ArchiveInv, Running, runVars
<1>2. Kept'
  BY KeptStays DEF ArchiveInv, runVars
<1>3. OwnOrMixed'
  BY NamesDiffer DEF ArchiveInv, OwnOrMixed
<1>4. NothingIsLost'
  BY DEF ArchiveInv, NothingIsLost, Slot, runVars
<1> QED BY <1>1, <1>2, <1>3, <1>4

LEMMA UnmovedKeeps ==
  ASSUME ArchiveInv, UNCHANGED <<at, file, gone, mixed, runVars>>
  PROVE  Running' /\ Kept' /\ OwnOrMixed' /\ NothingIsLost'
<1>1. Placed'
  BY NothingMoves DEF ArchiveInv
<1>2. \A m \in Name, f \in Slot : Get(m, f)' = Get(m, f)
  BY DEF Get, Exists
<1> QED BY <1>1, <1>2, SameGets

LEMMA BackfillKeeps ==
  ASSUME ArchiveInv, Placed', NEW q \in Request, Backfill(q)
  PROVE  Running' /\ Kept' /\ OwnOrMixed' /\ NothingIsLost'
<1> DEFINE a == request[q]
<1>1. a.to \in Name /\ a.what \in Held /\ Put(a.to, "summary", a.what) /\ UNCHANGED <<gone, mixed, runVars>>
  BY DEF Backfill, Goes, ArchiveInv, StoreInv, Asking, Asked
<1>2. \A m \in Name, f \in Slot : Get(m, f)' = Get(m, f)
  BY <1>1, FilesDiffer, PutGets DEF ArchiveInv, Slot
<1>3. \E d \in Dir : file' = [file EXCEPT ![d]["summary"] = a.what]
  <2>1. PICK n \in Name, c \in Held : n = a.to /\ c = a.what
    BY <1>1
  <2>2. Put(n, "summary", c)
    BY <1>1, <2>1
  <2>3. \E d \in Dir : file' = [file EXCEPT ![d]["summary"] = c]
    BY <2>2, FilesDiffer, PutFile DEF ArchiveInv
  <2> QED BY <2>1, <2>3
<1>4. \A e \in Dir, f \in Slot : file'[e][f] = file[e][f]
  <2>1. PICK d \in Dir : file' = [file EXCEPT ![d]["summary"] = a.what]
    BY <1>3
  <2> QED BY <2>1 DEF ArchiveInv, StoreInv, Placed, Slot
<1> QED BY <1>1, <1>2, <1>4, SameGets

LEMMA MkdirKeeps ==
  ASSUME ArchiveInv, Placed', NEW q \in Request, ImportMkdir(q)
  PROVE  Running' /\ Kept' /\ OwnOrMixed' /\ NothingIsLost'
<1> DEFINE n == request[q].to
<1>1. n \in Name
  BY NamesDiffer DEF ImportMkdir, ArchiveInv, StoreInv, Asking, Asked
<1>2. file' = file /\ UNCHANGED <<gone, mixed, runVars>>
  BY DEF ImportMkdir, Goes
<1>3. ASSUME NEW m \in Name, NEW f \in Slot PROVE Get(m, f)' = Get(m, f)
  <2>1. CASE m = n /\ ~Exists(n)
    <3>1. Fresh \in Dir /\ \A o \in Name : at[o] # Fresh
      BY <1>1, <2>1, FreshIsUnused
    <3>2. file[Fresh] = Empty /\ Fresh # NoDir
      BY <3>1 DEF ArchiveInv, StoreInv, Placed, Dir, NoDir
    <3>3. at'[m] = Fresh
      BY <1>1, <2>1 DEF ImportMkdir, ArchiveInv, StoreInv, Placed
    <3> QED BY <1>2, <2>1, <3>2, <3>3, EmptyFacts DEF Get, Exists, Slot
  <2>2. CASE ~(m = n /\ ~Exists(n))
    <3>1. at'[m] = at[m]
      BY <1>1, <2>2 DEF ImportMkdir, ArchiveInv, StoreInv, Placed
    <3> QED BY <1>2, <3>1 DEF Get, Exists
  <2> QED BY <2>1, <2>2
<1> QED BY <1>2, <1>3, SameGets

LEMMA RemoveDirKeeps ==
  ASSUME ArchiveInv, Placed', NEW q \in Request, RemoveDir(q)
  PROVE  Running' /\ Kept' /\ OwnOrMixed' /\ NothingIsLost'
<1> DEFINE n == request[q].to
<1>1. n \in Name
  BY DEF RemoveDir, ArchiveInv, StoreInv, Asking, Asked
<1>2. file' = file /\ UNCHANGED <<gone, mixed, runVars>>
  BY DEF RemoveDir, Goes
<1>3. ASSUME NEW m \in Name, NEW f \in Slot PROVE Get(m, f)' = Get(m, f)
  <2>1. CASE at'[m] = at[m]
    BY <1>2, <2>1 DEF Get, Exists
  <2>2. CASE at'[m] # at[m]
    <3>1. Exists(n) /\ file[at[n]] = Empty /\ m = n /\ at'[m] = NoDir
      BY <1>1, <2>2 DEF RemoveDir, ArchiveInv, StoreInv, Placed
    <3> QED BY <3>1, EmptyFacts DEF Get, Exists, Slot
  <2> QED BY <2>1, <2>2
<1> QED BY <1>2, <1>3, SameGets

LEMMA ExtractKeeps ==
  ASSUME ArchiveInv, Placed', NEW q \in Request, NEW f \in File, Extract(q, f)
  PROVE  Running' /\ Kept' /\ OwnOrMixed' /\ NothingIsLost'
<1> DEFINE a == request[q]
<1>1. /\ a.do = f /\ f \in {"archive", "attempt-01"} /\ Put(a.to, f, a.what)
      /\ gone' = gone \cup {Get(a.to, f)} /\ UNCHANGED <<mixed, runVars>>
  BY DEF Extract, Goes
<1>2. a.to \in SavedName /\ a.to \in Name /\ a.what = Zip(q)
  BY <1>1, NamesDiffer DEF ArchiveInv, StoreInv, Asking, Asked
<1>3. a.what \in Held /\ a.what.from = "zip"
  BY <1>2 DEF Held, Zip, Content
<1>4. \A m \in Name, g \in File : Get(m, g)' = IF m = a.to /\ g = f THEN a.what ELSE Get(m, g)
  BY <1>1, <1>2, <1>3, PutGets DEF ArchiveInv
<1>5. \E d \in Dir : file' = [file EXCEPT ![d][f] = a.what]
  <2>1. PICK n \in Name, c \in Held : n = a.to /\ c = a.what
    BY <1>2, <1>3
  <2>2. Put(n, f, c)
    BY <1>1, <2>1
  <2>3. \E d \in Dir : file' = [file EXCEPT ![d][f] = c]
    BY <2>2, PutFile DEF ArchiveInv
  <2> QED BY <2>1, <2>3
<1>6. \A e \in Dir, g \in Slot : file'[e][g] = file[e][g] \/ file'[e][g].from \notin {"run", "killed"}
  <2>1. \A e \in Dir, g \in Slot : file'[e][g] = file[e][g] \/ file'[e][g] = a.what
    BY <1>5 DEF ArchiveInv, StoreInv, Placed, Slot
  <2> QED BY <1>3, <2>1
<1>7. Running'
  BY <1>1 DEF ArchiveInv, Running, runVars
<1>8. Kept'
  BY <1>1, <1>6, KeptStays DEF ArchiveInv, runVars
<1>9. OwnOrMixed'
  <2> SUFFICES ASSUME NEW s \in Run, NEW g \in Slot, Get(RunID(s), g)' # None
               PROVE  Get(RunID(s), g)'.run = s \/ {Get(RunID(s), g)'.run, s} \subseteq mixed
    BY <1>1 DEF OwnOrMixed
  <2>1. RunID(s) \in Name /\ RunID(s) # a.to /\ g \in File
    BY <1>2, NamesDiffer DEF Slot
  <2> QED BY <1>4, <2>1 DEF ArchiveInv, OwnOrMixed
<1>10. NothingIsLost'
  <2> SUFFICES ASSUME NEW x \in written, x \notin gone', x.run \notin warned \cup mixed
               PROVE  \E m \in Name, g \in File \ {"summary"} : Get(m, g)' = x
    BY <1>1 DEF NothingIsLost, runVars
  <2>1. PICK m \in Name, g \in File \ {"summary"} : Get(m, g) = x
    BY <1>1 DEF ArchiveInv, NothingIsLost
  <2> QED BY <1>1, <1>4, <2>1
<1> QED BY <1>7, <1>8, <1>9, <1>10

LEMMA RemoveFileKeeps ==
  ASSUME ArchiveInv, Placed', NEW q \in Request, NEW f \in File, RemoveFile(q, f)
  PROVE  Running' /\ Kept' /\ OwnOrMixed' /\ NothingIsLost'
<1> DEFINE d == request[q].dir
<1>1. /\ at' = at /\ file' = [file EXCEPT ![d][f] = None] /\ gone' = gone \cup {file[d][f]}
      /\ UNCHANGED <<mixed, runVars>>
  BY DEF RemoveFile
<1>2. d \in Dir
  BY DEF RemoveFile, ArchiveInv, StoreInv, Asking, Asked
<1>3. \A e \in Dir, g \in File : file'[e][g] = IF e = d /\ g = f THEN None ELSE file[e][g]
  BY <1>1, <1>2 DEF ArchiveInv, StoreInv, Placed
<1>4. Running'
  BY <1>1 DEF ArchiveInv, Running, runVars
<1>5. Kept'
  <2>1. None.from = "nothing"
    BY DEF None, Content
  <2>2. \A e \in Dir, g \in Slot : file'[e][g] = file[e][g] \/ file'[e][g].from \notin {"run", "killed"}
    BY <1>3, <2>1 DEF Slot
  <2> QED BY <1>1, <2>2, KeptStays DEF ArchiveInv, runVars
<1>6. ASSUME NEW m \in Name, NEW g \in File
      PROVE  Get(m, g)' = Get(m, g) \/ (Get(m, g)' = None /\ Get(m, g) = file[d][f])
  <2>1. CASE Exists(m)
    <3>1. at[m] \in Dir
      BY <2>1 DEF Exists, ArchiveInv, StoreInv, Placed
    <3> QED BY <1>1, <1>3, <2>1, <3>1 DEF Get, Exists
  <2>2. CASE ~Exists(m)
    BY <1>1, <2>2 DEF Get, Exists
  <2> QED BY <2>1, <2>2
<1>7. OwnOrMixed'
  <2> SUFFICES ASSUME NEW s \in Run, NEW g \in Slot, Get(RunID(s), g)' # None
               PROVE  Get(RunID(s), g)'.run = s \/ {Get(RunID(s), g)'.run, s} \subseteq mixed
    BY <1>1 DEF OwnOrMixed
  <2>1. RunID(s) \in Name /\ g \in File
    BY NamesDiffer DEF Slot
  <2> QED BY <1>6, <2>1 DEF ArchiveInv, OwnOrMixed
<1>8. NothingIsLost'
  <2> SUFFICES ASSUME NEW x \in written, x \notin gone', x.run \notin warned \cup mixed
               PROVE  \E m \in Name, g \in File \ {"summary"} : Get(m, g)' = x
    BY <1>1 DEF NothingIsLost, runVars
  <2>1. PICK m \in Name, g \in File \ {"summary"} : Get(m, g) = x
    BY <1>1 DEF ArchiveInv, NothingIsLost
  <2>2. Get(m, g)' = x
    BY <1>1, <1>6, <2>1
  <2> QED BY <2>1, <2>2
<1> QED BY <1>4, <1>5, <1>7, <1>8

-----------------------------------------------------------------------------
(* Before anything happens, run-ID leads to the archive of each old run. *)
LEMMA StoreInit == Init => ArchiveInv
<1> SUFFICES ASSUME Init PROVE ArchiveInv
  OBVIOUS
<1>1. PICK first \in {f \in [Past -> 1..Cardinality(Past)] : \A p, r \in Past : p # r => f[p] # f[r]} :
        /\ at = [n \in Name |-> IF n[1] = "auto" /\ n[2] \in Past THEN first[n[2]] ELSE NoDir]
        /\ file = [d \in Dir |->
                     [Empty EXCEPT !["archive"] =
                        IF \E p \in Past : first[p] = d THEN Attempt(CHOOSE p \in Past : first[p] = d, 1) ELSE None]]
  BY DEF Init
<1>2. /\ stage = [r \in Live |-> "runs"] /\ attempt = [r \in Live |-> 1]
      /\ request = [q \in Request |-> Nothing("idle")]
      /\ written = {Attempt(p, 1) : p \in Past}
  BY DEF Init
<1>3. 1 \in 1..Attempts /\ Attempts \in Nat /\ Past \subseteq Run /\ Live \cap Past = {}
  BY StoreAssumption DEF Run
<1>4. \A p \in Past : first[p] \in Dir
  <2>1. IsFiniteSet(Past) /\ IsFiniteSet(Name) /\ IsFiniteSet(Request)
    BY <1>3, StoreAssumption, NamesAreFinite, FS_Subset
  <2>2. Cardinality(Past) <= Cardinality(Name)
    <3> DEFINE f == [p \in Past |-> RunID(p)]
    <3>1. f \in Injection(Past, Name)
      BY <1>3, NamesDiffer DEF Injection, IsInjective, RunID
    <3> QED BY <2>1, <3>1, FS_Injection
  <2>3. Cardinality(Past) \in Nat /\ Cardinality(Name) \in Nat /\ Cardinality(Request) \in Nat
    BY <2>1, FS_CardinalityType
  <2> QED BY <2>2, <2>3 DEF Dir
<1>5. /\ \A p \in Past : at[RunID(p)] = first[p] /\ RunID(p) \in Name
      /\ \A n \in Name : at[n] = NoDir \/ \E p \in Past : n = RunID(p) /\ at[n] = first[p]
  <2>1. \A p \in Past : RunID(p) \in Name /\ RunID(p)[1] = "auto" /\ RunID(p)[2] = p
    BY <1>3, NamesDiffer
  <2>2. \A n \in Name : n[1] = "auto" => n = RunID(n[2])
    BY NamesDiffer
  <2> QED BY <1>1, <2>1, <2>2
<1>6. \A p \in Past : file[first[p]]["archive"] = Attempt(p, 1)
  <2> SUFFICES ASSUME NEW p \in Past PROVE file[first[p]]["archive"] = Attempt(p, 1)
    OBVIOUS
  <2>1. (CHOOSE r \in Past : first[r] = first[p]) = p
    BY <1>1
  <2> QED BY <1>1, <1>4, <2>1, FilesDiffer DEF Empty
<1>7. \A d \in Dir : (\A p \in Past : first[p] # d) => file[d] = Empty
  <2> SUFFICES ASSUME NEW d \in Dir, \A p \in Past : first[p] # d PROVE file[d] = Empty
    OBVIOUS
  <2>1. file[d] = [Empty EXCEPT !["archive"] = None]
    BY <1>1
  <2> QED BY <2>1 DEF Empty
<1>8. \A d \in Dir, f \in File : f # "archive" => file[d][f] = None
  BY <1>1 DEF Empty
<1>9. ASSUME NEW d \in Dir, NEW f \in File, file[d][f] # None
      PROVE  f = "archive" /\ \E p \in Past : d = first[p] /\ file[d][f] = Attempt(p, 1)
  BY <1>6, <1>7, <1>8, <1>9, EmptyFacts
<1>10. Placed
  <2>1. at \in [Name -> Dir \cup {NoDir}]
    BY <1>1, <1>4, <1>5
  <2>2. file \in [Dir -> [File -> Held]]
    <3>1. \A d \in Dir : file[d] \in [File -> Held]
      <4> SUFFICES ASSUME NEW d \in Dir PROVE file[d] \in [File -> Held]
        OBVIOUS
      <4>1. file[d] = [f \in File |-> file[d][f]]
        BY <1>1 DEF Empty
      <4>2. \A f \in File : file[d][f] \in Held
        BY <1>3, <1>9 DEF Held
      <4> QED BY <4>1, <4>2
    <3>2. file = [d \in Dir |-> file[d]]
      BY <1>1
    <3> QED BY <3>1, <3>2
  <2>3. \A n, m \in Name : n # m /\ at[n] # NoDir => at[n] # at[m]
    BY <1>1, <1>5
  <2>4. ASSUME NEW d \in Dir, \A n \in Name : at[n] # d PROVE file[d] = Empty
    BY <1>5, <1>7, <2>4
  <2> QED BY <2>1, <2>2, <2>3, <2>4 DEF Placed, Exists
<1>11. Asking
  BY <1>2, NothingIsAsked DEF Asking
<1>12. Running
  <2>1. \A p \in Past, r \in Live, k \in 1..Attempts : Attempt(p, 1) # Attempt(r, k)
    BY <1>3 DEF Attempt, Content
  <2> QED BY <1>2, <1>3, <2>1 DEF Running
<1>13. \A p, r \in Past : Attempt(p, 1) = Attempt(r, 1) => p = r
  BY DEF Attempt, Content
<1>14. None.from = "nothing" /\ \A p \in Past : Attempt(p, 1).from = "run" /\ Attempt(p, 1).run = p
  BY DEF None, Attempt, Content
<1>15. KeptOnce
  <2> SUFFICES ASSUME NEW d \in Dir, NEW e \in Dir, NEW f \in Slot, NEW g \in Slot,
                      file[d][f] = file[e][g], file[d][f].from = "run"
               PROVE  d = e /\ f = g
    BY DEF KeptOnce
  <2>1. file[d][f] # None /\ f \in File /\ g \in File
    BY <1>14 DEF Slot
  <2> QED BY <1>9, <1>13, <2>1
<1>16. KeptIsWritten
  BY <1>2, <1>9, <1>14 DEF KeptIsWritten, Slot
<1>17. TornIsOver
  BY <1>9, <1>14 DEF TornIsOver, Slot
<1>18. ArchiveIsTheLast
  BY <1>3, <1>9, <1>14, FilesDiffer DEF ArchiveIsTheLast
<1>19. AttemptsInPlace
  BY <1>8, <1>14, FilesDiffer DEF AttemptsInPlace, Slot
<1>20. OwnOrMixed
  <2> SUFFICES ASSUME NEW r \in Run, NEW f \in Slot, Get(RunID(r), f) # None
               PROVE  Get(RunID(r), f).run = r
    BY DEF OwnOrMixed
  <2>1. RunID(r) \in Name /\ f \in File
    BY NamesDiffer DEF Slot
  <2>2. Exists(RunID(r)) /\ Get(RunID(r), f) = file[at[RunID(r)]][f]
    BY DEF Get
  <2>3. PICK p \in Past : RunID(r) = RunID(p) /\ at[RunID(r)] = first[p]
    BY <1>5, <2>1, <2>2 DEF Exists
  <2>4. p = r
    BY <2>3 DEF RunID
  <2>5. Get(RunID(r), f) = Attempt(p, 1)
    BY <1>4, <1>6, <1>8, <2>1, <2>2, <2>3
  <2> QED BY <1>14, <2>4, <2>5
<1>21. NothingIsLost
  <2>1. ASSUME NEW p \in Past PROVE Get(RunID(p), "archive") = Attempt(p, 1)
    <3>1. first[p] # NoDir
      BY <1>4 DEF Dir, NoDir
    <3> QED BY <1>5, <1>6, <3>1 DEF Get, Exists
  <2>2. "archive" \in File \ {"summary"}
    BY FilesDiffer
  <2> QED BY <1>2, <1>5, <2>1, <2>2 DEF NothingIsLost
<1> QED BY <1>10, <1>11, <1>12, <1>15, <1>16, <1>17, <1>18, <1>19, <1>20, <1>21
        DEF ArchiveInv, StoreInv, Kept

LEMMA StoreStep == ArchiveInv /\ [Next]_vars => ArchiveInv' /\ SavedStay
<1> SUFFICES ASSUME ArchiveInv, [Next]_vars PROVE ArchiveInv' /\ SavedStay
  OBVIOUS
<1>1. StoreInv /\ Running
  BY DEF ArchiveInv
<1>2. ASSUME NEW r \in Live, WriteArchive(r) \/ WriteSummary(r) \/ Keep(r) \/ Killed(r)
      PROVE  ArchiveInv' /\ SavedStay
  <2>1. attempt[r] \in 1..Attempts
    BY <1>1 DEF Running
  <2>2. StoreInv' /\ SavedStay
    BY <1>1, <1>2, <2>1, RunSteps
  <2> QED BY <1>2, <2>2, WriteArchiveStep, WriteSummaryStep, KeepStep, KilledStep DEF ArchiveInv, StoreInv
<1>3. ASSUME NEW q \in Request,
             \/ \E n \in Name, m \in SavedName : Save(q, n, m)
             \/ \E n \in Name : Unsave(q, n) \/ ReadForSummary(q, n) \/ ImportStat(q, n) \/ Clean(q, n)
             \/ ExtractFails(q)
      PROVE  ArchiveInv' /\ SavedStay
  <2>1. StoreInv' /\ SavedStay /\ UNCHANGED <<at, file, gone, mixed, runVars>>
    BY <1>1, <1>3, CheckSteps
  <2> QED BY <2>1, UnmovedKeeps DEF ArchiveInv
<1>4. ASSUME NEW q \in Request, Rename(q) PROVE ArchiveInv' /\ SavedStay
  BY <1>1, <1>4, RenameStep, RenameKeeps DEF ArchiveInv, StoreInv
<1>5. ASSUME NEW q \in Request, Backfill(q) PROVE ArchiveInv' /\ SavedStay
  BY <1>1, <1>5, WriteSteps, BackfillKeeps DEF ArchiveInv, StoreInv
<1>6. ASSUME NEW q \in Request, ImportMkdir(q) PROVE ArchiveInv' /\ SavedStay
  BY <1>1, <1>6, MkdirStep, MkdirKeeps DEF ArchiveInv, StoreInv
<1>7. ASSUME NEW q \in Request, NEW f \in File, Extract(q, f) PROVE ArchiveInv' /\ SavedStay
  BY <1>1, <1>7, WriteSteps, ExtractKeeps DEF ArchiveInv, StoreInv
<1>8. ASSUME NEW q \in Request, NEW f \in File, RemoveFile(q, f) PROVE ArchiveInv' /\ SavedStay
  BY <1>1, <1>8, RemoveSteps, RemoveFileKeeps DEF ArchiveInv, StoreInv
<1>9. ASSUME NEW q \in Request, RemoveDir(q) PROVE ArchiveInv' /\ SavedStay
  BY <1>1, <1>9, RemoveSteps, RemoveDirKeeps DEF ArchiveInv, StoreInv
<1>10. CASE UNCHANGED vars
  <2>1. UNCHANGED <<at, file, gone, mixed, runVars>> /\ request' = request
    BY <1>10 DEF vars
  <2>2. Asking'
    BY <1>1, <2>1 DEF StoreInv, Asking
  <2> QED BY <1>1, <2>1, <2>2, NothingMoves, UnmovedKeeps DEF ArchiveInv, StoreInv
<1> QED BY <1>2, <1>3, <1>4, <1>5, <1>6, <1>7, <1>8, <1>9, <1>10 DEF Next

(* However many runs and requests use the archive directory at once, an
   attempt that was written stays in it, unless clean or an import removed it,
   its run said that it could not set it aside, or an unsave mixed up its
   directory with another run's. *)
THEOREM AttemptsAreNotLost == Spec => []NothingIsLost
<1>1. ArchiveInv => NothingIsLost
  BY DEF ArchiveInv
<1> QED BY <1>1, StoreInit, StoreStep, PTL DEF Spec

(* And the archive of a saved run stays in its directory, and the directory
   keeps a name, unless an import or a removal had begun with it before. *)
THEOREM SavedRunsStay == Spec => SavedStays
<1>1. SavedStay <=> \A n \in SavedName : StaysSaved(n)
  BY DEF SavedStay
<1>2. ArchiveInv /\ [Next]_vars => [\A n \in SavedName : StaysSaved(n)]_vars
  BY <1>1, StoreStep
<1> QED BY <1>2, StoreInit, StoreStep, PTL DEF Spec, SavedStays
=============================================================================
