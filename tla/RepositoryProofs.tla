---------------------------- MODULE RepositoryProofs ---------------------------
(***************************************************************************)
(* Theorems about Repository: the metadata files say what the table says,  *)
(* and a launch offers only what is on disk, for any files and contents.   *)
(***************************************************************************)
EXTENDS Repository, TLAPS

\* How far an operation is, and who may be doing it.
Shape ==
    /\ process = "down" => op = Free
    /\ op.kind = "load" <=> process = "loading"
    /\ op.at = "start" <=> op = Free
    /\ op.kind = "none" <=> op = Free
    /\ op.at = "next" => op.kind = "load"
    /\ op.kind = "remove" <=> op.at = "unlink"
    /\ op.at \in {"open", "dump"} =>
          op.name \in Names /\ op.meta \in Meta
    /\ op.at = "unlink" => op.name \in Names

\* The metadata file of n says what the table says.
Agrees(n) == yaml[n] = IF n \in DOMAIN files THEN Saved(files[n]) ELSE NoYaml

\* While the program is up, only the file that an operation works on may
\* differ, and what it is about to write is what the table has or will have.
UpAgrees ==
    process = "up" =>
        /\ \A n \in Names : op = Free \/ n # op.name => Agrees(n)
        /\ op.kind \in {"init", "remove"} => op.name \notin DOMAIN files
        /\ op.kind \in {"add", "change"} =>
              op.name \in DOMAIN files /\ Saved(files[op.name]) = Saved(op.meta)

\* While it loads, the files it is done with agree, and the others are not yet
\* in the table.
LoadAgrees ==
    process = "loading" =>
        /\ \A n \in op.todo : n \notin DOMAIN files /\ yaml[n] # NoYaml
        /\ op.at \in {"open", "dump"} => op.name \notin op.todo \cup DOMAIN files
        /\ \A n \in Names \ op.todo : op.at = "next" \/ n # op.name => Agrees(n)

\* What load has put in the table, or is about to.
LoadChecked ==
    process = "loading" =>
        /\ \A n \in DOMAIN files : files[n].status = "READY" => IsValid(files[n])
        /\ op.at \in {"open", "dump"} /\ op.meta.status = "READY" => IsValid(op.meta)

IInv == TypeOK /\ Shape /\ UpAgrees /\ LoadAgrees /\ LoadChecked

-----------------------------------------------------------------------------
(* The table and the records *)

LEMMA FreeFields ==
  Free.kind = "none" /\ Free.at = "start"
  BY DEF Free, Doing

LEMMA FreeTyped == Free \in Operation
  BY DEF Free, Doing, Operation

LEMMA TodoTyped == IInv => op.todo \subseteq Names
  BY DEF IInv, TypeOK, Operation

LEMMA SavingFields ==
  ASSUME NEW kind, NEW n, NEW m
  PROVE  Saving(kind, n, m) =
           [kind |-> kind, at |-> "open", name |-> n, meta |-> m, todo |-> {}]
  BY DEF Saving, Doing

LEMMA MarksDiffer ==
  /\ Cut # NoYaml
  /\ \A y \in SavedMeta : y # Cut /\ y # NoYaml
  BY RepositoryConstants DEF Cut, NoYaml, SavedMeta

LEMMA SavedTyped == \A m \in Meta : Saved(m) \in SavedMeta
  BY DEF Saved, SavedMeta, Meta

LEMMA WithTyped ==
  ASSUME TypeOK, NEW n \in Names, NEW m \in Meta, files' = With(n, m)
  PROVE  /\ DOMAIN files' = DOMAIN files \cup {n} /\ DOMAIN files' \subseteq Names
         /\ files' \in [DOMAIN files' -> Meta]
         /\ files'[n] = m
         /\ \A k \in DOMAIN files : k # n => files'[k] = files[k]
  BY DEF With, TypeOK

LEMMA WithoutTyped ==
  ASSUME TypeOK, NEW n \in Names, files' = Without(n)
  PROVE  /\ DOMAIN files' = DOMAIN files \ {n} /\ DOMAIN files' \subseteq Names
         /\ files' \in [DOMAIN files' -> Meta]
         /\ \A k \in DOMAIN files : k # n => files'[k] = files[k]
  BY DEF Without, TypeOK

-----------------------------------------------------------------------------
(* The steps *)

LEMMA InitHolds == Init => IInv
  BY FreeFields, FreeTyped DEF Init, IInv, TypeOK, Shape, UpAgrees, LoadAgrees, LoadChecked,
                    NoMeta

LEMMA InitMetaHolds ==
  ASSUME IInv, NEW n \in Names, NEW c \in Contents, InitMeta(n, c)
  PROVE  IInv'
<1> DEFINE m == [wanted |-> c, status |-> "DOWNLOADING", seen |-> disk[n]]
<1>1. m \in Meta
  BY DEF Meta, Statuses, IInv, TypeOK
<1>2. op' = [kind |-> "init", at |-> "open", name |-> n, meta |-> m, todo |-> {}]
  BY SavingFields DEF InitMeta
<1>3. TypeOK'
  BY <1>1, <1>2 DEF IInv, TypeOK, Operation, InitMeta
<1>4. Shape'
  BY <1>1, <1>2, FreeFields DEF IInv, Shape, InitMeta, CanStart
<1>5. UpAgrees' /\ LoadAgrees' /\ LoadChecked'
  BY <1>2 DEF IInv, UpAgrees, LoadAgrees, LoadChecked, InitMeta, CanStart, Agrees
<1> QED BY <1>3, <1>4, <1>5 DEF IInv

LEMMA AddFileHolds ==
  ASSUME IInv, NEW n \in Names, AddFile(n)
  PROVE  IInv'
<1> DEFINE m == [wanted |-> disk[n], status |-> "READY", seen |-> disk[n]]
<1>1. m \in Meta
  BY DEF Meta, Statuses, IInv, TypeOK, AddFile
<1>2. op' = [kind |-> "add", at |-> "open", name |-> n, meta |-> m, todo |-> {}]
  BY SavingFields DEF AddFile
<1>3. files' = With(n, m) /\ n \notin DOMAIN files
  BY DEF AddFile
<1>4. process = "up" /\ op = Free /\ UNCHANGED <<process, yaml, disk, jobs>>
  BY DEF AddFile, CanStart
<1> HIDE DEF m
<1>5. /\ DOMAIN files' = DOMAIN files \cup {n} /\ DOMAIN files' \subseteq Names
      /\ files' \in [DOMAIN files' -> Meta]
      /\ files'[n] = m
      /\ \A k \in DOMAIN files : k # n => files'[k] = files[k]
  BY <1>1, <1>3, WithTyped DEF IInv
<1>6. TypeOK'
  BY <1>1, <1>2, <1>4, <1>5 DEF IInv, TypeOK, Operation
<1>7. Shape'
  BY <1>1, <1>2, <1>4, FreeFields DEF IInv, Shape
<1>8. UpAgrees' /\ LoadAgrees' /\ LoadChecked'
  BY <1>2, <1>3, <1>4, <1>5
     DEF IInv, UpAgrees, LoadAgrees, LoadChecked, Agrees
<1> QED BY <1>6, <1>7, <1>8 DEF IInv

LEMMA ChangeStateHolds ==
  ASSUME IInv, NEW j \in jobs, ChangeState(j)
  PROVE  IInv'
<1> DEFINE m == [files[j.name] EXCEPT !.status = j.status]
<1>1. process = "up" /\ op = Free /\ UNCHANGED <<process, yaml, disk>> /\ jobs' \subseteq jobs
  BY DEF ChangeState, CanStart
<1>2. CASE j.name \in DOMAIN files
  <2>1. j.name \in Names /\ m \in Meta
    BY <1>2 DEF Meta, Statuses, IInv, TypeOK
  <2>2. op' = [kind |-> "change", at |-> "open", name |-> j.name, meta |-> m, todo |-> {}]
    BY <1>2, SavingFields DEF ChangeState
  <2>3. files' = With(j.name, m)
    BY <1>2 DEF ChangeState
  <2> HIDE DEF m
  <2>4. /\ DOMAIN files' = DOMAIN files \cup {j.name} /\ DOMAIN files' \subseteq Names
        /\ files' \in [DOMAIN files' -> Meta]
        /\ files'[j.name] = m
        /\ \A k \in DOMAIN files : k # j.name => files'[k] = files[k]
    BY <2>1, <2>3, WithTyped DEF IInv
  <2>5. TypeOK'
    BY <1>1, <2>1, <2>2, <2>4 DEF IInv, TypeOK, Operation
  <2>6. Shape'
    BY <1>1, <2>1, <2>2, FreeFields DEF IInv, Shape
  <2>7. UpAgrees' /\ LoadAgrees' /\ LoadChecked'
    BY <1>1, <1>2, <2>2, <2>4
       DEF IInv, UpAgrees, LoadAgrees, LoadChecked, Agrees
  <2> QED BY <2>5, <2>6, <2>7 DEF IInv
<1>3. CASE j.name \notin DOMAIN files
  BY <1>1, <1>3
     DEF IInv, TypeOK, Shape, UpAgrees, LoadAgrees, LoadChecked, ChangeState, Agrees
<1> QED BY <1>2, <1>3

LEMMA RemoveFileHolds ==
  ASSUME IInv, NEW n \in Names, RemoveFile(n)
  PROVE  IInv'
<1>1. op' = [kind |-> "remove", at |-> "unlink", name |-> n, meta |-> NoMeta,
             todo |-> {}]
  BY DEF RemoveFile, Doing
<1>2. process = "up" /\ op = Free /\ UNCHANGED <<process, yaml, disk, jobs>>
  BY DEF RemoveFile, CanStart
<1>3. /\ DOMAIN files' = DOMAIN files \ {n} /\ DOMAIN files' \subseteq Names
      /\ files' \in [DOMAIN files' -> Meta]
      /\ \A k \in DOMAIN files : k # n => files'[k] = files[k]
  BY WithoutTyped DEF IInv, RemoveFile
<1>4. TypeOK'
  BY <1>1, <1>2, <1>3 DEF IInv, TypeOK, Operation
<1>5. Shape'
  BY <1>1, <1>2, FreeFields DEF IInv, Shape
<1>6. UpAgrees' /\ LoadAgrees' /\ LoadChecked'
  BY <1>1, <1>2, <1>3, FreeFields
     DEF IInv, UpAgrees, LoadAgrees, LoadChecked, Agrees
<1> QED BY <1>4, <1>5, <1>6 DEF IInv

LEMMA OpenHolds == IInv /\ Open => IInv'
<1> SUFFICES ASSUME IInv, Open PROVE IInv'
  OBVIOUS
<1>1. op.at = "open" /\ op.name \in Names /\ op # Free
  BY FreeFields DEF Open, IInv, Shape
<1>2. /\ op'.at = "dump" /\ op'.kind = op.kind /\ op'.name = op.name
      /\ op'.meta = op.meta /\ op'.todo = op.todo /\ op' # Free
  BY FreeFields DEF Open, IInv, TypeOK, Operation
<1>3. UNCHANGED <<process, files, disk, jobs>> /\ \A n \in Names : n # op.name => yaml'[n] = yaml[n]
  BY DEF Open, IInv, TypeOK, Operation
<1>4. TypeOK'
  BY DEF Open, IInv, TypeOK, Operation
<1>5. Shape'
  BY <1>1, <1>2, <1>3 DEF IInv, Shape
<1>6. UpAgrees' /\ LoadAgrees' /\ LoadChecked'
  BY <1>1, <1>2, <1>3, TodoTyped DEF IInv, UpAgrees, LoadAgrees, LoadChecked, Agrees
<1> QED BY <1>4, <1>5, <1>6 DEF IInv

LEMMA DumpHolds == IInv /\ Dump => IInv'
<1> SUFFICES ASSUME IInv, Dump PROVE IInv'
  OBVIOUS
<1>1. /\ op.at = "dump" /\ op.name \in Names /\ op.meta \in Meta /\ op # Free
      /\ Saved(op.meta) \in SavedMeta
  BY FreeFields, SavedTyped DEF Dump, IInv, Shape
<1>2. /\ UNCHANGED <<process, disk, jobs>> /\ yaml'[op.name] = Saved(op.meta)
      /\ \A n \in Names : n # op.name => yaml'[n] = yaml[n]
  BY <1>1 DEF Dump, IInv, TypeOK, Operation
<1>3. yaml' \in [Names -> SavedMeta \cup {Cut, NoYaml}]
  BY <1>1 DEF Dump, IInv, TypeOK, Operation
<1>4. CASE op.kind = "load"
  <2>1. /\ op'.at = "next" /\ op'.kind = op.kind /\ op'.name = op.name
        /\ op'.meta = op.meta /\ op'.todo = op.todo /\ op' # Free
    BY <1>4, FreeFields DEF Dump, IInv, TypeOK, Operation
  <2>2. /\ DOMAIN files' = DOMAIN files \cup {op.name} /\ DOMAIN files' \subseteq Names
        /\ files' \in [DOMAIN files' -> Meta]
        /\ files'[op.name] = op.meta
        /\ \A k \in DOMAIN files : k # op.name => files'[k] = files[k]
    BY <1>1, <1>4, WithTyped DEF Dump, IInv
  <2>3. process = "loading"
    BY <1>4 DEF IInv, Shape
  <2>4. TypeOK'
    BY <1>2, <1>3, <1>4, <2>2 DEF Dump, IInv, TypeOK, Operation
  <2>5. Shape'
    BY <1>2, <2>1, <2>3 DEF IInv, Shape
  <2>6. LoadAgrees'
    BY <1>1, <1>2, <2>1, <2>2, <2>3, TodoTyped DEF IInv, LoadAgrees, Agrees
  <2>7. UpAgrees' /\ LoadChecked'
    BY <1>1, <1>2, <2>1, <2>2, <2>3 DEF IInv, UpAgrees, LoadChecked
  <2> QED BY <2>4, <2>5, <2>6, <2>7 DEF IInv
<1>5. CASE op.kind = "init"
  <2>1. op' = Free
    BY <1>5 DEF Dump
  <2>2. /\ DOMAIN files' = DOMAIN files \cup {op.name} /\ DOMAIN files' \subseteq Names
        /\ files' \in [DOMAIN files' -> Meta]
        /\ files'[op.name] = op.meta
        /\ \A k \in DOMAIN files : k # op.name => files'[k] = files[k]
    BY <1>1, <1>5, WithTyped DEF Dump, IInv
  <2>3. process = "up"
    BY <1>1, <1>5 DEF IInv, Shape, TypeOK, Operation
  <2>4. TypeOK'
    BY <1>2, <1>3, <2>1, <2>2, FreeTyped DEF IInv, TypeOK, Operation
  <2>5. Shape'
    BY <1>2, <2>1, <2>3, FreeFields DEF Shape
  <2>6. UpAgrees' /\ LoadAgrees' /\ LoadChecked'
    BY <1>1, <1>2, <2>1, <2>2, <2>3, FreeFields
       DEF IInv, UpAgrees, LoadAgrees, LoadChecked, Agrees
  <2> QED BY <2>4, <2>5, <2>6 DEF IInv
<1>6. CASE op.kind \in {"add", "change"}
  <2>1. op' = Free /\ files' = files
    BY <1>6 DEF Dump
  <2>2. process = "up"
    BY <1>1, <1>6 DEF IInv, Shape, TypeOK, Operation
  <2>3. TypeOK'
    BY <1>2, <1>3, <2>1, FreeTyped DEF IInv, TypeOK, Operation
  <2>4. Shape'
    BY <1>2, <2>1, <2>2, FreeFields DEF Shape
  <2>5. UpAgrees' /\ LoadAgrees' /\ LoadChecked'
    BY <1>1, <1>2, <1>6, <2>1, <2>2, FreeFields
       DEF IInv, UpAgrees, LoadAgrees, LoadChecked, Agrees
  <2> QED BY <2>3, <2>4, <2>5 DEF IInv
<1>7. op.kind \in {"load", "init", "add", "change"}
  BY <1>1 DEF IInv, Shape, TypeOK, Operation
<1> QED BY <1>4, <1>5, <1>6, <1>7

LEMMA UnlinkHolds == IInv /\ Unlink => IInv'
<1> SUFFICES ASSUME IInv, Unlink PROVE IInv'
  OBVIOUS
<1>1. /\ op.at = "unlink" /\ op.kind = "remove" /\ op.name \in Names
      /\ process = "up" /\ op # Free
  BY FreeFields DEF Unlink, IInv, Shape, TypeOK, Operation
<1>2. /\ UNCHANGED <<process, files, disk, jobs>> /\ yaml'[op.name] = NoYaml
      /\ \A n \in Names : n # op.name => yaml'[n] = yaml[n]
      /\ op' = Free
  BY <1>1 DEF Unlink, IInv, TypeOK
<1>3. TypeOK'
  BY <1>1, <1>2, FreeTyped DEF Unlink, IInv, TypeOK
<1>4. Shape'
  BY <1>1, <1>2, FreeFields DEF Shape
<1>5. UpAgrees' /\ LoadAgrees' /\ LoadChecked'
  BY <1>1, <1>2, FreeFields DEF IInv, UpAgrees, LoadAgrees, LoadChecked, Agrees
<1> QED BY <1>3, <1>4, <1>5 DEF IInv

LEMMA StartLoadHolds == IInv /\ StartLoad => IInv'
<1> SUFFICES ASSUME IInv, StartLoad PROVE IInv'
  OBVIOUS
<1> DEFINE todo == {n \in Names : yaml[n] # NoYaml}
<1>1. op' = [kind |-> "load", at |-> "next", name |-> Absent, meta |-> NoMeta,
             todo |-> todo]
  BY DEF StartLoad, Doing
<1>2. /\ process' = "loading" /\ UNCHANGED <<yaml, disk, jobs>>
      /\ DOMAIN files' = {} /\ files' \in [DOMAIN files' -> Meta]
  BY DEF StartLoad
<1>3. TypeOK'
  BY <1>1, <1>2 DEF IInv, TypeOK, Operation
<1>4. Shape'
  BY <1>1, <1>2, FreeFields DEF Shape
<1>5. UpAgrees' /\ LoadAgrees' /\ LoadChecked'
  BY <1>1, <1>2 DEF UpAgrees, LoadAgrees, LoadChecked, Agrees
<1> QED BY <1>3, <1>4, <1>5 DEF IInv

\* The end of the process, by a crash or by a load that fails.
LEMMA DownHolds ==
  ASSUME IInv, process' = "down", DOMAIN files' = {}, files' \in [{} -> Meta],
         op' = Free, jobs' = {}, UNCHANGED <<yaml, disk>>
  PROVE  IInv'
  BY FreeFields, FreeTyped
     DEF IInv, TypeOK, Shape, UpAgrees, LoadAgrees, LoadChecked

LEMMA LoadFailsHolds ==
  ASSUME IInv, NEW n \in Names, LoadFails(n)
  PROVE  IInv'
  BY DownHolds DEF LoadFails

LEMMA CrashHolds == IInv /\ Crash => IInv'
  BY DownHolds DEF Crash

\* While load is between two files.
LEMMA LoadingNow ==
  ASSUME IInv, op.at = "next"
  PROVE  process = "loading" /\ op.kind = "load" /\ op # Free
  BY FreeFields DEF IInv, Shape

LEMMA LoadForgetsHolds ==
  ASSUME IInv, NEW n \in Names, LoadForgets(n)
  PROVE  IInv'
<1>1. op.at = "next" /\ process = "loading" /\ op.kind = "load" /\ n \in op.todo
  BY LoadingNow DEF LoadForgets
<1>2. /\ op'.at = "next" /\ op'.kind = "load" /\ op'.todo = op.todo \ {n}
      /\ op' \in Operation
  BY <1>1 DEF LoadForgets, IInv, TypeOK, Operation
<1>3. /\ UNCHANGED <<process, files, disk, jobs>> /\ yaml'[n] = NoYaml
      /\ \A k \in Names : k # n => yaml'[k] = yaml[k]
      /\ yaml' \in [Names -> SavedMeta \cup {Cut, NoYaml}]
  BY DEF LoadForgets, IInv, TypeOK
<1>4. TypeOK'
  BY <1>2, <1>3 DEF IInv, TypeOK
<1>5. Shape'
  BY <1>1, <1>2, <1>3, FreeFields DEF Shape
<1>6. UpAgrees' /\ LoadAgrees' /\ LoadChecked'
  BY <1>1, <1>2, <1>3, TodoTyped DEF IInv, UpAgrees, LoadAgrees, LoadChecked, Agrees
<1> QED BY <1>4, <1>5, <1>6 DEF IInv

LEMMA CheckedIsValid ==
  ASSUME NEW m \in Meta
  PROVE  /\ Checked(m) \in Meta
         /\ Checked(m).status = "READY" => IsValid(Checked(m))
  BY DEF Checked, Meta, Statuses, IsValid

LEMMA LoadReadsHolds ==
  ASSUME IInv, NEW n \in Names, LoadReads(n)
  PROVE  IInv'
<1> DEFINE m == [wanted |-> yaml[n].wanted, status |-> yaml[n].status, seen |-> disk[n]]
<1>1. op.at = "next" /\ process = "loading" /\ n \in op.todo /\ n \notin DOMAIN files
  BY LoadingNow DEF LoadReads, IInv, LoadAgrees
<1>2. PICK c \in Meta : /\ c.status = "READY" => IsValid(c)
                        /\ op' = [kind |-> "load", at |-> "open", name |-> n,
                                  meta |-> c, todo |-> op.todo \ {n}]
  <2>1. yaml[n] \in SavedMeta
    <3>1. yaml[n] # NoYaml
      BY <1>1 DEF IInv, LoadAgrees
    <3> QED BY <3>1 DEF LoadReads, IInv, TypeOK
  <2>2. m \in Meta
    BY <2>1 DEF Meta, SavedMeta, IInv, TypeOK
  <2>3. op' = Doing("load", "open", n, Checked(m), op.todo \ {n})
    BY DEF LoadReads
  <2> QED BY <2>2, <2>3, CheckedIsValid DEF Doing
<1>3. UNCHANGED <<process, files, yaml, disk, jobs>>
  BY DEF LoadReads
<1>4. TypeOK'
  BY <1>2, <1>3 DEF IInv, TypeOK, Operation
<1>5. Shape'
  BY <1>1, <1>2, <1>3, FreeFields DEF Shape
<1>6. UpAgrees' /\ LoadAgrees' /\ LoadChecked'
  BY <1>1, <1>2, <1>3, TodoTyped DEF IInv, UpAgrees, LoadAgrees, LoadChecked, Agrees
<1> QED BY <1>4, <1>5, <1>6 DEF IInv

LEMMA LoadEndsHolds == IInv /\ LoadEnds => IInv'
<1> SUFFICES ASSUME IInv, LoadEnds PROVE IInv'
  OBVIOUS
<1>1. /\ op.at = "next" /\ process = "loading" /\ op.todo = {}
      /\ process' = "up" /\ op' = Free /\ UNCHANGED <<files, yaml, disk, jobs>>
  BY LoadingNow DEF LoadEnds
<1>2. TypeOK'
  BY <1>1, FreeTyped DEF IInv, TypeOK
<1>3. Shape'
  BY <1>1, FreeFields DEF Shape
<1>4. UpAgrees' /\ LoadAgrees' /\ LoadChecked'
  BY <1>1, FreeFields DEF IInv, UpAgrees, LoadAgrees, LoadChecked, Agrees
<1> QED BY <1>2, <1>3, <1>4 DEF IInv

LEMMA UpdateStatHolds ==
  ASSUME IInv, NEW n \in Names, UpdateStat(n)
  PROVE  IInv'
<1>1. process = "up" /\ n \in DOMAIN files /\ UNCHANGED <<process, yaml, disk, op, jobs>>
  BY DEF UpdateStat
<1>2. /\ DOMAIN files' = DOMAIN files /\ files' \in [DOMAIN files' -> Meta]
      /\ \A k \in DOMAIN files : Saved(files'[k]) = Saved(files[k])
  BY DEF UpdateStat, IInv, TypeOK, Meta, Saved
<1>3. TypeOK'
  BY <1>1, <1>2 DEF IInv, TypeOK
<1>4. Shape'
  BY <1>1 DEF IInv, Shape
<1>5. UpAgrees' /\ LoadAgrees' /\ LoadChecked'
  BY <1>1, <1>2 DEF IInv, UpAgrees, LoadAgrees, LoadChecked, Agrees
<1> QED BY <1>3, <1>4, <1>5 DEF IInv

\* Jobs are asked for, and files change on disk: the table stands still.
LEMMA StillHolds ==
  ASSUME IInv, UNCHANGED <<process, files, yaml, op>>,
         disk' \in [Names -> Contents \cup {Absent}],
         jobs' \subseteq [name : Names, status : {"READY", "INVALID"}]
  PROVE  IInv'
  BY DEF IInv, TypeOK, Shape, UpAgrees, LoadAgrees, LoadChecked, Agrees

-----------------------------------------------------------------------------
(* The theorems *)

LEMMA NextHolds == IInv /\ [Next]_vars => IInv'
<1> SUFFICES ASSUME IInv, [Next]_vars PROVE IInv'
  OBVIOUS
<1>1. ASSUME NEW n \in Names,
             \/ \E c \in Contents : InitMeta(n, c)
             \/ AddFile(n) \/ RemoveFile(n)
             \/ LoadFails(n) \/ LoadForgets(n) \/ LoadReads(n)
             \/ UpdateStat(n)
      PROVE  IInv'
  BY <1>1, InitMetaHolds, AddFileHolds, RemoveFileHolds, LoadFailsHolds,
     LoadForgetsHolds, LoadReadsHolds, UpdateStatHolds
<1>2. ASSUME NEW n \in Names, AskReady(n) \/ AskInvalid(n) PROVE IInv'
  <2>1. UNCHANGED <<process, files, yaml, op, disk>>
    BY <1>2 DEF AskReady, AskInvalid
  <2>2. jobs' \subseteq [name : Names, status : {"READY", "INVALID"}]
    BY <1>2 DEF AskReady, AskInvalid, IInv, TypeOK
  <2> QED BY <2>1, <2>2, StillHolds DEF IInv, TypeOK
<1>3. ASSUME NEW n \in Names, NEW c \in Contents \cup {Absent}, FileChanges(n, c)
      PROVE  IInv'
  <2>1. UNCHANGED <<process, files, yaml, op, jobs>>
    BY <1>3 DEF FileChanges
  <2>2. disk' \in [Names -> Contents \cup {Absent}]
    BY <1>3 DEF FileChanges, IInv, TypeOK
  <2> QED BY <2>1, <2>2, StillHolds DEF IInv, TypeOK
<1>4. CASE \E j \in jobs : ChangeState(j)
  BY <1>4, ChangeStateHolds
<1>5. CASE Open \/ Dump \/ Unlink \/ StartLoad \/ LoadEnds \/ Crash
  BY <1>5, OpenHolds, DumpHolds, UnlinkHolds, StartLoadHolds, LoadEndsHolds, CrashHolds
<1>6. CASE UNCHANGED vars
  BY <1>6, StillHolds DEF vars, IInv, TypeOK
<1> QED BY <1>1, <1>2, <1>3, <1>4, <1>5, <1>6 DEF Next

LEMMA Invariance == Spec => []IInv
  BY InitHolds, NextHolds, PTL DEF Spec

\* What a metadata file says, if it says anything, is about the content listed.
Records(n) == yaml[n] \in {Cut, NoYaml} \/ yaml[n].wanted = files[n].wanted

Recorded == process = "up" => \A n \in DOMAIN files : Records(n)

LEMMA AgreesRecords ==
  ASSUME IInv, NEW n \in DOMAIN files, Agrees(n)
  PROVE  Records(n)
  BY DEF IInv, TypeOK, Agrees, Records, Saved

\* Only the file that an operation works on need be looked at.
AtWork == process = "up" /\ op # Free /\ op.name \in DOMAIN files

LEMMA RecordedAtWork == IInv /\ (AtWork => Records(op.name)) => Recorded
<1> SUFFICES ASSUME IInv, process = "up", NEW n \in DOMAIN files,
                    op = Free \/ n # op.name
             PROVE  Records(n)
  BY DEF Recorded, AtWork
<1>1. Agrees(n)
  BY DEF IInv, TypeOK, UpAgrees
<1> QED  BY <1>1, AgreesRecords

LEMMA RecordedHolds == IInv /\ IInv' /\ Recorded /\ [Next]_vars => Recorded'
<1>a. IInv' /\ (AtWork' => Records(op.name)') => Recorded'
  BY RecordedAtWork, PTL
<1> SUFFICES ASSUME IInv, IInv', Recorded, [Next]_vars, AtWork'
             PROVE  Records(op.name)'
  BY <1>a
<1>b. process' = "up" /\ op' # Free /\ op'.name \in DOMAIN files'
  BY DEF AtWork
<1>1. op'.kind # "load" /\ op'.at # "next"
  BY <1>b DEF IInv, Shape
<1>2. ASSUME process = "up", UNCHANGED <<op, yaml>>, DOMAIN files' = DOMAIN files,
             \A n \in DOMAIN files : files'[n].wanted = files[n].wanted
      PROVE  Records(op.name)'
  BY <1>b, <1>2 DEF Recorded, Records
<1>3. ASSUME NEW n \in Names, AddFile(n)  PROVE Records(op.name)'
  <2>1. op'.name = n /\ yaml'[n] = yaml[n] /\ n \notin DOMAIN files /\ op = Free /\ process = "up"
    BY <1>3, SavingFields DEF AddFile, CanStart
  <2>2. yaml[n] = NoYaml
    BY <2>1 DEF IInv, UpAgrees, Agrees
  <2> QED  BY <2>1, <2>2 DEF Records
<1>4. ASSUME NEW j \in jobs, ChangeState(j)  PROVE Records(op.name)'
  <2>1. j.name \in DOMAIN files /\ op = Free /\ process = "up" /\ UNCHANGED yaml
    BY <1>b, <1>4 DEF ChangeState, CanStart
  <2> DEFINE m == [files[j.name] EXCEPT !.status = j.status]
  <2>2. op' = Saving("change", j.name, m) /\ files' = With(j.name, m)
    BY <1>4, <2>1 DEF ChangeState
  <2>3. m.wanted = files[j.name].wanted
    BY <2>1 DEF IInv, TypeOK, Meta
  <2> HIDE DEF m
  <2>4. op'.name = j.name /\ files'[j.name] = m
    BY <2>1, <2>2, SavingFields DEF With
  <2> QED  BY <2>1, <2>3, <2>4 DEF Recorded, Records
<1>5. CASE Open
  <2>1. yaml'[op.name] = Cut /\ op'.name = op.name
    BY <1>5 DEF Open, IInv, Shape, TypeOK, Operation
  <2> QED  BY <2>1 DEF Records
<1>6. ASSUME NEW n \in Names, UpdateStat(n)  PROVE Records(op.name)'
  BY <1>2, <1>6 DEF UpdateStat, IInv, TypeOK, Meta
<1>7. ASSUME NEW n \in Names, NEW c, InitMeta(n, c)  PROVE FALSE
  BY <1>b, <1>7, SavingFields DEF InitMeta, CanStart, IInv, UpAgrees
<1>8. ASSUME NEW n \in Names, RemoveFile(n)  PROVE FALSE
  BY <1>b, <1>8 DEF RemoveFile, Doing, IInv, UpAgrees
<1>9. CASE \E n \in Names : \/ AskReady(n) \/ AskInvalid(n)
                            \/ \E c \in Contents \cup {Absent} : FileChanges(n, c)
  BY <1>b, <1>2, <1>9 DEF AskReady, AskInvalid, FileChanges
<1>10. CASE UNCHANGED vars
  BY <1>b, <1>2, <1>10 DEF vars
<1>11. ASSUME NEW n \in Names, LoadFails(n) \/ LoadForgets(n) \/ LoadReads(n)  PROVE FALSE
  BY <1>b, <1>1, <1>11, LoadingNow DEF LoadFails, LoadForgets, LoadReads, Doing
<1>12. CASE Dump \/ Unlink \/ StartLoad \/ LoadEnds \/ Crash
  <2>1. CASE Dump
    <3>1. op.kind = "load"
      BY <1>b, <2>1 DEF Dump
    <3>2. process = "loading" /\ UNCHANGED process
      BY <2>1, <3>1 DEF IInv, Shape, Dump
    <3> QED  BY <1>b, <3>2
  <2> QED  BY <1>b, <1>12, <2>1 DEF Unlink, StartLoad, LoadEnds, Crash
<1> QED
  BY <1>3, <1>4, <1>5, <1>6, <1>7, <1>8, <1>9, <1>10, <1>11, <1>12 DEF Next

LEMMA RecordedInvariance == Spec => []Recorded
<1>1. Init => Recorded
  BY DEF Init, Recorded
<1> QED  BY <1>1, Invariance, RecordedHolds, PTL DEF Spec

\* The state of the repository keeps its shape, through crashes and restarts.
THEOREM TypeCorrect == Spec => []TypeOK
<1>1. IInv => TypeOK
  BY DEF IInv
<1> QED BY <1>1, Invariance, PTL

\* The metadata files are the table, but for the one being written, whatever was
\* crashed, restarted, lost or cut before.
THEOREM MetadataIsTheTable == Spec => []SavedAsIs
<1>1. IInv /\ Recorded => SavedAsIs
  BY DEF IInv, Recorded, Records, UpAgrees, Agrees, SavedAsIs
<1> QED BY <1>1, Invariance, RecordedInvariance, PTL

\* A launch offers only files whose bytes are the ones promised.
THEOREM LaunchOffersValidFiles == Spec => LoadedReadyIsValid
<1> DEFINE Offer ==
      process = "loading" /\ process' = "up" =>
          \A n \in DOMAIN files' :
              files'[n].status = "READY" => IsValid(files'[n])
<1>1. ASSUME IInv, [Next]_vars PROVE [Offer]_vars
  <2>1. ASSUME process = "loading", process' = "up" PROVE LoadEnds
    BY <1>1, <2>1
       DEF Next, vars, IInv, Shape, InitMeta, FileChanges, AddFile, RemoveFile,
           LoadFails, LoadForgets, LoadReads, UpdateStat, AskReady, AskInvalid,
           ChangeState, Open, Dump, Unlink, StartLoad, Crash, CanStart
  <2>2. ASSUME LoadEnds, process = "loading" PROVE Offer
    BY <1>1, <2>2 DEF LoadEnds, IInv, LoadChecked
  <2> QED BY <2>1, <2>2
<1> QED BY <1>1, Invariance, PTL DEF Spec, LoadedReadyIsValid

-----------------------------------------------------------------------------
(* The refinement of Ledger *)

Page == IF process = "up" THEN [n \in DOMAIN files |-> Saved(files[n])]
                          ELSE [n \in {} |-> NoYaml]

Pen == IF op.at = "dump" THEN [on |-> op.name, record |-> Saved(op.meta)]
                         ELSE [on |-> NoYaml, record |-> NoYaml]

\* What load is about to write again is what it has read, corrected.
Reread ==
    process = "loading" /\ op.at = "open" =>
        /\ yaml[op.name] # Cut /\ yaml[op.name] # NoYaml
        /\ op.meta.wanted = yaml[op.name].wanted

LEMMA RereadHolds == IInv /\ Reread /\ [Next]_vars => Reread'
<1> SUFFICES ASSUME IInv, Reread, [Next]_vars, process' = "loading", op'.at = "open"
             PROVE  Reread'
  BY DEF Reread
<1>1. CASE UNCHANGED <<process, op, yaml>>
  BY <1>1 DEF Reread
<1>2. ASSUME NEW n \in Names, LoadReads(n)  PROVE Reread'
  <2> DEFINE m == [wanted |-> yaml[n].wanted, status |-> yaml[n].status, seen |-> disk[n]]
  <2>1. op' = Doing("load", "open", n, Checked(m), op.todo \ {n}) /\ yaml' = yaml
    BY <1>2 DEF LoadReads
  <2>2. Checked(m).wanted = m.wanted
    BY DEF Checked
  <2>3. op'.name = n /\ op'.meta.wanted = yaml[n].wanted
    BY <2>1, <2>2 DEF Doing
  <2>4. yaml[n] # Cut /\ yaml[n] # NoYaml
    BY <1>2, LoadingNow DEF LoadReads, IInv, LoadAgrees
  <2> QED  BY <2>1, <2>3, <2>4 DEF Reread
<1>3. ASSUME NEW n \in Names, LoadFails(n) \/ LoadForgets(n)  PROVE FALSE
  BY <1>3, FreeFields DEF LoadFails, LoadForgets, IInv, TypeOK, Operation
<1>4. CASE Open \/ Dump \/ Unlink \/ StartLoad \/ LoadEnds \/ Crash
  BY <1>4, FreeFields DEF Open, Dump, Unlink, StartLoad, LoadEnds, Crash, Doing, IInv,
                          TypeOK, Operation
<1>5. ASSUME NEW n \in Names, AddFile(n) \/ RemoveFile(n) \/ \E c \in Contents : InitMeta(n, c)
      PROVE  FALSE
  BY <1>5 DEF AddFile, RemoveFile, InitMeta, CanStart
<1>6. ASSUME NEW j \in jobs, ChangeState(j)  PROVE FALSE
  BY <1>6 DEF ChangeState, CanStart
<1>7. CASE \E n \in Names : \/ UpdateStat(n) \/ AskReady(n) \/ AskInvalid(n)
                            \/ \E c \in Contents \cup {Absent} : FileChanges(n, c)
  BY <1>1, <1>7 DEF UpdateStat, AskReady, AskInvalid, FileChanges
<1>8. CASE UNCHANGED vars
  BY <1>1, <1>8 DEF vars
<1> QED
  BY <1>2, <1>3, <1>4, <1>5, <1>6, <1>7, <1>8 DEF Next

LEMMA RereadInvariance == Spec => []Reread
<1>1. Init => Reread
  BY DEF Init, Reread
<1> QED  BY <1>1, Invariance, RereadHolds, PTL DEF Spec

LEMMA StartsAsLedger == Init => L!Init
  BY FreeFields DEF Init, L!Init, L!NoPage, L!NoPen

\* A step that leaves what is shown, kept and written alone is no step of it.
LEMMA SameLedger ==
  ASSUME UNCHANGED <<process, yaml>>, Page' = Page, Pen' = Pen
  PROVE  UNCHANGED L!ledgerVars
  BY DEF L!ledgerVars, Page, Pen

LEMMA AgreesAsLedger ==
  ASSUME process = "up", NEW n
  PROVE  L!Agree(n) <=> Agrees(n)
  BY DEF L!Agree, Agrees

\* A change of the table under a lock just taken.
LEMMA NotesAsLedger ==
  ASSUME IInv, op = Free, process = "up", UNCHANGED <<process, yaml>>, op'.at # "dump",
         NEW n \in Names,
         \/ \E m \in Meta : files' = With(n, m)
         \/ files' = Without(n)
  PROVE  L!Note(n)
<1>1. \A k \in Names : L!Agree(k)
  BY AgreesAsLedger DEF IInv, UpAgrees
<1>2. Pen = L!NoPen /\ Pen' = L!NoPen
  BY FreeFields DEF Pen, L!NoPen
<1>3. ASSUME NEW m \in Meta, files' = With(n, m)
      PROVE  Saved(m) \in SavedMeta /\ Page' = L!Entered(n, Saved(m))
  <2>1. files' = [k \in DOMAIN files \cup {n} |-> IF k = n THEN m ELSE files[k]]
    BY <1>3 DEF With
  <2>2. Page' = [k \in DOMAIN files \cup {n} |-> IF k = n THEN Saved(m) ELSE Saved(files[k])]
    BY <2>1 DEF Page
  <2> QED  BY <2>2, SavedTyped DEF L!Entered
<1>4. ASSUME files' = Without(n)
      PROVE  Page' = L!Struck(n)
  <2>1. files' = [k \in DOMAIN files \ {n} |-> files[k]]
    BY <1>4 DEF Without
  <2>2. Page' = [k \in DOMAIN files \ {n} |-> Saved(files[k])]
    BY <2>1 DEF Page
  <2> QED  BY <2>2 DEF L!Struck
<1> QED
  BY <1>1, <1>2, <1>3, <1>4 DEF L!Note, Page, Pen

LEMMA OpenAsLedger ==
  ASSUME IInv, Reread, Open
  PROVE  L!Blot(op.name, Saved(op.meta)) /\ op.name \in Names /\ Saved(op.meta) \in SavedMeta
<1>1. op.at = "open" /\ op.name \in Names /\ op.meta \in Meta /\ op.kind # "remove"
  BY DEF Open, IInv, Shape
<1>2. /\ yaml' = [yaml EXCEPT ![op.name] = Cut] /\ UNCHANGED <<process, files>>
      /\ op'.at = "dump" /\ op'.name = op.name /\ op'.meta = op.meta
  BY DEF Open, IInv, TypeOK, Operation
<1>3. process # "down" /\ op # Free
  BY <1>1, FreeFields DEF IInv, Shape
<1>4. CASE process = "up"
  <2>1. \A k \in Names \ {op.name} : L!Agree(k)
    BY <1>4, AgreesAsLedger DEF IInv, UpAgrees
  <2>2. op.kind \in {"init", "add", "change"}
    BY <1>1, <1>3, <1>4 DEF IInv, Shape, TypeOK, Operation
  <2>3. op.name \in DOMAIN files => Saved(op.meta) = Saved(files[op.name])
    BY <1>4, <2>2 DEF IInv, UpAgrees
  <2> QED  BY <1>1, <1>2, <1>4, <2>1, <2>3, SavedTyped DEF L!Blot, L!NoPen
<1>5. CASE process = "loading"
  <2>1. yaml[op.name] \notin {Cut, NoYaml} /\ op.meta.wanted = yaml[op.name].wanted
    BY <1>1, <1>5 DEF Reread
  <2>2. Promised(Saved(op.meta)) = Promised(yaml[op.name])
    BY <2>1 DEF Promised, Saved
  <2> QED  BY <1>1, <1>2, <1>5, <2>1, <2>2, SavedTyped DEF L!Blot, L!NoPen
<1> QED
  BY <1>3, <1>4, <1>5 DEF IInv, TypeOK

LEMMA DumpAsLedger ==
  ASSUME IInv, Dump
  PROVE  L!Write(op.name, Saved(op.meta)) /\ op.name \in Names /\ Saved(op.meta) \in SavedMeta
<1>1. op.at = "dump" /\ op.name \in Names /\ op.meta \in Meta /\ op.kind # "remove"
  BY DEF Dump, IInv, Shape
<1>2. yaml' = [yaml EXCEPT ![op.name] = Saved(op.meta)] /\ UNCHANGED process
  BY DEF Dump
<1>3. op'.at # "dump"
  BY FreeFields DEF Dump, IInv, TypeOK, Operation
<1>4. process = "up" => Page' = L!Entered(op.name, Saved(op.meta))
  <2> SUFFICES ASSUME process = "up"  PROVE Page' = L!Entered(op.name, Saved(op.meta))
    OBVIOUS
  <2>1. op.kind \in {"init", "add", "change"}
    BY <1>1, FreeFields DEF IInv, Shape, TypeOK, Operation
  <2>2. CASE op.kind = "init"
    <3>1. files' = [k \in DOMAIN files \cup {op.name} |->
                       IF k = op.name THEN op.meta ELSE files[k]]
      BY <2>2 DEF Dump, With
    <3>2. Page' = [k \in DOMAIN files \cup {op.name} |->
                      IF k = op.name THEN Saved(op.meta) ELSE Saved(files[k])]
      BY <1>2, <3>1 DEF Page
    <3> QED  BY <3>2 DEF L!Entered
  <2>3. CASE op.kind \in {"add", "change"}
    <3>1. files' = files /\ op.name \in DOMAIN files /\ Saved(files[op.name]) = Saved(op.meta)
      BY <2>3 DEF Dump, IInv, UpAgrees
    <3>2. Page' = [k \in DOMAIN files |-> Saved(files[k])]
      BY <1>2, <3>1 DEF Page
    <3>3. DOMAIN files \cup {op.name} = DOMAIN files
      BY <3>1
    <3> QED  BY <3>1, <3>2, <3>3 DEF L!Entered
  <2> QED  BY <2>1, <2>2, <2>3
<1>5. process # "up" => Page' = Page
  BY <1>2 DEF Page
<1> QED
  BY <1>1, <1>2, <1>3, <1>4, <1>5, SavedTyped DEF L!Write, L!NoPen, Page

LEMMA LaunchAsLedger == ASSUME IInv, LoadEnds  PROVE L!Open
<1>1. process = "loading" /\ op.at = "next" /\ op.todo = {}
  BY LoadingNow DEF LoadEnds
<1>2. process' = "up" /\ op'.at = "start" /\ UNCHANGED <<files, yaml>>
  BY FreeFields DEF LoadEnds
<1>3. \A n \in Names : yaml[n] = IF n \in DOMAIN files THEN Saved(files[n]) ELSE NoYaml
  BY <1>1 DEF IInv, LoadAgrees, Agrees
<1>4. DOMAIN files \subseteq Names /\ \A n \in DOMAIN files : Saved(files[n]) \in SavedMeta
  BY SavedTyped DEF IInv, TypeOK
<1>5. \A n \in Names : yaml[n] # Cut
  BY <1>3, <1>4, MarksDiffer
<1>6. {k \in Names : yaml[k] # NoYaml} = DOMAIN files
  BY <1>3, <1>4, MarksDiffer
<1>7. Page' = [n \in {k \in Names : yaml[k] # NoYaml} |-> yaml[n]]
  BY <1>2, <1>3, <1>4, <1>6 DEF Page
<1> QED
  BY <1>1, <1>2, <1>5, <1>7 DEF L!Open, L!NoPen, Page

LEMMA StepsAsLedger ==
  ASSUME IInv, IInv', Reread, [Next]_vars
  PROVE  [L!Next]_(L!ledgerVars)
<1>1. ASSUME NEW n \in Names, L!Note(n) \/ L!Erase(n)  PROVE L!Next
  BY <1>1 DEF L!Next
<1>2. ASSUME UNCHANGED <<process, files, yaml>>, op.at # "dump", op'.at # "dump"
      PROVE  UNCHANGED L!ledgerVars
  BY <1>2, SameLedger DEF Page, Pen
<1>3. ASSUME NEW n \in Names, NEW c \in Contents, InitMeta(n, c)
      PROVE  UNCHANGED L!ledgerVars
  BY <1>2, <1>3, FreeFields, SavingFields DEF InitMeta, CanStart
<1>4. ASSUME NEW n \in Names, AddFile(n)  PROVE L!Next
  <2> DEFINE m == [wanted |-> disk[n], status |-> "READY", seen |-> disk[n]]
  <2>1. m \in Meta
    BY <1>4 DEF Meta, Statuses, IInv, TypeOK, AddFile
  <2>2. files' = With(n, m) /\ op' = Saving("add", n, m) /\ op = Free /\ process = "up"
        /\ UNCHANGED <<process, yaml>>
    BY <1>4 DEF AddFile, CanStart
  <2>3. op'.at # "dump"
    BY <2>2, SavingFields
  <2> HIDE DEF m
  <2> QED  BY <1>1, <2>1, <2>2, <2>3, NotesAsLedger
<1>5. ASSUME NEW j \in jobs, ChangeState(j)  PROVE L!Next \/ UNCHANGED L!ledgerVars
  <2>1. op = Free /\ process = "up" /\ UNCHANGED <<process, yaml>>
    BY <1>5 DEF ChangeState, CanStart
  <2>2. CASE j.name \in DOMAIN files
    <3> DEFINE m == [files[j.name] EXCEPT !.status = j.status]
    <3>1. op' = Saving("change", j.name, m) /\ files' = With(j.name, m)
      BY <1>5, <2>2 DEF ChangeState
    <3>2. j.name \in Names /\ m \in Meta
      BY <2>2 DEF IInv, TypeOK, Meta, Statuses
    <3> HIDE DEF m
    <3>3. op'.at # "dump"
      BY <3>1, SavingFields
    <3> QED  BY <1>1, <2>1, <3>1, <3>2, <3>3, NotesAsLedger
  <2>3. CASE j.name \notin DOMAIN files
    BY <1>2, <1>5, <2>1, <2>3, FreeFields DEF ChangeState
  <2> QED  BY <2>2, <2>3
<1>6. ASSUME NEW n \in Names, RemoveFile(n)  PROVE L!Next
  <2>1. files' = Without(n) /\ op = Free /\ process = "up" /\ UNCHANGED <<process, yaml>>
    BY <1>6 DEF RemoveFile, CanStart
  <2>2. op'.at # "dump"
    BY <1>6 DEF RemoveFile, Doing
  <2> QED  BY <1>1, <2>1, <2>2, NotesAsLedger
<1>7. CASE Open
  BY <1>7, OpenAsLedger DEF L!Next
<1>8. CASE Dump
  BY <1>8, DumpAsLedger DEF L!Next
<1>9. CASE Unlink
  <2>1. /\ op.at = "unlink" /\ op.name \in Names /\ op.kind = "remove"
        /\ yaml' = [yaml EXCEPT ![op.name] = NoYaml] /\ op' = Free /\ UNCHANGED <<process, files>>
    BY <1>9 DEF Unlink, IInv, Shape
  <2>2. process = "up" /\ op.name \notin DOMAIN files
    BY <2>1, FreeFields DEF IInv, Shape, UpAgrees, TypeOK
  <2>3. L!Erase(op.name)
    BY <2>1, <2>2, FreeFields DEF L!Erase, L!NoPen
  <2> QED  BY <1>1, <2>1, <2>3
<1>10. ASSUME process' # "up", op'.at # "dump", UNCHANGED yaml
       PROVE  L!Close
  BY <1>10 DEF L!Close, L!NoPage, L!NoPen
<1>11. CASE StartLoad \/ Crash \/ \E n \in Names : LoadFails(n)
  <2>1. process' # "up" /\ op'.at # "dump" /\ UNCHANGED yaml
    BY <1>11, FreeFields DEF StartLoad, Crash, LoadFails, Doing
  <2> QED  BY <1>10, <2>1 DEF L!Next
<1>12. ASSUME NEW n \in Names, LoadForgets(n)  PROVE L!Next
  <2>1. process = "loading" /\ op.at = "next" /\ op'.at = "next" /\ yaml[n] # Cut
        /\ yaml' = [yaml EXCEPT ![n] = NoYaml] /\ UNCHANGED <<process, files>>
    BY <1>12, LoadingNow DEF LoadForgets, IInv, TypeOK, Operation
  <2>2. L!Erase(n)
    BY <2>1 DEF L!Erase, L!NoPen
  <2> QED  BY <1>1, <2>2
<1>13. ASSUME NEW n \in Names, LoadReads(n)  PROVE UNCHANGED L!ledgerVars
  BY <1>2, <1>13 DEF LoadReads, Doing
<1>14. CASE LoadEnds
  BY <1>14, LaunchAsLedger DEF L!Next
<1>15. ASSUME NEW n \in Names, UpdateStat(n)  PROVE UNCHANGED L!ledgerVars
  <2>1. files' = [files EXCEPT ![n].seen = disk[n]] /\ UNCHANGED <<process, yaml, op>>
    BY <1>15 DEF UpdateStat
  <2>2. DOMAIN files' = DOMAIN files
        /\ \A k \in DOMAIN files : Saved(files'[k]) = Saved(files[k])
    BY <2>1 DEF Saved, IInv, TypeOK, Meta
  <2>3. Page' = Page /\ Pen' = Pen
    BY <2>1, <2>2 DEF Page, Pen
  <2> QED  BY <2>1, <2>3, SameLedger
<1>16. CASE \/ UNCHANGED vars
            \/ \E n \in Names : \/ AskReady(n) \/ AskInvalid(n)
                                \/ \E c \in Contents \cup {Absent} : FileChanges(n, c)
  <2>1. UNCHANGED <<process, files, yaml, op>>
    BY <1>16 DEF vars, AskReady, AskInvalid, FileChanges
  <2> QED  BY <2>1, SameLedger DEF Page, Pen
<1> QED
  BY <1>3, <1>4, <1>5, <1>6, <1>7, <1>8, <1>9, <1>11, <1>12, <1>13, <1>14, <1>15, <1>16 DEF Next

\* The operations of the repository, cut anywhere by crashes, are a Ledger: a
\* launch shows what is kept, and nothing else changes what was promised.
THEOREM RepositoryIsALedger == Spec => KeepsALedger
<1>1. IInv /\ IInv' /\ Reread /\ [Next]_vars => [L!Next]_(L!ledgerVars)
  BY StepsAsLedger
<1> QED
  BY <1>1, StartsAsLedger, Invariance, RereadInvariance, PTL DEF Spec, KeepsALedger, L!Spec

=============================================================================
